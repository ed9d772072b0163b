# usbws: a TLA+ verification of the tunnel

The program (`src/`) is `usbws`: it bridges a serial device, or a TCP port, between two machines
through an encrypted relay. This directory holds TLA+ modules of its concurrent and persistent
parts, the TLC configurations that check them, and TLAPS proofs.

Paths of the program are written as in the repository (`tcp.rs` is `src/src/tcp.rs`).

## 1. Inventory

| Part | State | Operations | Correct when |
|---|---|---|---|
| TCP tunnel (`tcp.rs`) | connection map, out queue, a channel per connection, one reader and one writer task per connection, the session loop, the acceptor's id cursor | accept, OPEN / DATA / CLOSE in both directions, dial, reconnect | bytes reach their own socket in order, ids are released after use, the end of a stream comes after all of it. Not throughout: an id is exclusive, and no task waits for itself, only within the limits of section 3 |
| Serial bridge (`main.rs` 415-617) | two threads, two channels, the session loop | device read and write, relay frames, EOF, EIO, Ctrl-C, reconnect | bytes in order, none lost while the link is up, unplugging ends it |
| Relay session (`relay.rs`, `tcp.rs` 240-305, 381-452) | connection phase of each process, its websocket, whether it has a peer | connect, handshake, introduce, await and accept an initiator, back off, Ctrl-C | reconnects after every failure; both ends meet |
| Authorized table (`authorized.rs`) | one text file, no lock | load, contains, add; the decision in `authorize_initiator` | a gate that pins serves only who is listed, or came first and could not be saved; nobody is dropped |
| Identity file (`idfile.rs`) | one text file, no lock | exists, load, parse, create | one identity per user, for good |
| `scripts/usbws-mount` | shell variables, the tunnel process, usbip ports | start, wait, list, attach, cleanup trap | whatever interrupts it, its tunnel is stopped and its devices detached, as far as usbip obeys |
| Wire format (`proto.rs`) | none | builders and decoders of frames | what a party sealed opens as its own and nowhere else; no slice is out of range |
| Command line (`main.rs` 60-280) | none | parse, dispatch, resolve the peer | a port or target is never taken for the peer, an option means what the usage text says. Of a repeated option the last one counts, and nothing is said of it |
| Start-up (`main.rs` 283-413, `tcp.rs` 196-280) | serial port, pseudo-terminal, symlink, listening port | system calls in a row | the name given with `--link` leads to the terminal, across restarts |
| Ticker (`stat.rs`) | two counters, their last values | count, load, print | no burst is missed, the LEDs go off again |
| `bin/*.sh` | as `usbws-mount` | live tail, UART loopback test | Ctrl-C and every error end them with nothing left behind |

How they interact. Socket tasks and device threads push frames into one bounded queue that the
session loop drains onto the websocket; the session loop routes what arrives into the bounded
channel of a connection (or device) and *waits* when it is full. The relay passes frames on to
an end that has completed a handshake and loses them otherwise. `tcp-connect --accept` decides
by the authorized table; every run mode loads the identity file first; `usbws-mount` runs
`tcp-listen` as a child and waits for its log to say "tunnel ready"; the scripts in `bin/` wait three
seconds instead, and share its port and devices with each other.

What is hard: one loop is at once the only consumer of a queue and a producer for it; a
one-byte id is shared by two processes that allocate and free it separately; links drop frames;
processes restart with empty memory against a peer that kept its own; two text files are checked
and written by several processes without a lock; a shell trap runs between any two commands.
`PROJECT.json` lists each such place under `hazards`, with the properties aimed at it.

## 2. Modules

| Module | Models | Lines up with |
|---|---|---|
| `StreamPromise` | the abstract promise: a connection is two streams; chunks may be lost, never reordered, repeated or mixed | `tcp.rs` 378-380 |
| `TcpTunnel` | home (`tcp-listen`) and gate (`tcp-connect`), their tasks and the link | `tcp.rs` |
| `TcpTunnelProofs` | theorems about `TcpTunnel` | |
| `SerialBridge` | `share` and `attach` around `bridge()` | `main.rs` 415-617 |
| `SerialBridgeProofs` | theorems about `SerialBridge` | |
| `WireFormat` | frames with symbolic keys; the lengths decoders check before they slice | `proto.rs` |
| `RelaySession` | how two initiators and a gate connect, introduce themselves, are accepted or rejected, reconnect and stop | `relay.rs`, `tcp.rs` |
| `RelaySessionProofs` | theorems about `RelaySession`, and about the lengths of `WireFormat` | |
| `AuthorizedTable` | gates and `usbws authorize` on one table | `authorized.rs`, `tcp.rs` 318-361 |
| `AuthorizedTableProofs` | theorems about `AuthorizedTable` | |
| `IdentityFile` | processes on one identity file | `idfile.rs` |
| `IdentityFileProofs` | theorems about `IdentityFile` | |
| `StartUp` | processes on one machine, from the command line to the session | `main.rs` 60-413, `tcp.rs` 196-316 |
| `StartUpProofs` | theorems about `StartUp` | |
| `StatTicker` | the traffic counters and their ticker, as a part of `StartUp` | `stat.rs` |
| `UsbwsMount` | runs of the script on one machine | `scripts/usbws-mount` |
| `UsbwsMountProofs` | theorems about `UsbwsMount` | |
| `UartScripts` | a run of each test script on one machine | `bin/read_wsuart.sh`, `bin/test_wsuart.sh` |
| `UartScriptsProofs` | theorems about `UartScripts` | |
| `MC*` | constants for TLC | |

**Atomicity.** One action is the code between two points where a task or thread can be
suspended (an `.await` that may wait, a blocking call, a command of the script, one system call
on a file). In `TcpTunnel` the session loop therefore has a state for each place inside
`handle_incoming` where it can wait (`dial`, `reply`, `data`, `shut`), and holds the frame and the
cloned sender it works with; the acceptor has one before and one after it sends OPEN. A map
access under the lock is part of the step around it.

**Data.** In `TcpTunnel` and `SerialBridge` a frame carries the connection it belongs to and the number
of its chunk, so that properties can say whose bytes arrived where. The modelled code never reads
these: it routes by `conn_id` alone. A frame that does not decrypt or is too short is dropped by the
code and has no effect there. In `RelaySession`, where it matters who signed what, frames are those of
`WireFormat`: a party stands for its two keypairs and its id, a shared secret is the pair of parties,
and a packet opens with the secret and the signature it was made with. Payloads, nicks and log
lines are left out everywhere.

**The relay** is external. It delivers in order to an end that has a session and loses everything
else. A failing link loses what is under way to that end and any tail of what it sent. In
`RelaySession` the relay may hold introductions for an absent end (`Holds`); the run sets this to
TRUE, the kinder assumption: without it an accepting gate depends on being there first.

**Mutants.** Next to an action may stand a variant of it marked `mutant`, with a mistake a
programmer could make. It is used by no specification; `PROJECT.json` names the property that finds it.

### TcpTunnel in short

`conns[e][id]` is `ConnMap`; `chan[e][c]` a connection's channel; `out[e]` the out queue; `loop[e]`
where the session loop is. `AcceptAlloc`, `SendOpen`, `SpawnLocal` are the acceptor;
`ReadChunk`, `ReadEnd` the reader task; `WriteChunk`, `WriterBreak`, `WriterOrphaned`, `WriterExit`
the writer task (`WriterExit` removes the entry under its id whoever holds it, as line 589 does);
`RecvOpen`, `RecvData`, `RecvClose`, `RecvUnknown` are `handle_incoming` up to its first wait,
`Dialed`, `DialFailed`, `Reply`, `Deliver*` what follows. `Kill` restarts a process with nothing in memory.

### RelaySession and StartUp in short

In `RelaySession` each end is at one of the points where its code waits: `dial`, `hello` (the reply to the
handshake), `await` (an initiator), `serve`, the two back-offs, `exit`. `HelloOk` ends in `serve` or
`await`, depending on whether there is a peer; `AwaitIntro` and `AwaitReject` are the two outcomes of
`authorize_initiator`; `Command` carries out what the peer's keys open. The guest is an initiator who
knows the gate's invite but may not be on its table.

The gate's `policy` is fixed at its start: it was given its `peer`, it consults the `table`, or
USBWS_NO_PINNING makes it pin `none`. `listed` is what its table holds. `Authorized` is the decision:
everybody without pinning, anybody while the table is empty, otherwise the listed. In the second
case `Remember` appends the initiator; the append may fail, which counts as a fault, and the gate accepts
all the same: then `unsaved` notes who is served without being listed. `AwaitReject` is also taken when the table
cannot be read (a fault, too). What concurrent processes do to the file is the subject of
`AuthorizedTable`, whose decision is the same.

In `StartUp` a process parses its line (`Dispatch`), then takes one system call after another
(`LoadIdentity`, `OpenSerial`, `open_pty`, `RemoveLink`, `SymLink`, `BindPort`, `CheckTarget`, `FromEnv`), any of
which may end it as the `?` in the code does. `parse` is a recursive function over the arguments; the
property `Understood` compares what main makes of a line with the usage text read declaratively.

### The scripts in short

One action is one command. `usbip attach` may fail, and the scripts say so; in cleanup `usbip port` and
`usbip detach` may fail and nobody notices. In `UsbwsMount` such a failure of `Ports` or `Detach` puts the run
into the history variable `missed` (until it cleans up anew); in `UartScripts` `Detach` leaves the device
where it is. A device goes down with the tunnel it is attached through, whoever attached it.

### Starts of the tunnel

In `TcpTunnel`, `Init` has both processes just started, `InitReady` both connected, which is what
`usbws-mount` waits for before a program connects. Runs that ask about data start from `InitReady`,
since before it frames are lost for lack of a peer.

## 3. What is checked

Passing runs (`<run>.cfg`):

| Run | Shows |
|---|---|
| `tunnel_mux` | no link failure: each socket is given exactly its own stream, without gaps; the gate's writer ends only after all bytes; a writer is told to stop only when its peer's reader has; entries stay while their writer runs |
| `tunnel_faults` | two connections forced onto one id, a link failure, a restart: types, OPEN before everything of its connection, no dangling map entry |
| `tunnel_streams` | with a link failure and a restart of the gate: the tunnel implements `StreamPromise`; liveness: no id leaks, also after failed dials and failed writes, as long as no link fails and `PromptSpawn` holds (below) |
| `serial_bridge` | with a link failure and Ctrl-C: the bridge implements `StreamPromise`; until a link has failed, what was read is, in order, written or on its way; liveness: unplugging ends the process, no standstill with both directions full, a passing EIO ends nothing |
| `session_meet` | the gate serves one initiator, whoever else knows its invite: the peer it was given, or one it lists, unless it pins nobody or could not append its first; liveness: reconnection again and again while the process lives, meeting of both ends for good, acceptance behind a rejection; a process comes by a point that listens to Ctrl-C again and again, even if the relay never comes back |
| `authorized_sessions` | gates serve only the listed, appends drop nobody, an authorization reported as done is on file |
| `identity_shared` | no keypair mixed from two; a settled identity stays |
| `mount_cleanup` | however interrupted, the script ends with the tunnel it knows of stopped and its devices detached, but for those that a failed usbip command left to the tunnel of another run |
| `startup` | any command line of up to three arguments is understood as the usage text says or refused; `--link` leads to the terminal of an attach in session, also with a rival for the path and over stale links; the LEDs follow the traffic |
| `uart_scripts` | however interrupted and whatever usbip command fails, either script ends with its device detached and its tunnel stopped; a Ctrl-C that finds the tunnel running ends it; the test ends by itself |

Runs that TLC must refute, each with one property quoting what the repository says of itself:

| Run | The code |
|---|---|
| `tunnel_half_close` | answers a failed local write with CLOSE, which stops the *other* direction at the peer |
| `mount_others` | detaches devices of another run |

### Known limits

The premises of the passing properties mark where the code does less than one might expect. The
models reach each of these states; the hazard at the line in `PROJECT.json` names it.

- An id is free as soon as the writer exits, while the connection's reader may still send under it
  (`tcp.rs` 632); after a restart of home an OPEN takes over the entry of a running writer, whose exit
  then removes its successor's entry (`tcp.rs` 589). So `NoGap` and `RunningIsRouted` are checked without
  restarts and with an id per connection, and proved under `IdsApart` (section 4).
- The session loop's own CLOSE needs room in the queue only it drains (`tcp.rs` 551). `tunnel_streams`
  gives it that room; with `OutCap = 1` it deadlocks.
- A reply that overtakes `spawn_connection` is dropped (`tcp.rs` 519): `PromptSpawn`.
- A link failure loses the frame in hand and what is under way, and the stream goes on with a hole
  (`tcp.rs` 431): `StreamPromise` allows loss, `NoGap` is checked without failures. A lost CLOSE leaks its id.
- A device that answers EIO for ever is polled for ever (`main.rs` 597), although the comment above
  the loop says "a genuine EOF/EIO ends the loop" (569-571); only EOF does. After a failed device write
  everything the peer sends is discarded (`main.rs` 563).
- Neither handshake nor session has a time-out, so a link that dies without a sign is waited on for
  ever (`relay.rs` 86): `Ways = {"cut"}`.
- An introduction lost with the gate's link is not repeated (`Accepts` is about runs without failures);
  frames home sends while the gate reconnects after accepting it are lost.
- Under USBWS_NO_PINNING a gate serves whoever introduces itself first, and records nobody (`tcp.rs`
  319-326). A first initiator that cannot be appended is served all the same (341-344); the table is then as
  empty as before, so that after a restart the next one that comes is the first. A table that
  cannot be read makes the gate reject everybody (327-333). `ServesListed` and `SessionAuthorized` state these
  exceptions. Of the one-line form `hex hex` that the comment on `parse_identity` accepts
  (`idfile.rs` 56-57) the code makes nothing: it takes each line for one number, and the start
  fails. The model has it as the code does, with hand-written files among its initial ones.
- An append behind an unfinished line (one a failed append, or a hand, left without newline) spoils
  both entries: the properties of `AuthorizedTable` say nothing from then on (`torn`). Two processes may
  append the same key, or trust on first use a table that has just been filled.
- Two first runs at the same moment use two identities, of which one is kept; a start between
  another's truncating open and its write fails. `SettledForGood` begins after these.
- A signal between starting `usbws` and noting its pid leaves it running (`usbws-mount` 93); the scripts
  in `bin/` stop also that one with `pkill -f`, unless it is forked and not yet the program.
- `usbws-mount` swallows failures of `usbip port` (67, `2>/dev/null`) and `usbip detach` (69, `|| true`) and says
  "done". A device that was attached through its own tunnel goes with that one; one attached through the tunnel of
  another run, which held the port first, stays attached. `LeavesNothing` has this as its exception
  (`missed`). The test scripts swallow the same failures, but their teardown kills every tunnel on the port,
  and the device with it.
- `read_wsuart.sh` does not exit in its INT trap. A Ctrl-C before the tunnel runs is swallowed: teardown
  runs, and the script starts the tunnel all the same. While another run's tunnel serves the port,
  `usbip` succeeds through that one and the script goes on as well. `CtrlCEnds` excludes both.
- Each run of a `bin/` script kills the tunnels and detaches the devices of the others, when it starts
  and when it ends: `NothingLeft` says only that nothing is left, not that nothing is taken.
- Nobody removes the `--link` symlink when an attach ends; its number goes to another terminal.
  Of two attaches that race for a path one goes on without the link (`main.rs` 353).
- A flag without `=` takes the next word: `tcp-connect --accept host:1` has no target and prints the
  usage. Of an option given twice the last one counts, without a word. `--baud` is ignored by attach.
- `Relay::from_env` panics over a bad `USBWS_SERVER_*` key after link and port have been made.

### Bounds

- *Queues* of 512 and 256 become 1, 2 or 4: the code distinguishes empty, has room and full, and
  the waits on a full queue come up at once. `tunnel_streams` has `OutCap = 4`, as with room for
  every frame the self-wait does not come up and the question is the ids.
- *Ids*: 256 become 1 or 2, so that two connections exhaust or share them and the cursor wraps.
- *Connections*: 2 where the question is about two (sharing an id, mixing), else 1. They are
  interchangeable; the safety runs use symmetry, the liveness runs do not.
- *Chunks*: up to 3 per socket or device; a gap, a swap and a repetition need two; with three the
  loops of both ends wait on full channels while a device's bytes wait for them.
- *Failures*: one link failure (`MaxDrops`) and one restart of a process (`MaxKills`), and in `session_meet` one
  fault of any kind (`MaxFaults`: a link failure, a refused handshake, a relay restart, a table that cannot be
  read or appended to): each interleaving of a failure with everything else. Failing usbip commands
  have no bound. The theorems have any number.
- *Initiators*: home and a guest. The guest's own link does not fail in the run (`Fragile`), as nothing the
  gate does depends on it; one frame stands for a command (`MaxFrames`).
- *Processes*: 3 gates or identity users, 2 runs of a script, 2 devices, 2 processes that start: enough
  for a step of a second between any two of the first.
- *Command lines*: all of up to three arguments from the words and flags each command knows, in both
  forms of a flag, also repeated; the second process has two lines, which compete for the link
  and the port. Each starts twice (`MaxStarts`): the second start meets the first one's link.
- *Counters*: one byte per direction (`MaxBytes`); what counts is in which gap of the ticker it comes.
  The code's are u64 and do not wrap in practice, which the model takes for granted.
- *Repetitions*: load_or_create is called up to five times, appends and writes fail once, a script
  gets one signal.

Every bound is a constant named `Max*`, `Chunks`, `*Cap` or a set, guarded in one action.

`CHECK_DEADLOCK FALSE` is set everywhere: programs close their sockets, scripts end, processes
exit, and when the bounded inputs are used up nothing remains to be done. Standstill that must not
happen is stated as liveness (`IdsReleased`, `ReadsFlow`, `Meet`, `InterruptEnds`, `CtrlCEnds`, `TestEnds`).

### Fairness

- Tasks and threads that can go on do so (tokio and the kernel schedule them): weak fairness per
  task. `select!` picks ready branches at random; since a behaviour has finitely many frames, weak
  fairness of the whole loop says enough.
- `TcpTunnel`: programs end their streams sometime, a dial succeeds or fails, a write succeeds or
  fails. The code has no time-out for any of these, so they are assumptions about the surroundings.
- `PromptSpawn` (in `IdsReleased`): nothing of a connection comes back before the acceptor has
  registered it. The code relies on a round trip taking longer than a local task switch.
- `RelaySession`: a live relay answers and delivers the introductions it holds. It may stop and stay away; `Reconnects` and `Meet` have its
  return as a premise (`RelayReturns`), `Stoppable` does not. Users may press Ctrl-C or not; `Meet` and
  `Accepts` are about behaviours in which nobody does (`NobodyStops`).
- `SerialBridge`: the threads are scheduled, connecting succeeds in the end, a device takes its bytes or
  fails. It need not yield any: `EioPasses`, which is about a device that does, has that as a premise.
- `StartUp`: only the ticker, whose sleep ends. `UartScripts`: commands end, a fork is followed by its exec.
- `UsbwsMount`: commands end. `usbws` need not, the user need not interrupt.

No fairness is assumed of failures, closing devices or users elsewhere.

## 4. What is proved

Every safety invariant of section 3 is a theorem, for every value of the constants that meets the
assumption beside them (`TunnelAssumption`, `BridgeAssumption`, ...: the types, and that none-values are
distinct from others) and without the bounds of the runs. Every type invariant is, too (`TypeCorrect` in each
`*Proofs`). A premise that goes beyond the assumption is named below.

Each proof follows one pattern: an inductive invariant, checked with TLC first; one lemma per action or
group of actions; a temporal theorem that combines `Init => Inv`, `Inv /\ [Next]_vars => Inv'` and
`Inv => property` by PTL.

### TcpTunnel

Any set of connections, number of ids, capacities, chunks, link failures and restarts; both kinds of
start (`Spec`, `ReadySpec`) unless said otherwise. Without further premises:

- `EntriesLiveInvariant`: `EntriesLive`, no dangling entry in a connection map;
- `OpenLeadsInvariant`: `OpenLeads`, OPEN is ahead of everything else of its connection.

`EntriesLive` alone is not inductive. `IInv` adds that every frame, in a queue, on the wire or in the
session loop's hands, carries the id its connection was given (`FramesTagged`), and that a connection
nobody accepted has no tasks, frames or map entries (`UnseenIdle`): only then does a `Dialed` or
`SpawnLocal` enter a connection under the id it has. `OpenLeads` needs in addition that nothing of a
connection is under way before its OPEN is queued, that OPEN is sent once, and that a connection's
reader starts after it (`LeadsInv`). Cutting the wire keeps prefixes, which keep the order.

The others fail once an id goes to another connection while something of the first is under way (section 3,
known limits). They are proved of the behaviours in which no two accepted connections have the same id,
`[]IdsApart`:

| Theorem | Says | Further premises |
|---|---|---|
| `RoutedWhileApart` | `RunningIsRouted` | |
| `TunnelKeepsItsPromise` | `StreamsKept`: the tunnel implements `StreamPromise` | |
| `HalfCloseHonored` | `HalfClose` | no socket fails a write (`Fragile = {}`) |
| `NoGapInvariant` | `NoGap` | `ReadySpec`; no link failure, no restart (`Calm`) |
| `CloseAfterAllInvariant` | `CloseAfterAll` | `ReadySpec`, `Calm` and `Fragile = {}` |

The premises are there because the code does less without them: `tunnel_half_close` refutes `HalfClose` with
one failed write, a failed link loses what it carries. `ReadySpec` is the start the runs ask about; from `Init`
the last two are not proved. `IdsApart` is not left as a premise about behaviours: `EnoughIds` proves it from the constants, for
a home that is not restarted (`Mortal \subseteq {"gate"}`) and has no more connections than ids, by
counting: ids are given in order (`Numbered`), and the cursor has not come round. Connections that
find no id (`AcceptFull`) count as well. `TunnelWithinIds` restates all five from the constants alone: one run of
`tcp-listen` that serves up to 256 connections in its life.

How they go:

- *Routing.* `RouteInv` adds to `RunningIsRouted` that what is in a channel or on its way there belongs
  to that connection (`OwnFrames`). An entry found under the id of a frame is then the frame's own.
- *Refinement.* The chunks of a connection on their way to one end are at six places: given, in the
  channel, in the loop's hands, on the wire, in the other end's out queue, sent. `FlowInv` says that their
  numbers rise along these (`Chain`) and within each queue (`Rising`). A chunk that moves keeps that; a
  loss only thins a place out; so `ReadChunk` is the promise's `Send`, `WriteChunk` its `Deliver` of a
  later chunk, and every other step a stutter.
- *Half-close.* `EndInv` follows CLOSE along the same places: no chunk of a connection is behind its
  CLOSE (`Words`), a CLOSE under way or a writer that has stopped means that a reader has ended (`Settled`). It
  rests on `TaskInv` and `Once`: both tasks of a connection start together, once, and its OPEN comes once.
- *No gap.* Without failures only a connection that has ended here, or that is not registered yet,
  loses chunks. `FillInv` says so: of the chunks under way, all after one of them are under way too
  (`Up`); a writer that is owed them (`Due`: running at the gate, running at home and given one, or dialed) has
  every chunk after its last one under way (`Full`); and nothing is given before the tasks run (`Silent`).
- *Close after all.* `Told` puts the two together: behind the CLOSE at the head of a channel nothing of
  the connection is under way, so that the last chunk given is the last one sent.

### SerialBridge

Any capacities, number of chunks and of link failures, both kinds of start.

- `NothingLostAlways`: `NothingLost` from `ReadySpec`. `Journey(e)` strings together what is written, in the
  net channel, in hand, on the wire and in the device channel. Each step leaves it as it is, appends the
  chunk just read, or drops some of it (`Moved`); the last takes a failed link or a stopped or ended
  process, which `Linked` establishes.
- `BridgeKeepsItsPromise`: `LineKept`, the refinement of `StreamPromise`, whatever fails: the journey is in the
  order of reading at all times (`Ordered`), since what a step drops leaves an ordered sequence.

### The two files

`AuthorizedTableProofs`, for any numbers of gates, `authorize` runs, owners, failures and restarts and
whatever file there is at the start: `SessionAuthorizedInvariant`, `RecordedInvariant`, and the action property
`AuthorizationsKept` (`NobodyDropped`). `SessionAuthorized` is not inductive: a gate that has appended its first
initiator serves it because the append adds exactly that entry and keeps the others, which is so only
behind a newline. `IInv` adds this (`Ended`) and the types; `AppendKeeps` is the lemma about the file,
`ListedKept` what every step does to the entries.

`IdentityFileProofs`, for any numbers of processes, starts and failed writes and any file at the start:
`IdentityStays`, the action property `SettledForGood`, with the invariant that a file that does not exist
holds nothing and a process writes to one it has opened (`Opened`); and `PairsStayWhole`, `WholePairs`, from
`OnePair`: what is in the file, in a process' memory and in use are pairs of one process. Its premise
`OldFilesWhole` says that the files found at the start were not themselves put together of two keypairs, which
no code could notice. Lemmas about `Min` and `Max` say what parsing finds of the lines `create` writes.

### RelaySession and WireFormat

Any way and number of failures, any policy and table, either kind of relay, any number of commands:
`ServesListedInvariant`, the gate carries out commands of one initiator only, and one that consults its table
only of a listed one or of a first one it could not append. `ServesListed` is not
inductive: that an introduction names an initiator and that initiators are sent no commands depends on
what lies in the inboxes. `IInv` adds what may lie there (`Boxes`), that initiators have the gate for a
peer, and that a gate without a peer has served nobody (`Paired`). The lemmas on keys say that a frame
made for a party reaches it and opens there (`Addressed`, `OpensAsSealed`) and that what opens as a peer's was
signed by the peer (`PeerSigned`). These are facts about the symbolic frames of `WireFormat`, under the
usual idealization: a secret belongs to two parties, and nobody signs for another.

Of frames of every length, without assumptions: `IncomingInRange` and `IntroductionInRange`, after its checks
no decoder takes a slice out of range, down to the keys and the nick of an introduction; `FramesFit`, the
checks refuse no frame the builders make.

### StartUp and the scripts

`LinkLeadsAlways`: `LinkLeads`, for any number of processes, starts and command lines. Its invariant is about
when each process passed the path: two attaches that ask for it at once know of each other (`Mutual`);
an empty path was cleared by one that is still to link it (`Vacant`); otherwise what is there was put
there by an owner whom everybody that has cleared the path knows of (`Owned`). `Core` supplies what
a process at each point of its start has in hand, and that no two hold one terminal.

`LeavesNothingBehind` (`UsbwsMount`): `LeavesNothing`, for any number of runs, devices (finitely many, as
`usbip list` enumerates them) and signals, and any failures of usbip. `Clean` holds it from the first command on:
a run has no device before its first attach, nor after its last detach unless it is in `missed` (`HoldsNone`);
between, every device of its own is on the list it detaches (`OnTheList`); the pid is noted after the launch
(`PidInTime`), and its tunnel is dead after the kill (`Stopped`). The exception is bounded by two more facts:
what is attached goes through a ready tunnel (`Carried`), and a run that has attached anything has
noted its pid (`Noted`), so that its own tunnel is stopped and cannot be the one that carries the device.

`NothingLeftBehind` (`UartScripts`): `NothingLeft`, for any number of runs of both scripts; what teardown has
freed and stopped stays so, whatever other runs do (`Clean`). As usbip may fail, it is the
`pkill` that frees the device for sure, which takes that the device goes through a tunnel that runs (`Carried`);
that no tunnel runs before its launch, also in a script that goes on after its trap, is `Unlaunched`.

### Only model-checked

The two counterexamples, and:

- Liveness (`IdsReleased`, `UnplugEnds`, `ReadsFlow`, `EioPasses`, `Reconnects`, `Meet`, `Accepts`, `Stoppable`,
  `InterruptEnds`, `CtrlCEnds`, `TestEnds`, `LedsFollow`) and with it fairness and ENABLED: out of the prover's
  reach.
- `Understood`: what the recursive `parse` makes of every command line takes induction over data.

## 5. Plan

Done: all components with behaviour are modelled; every safety invariant and both refinements are
proved. What is left to prove:

1. `AuthorizedTable` and `IdentityFile` after a failed write: what still holds of a torn file (that
   an append behind it changes no more than the lines next to it).
2. `TcpTunnel`: `HalfClose` per direction when one side's sockets fail, from `Fragile` instead of its emptiness.
3. `SerialBridge`: what `NothingLost` becomes after a link failure (what is lost was on the wire or in hand).
4. `StartUp`: a step-wise lemma for `parse`, as far as one goes without induction.

## 6. Not modelled

- The primitives of `proto.rs` (X25519, ChaCha20, Ed25519) and the bytes they produce: nonces, the base64
  form of an invite, nicks. A header that by chance uncovers to eight zero bytes under the wrong key.
- Ping and Pong, PEER_ONLINE notes, the u16 numbers of messages: nobody acts on them.
- Terminal modes and `--baud`; what commands and log lines print, except the ticker's flags.
- An argument that is `--` alone or has an empty name.
- Partial writes of a device or socket: a write delivers its chunk or fails.
- `bin/read.sh`, which kills a cat and exits; the hex form of `read_wsuart.sh`'s output.
- Windows builds (`cfg(not(unix))`).
