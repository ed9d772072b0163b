------------------------------ MODULE TcpTunnel ------------------------------
(***************************************************************************)
(* The TCP port-forward tunnel of src/src/tcp.rs: several TCP connections  *)
(* multiplexed, by a one-byte conn_id, over one relayed peer link.         *)
(*                                                                         *)
(* "home" is the `tcp-listen` process, "gate" the `tcp-connect` process.   *)
(* At each end run one session loop, which alone owns the websocket, and   *)
(* per connection a reader task (socket -> out queue) and a writer task    *)
(* (connection channel -> socket); home also runs the acceptor.  One       *)
(* action is the code a task runs between two points where it can be       *)
(* suspended.                                                              *)
(*                                                                         *)
(* A member of Conn is one TCP connection accepted at home together with   *)
(* the socket the gate dials for it.  Frames carry it so that properties   *)
(* can say whose bytes went where; the code only ever reads the conn_id.   *)
(***************************************************************************)
EXTENDS Naturals, Sequences

CONSTANTS
  Conn,       \* the connections local programs open at home
  NoConn,     \* "no connection": an absent map entry
  NumIds,     \* how many conn_ids there are: 2^8 in the code
  OutCap,     \* OUT_QUEUE: capacity of the queue towards the relay
  ConnCap,    \* CONN_QUEUE: capacity of one connection's channel
  Chunks,     \* bound: chunks a socket yields to its reader, at each end
  MaxDrops,   \* bound: relay link failures
  MaxKills,   \* bound: process restarts
  Mortal,     \* the ends whose process may be killed and restarted
  Fragile     \* the ends whose sockets may fail a write

End == {"home", "gate"}

ASSUME TunnelAssumption ==
  /\ NoConn \notin Conn
  /\ NumIds \in Nat \ {0}
  /\ OutCap \in Nat \ {0} /\ ConnCap \in Nat \ {0}
  /\ Chunks \in [End -> Nat]
  /\ MaxDrops \in Nat /\ MaxKills \in Nat
  /\ Mortal \subseteq End /\ Fragile \subseteq End

VARIABLES
  fresh,      \* connections no local program has opened yet
  acceptor,   \* acceptor task: [at, conn]
  nextId,     \* the acceptor's round-robin cursor
  connId,     \* conn_id allocated to a connection (meaningful once accepted)
  conns,      \* ConnMap of each end: conn_id -> connection
  reader,     \* reader task of each end and connection
  writer,     \* writer task of each end and connection
  chan,       \* channel that feeds each writer
  sent,       \* chunks each reader took from its socket and framed
  got,        \* payloads each writer wrote to its socket, in order
  out,        \* out queue of each end
  loop,       \* session loop of each end: [at, frame, tx]
  link,       \* whether the end's websocket to the relay is alive
  wire,       \* frames on their way to each end
  drops,      \* link failures so far
  kills       \* restarts so far

acceptVars == <<fresh, acceptor, nextId, connId>>
taskVars   == <<conns, reader, writer, chan>>
dataVars   == <<sent, got>>
netVars    == <<link, wire>>
faultVars  == <<drops, kills>>
vars == <<acceptVars, taskVars, dataVars, out, loop, netVars, faultVars>>

Ids   == 0 .. NumIds - 1
Other(e) == IF e = "home" THEN "gate" ELSE "home"

\* A peer frame.  n numbers the chunk a DATA frame carries, from 1.
Frame == [cmd : {"OPEN", "DATA", "CLOSE"}, id : Ids, conn : Conn, n : Nat]
MkFrame(cmd, id, c, n) == [cmd |-> cmd, id |-> id, conn |-> c, n |-> n]

\* What a writer hands to its socket.  The channel holds the routed frames:
\* DATA stands for WrMsg::Data(payload), CLOSE for WrMsg::Shutdown.
Payload == [conn : Conn, n : Nat]
PayloadOf(f) == [conn |-> f.conn, n |-> f.n]

\* The frame the session loop is handling, if any.
NoFrame == [cmd |-> "NONE", id |-> 0, conn |-> NoConn, n |-> 0]

\* Points at which the session loop can be suspended: waiting to reconnect,
\* in select!; dialing the target, waiting to push a CLOSE of its own into the
\* out queue; waiting to push into a connection's channel.
LoopState == [at : {"down", "select"}, frame : {NoFrame}, tx : {NoConn}]
             \cup [at : {"dial", "reply"}, frame : Frame, tx : {NoConn}]
             \cup [at : {"data", "shut"}, frame : Frame, tx : Conn]
Idle(at) == [at |-> at, frame |-> NoFrame, tx |-> NoConn]

\* Points at which the acceptor can be suspended.
AcceptorState == [at : {"accept"}, conn : {NoConn}]
                 \cup [at : {"open", "spawn"}, conn : Conn]

TypeOK ==
  /\ fresh \in SUBSET Conn
  /\ acceptor \in AcceptorState
  /\ nextId \in Ids
  /\ connId \in [Conn -> Ids]
  /\ conns  \in [End -> [Ids -> Conn \cup {NoConn}]]
  /\ reader \in [End -> [Conn -> {"none", "open", "done"}]]
  /\ writer \in [End -> [Conn -> {"none", "run", "stop", "done"}]]
  /\ chan   \in [End -> [Conn -> Seq(Frame)]]
  /\ sent   \in [End -> [Conn -> Nat]]
  /\ got    \in [End -> [Conn -> Seq(Payload)]]
  /\ out    \in [End -> Seq(Frame)]
  /\ loop   \in [End -> LoopState]
  /\ link \in [End -> BOOLEAN]
  /\ wire \in [End -> Seq(Frame)]
  /\ drops \in Nat /\ kills \in Nat

-----------------------------------------------------------------------------

InitLinks(up) ==
  /\ fresh = Conn
  /\ acceptor = [at |-> "accept", conn |-> NoConn]
  /\ nextId = 0
  /\ connId = [c \in Conn |-> 0]
  /\ conns  = [e \in End |-> [i \in Ids |-> NoConn]]
  /\ reader = [e \in End |-> [c \in Conn |-> "none"]]
  /\ writer = [e \in End |-> [c \in Conn |-> "none"]]
  /\ chan   = [e \in End |-> [c \in Conn |-> <<>>]]
  /\ sent   = [e \in End |-> [c \in Conn |-> 0]]
  /\ got    = [e \in End |-> [c \in Conn |-> <<>>]]
  /\ out    = [e \in End |-> <<>>]
  /\ loop   = [e \in End |-> Idle(IF up THEN "select" ELSE "down")]
  /\ link   = [e \in End |-> up]
  /\ wire   = [e \in End |-> <<>>]
  /\ drops = 0 /\ kills = 0

\* Both processes just started, neither connected to the relay yet.
Init == InitLinks(FALSE)

\* Both printed "tunnel ready" before the first local connection: the state
\* scripts/usbws-mount waits for before it lets a program connect.
InitReady == InitLinks(TRUE)

Room(e) == Len(out[e]) < OutCap
Push(e, f) == out' = [out EXCEPT ![e] = Append(@, f)]

-----------------------------------------------------------------------------
(* The acceptor (home only).                                               *)

FreeSteps == {k \in Ids : conns["home"][(nextId + k) % NumIds] = NoConn}

AfterNoWrap(id) == id + 1                         \* mutant: plain addition

\* next.wrapping_add(1)
After(id) == (id + 1) % NumIds

\* accept() returns a socket and alloc_conn_id finds the first free id at or
\* after the cursor; the cursor moves past it.
AcceptAlloc(c) ==
  /\ acceptor.at = "accept" /\ c \in fresh
  /\ \E k \in FreeSteps :
       /\ \A j \in FreeSteps : k <= j
       /\ connId' = [connId EXCEPT ![c] = (nextId + k) % NumIds]
       /\ nextId' = After((nextId + k) % NumIds)
  /\ fresh' = fresh \ {c}
  /\ acceptor' = [at |-> "open", conn |-> c]
  /\ UNCHANGED <<taskVars, dataVars, out, loop, netVars, faultVars>>

\* Every id is mapped: the socket is dropped.  The scan moved the cursor once
\* round, so it is where it was.
AcceptFull(c) ==
  /\ acceptor.at = "accept" /\ c \in fresh
  /\ FreeSteps = {}
  /\ fresh' = fresh \ {c}
  /\ UNCHANGED <<acceptor, nextId, connId, taskVars, dataVars, out, loop,
                 netVars, faultVars>>

\* send_peer(CMD_TCP_OPEN), before the connection is registered.
SendOpen ==
  /\ acceptor.at = "open" /\ Room("home")
  /\ Push("home", MkFrame("OPEN", connId[acceptor.conn], acceptor.conn, 0))
  /\ acceptor' = [acceptor EXCEPT !.at = "spawn"]
  /\ UNCHANGED <<fresh, nextId, connId, taskVars, dataVars, loop, netVars,
                 faultVars>>

\* spawn_connection: insert the sender under the id (an entry that was there
\* loses its sender) and start both halves.
Spawn(e, c, id) ==
  /\ conns'  = [conns  EXCEPT ![e][id] = c]
  /\ reader' = [reader EXCEPT ![e][c] = "open"]
  /\ writer' = [writer EXCEPT ![e][c] = "run"]
  /\ chan'   = [chan   EXCEPT ![e][c] = <<>>]

\* mutant: the connection is started before its OPEN is queued
SpawnFirst ==
  /\ acceptor.at = "open" /\ reader["home"][acceptor.conn] = "none"
  /\ Spawn("home", acceptor.conn, connId[acceptor.conn])
  /\ UNCHANGED <<acceptVars, dataVars, out, loop, netVars, faultVars>>

SpawnLocal ==
  /\ acceptor.at = "spawn"
  /\ Spawn("home", acceptor.conn, connId[acceptor.conn])
  /\ acceptor' = [at |-> "accept", conn |-> NoConn]
  /\ UNCHANGED <<fresh, nextId, connId, dataVars, out, loop, netVars,
                 faultVars>>

-----------------------------------------------------------------------------
(* The two halves of a connection, at either end.                          *)

\* mutant: try_send, the chunk is dropped when the queue is full
ReadChunkTry(e, c) ==
  /\ reader[e][c] = "open" /\ sent[e][c] < Chunks[e]
  /\ IF Room(e) THEN Push(e, MkFrame("DATA", connId[c], c, sent[e][c] + 1))
                ELSE UNCHANGED out
  /\ sent' = [sent EXCEPT ![e][c] = @ + 1]
  /\ UNCHANGED <<acceptVars, taskVars, got, loop, netVars, faultVars>>

\* The reader got bytes from its socket and pushed them as CMD_TCP_DATA.
ReadChunk(e, c) ==
  /\ reader[e][c] = "open" /\ sent[e][c] < Chunks[e] /\ Room(e)
  /\ Push(e, MkFrame("DATA", connId[c], c, sent[e][c] + 1))
  /\ sent' = [sent EXCEPT ![e][c] = @ + 1]
  /\ UNCHANGED <<acceptVars, taskVars, got, loop, netVars, faultVars>>

\* mutant: the reader removes the map entry
ReadEndRemoves(e, c) ==
  /\ reader[e][c] = "open" /\ Room(e)
  /\ Push(e, MkFrame("CLOSE", connId[c], c, 0))
  /\ reader' = [reader EXCEPT ![e][c] = "done"]
  /\ conns'  = [conns EXCEPT ![e][connId[c]] = NoConn]
  /\ UNCHANGED <<acceptVars, writer, chan, dataVars, loop, netVars, faultVars>>

\* mutant: the reader ends without telling the peer
ReadEndSilent(e, c) ==
  /\ reader[e][c] = "open"
  /\ reader' = [reader EXCEPT ![e][c] = "done"]
  /\ UNCHANGED <<acceptVars, conns, writer, chan, dataVars, out, loop, netVars,
                 faultVars>>

\* End of file or error on the socket's read side: CMD_TCP_CLOSE, and the
\* reader ends.  The map entry stays.
ReadEnd(e, c) ==
  /\ reader[e][c] = "open" /\ Room(e)
  /\ Push(e, MkFrame("CLOSE", connId[c], c, 0))
  /\ reader' = [reader EXCEPT ![e][c] = "done"]
  /\ UNCHANGED <<acceptVars, conns, writer, chan, dataVars, loop, netVars,
                 faultVars>>

Take(e, c) == chan' = [chan EXCEPT ![e][c] = Tail(@)]
NextIs(e, c, cmd) ==
  writer[e][c] = "run" /\ chan[e][c] # <<>> /\ Head(chan[e][c]).cmd = cmd

\* write_all succeeded.
WriteChunk(e, c) ==
  /\ NextIs(e, c, "DATA") /\ Take(e, c)
  /\ got' = [got EXCEPT ![e][c] = Append(@, PayloadOf(Head(chan[e][c])))]
  /\ UNCHANGED <<acceptVars, conns, reader, writer, sent, out, loop, netVars,
                 faultVars>>

\* A Shutdown came, or write_all failed: the loop is left.
WriterBreak(e, c) ==
  /\ NextIs(e, c, "CLOSE") \/ (e \in Fragile /\ NextIs(e, c, "DATA"))
  /\ Take(e, c)
  /\ writer' = [writer EXCEPT ![e][c] = "stop"]
  /\ UNCHANGED <<acceptVars, conns, reader, dataVars, out, loop, netVars,
                 faultVars>>

\* recv() returned None: the channel is drained and every sender is dropped,
\* the one in the map and the clone a session loop holds while it routes.
HasSender(e, c) == conns[e][connId[c]] = c \/ loop[e].tx = c
WriterOrphaned(e, c) ==
  /\ writer[e][c] = "run" /\ chan[e][c] = <<>> /\ ~HasSender(e, c)
  /\ writer' = [writer EXCEPT ![e][c] = "stop"]
  /\ UNCHANGED <<acceptVars, conns, reader, chan, dataVars, out, loop, netVars,
                 faultVars>>

\* mutant: the entry is left in the map
WriterExitLeaves(e, c) ==
  /\ writer[e][c] = "stop"
  /\ writer' = [writer EXCEPT ![e][c] = "done"]
  /\ chan'   = [chan   EXCEPT ![e][c] = <<>>]
  /\ UNCHANGED <<acceptVars, conns, reader, dataVars, out, loop, netVars,
                 faultVars>>

\* mutant: the exiting writer sends CLOSE, as if the whole connection ended
WriterExitCloses(e, c) ==
  /\ writer[e][c] = "stop" /\ Room(e)
  /\ Push(e, MkFrame("CLOSE", connId[c], c, 0))
  /\ conns'  = [conns  EXCEPT ![e][connId[c]] = NoConn]
  /\ writer' = [writer EXCEPT ![e][c] = "done"]
  /\ chan'   = [chan   EXCEPT ![e][c] = <<>>]
  /\ UNCHANGED <<acceptVars, reader, dataVars, loop, netVars, faultVars>>

\* The socket's write half is shut down; then the task removes the entry
\* under its conn_id, whichever connection holds it, and drops its receiver.
WriterExit(e, c) ==
  /\ writer[e][c] = "stop"
  /\ conns'  = [conns  EXCEPT ![e][connId[c]] = NoConn]
  /\ writer' = [writer EXCEPT ![e][c] = "done"]
  /\ chan'   = [chan   EXCEPT ![e][c] = <<>>]
  /\ UNCHANGED <<acceptVars, reader, dataVars, out, loop, netVars, faultVars>>

-----------------------------------------------------------------------------
(* The session loop.                                                       *)

\* connect_and_handshake and introduce_and_subscribe succeeded.
Connect(e) ==
  /\ loop[e].at = "down"
  /\ loop' = [loop EXCEPT ![e] = Idle("select")]
  /\ link' = [link EXCEPT ![e] = TRUE]
  /\ UNCHANGED <<acceptVars, taskVars, dataVars, out, wire, faultVars>>

\* The out branch of select!, websocket alive: the relay passes the frame on
\* if the other end is connected and loses it otherwise.
SendFrame(e) ==
  /\ loop[e].at = "select" /\ out[e] # <<>> /\ link[e]
  /\ out' = [out EXCEPT ![e] = Tail(@)]
  /\ wire' = IF link[Other(e)]
             THEN [wire EXCEPT ![Other(e)] = Append(@, Head(out[e]))]
             ELSE wire
  /\ UNCHANGED <<acceptVars, taskVars, dataVars, loop, link, faultVars>>

\* mutant: a frame that could not be sent goes back to the end of the queue
LoseFrameRequeued(e) ==
  /\ loop[e].at = "select" /\ out[e] # <<>> /\ ~link[e]
  /\ out' = [out EXCEPT ![e] = Append(Tail(@), Head(@))]
  /\ loop' = [loop EXCEPT ![e] = Idle("down")]
  /\ UNCHANGED <<acceptVars, taskVars, dataVars, netVars, faultVars>>

\* The same branch on a dead websocket: the frame is gone, whether send
\* reports the failure or the dead socket still swallowed it.
LoseFrame(e) ==
  /\ loop[e].at = "select" /\ out[e] # <<>> /\ ~link[e]
  /\ out' = [out EXCEPT ![e] = Tail(@)]
  /\ \E at \in {"select", "down"} : loop' = [loop EXCEPT ![e] = Idle(at)]
  /\ UNCHANGED <<acceptVars, taskVars, dataVars, netVars, faultVars>>

\* ws.next() yields Close, an error or the end of the stream.
NoticeDrop(e) ==
  /\ loop[e].at = "select" /\ ~link[e]
  /\ loop' = [loop EXCEPT ![e] = Idle("down")]
  /\ UNCHANGED <<acceptVars, taskVars, dataVars, out, netVars, faultVars>>

\* handle_incoming takes the next frame; it looks the conn_id up under the
\* map's lock and keeps a clone of the sender it found.
Incoming(e, cmd) ==
  /\ loop[e].at = "select" /\ wire[e] # <<>> /\ Head(wire[e]).cmd = cmd
  /\ wire' = [wire EXCEPT ![e] = Tail(@)]
  /\ UNCHANGED <<acceptVars, taskVars, dataVars, out, link, faultVars>>

Handling(at, f, c) == [at |-> at, frame |-> f, tx |-> c]

\* CMD_TCP_OPEN: only the end with a dial target ever gets one.
RecvOpen ==
  /\ Incoming("gate", "OPEN")
  /\ loop' = [loop EXCEPT !["gate"] = Handling("dial", Head(wire["gate"]), NoConn)]

RecvRouted(e, cmd, at) ==
  LET f == Head(wire[e])
      c == conns[e][f.id]
  IN  /\ Incoming(e, cmd)
      /\ c # NoConn
      /\ loop' = [loop EXCEPT ![e] = Handling(at, f, c)]

RecvData(e)  == RecvRouted(e, "DATA", "data")
RecvClose(e) == RecvRouted(e, "CLOSE", "shut")

\* No entry under the id: DATA and CLOSE alike are ignored.
RecvUnknown(e) ==
  /\ wire[e] # <<>> /\ conns[e][Head(wire[e]).id] = NoConn
  /\ Incoming(e, "DATA") \/ Incoming(e, "CLOSE")
  /\ UNCHANGED loop

\* open_outbound, awaited inside handle_incoming.
Dialed ==
  /\ loop["gate"].at = "dial"
  /\ Spawn("gate", loop["gate"].frame.conn, loop["gate"].frame.id)
  /\ loop' = [loop EXCEPT !["gate"] = Idle("select")]
  /\ UNCHANGED <<acceptVars, dataVars, out, netVars, faultVars>>

DialFailed ==
  /\ loop["gate"].at = "dial"
  /\ loop' = [loop EXCEPT !["gate"].at = "reply"]
  /\ UNCHANGED <<acceptVars, taskVars, dataVars, out, netVars, faultVars>>

\* The session loop pushes a CLOSE into the queue it alone drains.
Reply(e) ==
  /\ loop[e].at = "reply" /\ Room(e)
  /\ Push(e, MkFrame("CLOSE", loop[e].frame.id, loop[e].frame.conn, 0))
  /\ loop' = [loop EXCEPT ![e] = Idle("select")]
  /\ UNCHANGED <<acceptVars, taskVars, dataVars, netVars, faultVars>>

\* mutant: try_send, what does not fit in the connection's channel is dropped
DeliverTry(e) ==
  LET c == loop[e].tx
  IN  /\ loop[e].at \in {"data", "shut"}
      /\ writer[e][c] # "done"
      /\ chan' = IF Len(chan[e][c]) < ConnCap
                 THEN [chan EXCEPT ![e][c] = Append(@, loop[e].frame)] ELSE chan
      /\ loop' = [loop EXCEPT ![e] = Idle("select")]
      /\ UNCHANGED <<acceptVars, conns, reader, writer, dataVars, out, netVars,
                     faultVars>>

\* tx.send(Data) or tx.send(Shutdown) went through.
Deliver(e) ==
  /\ loop[e].at \in {"data", "shut"}
  /\ writer[e][loop[e].tx] # "done"
  /\ Len(chan[e][loop[e].tx]) < ConnCap
  /\ chan' = [chan EXCEPT ![e][loop[e].tx] = Append(@, loop[e].frame)]
  /\ loop' = [loop EXCEPT ![e] = Idle("select")]
  /\ UNCHANGED <<acceptVars, conns, reader, writer, dataVars, out, netVars,
                 faultVars>>

\* The receiver is gone.  A DATA drops the entry under its id, whoever holds
\* it by now, and answers CLOSE; a Shutdown is ignored.
DeliverDataFailed(e) ==
  /\ loop[e].at = "data" /\ writer[e][loop[e].tx] = "done"
  /\ conns' = [conns EXCEPT ![e][loop[e].frame.id] = NoConn]
  /\ loop' = [loop EXCEPT ![e] = Handling("reply", @.frame, NoConn)]
  /\ UNCHANGED <<acceptVars, reader, writer, chan, dataVars, out, netVars,
                 faultVars>>

DeliverShutdownFailed(e) ==
  /\ loop[e].at = "shut" /\ writer[e][loop[e].tx] = "done"
  /\ loop' = [loop EXCEPT ![e] = Idle("select")]
  /\ UNCHANGED <<acceptVars, taskVars, dataVars, out, netVars, faultVars>>

-----------------------------------------------------------------------------
(* Faults.                                                                 *)

\* What is on its way to e is lost, and so is the end of what e has sent.
Cut(e) ==
  \E k \in 0 .. Len(wire[Other(e)]) :
    wire' = [d \in End |-> IF d = e THEN <<>> ELSE SubSeq(wire[d], 1, k)]

DropLink(e) ==
  /\ drops < MaxDrops /\ link[e]
  /\ drops' = drops + 1
  /\ link' = [link EXCEPT ![e] = FALSE]
  /\ Cut(e)
  /\ UNCHANGED <<acceptVars, taskVars, dataVars, out, loop, kills>>

\* The process at e is killed (scripts stop usbws with `kill`) and started
\* again: its sockets close and it keeps nothing.
Kill(e) ==
  /\ kills < MaxKills /\ e \in Mortal
  /\ kills' = kills + 1
  /\ conns'  = [conns EXCEPT ![e] = [i \in Ids |-> NoConn]]
  /\ reader' = [reader EXCEPT ![e] =
                  [c \in Conn |-> IF @[c] = "none" THEN "none" ELSE "done"]]
  /\ writer' = [writer EXCEPT ![e] =
                  [c \in Conn |-> IF @[c] = "none" THEN "none" ELSE "done"]]
  /\ chan' = [chan EXCEPT ![e] = [c \in Conn |-> <<>>]]
  /\ out'  = [out EXCEPT ![e] = <<>>]
  /\ loop' = [loop EXCEPT ![e] = Idle("down")]
  /\ link' = [link EXCEPT ![e] = FALSE]
  /\ Cut(e)
  /\ IF e = "home"
     THEN acceptor' = [at |-> "accept", conn |-> NoConn] /\ nextId' = 0
     ELSE UNCHANGED <<acceptor, nextId>>
  /\ UNCHANGED <<fresh, connId, dataVars, drops>>

-----------------------------------------------------------------------------

Acceptor == \/ \E c \in Conn : AcceptAlloc(c) \/ AcceptFull(c)
            \/ SendOpen
            \/ SpawnLocal

Reader(e, c) == ReadChunk(e, c) \/ ReadEnd(e, c)

Writer(e, c) == \/ WriteChunk(e, c) \/ WriterBreak(e, c)
                \/ WriterOrphaned(e, c) \/ WriterExit(e, c)

Session(e) == \/ Connect(e) \/ SendFrame(e) \/ LoseFrame(e) \/ NoticeDrop(e)
              \/ RecvData(e) \/ RecvClose(e) \/ RecvUnknown(e) \/ Reply(e)
              \/ Deliver(e) \/ DeliverDataFailed(e) \/ DeliverShutdownFailed(e)

Gate == RecvOpen \/ Dialed \/ DialFailed

Fault(e) == DropLink(e) \/ Kill(e)

Next == \/ Acceptor
        \/ Gate
        \/ \E e \in End : Session(e) \/ Fault(e)
        \/ \E e \in End, c \in Conn : Reader(e, c) \/ Writer(e, c)

Spec      == Init /\ [][Next]_vars
ReadySpec == InitReady /\ [][Next]_vars

-----------------------------------------------------------------------------
(* Safety.                                                                 *)

\* Frames travelling from home to gate, the next to arrive first.
ToGate == wire["gate"] \o out["home"]

\* A connection's OPEN reaches the gate before anything else about it: no
\* frame of the connection is ahead of its OPEN (the acceptor sends OPEN before
\* it spawns the reader), whatever ids are reused and whatever links fail.
OpenLeads ==
  \A i \in DOMAIN ToGate :
    ToGate[i].cmd = "OPEN" =>
      \A j \in 1 .. i - 1 : ToGate[j].conn # ToGate[i].conn

\* The map has no dangling entry: what stands under an id carries that id and
\* its writer has not exited ("the writer is the entry's owner").
EntriesLive ==
  \A e \in End, i \in Ids :
    conns[e][i] # NoConn => /\ connId[conns[e][i]] = i
                            /\ writer[e][conns[e][i]] \in {"run", "stop"}

\* While a writer runs, frames for its connection reach it: the entry under
\* its id is its own.  Holds as long as ids are not reused.
RunningIsRouted ==
  \A e \in End, c \in Conn :
    writer[e][c] = "run" => conns[e][connId[c]] = c

\* What a socket is given is a contiguous run of what the connection's other
\* socket yielded: no chunk of another connection, none twice, none out of
\* order and none missing in between; at the gate it starts with the first
\* (the gate registers a connection before it looks at the next frame).
NoGap ==
  \A e \in End, c \in Conn :
    \A k \in DOMAIN got[e][c] :
      /\ got[e][c][k].conn = c
      /\ got[e][c][k].n = got[e][c][1].n + k - 1
      /\ got[e][c][k].n <= sent[Other(e)][c]
      /\ e = "gate" => got[e][c][k].n = k

\* README.md:69 "half-close is honored - the opposite direction keeps flowing
\* until it too ends": a writer is told to shut down only when the peer's
\* reader, whose bytes it writes, is not running.
HalfClose ==
  \A e \in End, c \in Conn : \A k \in DOMAIN chan[e][c] :
    chan[e][c][k].cmd = "CLOSE" => reader[Other(e)][c] # "open"

\* When the gate's writer has shut its socket down, the service has been given
\* all the local program ever sent: closing in the middle of a transfer, with
\* both queues full, truncates nothing.
CloseAfterAll ==
  \A c \in Conn :
    writer["gate"][c] \in {"stop", "done"} => Len(got["gate"][c]) = sent["home"][c]

-----------------------------------------------------------------------------
(* Liveness.                                                               *)

\* The runtime keeps polling every task that can go on.  A behaviour of the
\* model has finitely many frames, so the order in which select! takes its
\* ready branches does not matter and weak fairness of the whole loop will do.
\* Local programs and the dialed service eventually end their streams, sockets
\* accept bytes or fail, a dial succeeds or fails.
Fairness ==
  /\ WF_vars(SendOpen \/ SpawnLocal)
  /\ WF_vars(Gate \/ Session("gate"))
  /\ WF_vars(Session("home"))
  /\ \A e \in End, c \in Conn : WF_vars(ReadEnd(e, c)) /\ WF_vars(Writer(e, c))

FairSpec == ReadySpec /\ Fairness

\* Nothing of a connection comes back before the acceptor has registered it.
\* The code does not ensure it: it is left to the time a round trip takes.
PromptSpawn ==
  [](acceptor.at = "spawn" =>
       \A k \in DOMAIN wire["home"] : wire["home"][k].conn # acceptor.conn)

\* No conn_id leaks: every entry of either map is eventually removed, also after
\* failed dials and failed writes.  Excluded are a link that fails or a process
\* that dies, which take the CLOSE with them (tcp.rs:620), a reply that overtakes
\* the acceptor, and, by an out queue with room for every frame (OutCap), a
\* session loop that waits at tcp.rs:551 for the queue only it empties.
IdsReleased ==
  PromptSpawn /\ [](drops = 0 /\ kills = 0) =>
    \A e \in End, i \in Ids : (conns[e][i] # NoConn) ~> (conns[e][i] = NoConn)

-----------------------------------------------------------------------------
\* In spite of link failures and restarts of the gate, each connection is a
\* pair of streams that may lose chunks but never reorders, repeats or mixes
\* them, as long as ids are not reused.
Streams == INSTANCE StreamPromise
StreamsKept == Streams!Spec
=============================================================================
