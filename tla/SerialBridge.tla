----------------------------- MODULE SerialBridge -----------------------------
(***************************************************************************)
(* The serial bridge of src/src/main.rs: `share` (a serial device) and     *)
(* `attach` (a pseudo-terminal) run the same bridge(), joined by the relay.*)
(*                                                                         *)
(* At each end three threads of control: a reader thread (device -> dev    *)
(* channel), a writer thread (net channel -> device), and the session loop *)
(* between them and the websocket.  A chunk is the number of the read that *)
(* returned it.                                                            *)
(***************************************************************************)
EXTENDS Naturals, Sequences

CONSTANTS
  DevCap,     \* capacity of the device -> relay channel (256)
  NetCap,     \* capacity of the relay -> device channel (256)
  Chunks,     \* bound: chunks each device yields
  MaxDrops,   \* bound: relay link failures
  Fragile,    \* the ends whose device may fail a write
  Stoppable   \* the ends whose user may press Ctrl-C

End == {"share", "attach"}

ASSUME BridgeAssumption ==
  /\ DevCap \in Nat \ {0} /\ NetCap \in Nat \ {0}
  /\ Chunks \in [End -> Nat] /\ MaxDrops \in Nat
  /\ Fragile \subseteq End /\ Stoppable \subseteq End

VARIABLES
  dev,      \* what a read meets: data, the end of the device, or EIO
  reader,   \* reader thread
  writer,   \* writer thread
  devQ,     \* device -> relay channel
  netQ,     \* relay -> device channel
  read,     \* chunks the reader thread has read
  wrote,    \* chunks the writer thread has written, in order
  loop,     \* session loop: [at, chunk]
  link,     \* whether the end's websocket is alive
  wire,     \* chunks on their way to each end
  drops     \* link failures so far

deviceVars == <<dev, reader, writer, read, wrote>>
vars == <<deviceVars, devQ, netQ, loop, link, wire, drops>>

Other(e) == IF e = "share" THEN "attach" ELSE "share"
Chunk == Nat \ {0}

\* Points at which the session loop can be suspended: waiting to reconnect, in
\* select!, waiting to push a chunk into the net channel.  "exit" and "stopped"
\* are the process gone after the device closed and after Ctrl-C.
LoopState == [at : {"down", "select", "exit", "stopped"}, chunk : {0}]
             \cup [at : {"deliver"}, chunk : Chunk]
At(point) == [at |-> point, chunk |-> 0]
Gone(e) == loop[e].at \in {"exit", "stopped"}

TypeOK ==
  /\ dev \in [End -> {"ok", "eof", "eio"}]
  /\ reader \in [End -> {"run", "done"}] /\ writer \in [End -> {"run", "done"}]
  /\ read \in [End -> Nat] /\ wrote \in [End -> Seq(Chunk)]
  /\ devQ \in [End -> Seq(Chunk)] /\ netQ \in [End -> Seq(Chunk)]
  /\ wire \in [End -> Seq(Chunk)]
  /\ \A e \in End : Len(devQ[e]) <= DevCap /\ Len(netQ[e]) <= NetCap
  /\ loop \in [End -> LoopState]
  /\ link \in [End -> BOOLEAN] /\ drops \in Nat

InitLinks(up) ==
  /\ dev = [e \in End |-> "ok"]
  /\ reader = [e \in End |-> "run"] /\ writer = [e \in End |-> "run"]
  /\ devQ = [e \in End |-> <<>>] /\ netQ = [e \in End |-> <<>>]
  /\ read = [e \in End |-> 0] /\ wrote = [e \in End |-> <<>>]
  /\ loop = [e \in End |-> At(IF up THEN "select" ELSE "down")]
  /\ link = [e \in End |-> up] /\ wire = [e \in End |-> <<>>]
  /\ drops = 0

Init == InitLinks(FALSE)        \* both processes just started
InitReady == InitLinks(TRUE)    \* both printed "bridge ready"

-----------------------------------------------------------------------------
(* The device.                                                             *)

\* Unplugged, or every handle of the terminal closed.
DeviceEof(e) ==
  /\ dev[e] # "eof" /\ ~Gone(e)
  /\ dev' = [dev EXCEPT ![e] = "eof"]
  /\ UNCHANGED <<reader, writer, read, wrote, devQ, netQ, loop, link, wire, drops>>

\* A consumer of the pseudo-terminal detaches, or the device fails with EIO;
\* one may attach again.
DeviceEio(e) ==
  /\ dev[e] # "eof" /\ ~Gone(e)
  /\ dev' = [dev EXCEPT ![e] = IF @ = "ok" THEN "eio" ELSE "ok"]
  /\ UNCHANGED <<reader, writer, read, wrote, devQ, netQ, loop, link, wire, drops>>

-----------------------------------------------------------------------------
(* The reader and the writer thread.                                       *)

\* read() returned bytes and blocking_send queued them.  Time-outs, EINTR and
\* EIO change nothing: the thread reads again.
ReadChunk(e) ==
  /\ reader[e] = "run" /\ dev[e] = "ok" /\ read[e] < Chunks[e]
  /\ Len(devQ[e]) < DevCap
  /\ read' = [read EXCEPT ![e] = @ + 1]
  /\ devQ' = [devQ EXCEPT ![e] = Append(@, read[e] + 1)]
  /\ UNCHANGED <<dev, reader, writer, wrote, netQ, loop, link, wire, drops>>

\* mutant: end of file is taken for "no data yet"
ReadEofRetry(e) == dev[e] = "eof" /\ UNCHANGED vars

\* mutant: EIO ends the thread like any other error
ReadEofOrEio(e) ==
  /\ reader[e] = "run" /\ dev[e] # "ok"
  /\ reader' = [reader EXCEPT ![e] = "done"]
  /\ UNCHANGED <<dev, writer, read, wrote, devQ, netQ, loop, link, wire, drops>>

\* Ok(0), or an error other than those: the thread ends and drops its sender.
ReadEof(e) ==
  /\ reader[e] = "run" /\ dev[e] = "eof"
  /\ reader' = [reader EXCEPT ![e] = "done"]
  /\ UNCHANGED <<dev, writer, read, wrote, devQ, netQ, loop, link, wire, drops>>

WriteChunk(e) ==
  /\ writer[e] = "run" /\ netQ[e] # <<>> /\ dev[e] # "eof"
  /\ wrote' = [wrote EXCEPT ![e] = Append(@, Head(netQ[e]))]
  /\ netQ' = [netQ EXCEPT ![e] = Tail(@)]
  /\ UNCHANGED <<dev, reader, writer, read, devQ, loop, link, wire, drops>>

\* write_all failed: the thread ends and drops its receiver.
WriteFailed(e) ==
  /\ writer[e] = "run" /\ netQ[e] # <<>>
  /\ e \in Fragile \/ dev[e] = "eof"
  /\ writer' = [writer EXCEPT ![e] = "done"]
  /\ netQ' = [netQ EXCEPT ![e] = <<>>]
  /\ UNCHANGED <<dev, reader, read, wrote, devQ, loop, link, wire, drops>>

-----------------------------------------------------------------------------
(* The session loop.                                                       *)

Goto(e, point) == loop' = [loop EXCEPT ![e] = At(point)]

\* connect_and_handshake and introduce_and_subscribe succeeded.
Connect(e) ==
  /\ loop[e].at = "down"
  /\ Goto(e, "select")
  /\ link' = [link EXCEPT ![e] = TRUE]
  /\ UNCHANGED <<deviceVars, devQ, netQ, wire, drops>>

\* A chunk read from the device goes to the relay, which passes it on if the
\* other end is connected and loses it otherwise.
SendChunk(e) ==
  /\ loop[e].at = "select" /\ devQ[e] # <<>> /\ link[e]
  /\ devQ' = [devQ EXCEPT ![e] = Tail(@)]
  /\ wire' = IF link[Other(e)]
             THEN [wire EXCEPT ![Other(e)] = Append(@, Head(devQ[e]))]
             ELSE wire
  /\ UNCHANGED <<deviceVars, netQ, loop, link, drops>>

\* mutant: a chunk that could not be sent is queued again, behind the others
LoseChunkRequeued(e) ==
  /\ loop[e].at = "select" /\ devQ[e] # <<>> /\ ~link[e]
  /\ devQ' = [devQ EXCEPT ![e] = Append(Tail(@), Head(@))]
  /\ Goto(e, "down")
  /\ UNCHANGED <<deviceVars, netQ, link, wire, drops>>

\* The same on a dead websocket: the chunk is gone, whether send reports the
\* failure or the dead socket still swallowed it.
LoseChunk(e) ==
  /\ loop[e].at = "select" /\ devQ[e] # <<>> /\ ~link[e]
  /\ devQ' = [devQ EXCEPT ![e] = Tail(@)]
  /\ \E point \in {"select", "down"} : Goto(e, point)
  /\ UNCHANGED <<deviceVars, netQ, link, wire, drops>>

\* ws.next() yields Close, an error or the end of the stream.
NoticeDrop(e) ==
  /\ loop[e].at = "select" /\ ~link[e]
  /\ Goto(e, "down")
  /\ UNCHANGED <<deviceVars, devQ, netQ, link, wire, drops>>

\* handle_incoming: a CMD_SERIAL_DATA frame of the peer.
Recv(e) ==
  /\ loop[e].at = "select" /\ wire[e] # <<>>
  /\ loop' = [loop EXCEPT ![e] = [at |-> "deliver", chunk |-> Head(wire[e])]]
  /\ wire' = [wire EXCEPT ![e] = Tail(@)]
  /\ UNCHANGED <<deviceVars, devQ, netQ, link, drops>>

\* mutant: an unbounded channel
DeliverUnbounded(e) ==
  /\ loop[e].at = "deliver" /\ writer[e] = "run"
  /\ netQ' = [netQ EXCEPT ![e] = Append(@, loop[e].chunk)]
  /\ Goto(e, "select")
  /\ UNCHANGED <<deviceVars, devQ, link, wire, drops>>

\* net_tx.send(..).await went through: it waits for room.
Deliver(e) ==
  /\ loop[e].at = "deliver" /\ writer[e] = "run" /\ Len(netQ[e]) < NetCap
  /\ netQ' = [netQ EXCEPT ![e] = Append(@, loop[e].chunk)]
  /\ Goto(e, "select")
  /\ UNCHANGED <<deviceVars, devQ, link, wire, drops>>

\* mutant: a chunk the dead writer thread did not take is tried again
DiscardRetry(e) ==
  loop[e].at = "deliver" /\ writer[e] = "done" /\ UNCHANGED vars

\* The writer thread is gone: the result of send is ignored.
Discard(e) ==
  /\ loop[e].at = "deliver" /\ writer[e] = "done"
  /\ Goto(e, "select")
  /\ UNCHANGED <<deviceVars, devQ, netQ, link, wire, drops>>

\* The process ends: websocket closed, threads and channels gone.  What it has
\* sent still arrives, what was sent to it does not.
Quit(e, point) ==
  /\ Goto(e, point)
  /\ reader' = [reader EXCEPT ![e] = "done"] /\ writer' = [writer EXCEPT ![e] = "done"]
  /\ devQ' = [devQ EXCEPT ![e] = <<>>] /\ netQ' = [netQ EXCEPT ![e] = <<>>]
  /\ link' = [link EXCEPT ![e] = FALSE] /\ wire' = [wire EXCEPT ![e] = <<>>]
  /\ UNCHANGED <<dev, read, wrote, drops>>

\* mutant: the bridge ends with the reader thread, whatever is still queued
DeviceClosedEarly(e) ==
  /\ loop[e].at = "select" /\ reader[e] = "done"
  /\ Quit(e, "exit")

\* dev_rx.recv() yields None: the reader thread ended and its chunks are sent.
DeviceClosed(e) ==
  /\ loop[e].at = "select" /\ reader[e] = "done" /\ devQ[e] = <<>>
  /\ Quit(e, "exit")

\* Ctrl-C is looked at in select! and in the back-off after a failed connect.
CtrlC(e) ==
  /\ e \in Stoppable /\ loop[e].at \in {"select", "down"}
  /\ Quit(e, "stopped")

-----------------------------------------------------------------------------

\* The link of e fails: what is on its way to e is lost, and so is the end of
\* what e has sent.
DropLink(e) ==
  /\ drops < MaxDrops /\ link[e]
  /\ drops' = drops + 1
  /\ link' = [link EXCEPT ![e] = FALSE]
  /\ \E k \in 0 .. Len(wire[Other(e)]) :
       wire' = [d \in End |-> IF d = e THEN <<>> ELSE SubSeq(wire[d], 1, k)]
  /\ UNCHANGED <<deviceVars, devQ, netQ, loop>>

Device(e) == DeviceEof(e) \/ DeviceEio(e)
Reader(e) == ReadChunk(e) \/ ReadEof(e)
Writer(e) == WriteChunk(e) \/ WriteFailed(e)
Session(e) == \/ Connect(e) \/ SendChunk(e) \/ LoseChunk(e) \/ NoticeDrop(e)
              \/ Recv(e) \/ Deliver(e) \/ Discard(e) \/ DeviceClosed(e)

Next == \E e \in End : \/ Device(e) \/ Reader(e) \/ Writer(e) \/ Session(e)
                       \/ CtrlC(e) \/ DropLink(e)

Spec      == Init /\ [][Next]_vars
ReadySpec == InitReady /\ [][Next]_vars

\* The threads are scheduled, connecting succeeds in the end, and a device takes
\* its bytes or fails; it need not yield any.  Links fail finitely often and chunks are finite in
\* number, so weak fairness of the loop as a whole is enough.
Fairness == \A e \in End : /\ WF_vars(ReadEof(e)) /\ WF_vars(Writer(e))
                           /\ WF_vars(Session(e))
FairSpec == ReadySpec /\ Fairness

-----------------------------------------------------------------------------

\* The chunk the session loop is waiting to push into the net channel.
InHand(e) == IF loop[e].at = "deliver" THEN <<loop[e].chunk>> ELSE <<>>

\* Where the chunks read at e are, the furthest along first.
Journey(e) ==
  LET d == Other(e) IN  wrote[d] \o netQ[d] \o InHand(d) \o wire[d] \o devQ[e]

\* Without link failures no byte is lost or reordered between two running
\* bridges, also when one of them ends because its device closed: it sends what
\* was read before it exits (main.rs:561-562 "block briefly rather than drop
\* bytes", 500-504).
NothingLost ==
  \A e \in End :
    drops = 0 /\ writer[Other(e)] = "run" /\ loop[e].at # "stopped"
      => Journey(e) = [k \in 1 .. read[e] |-> k]

\* Whatever fails, the bytes written at one end are bytes read at the other, in
\* order, none twice: the bridge keeps the promise of a single connection.
Line == INSTANCE StreamPromise WITH
  Conn <- {"line"},
  sent <- [e \in End |-> [c \in {"line"} |-> read[e]]],
  got  <- [e \in End |-> [c \in {"line"} |->
             [k \in DOMAIN wrote[e] |-> [conn |-> c, n |-> wrote[e][k]]]]]
LineKept == Line!Spec

\* main.rs:501 "Device closed (EOF / unplugged). Exit cleanly": once the device
\* is at its end the process ends, through reconnections and a busy peer.
UnplugEnds == \A e \in End : (dev[e] = "eof") ~> Gone(e)

\* Backpressure never turns into a standstill: with both ends flooding each
\* other and both channels full, what a device yielded still gets sent.
ReadsFlow == \A e \in End : (devQ[e] # <<>>) ~> (devQ[e] = <<>>)

\* main.rs:595-596 "PTY master read can momentarily return EIO ...; with the
\* keepalive fd held this is transient": once the last EIO is over, a device that
\* keeps yielding is read to its end; nothing short of Ctrl-C prevents that.
EioPasses ==
  \A e \in End : WF_vars(ReadChunk(e)) /\ <>[](dev[e] = "ok")
                    => <>(read[e] = Chunks[e] \/ loop[e].at = "stopped")

=============================================================================
