--------------------------- MODULE TcpTunnelProofs ---------------------------
(***************************************************************************)
(* Theorems about TcpTunnel, for any set of connections, any number of     *)
(* conn_ids, any capacities and any number of faults.                      *)
(*                                                                         *)
(* Types; IInv (ids of frames and entries) and EntriesLive; OpenLeads;     *)
(* then, while ids are not reused (IdsApart): RunningIsRouted, StreamsKept *)
(* and where ids suffice, HalfClose, NoGap, CloseAfterAll.                 *)
(***************************************************************************)
EXTENDS TcpTunnel, FiniteSetTheorems, TLAPS

LEMMA TypeInit == ASSUME NEW up \in BOOLEAN, InitLinks(up) PROVE TypeOK
BY TunnelAssumption DEF InitLinks, TypeOK, Ids, Idle, LoopState, AcceptorState

LEMMA FrameType ==
  ASSUME NEW cmd \in {"OPEN", "DATA", "CLOSE"}, NEW id \in Ids, NEW c \in Conn,
         NEW n \in Nat
  PROVE  MkFrame(cmd, id, c, n) \in Frame
BY DEF MkFrame, Frame

LEMMA OtherType == \A e \in End : Other(e) \in End /\ Other(Other(e)) = e
BY DEF Other, End

LEMMA PushType ==
  ASSUME TypeOK, NEW e \in End, NEW f \in Frame, Push(e, f)
  PROVE  out' \in [End -> Seq(Frame)]
BY DEF TypeOK, Push

LEMMA SpawnType ==
  ASSUME TypeOK, NEW e \in End, NEW c \in Conn, NEW id \in Ids, Spawn(e, c, id)
  PROVE  /\ conns'  \in [End -> [Ids -> Conn \cup {NoConn}]]
         /\ reader' \in [End -> [Conn -> {"none", "open", "done"}]]
         /\ writer' \in [End -> [Conn -> {"none", "run", "stop", "done"}]]
         /\ chan'   \in [End -> [Conn -> Seq(Frame)]]
BY DEF TypeOK, Spawn

LEMMA CutType ==
  ASSUME TypeOK, NEW e \in End, Cut(e)
  PROVE  wire' \in [End -> Seq(Frame)]
<1>1. PICK k \in 0 .. Len(wire[Other(e)]) :
        wire' = [d \in End |-> IF d = e THEN <<>> ELSE SubSeq(wire[d], 1, k)]
  BY DEF Cut
<1>2. \A d \in End : d # e => SubSeq(wire[d], 1, k) \in Seq(Frame)
  <2> SUFFICES ASSUME NEW d \in End, d # e PROVE SubSeq(wire[d], 1, k) \in Seq(Frame)
    OBVIOUS
  <2>1. d = Other(e)
    BY DEF Other, End
  <2>2. wire[d] \in Seq(Frame)
    BY DEF TypeOK
  <2> QED
    BY <2>1, <2>2
<1> QED
  BY <1>1, <1>2

LEMMA TypeAcceptor == ASSUME TypeOK, Acceptor PROVE TypeOK'
<1> USE TunnelAssumption DEF taskVars, dataVars, netVars, faultVars
<1>1. ASSUME NEW c \in Conn, AcceptAlloc(c) PROVE TypeOK'
  <2>1. \A k \in Ids : (nextId + k) % NumIds \in Ids /\ After((nextId + k) % NumIds) \in Ids
    BY DEF TypeOK, Ids, After
  <2> QED
    BY <1>1, <2>1 DEF AcceptAlloc, FreeSteps, TypeOK, AcceptorState
<1>2. ASSUME NEW c \in Conn, AcceptFull(c) PROVE TypeOK'
  BY <1>2 DEF AcceptFull, TypeOK
<1>3. ASSUME SendOpen PROVE TypeOK'
  <2>1. MkFrame("OPEN", connId[acceptor.conn], acceptor.conn, 0) \in Frame
    BY <1>3, FrameType DEF SendOpen, TypeOK, AcceptorState
  <2>2. out' \in [End -> Seq(Frame)]
    BY <1>3, <2>1, PushType DEF SendOpen, End
  <2> QED
    BY <1>3, <2>2 DEF SendOpen, TypeOK, AcceptorState
<1>4. ASSUME SpawnLocal PROVE TypeOK'
  <2>1. connId[acceptor.conn] \in Ids /\ acceptor.conn \in Conn
    BY <1>4 DEF SpawnLocal, TypeOK, AcceptorState
  <2> QED
    BY <1>4, <2>1, SpawnType DEF SpawnLocal, TypeOK, AcceptorState, End
<1> QED
  BY <1>1, <1>2, <1>3, <1>4 DEF Acceptor

LEMMA TypeReader ==
  ASSUME TypeOK, NEW e \in End, NEW c \in Conn, Reader(e, c) PROVE TypeOK'
<1> USE DEF acceptVars, taskVars, netVars, faultVars, dataVars
<1>1. ASSUME ReadChunk(e, c) PROVE TypeOK'
  <2>1. MkFrame("DATA", connId[c], c, sent[e][c] + 1) \in Frame
    BY FrameType DEF TypeOK
  <2>2. out' \in [End -> Seq(Frame)]
    BY <1>1, <2>1, PushType DEF ReadChunk
  <2>3. sent' \in [End -> [Conn -> Nat]]
    BY <1>1 DEF ReadChunk, TypeOK
  <2> QED
    BY <1>1, <2>2, <2>3 DEF ReadChunk, TypeOK
<1>2. ASSUME ReadEnd(e, c) PROVE TypeOK'
  <2>1. MkFrame("CLOSE", connId[c], c, 0) \in Frame
    BY FrameType DEF TypeOK
  <2>2. out' \in [End -> Seq(Frame)]
    BY <1>2, <2>1, PushType DEF ReadEnd
  <2> QED
    BY <1>2, <2>2 DEF ReadEnd, TypeOK
<1> QED
  BY <1>1, <1>2 DEF Reader

LEMMA TypeWriter ==
  ASSUME TypeOK, NEW e \in End, NEW c \in Conn, Writer(e, c) PROVE TypeOK'
<1> USE DEF acceptVars, netVars, faultVars, dataVars
<1>1. ASSUME WriteChunk(e, c) PROVE TypeOK'
  <2>1. Head(chan[e][c]) \in Frame /\ Tail(chan[e][c]) \in Seq(Frame)
    BY <1>1 DEF WriteChunk, NextIs, TypeOK
  <2>2. PayloadOf(Head(chan[e][c])) \in Payload
    BY <2>1 DEF PayloadOf, Payload, Frame
  <2>3. chan' \in [End -> [Conn -> Seq(Frame)]]
    BY <1>1, <2>1 DEF WriteChunk, Take, TypeOK
  <2>4. got' \in [End -> [Conn -> Seq(Payload)]]
    BY <1>1, <2>2 DEF WriteChunk, TypeOK
  <2> QED
    BY <1>1, <2>3, <2>4 DEF WriteChunk, TypeOK
<1>2. ASSUME WriterBreak(e, c) PROVE TypeOK'
  <2>1. Tail(chan[e][c]) \in Seq(Frame)
    BY <1>2 DEF WriterBreak, NextIs, TypeOK
  <2> QED
    BY <1>2, <2>1 DEF WriterBreak, Take, TypeOK
<1>3. ASSUME WriterOrphaned(e, c) PROVE TypeOK'
  BY <1>3 DEF WriterOrphaned, TypeOK
<1>4. ASSUME WriterExit(e, c) PROVE TypeOK'
  BY <1>4 DEF WriterExit, TypeOK
<1> QED
  BY <1>1, <1>2, <1>3, <1>4 DEF Writer

LEMMA IncomingType ==
  ASSUME TypeOK, NEW e \in End, NEW cmd, Incoming(e, cmd)
  PROVE  /\ Head(wire[e]) \in Frame
         /\ wire' \in [End -> Seq(Frame)]
BY DEF Incoming, TypeOK

LEMMA TypeGate == ASSUME TypeOK, Gate PROVE TypeOK'
<1> USE DEF acceptVars, taskVars, netVars, faultVars, dataVars
<1>1. ASSUME RecvOpen PROVE TypeOK'
  <2>1. Head(wire["gate"]) \in Frame /\ wire' \in [End -> Seq(Frame)]
    BY <1>1, IncomingType DEF RecvOpen, End
  <2> QED
    BY <1>1, <2>1 DEF RecvOpen, Incoming, Handling, TypeOK, LoopState, End
<1>2. ASSUME Dialed PROVE TypeOK'
  <2>1. loop["gate"].frame.conn \in Conn /\ loop["gate"].frame.id \in Ids
    BY <1>2 DEF Dialed, TypeOK, LoopState, End, Frame
  <2> QED
    BY <1>2, <2>1, SpawnType DEF Dialed, TypeOK, Idle, LoopState, End
<1>3. ASSUME DialFailed PROVE TypeOK'
  BY <1>3 DEF DialFailed, TypeOK, LoopState, End
<1> QED
  BY <1>1, <1>2, <1>3 DEF Gate

LEMMA TypeSession ==
  ASSUME TypeOK, NEW e \in End, Session(e) PROVE TypeOK'
<1> USE DEF acceptVars, taskVars, netVars, faultVars, dataVars
<1>1. ASSUME Connect(e) PROVE TypeOK'
  BY <1>1 DEF Connect, TypeOK, Idle, LoopState
<1>2. ASSUME SendFrame(e) PROVE TypeOK'
  <2>1. Head(out[e]) \in Frame /\ Tail(out[e]) \in Seq(Frame)
    BY <1>2 DEF SendFrame, TypeOK
  <2> QED
    BY <1>2, <2>1, OtherType DEF SendFrame, TypeOK
<1>3. ASSUME LoseFrame(e) PROVE TypeOK'
  <2>1. Tail(out[e]) \in Seq(Frame)
    BY <1>3 DEF LoseFrame, TypeOK
  <2> QED
    BY <1>3, <2>1 DEF LoseFrame, TypeOK, Idle, LoopState
<1>4. ASSUME NoticeDrop(e) PROVE TypeOK'
  BY <1>4 DEF NoticeDrop, TypeOK, Idle, LoopState
<1>5. ASSUME NEW cmd, NEW at \in {"data", "shut"}, RecvRouted(e, cmd, at)
      PROVE  TypeOK'
  <2>1. Head(wire[e]) \in Frame /\ wire' \in [End -> Seq(Frame)]
    BY <1>5, IncomingType DEF RecvRouted
  <2>2. conns[e][Head(wire[e]).id] \in Conn
    BY <1>5, <2>1 DEF RecvRouted, TypeOK, Frame
  <2> QED
    BY <1>5, <2>1, <2>2 DEF RecvRouted, Incoming, Handling, TypeOK, LoopState
<1>6. ASSUME RecvUnknown(e) PROVE TypeOK'
  <2>1. wire' \in [End -> Seq(Frame)]
    BY <1>6, IncomingType DEF RecvUnknown
  <2> QED
    BY <1>6, <2>1 DEF RecvUnknown, Incoming, TypeOK
<1>7. ASSUME Reply(e) PROVE TypeOK'
  <2>1. MkFrame("CLOSE", loop[e].frame.id, loop[e].frame.conn, 0) \in Frame
    BY <1>7, FrameType DEF Reply, TypeOK, LoopState, Frame
  <2>2. out' \in [End -> Seq(Frame)]
    BY <1>7, <2>1, PushType DEF Reply
  <2> QED
    BY <1>7, <2>2 DEF Reply, TypeOK, Idle, LoopState
<1>8. ASSUME Deliver(e) PROVE TypeOK'
  <2>1. loop[e].tx \in Conn /\ loop[e].frame \in Frame
    BY <1>8 DEF Deliver, TypeOK, LoopState
  <2>2. chan' \in [End -> [Conn -> Seq(Frame)]]
    BY <1>8, <2>1 DEF Deliver, TypeOK
  <2> QED
    BY <1>8, <2>2 DEF Deliver, TypeOK, Idle, LoopState
<1>9. ASSUME DeliverDataFailed(e) PROVE TypeOK'
  <2>1. loop[e].frame \in Frame /\ loop[e].frame.id \in Ids
    BY <1>9 DEF DeliverDataFailed, TypeOK, LoopState, Frame
  <2> QED
    BY <1>9, <2>1 DEF DeliverDataFailed, Handling, TypeOK, LoopState
<1>10. ASSUME DeliverShutdownFailed(e) PROVE TypeOK'
  BY <1>10 DEF DeliverShutdownFailed, TypeOK, Idle, LoopState
<1> QED
  BY <1>1, <1>2, <1>3, <1>4, <1>5, <1>6, <1>7, <1>8, <1>9, <1>10
     DEF Session, RecvData, RecvClose

LEMMA TypeFault == ASSUME TypeOK, NEW e \in End, Fault(e) PROVE TypeOK'
<1> USE DEF acceptVars, taskVars, dataVars
<1>1. ASSUME DropLink(e) PROVE TypeOK'
  BY <1>1, CutType DEF DropLink, TypeOK
<1>2. ASSUME Kill(e) PROVE TypeOK'
  <2>1. wire' \in [End -> Seq(Frame)]
    BY <1>2, CutType DEF Kill
  <2>2. acceptor' \in AcceptorState /\ nextId' \in Ids
    BY <1>2, TunnelAssumption DEF Kill, TypeOK, AcceptorState, Ids
  <2>3. /\ conns'  \in [End -> [Ids -> Conn \cup {NoConn}]]
        /\ reader' \in [End -> [Conn -> {"none", "open", "done"}]]
        /\ writer' \in [End -> [Conn -> {"none", "run", "stop", "done"}]]
        /\ chan'   \in [End -> [Conn -> Seq(Frame)]]
        /\ out'    \in [End -> Seq(Frame)]
    BY <1>2 DEF Kill, TypeOK
  <2>4. loop' \in [End -> LoopState]
    BY <1>2 DEF Kill, TypeOK, Idle, LoopState
  <2>5. link' \in [End -> BOOLEAN] /\ drops' \in Nat /\ kills' \in Nat
    BY <1>2, TunnelAssumption DEF Kill, TypeOK
  <2>6. /\ fresh' \in SUBSET Conn /\ connId' \in [Conn -> Ids]
        /\ sent' \in [End -> [Conn -> Nat]]
        /\ got'  \in [End -> [Conn -> Seq(Payload)]]
    BY <1>2 DEF Kill, TypeOK
  <2> QED
    BY <2>1, <2>2, <2>3, <2>4, <2>5, <2>6 DEF TypeOK
<1> QED
  BY <1>1, <1>2 DEF Fault

LEMMA TypeStep == TypeOK /\ [Next]_vars => TypeOK'
<1> SUFFICES ASSUME TypeOK, [Next]_vars PROVE TypeOK'
  OBVIOUS
<1>1. CASE UNCHANGED vars
  BY <1>1 DEF vars, acceptVars, taskVars, dataVars, netVars, faultVars, TypeOK
<1>2. CASE Next
  BY <1>2, TypeAcceptor, TypeGate, TypeSession, TypeFault, TypeReader, TypeWriter
     DEF Next
<1> QED
  BY <1>1, <1>2

\* Every variable keeps its type, whether the tunnel starts unconnected or ready.
THEOREM TypeCorrect == (Spec => []TypeOK) /\ (ReadySpec => []TypeOK)
<1>1. Init => TypeOK
  BY TypeInit DEF Init
<1>2. InitReady => TypeOK
  BY TypeInit DEF InitReady
<1> QED
  BY <1>1, <1>2, TypeStep, PTL DEF Spec, ReadySpec

-----------------------------------------------------------------------------
(* The inductive invariant behind EntriesLive and OpenLeads.               *)

\* Connections nobody but the acceptor knows of: not accepted yet, or accepted
\* and their OPEN not queued yet.
Unseen == fresh \cup (IF acceptor.at = "open" THEN {acceptor.conn} ELSE {})

\* Frames that carry the id allocated to a connection that was announced.
Tagged == {f \in Frame : f.conn \notin Unseen /\ connId[f.conn] = f.id}

FramesTagged ==
  /\ out  \in [End -> Seq(Tagged)]
  /\ wire \in [End -> Seq(Tagged)]
  /\ \A e \in End : loop[e].frame \in Tagged \cup {NoFrame}

UnseenIdle ==
  /\ acceptor.at # "accept" => acceptor.conn \notin fresh
  /\ \A e \in End, c \in Unseen : reader[e][c] = "none" /\ writer[e][c] = "none"

TagInv == TypeOK /\ FramesTagged /\ UnseenIdle

IInv == TagInv /\ EntriesLive

\* No frame of a connection before its OPEN, within one queue and across two.
Leads(s) == \A i, j \in DOMAIN s :
              i < j /\ s[j].cmd = "OPEN" => s[i].conn # s[j].conn
Behind(s, t) == \A i \in DOMAIN s, j \in DOMAIN t :
                  t[j].cmd = "OPEN" => s[i].conn # t[j].conn
LeadsInv == /\ Leads(wire["gate"]) /\ Leads(out["home"])
            /\ Behind(wire["gate"], out["home"])

LEMMA SeqMonotone ==
  ASSUME NEW S, NEW T, S \subseteq T PROVE Seq(S) \subseteq Seq(T)
OBVIOUS

\* What was tagged stays tagged when no connection becomes unseen and no seen
\* connection changes its id.
LEMMA TaggedMonotone ==
  ASSUME TypeOK, FramesTagged, Unseen' \subseteq Unseen,
         \A c \in Conn \ Unseen : connId'[c] = connId[c]
  PROVE  Tagged \subseteq Tagged' /\ Seq(Tagged) \subseteq Seq(Tagged')
<1>1. Tagged \subseteq Tagged'
  <2> SUFFICES ASSUME NEW f \in Tagged PROVE f \in Tagged'
    OBVIOUS
  <2>1. f \in Frame /\ f.conn \in Conn \ Unseen /\ connId[f.conn] = f.id
    BY DEF Tagged, Frame
  <2> QED
    BY <2>1 DEF Tagged
<1> QED
  BY <1>1, SeqMonotone

LEMMA TaggedFrame == Tagged \subseteq Frame /\ NoFrame \notin Tagged
BY DEF Tagged, Frame, NoFrame

LEMMA TagInit == ASSUME NEW up \in BOOLEAN, InitLinks(up) PROVE IInv
<1>1. TypeOK
  BY TypeInit
<1>2. FramesTagged
  BY DEF InitLinks, FramesTagged, Idle
<1>3. UnseenIdle /\ EntriesLive
  BY <1>1 DEF InitLinks, UnseenIdle, Unseen, EntriesLive, TypeOK
<1> QED
  BY <1>1, <1>2, <1>3 DEF IInv, TagInv

\* The connection a task works for, and a frame made for it.
LEMMA SeenByTask ==
  ASSUME TagInv, NEW e \in End, NEW c \in Conn,
         reader[e][c] # "none" \/ writer[e][c] # "none"
  PROVE  c \notin Unseen
BY DEF TagInv, UnseenIdle

LEMMA MadeTagged ==
  ASSUME TagInv, NEW c \in Conn, c \notin Unseen,
         NEW cmd \in {"OPEN", "DATA", "CLOSE"}, NEW n \in Nat
  PROVE  MkFrame(cmd, connId[c], c, n) \in Tagged
<1>1. connId[c] \in Ids
  BY DEF TagInv, TypeOK
<1>2. MkFrame(cmd, connId[c], c, n) \in Frame
  BY <1>1, FrameType
<1> QED
  BY <1>2 DEF MkFrame, Tagged

LEMMA PushTagged ==
  ASSUME TagInv, NEW e \in End, NEW f \in Tagged, Push(e, f)
  PROVE  out' \in [End -> Seq(Tagged)]
<1>1. out \in [End -> Seq(Tagged)]
  BY DEF TagInv, FramesTagged
<1> QED
  BY <1>1 DEF Push

LEMMA CutTagged ==
  ASSUME TagInv, NEW e \in End, Cut(e)
  PROVE  wire' \in [End -> Seq(Tagged)]
<1>1. PICK k \in 0 .. Len(wire[Other(e)]) :
        wire' = [d \in End |-> IF d = e THEN <<>> ELSE SubSeq(wire[d], 1, k)]
  BY DEF Cut
<1>2. wire \in [End -> Seq(Tagged)]
  BY DEF TagInv, FramesTagged
<1>3. \A d \in End : d # e => SubSeq(wire[d], 1, k) \in Seq(Tagged)
  <2> SUFFICES ASSUME NEW d \in End, d # e PROVE SubSeq(wire[d], 1, k) \in Seq(Tagged)
    OBVIOUS
  <2>1. d = Other(e)
    BY DEF Other, End
  <2>2. wire[d] \in Seq(Tagged)
    BY <1>2
  <2> QED
    BY <2>1, <2>2
<1> QED
  BY <1>1, <1>3

LEMMA UnseenConn == TypeOK => Unseen \subseteq Conn
BY DEF TypeOK, AcceptorState, Unseen

\* A task of one connection leaves the tasks of the others alone.
LEMMA OthersKept ==
  ASSUME NEW S, NEW f \in [End -> [Conn -> S]], NEW e \in End, NEW c \in Conn,
         NEW v \in S, NEW d \in End, NEW b \in Conn, b # c
  PROVE  [f EXCEPT ![e][c] = v][d][b] = f[d][b]
OBVIOUS

\* A session loop that is in the middle of a frame holds a tagged one.
LEMMA BusyFrame ==
  ASSUME TagInv, NEW e \in End, loop[e].at \notin {"down", "select"}
  PROVE  loop[e].frame \in Tagged
<1>1. loop[e] \in LoopState /\ loop[e].frame \in Tagged \cup {NoFrame}
  BY DEF TagInv, TypeOK, FramesTagged
<1>2. loop[e].frame \in Frame
  BY <1>1 DEF LoopState
<1> QED
  BY <1>1, <1>2 DEF Frame, NoFrame

\* Steps that change nothing about who is unseen or what is tagged.
LEMMA QuietTags ==
  ASSUME TagInv, UNCHANGED acceptVars
  PROVE  Unseen' = Unseen /\ Tagged' = Tagged
BY DEF acceptVars, Unseen, Tagged

LEMMA TagAcceptor == ASSUME TagInv, Acceptor PROVE FramesTagged' /\ UnseenIdle'
<1> USE DEF taskVars, dataVars, netVars, faultVars
<1>1. ASSUME NEW c \in Conn, AcceptAlloc(c) PROVE FramesTagged' /\ UnseenIdle'
  <2>1. Unseen' = Unseen /\ c \in Unseen
    BY <1>1 DEF AcceptAlloc, Unseen
  <2>2. \A d \in Conn \ Unseen : connId'[d] = connId[d]
    BY <1>1, <2>1 DEF AcceptAlloc, TagInv, TypeOK
  <2>3. Tagged \subseteq Tagged' /\ Seq(Tagged) \subseteq Seq(Tagged')
    BY <2>1, <2>2, TaggedMonotone DEF TagInv
  <2>4. out' = out /\ wire' = wire /\ loop' = loop
    BY <1>1 DEF AcceptAlloc
  <2>5. FramesTagged'
    BY <2>3, <2>4 DEF TagInv, FramesTagged
  <2>6. UnseenIdle'
    BY <1>1, <2>1 DEF AcceptAlloc, TagInv, UnseenIdle
  <2> QED
    BY <2>5, <2>6
<1>2. ASSUME NEW c \in Conn, AcceptFull(c) PROVE FramesTagged' /\ UnseenIdle'
  <2>1. Unseen' \subseteq Unseen /\ connId' = connId
    BY <1>2 DEF AcceptFull, Unseen
  <2>2. Seq(Tagged) \subseteq Seq(Tagged') /\ Tagged \subseteq Tagged'
    BY <2>1, TaggedMonotone DEF TagInv
  <2>3. FramesTagged'
    BY <1>2, <2>2 DEF AcceptFull, TagInv, FramesTagged
  <2>4. UnseenIdle'
    BY <1>2, <2>1 DEF AcceptFull, TagInv, UnseenIdle
  <2> QED
    BY <2>3, <2>4
<1>3. ASSUME SendOpen PROVE FramesTagged' /\ UnseenIdle'
  <2> DEFINE c == acceptor.conn
             f == MkFrame("OPEN", connId[c], c, 0)
  <2>1. c \in Conn /\ c \notin fresh /\ Unseen' = fresh /\ Unseen' \subseteq Unseen
        /\ connId' = connId /\ fresh' = fresh
    BY <1>3 DEF SendOpen, TagInv, TypeOK, AcceptorState, UnseenIdle, Unseen
  <2>2. Tagged \subseteq Tagged' /\ Seq(Tagged) \subseteq Seq(Tagged')
    BY <2>1, TaggedMonotone DEF TagInv
  <2>3. f \in Frame
    BY <2>1, FrameType DEF TagInv, TypeOK
  <2>4. f.conn = c /\ f.id = connId[c]
    BY DEF MkFrame
  <2>5. f \in Tagged'
    BY <2>1, <2>3, <2>4 DEF Tagged
  <2>6. out' \in [End -> Seq(Tagged')]
    <3>1. out \in [End -> Seq(Tagged')]
      BY <2>2 DEF TagInv, FramesTagged
    <3>2. out' = [out EXCEPT !["home"] = Append(@, f)]
      BY <1>3 DEF SendOpen, Push
    <3> HIDE DEF f
    <3>3. Append(out["home"], f) \in Seq(Tagged')
      BY <3>1, <2>5 DEF End
    <3> QED
      BY <3>1, <3>2, <3>3
  <2>7. FramesTagged'
    BY <1>3, <2>2, <2>6 DEF SendOpen, TagInv, FramesTagged
  <2>8. UnseenIdle'
    BY <1>3, <2>1 DEF SendOpen, TagInv, UnseenIdle
  <2> QED
    BY <2>7, <2>8
<1>4. ASSUME SpawnLocal PROVE FramesTagged' /\ UnseenIdle'
  <2>1. /\ acceptor.conn \in Conn /\ acceptor.conn \notin fresh
        /\ Unseen = fresh /\ Unseen' = fresh /\ connId' = connId /\ fresh' = fresh
    BY <1>4 DEF SpawnLocal, TagInv, TypeOK, AcceptorState, UnseenIdle, Unseen
  <2>2. Tagged' = Tagged
    BY <2>1 DEF Tagged
  <2>3. FramesTagged'
    BY <1>4, <2>2 DEF SpawnLocal, TagInv, FramesTagged
  <2>4. \A e \in End, d \in Unseen' :
           reader'[e][d] = reader[e][d] /\ writer'[e][d] = writer[e][d]
    BY <1>4, <2>1 DEF SpawnLocal, Spawn, TagInv, TypeOK, End
  <2>5. UnseenIdle'
    BY <1>4, <2>1, <2>4 DEF SpawnLocal, TagInv, UnseenIdle
  <2> QED
    BY <2>3, <2>5
<1> QED
  BY <1>1, <1>2, <1>3, <1>4 DEF Acceptor

LEMMA TagReader ==
  ASSUME TagInv, NEW e \in End, NEW c \in Conn, Reader(e, c)
  PROVE  FramesTagged' /\ UnseenIdle'
<1> USE DEF taskVars, dataVars, netVars, faultVars
<1>1. reader[e][c] = "open" /\ UNCHANGED <<acceptVars, wire, loop, writer>>
  BY DEF Reader, ReadChunk, ReadEnd
<1>2. c \notin Unseen /\ Unseen' = Unseen /\ Tagged' = Tagged
  BY <1>1, SeenByTask, QuietTags
<1>3. out' \in [End -> Seq(Tagged)]
  <2>1. CASE ReadChunk(e, c)
    <3>1. sent[e][c] + 1 \in Nat
      BY DEF TagInv, TypeOK
    <3> QED
      BY <2>1, <3>1, <1>2, MadeTagged, PushTagged DEF ReadChunk
  <2>2. CASE ReadEnd(e, c)
    BY <2>2, <1>2, MadeTagged, PushTagged DEF ReadEnd
  <2> QED
    BY <2>1, <2>2 DEF Reader
<1>4. \A d \in End, b \in Unseen : reader'[d][b] = reader[d][b]
  <2>1. UNCHANGED reader \/ reader' = [reader EXCEPT ![e][c] = "done"]
    BY DEF Reader, ReadChunk, ReadEnd
  <2>2. \A b \in Unseen : b \in Conn /\ b # c
    BY <1>2, UnseenConn DEF TagInv
  <2>3. reader \in [End -> [Conn -> {"none", "open", "done"}]]
    BY DEF TagInv, TypeOK
  <2> QED
    BY <2>1, <2>2, <2>3, OthersKept
<1>5. FramesTagged'
  BY <1>1, <1>2, <1>3 DEF TagInv, FramesTagged
<1>6. UnseenIdle'
  BY <1>1, <1>2, <1>4 DEF acceptVars, TagInv, UnseenIdle
<1> QED
  BY <1>5, <1>6

LEMMA TagWriter ==
  ASSUME TagInv, NEW e \in End, NEW c \in Conn, Writer(e, c)
  PROVE  FramesTagged' /\ UnseenIdle'
<1> USE DEF netVars
<1>1. /\ writer[e][c] # "none"
      /\ UNCHANGED <<acceptVars, out, wire, loop, reader>>
  BY DEF Writer, WriteChunk, WriterBreak, WriterOrphaned, WriterExit, NextIs
<1>2. c \notin Unseen /\ Unseen' = Unseen /\ Tagged' = Tagged
  BY <1>1, SeenByTask, QuietTags
<1>3. \A d \in End, b \in Unseen : writer'[d][b] = writer[d][b]
  <2>1. \/ UNCHANGED writer
        \/ \E v \in {"none", "run", "stop", "done"} :
             writer' = [writer EXCEPT ![e][c] = v]
    BY DEF Writer, WriteChunk, WriterBreak, WriterOrphaned, WriterExit
  <2>2. \A b \in Unseen : b \in Conn /\ b # c
    BY <1>2, UnseenConn DEF TagInv
  <2>3. writer \in [End -> [Conn -> {"none", "run", "stop", "done"}]]
    BY DEF TagInv, TypeOK
  <2> QED
    BY <2>1, <2>2, <2>3, OthersKept
<1>4. FramesTagged'
  BY <1>1, <1>2 DEF TagInv, FramesTagged
<1>5. UnseenIdle'
  BY <1>1, <1>2, <1>3 DEF acceptVars, TagInv, UnseenIdle
<1> QED
  BY <1>4, <1>5

LEMMA IncomingTagged ==
  ASSUME TagInv, NEW e \in End, NEW cmd, Incoming(e, cmd)
  PROVE  Head(wire[e]) \in Tagged /\ wire' \in [End -> Seq(Tagged)]
<1>1. wire \in [End -> Seq(Tagged)]
  BY DEF TagInv, FramesTagged
<1> QED
  BY <1>1 DEF Incoming

LEMMA TagGate == ASSUME TagInv, Gate PROVE FramesTagged' /\ UnseenIdle'
<1> USE DEF taskVars, dataVars, netVars, faultVars
<1>1. UNCHANGED acceptVars /\ Unseen' = Unseen /\ Tagged' = Tagged
  BY QuietTags DEF Gate, RecvOpen, Incoming, Dialed, DialFailed
<1>2. loop \in [End -> LoopState] /\ \A e \in End : loop[e].frame \in Tagged \cup {NoFrame}
  BY DEF TagInv, TypeOK, FramesTagged
<1>3. CASE RecvOpen
  <2>1. Head(wire["gate"]) \in Tagged /\ wire' \in [End -> Seq(Tagged)]
    BY <1>3, IncomingTagged DEF RecvOpen, End
  <2> QED
    BY <1>1, <1>2, <1>3, <2>1
       DEF RecvOpen, Incoming, Handling, acceptVars, TagInv, FramesTagged, UnseenIdle
<1>4. CASE Dialed
  <2>1. loop["gate"].frame \in Tagged
    BY <1>4, BusyFrame DEF Dialed, End
  <2>2. loop["gate"].frame.conn \in Conn \ Unseen
    BY <2>1 DEF Tagged, Frame
  <2>3. \A d \in End, b \in Unseen :
           reader'[d][b] = reader[d][b] /\ writer'[d][b] = writer[d][b]
    BY <1>4, <2>2, UnseenConn, OthersKept DEF Dialed, Spawn, TagInv, TypeOK, End
  <2>4. FramesTagged'
    BY <1>1, <1>2, <1>4 DEF Dialed, Idle, TagInv, FramesTagged
  <2>5. UnseenIdle'
    BY <1>1, <2>3 DEF acceptVars, TagInv, UnseenIdle
  <2> QED
    BY <2>4, <2>5
<1>5. CASE DialFailed
  BY <1>1, <1>2, <1>5 DEF DialFailed, acceptVars, TagInv, FramesTagged, UnseenIdle
<1> QED
  BY <1>3, <1>4, <1>5 DEF Gate

LEMMA TagSession ==
  ASSUME TagInv, NEW e \in End, Session(e) PROVE FramesTagged' /\ UnseenIdle'
<1> USE DEF taskVars, dataVars, netVars, faultVars
<1>1. UNCHANGED <<acceptVars, reader, writer>>
  BY DEF Session, Connect, SendFrame, LoseFrame, NoticeDrop, RecvData, RecvClose,
         RecvRouted, RecvUnknown, Incoming, Reply, Deliver, DeliverDataFailed,
         DeliverShutdownFailed
<1>2. Unseen' = Unseen /\ Tagged' = Tagged
  BY <1>1, QuietTags
<1>3. UnseenIdle'
  BY <1>1, <1>2 DEF acceptVars, TagInv, UnseenIdle
<1>4. /\ out \in [End -> Seq(Tagged)] /\ wire \in [End -> Seq(Tagged)]
      /\ loop \in [End -> LoopState]
      /\ \A d \in End : loop[d].frame \in Tagged \cup {NoFrame}
  BY DEF TagInv, TypeOK, FramesTagged
<1> SUFFICES FramesTagged'
  BY <1>3
<1>5. CASE Connect(e)
  BY <1>2, <1>4, <1>5 DEF Connect, Idle, FramesTagged
<1>6. CASE SendFrame(e)
  <2>1. Head(out[e]) \in Tagged /\ Tail(out[e]) \in Seq(Tagged)
    BY <1>4, <1>6 DEF SendFrame
  <2> QED
    BY <1>2, <1>4, <1>6, <2>1, OtherType DEF SendFrame, FramesTagged
<1>7. CASE LoseFrame(e)
  <2>1. Tail(out[e]) \in Seq(Tagged)
    BY <1>4, <1>7 DEF LoseFrame
  <2> QED
    BY <1>2, <1>4, <1>7, <2>1 DEF LoseFrame, Idle, FramesTagged
<1>8. CASE NoticeDrop(e)
  BY <1>2, <1>4, <1>8 DEF NoticeDrop, Idle, FramesTagged
<1>9. ASSUME NEW cmd, NEW at, RecvRouted(e, cmd, at) PROVE FramesTagged'
  <2>1. Head(wire[e]) \in Tagged /\ wire' \in [End -> Seq(Tagged)]
    BY <1>9, IncomingTagged DEF RecvRouted
  <2> QED
    BY <1>2, <1>4, <1>9, <2>1 DEF RecvRouted, Incoming, Handling, FramesTagged
<1>10. CASE RecvUnknown(e)
  <2>1. wire' \in [End -> Seq(Tagged)]
    BY <1>10, IncomingTagged DEF RecvUnknown
  <2> QED
    BY <1>2, <1>4, <1>10, <2>1 DEF RecvUnknown, Incoming, FramesTagged
<1>11. CASE Reply(e)
  <2> DEFINE f == MkFrame("CLOSE", loop[e].frame.id, loop[e].frame.conn, 0)
  <2>1. loop[e].frame \in Tagged
    BY <1>11, BusyFrame DEF Reply
  <2>2. f \in Tagged
    <3>1. loop[e].frame.conn \in Conn \ Unseen
          /\ connId[loop[e].frame.conn] = loop[e].frame.id
      BY <2>1 DEF Tagged, Frame
    <3> QED
      BY <3>1, MadeTagged
  <2>3. out' \in [End -> Seq(Tagged)]
    BY <1>11, <2>2, PushTagged DEF Reply
  <2> QED
    BY <1>2, <1>4, <1>11, <2>3 DEF Reply, Idle, FramesTagged
<1>12. CASE Deliver(e)
  BY <1>2, <1>4, <1>12 DEF Deliver, Idle, FramesTagged
<1>13. CASE DeliverDataFailed(e)
  BY <1>2, <1>4, <1>13 DEF DeliverDataFailed, Handling, FramesTagged
<1>14. CASE DeliverShutdownFailed(e)
  BY <1>2, <1>4, <1>14 DEF DeliverShutdownFailed, Idle, FramesTagged
<1> QED
  BY <1>5, <1>6, <1>7, <1>8, <1>9, <1>10, <1>11, <1>12, <1>13, <1>14
     DEF Session, RecvData, RecvClose

LEMMA TagFault ==
  ASSUME TagInv, NEW e \in End, Fault(e) PROVE FramesTagged' /\ UnseenIdle'
<1> USE DEF taskVars, dataVars
<1>1. /\ out \in [End -> Seq(Tagged)]
      /\ loop \in [End -> LoopState]
      /\ \A d \in End : loop[d].frame \in Tagged \cup {NoFrame}
  BY DEF TagInv, TypeOK, FramesTagged
<1>2. wire' \in [End -> Seq(Tagged)]
  BY CutTagged DEF Fault, DropLink, Kill
<1>3. CASE DropLink(e)
  <2>1. Unseen' = Unseen /\ Tagged' = Tagged
    BY <1>3, QuietTags DEF DropLink
  <2> QED
    BY <1>1, <1>2, <1>3, <2>1 DEF DropLink, acceptVars, TagInv, FramesTagged, UnseenIdle
<1>4. CASE Kill(e)
  <2>1. Unseen' \subseteq Unseen /\ connId' = connId /\ fresh' = fresh
    BY <1>4 DEF Kill, Unseen
  <2>2. Tagged \subseteq Tagged' /\ Seq(Tagged) \subseteq Seq(Tagged')
    BY <2>1, TaggedMonotone DEF TagInv
  <2>3. out' \in [End -> Seq(Tagged')] /\ wire' \in [End -> Seq(Tagged')]
    BY <1>1, <1>2, <1>4, <2>2 DEF Kill
  <2>4. \A d \in End : loop'[d].frame \in Tagged' \cup {NoFrame}
    BY <1>1, <1>4, <2>2 DEF Kill, Idle
  <2>5. \A d \in End, b \in Unseen :
           reader'[d][b] = reader[d][b] /\ writer'[d][b] = writer[d][b]
    <3>1. Unseen \subseteq Conn
      BY DEF TagInv, TypeOK, AcceptorState, Unseen
    <3> QED
      BY <1>4, <3>1 DEF Kill, TagInv, UnseenIdle, TypeOK
  <2>6. acceptor'.at # "accept" => acceptor' = acceptor
    BY <1>4 DEF Kill
  <2>7. UnseenIdle'
    BY <2>1, <2>5, <2>6 DEF TagInv, UnseenIdle
  <2> QED
    BY <2>3, <2>4, <2>7 DEF FramesTagged
<1> QED
  BY <1>3, <1>4 DEF Fault

LEMMA TagStep == TagInv /\ [Next]_vars => TagInv'
<1> SUFFICES ASSUME TagInv, [Next]_vars PROVE FramesTagged' /\ UnseenIdle'
  BY TypeStep DEF TagInv
<1>1. CASE UNCHANGED vars
  <2>1. Unseen' = Unseen /\ Tagged' = Tagged
    BY <1>1, QuietTags DEF vars
  <2> QED
    BY <1>1, <2>1 DEF vars, acceptVars, taskVars, netVars, TagInv, FramesTagged,
                      UnseenIdle
<1>2. CASE Next
  BY <1>2, TagAcceptor, TagGate, TagSession, TagFault, TagReader, TagWriter DEF Next
<1> QED
  BY <1>1, <1>2

-----------------------------------------------------------------------------
(* EntriesLive.                                                            *)

LEMMA SpawnEntries ==
  ASSUME TypeOK, EntriesLive, NEW e \in End, NEW c \in Conn, NEW id \in Ids,
         connId[c] = id, Spawn(e, c, id), UNCHANGED connId
  PROVE  EntriesLive'
<1> SUFFICES ASSUME NEW d \in End, NEW i \in Ids, conns'[d][i] # NoConn
             PROVE  /\ connId[conns'[d][i]] = i
                    /\ writer'[d][conns'[d][i]] \in {"run", "stop"}
  BY DEF EntriesLive
<1>1. CASE d = e /\ i = id
  BY <1>1 DEF Spawn, TypeOK
<1>2. CASE ~(d = e /\ i = id)
  <2>1. conns'[d][i] = conns[d][i]
    BY <1>2 DEF Spawn, TypeOK
  <2>2. conns[d][i] \in Conn
    BY <2>1 DEF TypeOK
  <2> QED
    BY <2>1, <2>2 DEF Spawn, TypeOK, EntriesLive
<1> QED
  BY <1>1, <1>2

LEMMA EntriesStep == IInv /\ [Next]_vars => EntriesLive'
<1> SUFFICES ASSUME IInv, [Next]_vars PROVE EntriesLive'
  OBVIOUS
<1> USE DEF acceptVars, taskVars
<1>1. TypeOK /\ EntriesLive /\ FramesTagged /\ UnseenIdle /\ TagInv
  BY DEF IInv, TagInv
<1>2. ASSUME UNCHANGED <<connId, conns, writer>> PROVE EntriesLive'
  BY <1>1, <1>2 DEF EntriesLive
<1>3. ASSUME NEW c \in Conn, AcceptAlloc(c) PROVE EntriesLive'
  <2>1. c \in Unseen
    BY <1>3 DEF AcceptAlloc, Unseen
  <2>2. \A e \in End, i \in Ids : conns[e][i] # c
    BY <1>1, <2>1, TunnelAssumption DEF UnseenIdle, EntriesLive
  <2> QED
    BY <1>1, <1>3, <2>2 DEF AcceptAlloc, EntriesLive, TypeOK
<1>4. CASE SpawnLocal
  <2>1. acceptor.conn \in Conn /\ connId[acceptor.conn] \in Ids
    BY <1>1, <1>4 DEF SpawnLocal, TypeOK, AcceptorState
  <2> QED
    BY <1>1, <1>4, <2>1, SpawnEntries DEF SpawnLocal, End
<1>5. CASE Dialed
  <2>1. loop["gate"].frame \in Tagged
    BY <1>1, <1>5, BusyFrame DEF Dialed, End
  <2>2. /\ loop["gate"].frame.conn \in Conn /\ loop["gate"].frame.id \in Ids
        /\ connId[loop["gate"].frame.conn] = loop["gate"].frame.id
    BY <2>1 DEF Tagged, Frame
  <2> QED
    BY <1>1, <1>5, <2>2, SpawnEntries DEF Dialed, End
<1>6. ASSUME NEW e \in End, NEW c \in Conn, WriterBreak(e, c) \/ WriterOrphaned(e, c)
      PROVE  EntriesLive'
  <2>1. writer' = [writer EXCEPT ![e][c] = "stop"] /\ UNCHANGED <<connId, conns>>
    BY <1>6 DEF WriterBreak, WriterOrphaned
  <2>2. \A d \in End, b \in Conn :
           writer[d][b] \in {"run", "stop"} => writer'[d][b] \in {"run", "stop"}
    BY <1>1, <2>1 DEF TypeOK
  <2> QED
    BY <1>1, <2>1, <2>2 DEF EntriesLive, TypeOK
<1>7. ASSUME NEW e \in End, NEW c \in Conn, WriterExit(e, c) PROVE EntriesLive'
  <2> SUFFICES ASSUME NEW d \in End, NEW i \in Ids, conns'[d][i] # NoConn
               PROVE  /\ connId'[conns'[d][i]] = i
                      /\ writer'[d][conns'[d][i]] \in {"run", "stop"}
    BY DEF EntriesLive
  <2>1. conns'[d][i] = conns[d][i] /\ ~(d = e /\ i = connId[c]) /\ connId' = connId
    BY <1>1, <1>7 DEF WriterExit, TypeOK
  <2>2. /\ conns[d][i] \in Conn /\ connId[conns[d][i]] = i
        /\ writer[d][conns[d][i]] \in {"run", "stop"}
    BY <1>1, <2>1 DEF EntriesLive, TypeOK
  <2>3. ~(d = e /\ conns[d][i] = c)
    BY <2>1, <2>2
  <2>4. writer'[d][conns[d][i]] = writer[d][conns[d][i]]
    BY <1>1, <1>7, <2>2, <2>3 DEF WriterExit, TypeOK
  <2> QED
    BY <2>1, <2>2, <2>4
<1>8. ASSUME NEW e \in End, DeliverDataFailed(e) PROVE EntriesLive'
  BY <1>1, <1>8 DEF DeliverDataFailed, EntriesLive, TypeOK
<1>9. ASSUME NEW e \in End, Kill(e) PROVE EntriesLive'
  BY <1>1, <1>9 DEF Kill, EntriesLive, TypeOK
<1>10. CASE UNCHANGED vars
  BY <1>2, <1>10 DEF vars
<1>11. CASE Acceptor
  BY <1>2, <1>3, <1>4, <1>11 DEF Acceptor, AcceptFull, SendOpen
<1>12. CASE Gate
  BY <1>2, <1>5, <1>12 DEF Gate, RecvOpen, Incoming, DialFailed
<1>13. ASSUME NEW e \in End, Session(e) PROVE EntriesLive'
  BY <1>2, <1>8, <1>13 DEF Session, Connect, SendFrame, LoseFrame, NoticeDrop,
     RecvData, RecvClose, RecvRouted, RecvUnknown, Incoming, Reply, Deliver,
     DeliverShutdownFailed
<1>14. ASSUME NEW e \in End, Fault(e) PROVE EntriesLive'
  BY <1>2, <1>9, <1>14 DEF Fault, DropLink
<1>15. ASSUME NEW e \in End, NEW c \in Conn, Reader(e, c) \/ Writer(e, c)
       PROVE  EntriesLive'
  BY <1>2, <1>6, <1>7, <1>15 DEF Reader, ReadChunk, ReadEnd, Writer, WriteChunk
<1> QED
  BY <1>10, <1>11, <1>12, <1>13, <1>14, <1>15 DEF Next

LEMMA IInvStep == IInv /\ [Next]_vars => IInv'
BY TagStep, EntriesStep DEF IInv

LEMMA IInvInvariant == (Spec => []IInv) /\ (ReadySpec => []IInv)
<1>1. Init => IInv
  BY TagInit DEF Init
<1>2. InitReady => IInv
  BY TagInit DEF InitReady
<1> QED
  BY <1>1, <1>2, IInvStep, PTL DEF Spec, ReadySpec

\* tcp.rs:587 "The writer is the entry's owner": at each end, an entry of the
\* map stands under the id of its connection, and the writer it leads to has
\* not exited, for any number of connections sharing any number of ids.
THEOREM EntriesLiveInvariant == (Spec => []EntriesLive) /\ (ReadySpec => []EntriesLive)
<1>1. IInv => EntriesLive
  BY DEF IInv
<1> QED
  BY <1>1, IInvInvariant, PTL

-----------------------------------------------------------------------------
(* OpenLeads.                                                              *)

LEMMA LeadsEmpty == Leads(<<>>) /\ \A t : Behind(<<>>, t) /\ Behind(t, <<>>)
BY DEF Leads, Behind

LEMMA LeadsTail ==
  ASSUME NEW s \in Seq(Frame), NEW t \in Seq(Frame), s # <<>>
  PROVE  /\ Leads(s) => Leads(Tail(s))
         /\ Behind(s, t) => Behind(Tail(s), t)
         /\ Behind(t, s) => Behind(t, Tail(s))
<1>1. \A i \in DOMAIN Tail(s) : i \in 1 .. Len(s) - 1 /\ i + 1 \in DOMAIN s /\ Tail(s)[i] = s[i + 1]
  OBVIOUS
<1>2. ASSUME Leads(s) PROVE Leads(Tail(s))
  <2> SUFFICES ASSUME NEW i \in DOMAIN Tail(s), NEW j \in DOMAIN Tail(s),
                      i < j, Tail(s)[j].cmd = "OPEN"
               PROVE  Tail(s)[i].conn # Tail(s)[j].conn
    BY DEF Leads
  <2>1. i + 1 \in DOMAIN s /\ j + 1 \in DOMAIN s /\ i + 1 < j + 1
    BY <1>1
  <2> QED
    BY <1>1, <1>2, <2>1 DEF Leads
<1>3. /\ Behind(s, t) => Behind(Tail(s), t)
      /\ Behind(t, s) => Behind(t, Tail(s))
  BY <1>1 DEF Behind
<1> QED
  BY <1>2, <1>3

LEMMA LeadsAppend ==
  ASSUME NEW s \in Seq(Frame), NEW f \in Frame
  PROVE  /\ Leads(s) /\ (f.cmd = "OPEN" => \A i \in DOMAIN s : s[i].conn # f.conn)
              => Leads(Append(s, f))
         /\ \A t \in Seq(Frame) :
              /\ Behind(t, s) /\ (f.cmd = "OPEN" => \A i \in DOMAIN t : t[i].conn # f.conn)
                   => Behind(t, Append(s, f))
              /\ Behind(s, t)
                   /\ (\A j \in DOMAIN t : t[j].cmd = "OPEN" => f.conn # t[j].conn)
                   => Behind(Append(s, f), t)
<1>1. \A i \in DOMAIN Append(s, f) :
        \/ i \in DOMAIN s /\ Append(s, f)[i] = s[i]
        \/ i = Len(s) + 1 /\ Append(s, f)[i] = f
  OBVIOUS
<1>2. ASSUME Leads(s), f.cmd = "OPEN" => \A i \in DOMAIN s : s[i].conn # f.conn
      PROVE  Leads(Append(s, f))
  <2> SUFFICES ASSUME NEW i \in DOMAIN Append(s, f), NEW j \in DOMAIN Append(s, f),
                      i < j, Append(s, f)[j].cmd = "OPEN"
               PROVE  Append(s, f)[i].conn # Append(s, f)[j].conn
    BY DEF Leads
  <2>1. i \in DOMAIN s /\ Append(s, f)[i] = s[i]
    OBVIOUS
  <2> QED
    BY <1>1, <1>2, <2>1 DEF Leads
<1>3. ASSUME NEW t \in Seq(Frame), Behind(t, s),
             f.cmd = "OPEN" => \A i \in DOMAIN t : t[i].conn # f.conn
      PROVE  Behind(t, Append(s, f))
  BY <1>1, <1>3 DEF Behind
<1>4. ASSUME NEW t \in Seq(Frame), Behind(s, t),
             \A j \in DOMAIN t : t[j].cmd = "OPEN" => f.conn # t[j].conn
      PROVE  Behind(Append(s, f), t)
  BY <1>1, <1>4 DEF Behind
<1> QED
  BY <1>2, <1>3, <1>4

LEMMA LeadsPrefix ==
  ASSUME NEW s \in Seq(Frame), NEW k \in 0 .. Len(s)
  PROVE  /\ Leads(s) => Leads(SubSeq(s, 1, k))
         /\ \A t \in Seq(Frame) : Behind(s, t) => Behind(SubSeq(s, 1, k), t)
<1>1. \A i \in DOMAIN SubSeq(s, 1, k) : i \in DOMAIN s /\ SubSeq(s, 1, k)[i] = s[i]
  OBVIOUS
<1> QED
  BY <1>1 DEF Leads, Behind

LEMMA LeadsConcat ==
  ASSUME NEW s \in Seq(Frame), NEW t \in Seq(Frame), Leads(s), Leads(t), Behind(s, t)
  PROVE  Leads(s \o t)
<1>1. \A i \in DOMAIN (s \o t) :
        \/ i \in DOMAIN s /\ (s \o t)[i] = s[i]
        \/ i > Len(s) /\ i - Len(s) \in DOMAIN t /\ (s \o t)[i] = t[i - Len(s)]
  OBVIOUS
<1> SUFFICES ASSUME NEW i \in DOMAIN (s \o t), NEW j \in DOMAIN (s \o t),
                    i < j, (s \o t)[j].cmd = "OPEN"
             PROVE  (s \o t)[i].conn # (s \o t)[j].conn
  BY DEF Leads
<1>2. CASE j \in DOMAIN s
  BY <1>1, <1>2 DEF Leads
<1>3. CASE i \in DOMAIN s /\ j \notin DOMAIN s
  BY <1>1, <1>3 DEF Behind
<1>4. CASE i \notin DOMAIN s /\ j \notin DOMAIN s
  <2>1. i - Len(s) < j - Len(s) /\ i - Len(s) \in DOMAIN t /\ j - Len(s) \in DOMAIN t
    BY <1>1, <1>4
  <2> QED
    BY <1>1, <1>4, <2>1 DEF Leads
<1> QED
  BY <1>1, <1>2, <1>3, <1>4

LEMMA LeadsPush ==
  ASSUME TagInv, LeadsInv, NEW f \in Frame, Push("home", f), UNCHANGED wire,
         f.cmd = "OPEN" => f.conn \in Unseen
  PROVE  LeadsInv'
<1>1. /\ out["home"] \in Seq(Frame) /\ wire["gate"] \in Seq(Frame)
      /\ out'["home"] = Append(out["home"], f)
  BY DEF TagInv, TypeOK, Push, End
<1>2. /\ \A i \in DOMAIN out["home"] : out["home"][i].conn \notin Unseen
      /\ \A i \in DOMAIN wire["gate"] : wire["gate"][i].conn \notin Unseen
  BY DEF TagInv, FramesTagged, Tagged, End
<1>3. Leads(Append(out["home"], f)) /\ Behind(wire["gate"], Append(out["home"], f))
  <2>1. f.cmd = "OPEN" => /\ \A i \in DOMAIN out["home"] : out["home"][i].conn # f.conn
                          /\ \A i \in DOMAIN wire["gate"] : wire["gate"][i].conn # f.conn
    BY <1>2
  <2> QED
    BY <1>1, <2>1, LeadsAppend DEF LeadsInv
<1> QED
  BY <1>1, <1>3 DEF LeadsInv

LEMMA LeadsCut ==
  ASSUME TypeOK, LeadsInv, NEW e \in End, Cut(e),
         out'["home"] = out["home"] \/ out'["home"] = <<>>
  PROVE  LeadsInv'
<1>1. PICK k \in 0 .. Len(wire[Other(e)]) :
        wire' = [d \in End |-> IF d = e THEN <<>> ELSE SubSeq(wire[d], 1, k)]
  BY DEF Cut
<1>2. out["home"] \in Seq(Frame) /\ wire["gate"] \in Seq(Frame)
  BY DEF TypeOK, End
<1>3. Leads(wire'["gate"]) /\ Behind(wire'["gate"], out["home"])
  <2>1. CASE e = "gate"
    BY <1>1, <2>1, LeadsEmpty DEF End
  <2>2. CASE e = "home"
    BY <1>1, <1>2, <2>2, LeadsPrefix DEF LeadsInv, End, Other
  <2> QED
    BY <2>1, <2>2 DEF End
<1> QED
  BY <1>3, LeadsEmpty DEF LeadsInv

LEMMA LeadsStep == TagInv /\ LeadsInv /\ [Next]_vars => LeadsInv'
<1> SUFFICES ASSUME TagInv, LeadsInv, [Next]_vars PROVE LeadsInv'
  OBVIOUS
<1> USE DEF netVars, taskVars, dataVars
<1>1. /\ out["home"] \in Seq(Frame) /\ wire["gate"] \in Seq(Frame)
      /\ out \in [End -> Seq(Frame)] /\ wire \in [End -> Seq(Frame)]
  BY DEF TagInv, TypeOK, End
<1>0. /\ Leads(wire["gate"]) /\ Leads(out["home"])
      /\ Behind(wire["gate"], out["home"])
  BY DEF LeadsInv
<1>2. ASSUME out'["home"] = out["home"], wire'["gate"] = wire["gate"] PROVE LeadsInv'
  BY <1>2 DEF LeadsInv
<1>3. CASE SendOpen
  <2>1. acceptor.conn \in Conn /\ acceptor.conn \in Unseen
    BY <1>3 DEF SendOpen, TagInv, TypeOK, AcceptorState, Unseen
  <2>2. MkFrame("OPEN", connId[acceptor.conn], acceptor.conn, 0) \in Frame
    BY <2>1, FrameType DEF TagInv, TypeOK
  <2> QED
    BY <1>3, <2>1, <2>2, LeadsPush DEF SendOpen, MkFrame
<1>4. ASSUME NEW e \in End, NEW f \in Frame, Push(e, f), f.cmd # "OPEN", UNCHANGED wire
      PROVE  LeadsInv'
  <2>1. CASE e = "home"
    BY <1>4, <2>1, LeadsPush
  <2>2. CASE e = "gate"
    BY <1>1, <1>2, <1>4, <2>2 DEF Push
  <2> QED
    BY <2>1, <2>2 DEF End
<1>5. ASSUME NEW e \in End, NEW c \in Conn, ReadChunk(e, c) PROVE LeadsInv'
  <2>1. MkFrame("DATA", connId[c], c, sent[e][c] + 1) \in Frame
    BY FrameType DEF TagInv, TypeOK
  <2> QED
    BY <1>4, <1>5, <2>1 DEF ReadChunk, MkFrame
<1>6. ASSUME NEW e \in End, NEW c \in Conn, ReadEnd(e, c) PROVE LeadsInv'
  <2>1. MkFrame("CLOSE", connId[c], c, 0) \in Frame
    BY FrameType DEF TagInv, TypeOK
  <2> QED
    BY <1>4, <1>6, <2>1 DEF ReadEnd, MkFrame
<1>7. ASSUME NEW e \in End, Reply(e) PROVE LeadsInv'
  <2>1. loop[e].frame \in Frame
    BY <1>7, BusyFrame, TaggedFrame DEF Reply
  <2>2. MkFrame("CLOSE", loop[e].frame.id, loop[e].frame.conn, 0) \in Frame
    BY <2>1, FrameType DEF Frame
  <2> QED
    BY <1>4, <1>7, <2>2 DEF Reply, MkFrame
<1>8. ASSUME NEW e \in End, SendFrame(e) PROVE LeadsInv'
  <2>1. CASE e = "gate"
    BY <1>1, <1>2, <1>8, <2>1 DEF SendFrame, Other
  <2>2. CASE e = "home"
    <3>1. /\ out["home"] # <<>> /\ out'["home"] = Tail(out["home"])
          /\ Head(out["home"]) \in Frame /\ Tail(out["home"]) \in Seq(Frame)
          /\ \/ wire'["gate"] = wire["gate"]
             \/ wire'["gate"] = Append(wire["gate"], Head(out["home"]))
      BY <1>1, <1>8, <2>2 DEF SendFrame, Other, End
    <3>2. Leads(Tail(out["home"])) /\ Behind(wire["gate"], Tail(out["home"]))
      BY <1>1, <1>0, <3>1, LeadsTail
    <3>3. \A i \in DOMAIN wire["gate"] :
            Head(out["home"]).cmd = "OPEN" => wire["gate"][i].conn # Head(out["home"]).conn
      BY <1>1, <3>1 DEF LeadsInv, Behind
    <3>4. \A j \in DOMAIN Tail(out["home"]) :
            Tail(out["home"])[j].cmd = "OPEN" =>
              Head(out["home"]).conn # Tail(out["home"])[j].conn
      <4> SUFFICES ASSUME NEW j \in DOMAIN Tail(out["home"]),
                          Tail(out["home"])[j].cmd = "OPEN"
                   PROVE  Head(out["home"]).conn # Tail(out["home"])[j].conn
        OBVIOUS
      <4>1. /\ 1 \in DOMAIN out["home"] /\ j + 1 \in DOMAIN out["home"] /\ 1 < j + 1
            /\ Tail(out["home"])[j] = out["home"][j + 1]
            /\ Head(out["home"]) = out["home"][1]
        BY <1>1, <3>1
      <4> QED
        BY <4>1 DEF LeadsInv, Leads
    <3>5. /\ Leads(Append(wire["gate"], Head(out["home"])))
          /\ Behind(Append(wire["gate"], Head(out["home"])), Tail(out["home"]))
      BY <1>1, <3>1, <3>2, <3>3, <3>4, LeadsAppend DEF LeadsInv
    <3> QED
      BY <3>1, <3>2, <3>5 DEF LeadsInv
  <2> QED
    BY <2>1, <2>2 DEF End
<1>9. ASSUME NEW e \in End, LoseFrame(e) PROVE LeadsInv'
  <2>1. CASE e = "gate"
    BY <1>1, <1>2, <1>9, <2>1 DEF LoseFrame
  <2>2. CASE e = "home"
    <3>1. /\ out["home"] # <<>> /\ out'["home"] = Tail(out["home"])
          /\ wire'["gate"] = wire["gate"]
      BY <1>1, <1>9, <2>2 DEF LoseFrame, End
    <3>2. Leads(Tail(out["home"])) /\ Behind(wire["gate"], Tail(out["home"]))
      BY <1>0, <1>1, <3>1, LeadsTail
    <3> QED
      BY <1>0, <3>1, <3>2 DEF LeadsInv
  <2> QED
    BY <2>1, <2>2 DEF End
<1>10. ASSUME NEW e \in End, NEW cmd, Incoming(e, cmd) PROVE LeadsInv'
  <2>1. CASE e = "home"
    BY <1>1, <1>2, <1>10, <2>1 DEF Incoming
  <2>2. CASE e = "gate"
    <3>1. /\ wire["gate"] # <<>> /\ wire'["gate"] = Tail(wire["gate"])
          /\ out'["home"] = out["home"]
      BY <1>1, <1>10, <2>2 DEF Incoming, End
    <3>2. Leads(Tail(wire["gate"])) /\ Behind(Tail(wire["gate"]), out["home"])
      BY <1>0, <1>1, <3>1, LeadsTail
    <3> QED
      BY <1>0, <3>1, <3>2 DEF LeadsInv
  <2> QED
    BY <2>1, <2>2 DEF End
<1>11. ASSUME NEW e \in End, DropLink(e) \/ Kill(e) PROVE LeadsInv'
  <2>1. Cut(e) /\ (out'["home"] = out["home"] \/ out'["home"] = <<>>)
    BY <1>1, <1>11 DEF DropLink, Kill, End
  <2> QED
    BY <2>1, LeadsCut DEF TagInv
<1>12. CASE UNCHANGED vars
  BY <1>2, <1>12 DEF vars
<1>13. CASE Acceptor
  BY <1>2, <1>3, <1>13 DEF Acceptor, AcceptAlloc, AcceptFull, SpawnLocal
<1>14. CASE Gate
  BY <1>2, <1>10, <1>14 DEF Gate, RecvOpen, Dialed, DialFailed, End
<1>15. ASSUME NEW e \in End, Session(e) PROVE LeadsInv'
  BY <1>2, <1>7, <1>8, <1>9, <1>10, <1>15 DEF Session, Connect, NoticeDrop,
     RecvData, RecvClose, RecvRouted, RecvUnknown, Deliver, DeliverDataFailed,
     DeliverShutdownFailed
<1>16. ASSUME NEW e \in End, NEW c \in Conn, Reader(e, c) \/ Writer(e, c)
       PROVE  LeadsInv'
  BY <1>2, <1>5, <1>6, <1>16 DEF Reader, Writer, WriteChunk, WriterBreak,
     WriterOrphaned, WriterExit
<1> QED
  BY <1>11, <1>12, <1>13, <1>14, <1>15, <1>16 DEF Next, Fault

\* tcp.rs:147-153: the gate learns of a connection before any of its data can
\* arrive: on the way from home to gate no frame of a connection is ahead of
\* its OPEN, whatever ids are reused and whatever links and processes fail.
THEOREM OpenLeadsInvariant == (Spec => []OpenLeads) /\ (ReadySpec => []OpenLeads)
<1>1. ASSUME NEW up \in BOOLEAN, InitLinks(up) PROVE LeadsInv
  BY <1>1, LeadsEmpty DEF InitLinks, LeadsInv, End
<1>2. (Init => LeadsInv) /\ (InitReady => LeadsInv)
  BY <1>1 DEF Init, InitReady
<1>3. IInv => TagInv
  BY DEF IInv
<1>4. TagInv /\ LeadsInv => OpenLeads
  <2> SUFFICES ASSUME TagInv, LeadsInv PROVE OpenLeads
    OBVIOUS
  <2>1. out["home"] \in Seq(Frame) /\ wire["gate"] \in Seq(Frame)
    BY DEF TagInv, TypeOK, End
  <2>2. Leads(ToGate)
    BY <2>1, LeadsConcat DEF ToGate, LeadsInv
  <2>3. ToGate \in Seq(Frame)
    BY <2>1 DEF ToGate
  <2>4. \A i \in DOMAIN ToGate : \A j \in 1 .. i - 1 :
           i \in Nat /\ j \in DOMAIN ToGate /\ j < i
    BY <2>3
  <2> QED
    BY <2>2, <2>4 DEF OpenLeads, Leads
<1> QED
  BY <1>2, <1>3, <1>4, LeadsStep, IInvInvariant, PTL DEF Spec, ReadySpec

-----------------------------------------------------------------------------
(* Ids of their own.  An id may go to another connection once its writer   *)
(* has exited; what follows is about behaviours in which that does not     *)
(* happen, above all those of tunnels with no more connections than ids.   *)

IdsApart == \A b, c \in Conn \ fresh : connId[b] = connId[c] => b = c

\* What is on its way to a writer belongs to its connection.
OwnFrames ==
  /\ \A e \in End : loop[e].tx # NoConn => loop[e].tx = loop[e].frame.conn
  /\ \A e \in End, c \in Conn : \A k \in DOMAIN chan[e][c] : chan[e][c][k].conn = c

RouteInv == OwnFrames /\ RunningIsRouted

\* An entry is that of the connection whose frame led to it.
LEMMA EntryOwn ==
  ASSUME IInv, IdsApart, NEW e \in End, NEW c \in Conn, c \notin Unseen,
         conns[e][connId[c]] # NoConn
  PROVE  conns[e][connId[c]] = c
<1> DEFINE b == conns[e][connId[c]]
<1>1. b \in Conn /\ connId[c] \in Ids
  BY DEF IInv, TagInv, TypeOK
<1>2. connId[b] = connId[c] /\ writer[e][b] # "none"
  BY <1>1 DEF IInv, EntriesLive
<1>3. b \notin Unseen
  BY <1>1, <1>2, SeenByTask DEF IInv
<1> QED BY <1>1, <1>2, <1>3 DEF IdsApart, Unseen

LEMMA RunningApart ==
  ASSUME IInv, IdsApart, NEW e \in End, NEW b \in Conn, NEW c \in Conn, c \notin Unseen,
         writer[e][b] = "run", connId[b] = connId[c]
  PROVE  b = c
<1>1. b \notin Unseen
  BY SeenByTask DEF IInv
<1> QED BY <1>1 DEF IdsApart, Unseen

LEMMA RouteInit == ASSUME NEW up \in BOOLEAN, InitLinks(up) PROVE RouteInv
BY TunnelAssumption DEF InitLinks, RouteInv, OwnFrames, RunningIsRouted, Idle

\* A writer stays routed when its entry does, and nothing else starts.
LEMMA RoutedKept ==
  ASSUME IInv, RouteInv, UNCHANGED connId,
         \A e \in End, c \in Conn : writer'[e][c] = "run" =>
            \/ conns'[e][connId[c]] = c
            \/ writer[e][c] = "run" /\ conns'[e][connId[c]] = conns[e][connId[c]]
  PROVE  RunningIsRouted'
BY DEF RouteInv, RunningIsRouted

LEMMA SpawnRoutes ==
  ASSUME IInv, RouteInv, IdsApart, NEW e \in End, NEW c \in Conn, c \notin Unseen,
         Spawn(e, c, connId[c]), UNCHANGED connId
  PROVE  RunningIsRouted'
<1>1. connId \in [Conn -> Ids]
  BY DEF IInv, TagInv, TypeOK
<1> SUFFICES ASSUME NEW d \in End, NEW b \in Conn, writer'[d][b] = "run"
             PROVE  \/ conns'[d][connId[b]] = b
                    \/ writer[d][b] = "run" /\ conns'[d][connId[b]] = conns[d][connId[b]]
  BY RoutedKept
<1>2. CASE d = e /\ b = c
  BY <1>1, <1>2 DEF Spawn, IInv, TagInv, TypeOK
<1>3. CASE ~(d = e /\ b = c)
  <2>1. writer[d][b] = "run"
    BY <1>3 DEF Spawn, IInv, TagInv, TypeOK
  <2>2. d = e => connId[b] # connId[c]
    BY <1>3, <2>1, RunningApart
  <2> QED BY <1>1, <2>1, <2>2 DEF Spawn, IInv, TagInv, TypeOK
<1> QED BY <1>2, <1>3

\* An entry goes with its own writer.
LEMMA RemovalRoutes ==
  ASSUME IInv, RouteInv, IdsApart, NEW e \in End, NEW c \in Conn, c \notin Unseen,
         writer'[e][c] # "run", conns' = [conns EXCEPT ![e][connId[c]] = NoConn],
         \A d \in End, b \in Conn : writer'[d][b] = "run" => writer[d][b] = "run",
         UNCHANGED connId
  PROVE  RunningIsRouted'
<1>1. connId \in [Conn -> Ids]
  BY DEF IInv, TagInv, TypeOK
<1> SUFFICES ASSUME NEW d \in End, NEW b \in Conn, writer'[d][b] = "run"
             PROVE  writer[d][b] = "run" /\ conns'[d][connId[b]] = conns[d][connId[b]]
  BY RoutedKept
<1>2. writer[d][b] = "run"
  OBVIOUS
<1>3. d = e => connId[b] # connId[c]
  BY <1>2, RunningApart
<1> QED BY <1>1, <1>2, <1>3 DEF IInv, TagInv, TypeOK

LEMMA RoutedStep ==
  IInv /\ IdsApart /\ RouteInv /\ [Next]_vars => RunningIsRouted'
<1> SUFFICES ASSUME IInv, IdsApart, RouteInv, [Next]_vars PROVE RunningIsRouted'
  OBVIOUS
<1> USE DEF acceptVars, taskVars
<1>0. TypeOK /\ TagInv
  BY DEF IInv, TagInv
<1>1. ASSUME UNCHANGED <<connId, conns, writer>> PROVE RunningIsRouted'
  BY <1>1 DEF RouteInv, RunningIsRouted
<1>2. ASSUME NEW c \in Conn, AcceptAlloc(c) PROVE RunningIsRouted'
  <2>1. c \in Unseen
    BY <1>2 DEF AcceptAlloc, Unseen
  <2>2. \A e \in End : writer[e][c] = "none"
    BY <1>0, <2>1 DEF TagInv, UnseenIdle
  <2> QED BY <1>0, <1>2, <2>2 DEF AcceptAlloc, RouteInv, RunningIsRouted, TypeOK
<1>3. CASE SpawnLocal
  <2>1. acceptor.conn \in Conn /\ acceptor.conn \notin Unseen
    BY <1>0, <1>3 DEF SpawnLocal, TypeOK, AcceptorState, TagInv, UnseenIdle, Unseen
  <2> QED BY <1>3, <2>1, SpawnRoutes DEF SpawnLocal, End
<1>4. CASE Dialed
  <2>1. loop["gate"].frame \in Tagged
    BY <1>0, <1>4, BusyFrame DEF Dialed, End
  <2>2. /\ loop["gate"].frame.conn \in Conn /\ loop["gate"].frame.conn \notin Unseen
        /\ connId[loop["gate"].frame.conn] = loop["gate"].frame.id
    BY <2>1 DEF Tagged, Frame
  <2> QED BY <1>4, <2>2, SpawnRoutes DEF Dialed, End
<1>5. ASSUME NEW e \in End, NEW c \in Conn, WriterBreak(e, c) \/ WriterOrphaned(e, c)
      PROVE  RunningIsRouted'
  <2>1. writer' = [writer EXCEPT ![e][c] = "stop"] /\ UNCHANGED <<connId, conns>>
    BY <1>5 DEF WriterBreak, WriterOrphaned
  <2>2. \A d \in End, b \in Conn : writer'[d][b] = "run" => writer[d][b] = "run"
    BY <1>0, <2>1 DEF TypeOK
  <2> QED BY <2>1, <2>2, RoutedKept
<1>6. ASSUME NEW e \in End, NEW c \in Conn, WriterExit(e, c) PROVE RunningIsRouted'
  <2>1. /\ writer[e][c] = "stop" /\ writer' = [writer EXCEPT ![e][c] = "done"]
        /\ conns' = [conns EXCEPT ![e][connId[c]] = NoConn] /\ connId' = connId
    BY <1>6 DEF WriterExit
  <2>2. /\ writer'[e][c] # "run"
        /\ \A d \in End, b \in Conn : writer'[d][b] = "run" => writer[d][b] = "run"
    BY <1>0, <2>1 DEF TypeOK
  <2>3. c \notin Unseen
    BY <1>0, <2>1, SeenByTask
  <2> QED BY <2>1, <2>2, <2>3, RemovalRoutes
<1>7. ASSUME NEW e \in End, DeliverDataFailed(e) PROVE RunningIsRouted'
  <2> DEFINE c == loop[e].tx
  <2>1. loop[e].frame \in Tagged /\ loop[e].at = "data"
    BY <1>0, <1>7, BusyFrame DEF DeliverDataFailed
  <2>2. c \in Conn /\ c # NoConn
    BY <1>0, <2>1, TunnelAssumption DEF TypeOK, LoopState
  <2>3. c = loop[e].frame.conn
    BY <2>2 DEF RouteInv, OwnFrames
  <2>4. c \notin Unseen /\ connId[c] = loop[e].frame.id
    BY <2>1, <2>3 DEF Tagged
  <2>5. /\ writer[e][c] = "done" /\ writer' = writer /\ connId' = connId
        /\ conns' = [conns EXCEPT ![e][connId[c]] = NoConn]
    BY <1>7, <2>4 DEF DeliverDataFailed
  <2> HIDE DEF c
  <2> QED BY <2>2, <2>4, <2>5, RemovalRoutes
<1>8. ASSUME NEW e \in End, Kill(e) PROVE RunningIsRouted'
  <2>1. connId' = connId /\ \A c \in Conn : writer'[e][c] # "run"
    BY <1>0, <1>8 DEF Kill, TypeOK
  <2>2. \A d \in End : d # e => writer'[d] = writer[d] /\ conns'[d] = conns[d]
    BY <1>0, <1>8 DEF Kill, TypeOK
  <2> QED BY <2>1, <2>2 DEF RouteInv, RunningIsRouted
<1>9. CASE UNCHANGED vars
  BY <1>1, <1>9 DEF vars
<1>10. CASE Acceptor
  BY <1>1, <1>2, <1>3, <1>10 DEF Acceptor, AcceptFull, SendOpen
<1>11. CASE Gate
  BY <1>1, <1>4, <1>11 DEF Gate, RecvOpen, Incoming, DialFailed
<1>12. ASSUME NEW e \in End, Session(e) PROVE RunningIsRouted'
  BY <1>1, <1>7, <1>12 DEF Session, Connect, SendFrame, LoseFrame, NoticeDrop,
     RecvData, RecvClose, RecvRouted, RecvUnknown, Incoming, Reply, Deliver,
     DeliverShutdownFailed
<1>13. ASSUME NEW e \in End, Fault(e) PROVE RunningIsRouted'
  BY <1>1, <1>8, <1>13 DEF Fault, DropLink
<1>14. ASSUME NEW e \in End, NEW c \in Conn, Reader(e, c) \/ Writer(e, c)
       PROVE  RunningIsRouted'
  BY <1>1, <1>5, <1>6, <1>14 DEF Reader, ReadChunk, ReadEnd, Writer, WriteChunk
<1> QED BY <1>9, <1>10, <1>11, <1>12, <1>13, <1>14 DEF Next

\* The loop's frame and the channels of all but at most one connection stay.
LEMMA OwnLoop ==
  ASSUME TypeOK, OwnFrames, NEW e \in End, NEW l, loop' = [loop EXCEPT ![e] = l],
         l.tx # NoConn => l.tx = l.frame.conn
  PROVE  \A d \in End : loop'[d].tx # NoConn => loop'[d].tx = loop'[d].frame.conn
BY DEF TypeOK, OwnFrames

LEMMA OwnChan ==
  ASSUME TypeOK, OwnFrames, NEW e \in End, NEW c \in Conn, NEW s \in Seq(Frame),
         chan' = [chan EXCEPT ![e][c] = s],
         \A k \in DOMAIN s : s[k].conn = c
  PROVE  \A d \in End, b \in Conn : \A k \in DOMAIN chan'[d][b] : chan'[d][b][k].conn = b
BY DEF TypeOK, OwnFrames

LEMMA OwnStep == IInv /\ IdsApart /\ RouteInv /\ [Next]_vars => OwnFrames'
<1> SUFFICES ASSUME IInv, IdsApart, RouteInv, [Next]_vars PROVE OwnFrames'
  OBVIOUS
<1> USE DEF acceptVars, taskVars
<1>0. TypeOK /\ TagInv /\ OwnFrames
  BY DEF IInv, TagInv, RouteInv
<1>i. \A at : Idle(at).tx = NoConn
  BY DEF Idle
<1>a. ASSUME UNCHANGED chan, NEW e \in End, NEW l, loop' = [loop EXCEPT ![e] = l],
             l.tx # NoConn => l.tx = l.frame.conn
      PROVE  OwnFrames'
  BY <1>0, <1>a, OwnLoop DEF OwnFrames
<1>b. ASSUME UNCHANGED loop, NEW e \in End, NEW c \in Conn, NEW s \in Seq(Frame),
             chan' = [chan EXCEPT ![e][c] = s], \A k \in DOMAIN s : s[k].conn = c
      PROVE  OwnFrames'
  BY <1>0, <1>b, OwnChan DEF OwnFrames
<1>1. ASSUME UNCHANGED <<loop, chan>> PROVE OwnFrames'
  BY <1>0, <1>1 DEF OwnFrames
<1>c. <<>> \in Seq(Frame) /\ DOMAIN <<>> = {}
  OBVIOUS
<1>2. CASE SpawnLocal
  <2>1. acceptor.conn \in Conn
    BY <1>0, <1>2 DEF SpawnLocal, TypeOK, AcceptorState
  <2> QED BY <1>2, <1>b, <1>c, <2>1 DEF SpawnLocal, Spawn, End
<1>3. CASE Dialed
  <2>1. loop["gate"].frame \in Tagged
    BY <1>0, <1>3, BusyFrame DEF Dialed, End
  <2>2. loop["gate"].frame.conn \in Conn
    BY <2>1 DEF Tagged, Frame
  <2>3. \A d \in End, b \in Conn : \A k \in DOMAIN chan'[d][b] : chan'[d][b][k].conn = b
    BY <1>0, <1>3, <1>c, <2>2, OwnChan DEF Dialed, Spawn, End
  <2>4. \A d \in End : loop'[d].tx # NoConn => loop'[d].tx = loop'[d].frame.conn
    BY <1>0, <1>3, <1>i, OwnLoop DEF Dialed, End
  <2> QED BY <2>3, <2>4 DEF OwnFrames
<1>4. CASE DialFailed
  <2>1. loop' = [loop EXCEPT !["gate"] = [loop["gate"] EXCEPT !.at = "reply"]]
        /\ loop["gate"].at = "dial"
    BY <1>4 DEF DialFailed
  <2>2. loop["gate"] \in LoopState /\ "gate" \in End
    BY <1>0 DEF TypeOK, End
  <2>3. [loop["gate"] EXCEPT !.at = "reply"].tx = NoConn
    BY <2>1, <2>2 DEF LoopState
  <2> QED BY <1>4, <1>a, <2>1, <2>2, <2>3 DEF DialFailed
<1>5. CASE RecvOpen
  BY <1>5, <1>a DEF RecvOpen, Incoming, Handling, End
<1>6. ASSUME NEW e \in End, NEW cmd, NEW at, RecvRouted(e, cmd, at) PROVE OwnFrames'
  <2> DEFINE f == Head(wire[e])
             c == conns[e][f.id]
  <2>1. wire[e] \in Seq(Tagged) /\ wire[e] # <<>>
    BY <1>0, <1>6 DEF RecvRouted, Incoming, TagInv, FramesTagged
  <2>2. f \in Tagged
    BY <2>1
  <2>3. f.conn \in Conn /\ f.conn \notin Unseen /\ connId[f.conn] = f.id
    BY <2>2 DEF Tagged, Frame
  <2>4. c # NoConn /\ loop' = [loop EXCEPT ![e] = Handling(at, f, c)] /\ chan' = chan
    BY <1>6 DEF RecvRouted, Incoming
  <2>5. c = f.conn
    BY <2>3, <2>4, EntryOwn
  <2> HIDE DEF f, c
  <2>6. Handling(at, f, c).tx = Handling(at, f, c).frame.conn
    BY <2>5 DEF Handling
  <2> QED BY <1>a, <2>4, <2>6
<1>7. ASSUME NEW e \in End, Deliver(e) PROVE OwnFrames'
  <2> DEFINE c == loop[e].tx
             f == loop[e].frame
  <2>1. c \in Conn /\ c # NoConn /\ f \in Frame /\ f.conn = c
    <3>1. loop[e] \in LoopState /\ loop[e].at \in {"data", "shut"}
      BY <1>0, <1>7 DEF Deliver, TypeOK
    <3>2. c \in Conn /\ f \in Frame
      BY <3>1 DEF LoopState
    <3>3. c # NoConn
      BY <3>2, TunnelAssumption
    <3> QED BY <1>0, <3>2, <3>3 DEF OwnFrames
  <2>2. chan' = [chan EXCEPT ![e][c] = Append(chan[e][c], f)] /\ loop' = [loop EXCEPT ![e] = Idle("select")]
    BY <1>7 DEF Deliver
  <2>3. chan[e][c] \in Seq(Frame) /\ \A k \in DOMAIN chan[e][c] : chan[e][c][k].conn = c
    BY <1>0, <2>1 DEF TypeOK, OwnFrames
  <2> HIDE DEF c, f
  <2>4. Append(chan[e][c], f) \in Seq(Frame)
        /\ \A k \in DOMAIN Append(chan[e][c], f) : Append(chan[e][c], f)[k].conn = c
    BY <2>1, <2>3
  <2>5. \A d \in End, b \in Conn : \A k \in DOMAIN chan'[d][b] : chan'[d][b][k].conn = b
    <3> DEFINE s == Append(chan[e][c], f)
    <3>1. s \in Seq(Frame) /\ chan' = [chan EXCEPT ![e][c] = s] /\ \A k \in DOMAIN s : s[k].conn = c
      BY <2>2, <2>4
    <3> HIDE DEF s
    <3> QED BY <1>0, <2>1, <3>1, OwnChan
  <2>6. \A d \in End : loop'[d].tx # NoConn => loop'[d].tx = loop'[d].frame.conn
    BY <1>0, <1>i, <2>2, OwnLoop
  <2> QED BY <2>5, <2>6 DEF OwnFrames
<1>8. ASSUME NEW e \in End, NEW at, loop' = [loop EXCEPT ![e] = Idle(at)], UNCHANGED chan
      PROVE  OwnFrames'
  BY <1>8, <1>a, <1>i
<1>9. ASSUME NEW e \in End, DeliverDataFailed(e) PROVE OwnFrames'
  <2>1. loop' = [loop EXCEPT ![e] = Handling("reply", loop[e].frame, NoConn)]
    BY <1>9 DEF DeliverDataFailed
  <2> QED BY <1>9, <1>a, <2>1 DEF DeliverDataFailed, Handling
<1>10. ASSUME NEW e \in End, NEW c \in Conn, Take(e, c), chan[e][c] # <<>>, UNCHANGED loop
       PROVE  OwnFrames'
  <2>1. chan[e][c] \in Seq(Frame) /\ \A k \in DOMAIN chan[e][c] : chan[e][c][k].conn = c
    BY <1>0 DEF TypeOK, OwnFrames
  <2>2. Tail(chan[e][c]) \in Seq(Frame)
        /\ \A k \in DOMAIN Tail(chan[e][c]) : Tail(chan[e][c])[k].conn = c
    BY <1>10, <2>1
  <2> QED BY <1>10, <1>b, <2>2 DEF Take
<1>11. ASSUME NEW e \in End, NEW c \in Conn, WriterExit(e, c) PROVE OwnFrames'
  BY <1>11, <1>b, <1>c DEF WriterExit
<1>12. ASSUME NEW e \in End, Kill(e) PROVE OwnFrames'
  <2>1. \A d \in End, b \in Conn : \A k \in DOMAIN chan'[d][b] : chan'[d][b][k].conn = b
    BY <1>0, <1>12 DEF Kill, TypeOK, OwnFrames
  <2>2. \A d \in End : loop'[d].tx # NoConn => loop'[d].tx = loop'[d].frame.conn
    BY <1>0, <1>12, <1>i, OwnLoop DEF Kill
  <2> QED BY <2>1, <2>2 DEF OwnFrames
<1>13. CASE UNCHANGED vars
  BY <1>1, <1>13 DEF vars
<1>14. CASE Acceptor
  BY <1>1, <1>2, <1>14 DEF Acceptor, AcceptAlloc, AcceptFull, SendOpen
<1>15. CASE Gate
  BY <1>3, <1>4, <1>5, <1>15 DEF Gate
<1>16. ASSUME NEW e \in End, Session(e) PROVE OwnFrames'
  BY <1>1, <1>6, <1>7, <1>8, <1>9, <1>16 DEF Session, Connect, SendFrame, LoseFrame, NoticeDrop,
     RecvData, RecvClose, RecvUnknown, Incoming, Reply, DeliverShutdownFailed
<1>17. ASSUME NEW e \in End, Fault(e) PROVE OwnFrames'
  BY <1>1, <1>12, <1>17 DEF Fault, DropLink
<1>18. ASSUME NEW e \in End, NEW c \in Conn, Reader(e, c) \/ Writer(e, c)
       PROVE  OwnFrames'
  BY <1>1, <1>10, <1>11, <1>18 DEF Reader, ReadChunk, ReadEnd, Writer, WriteChunk, WriterBreak,
     WriterOrphaned, NextIs
<1> QED BY <1>13, <1>14, <1>15, <1>16, <1>17, <1>18 DEF Next

LEMMA RouteStep == IInv /\ IdsApart /\ RouteInv /\ [Next]_vars => RouteInv'
BY RoutedStep, OwnStep DEF RouteInv

\* While a writer runs, its entry is its own, so the frames of its connection
\* reach it: no exit of another writer and no failed delivery takes it away
\* (tcp.rs:587-589), whatever links fail and processes restart.
THEOREM RoutedWhileApart ==
  /\ Spec /\ []IdsApart => []RunningIsRouted
  /\ ReadySpec /\ []IdsApart => []RunningIsRouted
<1>1. (Init => RouteInv) /\ (InitReady => RouteInv)
  BY RouteInit DEF Init, InitReady
<1>2. RouteInv => RunningIsRouted
  BY DEF RouteInv
<1> QED BY <1>1, <1>2, RouteStep, IInvInvariant, PTL DEF Spec, ReadySpec

-----------------------------------------------------------------------------
(* The chunks of a connection on their way to one end: given to its        *)
(* socket, in its channel, in the loop's hands, on the wire, in the other  *)
(* end's out queue.  They are numbered in that order.                      *)

\* The chunks of c in a queue, and the one a frame may carry.
Nums(s, c) == {s[k].n : k \in {j \in DOMAIN s : s[j].cmd = "DATA" /\ s[j].conn = c}}
One(f, c)  == IF f.cmd = "DATA" /\ f.conn = c THEN {f.n} ELSE {}

Below(A, B) == \A a \in A, b \in B : a < b
Rising(s) == \A i, j \in DOMAIN s :
               i < j /\ s[i].cmd = "DATA" /\ s[j].cmd = "DATA" /\ s[i].conn = s[j].conn
                 => s[i].n < s[j].n

\* Last given, channel, hand, wire, out queue, last sent.
Chain(l, C, H, W, O, n) ==
  /\ l \in Nat /\ n \in Nat /\ l <= n
  /\ \A x \in C \cup H \cup W \cup O : x \in Nat /\ l < x /\ x <= n
  /\ Below(C, H) /\ Below(C, W) /\ Below(C, O)
  /\ Below(H, W) /\ Below(H, O) /\ Below(W, O)

Last(e, c) == Streams!LastGot(e, c)
Flow(e, c) == Chain(Last(e, c), Nums(chan[e][c], c), One(loop[e].frame, c),
                    Nums(wire[e], c), Nums(out[Other(e)], c), sent[Other(e)][c])

FlowInv == /\ \A e \in End, c \in Conn : Flow(e, c) /\ Rising(chan[e][c])
           /\ \A e \in End : Rising(wire[e]) /\ Rising(out[e])

LEMMA NumsEmpty == Rising(<<>>) /\ \A c : Nums(<<>>, c) = {}
BY DEF Rising, Nums

LEMMA NumsTail ==
  ASSUME NEW s \in Seq(Frame), s # <<>>
  PROVE  /\ Rising(s) => Rising(Tail(s))
         /\ \A c : /\ Nums(Tail(s), c) \subseteq Nums(s, c)
                   /\ One(Head(s), c) \subseteq Nums(s, c)
                   /\ Rising(s) => Below(One(Head(s), c), Nums(Tail(s), c))
<1>1. /\ \A i \in DOMAIN Tail(s) : i + 1 \in DOMAIN s /\ i + 1 > 1 /\ Tail(s)[i] = s[i + 1]
      /\ 1 \in DOMAIN s /\ Head(s) = s[1]
  OBVIOUS
<1>2. Rising(s) => Rising(Tail(s))
  <2> SUFFICES ASSUME Rising(s), NEW i \in DOMAIN Tail(s), NEW j \in DOMAIN Tail(s), i < j,
                      Tail(s)[i].cmd = "DATA", Tail(s)[j].cmd = "DATA", Tail(s)[i].conn = Tail(s)[j].conn
               PROVE  Tail(s)[i].n < Tail(s)[j].n
    BY DEF Rising
  <2>1. i + 1 \in DOMAIN s /\ j + 1 \in DOMAIN s /\ i + 1 < j + 1
    BY <1>1
  <2> QED BY <1>1, <2>1 DEF Rising
<1> SUFFICES ASSUME NEW c
             PROVE  /\ Nums(Tail(s), c) \subseteq Nums(s, c)
                    /\ One(Head(s), c) \subseteq Nums(s, c)
                    /\ Rising(s) => Below(One(Head(s), c), Nums(Tail(s), c))
  BY <1>2
<1>3. Nums(Tail(s), c) \subseteq Nums(s, c)
  BY <1>1 DEF Nums
<1>4. One(Head(s), c) \subseteq Nums(s, c)
  BY <1>1 DEF Nums, One
<1>5. ASSUME Rising(s), NEW x \in One(Head(s), c), NEW y \in Nums(Tail(s), c) PROVE x < y
  <2>1. PICK j \in DOMAIN Tail(s) : Tail(s)[j].cmd = "DATA" /\ Tail(s)[j].conn = c /\ y = Tail(s)[j].n
    BY <1>5 DEF Nums
  <2>2. s[1].cmd = "DATA" /\ s[1].conn = c /\ x = s[1].n
    BY <1>1, <1>5 DEF One
  <2>3. 1 < j + 1 /\ j + 1 \in DOMAIN s /\ Tail(s)[j] = s[j + 1]
    BY <1>1
  <2> QED BY <1>1, <1>5, <2>1, <2>2, <2>3 DEF Rising
<1> QED BY <1>3, <1>4, <1>5 DEF Below

LEMMA NumsAppend ==
  ASSUME NEW s \in Seq(Frame), NEW f \in Frame
  PROVE  /\ \A c : Nums(Append(s, f), c) = Nums(s, c) \cup One(f, c)
         /\ Rising(s) /\ Below(Nums(s, f.conn), One(f, f.conn)) => Rising(Append(s, f))
<1>1. /\ DOMAIN Append(s, f) = DOMAIN s \cup {Len(s) + 1} /\ Append(s, f)[Len(s) + 1] = f
      /\ \A i \in DOMAIN s : i < Len(s) + 1 /\ Append(s, f)[i] = s[i]
  OBVIOUS
<1>2. ASSUME NEW c PROVE Nums(Append(s, f), c) = Nums(s, c) \cup One(f, c)
  <2>1. ASSUME NEW x \in Nums(Append(s, f), c) PROVE x \in Nums(s, c) \cup One(f, c)
    BY <1>1, <2>1 DEF Nums, One
  <2>2. ASSUME NEW x \in Nums(s, c) PROVE x \in Nums(Append(s, f), c)
    BY <1>1, <2>2 DEF Nums
  <2>3. ASSUME NEW x \in One(f, c) PROVE x \in Nums(Append(s, f), c)
    BY <1>1, <2>3 DEF Nums, One
  <2> QED BY <2>1, <2>2, <2>3
<1>3. ASSUME Rising(s), Below(Nums(s, f.conn), One(f, f.conn)) PROVE Rising(Append(s, f))
  <2> DEFINE t == Append(s, f)
  <2> SUFFICES ASSUME NEW i \in DOMAIN t, NEW j \in DOMAIN t, i < j,
                      t[i].cmd = "DATA", t[j].cmd = "DATA", t[i].conn = t[j].conn
               PROVE  t[i].n < t[j].n
    BY DEF Rising
  <2>0. i \in DOMAIN s /\ t[i] = s[i]
    BY <1>1
  <2>1. CASE j \in DOMAIN s
    BY <1>1, <1>3, <2>0, <2>1 DEF Rising
  <2>2. CASE j = Len(s) + 1
    <3>1. t[j] = f
      BY <1>1, <2>2
    <3>2. s[i].n \in Nums(s, f.conn)
      BY <2>0, <3>1 DEF Nums
    <3>3. f.n \in One(f, f.conn)
      BY <3>1 DEF One
    <3> QED BY <1>3, <2>0, <3>1, <3>2, <3>3 DEF Below
  <2> QED BY <1>1, <2>1, <2>2
<1> QED BY <1>2, <1>3

LEMMA NumsPrefix ==
  ASSUME NEW s \in Seq(Frame), NEW k \in 0 .. Len(s)
  PROVE  /\ Rising(s) => Rising(SubSeq(s, 1, k))
         /\ \A c : Nums(SubSeq(s, 1, k), c) \subseteq Nums(s, c)
<1>1. \A i \in DOMAIN SubSeq(s, 1, k) : i \in DOMAIN s /\ SubSeq(s, 1, k)[i] = s[i]
  OBVIOUS
<1> QED BY <1>1 DEF Rising, Nums

\* Chunks may be lost anywhere.
LEMMA ChainThin ==
  ASSUME NEW l, NEW C, NEW H, NEW W, NEW O, NEW n, Chain(l, C, H, W, O, n),
         NEW c, NEW h, NEW w, NEW o,
         c \subseteq C, h \subseteq H, w \subseteq W, o \subseteq O
  PROVE  Chain(l, c, h, w, o, n)
BY DEF Chain, Below

\* Or go one place on.
LEMMA ChainSend ==
  ASSUME NEW l, NEW C, NEW H, NEW W, NEW O, NEW n, Chain(l, C, H, W, O, n)
  PROVE  Chain(l, C, H, W, O \cup {n + 1}, n + 1)
BY DEF Chain, Below

LEMMA ChainWire ==
  ASSUME NEW l, NEW C, NEW H, NEW W, NEW O, NEW n, Chain(l, C, H, W, O, n),
         NEW x, NEW o, x \subseteq O, o \subseteq O, Below(x, o)
  PROVE  Chain(l, C, H, W \cup x, o, n)
BY DEF Chain, Below

LEMMA ChainTake ==
  ASSUME NEW l, NEW C, NEW H, NEW W, NEW O, NEW n, Chain(l, C, H, W, O, n),
         NEW x, NEW w, x \subseteq W, w \subseteq W, Below(x, w)
  PROVE  Chain(l, C, x, w, O, n)
BY DEF Chain, Below

LEMMA ChainDeliver ==
  ASSUME NEW l, NEW C, NEW H, NEW W, NEW O, NEW n, Chain(l, C, H, W, O, n)
  PROVE  Chain(l, C \cup H, {}, W, O, n)
BY DEF Chain, Below

LEMMA ChainWrite ==
  ASSUME NEW l, NEW C, NEW H, NEW W, NEW O, NEW n, Chain(l, C, H, W, O, n),
         NEW x \in C, NEW c, c \subseteq C, Below({x}, c)
  PROVE  Chain(x, c, H, W, O, n)
BY DEF Chain, Below

LEMMA FlowInit == ASSUME NEW up \in BOOLEAN, InitLinks(up) PROVE FlowInv
<1>1. ASSUME NEW e \in End, NEW c \in Conn PROVE Flow(e, c) /\ Rising(chan[e][c])
  <2>1. Last(e, c) = 0
    BY DEF InitLinks, Last, Streams!LastGot
  <2>2. One(loop[e].frame, c) = {}
    BY DEF InitLinks, Idle, NoFrame, One
  <2>3. chan[e][c] = <<>> /\ wire[e] = <<>> /\ out[Other(e)] = <<>> /\ sent[Other(e)][c] = 0
    BY OtherType DEF InitLinks
  <2>4. Chain(0, {}, {}, {}, {}, 0)
    BY DEF Chain, Below
  <2> QED BY <2>1, <2>2, <2>3, <2>4, NumsEmpty DEF Flow
<1>2. \A e \in End : Rising(wire[e]) /\ Rising(out[e])
  BY NumsEmpty DEF InitLinks
<1> QED BY <1>1, <1>2 DEF FlowInv

\* Where nothing is added, the order is kept.
LEMMA FlowThinAt ==
  ASSUME NEW e \in End, NEW c \in Conn, Flow(e, c), UNCHANGED dataVars,
         Nums(chan'[e][c], c) \subseteq Nums(chan[e][c], c),
         One(loop'[e].frame, c) \subseteq One(loop[e].frame, c),
         Nums(wire'[e], c) \subseteq Nums(wire[e], c),
         Nums(out'[Other(e)], c) \subseteq Nums(out[Other(e)], c)
  PROVE  Flow(e, c)'
<1>1. Last(e, c)' = Last(e, c) /\ sent' = sent
  BY DEF dataVars, Last, Streams!LastGot
<1> QED BY <1>1, ChainThin DEF Flow

LEMMA FlowThin ==
  ASSUME FlowInv, UNCHANGED dataVars,
         \A e \in End, c \in Conn : /\ Nums(chan'[e][c], c) \subseteq Nums(chan[e][c], c)
                                    /\ Rising(chan'[e][c])
                                    /\ One(loop'[e].frame, c) \subseteq One(loop[e].frame, c)
                                    /\ Nums(wire'[e], c) \subseteq Nums(wire[e], c)
                                    /\ Nums(out'[e], c) \subseteq Nums(out[e], c),
         \A e \in End : Rising(wire'[e]) /\ Rising(out'[e])
  PROVE  FlowInv'
<1>1. ASSUME NEW e \in End, NEW c \in Conn PROVE Flow(e, c)'
  BY FlowThinAt, OtherType DEF FlowInv
<1> QED BY <1>1 DEF FlowInv

LEMMA OneIdle == \A at, c : One(Idle(at).frame, c) = {}
BY DEF Idle, NoFrame, One

\* A frame without chunk joins a queue.
LEMMA FlowPush ==
  ASSUME TypeOK, FlowInv, NEW e \in End, NEW f \in Frame, f.cmd # "DATA", Push(e, f),
         UNCHANGED <<dataVars, chan, wire>>,
         \A d \in End, c \in Conn : One(loop'[d].frame, c) \subseteq One(loop[d].frame, c)
  PROVE  FlowInv'
<1>1. out[e] \in Seq(Frame)
  BY DEF TypeOK
<1>2. \A c : One(f, c) = {}
  BY DEF One
<1>3. /\ \A c : Nums(Append(out[e], f), c) = Nums(out[e], c)
      /\ Rising(Append(out[e], f))
  <2>1. Below(Nums(out[e], f.conn), One(f, f.conn))
    BY <1>2 DEF Below
  <2>2. Rising(out[e])
    BY DEF FlowInv
  <2>3. \A c : Nums(Append(out[e], f), c) = Nums(out[e], c) \cup One(f, c)
    BY <1>1, NumsAppend
  <2>4. Rising(Append(out[e], f))
    BY <1>1, <2>1, <2>2, NumsAppend
  <2> QED BY <1>2, <2>3, <2>4
<1>4. out'[e] = Append(out[e], f) /\ \A d \in End \ {e} : out'[d] = out[d]
  BY DEF Push, TypeOK
<1>5. \A d \in End : Rising(out'[d]) /\ \A c \in Conn : Nums(out'[d], c) \subseteq Nums(out[d], c)
  BY <1>3, <1>4 DEF FlowInv
<1> QED BY <1>5, FlowThin DEF FlowInv

LEMMA FlowCut ==
  ASSUME TypeOK, FlowInv, NEW e \in End, Cut(e), UNCHANGED dataVars,
         \A d \in End, c \in Conn : /\ chan'[d][c] = chan[d][c] \/ chan'[d][c] = <<>>
                                    /\ One(loop'[d].frame, c) \subseteq One(loop[d].frame, c),
         \A d \in End : out'[d] = out[d] \/ out'[d] = <<>>
  PROVE  FlowInv'
<1>1. PICK k \in 0 .. Len(wire[Other(e)]) :
        wire' = [d \in End |-> IF d = e THEN <<>> ELSE SubSeq(wire[d], 1, k)]
  BY DEF Cut
<1>2. ASSUME NEW d \in End
      PROVE  Rising(wire'[d]) /\ \A c : Nums(wire'[d], c) \subseteq Nums(wire[d], c)
  <2>1. CASE d = e
    BY <1>1, <2>1, NumsEmpty
  <2>2. CASE d # e
    <3>1. d = Other(e) /\ wire[d] \in Seq(Frame) /\ wire'[d] = SubSeq(wire[d], 1, k)
      BY <1>1, <2>2 DEF End, Other, TypeOK
    <3> QED BY <1>1, <3>1, NumsPrefix DEF FlowInv
  <2> QED BY <2>1, <2>2
<1>3. \A d \in End, c \in Conn : Rising(chan'[d][c]) /\ Nums(chan'[d][c], c) \subseteq Nums(chan[d][c], c)
  BY NumsEmpty DEF FlowInv
<1>4. \A d \in End : Rising(out'[d]) /\ \A c \in Conn : Nums(out'[d], c) \subseteq Nums(out[d], c)
  BY NumsEmpty DEF FlowInv
<1> QED BY <1>2, <1>3, <1>4, FlowThin

\* A chunk is read: it is the last of its connection in the queue.
LEMMA FlowRead ==
  ASSUME TypeOK, FlowInv, NEW e \in End, NEW c \in Conn, ReadChunk(e, c)
  PROVE  FlowInv'
<1> DEFINE f == MkFrame("DATA", connId[c], c, sent[e][c] + 1)
<1>1. /\ f \in Frame /\ f.cmd = "DATA" /\ f.conn = c /\ f.n = sent[e][c] + 1
      /\ out[e] \in Seq(Frame) /\ sent[e][c] \in Nat
  BY FrameType DEF TypeOK, MkFrame
<1>2. /\ out'[e] = Append(out[e], f) /\ \A d \in End \ {e} : out'[d] = out[d]
      /\ sent' = [sent EXCEPT ![e][c] = sent[e][c] + 1] /\ UNCHANGED <<got, chan, loop, wire>>
  BY DEF ReadChunk, Push, TypeOK, taskVars, netVars
<1> HIDE DEF f
<1>3. /\ One(f, c) = {sent[e][c] + 1} /\ \A b : b # c => One(f, b) = {}
  BY <1>1 DEF One
<1>4. Flow(Other(e), c) /\ Other(e) \in End /\ Other(Other(e)) = e
  BY OtherType DEF FlowInv
<1>5. Below(Nums(out[e], c), One(f, c))
  BY <1>1, <1>3, <1>4 DEF Flow, Chain, Below
<1>6. Rising(out'[e]) /\ \A b : Nums(out'[e], b) = Nums(out[e], b) \cup One(f, b)
  BY <1>1, <1>2, <1>5, NumsAppend DEF FlowInv
<1>7. ASSUME NEW d \in End, NEW b \in Conn PROVE Flow(d, b)'
  <2>0. Flow(d, b) /\ Last(d, b)' = Last(d, b)
    BY <1>2 DEF FlowInv, Last, Streams!LastGot
  <2>1. CASE d = Other(e) /\ b = c
    <3>1. sent'[Other(d)][b] = sent[Other(d)][b] + 1
          /\ Nums(out'[Other(d)], b) = Nums(out[Other(d)], b) \cup {sent[Other(d)][b] + 1}
      BY <1>2, <1>3, <1>4, <1>6, <2>1 DEF TypeOK
    <3> QED BY <1>2, <2>0, <3>1, ChainSend DEF Flow
  <2>2. CASE ~(d = Other(e) /\ b = c)
    <3>1. Other(d) = e => b # c
      BY <2>2, OtherType
    <3>2. sent'[Other(d)][b] = sent[Other(d)][b] /\ Nums(out'[Other(d)], b) = Nums(out[Other(d)], b)
      BY <1>2, <1>3, <1>6, <3>1, OtherType DEF TypeOK
    <3> QED BY <1>2, <2>0, <3>2 DEF Flow
  <2> QED BY <2>1, <2>2
<1>8. \A d \in End : Rising(wire'[d]) /\ Rising(out'[d])
  BY <1>2, <1>6 DEF FlowInv
<1> QED BY <1>2, <1>7, <1>8 DEF FlowInv

\* The head of a channel goes to the socket.
LEMMA FlowWrite ==
  ASSUME TypeOK, FlowInv, OwnFrames, NEW e \in End, NEW c \in Conn, WriteChunk(e, c)
  PROVE  FlowInv' /\ Streams!Deliver(e, c)
<1> DEFINE s == chan[e][c]
           x == Head(s).n
<1>1. s \in Seq(Frame) /\ s # <<>> /\ Head(s).cmd = "DATA" /\ Head(s).conn = c /\ got[e][c] \in Seq(Payload)
  BY DEF WriteChunk, NextIs, TypeOK, OwnFrames
<1>2. /\ chan' = [chan EXCEPT ![e][c] = Tail(s)]
      /\ got' = [got EXCEPT ![e][c] = Append(got[e][c], PayloadOf(Head(s)))]
      /\ UNCHANGED <<loop, wire, out, sent>>
  BY DEF WriteChunk, Take, netVars
<1>3. One(Head(s), c) = {x}
  BY <1>1 DEF One
<1>4. /\ Nums(Tail(s), c) \subseteq Nums(s, c) /\ x \in Nums(s, c)
      /\ Below({x}, Nums(Tail(s), c)) /\ Rising(Tail(s))
  BY <1>1, <1>3, NumsTail DEF FlowInv
<1>5. PayloadOf(Head(s)) = [conn |-> c, n |-> x] /\ PayloadOf(Head(s)) \in Payload
  <2>1. Head(s) \in Frame
    BY <1>1
  <2> QED BY <1>1, <2>1 DEF PayloadOf, Payload, Frame
<1>6. Flow(e, c)
  BY DEF FlowInv
<1> HIDE DEF s
<1>7. got'[e][c] = Append(got[e][c], [conn |-> c, n |-> x]) /\ Last(e, c)' = x
  <2>1. got'[e][c] = Append(got[e][c], [conn |-> c, n |-> x])
    BY <1>2, <1>5 DEF TypeOK
  <2>2. got'[e][c] # <<>> /\ got'[e][c][Len(got'[e][c])] = [conn |-> c, n |-> x]
    <3> DEFINE r == [conn |-> c, n |-> x]
    <3>1. got[e][c] \in Seq(Payload) /\ got'[e][c] = Append(got[e][c], r) /\ r \in Payload
      BY <1>1, <1>5, <2>1
    <3> HIDE DEF r
    <3>2. got'[e][c] # <<>> /\ got'[e][c][Len(got'[e][c])] = r
      BY <3>1
    <3> QED BY <3>2 DEF r
  <2> QED BY <2>1, <2>2 DEF Last, Streams!LastGot
<1>8. chan'[e][c] = Tail(s)
  BY <1>2 DEF TypeOK
<1>9. ASSUME NEW d \in End, NEW b \in Conn PROVE Flow(d, b)' /\ Rising(chan'[d][b])
  <2>1. CASE d = e /\ b = c
    BY <1>2, <1>4, <1>6, <1>7, <1>8, <2>1, ChainWrite DEF Flow, s
  <2>2. CASE ~(d = e /\ b = c)
    <3>1. chan'[d][b] = chan[d][b] /\ got'[d][b] = got[d][b]
      BY <1>2, <2>2 DEF TypeOK
    <3>2. Last(d, b)' = Last(d, b)
      BY <3>1 DEF Last, Streams!LastGot
    <3> QED BY <1>2, <3>1, <3>2 DEF FlowInv, Flow
  <2> QED BY <2>1, <2>2
<1>10. FlowInv'
  BY <1>2, <1>9 DEF FlowInv
<1>11. x \in Last(e, c) + 1 .. sent[Other(e)][c]
  BY <1>4, <1>6 DEF Flow, Chain, s
<1>12. Streams!Peer(e) = Other(e)
  BY DEF Streams!Peer, Other, End
<1>13. Streams!Deliver(e, c)
  BY <1>2, <1>5, <1>11, <1>12 DEF Streams!Deliver, Last
<1> QED BY <1>10, <1>13

\* The head of the out queue goes on the wire, or is lost.
LEMMA FlowOut ==
  ASSUME TypeOK, FlowInv, NEW e \in End, out[e] # <<>>, out' = [out EXCEPT ![e] = Tail(@)],
         \/ wire' = wire
         \/ wire' = [wire EXCEPT ![Other(e)] = Append(@, Head(out[e]))],
         UNCHANGED <<dataVars, chan>>,
         \A d \in End, c \in Conn : One(loop'[d].frame, c) \subseteq One(loop[d].frame, c)
  PROVE  FlowInv'
<1> DEFINE s == out[e]
           a == Other(e)
<1>1. /\ s \in Seq(Frame) /\ s # <<>> /\ Tail(s) \in Seq(Frame) /\ Head(s) \in Frame
      /\ out'[e] = Tail(s) /\ \A d \in End \ {e} : out'[d] = out[d]
      /\ a \in End /\ Other(a) = e /\ wire[a] \in Seq(Frame) /\ \A d \in End \ {a} : wire'[d] = wire[d]
      /\ \A d \in End : d = a \/ d = e
  BY OtherType DEF TypeOK, End, Other
<1>2. /\ Rising(Tail(s))
      /\ \A c : /\ Nums(Tail(s), c) \subseteq Nums(s, c)
                /\ One(Head(s), c) \subseteq Nums(s, c)
                /\ Below(One(Head(s), c), Nums(Tail(s), c))
  BY <1>1, NumsTail DEF FlowInv
<1>3. \A d \in End : Rising(out'[d]) /\ \A c \in Conn : Nums(out'[d], c) \subseteq Nums(out[d], c)
  BY <1>1, <1>2 DEF FlowInv
<1>4. CASE wire' = wire
  BY <1>3, <1>4, FlowThin DEF FlowInv
<1>5. CASE wire' = [wire EXCEPT ![a] = Append(wire[a], Head(s))]
  <2>1. wire'[a] = Append(wire[a], Head(s))
    BY <1>1, <1>5 DEF TypeOK
  <2>2. Head(s).conn \in Conn
    BY <1>1 DEF Frame
  <2>3. \A c \in Conn : Flow(a, c)
    BY <1>1 DEF FlowInv
  <2>4. Below(Nums(wire[a], Head(s).conn), One(Head(s), Head(s).conn))
    BY <1>1, <1>2, <2>2, <2>3 DEF Flow, Chain, Below
  <2> HIDE DEF a, s
  <2>5. Rising(wire'[a]) /\ \A c : Nums(wire'[a], c) = Nums(wire[a], c) \cup One(Head(s), c)
    BY <1>1, <2>1, <2>4, NumsAppend DEF FlowInv
  <2>6. ASSUME NEW c \in Conn PROVE Flow(a, c)'
    <3>1. Last(a, c)' = Last(a, c) /\ sent' = sent /\ chan' = chan
      BY DEF dataVars, Last, Streams!LastGot
    <3>2. Chain(Last(a, c), Nums(chan[a][c], c), One(loop[a].frame, c),
                Nums(wire[a], c) \cup One(Head(s), c), Nums(Tail(s), c), sent[e][c])
      BY <1>1, <1>2, <2>3, ChainWire DEF Flow, s
    <3>3. Chain(Last(a, c), Nums(chan[a][c], c), One(loop'[a].frame, c),
                Nums(wire[a], c) \cup One(Head(s), c), Nums(Tail(s), c), sent[e][c])
      BY <1>1, <3>2, ChainThin
    <3> QED BY <1>1, <2>5, <3>1, <3>3 DEF Flow
  <2>7. ASSUME NEW c \in Conn PROVE Flow(e, c)'
    <3>1. CASE e = a
      BY <2>6, <3>1
    <3>2. CASE e # a
      <4>1. wire'[e] = wire[e] /\ out'[Other(e)] = out[Other(e)] /\ chan' = chan
        BY <1>1, <3>2, OtherType DEF a
      <4> QED BY <4>1, FlowThinAt DEF FlowInv
    <3> QED BY <3>1, <3>2
  <2>8. \A d \in End : Rising(wire'[d])
    BY <1>1, <2>5 DEF FlowInv
  <2> QED BY <1>1, <1>3, <2>6, <2>7, <2>8 DEF FlowInv
<1> QED BY <1>4, <1>5

\* The loop takes a frame off the wire, into its hands or to drop it.
LEMMA FlowIncoming ==
  ASSUME TypeOK, FlowInv, NEW e \in End, NEW cmd, Incoming(e, cmd),
         \/ loop[e].at = "select" /\ loop' = loop
         \/ \E at, c : loop' = [loop EXCEPT ![e] = Handling(at, Head(wire[e]), c)]
  PROVE  FlowInv'
<1> DEFINE s == wire[e]
<1>1. /\ s \in Seq(Frame) /\ s # <<>> /\ wire' = [wire EXCEPT ![e] = Tail(s)]
      /\ UNCHANGED <<chan, dataVars, out>>
  BY DEF Incoming, TypeOK, taskVars
<1>2. /\ Rising(Tail(s))
      /\ \A c : /\ Nums(Tail(s), c) \subseteq Nums(s, c)
                /\ One(Head(s), c) \subseteq Nums(s, c)
                /\ Below(One(Head(s), c), Nums(Tail(s), c))
  BY <1>1, NumsTail DEF FlowInv
<1>3. wire'[e] = Tail(s) /\ \A d \in End \ {e} : wire'[d] = wire[d] /\ loop'[d] = loop[d]
  BY <1>1 DEF TypeOK
<1>4. loop'[e] = loop[e] \/ loop'[e].frame = Head(s)
  BY DEF TypeOK, Handling
<1>5. ASSUME NEW c \in Conn PROVE Flow(e, c)'
  <2>1. Last(e, c)' = Last(e, c) /\ sent' = sent
    BY <1>1 DEF dataVars, Last, Streams!LastGot
  <2>2. CASE loop'[e] = loop[e]
    BY <1>1, <1>2, <1>3, <2>2, FlowThinAt DEF FlowInv
  <2>3. CASE loop'[e].frame = Head(s)
    BY <1>1, <1>2, <1>3, <2>1, <2>3, ChainTake DEF FlowInv, Flow
  <2> QED BY <1>4, <2>2, <2>3
<1>6. ASSUME NEW d \in End \ {e}, NEW c \in Conn PROVE Flow(d, c)'
  BY <1>1, <1>3, FlowThinAt DEF FlowInv
<1>7. \A d \in End, c \in Conn : Rising(chan'[d][c])
  BY <1>1 DEF FlowInv
<1>8. \A d \in End : Rising(wire'[d]) /\ Rising(out'[d])
  BY <1>1, <1>2, <1>3 DEF FlowInv
<1> QED BY <1>5, <1>6, <1>7, <1>8 DEF FlowInv

\* The frame in hand goes into the channel of its connection.
LEMMA FlowDeliver ==
  ASSUME TypeOK, FlowInv, OwnFrames, NEW e \in End, Deliver(e)
  PROVE  FlowInv'
<1> DEFINE c == loop[e].tx
           f == loop[e].frame
<1>1. c \in Conn /\ f \in Frame /\ f.conn = c
  <2>1. loop[e] \in LoopState /\ loop[e].at \in {"data", "shut"}
    BY DEF Deliver, TypeOK
  <2>2. c \in Conn /\ f \in Frame
    BY <2>1 DEF LoopState
  <2>3. c # NoConn
    BY <2>2, TunnelAssumption
  <2> QED BY <2>2, <2>3 DEF OwnFrames
<1>2. /\ chan[e][c] \in Seq(Frame) /\ chan' = [chan EXCEPT ![e][c] = Append(chan[e][c], f)]
      /\ loop' = [loop EXCEPT ![e] = Idle("select")]
      /\ UNCHANGED <<dataVars, out, wire>>
  BY <1>1 DEF Deliver, TypeOK, netVars
<1>3. \A b : One(loop'[e].frame, b) = {}
  BY <1>2, OneIdle DEF TypeOK
<1>4. Flow(e, c)
  BY <1>1 DEF FlowInv
<1>5. Below(Nums(chan[e][c], c), One(f, c))
  BY <1>4 DEF Flow, Chain
<1> HIDE DEF c
<1>6. /\ \A b : Nums(Append(chan[e][c], f), b) = Nums(chan[e][c], b) \cup One(f, b)
      /\ Rising(Append(chan[e][c], f))
  <2>1. Rising(chan[e][c])
    BY <1>1 DEF FlowInv
  <2> HIDE DEF f
  <2> QED BY <1>1, <1>2, <1>5, <2>1, NumsAppend
<1>7. chan'[e][c] = Append(chan[e][c], f)
  BY <1>1, <1>2 DEF TypeOK
<1>8. ASSUME NEW d \in End, NEW b \in Conn PROVE Flow(d, b)' /\ Rising(chan'[d][b])
  <2>1. CASE d = e /\ b = c
    <3>1. Last(d, b)' = Last(d, b) /\ sent' = sent
      BY <1>2 DEF dataVars, Last, Streams!LastGot
    <3>2. /\ Flow(d, b) /\ One(loop'[d].frame, b) = {}
          /\ Nums(chan'[d][b], b) = Nums(chan[d][b], b) \cup One(loop[d].frame, b)
          /\ Rising(chan'[d][b])
      BY <1>3, <1>4, <1>6, <1>7, <2>1
    <3>3. UNCHANGED <<out, wire>>
      BY <1>2
    <3>4. Chain(Last(d, b), Nums(chan[d][b], b) \cup One(loop[d].frame, b), {},
                Nums(wire[d], b), Nums(out[Other(d)], b), sent[Other(d)][b])
      BY <3>2, ChainDeliver DEF Flow
    <3>5. Flow(d, b)'
      BY <3>1, <3>2, <3>3, <3>4 DEF Flow
    <3> QED BY <3>2, <3>5
  <2>2. CASE ~(d = e /\ b = c)
    <3>1. chan'[d][b] = chan[d][b]
      BY <1>2, <2>2 DEF TypeOK
    <3>2. One(loop'[d].frame, b) \subseteq One(loop[d].frame, b)
      BY <1>2, <1>3 DEF TypeOK
    <3> QED BY <1>2, <3>1, <3>2, FlowThinAt DEF FlowInv
  <2> QED BY <2>1, <2>2
<1> QED BY <1>2, <1>8 DEF FlowInv

LEMMA FlowStep ==
  TagInv /\ OwnFrames /\ FlowInv /\ [Next]_vars =>
    FlowInv' /\ [Streams!Next]_(Streams!vars)
<1> SUFFICES ASSUME TagInv, OwnFrames, FlowInv, [Next]_vars
             PROVE  FlowInv' /\ [Streams!Next]_(Streams!vars)
  OBVIOUS
<1> USE DEF acceptVars, taskVars, netVars
<1>0. TypeOK
  BY DEF TagInv
<1>a. UNCHANGED dataVars => [Streams!Next]_(Streams!vars)
  BY DEF dataVars, Streams!vars
<1>b. ASSUME UNCHANGED <<dataVars, out, wire>>,
             \A d \in End, c \in Conn : /\ chan'[d][c] = chan[d][c] \/ chan'[d][c] = <<>>
                                        /\ One(loop'[d].frame, c) \subseteq One(loop[d].frame, c)
      PROVE  FlowInv'
  BY <1>b, FlowThin, NumsEmpty DEF FlowInv
<1>c. ASSUME NEW e \in End, NEW at, loop' = [loop EXCEPT ![e] = Idle(at)]
      PROVE  \A d \in End, c \in Conn : One(loop'[d].frame, c) \subseteq One(loop[d].frame, c)
  BY <1>0, <1>c, OneIdle DEF TypeOK
<1>d. ASSUME NEW e \in End, NEW c \in Conn, chan' = [chan EXCEPT ![e][c] = <<>>]
      PROVE  \A d \in End, b \in Conn : chan'[d][b] = chan[d][b] \/ chan'[d][b] = <<>>
  BY <1>0, <1>d DEF TypeOK
<1>e. UNCHANGED loop => \A d \in End, c \in Conn : One(loop'[d].frame, c) \subseteq One(loop[d].frame, c)
  OBVIOUS
<1>1. ASSUME UNCHANGED <<dataVars, chan, loop, out, wire>> PROVE FlowInv'
  BY <1>1, <1>b, <1>e
<1>2. ASSUME SendOpen PROVE FlowInv'
  <2>1. acceptor.conn \in Conn
    BY <1>0, <1>2 DEF SendOpen, TypeOK, AcceptorState
  <2>2. MkFrame("OPEN", connId[acceptor.conn], acceptor.conn, 0) \in Frame
    BY <1>0, <2>1, FrameType DEF TypeOK
  <2>3. MkFrame("OPEN", connId[acceptor.conn], acceptor.conn, 0).cmd # "DATA"
    BY DEF MkFrame
  <2>4. UNCHANGED <<dataVars, chan, wire, loop>>
        /\ Push("home", MkFrame("OPEN", connId[acceptor.conn], acceptor.conn, 0))
    BY <1>2 DEF SendOpen
  <2> QED BY <1>0, <1>e, <2>2, <2>3, <2>4, FlowPush DEF End
<1>3. ASSUME SpawnLocal PROVE FlowInv'
  <2>1. acceptor.conn \in Conn
    BY <1>0, <1>3 DEF SpawnLocal, TypeOK, AcceptorState
  <2>2. UNCHANGED <<dataVars, out, wire, loop>> /\ chan' = [chan EXCEPT !["home"][acceptor.conn] = <<>>]
    BY <1>3 DEF SpawnLocal, Spawn
  <2>3. \A d \in End, b \in Conn : chan'[d][b] = chan[d][b] \/ chan'[d][b] = <<>>
    BY <1>d, <2>1, <2>2 DEF End
  <2> QED BY <1>b, <1>e, <2>2, <2>3
<1>4. ASSUME Dialed PROVE FlowInv'
  <2>1. loop["gate"].frame \in Frame
    BY <1>4, BusyFrame, TaggedFrame DEF Dialed, End
  <2>2. loop["gate"].frame.conn \in Conn
    BY <2>1 DEF Frame
  <2>3. chan' = [chan EXCEPT !["gate"][loop["gate"].frame.conn] = <<>>]
    BY <1>4 DEF Dialed, Spawn
  <2>4. \A d \in End, b \in Conn : chan'[d][b] = chan[d][b] \/ chan'[d][b] = <<>>
    BY <1>d, <2>2, <2>3 DEF End
  <2>5. \A d \in End, c \in Conn : One(loop'[d].frame, c) \subseteq One(loop[d].frame, c)
    BY <1>4, <1>c DEF Dialed, End
  <2>6. UNCHANGED <<dataVars, out, wire>>
    BY <1>4 DEF Dialed
  <2> QED BY <1>b, <2>4, <2>5, <2>6
<1>5. ASSUME DialFailed PROVE FlowInv'
  <2>1. \A d \in End : d # "gate" => loop'[d] = loop[d]
    BY <1>0, <1>5 DEF DialFailed, TypeOK
  <2>2. loop'["gate"] = [loop["gate"] EXCEPT !.at = "reply"] /\ loop["gate"] \in LoopState
    BY <1>0, <1>5 DEF DialFailed, TypeOK, End
  <2>3. loop'["gate"].frame = loop["gate"].frame
    BY <2>2 DEF LoopState
  <2>4. \A d \in End, c \in Conn : One(loop'[d].frame, c) \subseteq One(loop[d].frame, c)
    BY <2>1, <2>3
  <2>5. UNCHANGED <<dataVars, chan, out, wire>>
    BY <1>5 DEF DialFailed
  <2> QED BY <1>b, <2>4, <2>5
<1>6. ASSUME RecvOpen PROVE FlowInv'
  <2>1. /\ Incoming("gate", "OPEN") /\ "gate" \in End
        /\ loop' = [loop EXCEPT !["gate"] = Handling("dial", Head(wire["gate"]), NoConn)]
    BY <1>6 DEF RecvOpen, End
  <2> QED BY <1>0, <2>1, FlowIncoming
<1>7. ASSUME NEW e \in End, NEW cmd, NEW at, RecvRouted(e, cmd, at) PROVE FlowInv'
  BY <1>0, <1>7, FlowIncoming DEF RecvRouted
<1>8. ASSUME NEW e \in End, RecvUnknown(e) PROVE FlowInv'
  <2>1. loop' = loop /\ \E cmd : Incoming(e, cmd)
    BY <1>8 DEF RecvUnknown
  <2>2. PICK cmd : Incoming(e, cmd)
    BY <2>1
  <2>3. loop[e].at = "select"
    BY <2>2 DEF Incoming
  <2> QED BY <1>0, <2>1, <2>2, <2>3, FlowIncoming
<1>9. ASSUME NEW e \in End, Reply(e) PROVE FlowInv'
  <2>1. loop[e].frame \in Frame
    BY <1>9, BusyFrame, TaggedFrame DEF Reply
  <2>2. MkFrame("CLOSE", loop[e].frame.id, loop[e].frame.conn, 0) \in Frame
    BY <2>1, FrameType DEF Frame
  <2>3. \A d \in End, c \in Conn : One(loop'[d].frame, c) \subseteq One(loop[d].frame, c)
    BY <1>9, <1>c DEF Reply
  <2> QED BY <1>0, <1>9, <2>2, <2>3, FlowPush DEF Reply, MkFrame
<1>10. ASSUME NEW e \in End, SendFrame(e) PROVE FlowInv'
  BY <1>0, <1>10, FlowOut DEF SendFrame
<1>11. ASSUME NEW e \in End, LoseFrame(e) PROVE FlowInv'
  <2>1. \A d \in End, c \in Conn : One(loop'[d].frame, c) \subseteq One(loop[d].frame, c)
    BY <1>11, <1>c DEF LoseFrame
  <2> QED BY <1>0, <1>11, <2>1, FlowOut DEF LoseFrame
<1>12. ASSUME NEW e \in End, Connect(e) \/ NoticeDrop(e) \/ DeliverShutdownFailed(e) PROVE FlowInv'
  <2>1. \A d \in End, c \in Conn : One(loop'[d].frame, c) \subseteq One(loop[d].frame, c)
    BY <1>12, <1>c DEF Connect, NoticeDrop, DeliverShutdownFailed
  <2> QED BY <1>12, <1>b, <2>1 DEF Connect, NoticeDrop, DeliverShutdownFailed
<1>13. ASSUME NEW e \in End, DeliverDataFailed(e) PROVE FlowInv'
  <2>1. \A d \in End : loop'[d].frame = loop[d].frame
    BY <1>0, <1>13 DEF DeliverDataFailed, TypeOK, Handling
  <2> QED BY <1>13, <1>b, <2>1 DEF DeliverDataFailed
<1>14. ASSUME NEW e \in End, DropLink(e) \/ Kill(e) PROVE FlowInv' /\ UNCHANGED dataVars
  <2>1. CASE DropLink(e)
    BY <1>0, <2>1, FlowCut DEF DropLink
  <2>2. CASE Kill(e)
    <3>1. \A d \in End, c \in Conn : chan'[d][c] = chan[d][c] \/ chan'[d][c] = <<>>
      BY <1>0, <2>2 DEF Kill, TypeOK
    <3>2. \A d \in End : out'[d] = out[d] \/ out'[d] = <<>>
      BY <1>0, <2>2 DEF Kill, TypeOK
    <3>3. \A d \in End, c \in Conn : One(loop'[d].frame, c) \subseteq One(loop[d].frame, c)
      BY <1>c, <2>2 DEF Kill
    <3> QED BY <1>0, <2>2, <3>1, <3>2, <3>3, FlowCut DEF Kill
  <2> QED BY <1>14, <2>1, <2>2
<1>15. ASSUME NEW e \in End, NEW c \in Conn, ReadEnd(e, c) PROVE FlowInv'
  <2>1. MkFrame("CLOSE", connId[c], c, 0) \in Frame
    BY <1>0, FrameType DEF TypeOK
  <2> QED BY <1>0, <1>15, <2>1, FlowPush DEF ReadEnd, MkFrame
<1>16. ASSUME NEW e \in End, NEW c \in Conn, WriterBreak(e, c) PROVE FlowInv'
  <2>1. chan[e][c] \in Seq(Frame) /\ chan[e][c] # <<>>
    BY <1>0, <1>16 DEF WriterBreak, NextIs, TypeOK
  <2>2. Rising(Tail(chan[e][c])) /\ Nums(Tail(chan[e][c]), c) \subseteq Nums(chan[e][c], c)
    BY <2>1, NumsTail DEF FlowInv
  <2>3. \A d \in End, b \in Conn : Nums(chan'[d][b], b) \subseteq Nums(chan[d][b], b) /\ Rising(chan'[d][b])
    BY <1>0, <1>16, <2>2 DEF WriterBreak, Take, TypeOK, FlowInv
  <2> QED BY <1>16, <2>3, FlowThin DEF WriterBreak, FlowInv
<1>17. ASSUME NEW e \in End, NEW c \in Conn, WriterExit(e, c) PROVE FlowInv'
  BY <1>17, <1>b, <1>d DEF WriterExit
<1>18. CASE UNCHANGED vars
  BY <1>1, <1>a, <1>18 DEF vars
<1>19. CASE Acceptor
  BY <1>1, <1>2, <1>3, <1>a, <1>19 DEF Acceptor, AcceptAlloc, AcceptFull, SendOpen, SpawnLocal
<1>20. CASE Gate
  BY <1>4, <1>5, <1>6, <1>a, <1>20 DEF Gate, Dialed, DialFailed, RecvOpen, Incoming
<1>21. ASSUME NEW e \in End, Session(e) PROVE FlowInv' /\ UNCHANGED dataVars
  <2>1. UNCHANGED dataVars
    <3>1. CASE \E cmd : Incoming(e, cmd)
      BY <3>1 DEF Incoming
    <3>2. CASE ~\E cmd : Incoming(e, cmd)
      BY <1>21, <3>2 DEF Session, Connect, SendFrame, LoseFrame, NoticeDrop, RecvData, RecvClose,
         RecvRouted, RecvUnknown, Reply, Deliver, DeliverDataFailed, DeliverShutdownFailed
    <3> QED BY <3>1, <3>2
  <2>2. ASSUME Deliver(e) PROVE FlowInv'
    BY <1>0, <2>2, FlowDeliver
  <2> QED BY <1>7, <1>8, <1>9, <1>10, <1>11, <1>12, <1>13, <1>21, <2>1, <2>2
          DEF Session, RecvData, RecvClose
<1>22. ASSUME NEW e \in End, NEW c \in Conn, ReadChunk(e, c)
       PROVE  FlowInv' /\ Streams!Next
  <2>1. Streams!Send(e, c)
    BY <1>22 DEF ReadChunk, Streams!Send
  <2> QED BY <1>0, <1>22, <2>1, FlowRead DEF Streams!Next
<1>23. ASSUME NEW e \in End, NEW c \in Conn, WriteChunk(e, c)
       PROVE  FlowInv' /\ Streams!Next
  BY <1>0, <1>23, FlowWrite DEF Streams!Next
<1>24. ASSUME NEW e \in End, NEW c \in Conn, Reader(e, c) \/ Writer(e, c)
       PROVE  FlowInv' /\ [Streams!Next]_(Streams!vars)
  BY <1>1, <1>15, <1>16, <1>17, <1>22, <1>23, <1>24, <1>a
  DEF Reader, Writer, ReadEnd, WriterBreak, WriterOrphaned, WriterExit
<1> QED BY <1>14, <1>18, <1>19, <1>20, <1>21, <1>24, <1>a DEF Next, Fault

\* tcp.rs:378-380 and 147-153: each connection is a pair of streams that may lose
\* chunks, but never reorders, repeats or mixes them with those of another,
\* while ids are not reused: the tunnel implements StreamPromise, for any number
\* of connections, link failures, failed writes and restarts of either process.
THEOREM TunnelKeepsItsPromise ==
  /\ Spec /\ []IdsApart => StreamsKept
  /\ ReadySpec /\ []IdsApart => StreamsKept
<1>1. ASSUME NEW up \in BOOLEAN, InitLinks(up) PROVE RouteInv /\ FlowInv /\ Streams!Init
  <2>1. Streams!Init
    BY <1>1 DEF InitLinks, Streams!Init
  <2> QED BY <1>1, <2>1, RouteInit, FlowInit
<1>2. (Init \/ InitReady) => RouteInv /\ FlowInv /\ Streams!Init
  BY <1>1 DEF Init, InitReady
<1>3. IInv /\ IdsApart /\ RouteInv /\ FlowInv /\ [Next]_vars =>
        (RouteInv /\ FlowInv)' /\ [Streams!Next]_(Streams!vars)
  BY RouteStep, FlowStep DEF IInv, RouteInv
<1> QED BY <1>2, <1>3, IInvInvariant, PTL DEF Spec, ReadySpec, StreamsKept, Streams!Spec

-----------------------------------------------------------------------------
(* Where ids suffice.                                                      *)

\* Connections with an id; ids are given in order.
Numbered == LET given == Conn \ fresh IN
  /\ \A c \in given : connId[c] < Cardinality(given)
  /\ nextId = Cardinality(given) % NumIds

LEMMA NumberedInit ==
  ASSUME NEW up \in BOOLEAN, InitLinks(up) PROVE IdsApart /\ Numbered
<1>1. Conn \ fresh = {} /\ nextId = 0
  BY DEF InitLinks
<1>2. Cardinality({}) = 0 /\ 0 % NumIds = 0
  <2>1. NumIds \in Nat \ {0}
    BY TunnelAssumption
  <2> QED BY <2>1, FS_EmptySet
<1> QED BY <1>1, <1>2 DEF IdsApart, Numbered

LEMMA NumberedStep ==
  ASSUME Mortal \subseteq {"gate"}, IsFiniteSet(Conn), Cardinality(Conn) <= NumIds,
         IInv, IdsApart, Numbered, [Next]_vars
  PROVE  IdsApart' /\ Numbered'
<1> DEFINE given == Conn \ fresh
           n == Cardinality(given)
<1>0. TypeOK /\ UnseenIdle /\ EntriesLive /\ NumIds \in Nat \ {0}
  BY TunnelAssumption DEF IInv, TagInv
<1>1. n \in Nat /\ Cardinality(Conn) \in Nat /\ IsFiniteSet(given)
  BY FS_Subset, FS_CardinalityType
<1>2. ASSUME UNCHANGED <<fresh, connId, nextId>> PROVE IdsApart' /\ Numbered'
  BY <1>2 DEF IdsApart, Numbered
<1>3. ASSUME NEW c \in Conn, c \in fresh
      PROVE  /\ IsFiniteSet(given \cup {c}) /\ Cardinality(given \cup {c}) = n + 1 /\ n < NumIds
             /\ nextId = n /\ 0 \in FreeSteps
  <2>1. IsFiniteSet(given \cup {c}) /\ Cardinality(given \cup {c}) = n + 1
    BY <1>1, <1>3, FS_AddElement
  <2>2. Cardinality(given \cup {c}) <= Cardinality(Conn)
    BY FS_Subset
  <2>3. n < NumIds
    BY <1>0, <1>1, <2>1, <2>2
  <2>4. nextId = n
    BY <1>0, <1>1, <2>3 DEF Numbered
  <2>5. 0 \in Ids /\ n \in Ids /\ (nextId + 0) % NumIds = n
    BY <1>0, <1>1, <2>3, <2>4 DEF Ids
  <2>6. conns["home"][n] = NoConn
    <3> SUFFICES ASSUME conns["home"][n] # NoConn PROVE FALSE
      OBVIOUS
    <3> DEFINE b == conns["home"][n]
    <3>a. conns["home"] \in [Ids -> Conn \cup {NoConn}] /\ "home" \in End
      BY <1>0 DEF TypeOK, End
    <3>b. b \in Conn
      BY <2>5, <3>a
    <3>1. connId[b] = n /\ writer["home"][b] # "none"
      BY <1>0, <2>5, <3>a DEF EntriesLive
    <3>2. b \in given
      BY <1>0, <3>a, <3>b, <3>1 DEF UnseenIdle, Unseen
    <3> QED BY <1>1, <3>b, <3>1, <3>2 DEF Numbered
  <2> QED BY <2>1, <2>3, <2>4, <2>5, <2>6 DEF FreeSteps
<1>4. ASSUME NEW c \in Conn, AcceptAlloc(c) PROVE IdsApart' /\ Numbered'
  <2>1. c \in fresh /\ fresh' = fresh \ {c}
    BY <1>4 DEF AcceptAlloc
  <2>2. PICK k \in FreeSteps : /\ \A j \in FreeSteps : k <= j
                               /\ connId' = [connId EXCEPT ![c] = (nextId + k) % NumIds]
                               /\ nextId' = After((nextId + k) % NumIds)
    BY <1>4 DEF AcceptAlloc
  <2>3. k \in Nat /\ k <= 0
    <3>1. k \in 0 .. NumIds - 1
      BY DEF FreeSteps, Ids
    <3>2. k \in Nat
      BY <1>0, <3>1
    <3>3. 0 \in FreeSteps
      BY <1>3, <2>1
    <3> QED BY <2>2, <3>2, <3>3
  <2>4. k = 0 /\ (nextId + k) % NumIds = n
    <3>1. k = 0
      BY <2>3
    <3>2. nextId = n /\ n < NumIds
      BY <1>3, <2>1
    <3> QED BY <1>0, <1>1, <3>1, <3>2
  <2>5. connId' = [connId EXCEPT ![c] = n] /\ nextId' = (n + 1) % NumIds
    BY <2>2, <2>4 DEF After
  <2>6. Conn \ fresh' = given \cup {c} /\ connId \in [Conn -> Ids]
    BY <1>0, <2>1 DEF TypeOK
  <2>7. \A b \in given : connId[b] \in Nat /\ connId[b] < n
    <3>1. \A b \in given : connId[b] \in Ids
      BY <2>6
    <3>2. \A b \in given : connId[b] \in Nat
      BY <1>0, <3>1 DEF Ids
    <3>3. \A b \in given : connId[b] < n
      BY DEF Numbered
    <3> QED BY <3>2, <3>3
  <2>a. n = Cardinality(given)
    OBVIOUS
  <2>8. Cardinality(given \cup {c}) = n + 1
    BY <1>3, <2>1
  <2>b. c \notin given
    BY <2>1
  <2> HIDE DEF n, given
  <2>9. Numbered'
    <3>1. Cardinality(Conn \ fresh') = n + 1
      BY <2>6, <2>8
    <3>2. ASSUME NEW b \in Conn \ fresh' PROVE connId'[b] < n + 1
      <4>1. b \in Conn /\ (b = c \/ b \in given)
        BY <2>6, <3>2
      <4>2. CASE b = c
        BY <1>1, <2>5, <2>6, <4>1, <4>2
      <4>3. CASE b # c
        BY <1>1, <2>5, <2>6, <2>7, <4>1, <4>3
      <4> QED BY <4>2, <4>3
    <3> QED BY <2>5, <3>1, <3>2 DEF Numbered
  <2>10. IdsApart'
    BY <1>1, <2>1, <2>5, <2>6, <2>7 DEF IdsApart
  <2> QED BY <2>9, <2>10
<1>5. ASSUME NEW c \in Conn, AcceptFull(c) PROVE FALSE
  BY <1>3, <1>5 DEF AcceptFull
<1>6. ASSUME NEW e \in End, Kill(e) PROVE UNCHANGED <<fresh, connId, nextId>>
  BY <1>6 DEF Kill
<1>7. CASE UNCHANGED vars
  BY <1>2, <1>7 DEF vars, acceptVars
<1>8. CASE Acceptor
  BY <1>2, <1>4, <1>5, <1>8 DEF Acceptor, SendOpen, SpawnLocal
<1>9. ASSUME UNCHANGED acceptVars PROVE UNCHANGED <<fresh, connId, nextId>>
  BY <1>9 DEF acceptVars
<1>10. CASE Gate
  BY <1>2, <1>9, <1>10 DEF Gate, Dialed, DialFailed, RecvOpen, Incoming
<1>11. ASSUME NEW e \in End, Session(e) PROVE UNCHANGED acceptVars
  <2>1. CASE \E cmd : Incoming(e, cmd)
    BY <2>1 DEF Incoming
  <2>2. CASE ~\E cmd : Incoming(e, cmd)
    BY <1>11, <2>2 DEF Session, Connect, SendFrame, LoseFrame, NoticeDrop, RecvData, RecvClose,
       RecvRouted, RecvUnknown, Reply, Deliver, DeliverDataFailed, DeliverShutdownFailed
  <2> QED BY <2>1, <2>2
<1>12. ASSUME NEW e \in End, NEW c \in Conn, Reader(e, c) \/ Writer(e, c)
       PROVE  UNCHANGED acceptVars
  BY <1>12 DEF Reader, ReadChunk, ReadEnd, Writer, WriteChunk, WriterBreak, WriterOrphaned, WriterExit
<1> QED BY <1>2, <1>6, <1>7, <1>8, <1>9, <1>10, <1>11, <1>12 DEF Next, Fault, DropLink

\* With no more connections than ids, and a home that is not restarted, no id is
\* given twice (tcp.rs:620-639): the theorems about IdsApart apply.
THEOREM EnoughIds ==
  ASSUME Mortal \subseteq {"gate"}, IsFiniteSet(Conn), Cardinality(Conn) <= NumIds
  PROVE  (Spec => []IdsApart) /\ (ReadySpec => []IdsApart)
<1>1. (Init \/ InitReady) => IdsApart /\ Numbered
  BY NumberedInit DEF Init, InitReady
<1>2. IInv /\ IdsApart /\ Numbered /\ [Next]_vars => (IdsApart /\ Numbered)'
  BY NumberedStep
<1> QED BY <1>1, <1>2, IInvInvariant, PTL DEF Spec, ReadySpec


-----------------------------------------------------------------------------
(* A connection's tasks start together, once, and its OPEN comes once.     *)

\* What the loop holds is what its state says, for a connection that was
\* started; both tasks of a connection start together.
LoopTask ==
  \A e \in End : /\ loop[e].at = "data" => loop[e].frame.cmd = "DATA"
                 /\ loop[e].at = "shut" => loop[e].frame.cmd = "CLOSE"
                 /\ loop[e].tx # NoConn => writer[e][loop[e].tx] # "none"
ConnTask(e, c) == /\ writer[e][c] = "none" => reader[e][c] = "none"
                  /\ reader[e][c] = "none" => writer[e][c] = "none"
                  /\ writer[e][c] = "none" => chan[e][c] = <<>>
TaskInv == LoopTask /\ \A e \in End, c \in Conn : ConnTask(e, c)

\* The connections a queue has a command for, and the one a loop handles.
Conns(s, cmd) == {s[k].conn : k \in {j \in DOMAIN s : s[j].cmd = cmd}}
InHand(e, at) == IF loop[e].at = at THEN {loop[e].frame.conn} ELSE {}

\* The connections whose OPEN is on its way to the gate, or being dialed.
Queued  == Conns(wire["gate"], "OPEN") \cup Conns(out["home"], "OPEN")
Awaited == InHand("gate", "dial") \cup Queued

Once ==
  /\ InHand("gate", "dial") \cap Queued = {}
  /\ \A c \in Awaited : reader["gate"][c] = "none"
  /\ acceptor.at # "accept" => reader["home"][acceptor.conn] = "none"

LEMMA TaskInit == ASSUME NEW up \in BOOLEAN, InitLinks(up) PROVE TaskInv /\ Once
<1>1. TaskInv
  BY DEF InitLinks, TaskInv, LoopTask, ConnTask, Idle
<1>2. Awaited = {}
  BY DEF InitLinks, Idle, Awaited, Queued, InHand, Conns, End
<1>3. Once
  BY <1>2 DEF InitLinks, Once, Awaited, Queued
<1> QED BY <1>1, <1>3

LEMMA LoopTaskKept ==
  ASSUME TypeOK, LoopTask, NEW e \in End, NEW l, loop' = [loop EXCEPT ![e] = l],
         \A d \in End, c \in Conn : writer[d][c] # "none" => writer'[d][c] # "none",
         l.at = "data" => l.frame.cmd = "DATA",
         l.at = "shut" => l.frame.cmd = "CLOSE",
         l.tx # NoConn => writer'[e][l.tx] # "none"
  PROVE  LoopTask'
<1> SUFFICES ASSUME NEW d \in End
             PROVE  /\ loop'[d].at = "data" => loop'[d].frame.cmd = "DATA"
                    /\ loop'[d].at = "shut" => loop'[d].frame.cmd = "CLOSE"
                    /\ loop'[d].tx # NoConn => writer'[d][loop'[d].tx] # "none"
  BY DEF LoopTask
<1>1. CASE d = e
  BY <1>1 DEF TypeOK
<1>2. CASE d # e
  <2>1. loop'[d] = loop[d] /\ loop[d] \in LoopState
    BY <1>2 DEF TypeOK
  <2>2. loop[d].tx \in Conn \cup {NoConn}
    BY <2>1 DEF LoopState
  <2> QED BY <2>1, <2>2 DEF LoopTask
<1> QED BY <1>1, <1>2

LEMMA LoopTaskSame ==
  ASSUME TypeOK, LoopTask, UNCHANGED loop,
         \A d \in End, c \in Conn : writer[d][c] # "none" => writer'[d][c] # "none"
  PROVE  LoopTask'
<1>1. \A d \in End : loop[d].tx \in Conn \cup {NoConn}
  BY DEF TypeOK, LoopState
<1> QED BY <1>1 DEF LoopTask

LEMMA ConnTaskKept ==
  ASSUME NEW e \in End, NEW c \in Conn, ConnTask(e, c),
         writer[e][c] = "none" <=> writer'[e][c] = "none",
         reader[e][c] = "none" <=> reader'[e][c] = "none",
         writer[e][c] = "none" => chan'[e][c] = chan[e][c] \/ chan'[e][c] = <<>>
  PROVE  ConnTask(e, c)'
BY DEF ConnTask

LEMMA SpawnTasks ==
  ASSUME TypeOK, TaskInv, NEW e \in End, NEW c \in Conn, NEW id, Spawn(e, c, id)
  PROVE  /\ \A d \in End, b \in Conn : ConnTask(d, b)'
         /\ \A d \in End, b \in Conn : writer[d][b] # "none" => writer'[d][b] # "none"
<1>1. /\ reader'[e][c] = "open" /\ writer'[e][c] = "run"
      /\ \A d \in End, b \in Conn : ~(d = e /\ b = c) =>
           reader'[d][b] = reader[d][b] /\ writer'[d][b] = writer[d][b] /\ chan'[d][b] = chan[d][b]
  BY DEF Spawn, TypeOK
<1>2. ASSUME NEW d \in End, NEW b \in Conn PROVE ConnTask(d, b)'
  <2>1. CASE d = e /\ b = c
    BY <1>1, <2>1 DEF ConnTask
  <2>2. CASE ~(d = e /\ b = c)
    BY <1>1, <2>2, ConnTaskKept DEF TaskInv
  <2> QED BY <2>1, <2>2
<1> QED BY <1>1, <1>2

LEMMA TaskStep == TagInv /\ EntriesLive /\ TaskInv /\ [Next]_vars => TaskInv'
<1> SUFFICES ASSUME TagInv, EntriesLive, TaskInv, [Next]_vars PROVE TaskInv'
  OBVIOUS
<1> USE DEF acceptVars, taskVars
<1>0. TypeOK /\ LoopTask /\ \A e \in End, c \in Conn : ConnTask(e, c)
  BY DEF TagInv, TaskInv
<1>i. \A at : Idle(at).tx = NoConn /\ Idle(at).at = at
  BY DEF Idle
<1>a. ASSUME UNCHANGED <<writer, reader, chan>>
      PROVE  /\ \A e \in End, c \in Conn : ConnTask(e, c)'
             /\ \A d \in End, c \in Conn : writer[d][c] # "none" => writer'[d][c] # "none"
  BY <1>0, <1>a DEF ConnTask
<1>b. ASSUME UNCHANGED <<writer, reader, chan>>, NEW e \in End, NEW at \in {"select", "down"},
             loop' = [loop EXCEPT ![e] = Idle(at)]
      PROVE  TaskInv'
  BY <1>0, <1>i, <1>a, <1>b, LoopTaskKept DEF TaskInv
<1>1. ASSUME UNCHANGED <<writer, reader, chan, loop>> PROVE TaskInv'
  BY <1>0, <1>1, <1>a, LoopTaskSame DEF TaskInv
<1>2. CASE SpawnLocal
  <2>1. acceptor.conn \in Conn /\ "home" \in End
    BY <1>0, <1>2 DEF SpawnLocal, TypeOK, AcceptorState, End
  <2>2. Spawn("home", acceptor.conn, connId[acceptor.conn]) /\ UNCHANGED loop
    BY <1>2 DEF SpawnLocal
  <2> QED BY <1>0, <2>1, <2>2, SpawnTasks, LoopTaskSame DEF TaskInv
<1>3. CASE Dialed
  <2>1. loop["gate"].frame \in Frame /\ "gate" \in End
    BY <1>3, BusyFrame, TaggedFrame DEF Dialed, End
  <2>2. loop["gate"].frame.conn \in Conn
    BY <2>1 DEF Frame
  <2>3. /\ Spawn("gate", loop["gate"].frame.conn, loop["gate"].frame.id)
        /\ loop' = [loop EXCEPT !["gate"] = Idle("select")]
    BY <1>3 DEF Dialed
  <2> QED BY <1>0, <1>i, <2>1, <2>2, <2>3, SpawnTasks, LoopTaskKept DEF TaskInv
<1>4. CASE DialFailed
  <2>1. loop' = [loop EXCEPT !["gate"] = [loop["gate"] EXCEPT !.at = "reply"]]
        /\ loop["gate"].at = "dial" /\ UNCHANGED <<writer, reader, chan>>
    BY <1>4 DEF DialFailed
  <2>2. loop["gate"] \in LoopState /\ "gate" \in End
    BY <1>0 DEF TypeOK, End
  <2>3. [loop["gate"] EXCEPT !.at = "reply"].tx = NoConn
        /\ [loop["gate"] EXCEPT !.at = "reply"].at = "reply"
    BY <2>1, <2>2 DEF LoopState
  <2> QED BY <1>0, <1>a, <2>1, <2>2, <2>3, LoopTaskKept DEF TaskInv
<1>5. CASE RecvOpen
  <2>1. loop' = [loop EXCEPT !["gate"] = Handling("dial", Head(wire["gate"]), NoConn)]
        /\ UNCHANGED <<writer, reader, chan>> /\ "gate" \in End
    BY <1>5 DEF RecvOpen, Incoming, End
  <2> QED BY <1>0, <1>a, <2>1, LoopTaskKept DEF TaskInv, Handling
<1>6. ASSUME NEW e \in End, RecvData(e) \/ RecvClose(e) PROVE TaskInv'
  <2> DEFINE f == Head(wire[e])
             c == conns[e][f.id]
  <2>1. PICK at \in {"data", "shut"} :
          /\ c # NoConn /\ loop' = [loop EXCEPT ![e] = Handling(at, f, c)]
          /\ at = "data" => f.cmd = "DATA"
          /\ at = "shut" => f.cmd = "CLOSE"
          /\ wire[e] # <<>> /\ UNCHANGED <<writer, reader, chan>>
    BY <1>6 DEF RecvData, RecvClose, RecvRouted, Incoming
  <2>2. f \in Frame
    BY <1>0, <2>1 DEF TypeOK
  <2>3. c \in Conn /\ writer[e][c] # "none"
    <3>1. f.id \in Ids /\ conns[e] \in [Ids -> Conn \cup {NoConn}]
      BY <1>0, <2>2 DEF TypeOK, Frame
    <3> QED BY <2>1, <3>1 DEF EntriesLive
  <2> HIDE DEF f, c
  <2>4. Handling(at, f, c).tx = c /\ Handling(at, f, c).frame = f /\ Handling(at, f, c).at = at
    BY DEF Handling
  <2> QED BY <1>0, <1>a, <2>1, <2>3, <2>4, LoopTaskKept DEF TaskInv
<1>7. ASSUME NEW e \in End, Deliver(e) PROVE TaskInv'
  <2>1. loop' = [loop EXCEPT ![e] = Idle("select")] /\ UNCHANGED <<writer, reader>>
    BY <1>7 DEF Deliver
  <2>2. loop[e].tx \in Conn /\ loop[e].tx # NoConn
    BY <1>0, <1>7, TunnelAssumption DEF Deliver, TypeOK, LoopState
  <2>3. writer[e][loop[e].tx] # "none"
    BY <1>0, <2>2 DEF LoopTask
  <2>4. \A d \in End, b \in Conn : writer[d][b] = "none" => chan'[d][b] = chan[d][b]
    BY <1>0, <1>7, <2>2, <2>3 DEF Deliver, TypeOK
  <2>5. \A d \in End, b \in Conn : ConnTask(d, b)'
    BY <1>0, <2>1, <2>4, ConnTaskKept
  <2> QED BY <1>0, <1>i, <2>1, <2>5, LoopTaskKept DEF TaskInv
<1>8. ASSUME NEW e \in End, DeliverDataFailed(e) PROVE TaskInv'
  <2>1. loop' = [loop EXCEPT ![e] = Handling("reply", loop[e].frame, NoConn)]
        /\ UNCHANGED <<writer, reader, chan>>
    BY <1>8 DEF DeliverDataFailed
  <2>2. Handling("reply", loop[e].frame, NoConn).tx = NoConn
        /\ Handling("reply", loop[e].frame, NoConn).at = "reply"
    BY DEF Handling
  <2> QED BY <1>0, <1>a, <2>1, <2>2, LoopTaskKept DEF TaskInv
<1>9. ASSUME NEW e \in End, NEW c \in Conn, Writer(e, c) \/ Reader(e, c) PROVE TaskInv'
  <2>0. writer[e][c] # "none" \/ reader[e][c] # "none"
    BY <1>9 DEF Writer, WriteChunk, NextIs, WriterBreak, WriterOrphaned, WriterExit,
                Reader, ReadChunk, ReadEnd
  <2>1. writer[e][c] # "none" /\ reader[e][c] # "none"
    BY <1>0, <2>0 DEF ConnTask
  <2>2. loop' = loop
    BY <1>9 DEF Writer, WriteChunk, WriterBreak, WriterOrphaned, WriterExit, Reader, ReadChunk, ReadEnd
  <2>3. \/ writer' = writer
        \/ \E v \in {"stop", "done"} : writer' = [writer EXCEPT ![e][c] = v]
    BY <1>9 DEF Writer, WriteChunk, WriterBreak, WriterOrphaned, WriterExit, Reader, ReadChunk, ReadEnd
  <2>4. reader' = reader \/ reader' = [reader EXCEPT ![e][c] = "done"]
    BY <1>9 DEF Writer, WriteChunk, WriterBreak, WriterOrphaned, WriterExit, Reader, ReadChunk, ReadEnd
  <2>5. chan' = chan \/ chan' = [chan EXCEPT ![e][c] = Tail(@)] \/ chan' = [chan EXCEPT ![e][c] = <<>>]
    BY <1>9 DEF Writer, WriteChunk, WriterBreak, WriterOrphaned, WriterExit, Reader, ReadChunk, ReadEnd, Take
  <2>6. /\ \A d \in End, b \in Conn : writer[d][b] = "none" <=> writer'[d][b] = "none"
        /\ \A d \in End, b \in Conn : reader[d][b] = "none" <=> reader'[d][b] = "none"
        /\ \A d \in End, b \in Conn : writer[d][b] = "none" => chan'[d][b] = chan[d][b]
    <3> SUFFICES ASSUME NEW d \in End, NEW b \in Conn
                 PROVE  /\ writer[d][b] = "none" <=> writer'[d][b] = "none"
                        /\ reader[d][b] = "none" <=> reader'[d][b] = "none"
                        /\ writer[d][b] = "none" => chan'[d][b] = chan[d][b]
      OBVIOUS
    <3>1. CASE d = e /\ b = c
      <4>1. writer'[d][b] = writer[d][b] \/ writer'[d][b] \in {"stop", "done"}
        BY <1>0, <2>3, <3>1 DEF TypeOK
      <4>2. reader'[d][b] = reader[d][b] \/ reader'[d][b] = "done"
        BY <1>0, <2>4, <3>1 DEF TypeOK
      <4> QED BY <2>1, <3>1, <4>1, <4>2
    <3>2. CASE ~(d = e /\ b = c)
      <4>1. writer'[d][b] = writer[d][b]
        BY <1>0, <2>3, <3>2 DEF TypeOK
      <4>2. reader'[d][b] = reader[d][b]
        BY <1>0, <2>4, <3>2 DEF TypeOK
      <4>3. chan'[d][b] = chan[d][b]
        BY <1>0, <2>5, <3>2 DEF TypeOK
      <4> QED BY <4>1, <4>2, <4>3
    <3> QED BY <3>1, <3>2
  <2>7. \A d \in End, b \in Conn : ConnTask(d, b)'
    BY <1>0, <2>6, ConnTaskKept
  <2>8. LoopTask'
    BY <1>0, <2>2, <2>6, LoopTaskSame
  <2> QED BY <2>7, <2>8 DEF TaskInv
<1>10. ASSUME NEW e \in End, Kill(e) PROVE TaskInv'
  <2>1. /\ \A d \in End, b \in Conn : writer[d][b] = "none" <=> writer'[d][b] = "none"
        /\ \A d \in End, b \in Conn : reader[d][b] = "none" <=> reader'[d][b] = "none"
        /\ \A d \in End, b \in Conn : chan'[d][b] = chan[d][b] \/ chan'[d][b] = <<>>
        /\ loop' = [loop EXCEPT ![e] = Idle("down")]
    <3>1. \A d \in End, b \in Conn : writer[d][b] = "none" <=> writer'[d][b] = "none"
      BY <1>0, <1>10 DEF Kill, TypeOK
    <3>2. \A d \in End, b \in Conn : reader[d][b] = "none" <=> reader'[d][b] = "none"
      BY <1>0, <1>10 DEF Kill, TypeOK
    <3>3. \A d \in End, b \in Conn : chan'[d][b] = chan[d][b] \/ chan'[d][b] = <<>>
      BY <1>0, <1>10 DEF Kill, TypeOK
    <3> QED BY <1>10, <3>1, <3>2, <3>3 DEF Kill
  <2>2. \A d \in End, b \in Conn : ConnTask(d, b)'
    BY <1>0, <2>1, ConnTaskKept
  <2> QED BY <1>0, <1>i, <2>1, <2>2, LoopTaskKept DEF TaskInv
<1>11. CASE UNCHANGED vars
  BY <1>1, <1>11 DEF vars
<1>12. CASE Acceptor
  BY <1>1, <1>2, <1>12 DEF Acceptor, AcceptAlloc, AcceptFull, SendOpen
<1>13. CASE Gate
  BY <1>3, <1>4, <1>5, <1>13 DEF Gate
<1>14. ASSUME NEW e \in End, Session(e) PROVE TaskInv'
  BY <1>1, <1>b, <1>6, <1>7, <1>8, <1>14 DEF Session, Connect, SendFrame, LoseFrame, NoticeDrop,
     RecvUnknown, Incoming, Reply, DeliverShutdownFailed
<1>15. ASSUME NEW e \in End, Fault(e) PROVE TaskInv'
  BY <1>1, <1>10, <1>15 DEF Fault, DropLink
<1> QED BY <1>9, <1>11, <1>12, <1>13, <1>14, <1>15 DEF Next

-----------------------------------------------------------------------------
(* What each step does to the connections the queues have commands for.    *)

\* The connection of a frame with that command.
Of(f, cmd) == IF f.cmd = cmd THEN {f.conn} ELSE {}

LEMMA ConnsEmpty == \A cmd : Conns(<<>>, cmd) = {}
BY DEF Conns

LEMMA ConnsTail ==
  ASSUME NEW s \in Seq(Frame), s # <<>>
  PROVE  /\ \A cmd : /\ Conns(Tail(s), cmd) \subseteq Conns(s, cmd)
                     /\ Of(Head(s), cmd) \subseteq Conns(s, cmd)
         /\ Leads(s) => Head(s).conn \notin Conns(Tail(s), "OPEN")
<1>1. /\ \A i \in DOMAIN Tail(s) : i + 1 \in DOMAIN s /\ i + 1 > 1 /\ Tail(s)[i] = s[i + 1]
      /\ 1 \in DOMAIN s /\ Head(s) = s[1]
  OBVIOUS
<1>2. ASSUME NEW cmd PROVE Conns(Tail(s), cmd) \subseteq Conns(s, cmd)
  BY <1>1 DEF Conns
<1>3. ASSUME NEW cmd PROVE Of(Head(s), cmd) \subseteq Conns(s, cmd)
  BY <1>1 DEF Conns, Of
<1>4. ASSUME Leads(s), Head(s).conn \in Conns(Tail(s), "OPEN") PROVE FALSE
  <2>1. PICK j \in DOMAIN Tail(s) : Tail(s)[j].cmd = "OPEN" /\ Tail(s)[j].conn = Head(s).conn
    BY <1>4 DEF Conns
  <2>2. /\ 1 \in DOMAIN s /\ j + 1 \in DOMAIN s /\ 1 < j + 1
        /\ s[j + 1].cmd = "OPEN" /\ s[1].conn = s[j + 1].conn
    BY <1>1, <2>1
  <2> QED BY <1>4, <2>2 DEF Leads
<1> QED BY <1>2, <1>3, <1>4

LEMMA ConnsAppend ==
  ASSUME NEW s \in Seq(Frame), NEW f \in Frame, NEW cmd
  PROVE  Conns(Append(s, f), cmd) = Conns(s, cmd) \cup Of(f, cmd)
<1>1. /\ DOMAIN Append(s, f) = DOMAIN s \cup {Len(s) + 1} /\ Append(s, f)[Len(s) + 1] = f
      /\ \A i \in DOMAIN s : Append(s, f)[i] = s[i]
  OBVIOUS
<1>2. ASSUME NEW x \in Conns(Append(s, f), cmd) PROVE x \in Conns(s, cmd) \cup Of(f, cmd)
  BY <1>1, <1>2 DEF Conns, Of
<1>3. ASSUME NEW x \in Conns(s, cmd) PROVE x \in Conns(Append(s, f), cmd)
  BY <1>1, <1>3 DEF Conns
<1>4. ASSUME NEW x \in Of(f, cmd) PROVE x \in Conns(Append(s, f), cmd)
  BY <1>1, <1>4 DEF Conns, Of
<1> QED BY <1>2, <1>3, <1>4

LEMMA ConnsPrefix ==
  ASSUME NEW s \in Seq(Frame), NEW k \in 0 .. Len(s), NEW cmd
  PROVE  Conns(SubSeq(s, 1, k), cmd) \subseteq Conns(s, cmd)
<1>1. \A i \in DOMAIN SubSeq(s, 1, k) : i \in DOMAIN s /\ SubSeq(s, 1, k)[i] = s[i]
  OBVIOUS
<1> QED BY <1>1 DEF Conns

LEMMA ConnsBehind ==
  ASSUME NEW s \in Seq(Frame), NEW t \in Seq(Frame), s # <<>>, Behind(s, t)
  PROVE  Head(s).conn \notin Conns(t, "OPEN")
<1>1. 1 \in DOMAIN s /\ Head(s) = s[1]
  OBVIOUS
<1> QED BY <1>1 DEF Behind, Conns

LEMMA QueuePush ==
  ASSUME TypeOK, NEW e \in End, NEW f \in Frame, Push(e, f), NEW cmd
  PROVE  /\ Conns(out'[e], cmd) = Conns(out[e], cmd) \cup Of(f, cmd)
         /\ \A d \in End : d # e => out'[d] = out[d]
<1>1. out[e] \in Seq(Frame) /\ out' = [out EXCEPT ![e] = Append(out[e], f)]
  BY DEF TypeOK, Push
<1>2. out'[e] = Append(out[e], f) /\ \A d \in End : d # e => out'[d] = out[d]
  BY <1>1 DEF TypeOK
<1> QED BY <1>1, <1>2, ConnsAppend

LEMMA QueueCut ==
  ASSUME TypeOK, NEW e \in End, Cut(e), NEW d \in End, NEW cmd
  PROVE  Conns(wire'[d], cmd) \subseteq Conns(wire[d], cmd)
<1>1. PICK k \in 0 .. Len(wire[Other(e)]) :
        wire' = [x \in End |-> IF x = e THEN <<>> ELSE SubSeq(wire[x], 1, k)]
  BY DEF Cut
<1>2. CASE d = e
  BY <1>1, <1>2, ConnsEmpty
<1>3. CASE d # e
  <2>1. d = Other(e) /\ wire[d] \in Seq(Frame) /\ wire'[d] = SubSeq(wire[d], 1, k)
    BY <1>1, <1>3 DEF End, Other, TypeOK
  <2> QED BY <1>1, <2>1, ConnsPrefix
<1> QED BY <1>2, <1>3

\* Of the out queue's head and tail.
LEMMA QueueSend ==
  ASSUME TypeOK, NEW e \in End, out[e] # <<>>, out' = [out EXCEPT ![e] = Tail(@)],
         \/ wire' = wire
         \/ wire' = [wire EXCEPT ![Other(e)] = Append(@, Head(out[e]))],
         NEW cmd
  PROVE  /\ Of(Head(out[e]), cmd) \subseteq Conns(out[e], cmd)
         /\ Conns(out'[e], cmd) \subseteq Conns(out[e], cmd)
         /\ \/ Conns(wire'[Other(e)], cmd) = Conns(wire[Other(e)], cmd)
            \/ Conns(wire'[Other(e)], cmd) = Conns(wire[Other(e)], cmd) \cup Of(Head(out[e]), cmd)
         /\ out'[Other(e)] = out[Other(e)] /\ wire'[e] = wire[e]
<1>1. /\ out[e] \in Seq(Frame) /\ out'[e] = Tail(out[e]) /\ Head(out[e]) \in Frame
      /\ Other(e) \in End /\ Other(e) # e /\ wire[Other(e)] \in Seq(Frame)
  BY DEF TypeOK, Other, End
<1>2. out'[Other(e)] = out[Other(e)] /\ wire'[e] = wire[e]
  BY <1>1 DEF TypeOK
<1>3. CASE wire' = wire
  BY <1>1, <1>2, <1>3, ConnsTail
<1>4. CASE wire' = [wire EXCEPT ![Other(e)] = Append(@, Head(out[e]))]
  <2>1. wire'[Other(e)] = Append(wire[Other(e)], Head(out[e]))
    BY <1>1, <1>4 DEF TypeOK
  <2>2. Conns(Append(wire[Other(e)], Head(out[e])), cmd)
          = Conns(wire[Other(e)], cmd) \cup Of(Head(out[e]), cmd)
    BY <1>1, ConnsAppend
  <2> QED BY <1>1, <1>2, <2>1, <2>2, ConnsTail
<1> QED BY <1>3, <1>4

LEMMA QueueTake ==
  ASSUME TypeOK, NEW e \in End, NEW head, Incoming(e, head), NEW cmd
  PROVE  /\ Conns(wire'[e], cmd) \subseteq Conns(wire[e], cmd)
         /\ Of(Head(wire[e]), cmd) \subseteq Conns(wire[e], cmd)
         /\ \A d \in End : d # e => wire'[d] = wire[d]
<1>1. wire[e] \in Seq(Frame) /\ wire[e] # <<>> /\ wire'[e] = Tail(wire[e])
      /\ \A d \in End : d # e => wire'[d] = wire[d]
  BY DEF Incoming, TypeOK
<1> QED BY <1>1, ConnsTail

-----------------------------------------------------------------------------
\* No connection becomes unseen again.
LEMMA UnseenStep == TagInv /\ [Next]_vars => Unseen' \subseteq Unseen
<1> SUFFICES ASSUME TagInv, [Next]_vars PROVE Unseen' \subseteq Unseen
  OBVIOUS
<1>1. CASE Acceptor
  <2>1. ASSUME NEW c \in Conn, AcceptAlloc(c) PROVE Unseen' \subseteq Unseen
    BY <2>1 DEF AcceptAlloc, Unseen
  <2>2. ASSUME NEW c \in Conn, AcceptFull(c) PROVE Unseen' \subseteq Unseen
    BY <2>2 DEF AcceptFull, Unseen
  <2>3. CASE SendOpen
    <3>1. fresh' = fresh /\ acceptor'.at = "spawn"
      BY <2>3 DEF SendOpen, TagInv, TypeOK, AcceptorState
    <3> QED BY <3>1 DEF Unseen
  <2>4. CASE SpawnLocal
    BY <2>4 DEF SpawnLocal, Unseen
  <2> QED BY <1>1, <2>1, <2>2, <2>3, <2>4 DEF Acceptor
<1>2. ASSUME NEW e \in End, Kill(e) PROVE Unseen' \subseteq Unseen
  BY <1>2 DEF Kill, Unseen
<1>3. ASSUME UNCHANGED acceptVars PROVE Unseen' = Unseen
  BY <1>3 DEF acceptVars, Unseen
<1>4. CASE UNCHANGED vars
  BY <1>3, <1>4 DEF vars
<1>5. CASE Gate
  BY <1>3, <1>5 DEF Gate, RecvOpen, Incoming, Dialed, DialFailed
<1>6. ASSUME NEW e \in End, Session(e) PROVE UNCHANGED acceptVars
  <2>1. CASE \E cmd : Incoming(e, cmd)
    BY <2>1 DEF Incoming
  <2>2. CASE ~\E cmd : Incoming(e, cmd)
    BY <1>6, <2>2 DEF Session, Connect, SendFrame, LoseFrame, NoticeDrop, RecvData, RecvClose,
       RecvRouted, RecvUnknown, Reply, Deliver, DeliverDataFailed, DeliverShutdownFailed
  <2> QED BY <2>1, <2>2
<1>7. ASSUME NEW e \in End, NEW c \in Conn, Reader(e, c) \/ Writer(e, c) PROVE UNCHANGED acceptVars
  BY <1>7 DEF Reader, ReadChunk, ReadEnd, Writer, WriteChunk, WriterBreak, WriterOrphaned, WriterExit
<1> QED BY <1>1, <1>2, <1>3, <1>4, <1>5, <1>6, <1>7 DEF Next, Fault, DropLink

LEMMA AwaitedConn == TagInv => Awaited \subseteq Conn \ Unseen
<1> SUFFICES ASSUME TagInv PROVE Awaited \subseteq Conn \ Unseen
  OBVIOUS
<1>1. Tagged \subseteq Frame /\ \A f \in Tagged : f.conn \in Conn \ Unseen
  BY DEF Tagged, Frame
<1>2. InHand("gate", "dial") \subseteq Conn \ Unseen
  <2>1. loop["gate"].at = "dial" => loop["gate"].frame \in Tagged
    BY BusyFrame DEF End
  <2> QED BY <1>1, <2>1 DEF InHand
<1>3. \A s \in Seq(Tagged) : Conns(s, "OPEN") \subseteq Conn \ Unseen
  BY <1>1 DEF Conns
<1>4. wire["gate"] \in Seq(Tagged) /\ out["home"] \in Seq(Tagged)
  BY DEF TagInv, FramesTagged, End
<1> QED BY <1>2, <1>3, <1>4 DEF Awaited, Queued

\* A reader starts once: one that has ended, or one at the gate that no OPEN is
\* on its way for, does not start.
OneStart ==
  /\ Awaited' \subseteq Awaited \cup Unseen
  /\ \A x \in End, c \in Conn :
       /\ reader[x][c] = "done" => reader'[x][c] = "done"
       /\ x = "gate" /\ reader[x][c] = "none" /\ c \notin Awaited => reader'[x][c] = "none"

AcceptorIdle == acceptor.at # "accept" => reader["home"][acceptor.conn] = "none"

LEMMA AcceptorIdleKept ==
  ASSUME TypeOK, AcceptorIdle, UNCHANGED acceptor,
         \A c \in Conn : reader["home"][c] = "none" => reader'["home"][c] = "none"
  PROVE  AcceptorIdle'
BY DEF AcceptorIdle, TypeOK, AcceptorState

LEMMA OnceKept ==
  ASSUME TagInv, Once,
         InHand("gate", "dial")' \subseteq InHand("gate", "dial"), Queued' \subseteq Queued,
         \A x \in End, c \in Conn : /\ reader[x][c] = "none" => reader'[x][c] = "none"
                                    /\ reader[x][c] = "done" => reader'[x][c] = "done",
         AcceptorIdle'
  PROVE  Once' /\ OneStart
<1>1. Awaited' \subseteq Awaited /\ Awaited \subseteq Conn
  BY AwaitedConn DEF Awaited
<1>2. Once'
  BY <1>1 DEF Once, AcceptorIdle, End
<1>3. OneStart
  BY <1>1 DEF OneStart
<1> QED BY <1>2, <1>3

LEMMA OnceStep ==
  TagInv /\ LeadsInv /\ TaskInv /\ Once /\ [Next]_vars => Once' /\ OneStart
<1> SUFFICES ASSUME TagInv, LeadsInv, TaskInv, Once, [Next]_vars PROVE Once' /\ OneStart
  OBVIOUS
<1> USE DEF acceptVars, taskVars, netVars
<1>0. TypeOK /\ AcceptorIdle /\ "home" \in End /\ "gate" \in End /\ Other("home") = "gate"
      /\ Other("gate") = "home" /\ \A e \in End : e = "home" \/ e = "gate"
  BY DEF TagInv, Once, AcceptorIdle, End, Other
<1>r. ASSUME UNCHANGED reader
      PROVE  \A x \in End, c \in Conn : /\ reader[x][c] = "none" => reader'[x][c] = "none"
                                        /\ reader[x][c] = "done" => reader'[x][c] = "done"
  BY <1>r
<1>q. ASSUME UNCHANGED <<out, wire>> PROVE Queued' = Queued
  BY <1>q DEF Queued
<1>h. ASSUME NEW e \in End, NEW l, loop' = [loop EXCEPT ![e] = l], e = "home" \/ l.at # "dial"
      PROVE  InHand("gate", "dial")' \subseteq InHand("gate", "dial")
  BY <1>0, <1>h DEF InHand, TypeOK
<1>i. \A at : Idle(at).at = at
  BY DEF Idle
<1>k. ASSUME UNCHANGED <<reader, acceptor>>, Queued' \subseteq Queued,
             InHand("gate", "dial")' \subseteq InHand("gate", "dial")
      PROVE  Once' /\ OneStart
  BY <1>0, <1>k, <1>r, AcceptorIdleKept, OnceKept
<1>1. ASSUME UNCHANGED <<reader, loop, out, wire, acceptor>> PROVE Once' /\ OneStart
  BY <1>1, <1>k, <1>q DEF InHand
<1>2. ASSUME NEW c \in Conn, AcceptAlloc(c) \/ AcceptFull(c) PROVE Once' /\ OneStart
  <2>1. UNCHANGED <<reader, loop, out, wire>> /\ c \in fresh
    BY <1>2 DEF AcceptAlloc, AcceptFull
  <2>2. reader["home"][c] = "none"
    BY <1>0, <2>1 DEF TagInv, UnseenIdle, Unseen
  <2>3. AcceptorIdle'
    BY <1>0, <1>2, <2>1, <2>2 DEF AcceptAlloc, AcceptFull, AcceptorIdle
  <2>4. Queued' = Queued /\ InHand("gate", "dial")' = InHand("gate", "dial")
    BY <2>1 DEF Queued, InHand
  <2> QED BY <1>r, <2>1, <2>3, <2>4, OnceKept
<1>3. CASE SendOpen
  <2> DEFINE c == acceptor.conn
             f == MkFrame("OPEN", connId[c], c, 0)
  <2>1. c \in Conn /\ c \in Unseen /\ UNCHANGED <<reader, loop, wire>> /\ Push("home", f)
        /\ acceptor'.at = "spawn" /\ acceptor'.conn = c
    BY <1>0, <1>3 DEF SendOpen, TypeOK, AcceptorState, Unseen
  <2>2. f \in Frame /\ Of(f, "OPEN") = {c}
    <3>1. connId[c] \in Ids
      BY <1>0, <2>1 DEF TypeOK
    <3> QED BY <2>1, <3>1, FrameType DEF MkFrame, Of
  <2> HIDE DEF f
  <2>3. Queued' = Queued \cup {c}
    BY <1>0, <2>1, <2>2, QueuePush DEF Queued
  <2>4. c \notin Awaited
    BY <2>1, AwaitedConn
  <2>5. InHand("gate", "dial")' = InHand("gate", "dial")
    BY <2>1 DEF InHand
  <2>6. Awaited' = Awaited \cup {c}
    BY <2>3, <2>5 DEF Awaited
  <2>7. \A e \in End : reader[e][c] = "none"
    BY <2>1 DEF TagInv, UnseenIdle
  <2>8. Once'
    <3>1. InHand("gate", "dial")' \cap Queued' = {}
      BY <2>3, <2>4, <2>5 DEF Once, Awaited
    <3>2. \A b \in Awaited' : reader'["gate"][b] = "none"
      BY <1>0, <2>1, <2>6, <2>7 DEF Once
    <3>3. reader'["home"][acceptor'.conn] = "none"
      BY <1>0, <2>1, <2>7
    <3> QED BY <3>1, <3>2, <3>3 DEF Once
  <2>9. OneStart
    BY <2>1, <2>6 DEF OneStart
  <2> QED BY <2>8, <2>9
<1>4. CASE SpawnLocal
  <2> DEFINE c == acceptor.conn
  <2>1. c \in Conn /\ acceptor.at = "spawn"
    BY <1>0, <1>4 DEF SpawnLocal, TypeOK, AcceptorState
  <2>2. reader["home"][c] = "none"
    BY <1>0, <2>1 DEF AcceptorIdle
  <2>3. /\ reader' = [reader EXCEPT !["home"][c] = "open"] /\ acceptor'.at = "accept"
        /\ UNCHANGED <<out, wire, loop>>
    BY <1>4 DEF SpawnLocal, Spawn
  <2>4. \A x \in End, b \in Conn : /\ reader[x][b] = "done" => reader'[x][b] = "done"
                                   /\ x = "gate" => reader'[x][b] = reader[x][b]
    BY <1>0, <2>1, <2>2, <2>3 DEF TypeOK
  <2>5. Queued' = Queued /\ InHand("gate", "dial")' = InHand("gate", "dial")
    BY <2>3 DEF Queued, InHand
  <2>6. Awaited' = Awaited /\ Awaited \subseteq Conn
    BY <2>5, AwaitedConn DEF Awaited
  <2>7. Once'
    BY <1>0, <2>3, <2>4, <2>5, <2>6 DEF Once
  <2>8. OneStart
    BY <2>4, <2>6 DEF OneStart
  <2> QED BY <2>7, <2>8
<1>5. CASE Dialed
  <2> DEFINE c == loop["gate"].frame.conn
  <2>1. InHand("gate", "dial") = {c} /\ c \in Awaited /\ c \in Conn
    BY <1>5, AwaitedConn DEF Dialed, InHand, Awaited
  <2>2. reader["gate"][c] = "none" /\ c \notin Queued
    BY <2>1 DEF Once
  <2>3. /\ reader' = [reader EXCEPT !["gate"][c] = "open"]
        /\ loop' = [loop EXCEPT !["gate"] = Idle("select")]
        /\ UNCHANGED <<out, wire, acceptor>>
    BY <1>5 DEF Dialed, Spawn
  <2>4. InHand("gate", "dial")' = {} /\ Queued' = Queued
    BY <1>0, <1>i, <2>3 DEF InHand, Queued, TypeOK
  <2> HIDE DEF c
  <2>5. \A x \in End, b \in Conn : /\ reader[x][b] = "done" => reader'[x][b] = "done"
                                   /\ ~(x = "gate" /\ b = c) => reader'[x][b] = reader[x][b]
    BY <1>0, <2>1, <2>2, <2>3 DEF TypeOK
  <2>6. Awaited' = Queued /\ Awaited' \subseteq Awaited /\ c \notin Awaited' /\ Awaited \subseteq Conn
    BY <2>2, <2>4, AwaitedConn DEF Awaited
  <2>7. \A b \in Conn : reader["home"][b] = "none" => reader'["home"][b] = "none"
    BY <1>0, <2>5
  <2>8. AcceptorIdle'
    BY <1>0, <2>3, <2>7, AcceptorIdleKept
  <2>9. Once'
    <3>1. \A b \in Awaited' : reader'["gate"][b] = "none"
      BY <1>0, <2>5, <2>6 DEF Once
    <3> QED BY <2>4, <2>8, <3>1 DEF Once, AcceptorIdle
  <2>10. OneStart
    BY <2>1, <2>5, <2>6 DEF OneStart
  <2> QED BY <2>9, <2>10
<1>6. CASE DialFailed
  <2>1. loop'["gate"].at = "reply" /\ UNCHANGED <<reader, acceptor, out, wire>>
    BY <1>0, <1>6 DEF DialFailed, TypeOK, LoopState
  <2>2. InHand("gate", "dial")' = {}
    BY <2>1 DEF InHand
  <2> QED BY <1>k, <1>q, <2>1, <2>2
<1>7. CASE RecvOpen
  <2> DEFINE s == wire["gate"]
             c == Head(s).conn
  <2>1. /\ s \in Seq(Frame) /\ s # <<>> /\ Head(s).cmd = "OPEN" /\ wire'["gate"] = Tail(s)
        /\ loop["gate"].at = "select" /\ UNCHANGED <<reader, acceptor, out>>
        /\ loop' = [loop EXCEPT !["gate"] = Handling("dial", Head(s), NoConn)]
    BY <1>0, <1>7 DEF RecvOpen, Incoming, TypeOK
  <2>2. InHand("gate", "dial")' = {c}
    BY <1>0, <2>1 DEF InHand, Handling, TypeOK
  <2>3. out["home"] \in Seq(Frame)
    BY <1>0 DEF TypeOK
  <2>4. /\ Conns(Tail(s), "OPEN") \subseteq Conns(s, "OPEN") /\ c \in Conns(s, "OPEN")
        /\ c \notin Conns(Tail(s), "OPEN") /\ c \notin Conns(out["home"], "OPEN")
    BY <2>1, <2>3, ConnsTail, ConnsBehind DEF LeadsInv, Of
  <2>5. Queued' \subseteq Queued /\ c \in Queued /\ c \notin Queued'
    BY <2>1, <2>4 DEF Queued
  <2>6. Awaited' \subseteq Awaited
    BY <2>2, <2>5 DEF Awaited
  <2>7. AcceptorIdle'
    BY <1>0, <2>1, AcceptorIdleKept
  <2>8. Once'
    <3>1. InHand("gate", "dial")' \cap Queued' = {}
      BY <2>2, <2>5
    <3>2. \A b \in Awaited' : reader'["gate"][b] = "none"
      BY <2>1, <2>6 DEF Once
    <3> QED BY <2>7, <3>1, <3>2 DEF Once, AcceptorIdle
  <2>9. OneStart
    BY <2>1, <2>6 DEF OneStart
  <2> QED BY <2>8, <2>9
<1>8. ASSUME NEW e \in End, NEW cmd, Incoming(e, cmd),
             \/ loop' = loop
             \/ \E at \in {"data", "shut"} : \E c :
                  loop' = [loop EXCEPT ![e] = Handling(at, Head(wire[e]), c)]
      PROVE  Once' /\ OneStart
  <2>1. UNCHANGED <<reader, acceptor, out>> /\ Queued' \subseteq Queued
    BY <1>0, <1>8, QueueTake DEF Incoming, Queued
  <2>2. InHand("gate", "dial")' \subseteq InHand("gate", "dial")
    BY <1>8, <1>h DEF InHand, Handling
  <2> QED BY <1>k, <2>1, <2>2
<1>9. ASSUME NEW e \in End, RecvData(e) \/ RecvClose(e) \/ RecvUnknown(e) PROVE Once' /\ OneStart
  BY <1>8, <1>9 DEF RecvData, RecvClose, RecvRouted, RecvUnknown
<1>10. ASSUME NEW e \in End, NEW at \in {"select", "down"}, loop' = [loop EXCEPT ![e] = Idle(at)],
              UNCHANGED <<reader, acceptor>>, Queued' \subseteq Queued
       PROVE  Once' /\ OneStart
  BY <1>h, <1>i, <1>k, <1>10
<1>11. ASSUME NEW e \in End, out[e] # <<>>, out' = [out EXCEPT ![e] = Tail(@)],
              \/ wire' = wire
              \/ wire' = [wire EXCEPT ![Other(e)] = Append(@, Head(out[e]))]
       PROVE  Queued' \subseteq Queued
  <2>1. CASE e = "home"
    BY <1>0, <1>11, <2>1, QueueSend DEF Queued
  <2>2. CASE e = "gate"
    BY <1>0, <1>11, <2>2, QueueSend DEF Queued
  <2> QED BY <1>0, <2>1, <2>2
<1>12. ASSUME NEW e \in End, SendFrame(e) PROVE Once' /\ OneStart
  <2>1. Queued' \subseteq Queued /\ UNCHANGED <<reader, acceptor, loop>>
    BY <1>11, <1>12 DEF SendFrame
  <2> QED BY <1>k, <2>1 DEF InHand
<1>13. ASSUME NEW e \in End, LoseFrame(e) PROVE Once' /\ OneStart
  <2>1. Queued' \subseteq Queued /\ UNCHANGED <<reader, acceptor>>
    BY <1>11, <1>13 DEF LoseFrame
  <2> QED BY <1>10, <1>13, <2>1 DEF LoseFrame
<1>14. ASSUME NEW e \in End, NEW f \in Frame, Push(e, f), f.cmd # "OPEN", UNCHANGED wire
       PROVE  Queued' = Queued
  <2>1. Of(f, "OPEN") = {}
    BY <1>14 DEF Of
  <2> QED BY <1>0, <1>14, <2>1, QueuePush DEF Queued
<1>15. ASSUME NEW e \in End, Reply(e) PROVE Once' /\ OneStart
  <2>1. loop[e].frame \in Frame
    BY <1>15, BusyFrame, TaggedFrame DEF Reply
  <2>2. MkFrame("CLOSE", loop[e].frame.id, loop[e].frame.conn, 0) \in Frame
        /\ MkFrame("CLOSE", loop[e].frame.id, loop[e].frame.conn, 0).cmd # "OPEN"
    BY <2>1, FrameType DEF Frame, MkFrame
  <2>3. Queued' = Queued
    BY <1>14, <1>15, <2>2 DEF Reply
  <2> QED BY <1>10, <1>15, <2>3 DEF Reply
<1>16. ASSUME NEW e \in End, Connect(e) \/ NoticeDrop(e) \/ Deliver(e) \/ DeliverShutdownFailed(e)
       PROVE  Once' /\ OneStart
  <2>1. Queued' = Queued
    BY <1>16, <1>q DEF Connect, NoticeDrop, Deliver, DeliverShutdownFailed
  <2> QED BY <1>10, <1>16, <2>1 DEF Connect, NoticeDrop, Deliver, DeliverShutdownFailed
<1>17. ASSUME NEW e \in End, DeliverDataFailed(e) PROVE Once' /\ OneStart
  <2>1. loop' = [loop EXCEPT ![e] = Handling("reply", loop[e].frame, NoConn)]
        /\ UNCHANGED <<reader, acceptor, out, wire>>
    BY <1>17 DEF DeliverDataFailed
  <2>2. InHand("gate", "dial")' \subseteq InHand("gate", "dial")
    BY <1>h, <2>1 DEF Handling
  <2> QED BY <1>k, <1>q, <2>1, <2>2
<1>18. ASSUME NEW e \in End, Session(e) PROVE Once' /\ OneStart
  BY <1>9, <1>12, <1>13, <1>15, <1>16, <1>17, <1>18 DEF Session
<1>19. ASSUME NEW e \in End, Cut(e), \A d \in End : out'[d] = out[d] \/ out'[d] = <<>>
       PROVE  Queued' \subseteq Queued
  BY <1>0, <1>19, QueueCut, ConnsEmpty DEF Queued
<1>20. ASSUME NEW e \in End, DropLink(e) PROVE Once' /\ OneStart
  <2>1. Queued' \subseteq Queued /\ UNCHANGED <<reader, acceptor, loop>>
    BY <1>19, <1>20 DEF DropLink
  <2> QED BY <1>k, <2>1 DEF InHand
<1>21. ASSUME NEW e \in End, Kill(e) PROVE Once' /\ OneStart
  <2>1. \A d \in End : out'[d] = out[d] \/ out'[d] = <<>>
    BY <1>0, <1>21 DEF Kill, TypeOK
  <2>2. Queued' \subseteq Queued
    BY <1>19, <1>21, <2>1 DEF Kill
  <2>3. InHand("gate", "dial")' \subseteq InHand("gate", "dial")
    BY <1>h, <1>i, <1>21 DEF Kill
  <2>4. \A x \in End, c \in Conn : /\ reader[x][c] = "none" => reader'[x][c] = "none"
                                   /\ reader[x][c] = "done" => reader'[x][c] = "done"
    BY <1>0, <1>21 DEF Kill, TypeOK
  <2>5. AcceptorIdle'
    <3>1. CASE e = "home"
      BY <1>21, <3>1 DEF Kill, AcceptorIdle
    <3>2. CASE e = "gate"
      <4>1. UNCHANGED acceptor
        BY <1>21, <3>2 DEF Kill
      <4> QED BY <1>0, <2>4, <4>1, AcceptorIdleKept
    <3> QED BY <1>0, <3>1, <3>2
  <2> QED BY <2>2, <2>3, <2>4, <2>5, OnceKept
<1>22. ASSUME NEW e \in End, NEW c \in Conn, ReadEnd(e, c) PROVE Once' /\ OneStart
  <2>1. MkFrame("CLOSE", connId[c], c, 0) \in Frame
        /\ MkFrame("CLOSE", connId[c], c, 0).cmd # "OPEN"
    BY <1>0, FrameType DEF TypeOK, MkFrame
  <2>2. Queued' = Queued
    BY <1>14, <1>22, <2>1 DEF ReadEnd
  <2>3. /\ reader[e][c] = "open" /\ reader' = [reader EXCEPT ![e][c] = "done"]
        /\ UNCHANGED <<acceptor, loop>>
    BY <1>22 DEF ReadEnd
  <2>4. \A x \in End, b \in Conn : /\ reader[x][b] = "none" => reader'[x][b] = "none"
                                   /\ reader[x][b] = "done" => reader'[x][b] = "done"
    BY <1>0, <2>3 DEF TypeOK
  <2>5. AcceptorIdle'
    BY <1>0, <2>3, <2>4, AcceptorIdleKept
  <2>6. InHand("gate", "dial")' = InHand("gate", "dial")
    BY <2>3 DEF InHand
  <2> QED BY <2>2, <2>4, <2>5, <2>6, OnceKept
<1>23. ASSUME NEW e \in End, NEW c \in Conn, ReadChunk(e, c) PROVE Once' /\ OneStart
  <2>1. MkFrame("DATA", connId[c], c, sent[e][c] + 1) \in Frame
        /\ MkFrame("DATA", connId[c], c, sent[e][c] + 1).cmd # "OPEN"
    BY <1>0, FrameType DEF TypeOK, MkFrame
  <2>2. Queued' = Queued /\ UNCHANGED <<reader, acceptor, loop>>
    BY <1>14, <1>23, <2>1 DEF ReadChunk
  <2> QED BY <1>k, <2>2 DEF InHand
<1>24. ASSUME NEW e \in End, NEW c \in Conn, Reader(e, c) \/ Writer(e, c) PROVE Once' /\ OneStart
  BY <1>1, <1>22, <1>23, <1>24
     DEF Reader, Writer, WriteChunk, WriterBreak, WriterOrphaned, WriterExit
<1>25. CASE UNCHANGED vars
  BY <1>1, <1>25 DEF vars
<1> QED BY <1>2, <1>3, <1>4, <1>5, <1>6, <1>7, <1>18, <1>20, <1>21, <1>24, <1>25
        DEF Next, Acceptor, Gate, Fault

-----------------------------------------------------------------------------
(* How connections end.  The chunks and the CLOSE of a connection on their *)
(* way to one end: in its channel, in the loop's hands, on the wire, in    *)
(* the other end's out queue.                                              *)

\* The connections whose reader will not run (again) at that end.
Over(x) == {c \in Conn : \/ reader[x][c] = "done"
                         \/ /\ x = "gate" /\ reader[x][c] = "none"
                            /\ c \notin Awaited \cup Unseen}

InChan(e)  == {c \in Conn : c \in Conns(chan[e][c], "CLOSE")}
Stopped(e) == {c \in Conn : writer[e][c] \in {"stop", "done"}}

\* No chunk of a connection behind its CLOSE.
LastWord(s) == \A i, j \in DOMAIN s :
                 i < j /\ s[i].cmd = "CLOSE" /\ s[j].cmd = "DATA" => s[i].conn # s[j].conn

\* CLOSE in channel, CLOSE and chunks in hand, on the wire, in the out queue;
\* writers stopped, connections answered CLOSE, readers over here and there.
Ends(CC, HC, HD, WC, WD, OC, OD, S, R, V, U) ==
  /\ CC \cap (HD \cup WD \cup OD) = {} /\ HC \cap (WD \cup OD) = {} /\ WC \cap OD = {}
  /\ CC \cup HC \cup WC \cup OC \subseteq U
  /\ S \cap (HD \cup WD \cup OD) \subseteq V
  /\ S \subseteq V \cup U
  /\ R \subseteq V

Settled(e) ==
  Ends(InChan(e), InHand(e, "shut"), InHand(e, "data"),
       Conns(wire[e], "CLOSE"), Conns(wire[e], "DATA"),
       Conns(out[Other(e)], "CLOSE"), Conns(out[Other(e)], "DATA"),
       Stopped(e), InHand(e, "reply"), Over(e), Over(Other(e)))

Words == \A e \in End : /\ LastWord(wire[e]) /\ LastWord(out[e])
                        /\ \A c \in Conn : LastWord(chan[e][c])

EndInv == Words /\ \A e \in End : Settled(e)

LEMMA EndInit == ASSUME NEW up \in BOOLEAN, InitLinks(up) PROVE EndInv
<1>1. Words
  BY DEF InitLinks, Words, LastWord
<1>2. ASSUME NEW e \in End PROVE Settled(e)
  <2>1. InChan(e) = {} /\ Stopped(e) = {}
    BY ConnsEmpty DEF InitLinks, InChan, Stopped
  <2>2. InHand(e, "shut") = {} /\ InHand(e, "data") = {} /\ InHand(e, "reply") = {}
    BY DEF InitLinks, InHand, Idle
  <2>3. \A cmd : Conns(wire[e], cmd) = {} /\ Conns(out[Other(e)], cmd) = {}
    BY ConnsEmpty, OtherType DEF InitLinks
  <2> QED BY <2>1, <2>2, <2>3 DEF Settled, Ends
<1> QED BY <1>1, <1>2 DEF EndInv

LEMMA WordsEmpty == LastWord(<<>>)
BY DEF LastWord

LEMMA WordsTail ==
  ASSUME NEW s \in Seq(Frame), s # <<>>, LastWord(s)
  PROVE  /\ LastWord(Tail(s))
         /\ Of(Head(s), "CLOSE") \cap Conns(Tail(s), "DATA") = {}
<1>1. /\ \A i \in DOMAIN Tail(s) : i + 1 \in DOMAIN s /\ i + 1 > 1 /\ Tail(s)[i] = s[i + 1]
      /\ 1 \in DOMAIN s /\ Head(s) = s[1]
  OBVIOUS
<1>2. LastWord(Tail(s))
  <2> SUFFICES ASSUME NEW i \in DOMAIN Tail(s), NEW j \in DOMAIN Tail(s), i < j,
                      Tail(s)[i].cmd = "CLOSE", Tail(s)[j].cmd = "DATA"
               PROVE  Tail(s)[i].conn # Tail(s)[j].conn
    BY DEF LastWord
  <2>1. i + 1 \in DOMAIN s /\ j + 1 \in DOMAIN s /\ i + 1 < j + 1
    BY <1>1
  <2> QED BY <1>1, <2>1 DEF LastWord
<1>3. ASSUME NEW x \in Of(Head(s), "CLOSE"), x \in Conns(Tail(s), "DATA") PROVE FALSE
  <2>1. PICK j \in DOMAIN Tail(s) : Tail(s)[j].cmd = "DATA" /\ Tail(s)[j].conn = x
    BY <1>3 DEF Conns
  <2>2. s[1].cmd = "CLOSE" /\ s[1].conn = x
    BY <1>1 DEF Of
  <2>3. 1 < j + 1 /\ j + 1 \in DOMAIN s /\ s[j + 1].cmd = "DATA" /\ s[j + 1].conn = x
    BY <1>1, <2>1
  <2> QED BY <1>1, <2>2, <2>3 DEF LastWord
<1> QED BY <1>2, <1>3

LEMMA WordsAppend ==
  ASSUME NEW s \in Seq(Frame), NEW f \in Frame, LastWord(s),
         f.cmd = "DATA" => f.conn \notin Conns(s, "CLOSE")
  PROVE  LastWord(Append(s, f))
<1> DEFINE t == Append(s, f)
<1>1. /\ DOMAIN t = DOMAIN s \cup {Len(s) + 1} /\ t[Len(s) + 1] = f
      /\ \A i \in DOMAIN s : i < Len(s) + 1 /\ t[i] = s[i]
  OBVIOUS
<1> SUFFICES ASSUME NEW i \in DOMAIN t, NEW j \in DOMAIN t, i < j,
                    t[i].cmd = "CLOSE", t[j].cmd = "DATA"
             PROVE  t[i].conn # t[j].conn
  BY DEF LastWord
<1>2. i \in DOMAIN s /\ t[i] = s[i]
  BY <1>1
<1>3. CASE j \in DOMAIN s
  BY <1>1, <1>2, <1>3 DEF LastWord
<1>4. CASE j = Len(s) + 1
  BY <1>1, <1>2, <1>4 DEF Conns
<1> QED BY <1>1, <1>3, <1>4

LEMMA WordsPrefix ==
  ASSUME NEW s \in Seq(Frame), NEW k \in 0 .. Len(s), LastWord(s)
  PROVE  LastWord(SubSeq(s, 1, k))
<1>1. \A i \in DOMAIN SubSeq(s, 1, k) : i \in DOMAIN s /\ SubSeq(s, 1, k)[i] = s[i]
  OBVIOUS
<1> QED BY <1>1 DEF LastWord

LEMMA OverStep ==
  ASSUME OneStart, Unseen' \subseteq Unseen
  PROVE  \A x \in End : Over(x) \subseteq Over(x)'
BY DEF OneStart, Over

\* A reader that runs is not over; one that has ended is.
LEMMA OverReader ==
  \A x \in End, c \in Conn : /\ reader[x][c] = "open" => c \notin Over(x)
                             /\ reader[x][c] = "done" => c \in Over(x)
BY DEF Over

-----------------------------------------------------------------------------
\* Commands may be lost anywhere, writers start and readers end.
LEMMA EndsThin ==
  ASSUME NEW CC, NEW HC, NEW HD, NEW WC, NEW WD, NEW OC, NEW OD, NEW S, NEW R, NEW V, NEW U,
         Ends(CC, HC, HD, WC, WD, OC, OD, S, R, V, U),
         NEW cc, NEW hc, NEW hd, NEW wc, NEW wd, NEW oc, NEW od, NEW st, NEW r, NEW v, NEW u,
         cc \subseteq CC, hc \subseteq HC, hd \subseteq HD, wc \subseteq WC, wd \subseteq WD,
         oc \subseteq OC, od \subseteq OD, st \subseteq S, r \subseteq R, V \subseteq v, U \subseteq u
  PROVE  Ends(cc, hc, hd, wc, wd, oc, od, st, r, v, u)
BY DEF Ends

LEMMA EndsMore ==
  ASSUME NEW CC, NEW HC, NEW HD, NEW WC, NEW WD, NEW OC, NEW OD, NEW S, NEW R, NEW V, NEW U,
         Ends(CC, HC, HD, WC, WD, OC, OD, S, R, V, U)
  PROVE  /\ \A x : x \cap U = {} => Ends(CC, HC, HD, WC, WD, OC, OD \cup x, S, R, V, U)
         /\ \A x : x \subseteq U => Ends(CC, HC, HD, WC, WD, OC \cup x, OD, S, R, V, U)
         /\ Ends(CC \cup HC, {}, {}, WC, WD, OC, OD, S, R, V, U)
         /\ \A x : x \subseteq CC => Ends(CC, HC, HD, WC, WD, OC, OD, S \cup x, R, V, U)
         /\ \A x : x \subseteq V => Ends(CC, HC, HD, WC, WD, OC, OD, S, R \cup x, V, U)
         /\ \A x : x \subseteq V => Ends(CC, HC, HD, WC, WD, OC, OD, S \cup x, R, V, U)
BY DEF Ends

LEMMA EndsSend ==
  ASSUME NEW CC, NEW HC, NEW HD, NEW WC, NEW WD, NEW OC, NEW OD, NEW S, NEW R, NEW V, NEW U,
         Ends(CC, HC, HD, WC, WD, OC, OD, S, R, V, U), NEW x, NEW y, NEW o, NEW p,
         x \subseteq OC, y \subseteq OD, o \subseteq OC, p \subseteq OD, x \cap p = {}
  PROVE  Ends(CC, HC, HD, WC \cup x, WD \cup y, o, p, S, R, V, U)
BY DEF Ends

LEMMA EndsTake ==
  ASSUME NEW CC, NEW HC, NEW HD, NEW WC, NEW WD, NEW OC, NEW OD, NEW S, NEW R, NEW V, NEW U,
         Ends(CC, HC, HD, WC, WD, OC, OD, S, R, V, U), NEW x, NEW y, NEW w, NEW z,
         x \subseteq WC, y \subseteq WD, w \subseteq WC, z \subseteq WD, x \cap z = {}
  PROVE  Ends(CC, x, y, w, z, OC, OD, S, R, V, U)
BY DEF Ends

\* Readers that are over stay over.
Grows == \A x \in End : Over(x) \subseteq Over(x)'

LEMMA SettledThin ==
  ASSUME Grows, NEW d \in End, Settled(d), InChan(d)' \subseteq InChan(d),
         \A at \in {"data", "shut", "reply"} : InHand(d, at)' \subseteq InHand(d, at),
         \A cmd : /\ Conns(wire'[d], cmd) \subseteq Conns(wire[d], cmd)
                  /\ Conns(out'[Other(d)], cmd) \subseteq Conns(out[Other(d)], cmd),
         Stopped(d)' \subseteq Stopped(d)
  PROVE  Settled(d)'
<1>1. Over(d) \subseteq Over(d)' /\ Over(Other(d)) \subseteq Over(Other(d))'
  BY OtherType DEF Grows
<1> QED BY <1>1, EndsThin DEF Settled

LEMMA HandIdle ==
  ASSUME TypeOK, NEW e \in End, NEW at \in {"select", "down"}, loop' = [loop EXCEPT ![e] = Idle(at)]
  PROVE  \A d \in End, a \in {"data", "shut", "reply"} : InHand(d, a)' \subseteq InHand(d, a)
BY DEF TypeOK, InHand, Idle

LEMMA InChanSame == ASSUME UNCHANGED chan PROVE \A d \in End : InChan(d)' = InChan(d)
BY DEF InChan

LEMMA StoppedSame == ASSUME UNCHANGED writer PROVE \A d \in End : Stopped(d)' = Stopped(d)
BY DEF Stopped

LEMMA HandSame == ASSUME UNCHANGED loop PROVE \A d \in End : \A at : InHand(d, at)' = InHand(d, at)
BY DEF InHand

\* A frame joins the out queue of e: a chunk of a connection whose reader runs,
\* or the CLOSE of one whose reader is over.
LEMMA EndPush ==
  ASSUME TypeOK, EndInv, Grows, NEW e \in End, NEW f \in Frame, Push(e, f),
         UNCHANGED <<chan, wire, writer>>,
         \A d \in End, at \in {"data", "shut", "reply"} : InHand(d, at)' \subseteq InHand(d, at),
         f.cmd = "DATA" => f.conn \notin Over(e),
         f.cmd = "CLOSE" => f.conn \in Over(e)'
  PROVE  EndInv'
<1> DEFINE a == Other(e)
<1>1. a \in End /\ Other(a) = e /\ (\A d \in End : d = a \/ d = e) /\ a # e
  BY DEF Other, End
<1>2. /\ \A d \in End : d # e => out'[d] = out[d]
      /\ \A cmd : Conns(out'[e], cmd) = Conns(out[e], cmd) \cup Of(f, cmd)
  BY QueuePush
<1>3. \A d \in End : InChan(d)' = InChan(d) /\ Stopped(d)' = Stopped(d)
  BY InChanSame, StoppedSame
<1>4. Settled(e)'
  BY <1>1, <1>2, <1>3, SettledThin DEF EndInv
<1>5. Settled(a)'
  <2>1. Settled(a)
    BY <1>1 DEF EndInv
  <2>2. CASE f.cmd = "DATA"
    <3>1. Of(f, "DATA") = {f.conn} /\ Of(f, "CLOSE") = {}
      BY <2>2 DEF Of
    <3>2. Ends(InChan(a), InHand(a, "shut"), InHand(a, "data"), Conns(wire[a], "CLOSE"),
               Conns(wire[a], "DATA"), Conns(out[e], "CLOSE"), Conns(out[e], "DATA") \cup {f.conn},
               Stopped(a), InHand(a, "reply"), Over(a), Over(e))
      <4>1. {f.conn} \cap Over(e) = {}
        BY <2>2
      <4> QED BY <1>1, <2>1, <4>1, EndsMore DEF Settled
    <3>3. Over(a) \subseteq Over(a)' /\ Over(e) \subseteq Over(e)' /\ Other(a)' = e
      BY <1>1 DEF Grows
    <3> HIDE DEF a
    <3>4. /\ Conns(out[e], "CLOSE")' = Conns(out[e], "CLOSE")
          /\ Conns(out[e], "DATA")' = Conns(out[e], "DATA") \cup {f.conn}
          /\ \A cmd : Conns(wire[a], cmd)' = Conns(wire[a], cmd)
          /\ InHand(a, "shut")' \subseteq InHand(a, "shut") /\ InHand(a, "data")' \subseteq InHand(a, "data")
          /\ InHand(a, "reply")' \subseteq InHand(a, "reply")
      BY <1>1, <1>2, <3>1
    <3> QED BY <1>1, <1>3, <3>2, <3>3, <3>4, EndsThin DEF Settled
  <2>3. CASE f.cmd # "DATA"
    <3>1. Of(f, "DATA") = {} /\ Of(f, "CLOSE") \subseteq Over(e)'
      BY <2>3 DEF Of
    <3> DEFINE U == Over(e)'
    <3>2. Ends(InChan(a), InHand(a, "shut"), InHand(a, "data"), Conns(wire[a], "CLOSE"),
               Conns(wire[a], "DATA"), Conns(out[e], "CLOSE"), Conns(out[e], "DATA"),
               Stopped(a), InHand(a, "reply"), Over(a), U)
      <4>1. Over(e) \subseteq U
        BY DEF Grows
      <4> HIDE DEF U
      <4> QED BY <1>1, <2>1, <4>1, EndsThin DEF Settled
    <3>3. Ends(InChan(a), InHand(a, "shut"), InHand(a, "data"), Conns(wire[a], "CLOSE"),
               Conns(wire[a], "DATA"), Conns(out[e], "CLOSE") \cup Of(f, "CLOSE"), Conns(out[e], "DATA"),
               Stopped(a), InHand(a, "reply"), Over(a), U)
      <4> HIDE DEF U
      <4>1. Of(f, "CLOSE") \subseteq U
        BY <3>1 DEF U
      <4> QED BY <3>2, <4>1, EndsMore
    <3>4. Over(a) \subseteq Over(a)' /\ Other(a)' = e
      BY <1>1 DEF Grows
    <3> HIDE DEF a
    <3>5. /\ Conns(out[e], "CLOSE")' = Conns(out[e], "CLOSE") \cup Of(f, "CLOSE")
          /\ Conns(out[e], "DATA")' = Conns(out[e], "DATA")
          /\ \A cmd : Conns(wire[a], cmd)' = Conns(wire[a], cmd)
          /\ InHand(a, "shut")' \subseteq InHand(a, "shut") /\ InHand(a, "data")' \subseteq InHand(a, "data")
          /\ InHand(a, "reply")' \subseteq InHand(a, "reply")
      BY <1>1, <1>2, <3>1
    <3> QED BY <1>1, <1>3, <3>3, <3>4, <3>5, EndsThin DEF Settled
  <2> QED BY <2>2, <2>3
<1>6. Words'
  <2>1. f.cmd = "DATA" => f.conn \notin Conns(out[e], "CLOSE")
    BY <1>1 DEF EndInv, Settled, Ends
  <2>2. out[e] \in Seq(Frame) /\ LastWord(out[e]) /\ out'[e] = Append(out[e], f)
    BY DEF EndInv, Words, TypeOK, Push
  <2>3. LastWord(out'[e])
    BY <2>1, <2>2, WordsAppend
  <2> QED BY <1>2, <2>3 DEF EndInv, Words
<1> QED BY <1>1, <1>4, <1>5, <1>6 DEF EndInv

\* The head of the out queue goes on the wire, or is lost.
LEMMA EndSend ==
  ASSUME TypeOK, EndInv, Grows, NEW e \in End, out[e] # <<>>, out' = [out EXCEPT ![e] = Tail(@)],
         \/ wire' = wire
         \/ wire' = [wire EXCEPT ![Other(e)] = Append(@, Head(out[e]))],
         UNCHANGED <<chan, writer>>,
         \A d \in End, at \in {"data", "shut", "reply"} : InHand(d, at)' \subseteq InHand(d, at)
  PROVE  EndInv'
<1> DEFINE a == Other(e)
           s == out[e]
<1>1. a \in End /\ Other(a) = e /\ (\A d \in End : d = a \/ d = e) /\ a # e
  BY DEF Other, End
<1>2. \A d \in End : InChan(d)' = InChan(d) /\ Stopped(d)' = Stopped(d)
  BY InChanSame, StoppedSame
<1>3. /\ s \in Seq(Frame) /\ s # <<>> /\ out'[e] = Tail(s) /\ Head(s) \in Frame /\ LastWord(s)
      /\ wire[a] \in Seq(Frame) /\ LastWord(wire[a]) /\ out'[a] = out[a] /\ wire'[e] = wire[e]
      /\ wire'[a] = wire[a] \/ wire'[a] = Append(wire[a], Head(s))
  BY <1>1 DEF EndInv, Words, TypeOK
<1>4. /\ LastWord(Tail(s)) /\ Of(Head(s), "CLOSE") \cap Conns(Tail(s), "DATA") = {}
      /\ \A cmd : Conns(Tail(s), cmd) \subseteq Conns(s, cmd) /\ Of(Head(s), cmd) \subseteq Conns(s, cmd)
  BY <1>3, WordsTail, ConnsTail
<1>5. Settled(e)'
  BY <1>1, <1>2, <1>3, SettledThin DEF EndInv
<1>6. Settled(a) /\ Over(a) \subseteq Over(a)' /\ Over(e) \subseteq Over(e)'
  BY <1>1 DEF EndInv, Grows
<1> HIDE DEF a, s
<1>7. CASE wire'[a] = wire[a]
  <2>1. Settled(a)'
    BY <1>1, <1>2, <1>3, <1>4, <1>6, <1>7, SettledThin DEF s
  <2>2. Words'
    BY <1>1, <1>3, <1>4, <1>7 DEF EndInv, Words
  <2> QED BY <1>1, <1>5, <2>1, <2>2 DEF EndInv
<1>8. CASE wire'[a] = Append(wire[a], Head(s))
  <2>1. \A cmd : Conns(wire'[a], cmd) = Conns(wire[a], cmd) \cup Of(Head(s), cmd)
    BY <1>3, <1>8, ConnsAppend
  <2>2. Ends(InChan(a), InHand(a, "shut"), InHand(a, "data"), Conns(wire'[a], "CLOSE"),
             Conns(wire'[a], "DATA"), Conns(Tail(s), "CLOSE"), Conns(Tail(s), "DATA"),
             Stopped(a), InHand(a, "reply"), Over(a), Over(e))
    <3>1. Ends(InChan(a), InHand(a, "shut"), InHand(a, "data"), Conns(wire[a], "CLOSE"),
               Conns(wire[a], "DATA"), Conns(s, "CLOSE"), Conns(s, "DATA"),
               Stopped(a), InHand(a, "reply"), Over(a), Over(e))
      BY <1>1, <1>6 DEF Settled, s
    <3>2. /\ Of(Head(s), "CLOSE") \subseteq Conns(s, "CLOSE")
          /\ Of(Head(s), "DATA") \subseteq Conns(s, "DATA")
          /\ Conns(Tail(s), "CLOSE") \subseteq Conns(s, "CLOSE")
          /\ Conns(Tail(s), "DATA") \subseteq Conns(s, "DATA")
          /\ Of(Head(s), "CLOSE") \cap Conns(Tail(s), "DATA") = {}
      BY <1>4
    <3>3. Ends(InChan(a), InHand(a, "shut"), InHand(a, "data"),
               Conns(wire[a], "CLOSE") \cup Of(Head(s), "CLOSE"),
               Conns(wire[a], "DATA") \cup Of(Head(s), "DATA"),
               Conns(Tail(s), "CLOSE"), Conns(Tail(s), "DATA"),
               Stopped(a), InHand(a, "reply"), Over(a), Over(e))
      BY <3>1, <3>2, EndsSend
    <3> QED BY <2>1, <3>3
  <2>3. /\ InHand(a, "shut")' \subseteq InHand(a, "shut") /\ InHand(a, "data")' \subseteq InHand(a, "data")
        /\ InHand(a, "reply")' \subseteq InHand(a, "reply") /\ Other(a)' = e
        /\ \A cmd : Conns(wire[a], cmd)' = Conns(wire'[a], cmd) /\ Conns(out[e], cmd)' = Conns(Tail(s), cmd)
    BY <1>1, <1>3
  <2>4. Settled(a)'
    BY <1>1, <1>2, <1>3, <1>6, <2>2, <2>3, EndsThin DEF Settled
  <2>5. Head(s).cmd = "DATA" => Head(s).conn \notin Conns(wire[a], "CLOSE")
    BY <1>1, <1>4, <1>6 DEF Settled, Ends, Of, s
  <2>6. LastWord(wire'[a])
    BY <1>3, <1>8, <2>5, WordsAppend
  <2>7. Words'
    BY <1>1, <1>3, <1>4, <2>6 DEF EndInv, Words
  <2> QED BY <1>1, <1>5, <2>4, <2>7 DEF EndInv
<1> QED BY <1>3, <1>7, <1>8

\* The loop takes a frame off the wire, into its hands or to no avail.
LEMMA EndTake ==
  ASSUME TypeOK, EndInv, Grows, NEW e \in End, NEW cmd, Incoming(e, cmd),
         \/ loop' = loop
         \/ \E c : loop' = [loop EXCEPT ![e] = Handling("dial", Head(wire[e]), c)]
         \/ cmd = "DATA" /\ \E c : loop' = [loop EXCEPT ![e] = Handling("data", Head(wire[e]), c)]
         \/ cmd = "CLOSE" /\ \E c : loop' = [loop EXCEPT ![e] = Handling("shut", Head(wire[e]), c)]
  PROVE  EndInv'
<1> DEFINE s == wire[e]
<1>1. /\ s \in Seq(Frame) /\ s # <<>> /\ wire'[e] = Tail(s) /\ LastWord(s) /\ Head(s).cmd = cmd
      /\ UNCHANGED <<chan, writer, out>> /\ \A d \in End : d # e => wire'[d] = wire[d]
      /\ loop[e].at = "select"
  BY DEF Incoming, EndInv, Words, TypeOK, taskVars
<1>2. /\ LastWord(Tail(s)) /\ Of(Head(s), "CLOSE") \cap Conns(Tail(s), "DATA") = {}
      /\ \A x : Conns(Tail(s), x) \subseteq Conns(s, x) /\ Of(Head(s), x) \subseteq Conns(s, x)
  BY <1>1, WordsTail, ConnsTail
<1>3. \A d \in End : InChan(d)' = InChan(d) /\ Stopped(d)' = Stopped(d)
  BY <1>1, InChanSame, StoppedSame
<1>4. \A d \in End : d # e => loop'[d] = loop[d]
  BY DEF TypeOK
<1>5. ASSUME NEW d \in End, d # e PROVE Settled(d)'
  <2>1. \A at \in {"data", "shut", "reply"} : InHand(d, at)' = InHand(d, at)
    BY <1>4, <1>5 DEF InHand
  <2> QED BY <1>1, <1>3, <1>5, <2>1, SettledThin DEF EndInv
<1>6. /\ InHand(e, "data")' \subseteq Of(Head(s), "DATA") /\ InHand(e, "shut")' \subseteq Of(Head(s), "CLOSE")
      /\ InHand(e, "reply")' = {}
  BY <1>1 DEF InHand, Handling, Of, TypeOK
<1> HIDE DEF s
<1>7. Settled(e)'
  <2>1. /\ Settled(e) /\ Other(e) \in End
        /\ Over(e) \subseteq Over(e)' /\ Over(Other(e)) \subseteq Over(Other(e))'
    BY OtherType DEF EndInv, Grows
  <2>2. Ends(InChan(e), Of(Head(s), "CLOSE"), Of(Head(s), "DATA"),
             Conns(Tail(s), "CLOSE"), Conns(Tail(s), "DATA"),
             Conns(out[Other(e)], "CLOSE"), Conns(out[Other(e)], "DATA"),
             Stopped(e), InHand(e, "reply"), Over(e), Over(Other(e)))
    <3>1. Ends(InChan(e), InHand(e, "shut"), InHand(e, "data"), Conns(s, "CLOSE"), Conns(s, "DATA"),
               Conns(out[Other(e)], "CLOSE"), Conns(out[Other(e)], "DATA"),
               Stopped(e), InHand(e, "reply"), Over(e), Over(Other(e)))
      BY <2>1 DEF Settled, s
    <3> QED BY <1>2, <3>1, EndsTake
  <2> QED BY <1>1, <1>3, <1>6, <2>1, <2>2, EndsThin DEF Settled
<1>8. Words'
  BY <1>1, <1>2 DEF EndInv, Words
<1> QED BY <1>5, <1>7, <1>8 DEF EndInv

\* Channels keep what they have or lose some, writers start or go on.
LEMMA EndQuiet ==
  ASSUME EndInv, Grows, UNCHANGED <<out, wire>>,
         \A d \in End, at \in {"data", "shut", "reply"} : InHand(d, at)' \subseteq InHand(d, at),
         \A d \in End, c \in Conn : chan'[d][c] = chan[d][c] \/ chan'[d][c] = <<>>,
         \A d \in End : Stopped(d)' \subseteq Stopped(d)
  PROVE  EndInv'
<1>1. \A d \in End : InChan(d)' \subseteq InChan(d)
  BY ConnsEmpty DEF InChan
<1>2. \A d \in End : Settled(d)'
  BY <1>1, SettledThin DEF EndInv
<1>3. Words'
  BY WordsEmpty DEF EndInv, Words
<1> QED BY <1>2, <1>3 DEF EndInv

LEMMA EndSpawn ==
  ASSUME TypeOK, EndInv, Grows, NEW e \in End, NEW c \in Conn, NEW id, Spawn(e, c, id),
         UNCHANGED <<out, wire>>,
         \A d \in End, at \in {"data", "shut", "reply"} : InHand(d, at)' \subseteq InHand(d, at)
  PROVE  EndInv'
<1>1. \A d \in End, b \in Conn : chan'[d][b] = chan[d][b] \/ chan'[d][b] = <<>>
  BY DEF Spawn, TypeOK
<1>2. \A d \in End, b \in Conn : writer'[d][b] = writer[d][b] \/ writer'[d][b] = "run"
  BY DEF Spawn, TypeOK
<1>3. \A d \in End : Stopped(d)' \subseteq Stopped(d)
  BY <1>2 DEF Stopped
<1> QED BY <1>1, <1>3, EndQuiet

LEMMA EndCut ==
  ASSUME TypeOK, EndInv, Grows, NEW e \in End, Cut(e),
         \A d \in End : out'[d] = out[d] \/ out'[d] = <<>>,
         \A d \in End, at \in {"data", "shut", "reply"} : InHand(d, at)' \subseteq InHand(d, at),
         \A d \in End, c \in Conn : chan'[d][c] = chan[d][c] \/ chan'[d][c] = <<>>,
         \A d \in End : Stopped(d)' \subseteq Stopped(d) \cup Over(d)'
  PROVE  EndInv'
<1>1. \A d \in End : InChan(d)' \subseteq InChan(d)
  BY ConnsEmpty DEF InChan
<1>2. \A d \in End : \A cmd : /\ Conns(wire'[d], cmd) \subseteq Conns(wire[d], cmd)
                              /\ Conns(out'[d], cmd) \subseteq Conns(out[d], cmd)
  BY QueueCut, ConnsEmpty
<1>3. ASSUME NEW d \in End PROVE Settled(d)'
  <2> DEFINE V == Over(d)'
             U == Over(Other(d))'
  <2>1. /\ Over(d) \subseteq V /\ Over(Other(d)) \subseteq U
        /\ Stopped(d)' \subseteq Stopped(d) \cup V /\ Other(d) \in End
    BY OtherType DEF Grows
  <2>2. Settled(d)
    BY DEF EndInv
  <2>3. U = Over(Other(d))'
    OBVIOUS
  <2> HIDE DEF V, U
  <2>4. Ends(InChan(d), InHand(d, "shut"), InHand(d, "data"), Conns(wire[d], "CLOSE"), Conns(wire[d], "DATA"),
             Conns(out[Other(d)], "CLOSE"), Conns(out[Other(d)], "DATA"),
             Stopped(d), InHand(d, "reply"), V, U)
    BY <2>1, <2>2, EndsThin DEF Settled
  <2>5. Ends(InChan(d), InHand(d, "shut"), InHand(d, "data"), Conns(wire[d], "CLOSE"), Conns(wire[d], "DATA"),
             Conns(out[Other(d)], "CLOSE"), Conns(out[Other(d)], "DATA"),
             Stopped(d) \cup V, InHand(d, "reply"), V, U)
    BY <2>4, EndsMore
  <2>6. \A cmd : /\ Conns(wire[d], cmd)' \subseteq Conns(wire[d], cmd)
                 /\ Conns(out[Other(d)], cmd)' \subseteq Conns(out[Other(d)], cmd)
    BY <1>2, <2>1
  <2>7. \A at \in {"data", "shut", "reply"} : InHand(d, at)' \subseteq InHand(d, at)
    OBVIOUS
  <2> QED BY <1>1, <2>1, <2>3, <2>5, <2>6, <2>7, EndsThin DEF Settled, V
<1>4. Words'
  <2>1. PICK k \in 0 .. Len(wire[Other(e)]) :
          wire' = [x \in End |-> IF x = e THEN <<>> ELSE SubSeq(wire[x], 1, k)]
    BY DEF Cut
  <2>2. ASSUME NEW d \in End PROVE LastWord(wire'[d])
    <3>1. CASE d = e
      BY <2>1, <3>1, WordsEmpty
    <3>2. CASE d # e
      <4>1. d = Other(e) /\ wire[d] \in Seq(Frame) /\ wire'[d] = SubSeq(wire[d], 1, k) /\ LastWord(wire[d])
        BY <2>1, <3>2 DEF End, Other, TypeOK, EndInv, Words
      <4> QED BY <2>1, <4>1, WordsPrefix
    <3> QED BY <3>1, <3>2
  <2> QED BY <2>2, WordsEmpty DEF EndInv, Words
<1> QED BY <1>3, <1>4 DEF EndInv

\* The frame in hand goes into the channel of its connection.
LEMMA EndDeliver ==
  ASSUME TypeOK, EndInv, Grows, TaskInv, OwnFrames, NEW e \in End, Deliver(e)
  PROVE  EndInv'
<1> DEFINE c == loop[e].tx
           f == loop[e].frame
           s == chan[e][c]
<1>1. c \in Conn /\ f \in Frame /\ f.conn = c /\ loop[e].at \in {"data", "shut"}
  <2>1. loop[e] \in LoopState /\ loop[e].at \in {"data", "shut"}
    BY DEF Deliver, TypeOK
  <2>2. c \in Conn /\ f \in Frame
    BY <2>1 DEF LoopState
  <2>3. c # NoConn
    BY <2>2, TunnelAssumption
  <2> QED BY <2>1, <2>2, <2>3 DEF OwnFrames
<1>2. f.cmd = (IF loop[e].at = "data" THEN "DATA" ELSE "CLOSE")
  BY <1>1 DEF TaskInv, LoopTask
<1>3. /\ s \in Seq(Frame) /\ chan' = [chan EXCEPT ![e][c] = Append(s, f)]
      /\ loop' = [loop EXCEPT ![e] = Idle("select")]
      /\ UNCHANGED <<writer, out, wire>>
  BY <1>1 DEF Deliver, TypeOK, netVars
<1>4. InHand(e, "shut") = Of(f, "CLOSE") /\ InHand(e, "data") = Of(f, "DATA")
  BY <1>1, <1>2 DEF InHand, Of
<1> HIDE DEF f
<1>5. chan'[e][c] = Append(s, f)
      /\ \A d \in End, b \in Conn : ~(d = e /\ b = c) => chan'[d][b] = chan[d][b]
  BY <1>1, <1>3 DEF TypeOK
<1>6. Conns(chan'[e][c], "CLOSE") = Conns(s, "CLOSE") \cup Of(f, "CLOSE")
  BY <1>1, <1>3, <1>5, ConnsAppend
<1>7. Of(f, "CLOSE") \subseteq {c}
  BY <1>1 DEF Of
<1> HIDE DEF c, s
<1>8. InChan(e)' \subseteq InChan(e) \cup InHand(e, "shut") /\ \A d \in End : d # e => InChan(d)' = InChan(d)
  <2>1. \A b \in Conn : b # c => Conns(chan'[e][b], "CLOSE") = Conns(chan[e][b], "CLOSE")
    BY <1>5
  <2>2. \A d \in End : d # e => InChan(d)' = InChan(d)
    BY <1>5 DEF InChan
  <2> QED BY <1>1, <1>4, <1>6, <2>1, <2>2 DEF InChan, s
<1>9. \A d \in End : Stopped(d)' = Stopped(d)
  BY <1>3, StoppedSame
<1>10. /\ \A d \in End, at \in {"data", "shut", "reply"} : InHand(d, at)' \subseteq InHand(d, at)
       /\ \A at \in {"data", "shut", "reply"} : InHand(e, at)' = {}
  <2>1. \A d \in End, at \in {"data", "shut", "reply"} : InHand(d, at)' \subseteq InHand(d, at)
    BY <1>3, HandIdle
  <2>2. loop'[e].at = "select"
    BY <1>3 DEF TypeOK, Idle
  <2> QED BY <2>1, <2>2 DEF InHand
<1>11. \A d \in End : d # e => Settled(d)'
  BY <1>3, <1>8, <1>9, <1>10, SettledThin DEF EndInv
<1>12. Settled(e)'
  <2>1. Settled(e) /\ Over(e) \subseteq Over(e)' /\ Over(Other(e)) \subseteq Over(Other(e))'
    BY OtherType DEF EndInv, Grows
  <2>2. Ends(InChan(e) \cup InHand(e, "shut"), {}, {}, Conns(wire[e], "CLOSE"), Conns(wire[e], "DATA"),
             Conns(out[Other(e)], "CLOSE"), Conns(out[Other(e)], "DATA"),
             Stopped(e), InHand(e, "reply"), Over(e), Over(Other(e)))
    BY <2>1, EndsMore DEF Settled
  <2>3. InHand(e, "shut")' = {} /\ InHand(e, "data")' = {} /\ InHand(e, "reply")' = {}
    BY <1>10
  <2> QED BY <1>3, <1>8, <1>9, <2>1, <2>2, <2>3, EndsThin DEF Settled
<1>13. Words'
  <2>1. f.cmd = "DATA" => f.conn \notin Conns(s, "CLOSE")
    <3>1. Settled(e)
      BY DEF EndInv
    <3>2. f.cmd = "DATA" => c \in InHand(e, "data")
      BY <1>1, <1>4 DEF Of
    <3> QED BY <1>1, <3>1, <3>2 DEF Settled, Ends, InChan, s
  <2>2. LastWord(s)
    BY <1>1 DEF EndInv, Words, s
  <2>3. LastWord(chan'[e][c])
    BY <1>1, <1>3, <1>5, <2>1, <2>2, WordsAppend
  <2> QED BY <1>3, <1>5, <2>3 DEF EndInv, Words
<1> QED BY <1>11, <1>12, <1>13 DEF EndInv

\* The loop is about to answer CLOSE for a connection whose reader is over.
LEMMA EndReply ==
  ASSUME TypeOK, EndInv, Grows, NEW e \in End, UNCHANGED <<chan, writer, out, wire>>,
         \A d \in End : d # e => loop'[d] = loop[d],
         loop'[e].at = "reply", loop'[e].frame.conn \in Over(e)'
  PROVE  EndInv'
<1>1. \A d \in End : InChan(d)' = InChan(d) /\ Stopped(d)' = Stopped(d)
  BY InChanSame, StoppedSame
<1>2. ASSUME NEW d \in End, d # e PROVE Settled(d)'
  <2>1. \A at \in {"data", "shut", "reply"} : InHand(d, at)' = InHand(d, at)
    BY <1>2 DEF InHand
  <2> QED BY <1>1, <1>2, <2>1, SettledThin DEF EndInv
<1>3. Settled(e)'
  <2> DEFINE V == Over(e)'
             x == loop'[e].frame.conn
  <2>1. Settled(e) /\ Over(e) \subseteq V /\ Over(Other(e)) \subseteq Over(Other(e))'
    BY OtherType DEF EndInv, Grows
  <2>2. InHand(e, "shut")' = {} /\ InHand(e, "data")' = {} /\ InHand(e, "reply")' = {x} /\ {x} \subseteq V
    BY DEF InHand
  <2> HIDE DEF V, x
  <2>3. Ends(InChan(e), InHand(e, "shut"), InHand(e, "data"), Conns(wire[e], "CLOSE"), Conns(wire[e], "DATA"),
             Conns(out[Other(e)], "CLOSE"), Conns(out[Other(e)], "DATA"),
             Stopped(e), InHand(e, "reply"), V, Over(Other(e)))
    BY <2>1, EndsThin DEF Settled
  <2>4. Ends(InChan(e), InHand(e, "shut"), InHand(e, "data"), Conns(wire[e], "CLOSE"), Conns(wire[e], "DATA"),
             Conns(out[Other(e)], "CLOSE"), Conns(out[Other(e)], "DATA"),
             Stopped(e), InHand(e, "reply") \cup {x}, V, Over(Other(e)))
    BY <2>2, <2>3, EndsMore
  <2> QED BY <1>1, <2>1, <2>2, <2>4, EndsThin DEF Settled, V
<1>4. Words'
  BY DEF EndInv, Words
<1> QED BY <1>2, <1>3, <1>4 DEF EndInv

\* A writer takes the CLOSE at the head of its channel and stops.
LEMMA EndStop ==
  ASSUME TypeOK, EndInv, Grows, OwnFrames, NEW e \in End, NEW c \in Conn,
         chan[e][c] # <<>>, Head(chan[e][c]).cmd = "CLOSE", Take(e, c),
         writer' = [writer EXCEPT ![e][c] = "stop"], UNCHANGED <<loop, out, wire>>
  PROVE  EndInv'
<1> DEFINE s == chan[e][c]
<1>1. /\ s \in Seq(Frame) /\ s # <<>> /\ Head(s).conn = c /\ Head(s).cmd = "CLOSE" /\ LastWord(s)
      /\ chan' = [chan EXCEPT ![e][c] = Tail(s)]
  BY DEF TypeOK, OwnFrames, EndInv, Words, Take
<1>2. /\ chan'[e][c] = Tail(s)
      /\ \A d \in End, b \in Conn : ~(d = e /\ b = c) => chan'[d][b] = chan[d][b]
  BY <1>1 DEF TypeOK
<1>3. LastWord(Tail(s)) /\ Conns(Tail(s), "CLOSE") \subseteq Conns(s, "CLOSE") /\ c \in Conns(s, "CLOSE")
  BY <1>1, WordsTail, ConnsTail DEF Of
<1>4. c \in InChan(e)
  BY <1>3 DEF InChan
<1>5. \A d \in End : InChan(d)' \subseteq InChan(d)
  BY <1>2, <1>3 DEF InChan
<1>6. Stopped(e)' \subseteq Stopped(e) \cup {c} /\ \A d \in End : d # e => Stopped(d)' = Stopped(d)
  BY DEF Stopped, TypeOK
<1>7. \A d \in End : \A at : InHand(d, at)' = InHand(d, at)
  BY HandSame
<1> HIDE DEF s
<1>8. \A d \in End : d # e => Settled(d)'
  BY <1>5, <1>6, <1>7, SettledThin DEF EndInv
<1>9. Settled(e)'
  <2>1. Settled(e) /\ Over(e) \subseteq Over(e)' /\ Over(Other(e)) \subseteq Over(Other(e))'
    BY OtherType DEF EndInv, Grows
  <2>2. Ends(InChan(e), InHand(e, "shut"), InHand(e, "data"), Conns(wire[e], "CLOSE"), Conns(wire[e], "DATA"),
             Conns(out[Other(e)], "CLOSE"), Conns(out[Other(e)], "DATA"),
             Stopped(e) \cup {c}, InHand(e, "reply"), Over(e), Over(Other(e)))
    BY <1>4, <2>1, EndsMore DEF Settled
  <2> QED BY <1>5, <1>6, <1>7, <2>1, <2>2, EndsThin DEF Settled
<1>10. Words'
  BY <1>2, <1>3 DEF EndInv, Words
<1> QED BY <1>8, <1>9, <1>10 DEF EndInv

LEMMA EndStep ==
  ASSUME Fragile = {}, IInv, RouteInv, TaskInv, Once, EndInv, OneStart, Grows, [Next]_vars
  PROVE  EndInv'
<1> USE DEF acceptVars, taskVars, netVars
<1>0. TagInv /\ TypeOK /\ OwnFrames
  BY DEF IInv, TagInv, RouteInv
<1>e. "home" \in End /\ "gate" \in End /\ \A d \in End : d = "home" \/ d = "gate"
  BY DEF End
<1>a. ASSUME UNCHANGED <<chan, writer, out, wire>>,
             \A d \in End, at \in {"data", "shut", "reply"} : InHand(d, at)' \subseteq InHand(d, at)
      PROVE  EndInv'
  BY <1>a, StoppedSame, EndQuiet
<1>b. ASSUME UNCHANGED <<chan, writer, out, wire, loop>> PROVE EndInv'
  BY <1>a, <1>b, HandSame
<1>c. ASSUME UNCHANGED loop
      PROVE  \A d \in End, at \in {"data", "shut", "reply"} : InHand(d, at)' \subseteq InHand(d, at)
  BY <1>c, HandSame
<1>1. CASE SendOpen
  <2> DEFINE c == acceptor.conn
             f == MkFrame("OPEN", connId[c], c, 0)
  <2>1. c \in Conn /\ Push("home", f) /\ UNCHANGED <<chan, wire, writer, loop>>
    BY <1>0, <1>1 DEF SendOpen, TypeOK, AcceptorState
  <2>2. f \in Frame /\ f.cmd = "OPEN"
    BY <1>0, <2>1, FrameType DEF TypeOK, MkFrame
  <2> HIDE DEF f
  <2> QED BY <1>0, <1>c, <1>e, <2>1, <2>2, EndPush
<1>2. CASE SpawnLocal
  <2>1. acceptor.conn \in Conn /\ Spawn("home", acceptor.conn, connId[acceptor.conn])
        /\ UNCHANGED <<out, wire, loop>>
    BY <1>0, <1>2 DEF SpawnLocal, TypeOK, AcceptorState
  <2> QED BY <1>0, <1>c, <1>e, <2>1, EndSpawn
<1>3. CASE Dialed
  <2>1. loop["gate"].frame \in Frame
    BY <1>0, <1>3, <1>e, BusyFrame, TaggedFrame DEF Dialed
  <2>2. /\ loop["gate"].frame.conn \in Conn /\ UNCHANGED <<out, wire>>
        /\ Spawn("gate", loop["gate"].frame.conn, loop["gate"].frame.id)
        /\ loop' = [loop EXCEPT !["gate"] = Idle("select")]
    BY <1>3, <2>1 DEF Dialed, Frame
  <2>3. \A d \in End, at \in {"data", "shut", "reply"} : InHand(d, at)' \subseteq InHand(d, at)
    BY <1>0, <1>e, <2>2, HandIdle
  <2> QED BY <1>0, <1>e, <2>2, <2>3, EndSpawn
<1>4. CASE DialFailed
  <2> DEFINE c == loop["gate"].frame.conn
  <2>1. /\ loop["gate"].at = "dial" /\ loop["gate"] \in LoopState
        /\ loop' = [loop EXCEPT !["gate"].at = "reply"]
        /\ UNCHANGED <<chan, writer, reader, out, wire, acceptVars>>
    BY <1>0, <1>4, <1>e DEF DialFailed, TypeOK
  <2>2. loop'["gate"].at = "reply" /\ loop'["gate"].frame.conn = c
        /\ \A d \in End : d # "gate" => loop'[d] = loop[d]
    BY <1>0, <1>e, <2>1 DEF TypeOK, LoopState
  <2>3. c \in InHand("gate", "dial") /\ c \in Conn \ Unseen /\ c \in Awaited
    BY <1>0, <2>1, AwaitedConn DEF InHand, Awaited
  <2>4. reader["gate"][c] = "none" /\ c \notin Queued
    BY <2>3 DEF Once
  <2>5. Awaited' = Queued /\ Unseen' = Unseen
    BY <2>1, <2>2 DEF Awaited, InHand, Queued, Unseen
  <2> HIDE DEF c
  <2>6. c \in Over("gate")'
    BY <2>1, <2>3, <2>4, <2>5 DEF Over
  <2> QED BY <1>0, <1>e, <2>1, <2>2, <2>6, EndReply
<1>5. CASE RecvOpen
  BY <1>0, <1>5, <1>e, EndTake DEF RecvOpen
<1>6. ASSUME NEW e \in End, RecvData(e) \/ RecvClose(e) \/ RecvUnknown(e) PROVE EndInv'
  <2>1. CASE RecvData(e)
    <3>1. Incoming(e, "DATA") /\ \E c : loop' = [loop EXCEPT ![e] = Handling("data", Head(wire[e]), c)]
      BY <2>1 DEF RecvData, RecvRouted
    <3> QED BY <1>0, <3>1, EndTake
  <2>2. CASE RecvClose(e)
    <3>1. Incoming(e, "CLOSE") /\ \E c : loop' = [loop EXCEPT ![e] = Handling("shut", Head(wire[e]), c)]
      BY <2>2 DEF RecvClose, RecvRouted
    <3> QED BY <1>0, <3>1, EndTake
  <2>3. CASE RecvUnknown(e)
    BY <1>0, <2>3, EndTake DEF RecvUnknown
  <2> QED BY <1>6, <2>1, <2>2, <2>3
<1>7. ASSUME NEW e \in End, Reply(e) PROVE EndInv'
  <2> DEFINE f == MkFrame("CLOSE", loop[e].frame.id, loop[e].frame.conn, 0)
  <2>1. loop[e].frame \in Frame
    BY <1>0, <1>7, BusyFrame, TaggedFrame DEF Reply
  <2>2. f \in Frame /\ f.cmd = "CLOSE" /\ f.conn = loop[e].frame.conn
    BY <2>1, FrameType DEF Frame, MkFrame
  <2>3. loop[e].frame.conn \in Over(e)
    <3>1. loop[e].frame.conn \in InHand(e, "reply") /\ Settled(e)
      BY <1>7 DEF Reply, InHand, EndInv
    <3> QED BY <3>1 DEF Settled, Ends
  <2>4. /\ Push(e, f) /\ UNCHANGED <<chan, wire, writer>>
        /\ \A d \in End, at \in {"data", "shut", "reply"} : InHand(d, at)' \subseteq InHand(d, at)
    BY <1>0, <1>7, HandIdle DEF Reply
  <2> HIDE DEF f
  <2>5. f.conn \in Over(e)'
    BY <2>2, <2>3 DEF Grows
  <2> QED BY <1>0, <2>2, <2>4, <2>5, EndPush
<1>8. ASSUME NEW e \in End, SendFrame(e) \/ LoseFrame(e) PROVE EndInv'
  <2>1. \A d \in End, at \in {"data", "shut", "reply"} : InHand(d, at)' \subseteq InHand(d, at)
    BY <1>0, <1>8, <1>c, HandIdle DEF SendFrame, LoseFrame
  <2>2. /\ out[e] # <<>> /\ out' = [out EXCEPT ![e] = Tail(@)] /\ UNCHANGED <<chan, writer>>
        /\ \/ wire' = wire
           \/ wire' = [wire EXCEPT ![Other(e)] = Append(@, Head(out[e]))]
    BY <1>8 DEF SendFrame, LoseFrame
  <2> QED BY <1>0, <2>1, <2>2, EndSend
<1>9. ASSUME NEW e \in End, Connect(e) \/ NoticeDrop(e) \/ DeliverShutdownFailed(e) PROVE EndInv'
  <2>1. \A d \in End, at \in {"data", "shut", "reply"} : InHand(d, at)' \subseteq InHand(d, at)
    BY <1>0, <1>9, HandIdle DEF Connect, NoticeDrop, DeliverShutdownFailed
  <2>2. UNCHANGED <<chan, writer, out, wire>>
    BY <1>9 DEF Connect, NoticeDrop, DeliverShutdownFailed
  <2> QED BY <1>a, <2>1, <2>2
<1>10. ASSUME NEW e \in End, Deliver(e) PROVE EndInv'
  BY <1>0, <1>10, EndDeliver
<1>11. ASSUME NEW e \in End, DeliverDataFailed(e) PROVE EndInv'
  <2> DEFINE c == loop[e].frame.conn
  <2>1. /\ loop[e].at = "data" /\ writer[e][loop[e].tx] = "done"
        /\ loop' = [loop EXCEPT ![e] = Handling("reply", loop[e].frame, NoConn)]
        /\ UNCHANGED <<chan, writer, out, wire>>
    BY <1>11 DEF DeliverDataFailed
  <2>2. loop[e].tx = c /\ c \in Conn
    <3>1. loop[e].tx \in Conn
      BY <1>0, <2>1 DEF TypeOK, LoopState
    <3>2. loop[e].tx # NoConn
      BY <3>1, TunnelAssumption
    <3> QED BY <1>0, <3>1, <3>2 DEF OwnFrames
  <2>3. c \in Stopped(e) /\ c \in InHand(e, "data") /\ Settled(e)
    BY <2>1, <2>2 DEF Stopped, InHand, EndInv
  <2>4. c \in Over(e)
    BY <2>3 DEF Settled, Ends
  <2>5. loop'[e].at = "reply" /\ loop'[e].frame.conn = c /\ \A d \in End : d # e => loop'[d] = loop[d]
    BY <1>0, <2>1 DEF TypeOK, Handling
  <2> HIDE DEF c
  <2>6. c \in Over(e)'
    BY <2>4 DEF Grows
  <2> QED BY <1>0, <2>1, <2>5, <2>6, EndReply
<1>12. ASSUME NEW e \in End, DropLink(e) PROVE EndInv'
  <2>1. UNCHANGED <<chan, writer, out, loop>> /\ Cut(e)
    BY <1>12 DEF DropLink
  <2>2. \A d \in End : Stopped(d)' = Stopped(d)
    BY <2>1, StoppedSame
  <2> QED BY <1>0, <1>c, <2>1, <2>2, EndCut
<1>13. ASSUME NEW e \in End, Kill(e) PROVE EndInv'
  <2>1. \A d \in End : out'[d] = out[d] \/ out'[d] = <<>>
    BY <1>0, <1>13 DEF Kill, TypeOK
  <2>2. \A d \in End, c \in Conn : chan'[d][c] = chan[d][c] \/ chan'[d][c] = <<>>
    BY <1>0, <1>13 DEF Kill, TypeOK
  <2>3. \A d \in End, at \in {"data", "shut", "reply"} : InHand(d, at)' \subseteq InHand(d, at)
    BY <1>0, <1>13, HandIdle DEF Kill
  <2>4. ASSUME NEW d \in End PROVE Stopped(d)' \subseteq Stopped(d) \cup Over(d)'
    <3>1. CASE d = e
      <4>1. \A c \in Conn : writer'[e][c] \in {"stop", "done"} => reader'[e][c] = "done"
        <5> SUFFICES ASSUME NEW c \in Conn, writer'[e][c] \in {"stop", "done"} PROVE reader'[e][c] = "done"
          OBVIOUS
        <5>1. writer[e][c] # "none"
          BY <1>0, <1>13 DEF Kill, TypeOK
        <5>2. reader[e][c] # "none"
          BY <5>1 DEF TaskInv, ConnTask
        <5> QED BY <1>0, <1>13, <5>2 DEF Kill, TypeOK
      <4> QED BY <3>1, <4>1 DEF Stopped, Over
    <3>2. CASE d # e
      <4>1. writer'[d] = writer[d]
        BY <1>0, <1>13, <3>2 DEF Kill, TypeOK
      <4> QED BY <4>1 DEF Stopped
    <3> QED BY <3>1, <3>2
  <2>5. Cut(e)
    BY <1>13 DEF Kill
  <2> QED BY <1>0, <2>1, <2>2, <2>3, <2>4, <2>5, EndCut
<1>14. ASSUME NEW e \in End, NEW c \in Conn, ReadChunk(e, c) PROVE EndInv'
  <2> DEFINE f == MkFrame("DATA", connId[c], c, sent[e][c] + 1)
  <2>1. f \in Frame /\ f.cmd = "DATA" /\ f.conn = c
    BY <1>0, FrameType DEF TypeOK, MkFrame
  <2>2. Push(e, f) /\ UNCHANGED <<chan, wire, writer, loop>> /\ reader[e][c] = "open"
    BY <1>14 DEF ReadChunk
  <2> HIDE DEF f
  <2>3. c \notin Over(e)
    BY <2>2, OverReader
  <2> QED BY <1>0, <1>c, <2>1, <2>2, <2>3, EndPush
<1>15. ASSUME NEW e \in End, NEW c \in Conn, ReadEnd(e, c) PROVE EndInv'
  <2> DEFINE f == MkFrame("CLOSE", connId[c], c, 0)
  <2>1. f \in Frame /\ f.cmd = "CLOSE" /\ f.conn = c
    BY <1>0, FrameType DEF TypeOK, MkFrame
  <2>2. Push(e, f) /\ UNCHANGED <<chan, wire, writer, loop>> /\ reader' = [reader EXCEPT ![e][c] = "done"]
    BY <1>15 DEF ReadEnd
  <2> HIDE DEF f
  <2>3. reader'[e][c] = "done"
    BY <1>0, <2>2 DEF TypeOK
  <2>4. c \in Over(e)'
    BY <2>3 DEF Over
  <2> QED BY <1>0, <1>c, <2>1, <2>2, <2>4, EndPush
<1>16. ASSUME NEW e \in End, NEW c \in Conn, WriteChunk(e, c) PROVE EndInv'
  <2> DEFINE s == chan[e][c]
  <2>1. /\ s \in Seq(Frame) /\ s # <<>> /\ LastWord(s) /\ chan' = [chan EXCEPT ![e][c] = Tail(s)]
        /\ UNCHANGED <<writer, out, wire, loop>>
    BY <1>0, <1>16 DEF WriteChunk, NextIs, Take, TypeOK, EndInv, Words
  <2>2. LastWord(Tail(s)) /\ Conns(Tail(s), "CLOSE") \subseteq Conns(s, "CLOSE")
    BY <2>1, WordsTail, ConnsTail
  <2>3. chan'[e][c] = Tail(s) /\ \A d \in End, b \in Conn : ~(d = e /\ b = c) => chan'[d][b] = chan[d][b]
    BY <1>0, <2>1 DEF TypeOK
  <2>4. \A d \in End : InChan(d)' \subseteq InChan(d)
    BY <2>2, <2>3 DEF InChan
  <2>5. \A d \in End : Settled(d)'
    BY <1>c, <2>1, <2>4, StoppedSame, SettledThin DEF EndInv
  <2>6. Words'
    BY <2>1, <2>2, <2>3 DEF EndInv, Words
  <2> QED BY <2>5, <2>6 DEF EndInv
<1>17. ASSUME NEW e \in End, NEW c \in Conn, WriterBreak(e, c) PROVE EndInv'
  <2>1. /\ chan[e][c] # <<>> /\ Head(chan[e][c]).cmd = "CLOSE" /\ Take(e, c)
        /\ writer' = [writer EXCEPT ![e][c] = "stop"] /\ UNCHANGED <<loop, out, wire>>
    BY <1>17 DEF WriterBreak, NextIs
  <2> QED BY <1>0, <2>1, EndStop
<1>18. ASSUME NEW e \in End, NEW c \in Conn, WriterOrphaned(e, c) PROVE FALSE
  BY <1>18 DEF WriterOrphaned, HasSender, RouteInv, RunningIsRouted
<1>19. ASSUME NEW e \in End, NEW c \in Conn, WriterExit(e, c) PROVE EndInv'
  <2>1. /\ writer[e][c] = "stop" /\ writer' = [writer EXCEPT ![e][c] = "done"]
        /\ chan' = [chan EXCEPT ![e][c] = <<>>] /\ UNCHANGED <<out, wire, loop>>
    BY <1>19 DEF WriterExit
  <2>2. \A d \in End, b \in Conn : chan'[d][b] = chan[d][b] \/ chan'[d][b] = <<>>
    BY <1>0, <2>1 DEF TypeOK
  <2>3. \A d \in End : Stopped(d)' \subseteq Stopped(d)
    BY <1>0, <2>1 DEF Stopped, TypeOK
  <2> QED BY <1>c, <2>1, <2>2, <2>3, EndQuiet
<1>20. CASE UNCHANGED vars
  BY <1>b, <1>20 DEF vars
<1>21. CASE Acceptor
  BY <1>b, <1>1, <1>2, <1>21 DEF Acceptor, AcceptAlloc, AcceptFull
<1>22. ASSUME NEW e \in End, Session(e) PROVE EndInv'
  BY <1>6, <1>7, <1>8, <1>9, <1>10, <1>11, <1>22 DEF Session
<1>23. ASSUME NEW e \in End, NEW c \in Conn, Reader(e, c) \/ Writer(e, c) PROVE EndInv'
  BY <1>14, <1>15, <1>16, <1>17, <1>18, <1>19, <1>23 DEF Reader, Writer
<1> QED BY <1>3, <1>4, <1>5, <1>12, <1>13, <1>20, <1>21, <1>22, <1>23 DEF Next, Gate, Fault

\* README.md:69, tcp.rs:560-566: a writer is told to shut down only when the
\* reader whose bytes it writes has ended, on sockets that take every write
\* and while ids are not reused, whatever links fail and processes restart.
THEOREM HalfCloseHonored ==
  ASSUME Fragile = {}
  PROVE  /\ Spec /\ []IdsApart => []HalfClose
         /\ ReadySpec /\ []IdsApart => []HalfClose
<1> DEFINE I == LeadsInv /\ RouteInv /\ TaskInv /\ Once /\ EndInv
<1>1. (Init \/ InitReady) => I
  <2>1. ASSUME NEW up \in BOOLEAN, InitLinks(up) PROVE I
    <3>1. LeadsInv
      BY <2>1, LeadsEmpty DEF InitLinks, LeadsInv, End
    <3> QED BY <2>1, <3>1, RouteInit, TaskInit, EndInit
  <2> QED BY <2>1 DEF Init, InitReady
<1>2. IInv /\ IdsApart /\ I /\ [Next]_vars => I'
  <2> SUFFICES ASSUME IInv, IdsApart, I, [Next]_vars PROVE I'
    OBVIOUS
  <2>1. TagInv /\ EntriesLive
    BY DEF IInv
  <2>2. LeadsInv' /\ RouteInv' /\ TaskInv' /\ Once' /\ OneStart
    BY <2>1, LeadsStep, RouteStep, TaskStep, OnceStep
  <2>3. Grows
    BY <2>1, <2>2, UnseenStep, OverStep DEF Grows
  <2> QED BY <2>2, <2>3, EndStep
<1>3. IInv /\ I => HalfClose
  <2> SUFFICES ASSUME IInv, I, NEW e \in End, NEW c \in Conn, NEW k \in DOMAIN chan[e][c],
                      chan[e][c][k].cmd = "CLOSE"
               PROVE  reader[Other(e)][c] # "open"
    BY DEF HalfClose
  <2>1. chan[e][c][k].conn = c
    BY DEF RouteInv, OwnFrames
  <2>2. c \in InChan(e)
    BY <2>1 DEF InChan, Conns
  <2>3. c \in Over(Other(e))
    BY <2>2 DEF EndInv, Settled, Ends
  <2> QED BY <2>3, OverReader, OtherType
<1> QED BY <1>1, <1>2, <1>3, IInvInvariant, PTL DEF Spec, ReadySpec

-----------------------------------------------------------------------------
(* Without failures nothing is lost but what a connection that ended, or   *)
(* that its acceptor has not registered yet, is sent.                      *)

\* Neither link fails and neither process is restarted.
Calm == MaxDrops = 0 /\ MaxKills = 0
Steady == \A e \in End : link[e] = TRUE /\ loop[e].at # "down"

\* The chunks of c on their way to the socket at e: in the channel of a writer
\* that runs, in the loop's hands, on the wire, in the other end's out queue.
Held(e, c) == IF writer[e][c] = "run" THEN Nums(chan[e][c], c) ELSE {}
Hand(e, c) == IF loop[e].at = "data" THEN One(loop[e].frame, c) ELSE {}
Flying(e, c) == Held(e, c) \cup Hand(e, c) \cup Nums(wire[e], c) \cup Nums(out[Other(e)], c)

\* After one of them come all that follow; every chunk after l is one of them.
Up(F, n)      == \A a \in F, x \in Nat : a <= x /\ x <= n => x \in F
Full(l, F, n) == \A x \in Nat : l < x /\ x <= n => x \in F

\* The writer is owed every chunk from now on.
Due(e, c) == \/ writer[e][c] = "run" /\ (e = "gate" \/ got[e][c] # <<>>)
             \/ e = "gate" /\ c \in Awaited

Fill(e, c) == /\ Up(Flying(e, c), sent[Other(e)][c])
              /\ Due(e, c) => Full(Last(e, c), Flying(e, c), sent[Other(e)][c])

\* Nothing is read or written before the tasks run.
Silent == /\ \A e \in End, c \in Conn : writer[e][c] = "none" => got[e][c] = <<>>
          /\ \A c \in Conn : reader["home"][c] = "none" => sent["home"][c] = 0

FillInv == Silent /\ NoGap /\ \A e \in End, c \in Conn : Fill(e, c)

LEMMA FillInit == ASSUME InitLinks(TRUE) PROVE Steady /\ FillInv
<1>1. Steady
  BY DEF InitLinks, Steady, Idle
<1>2. Silent
  BY DEF InitLinks, Silent, End
<1>4. NoGap
  <2>1. \A e \in End, c \in Conn : got[e][c] = <<>>
    BY DEF InitLinks
  <2> QED BY <2>1 DEF NoGap
<1>3. ASSUME NEW e \in End, NEW c \in Conn PROVE Fill(e, c)
  <2>1. sent[Other(e)][c] = 0 /\ Last(e, c) = 0 /\ writer[e][c] = "none"
    BY OtherType DEF InitLinks, Last, Streams!LastGot
  <2>2. Flying(e, c) = {}
    BY <2>1, NumsEmpty, OtherType DEF InitLinks, Flying, Held, Hand, Idle
  <2> QED BY <2>1, <2>2 DEF Fill, Up, Full
<1> QED BY <1>1, <1>2, <1>3, <1>4 DEF FillInv

LEMMA SteadyStep == ASSUME Calm, TypeOK, Steady, [Next]_vars PROVE Steady'
<1> USE DEF acceptVars, taskVars, netVars
<1>1. ASSUME NEW e \in End, NEW l, loop' = [loop EXCEPT ![e] = l], l.at # "down", UNCHANGED link
      PROVE  Steady'
  BY <1>1 DEF Steady, TypeOK
<1>2. ASSUME UNCHANGED <<loop, link>> PROVE Steady'
  BY <1>2 DEF Steady
<1>3. Idle("select").at = "select" /\ \A at, f, c : Handling(at, f, c).at = at
  BY DEF Idle, Handling
<1>4. CASE Gate
  <2>1. CASE RecvOpen
    <3>1. /\ "gate" \in End /\ link' = link
          /\ loop' = [loop EXCEPT !["gate"] = Handling("dial", Head(wire["gate"]), NoConn)]
      BY <2>1 DEF RecvOpen, Incoming, End
    <3> QED BY <1>1, <1>3, <3>1
  <2>2. CASE Dialed
    BY <1>1, <1>3, <2>2 DEF Dialed, End
  <2>3. CASE DialFailed
    <3>1. loop'["gate"].at = "reply" /\ (\A e \in End : e # "gate" => loop'[e] = loop[e]) /\ link' = link
      BY <2>3 DEF DialFailed, TypeOK, LoopState, End
    <3> QED BY <3>1 DEF Steady
  <2> QED BY <1>4, <2>1, <2>2, <2>3 DEF Gate
<1>5. ASSUME NEW e \in End, Session(e) PROVE Steady'
  <2>1. ~Connect(e) /\ ~LoseFrame(e) /\ ~NoticeDrop(e)
    BY DEF Steady, Connect, LoseFrame, NoticeDrop
  <2>2. CASE SendFrame(e) \/ RecvUnknown(e)
    BY <1>2, <2>2 DEF SendFrame, RecvUnknown, Incoming
  <2>3. CASE RecvData(e) \/ RecvClose(e)
    BY <1>1, <1>3, <2>3 DEF RecvData, RecvClose, RecvRouted, Incoming
  <2>4. CASE Reply(e) \/ Deliver(e) \/ DeliverDataFailed(e) \/ DeliverShutdownFailed(e)
    BY <1>1, <1>3, <2>4 DEF Reply, Deliver, DeliverDataFailed, DeliverShutdownFailed
  <2> QED BY <1>5, <2>1, <2>2, <2>3, <2>4 DEF Session
<1>6. ASSUME NEW e \in End PROVE ~Fault(e)
  BY DEF Calm, Fault, DropLink, Kill, TypeOK
<1>7. CASE UNCHANGED vars
  BY <1>2, <1>7 DEF vars
<1>8. CASE Acceptor
  BY <1>2, <1>8 DEF Acceptor, AcceptAlloc, AcceptFull, SendOpen, SpawnLocal
<1>9. ASSUME NEW e \in End, NEW c \in Conn, Reader(e, c) \/ Writer(e, c) PROVE Steady'
  BY <1>2, <1>9 DEF Reader, ReadChunk, ReadEnd, Writer, WriteChunk, WriterBreak, WriterOrphaned, WriterExit
<1> QED BY <1>4, <1>5, <1>6, <1>7, <1>8, <1>9 DEF Next

LEMMA NumsHead ==
  ASSUME NEW s \in Seq(Frame), s # <<>>
  PROVE  \A c : Nums(s, c) = One(Head(s), c) \cup Nums(Tail(s), c)
<1> SUFFICES ASSUME NEW c PROVE Nums(s, c) \subseteq One(Head(s), c) \cup Nums(Tail(s), c)
  BY NumsTail
<1> SUFFICES ASSUME NEW k \in DOMAIN s, s[k].cmd = "DATA", s[k].conn = c
             PROVE  s[k].n \in One(Head(s), c) \cup Nums(Tail(s), c)
  BY DEF Nums
<1>1. CASE k = 1
  BY <1>1 DEF One
<1>2. CASE k # 1
  <2>1. k - 1 \in DOMAIN Tail(s) /\ Tail(s)[k - 1] = s[k]
    BY <1>2
  <2> QED BY <2>1 DEF Nums
<1> QED BY <1>1, <1>2

LEMMA NumsConns ==
  ASSUME NEW s, NEW c PROVE c \notin Conns(s, "DATA") => Nums(s, c) = {}
BY DEF Conns, Nums

LEMMA FlyingChain ==
  ASSUME NEW e \in End, NEW c \in Conn, Flow(e, c)
  PROVE  Chain(Last(e, c), Held(e, c), Hand(e, c), Nums(wire[e], c), Nums(out[Other(e)], c),
               sent[Other(e)][c])
<1>1. Held(e, c) \subseteq Nums(chan[e][c], c) /\ Hand(e, c) \subseteq One(loop[e].frame, c)
  BY DEF Held, Hand
<1> QED BY <1>1, ChainThin DEF Flow

\* What flies stays, and nobody is newly owed what was sent.
LEMMA FillSame ==
  ASSUME NEW e \in End, NEW c \in Conn, Fill(e, c), Flow(e, c), Flying(e, c)' = Flying(e, c),
         got'[e][c] = got[e][c], sent'[Other(e)][c] = sent[Other(e)][c],
         Due(e, c)' => Due(e, c) \/ sent[Other(e)][c] = 0
  PROVE  Fill(e, c)'
<1>1. Last(e, c)' = Last(e, c)
  BY DEF Last, Streams!LastGot
<1>2. sent[Other(e)][c] = 0 => Full(Last(e, c), Flying(e, c), sent[Other(e)][c])
  BY DEF Flow, Chain, Full
<1> QED BY <1>1, <1>2 DEF Fill

\* The first of what flies is lost to one that is owed nothing.
LEMMA UpDrop ==
  ASSUME NEW F, NEW n, NEW G, F \subseteq Nat, Up(F, n), G \subseteq F, Below(F \ G, G)
  PROVE  Up(G, n)
<1> SUFFICES ASSUME NEW a \in G, NEW x \in Nat, a <= x, x <= n, x \notin G PROVE FALSE
  BY DEF Up
<1>1. x \in F
  BY DEF Up
<1>2. x < a /\ a \in Nat
  BY <1>1 DEF Below
<1> QED BY <1>2

LEMMA FillDrop ==
  ASSUME NEW e \in End, NEW c \in Conn, Fill(e, c), Flow(e, c), Flying(e, c)' \subseteq Flying(e, c),
         \A x \in Flying(e, c) : x \in Flying(e, c)' \/ \A y \in Flying(e, c)' : x < y,
         sent'[Other(e)][c] = sent[Other(e)][c], ~Due(e, c)'
  PROVE  Fill(e, c)'
<1> DEFINE G == Flying(e, c)'
<1>1. Flying(e, c) \subseteq Nat
  BY FlyingChain DEF Chain, Flying
<1>2. G \subseteq Flying(e, c) /\ Below(Flying(e, c) \ G, G) /\ Up(Flying(e, c), sent[Other(e)][c])
  BY DEF Below, Fill
<1>3. Up(G, sent[Other(e)][c])
  <2> HIDE DEF G
  <2> QED BY <1>1, <1>2, UpDrop
<1> QED BY <1>3 DEF Fill

-----------------------------------------------------------------------------
\* A writer is newly owed only what comes after it was announced.
LEMMA OwedKept ==
  ASSUME TagInv, OneStart, Silent, NEW e \in End, NEW c \in Conn, got'[e][c] = got[e][c],
         writer'[e][c] = "run" => \/ writer[e][c] = "run"
                                  \/ writer[e][c] = "none" /\ (e = "gate" => c \in Awaited)
  PROVE  Due(e, c)' => Due(e, c) \/ sent[Other(e)][c] = 0
<1> SUFFICES ASSUME Due(e, c)' PROVE Due(e, c) \/ sent[Other(e)][c] = 0
  OBVIOUS
<1>1. CASE writer'[e][c] = "run" /\ (e = "gate" \/ got'[e][c] # <<>>)
  BY <1>1 DEF Due, Silent
<1>2. CASE e = "gate" /\ c \in Awaited'
  <2>1. c \in Awaited \/ c \in Unseen
    BY <1>2 DEF OneStart
  <2>2. c \in Unseen => reader["home"][c] = "none"
    BY DEF TagInv, UnseenIdle, End
  <2> QED BY <1>2, <2>1, <2>2 DEF Due, Silent, Other
<1> QED BY <1>1, <1>2 DEF Due

\* A writer that stops, or has stopped, is owed nothing.
LEMMA NotOwed ==
  ASSUME TagInv, TaskInv, Once, OneStart, NEW e \in End, NEW c \in Conn,
         writer[e][c] # "none", writer'[e][c] # "run"
  PROVE  ~Due(e, c)'
<1> SUFFICES ASSUME e = "gate" PROVE c \notin Awaited'
  BY DEF Due
<1>1. c \notin Unseen
  BY SeenByTask
<1>2. reader["gate"][c] # "none"
  BY DEF TaskInv, ConnTask
<1>3. c \notin Awaited
  BY <1>2 DEF Once
<1> QED BY <1>1, <1>3 DEF OneStart

LEMMA HandQuiet ==
  ASSUME TypeOK, NEW e \in End, NEW l, loop' = [loop EXCEPT ![e] = l],
         loop[e].at # "data", l.at # "data"
  PROVE  \A d \in End, c \in Conn : Hand(d, c)' = Hand(d, c)
BY DEF TypeOK, Hand

LEMMA PushQuiet ==
  ASSUME TypeOK, NEW e \in End, NEW f \in Frame, Push(e, f), f.cmd # "DATA"
  PROVE  \A d \in End, c \in Conn : Nums(out[d], c)' = Nums(out[d], c)
<1>1. out[e] \in Seq(Frame) /\ \A c : One(f, c) = {}
  BY DEF TypeOK, One
<1>2. \A c : Nums(Append(out[e], f), c) = Nums(out[e], c)
  <2>1. \A c : Nums(Append(out[e], f), c) = Nums(out[e], c) \cup One(f, c)
    BY <1>1, NumsAppend
  <2> QED BY <1>1, <2>1
<1>3. out'[e] = Append(out[e], f) /\ \A d \in End \ {e} : out'[d] = out[d]
  BY DEF Push, TypeOK
<1> QED BY <1>2, <1>3

\* Steps that move no chunk.
LEMMA FillQuiet ==
  ASSUME TagInv, OneStart, FlowInv, FillInv, UNCHANGED <<sent, got>>,
         \A d \in End, b \in Conn :
           /\ Held(d, b)' \cup Hand(d, b)' \cup Nums(wire[d], b)' \cup Nums(out[Other(d)], b)'
                = Held(d, b) \cup Hand(d, b) \cup Nums(wire[d], b) \cup Nums(out[Other(d)], b)
           /\ writer'[d][b] = "run" => \/ writer[d][b] = "run"
                                       \/ writer[d][b] = "none" /\ (d = "gate" => b \in Awaited)
  PROVE  \A d \in End, b \in Conn : Fill(d, b)'
<1> SUFFICES ASSUME NEW d \in End, NEW b \in Conn PROVE Fill(d, b)'
  OBVIOUS
<1>1. Due(d, b)' => Due(d, b) \/ sent[Other(d)][b] = 0
  BY OwedKept DEF FillInv
<1>2. Flying(d, b)' = Flying(d, b)
  BY DEF Flying
<1>3. Fill(d, b) /\ Flow(d, b)
  BY DEF FillInv, FlowInv
<1> QED BY <1>1, <1>2, <1>3, FillSame

\* One connection loses the first of what flies, and is owed nothing.
LEMMA FillLose ==
  ASSUME TagInv, OneStart, FlowInv, FillInv, UNCHANGED <<sent, got>>,
         NEW e \in End, NEW c \in Conn,
         \A d \in End, b \in Conn : ~(d = e /\ b = c) =>
           /\ Held(d, b)' \cup Hand(d, b)' \cup Nums(wire[d], b)' \cup Nums(out[Other(d)], b)'
                = Held(d, b) \cup Hand(d, b) \cup Nums(wire[d], b) \cup Nums(out[Other(d)], b)
           /\ writer'[d][b] = "run" => writer[d][b] = "run",
         Flying(e, c)' \subseteq Flying(e, c),
         \A x \in Flying(e, c) : x \in Flying(e, c)' \/ \A y \in Flying(e, c)' : x < y,
         ~Due(e, c)'
  PROVE  \A d \in End, b \in Conn : Fill(d, b)'
<1> SUFFICES ASSUME NEW d \in End, NEW b \in Conn PROVE Fill(d, b)'
  OBVIOUS
<1>3. Fill(d, b) /\ Flow(d, b)
  BY DEF FillInv, FlowInv
<1>4. CASE d = e /\ b = c
  BY <1>3, <1>4, FillDrop
<1>5. CASE ~(d = e /\ b = c)
  <2>1. Due(d, b)' => Due(d, b) \/ sent[Other(d)][b] = 0
    BY <1>5, OwedKept DEF FillInv
  <2>2. Flying(d, b)' = Flying(d, b)
    BY <1>5 DEF Flying
  <2> QED BY <1>3, <2>1, <2>2, FillSame
<1> QED BY <1>4, <1>5

LEMMA FillRead ==
  ASSUME TagInv, OneStart, FlowInv, FillInv, NEW e \in End, NEW c \in Conn, ReadChunk(e, c)
  PROVE  \A d \in End, b \in Conn : Fill(d, b)'
<1> DEFINE f == MkFrame("DATA", connId[c], c, sent[e][c] + 1)
<1>1. /\ f \in Frame /\ f.cmd = "DATA" /\ f.conn = c /\ f.n = sent[e][c] + 1
      /\ out[e] \in Seq(Frame) /\ sent[e][c] \in Nat
  BY FrameType DEF TagInv, TypeOK, MkFrame
<1>2. /\ out'[e] = Append(out[e], f) /\ \A d \in End \ {e} : out'[d] = out[d]
      /\ sent' = [sent EXCEPT ![e][c] = sent[e][c] + 1] /\ UNCHANGED <<got, chan, writer, loop, wire>>
  BY DEF ReadChunk, Push, TagInv, TypeOK, taskVars, netVars
<1> HIDE DEF f
<1>3. /\ One(f, c) = {sent[e][c] + 1} /\ \A b : b # c => One(f, b) = {}
  BY <1>1 DEF One
<1>4. \A b : Nums(out'[e], b) = Nums(out[e], b) \cup One(f, b)
  BY <1>1, <1>2, NumsAppend
<1> SUFFICES ASSUME NEW d \in End, NEW b \in Conn PROVE Fill(d, b)'
  OBVIOUS
<1>5. /\ Held(d, b)' = Held(d, b) /\ Hand(d, b)' = Hand(d, b) /\ Nums(wire[d], b)' = Nums(wire[d], b)
      /\ Last(d, b)' = Last(d, b)
  BY <1>2 DEF Held, Hand, Last, Streams!LastGot
<1>6. Fill(d, b) /\ Flow(d, b) /\ Other(d) \in End
  BY OtherType DEF FillInv, FlowInv
<1>7. Due(d, b)' => Due(d, b) \/ sent[Other(d)][b] = 0
  BY <1>2, OwedKept DEF FillInv
<1>8. CASE Other(d) = e /\ b = c
  <2> DEFINE F == Flying(d, b)
             n == sent[e][c]
             l == Last(d, b)
  <2>1. Flying(d, b)' = F \cup {n + 1} /\ sent'[Other(d)][b] = n + 1
    BY <1>1, <1>2, <1>3, <1>4, <1>5, <1>8 DEF Flying, TagInv, TypeOK
  <2>2. n \in Nat /\ l \in Nat /\ F \subseteq Nat /\ sent[Other(d)][b] = n
    BY <1>1, <1>6, <1>8, FlyingChain DEF Chain, Flying
  <2>3. Up(F, n) /\ (Due(d, b)' => Full(l, F, n))
    BY <1>6, <1>7, <2>2 DEF Fill, Full
  <2> HIDE DEF F, n, l
  <2>4. Up(F \cup {n + 1}, n + 1)
    BY <2>2, <2>3 DEF Up
  <2>5. Due(d, b)' => Full(l, F \cup {n + 1}, n + 1)
    BY <2>2, <2>3 DEF Full
  <2> QED BY <1>5, <2>1, <2>4, <2>5 DEF Fill, l
<1>9. CASE ~(Other(d) = e /\ b = c)
  <2>1. sent'[Other(d)][b] = sent[Other(d)][b] /\ Nums(out[Other(d)], b)' = Nums(out[Other(d)], b)
    <3>1. CASE Other(d) = e
      <4>1. b # c
        BY <1>9, <3>1
      <4> QED BY <1>2, <1>3, <1>4, <3>1, <4>1 DEF TagInv, TypeOK
    <3>2. CASE Other(d) # e
      BY <1>2, <1>6, <3>2 DEF TagInv, TypeOK
    <3> QED BY <3>1, <3>2
  <2>2. Flying(d, b)' = Flying(d, b)
    BY <1>5, <2>1 DEF Flying
  <2> QED BY <1>2, <1>6, <1>7, <2>1, <2>2, FillSame
<1> QED BY <1>8, <1>9

\* The head of a channel, the first of what flies, is the next owed.
LEMMA FillWrite ==
  ASSUME TagInv, OneStart, FlowInv, OwnFrames, FillInv, NEW e \in End, NEW c \in Conn, WriteChunk(e, c)
  PROVE  NoGap' /\ \A d \in End, b \in Conn : Fill(d, b)'
<1> DEFINE s == chan[e][c]
           x == Head(s).n
           F == Flying(e, c)
           G == Flying(e, c)'
           n == sent[Other(e)][c]
           l == Last(e, c)
           r == [conn |-> c, n |-> x]
<1>1. s \in Seq(Frame) /\ s # <<>> /\ Head(s).cmd = "DATA" /\ Head(s).conn = c
      /\ got[e][c] \in Seq(Payload) /\ Head(s) \in Frame /\ writer[e][c] = "run"
  BY DEF WriteChunk, NextIs, TagInv, TypeOK, OwnFrames
<1>2. /\ chan' = [chan EXCEPT ![e][c] = Tail(s)]
      /\ got' = [got EXCEPT ![e][c] = Append(got[e][c], PayloadOf(Head(s)))]
      /\ UNCHANGED <<loop, wire, out, sent, writer>>
  BY DEF WriteChunk, Take, netVars
<1>3. One(Head(s), c) = {x} /\ PayloadOf(Head(s)) = r /\ r \in Payload
  BY <1>1 DEF One, PayloadOf, Payload, Frame
<1>4. chan'[e][c] = Tail(s) /\ got'[e][c] = Append(got[e][c], r)
  BY <1>2, <1>3 DEF TagInv, TypeOK
<1>5. Nums(s, c) = {x} \cup Nums(Tail(s), c) /\ Below({x}, Nums(Tail(s), c))
  BY <1>1, <1>3, NumsHead, NumsTail DEF FlowInv
<1>6. F = {x} \cup G
  BY <1>1, <1>2, <1>4, <1>5 DEF Flying, Held, Hand
<1>7. l \in Nat /\ n \in Nat /\ F \subseteq Nat /\ \A y \in F : l < y /\ y <= n
  BY FlyingChain DEF FlowInv, Chain, Flying
<1>8. \A y \in G : x < y
  <2>1. Below(Nums(s, c), Hand(e, c)) /\ Below(Nums(s, c), Nums(wire[e], c))
        /\ Below(Nums(s, c), Nums(out[Other(e)], c))
    BY <1>1, FlyingChain DEF FlowInv, Chain, Held
  <2>2. G = Nums(Tail(s), c) \cup Hand(e, c) \cup Nums(wire[e], c) \cup Nums(out[Other(e)], c)
    BY <1>1, <1>2, <1>4 DEF Flying, Held, Hand
  <2> QED BY <1>5, <2>1, <2>2 DEF Below
<1>9. Up(F, n) /\ (Due(e, c) => Full(l, F, n))
  BY DEF FillInv, Fill
<1>10. Last(e, c)' = x
  <2> HIDE DEF r
  <2>1. got'[e][c] # <<>> /\ got'[e][c][Len(got'[e][c])] = r
    BY <1>1, <1>3, <1>4
  <2> QED BY <2>1 DEF Last, Streams!LastGot, r
<1> HIDE DEF F, G, n, l, s, x
<1>11. x \in F /\ x \in Nat
  BY <1>6, <1>7
<1>12. Up(G, n) /\ Full(x, G, n)
  <2>1. \A y \in Nat : x < y /\ y <= n => y \in G
    BY <1>6, <1>9, <1>11 DEF Up
  <2>2. \A y \in G : y \in Nat
    BY <1>6, <1>7
  <2>3. Up(G, n)
    <3> SUFFICES ASSUME NEW a \in G, NEW y \in Nat, a <= y, y <= n PROVE y \in G
      BY DEF Up
    <3> QED BY <1>8, <1>11, <2>1, <2>2
  <2> QED BY <2>1, <2>3 DEF Full
<1>13. Fill(e, c)'
  BY <1>2, <1>10, <1>12 DEF Fill, G, n
<1>14. ASSUME NEW d \in End, NEW b \in Conn, ~(d = e /\ b = c) PROVE Fill(d, b)'
  <2>1. chan'[d][b] = chan[d][b] /\ got'[d][b] = got[d][b]
    BY <1>2, <1>14 DEF TagInv, TypeOK
  <2>2. Flying(d, b)' = Flying(d, b)
    BY <1>2, <2>1 DEF Flying, Held, Hand
  <2>3. Due(d, b)' => Due(d, b) \/ sent[Other(d)][b] = 0
    BY <1>2, <2>1, OwedKept DEF FillInv
  <2> QED BY <1>2, <2>1, <2>2, <2>3, FillSame DEF FillInv, FlowInv
<1>15. Due(e, c) => x = l + 1
  <2>1. ASSUME Due(e, c) PROVE l + 1 \in F
    BY <1>7, <1>9, <1>11, <2>1 DEF Full
  <2>2. l + 1 \in F => l + 1 = x \/ x < l + 1
    BY <1>6, <1>8
  <2> QED BY <1>7, <1>11, <2>1, <2>2
<1>16. ASSUME NEW d \in End, NEW b \in Conn, NEW k \in DOMAIN got'[d][b]
       PROVE  /\ got'[d][b][k].conn = b
              /\ got'[d][b][k].n = got'[d][b][1].n + k - 1
              /\ got'[d][b][k].n <= sent'[Other(d)][b]
              /\ d = "gate" => got'[d][b][k].n = k
  <2>1. CASE ~(d = e /\ b = c)
    <3>1. got'[d][b] = got[d][b]
      BY <1>2, <2>1 DEF TagInv, TypeOK
    <3>2. k \in DOMAIN got[d][b] /\ sent' = sent
      BY <1>2, <3>1
    <3>3. NoGap
      BY DEF FillInv
    <3> QED BY <3>1, <3>2, <3>3 DEF NoGap
  <2>2. CASE d = e /\ b = c
    <3> DEFINE g == got[e][c]
    <3> DEFINE h == got'[e][c]
    <3> SUFFICES ASSUME k \in DOMAIN h
                 PROVE  h[k].conn = c /\ h[k].n = h[1].n + k - 1 /\ h[k].n <= n /\ (e = "gate" => h[k].n = k)
      BY <1>2, <1>16, <2>2 DEF n
    <3>0. h = Append(g, r)
      BY <1>4
    <3>1. r.conn = c /\ r.n = x /\ x <= n
      BY <1>7, <1>11
    <3>2. \A j \in DOMAIN g : /\ g[j].conn = c /\ g[j].n = g[1].n + j - 1 /\ g[j].n <= n
                              /\ e = "gate" => g[j].n = j
      BY DEF FillInv, NoGap, n
    <3>3. CASE g = <<>>
      <4>1. l = 0
        BY <3>3 DEF l, Last, Streams!LastGot
      <4>2. e = "gate" => x = 1
        BY <1>1, <1>15, <4>1 DEF Due
      <4> HIDE DEF r, h, g
      <4>3. h = <<r>> /\ k = 1
        BY <3>0, <3>3
      <4>4. h[k] = r /\ h[1] = r
        BY <4>3
      <4>5. x = x + 1 - 1
        BY <1>11
      <4> QED BY <3>1, <4>2, <4>3, <4>4, <4>5
    <3>4. CASE g # <<>>
      <4>1. l = g[Len(g)].n /\ Len(g) \in DOMAIN g
        BY <1>1, <3>4 DEF l, Last, Streams!LastGot
      <4>2. x = l + 1
        BY <1>1, <1>15, <3>4 DEF Due
      <4> HIDE DEF r, g, h
      <4>3. g \in Seq(Payload) /\ h = Append(g, r) /\ r \in Payload
        BY <1>1, <1>3, <3>0 DEF g
      <4>4. h[1] = g[1] /\ 1 \in DOMAIN g /\ Len(g) \in Nat
        BY <3>4, <4>3
      <4>5. CASE k \in DOMAIN g
        <5>1. h[k] = g[k]
          BY <4>3, <4>5
        <5> QED BY <3>2, <4>4, <4>5, <5>1
      <4>6. CASE k = Len(g) + 1
        <5>1. h[k] = r
          BY <4>3, <4>6
        <5>2. g[1] \in Payload
          BY <4>3, <4>4
        <5>3. g[1].n \in Nat
          BY <5>2 DEF Payload
        <5>4. g[Len(g)].n = g[1].n + Len(g) - 1 /\ (e = "gate" => g[Len(g)].n = Len(g))
          BY <3>2, <4>1
        <5>5. x = g[1].n + k - 1 /\ (e = "gate" => x = k)
          BY <4>1, <4>2, <4>4, <4>6, <5>3, <5>4
        <5> QED BY <3>1, <4>4, <5>1, <5>5
      <4>7. k \in DOMAIN g \/ k = Len(g) + 1
        BY <4>3
      <4> QED BY <4>5, <4>6, <4>7
    <3> QED BY <3>3, <3>4
  <2> QED BY <2>1, <2>2
<1>17. NoGap'
  BY <1>16 DEF NoGap
<1> QED BY <1>13, <1>14, <1>17

\* A frame goes from the out queue to the wire.
LEMMA FillSend ==
  ASSUME TagInv, OneStart, FlowInv, FillInv, Steady, NEW e \in End, SendFrame(e)
  PROVE  \A d \in End, b \in Conn : Fill(d, b)'
<1> DEFINE a == Other(e)
           f == Head(out[e])
<1>1. /\ out[e] \in Seq(Frame) /\ out[e] # <<>> /\ f \in Frame /\ wire[a] \in Seq(Frame)
      /\ a \in End /\ Other(a) = e /\ \A d \in End : d # a => Other(d) # e
      /\ link[a] = TRUE
  BY OtherType DEF SendFrame, TagInv, TypeOK, End, Other, Steady
<1>2. /\ out'[e] = Tail(out[e]) /\ wire'[a] = Append(wire[a], f)
      /\ \A d \in End : (d # e => out'[d] = out[d]) /\ (d # a => wire'[d] = wire[d])
      /\ UNCHANGED <<sent, got, writer, chan, loop>>
  BY <1>1 DEF SendFrame, TagInv, TypeOK, taskVars, dataVars
<1> HIDE DEF a, f
<1>3. \A c : /\ Nums(out[e], c) = One(f, c) \cup Nums(Tail(out[e]), c)
             /\ Nums(Append(wire[a], f), c) = Nums(wire[a], c) \cup One(f, c)
  BY <1>1, NumsHead, NumsAppend DEF f
<1>4. ASSUME NEW d \in End, NEW b \in Conn
      PROVE  Held(d, b)' \cup Hand(d, b)' \cup Nums(wire[d], b)' \cup Nums(out[Other(d)], b)'
                = Held(d, b) \cup Hand(d, b) \cup Nums(wire[d], b) \cup Nums(out[Other(d)], b)
  <2>1. Held(d, b)' = Held(d, b) /\ Hand(d, b)' = Hand(d, b)
    BY <1>2 DEF Held, Hand
  <2>2. CASE d = a
    <3>1. /\ Nums(wire[d], b)' = Nums(Append(wire[a], f), b)
          /\ Nums(out[Other(d)], b)' = Nums(Tail(out[e]), b)
          /\ Nums(wire[d], b) = Nums(wire[a], b) /\ Nums(out[Other(d)], b) = Nums(out[e], b)
      BY <1>1, <1>2, <2>2
    <3> QED BY <1>3, <2>1, <3>1
  <2>3. CASE d # a
    BY <1>1, <1>2, <2>1, <2>3, OtherType
  <2> QED BY <2>2, <2>3
<1> QED BY <1>2, <1>4, FillQuiet

\* The loop takes a frame off the wire.
LEMMA FillTake ==
  ASSUME TagInv, OneStart, FlowInv, FillInv, NEW e \in End, NEW cmd, Incoming(e, cmd),
         NEW at, NEW t, loop' = [loop EXCEPT ![e] = Handling(at, Head(wire[e]), t)],
         at = "data" <=> cmd = "DATA"
  PROVE  \A d \in End, b \in Conn : Fill(d, b)'
<1> DEFINE f == Head(wire[e])
<1>1. /\ wire[e] \in Seq(Frame) /\ wire[e] # <<>> /\ f.cmd = cmd /\ loop[e].at = "select"
      /\ wire'[e] = Tail(wire[e]) /\ \A d \in End : d # e => wire'[d] = wire[d] /\ loop'[d] = loop[d]
      /\ loop'[e].at = at /\ loop'[e].frame = f /\ UNCHANGED <<sent, got, writer, chan, out>>
  BY DEF Incoming, Handling, TagInv, TypeOK, taskVars, dataVars
<1> HIDE DEF f
<1>2. \A c : Nums(wire[e], c) = One(f, c) \cup Nums(Tail(wire[e]), c)
  BY <1>1, NumsHead DEF f
<1>3. ASSUME NEW d \in End, NEW b \in Conn
      PROVE  Held(d, b)' \cup Hand(d, b)' \cup Nums(wire[d], b)' \cup Nums(out[Other(d)], b)'
                = Held(d, b) \cup Hand(d, b) \cup Nums(wire[d], b) \cup Nums(out[Other(d)], b)
  <2>1. Held(d, b)' = Held(d, b) /\ out' = out
    BY <1>1 DEF Held
  <2>2. CASE d = e
    <3>1. Hand(e, b) = {} /\ Hand(e, b)' = One(f, b)
      BY <1>1 DEF Hand, One
    <3> QED BY <1>1, <1>2, <2>1, <2>2, <3>1
  <2>3. CASE d # e
    <3>1. Hand(d, b)' = Hand(d, b)
      BY <1>1, <2>3 DEF Hand
    <3> QED BY <1>1, <2>1, <2>3, <3>1
  <2> QED BY <2>2, <2>3
<1> QED BY <1>1, <1>3, FillQuiet

\* A frame no entry is found for is dropped: its connection has no writer.
LEMMA FillUnknown ==
  ASSUME TagInv, LeadsInv, RunningIsRouted, OneStart, FlowInv, FillInv, NEW e \in End, RecvUnknown(e)
  PROVE  \A d \in End, b \in Conn : Fill(d, b)'
<1> DEFINE f == Head(wire[e])
<1>1. PICK cmd : Incoming(e, cmd) /\ cmd \in {"DATA", "CLOSE"}
  BY DEF RecvUnknown
<1>2. /\ wire[e] \in Seq(Frame) /\ wire[e] # <<>> /\ f.cmd # "OPEN" /\ loop[e].at = "select"
      /\ wire'[e] = Tail(wire[e]) /\ \A d \in End : d # e => wire'[d] = wire[d]
      /\ UNCHANGED <<sent, got, writer, chan, out, loop>>
  BY <1>1 DEF RecvUnknown, Incoming, TagInv, TypeOK, taskVars, dataVars
<1>3. f \in Tagged /\ f \in Frame
  <2>1. wire[e] \in Seq(Tagged)
    BY DEF TagInv, FramesTagged
  <2> QED BY <1>2, <2>1, TaggedFrame
<1>4. PICK c \in Conn \ Unseen : c = f.conn /\ connId[c] = f.id /\ conns[e][f.id] = NoConn
  BY <1>3 DEF Tagged, Frame, RecvUnknown
<1>5. writer[e][c] # "run"
  BY <1>4, TunnelAssumption DEF RunningIsRouted
<1>6. e = "gate" => c \notin Awaited
  <2> SUFFICES ASSUME e = "gate" PROVE c \notin Awaited
    OBVIOUS
  <2>1. out["home"] \in Seq(Frame)
    BY DEF TagInv, TypeOK, End
  <2>2. c \notin Conns(Tail(wire[e]), "OPEN") /\ c \notin Conns(out["home"], "OPEN")
    BY <1>2, <1>4, <2>1, ConnsTail, ConnsBehind DEF LeadsInv
  <2>3. Conns(wire[e], "OPEN") \subseteq Conns(Tail(wire[e]), "OPEN")
    <3> SUFFICES ASSUME NEW k \in DOMAIN wire[e], wire[e][k].cmd = "OPEN"
                 PROVE  wire[e][k].conn \in Conns(Tail(wire[e]), "OPEN")
      BY DEF Conns
    <3>1. k # 1
      BY <1>2
    <3>2. k - 1 \in DOMAIN Tail(wire[e]) /\ Tail(wire[e])[k - 1] = wire[e][k]
      BY <1>2, <3>1
    <3> QED BY <3>2 DEF Conns
  <2> QED BY <1>2, <2>2, <2>3 DEF Awaited, Queued, InHand
<1>7. ~Due(e, c)'
  <2>1. e = "gate" => c \notin Awaited'
    BY <1>4, <1>6 DEF OneStart
  <2> QED BY <1>2, <1>5, <2>1 DEF Due
<1> HIDE DEF f
<1>8. /\ \A b : Nums(wire[e], b) = One(f, b) \cup Nums(Tail(wire[e]), b)
      /\ Below(One(f, c), Nums(Tail(wire[e]), c))
  <2>1. Rising(wire[e])
    BY DEF FlowInv
  <2>2. \A b : Nums(wire[e], b) = One(Head(wire[e]), b) \cup Nums(Tail(wire[e]), b)
    BY <1>2, NumsHead
  <2>3. \A b : Below(One(Head(wire[e]), b), Nums(Tail(wire[e]), b))
    BY <1>2, <2>1, NumsTail
  <2> QED BY <2>2, <2>3 DEF f
<1>9. ASSUME NEW d \in End, NEW b \in Conn, ~(d = e /\ b = c)
      PROVE  Held(d, b)' \cup Hand(d, b)' \cup Nums(wire[d], b)' \cup Nums(out[Other(d)], b)'
                = Held(d, b) \cup Hand(d, b) \cup Nums(wire[d], b) \cup Nums(out[Other(d)], b)
  <2>1. Held(d, b)' = Held(d, b) /\ Hand(d, b)' = Hand(d, b) /\ out' = out
    BY <1>2 DEF Held, Hand
  <2>2. d = e => One(f, b) = {}
    BY <1>4, <1>9 DEF One
  <2>3. Nums(wire'[d], b) = Nums(wire[d], b)
    BY <1>2, <1>8, <2>2
  <2> QED BY <2>1, <2>3
<1>10. Held(e, c) = {} /\ Hand(e, c) = {} /\ Held(e, c)' = {} /\ Hand(e, c)' = {}
  BY <1>2, <1>5 DEF Held, Hand
<1>11. /\ Flying(e, c) = One(f, c) \cup Nums(Tail(wire[e]), c) \cup Nums(out[Other(e)], c)
       /\ Flying(e, c)' = Nums(Tail(wire[e]), c) \cup Nums(out[Other(e)], c)
  BY <1>2, <1>8, <1>10 DEF Flying
<1>12. Below(One(f, c), Nums(out[Other(e)], c))
  BY <1>4, <1>8, FlyingChain DEF FlowInv, Chain, Below
<1>13. \A x \in Flying(e, c) : x \in Flying(e, c)' \/ \A y \in Flying(e, c)' : x < y
  BY <1>8, <1>11, <1>12 DEF Below
<1> QED BY <1>2, <1>4, <1>7, <1>9, <1>11, <1>13, FillLose

\* What a loop routes belongs to the connection it routes it to.
LEMMA RoutedHand ==
  ASSUME TagInv, TaskInv, OwnFrames, NEW e \in End, loop[e].at \in {"data", "shut"}
  PROVE  /\ loop[e].tx \in Conn /\ loop[e].frame \in Frame /\ loop[e].frame.conn = loop[e].tx
         /\ writer[e][loop[e].tx] # "none"
         /\ loop[e].at = "data" <=> loop[e].frame.cmd = "DATA"
<1>1. loop[e] \in LoopState
  BY DEF TagInv, TypeOK
<1>2. loop[e].tx \in Conn /\ loop[e].frame \in Frame
  BY <1>1 DEF LoopState
<1>3. loop[e].tx # NoConn
  BY <1>2, TunnelAssumption
<1> QED BY <1>2, <1>3 DEF OwnFrames, TaskInv, LoopTask

\* The frame in hand goes into the channel of its connection; what a writer
\* that has left its loop is sent, it will not write.
LEMMA FillDeliver ==
  ASSUME TagInv, TaskInv, Once, OneStart, OwnFrames, FlowInv, FillInv, NEW e \in End, Deliver(e)
  PROVE  \A d \in End, b \in Conn : Fill(d, b)'
<1>1. PICK c \in Conn, f \in Frame : c = loop[e].tx /\ f = loop[e].frame /\ f.conn = c
        /\ writer[e][c] # "none" /\ (loop[e].at = "data" <=> f.cmd = "DATA")
  BY RoutedHand DEF Deliver
<1>2. /\ chan[e][c] \in Seq(Frame) /\ chan' = [chan EXCEPT ![e][c] = Append(chan[e][c], f)]
      /\ loop' = [loop EXCEPT ![e] = Idle("select")]
      /\ UNCHANGED <<sent, got, writer, out, wire>>
  BY <1>1 DEF Deliver, TagInv, TypeOK, netVars, dataVars
<1>3. /\ chan'[e][c] = Append(chan[e][c], f) /\ loop'[e].at = "select"
      /\ \A d \in End : d # e => loop'[d] = loop[d]
      /\ \A d \in End, b \in Conn : ~(d = e /\ b = c) => chan'[d][b] = chan[d][b]
  BY <1>2 DEF TagInv, TypeOK, Idle
<1>4. \A b : Hand(e, b) = One(f, b) /\ Hand(e, b)' = {}
  BY <1>1, <1>3 DEF Hand, One
<1>5. Nums(chan'[e][c], c) = Nums(chan[e][c], c) \cup One(f, c)
  BY <1>2, <1>3, NumsAppend
<1>6. ASSUME NEW d \in End, NEW b \in Conn, ~(d = e /\ b = c)
      PROVE  Held(d, b)' \cup Hand(d, b)' \cup Nums(wire[d], b)' \cup Nums(out[Other(d)], b)'
                = Held(d, b) \cup Hand(d, b) \cup Nums(wire[d], b) \cup Nums(out[Other(d)], b)
  <2>1. Held(d, b)' = Held(d, b)
    BY <1>2, <1>3, <1>6 DEF Held
  <2>2. Hand(d, b)' = Hand(d, b)
    <3>1. CASE d = e
      <4>1. One(f, b) = {}
        BY <1>1, <1>6, <3>1 DEF One
      <4> QED BY <1>4, <3>1, <4>1
    <3>2. CASE d # e
      BY <1>3, <3>2 DEF Hand
    <3> QED BY <3>1, <3>2
  <2> QED BY <1>2, <2>1, <2>2
<1>7. CASE writer[e][c] = "run"
  <2>1. /\ Held(e, c)' = Held(e, c) \cup One(f, c)
        /\ Hand(e, c)' = {} /\ Hand(e, c) = One(f, c)
        /\ Nums(wire[e], c)' = Nums(wire[e], c) /\ Nums(out[Other(e)], c)' = Nums(out[Other(e)], c)
    BY <1>2, <1>4, <1>5, <1>7 DEF Held
  <2>2. Held(e, c)' \cup Hand(e, c)' \cup Nums(wire[e], c)' \cup Nums(out[Other(e)], c)'
          = Held(e, c) \cup Hand(e, c) \cup Nums(wire[e], c) \cup Nums(out[Other(e)], c)
    BY <2>1
  <2> QED BY <1>2, <1>6, <2>2, FillQuiet
<1>8. CASE writer[e][c] # "run"
  <2>1. /\ Flying(e, c) = One(f, c) \cup Nums(wire[e], c) \cup Nums(out[Other(e)], c)
        /\ Flying(e, c)' = Nums(wire[e], c) \cup Nums(out[Other(e)], c)
    BY <1>2, <1>4, <1>8 DEF Flying, Held
  <2>2. Below(One(f, c), Nums(wire[e], c)) /\ Below(One(f, c), Nums(out[Other(e)], c))
    BY <1>4, FlyingChain DEF FlowInv, Chain
  <2>3. \A x \in Flying(e, c) : x \in Flying(e, c)' \/ \A y \in Flying(e, c)' : x < y
    BY <2>1, <2>2 DEF Below
  <2>4. ~Due(e, c)'
    BY <1>1, <1>2, <1>8, NotOwed
  <2> QED BY <1>2, <1>6, <2>1, <2>3, <2>4, FillLose
<1> QED BY <1>7, <1>8

\* A chunk for a writer that is gone is dropped.
LEMMA FillFail ==
  ASSUME TagInv, TaskInv, Once, OneStart, OwnFrames, FlowInv, FillInv, NEW e \in End,
         DeliverDataFailed(e)
  PROVE  \A d \in End, b \in Conn : Fill(d, b)'
<1>1. PICK c \in Conn, f \in Frame : c = loop[e].tx /\ f = loop[e].frame /\ f.conn = c
        /\ writer[e][c] = "done" /\ loop[e].at = "data"
  BY RoutedHand DEF DeliverDataFailed
<1>2. /\ loop' = [loop EXCEPT ![e] = Handling("reply", loop[e].frame, NoConn)]
      /\ UNCHANGED <<sent, got, writer, chan, out, wire>>
  BY DEF DeliverDataFailed, netVars, dataVars
<1>3. loop'[e].at = "reply" /\ \A d \in End : d # e => loop'[d] = loop[d]
  BY <1>2 DEF TagInv, TypeOK, Handling
<1>4. \A b : Hand(e, b) = One(f, b) /\ Hand(e, b)' = {}
  BY <1>1, <1>3 DEF Hand
<1>5. ASSUME NEW d \in End, NEW b \in Conn, ~(d = e /\ b = c)
      PROVE  Held(d, b)' \cup Hand(d, b)' \cup Nums(wire[d], b)' \cup Nums(out[Other(d)], b)'
                = Held(d, b) \cup Hand(d, b) \cup Nums(wire[d], b) \cup Nums(out[Other(d)], b)
  <2>1. Held(d, b)' = Held(d, b)
    BY <1>2 DEF Held
  <2>2. Hand(d, b)' = Hand(d, b)
    <3>1. CASE d = e
      <4>1. One(f, b) = {}
        BY <1>1, <1>5, <3>1 DEF One
      <4> QED BY <1>4, <3>1, <4>1
    <3>2. CASE d # e
      BY <1>3, <3>2 DEF Hand
    <3> QED BY <3>1, <3>2
  <2> QED BY <1>2, <2>1, <2>2
<1>6. /\ Flying(e, c) = One(f, c) \cup Nums(wire[e], c) \cup Nums(out[Other(e)], c)
      /\ Flying(e, c)' = Nums(wire[e], c) \cup Nums(out[Other(e)], c)
  BY <1>1, <1>2, <1>4 DEF Flying, Held
<1>7. Below(One(f, c), Nums(wire[e], c)) /\ Below(One(f, c), Nums(out[Other(e)], c))
  BY <1>4, FlyingChain DEF FlowInv, Chain
<1>8. \A x \in Flying(e, c) : x \in Flying(e, c)' \/ \A y \in Flying(e, c)' : x < y
  BY <1>6, <1>7 DEF Below
<1>9. ~Due(e, c)'
  BY <1>1, <1>2, NotOwed
<1> QED BY <1>2, <1>5, <1>6, <1>8, <1>9, FillLose

\* A writer that leaves its loop gives its channel up.
LEMMA FillBreak ==
  ASSUME TagInv, TaskInv, Once, OneStart, FlowInv, FillInv, NEW e \in End, NEW c \in Conn,
         WriterBreak(e, c)
  PROVE  \A d \in End, b \in Conn : Fill(d, b)'
<1>1. /\ writer[e][c] = "run" /\ writer' = [writer EXCEPT ![e][c] = "stop"]
      /\ chan' = [chan EXCEPT ![e][c] = Tail(@)] /\ UNCHANGED <<sent, got, loop, out, wire>>
  BY DEF WriterBreak, NextIs, Take, dataVars, netVars
<1>2. /\ writer'[e][c] = "stop"
      /\ \A d \in End, b \in Conn : ~(d = e /\ b = c) =>
           writer'[d][b] = writer[d][b] /\ chan'[d][b] = chan[d][b]
  BY <1>1 DEF TagInv, TypeOK
<1>3. ASSUME NEW d \in End, NEW b \in Conn, ~(d = e /\ b = c)
      PROVE  Held(d, b)' \cup Hand(d, b)' \cup Nums(wire[d], b)' \cup Nums(out[Other(d)], b)'
                = Held(d, b) \cup Hand(d, b) \cup Nums(wire[d], b) \cup Nums(out[Other(d)], b)
  BY <1>1, <1>2, <1>3 DEF Held, Hand
<1>4. /\ Flying(e, c) = Held(e, c) \cup Flying(e, c)'
      /\ Flying(e, c)' = Hand(e, c) \cup Nums(wire[e], c) \cup Nums(out[Other(e)], c)
  BY <1>1, <1>2 DEF Flying, Held, Hand
<1>5. Below(Held(e, c), Hand(e, c)) /\ Below(Held(e, c), Nums(wire[e], c))
      /\ Below(Held(e, c), Nums(out[Other(e)], c))
  BY FlyingChain DEF FlowInv, Chain
<1>6. \A x \in Flying(e, c) : x \in Flying(e, c)' \/ \A y \in Flying(e, c)' : x < y
  BY <1>4, <1>5 DEF Below
<1>7. ~Due(e, c)'
  BY <1>1, <1>2, NotOwed
<1> QED BY <1>1, <1>2, <1>3, <1>4, <1>6, <1>7, FillLose

LEMMA DataStep ==
  ASSUME [Next]_vars
  PROVE  UNCHANGED dataVars \/ \E e \in End, c \in Conn : ReadChunk(e, c) \/ WriteChunk(e, c)
<1>1. CASE Acceptor
  BY <1>1 DEF Acceptor, AcceptAlloc, AcceptFull, SendOpen, SpawnLocal
<1>2. CASE Gate
  BY <1>2 DEF Gate, RecvOpen, Incoming, Dialed, DialFailed
<1>3. ASSUME NEW e \in End, Session(e) PROVE UNCHANGED dataVars
  <2>1. CASE \E cmd : Incoming(e, cmd)
    BY <2>1 DEF Incoming
  <2>2. CASE ~\E cmd : Incoming(e, cmd)
    BY <1>3, <2>2 DEF Session, Connect, SendFrame, LoseFrame, NoticeDrop, RecvData, RecvClose,
       RecvRouted, RecvUnknown, Reply, Deliver, DeliverDataFailed, DeliverShutdownFailed
  <2> QED BY <2>1, <2>2
<1>4. ASSUME NEW e \in End, Fault(e) PROVE UNCHANGED dataVars
  BY <1>4 DEF Fault, DropLink, Kill
<1>5. ASSUME NEW e \in End, NEW c \in Conn, Reader(e, c) \/ Writer(e, c)
      PROVE  UNCHANGED dataVars \/ ReadChunk(e, c) \/ WriteChunk(e, c)
  BY <1>5 DEF Reader, ReadEnd, Writer, WriterBreak, WriterOrphaned, WriterExit
<1>6. CASE UNCHANGED vars
  BY <1>6 DEF vars
<1> QED BY <1>1, <1>2, <1>3, <1>4, <1>5, <1>6 DEF Next

\* Tasks that were started stay started.
LEMMA StartedStep ==
  ASSUME TypeOK, [Next]_vars
  PROVE  \A e \in End, c \in Conn : /\ reader'[e][c] = "none" => reader[e][c] = "none"
                                    /\ writer'[e][c] = "none" => writer[e][c] = "none"
<1> DEFINE Started == \A e \in End, c \in Conn : /\ reader'[e][c] = "none" => reader[e][c] = "none"
                                                 /\ writer'[e][c] = "none" => writer[e][c] = "none"
<1> SUFFICES Started
  OBVIOUS
<1>0. ASSUME UNCHANGED <<reader, writer>> PROVE Started
  BY <1>0
<1>1. ASSUME NEW e, NEW c, NEW id, Spawn(e, c, id) PROVE Started
  BY <1>1 DEF Spawn, TypeOK
<1>2. CASE Acceptor
  BY <1>0, <1>1, <1>2 DEF Acceptor, AcceptAlloc, AcceptFull, SendOpen, SpawnLocal, taskVars
<1>3. CASE Gate
  BY <1>0, <1>1, <1>3 DEF Gate, RecvOpen, Incoming, Dialed, DialFailed, taskVars
<1>4. ASSUME NEW e \in End, Session(e) PROVE Started
  <2>1. CASE \E cmd : Incoming(e, cmd)
    BY <1>0, <2>1 DEF Incoming, taskVars
  <2>2. CASE ~\E cmd : Incoming(e, cmd)
    BY <1>0, <1>4, <2>2 DEF Session, Connect, SendFrame, LoseFrame, NoticeDrop, RecvData, RecvClose,
       RecvRouted, RecvUnknown, Reply, Deliver, DeliverDataFailed, DeliverShutdownFailed, taskVars
  <2> QED BY <2>1, <2>2
<1>5. ASSUME NEW e \in End, DropLink(e) PROVE Started
  BY <1>0, <1>5 DEF DropLink, taskVars
<1>6. ASSUME NEW e \in End, Kill(e) PROVE Started
  BY <1>6 DEF Kill, TypeOK
<1>7. ASSUME NEW e \in End, NEW c \in Conn, Reader(e, c) PROVE Started
  <2>1. UNCHANGED writer /\ (reader' = reader \/ reader' = [reader EXCEPT ![e][c] = "done"])
    BY <1>7 DEF Reader, ReadChunk, ReadEnd, taskVars
  <2>2. \A d \in End, b \in Conn : reader'[d][b] = reader[d][b] \/ reader'[d][b] = "done"
    <3>1. reader \in [End -> [Conn -> {"none", "open", "done"}]]
      BY DEF TypeOK
    <3>2. \A v : reader' = [reader EXCEPT ![e][c] = v] =>
            \A d \in End, b \in Conn : reader'[d][b] = reader[d][b] \/ reader'[d][b] = v
      BY <3>1
    <3>3. UNCHANGED reader => \A d \in End, b \in Conn : reader'[d][b] = reader[d][b]
      OBVIOUS
    <3> QED BY <2>1, <3>2, <3>3
  <2> QED BY <2>1, <2>2
<1>8. ASSUME NEW e \in End, NEW c \in Conn, Writer(e, c) PROVE Started
  <2>1. /\ UNCHANGED reader
        /\ \/ writer' = writer \/ writer' = [writer EXCEPT ![e][c] = "stop"]
           \/ writer' = [writer EXCEPT ![e][c] = "done"]
    BY <1>8 DEF Writer, WriteChunk, WriterBreak, WriterOrphaned, WriterExit
  <2>2. \A d \in End, b \in Conn : writer'[d][b] = writer[d][b] \/ writer'[d][b] \in {"stop", "done"}
    <3>1. writer \in [End -> [Conn -> {"none", "run", "stop", "done"}]]
      BY DEF TypeOK
    <3>2. \A v : writer' = [writer EXCEPT ![e][c] = v] =>
            \A d \in End, b \in Conn : writer'[d][b] = writer[d][b] \/ writer'[d][b] = v
      BY <3>1
    <3>3. UNCHANGED writer => \A d \in End, b \in Conn : writer'[d][b] = writer[d][b]
      OBVIOUS
    <3> QED BY <2>1, <3>2, <3>3
  <2> QED BY <2>1, <2>2
<1>9. CASE UNCHANGED vars
  BY <1>0, <1>9 DEF vars, taskVars
<1> QED BY <1>2, <1>3, <1>4, <1>5, <1>6, <1>7, <1>8, <1>9 DEF Next, Fault

LEMMA SilentStep == ASSUME TagInv, TaskInv, Silent, [Next]_vars PROVE Silent'
<1>0. TypeOK /\ \A e \in End, c \in Conn : /\ reader'[e][c] = "none" => reader[e][c] = "none"
                                           /\ writer'[e][c] = "none" => writer[e][c] = "none"
  BY StartedStep DEF TagInv
<1>1. CASE UNCHANGED dataVars
  BY <1>0, <1>1 DEF Silent, dataVars, End
<1>2. ASSUME NEW e \in End, NEW c \in Conn, ReadChunk(e, c) PROVE Silent'
  <2>1. reader[e][c] = "open" /\ sent' = [sent EXCEPT ![e][c] = @ + 1] /\ UNCHANGED <<got, reader, writer>>
    BY <1>2 DEF ReadChunk, taskVars
  <2>2. \A b \in Conn : reader["home"][b] = "none" => sent'["home"][b] = sent["home"][b]
    BY <1>0, <2>1 DEF TypeOK
  <2> QED BY <2>1, <2>2 DEF Silent
<1>3. ASSUME NEW e \in End, NEW c \in Conn, WriteChunk(e, c) PROVE Silent'
  <2>1. /\ writer[e][c] = "run" /\ UNCHANGED <<sent, reader, writer>>
        /\ got' = [got EXCEPT ![e][c] = Append(@, PayloadOf(Head(chan[e][c])))]
    BY <1>3 DEF WriteChunk, NextIs
  <2>2. \A d \in End, b \in Conn : ~(d = e /\ b = c) => got'[d][b] = got[d][b]
    BY <1>0, <2>1 DEF TypeOK
  <2>3. \A d \in End, b \in Conn : writer[d][b] = "none" => got'[d][b] = <<>>
    BY <2>1, <2>2 DEF Silent
  <2> QED BY <2>1, <2>3 DEF Silent
<1> QED BY <1>1, <1>2, <1>3, DataStep

\* Without failures chunks fly in one piece, and a writer is given all.
LEMMA FillStep ==
  ASSUME Calm, TagInv, LeadsInv, RouteInv, FlowInv, TaskInv, Once, OneStart, Steady, FillInv,
         [Next]_vars
  PROVE  FillInv'
<1> USE DEF acceptVars, taskVars, netVars
<1> DEFINE Filled == \A d \in End, b \in Conn : Fill(d, b)'
<1>0. TypeOK /\ OwnFrames /\ RunningIsRouted /\ Silent /\ NoGap
  BY DEF TagInv, RouteInv, FillInv
<1>1. Silent'
  BY <1>0, SilentStep
<1>a. ASSUME UNCHANGED dataVars,
             \A d \in End, b \in Conn :
               /\ Held(d, b)' = Held(d, b) /\ Hand(d, b)' = Hand(d, b)
               /\ Nums(wire[d], b)' = Nums(wire[d], b) /\ Nums(out[d], b)' = Nums(out[d], b)
               /\ writer'[d][b] = "run" => \/ writer[d][b] = "run"
                                           \/ writer[d][b] = "none" /\ (d = "gate" => b \in Awaited)
      PROVE  Filled
  <2>1. \A d \in End, b \in Conn :
           /\ Held(d, b)' \cup Hand(d, b)' \cup Nums(wire[d], b)' \cup Nums(out[Other(d)], b)'
                = Held(d, b) \cup Hand(d, b) \cup Nums(wire[d], b) \cup Nums(out[Other(d)], b)
           /\ writer'[d][b] = "run" => \/ writer[d][b] = "run"
                                       \/ writer[d][b] = "none" /\ (d = "gate" => b \in Awaited)
    BY <1>a, OtherType
  <2> QED BY <1>a, <2>1, FillQuiet DEF dataVars
<1>b. ASSUME UNCHANGED dataVars, UNCHANGED <<wire, writer, chan>>,
             \A d \in End, b \in Conn : Hand(d, b)' = Hand(d, b) /\ Nums(out[d], b)' = Nums(out[d], b)
      PROVE  Filled
  <2>1. \A d \in End, b \in Conn : Held(d, b)' = Held(d, b) /\ Nums(wire[d], b)' = Nums(wire[d], b)
    BY <1>b DEF Held
  <2> QED BY <1>a, <1>b, <2>1
<1>c. UNCHANGED loop => \A d \in End, b \in Conn : Hand(d, b)' = Hand(d, b)
  BY DEF Hand
<1>d. UNCHANGED out => \A d \in End, b \in Conn : Nums(out[d], b)' = Nums(out[d], b)
  OBVIOUS
<1>i. \A at : Idle(at).at = at
  BY DEF Idle
\* A connection starts with an empty channel.
<1>s. ASSUME NEW e \in End, NEW c \in Conn, NEW id, Spawn(e, c, id), reader[e][c] = "none",
             e = "gate" => c \in Awaited, UNCHANGED dataVars, UNCHANGED <<wire, out>>,
             \A d \in End, b \in Conn : Hand(d, b)' = Hand(d, b)
      PROVE  Filled
  <2>1. writer[e][c] = "none"
    BY <1>s DEF TaskInv, ConnTask
  <2>2. /\ writer' = [writer EXCEPT ![e][c] = "run"] /\ chan' = [chan EXCEPT ![e][c] = <<>>]
        /\ writer'[e][c] = "run" /\ chan'[e][c] = <<>>
    BY <1>0, <1>s DEF Spawn, TypeOK
  <2>3. \A d \in End, b \in Conn : ~(d = e /\ b = c) =>
          writer'[d][b] = writer[d][b] /\ chan'[d][b] = chan[d][b]
    BY <1>0, <2>2 DEF TypeOK
  <2>4. ASSUME NEW d \in End, NEW b \in Conn PROVE Held(d, b)' = Held(d, b)
    <3>1. CASE d = e /\ b = c
      BY <2>1, <2>2, <3>1, NumsEmpty DEF Held
    <3>2. CASE ~(d = e /\ b = c)
      BY <2>3, <3>2 DEF Held
    <3> QED BY <3>1, <3>2
  <2>5. \A d \in End, b \in Conn :
          writer'[d][b] = "run" => \/ writer[d][b] = "run"
                                   \/ writer[d][b] = "none" /\ (d = "gate" => b \in Awaited)
    BY <1>s, <2>1, <2>3
  <2> QED BY <1>a, <1>d, <1>s, <2>4, <2>5
<1> HIDE DEF Filled
<1>2. ASSUME NEW c \in Conn, AcceptAlloc(c) \/ AcceptFull(c) PROVE Filled
  BY <1>2, <1>b, <1>c, <1>d DEF AcceptAlloc, AcceptFull
<1>3. ASSUME SendOpen PROVE Filled
  <2>1. acceptor.conn \in Conn
    BY <1>0, <1>3 DEF SendOpen, TypeOK, AcceptorState
  <2>2. /\ MkFrame("OPEN", connId[acceptor.conn], acceptor.conn, 0) \in Frame
        /\ MkFrame("OPEN", connId[acceptor.conn], acceptor.conn, 0).cmd # "DATA"
    BY <1>0, <2>1, FrameType DEF TypeOK, MkFrame
  <2>3. \A d \in End, b \in Conn : Nums(out[d], b)' = Nums(out[d], b)
    BY <1>0, <1>3, <2>2, PushQuiet DEF SendOpen, End
  <2> QED BY <1>3, <1>b, <1>c, <2>3 DEF SendOpen
<1>4. ASSUME SpawnLocal PROVE Filled
  <2>1. acceptor.conn \in Conn /\ reader["home"][acceptor.conn] = "none" /\ "home" \in End
    BY <1>0, <1>4 DEF SpawnLocal, TypeOK, AcceptorState, Once, End
  <2> QED BY <1>4, <1>c, <1>s, <2>1 DEF SpawnLocal
<1>5. ASSUME RecvOpen PROVE Filled
  <2>1. "gate" \in End /\ Incoming("gate", "OPEN")
        /\ loop' = [loop EXCEPT !["gate"] = Handling("dial", Head(wire["gate"]), NoConn)]
    BY <1>5 DEF RecvOpen, End
  <2>2. "dial" = "data" <=> "OPEN" = "DATA"
    OBVIOUS
  <2> QED BY <2>1, <2>2, FillTake DEF Filled
<1>6. ASSUME Dialed PROVE Filled
  <2>1. loop["gate"].frame.conn \in Awaited /\ loop["gate"].at = "dial" /\ "gate" \in End
    BY <1>6 DEF Dialed, Awaited, InHand, End
  <2>2. loop["gate"].frame.conn \in Conn /\ reader["gate"][loop["gate"].frame.conn] = "none"
    BY <2>1, AwaitedConn DEF Once
  <2>3. \A d \in End, b \in Conn : Hand(d, b)' = Hand(d, b)
    BY <1>0, <1>6, <1>i, <2>1, HandQuiet DEF Dialed
  <2> QED BY <1>6, <1>s, <2>1, <2>2, <2>3 DEF Dialed
<1>7. ASSUME DialFailed PROVE Filled
  <2>1. /\ loop["gate"].at = "dial" /\ loop'["gate"].at = "reply"
        /\ \A d \in End : d # "gate" => loop'[d] = loop[d]
    BY <1>0, <1>7 DEF DialFailed, TypeOK, LoopState, End
  <2>2. \A d \in End, b \in Conn : Hand(d, b)' = Hand(d, b)
    BY <2>1 DEF Hand
  <2> QED BY <1>7, <1>b, <1>d, <2>2 DEF DialFailed
<1>8. ASSUME NEW e \in End, RecvData(e) PROVE Filled
  BY <1>8, FillTake DEF RecvData, RecvRouted, Filled
<1>9. ASSUME NEW e \in End, RecvClose(e) PROVE Filled
  <2>1. "shut" = "data" <=> "CLOSE" = "DATA"
    OBVIOUS
  <2> QED BY <1>9, <2>1, FillTake DEF RecvClose, RecvRouted, Filled
<1>10. ASSUME NEW e \in End, Reply(e) PROVE Filled
  <2>1. loop[e].frame \in Frame
    BY <1>10, BusyFrame, TaggedFrame DEF Reply
  <2>2. /\ MkFrame("CLOSE", loop[e].frame.id, loop[e].frame.conn, 0) \in Frame
        /\ MkFrame("CLOSE", loop[e].frame.id, loop[e].frame.conn, 0).cmd # "DATA"
    BY <2>1, FrameType DEF Frame, MkFrame
  <2>3. \A d \in End, b \in Conn : Nums(out[d], b)' = Nums(out[d], b)
    BY <1>0, <1>10, <2>2, PushQuiet DEF Reply
  <2>4. \A d \in End, b \in Conn : Hand(d, b)' = Hand(d, b)
    BY <1>0, <1>10, <1>i, HandQuiet DEF Reply
  <2> QED BY <1>10, <1>b, <2>3, <2>4 DEF Reply
<1>11. ASSUME NEW e \in End, DeliverShutdownFailed(e) PROVE Filled
  <2>1. \A d \in End, b \in Conn : Hand(d, b)' = Hand(d, b)
    BY <1>0, <1>11, <1>i, HandQuiet DEF DeliverShutdownFailed
  <2> QED BY <1>11, <1>b, <1>d, <2>1 DEF DeliverShutdownFailed
<1>12. ASSUME NEW e \in End PROVE ~Connect(e) /\ ~LoseFrame(e) /\ ~NoticeDrop(e) /\ ~Fault(e)
  BY <1>0 DEF Steady, Connect, LoseFrame, NoticeDrop, Calm, Fault, DropLink, Kill, TypeOK
<1>13. ASSUME NEW e \in End, Session(e) PROVE Filled
  BY <1>0, <1>8, <1>9, <1>10, <1>11, <1>12, <1>13, FillSend, FillUnknown, FillDeliver, FillFail
  DEF Session, Filled
<1>14. ASSUME NEW e \in End, NEW c \in Conn, ReadEnd(e, c) PROVE Filled
  <2>1. MkFrame("CLOSE", connId[c], c, 0) \in Frame /\ MkFrame("CLOSE", connId[c], c, 0).cmd # "DATA"
    BY <1>0, FrameType DEF TypeOK, MkFrame
  <2>2. \A d \in End, b \in Conn : Nums(out[d], b)' = Nums(out[d], b)
    BY <1>0, <1>14, <2>1, PushQuiet DEF ReadEnd
  <2> QED BY <1>14, <1>b, <1>c, <2>2 DEF ReadEnd
<1>15. ASSUME NEW e \in End, NEW c \in Conn, WriterExit(e, c) PROVE Filled
  <2>1. /\ writer[e][c] = "stop" /\ writer' = [writer EXCEPT ![e][c] = "done"]
        /\ chan' = [chan EXCEPT ![e][c] = <<>>] /\ UNCHANGED dataVars /\ UNCHANGED <<loop, wire, out>>
    BY <1>15 DEF WriterExit
  <2>2. /\ writer'[e][c] = "done"
        /\ \A d \in End, b \in Conn : ~(d = e /\ b = c) =>
             writer'[d][b] = writer[d][b] /\ chan'[d][b] = chan[d][b]
    BY <1>0, <2>1 DEF TypeOK
  <2>3. ASSUME NEW d \in End, NEW b \in Conn PROVE Held(d, b)' = Held(d, b)
    BY <2>1, <2>2 DEF Held
  <2>4. \A d \in End, b \in Conn : writer'[d][b] = "run" => writer[d][b] = "run"
    BY <2>1, <2>2
  <2> QED BY <1>a, <1>c, <1>d, <2>1, <2>3, <2>4
<1>16. ASSUME NEW e \in End, NEW c \in Conn PROVE ~WriterOrphaned(e, c)
  BY <1>0 DEF WriterOrphaned, HasSender, RunningIsRouted
<1>17. ASSUME NEW e \in End, NEW c \in Conn, Reader(e, c) \/ Writer(e, c) PROVE Filled
  BY <1>0, <1>14, <1>15, <1>16, <1>17, FillRead, FillWrite, FillBreak DEF Reader, Writer, Filled
<1>18. ASSUME UNCHANGED vars PROVE Filled
  BY <1>18, <1>b, <1>c, <1>d DEF vars
<1>19. Filled
  BY <1>2, <1>3, <1>4, <1>5, <1>6, <1>7, <1>12, <1>13, <1>17, <1>18 DEF Next, Acceptor, Gate
<1>20. NoGap'
  <2>1. CASE UNCHANGED dataVars
    BY <1>0, <2>1 DEF NoGap, dataVars
  <2>2. ASSUME NEW e \in End, NEW c \in Conn, ReadChunk(e, c) PROVE NoGap'
    <3>1. got' = got /\ sent' = [sent EXCEPT ![e][c] = @ + 1]
      BY <2>2 DEF ReadChunk
    <3>2. \A d \in End, b \in Conn : sent[d][b] \in Nat /\ sent'[d][b] \in Nat /\ sent[d][b] <= sent'[d][b]
      BY <1>0, <3>1 DEF TypeOK
    <3>3. \A d \in End, b \in Conn : got[d][b] \in Seq(Payload)
      BY <1>0 DEF TypeOK
    <3>4. \A d \in End, b \in Conn : \A k \in DOMAIN got[d][b] : got[d][b][k] \in Payload
      BY <3>3
    <3> SUFFICES ASSUME NEW d \in End, NEW b \in Conn, NEW k \in DOMAIN got[d][b]
                 PROVE  got[d][b][k].n <= sent'[Other(d)][b]
      BY <1>0, <3>1 DEF NoGap
    <3>5. got[d][b][k].n <= sent[Other(d)][b]
      BY <1>0 DEF NoGap
    <3>6. got[d][b][k].n \in Nat
      BY <3>4 DEF Payload
    <3> QED BY <3>2, <3>5, <3>6, OtherType
  <2>3. ASSUME NEW e \in End, NEW c \in Conn, WriteChunk(e, c) PROVE NoGap'
    BY <1>0, <2>3, FillWrite
  <2> QED BY <2>1, <2>2, <2>3, DataStep
<1> QED BY <1>1, <1>19, <1>20 DEF FillInv, Filled

\* tcp.rs:558-627, tcp.rs:378-380: on a tunnel whose link and processes do not
\* fail, what a socket is given is a contiguous run of what the connection's
\* other socket yielded, from the first on at the gate, while ids are not reused,
\* for any number of connections and any queue capacities, sockets that refuse a
\* write and dials that fail included.
THEOREM NoGapInvariant ==
  ASSUME Calm
  PROVE  ReadySpec /\ []IdsApart => []NoGap
<1> DEFINE I == LeadsInv /\ RouteInv /\ FlowInv /\ TaskInv /\ Once /\ Steady /\ FillInv
<1>1. InitReady => I
  <2> SUFFICES ASSUME InitLinks(TRUE) PROVE I
    BY DEF InitReady
  <2>1. LeadsInv
    BY LeadsEmpty DEF InitLinks, LeadsInv, End
  <2> QED BY <2>1, RouteInit, FlowInit, TaskInit, FillInit
<1>2. IInv /\ IdsApart /\ I /\ [Next]_vars => I'
  <2> SUFFICES ASSUME IInv, IdsApart, I, [Next]_vars PROVE I'
    OBVIOUS
  <2>1. TagInv /\ EntriesLive /\ TypeOK /\ OwnFrames
    BY DEF IInv, TagInv, RouteInv
  <2>2. LeadsInv' /\ RouteInv' /\ FlowInv' /\ TaskInv' /\ Once' /\ OneStart /\ Steady'
    BY <2>1, LeadsStep, RouteStep, FlowStep, TaskStep, OnceStep, SteadyStep
  <2>3. FillInv'
    BY <2>1, <2>2, FillStep
  <2> QED BY <2>2, <2>3
<1>3. I => NoGap
  BY DEF FillInv
<1> QED BY <1>1, <1>2, <1>3, IInvInvariant, PTL DEF ReadySpec

-----------------------------------------------------------------------------
(* Without failures a gate that shuts a socket down has given it all.      *)

Told == \A c \in Stopped("gate") : /\ reader["home"][c] = "done"
                                   /\ Len(got["gate"][c]) = sent["home"][c]

\* Behind a CLOSE at the head of a channel nothing flies.
LEMMA LastFlight ==
  ASSUME TypeOK, OwnFrames, EndInv, FlowInv, FillInv, NEW c \in Conn, NextIs("gate", c, "CLOSE")
  PROVE  /\ reader["home"][c] = "done"
         /\ Len(got["gate"][c]) = sent["home"][c]
<1> DEFINE s == chan["gate"][c]
           g == got["gate"][c]
           l == Last("gate", c)
           n == sent["home"][c]
<1>1. /\ "gate" \in End /\ Other("gate") = "home" /\ s \in Seq(Frame) /\ s # <<>>
      /\ Head(s) = s[1] /\ 1 \in DOMAIN s /\ s[1].cmd = "CLOSE" /\ writer["gate"][c] = "run"
      /\ g \in Seq(Payload) /\ n \in Nat
  BY DEF NextIs, TypeOK, End, Other
<1>2. \A k \in DOMAIN s : s[k].conn = c
  BY <1>1 DEF OwnFrames
<1>3. c \in InChan("gate")
  BY <1>1, <1>2 DEF InChan, Conns
<1>4. /\ c \in Over("home") /\ c \notin InHand("gate", "data")
      /\ c \notin Conns(wire["gate"], "DATA") /\ c \notin Conns(out["home"], "DATA")
  BY <1>1, <1>3 DEF EndInv, Settled, Ends
<1>5. reader["home"][c] = "done"
  BY <1>4 DEF Over
<1>6. Nums(s, c) = {}
  <2>1. LastWord(s)
    BY <1>1 DEF EndInv, Words
  <2>2. ASSUME NEW j \in DOMAIN s, s[j].cmd = "DATA" PROVE FALSE
    <3>1. j # 1 /\ 1 < j
      BY <1>1, <2>2
    <3> QED BY <1>1, <1>2, <2>1, <2>2, <3>1 DEF LastWord
  <2> QED BY <2>2 DEF Nums
<1>7. Flying("gate", c) = {}
  <2>1. Nums(wire["gate"], c) = {} /\ Nums(out["home"], c) = {}
    BY <1>4, NumsConns
  <2>2. Hand("gate", c) = {}
    BY <1>4 DEF Hand, One, InHand
  <2> QED BY <1>1, <1>6, <2>1, <2>2 DEF Flying, Held
<1>8. l \in Nat /\ l <= n
  BY <1>1 DEF FlowInv, Flow, Chain
<1>9. Full(l, {}, n)
  BY <1>1, <1>7 DEF FillInv, Fill, Due
<1>10. l = n
  BY <1>1, <1>8, <1>9 DEF Full
<1>11. Len(g) = l
  <2>1. CASE g = <<>>
    BY <2>1 DEF Last, Streams!LastGot
  <2>2. CASE g # <<>>
    <3>1. Len(g) \in DOMAIN g
      BY <1>1, <2>2
    <3>2. l = g[Len(g)].n
      BY <2>2 DEF Last, Streams!LastGot
    <3>3. NoGap
      BY DEF FillInv
    <3> QED BY <1>1, <3>1, <3>2, <3>3 DEF NoGap
  <2> QED BY <2>1, <2>2
<1> QED BY <1>5, <1>10, <1>11

LEMMA ToldStep ==
  ASSUME Fragile = {}, Calm, TypeOK, RouteInv, OneStart, EndInv, FlowInv, FillInv, Told, [Next]_vars
  PROVE  Told'
<1>0. OwnFrames /\ RunningIsRouted /\ "home" \in End /\ "gate" \in End
  BY DEF RouteInv, End
<1>1. ASSUME NEW c \in Conn, writer["gate"][c] \in {"stop", "done"}
      PROVE  /\ reader'["home"][c] = "done"
             /\ Len(got'["gate"][c]) = sent'["home"][c]
  <2>1. reader["home"][c] = "done" /\ Len(got["gate"][c]) = sent["home"][c]
    BY <1>1 DEF Told, Stopped
  <2>2. reader'["home"][c] = "done"
    BY <1>0, <2>1 DEF OneStart
  <2>3. sent'["home"][c] = sent["home"][c] /\ got'["gate"][c] = got["gate"][c]
    <3>1. CASE UNCHANGED dataVars
      BY <3>1 DEF dataVars
    <3>2. ASSUME NEW e \in End, NEW b \in Conn, ReadChunk(e, b)
          PROVE  sent'["home"][c] = sent["home"][c] /\ got'["gate"][c] = got["gate"][c]
      <4>1. reader[e][b] = "open" /\ sent' = [sent EXCEPT ![e][b] = @ + 1] /\ got' = got
        BY <3>2 DEF ReadChunk
      <4>2. ~(e = "home" /\ b = c)
        BY <2>1, <4>1
      <4> QED BY <1>0, <4>1, <4>2 DEF TypeOK
    <3>3. ASSUME NEW e \in End, NEW b \in Conn, WriteChunk(e, b)
          PROVE  sent'["home"][c] = sent["home"][c] /\ got'["gate"][c] = got["gate"][c]
      <4>1. writer[e][b] = "run" /\ sent' = sent
            /\ got' = [got EXCEPT ![e][b] = Append(@, PayloadOf(Head(chan[e][b])))]
        BY <3>3 DEF WriteChunk, NextIs
      <4>2. ~(e = "gate" /\ b = c)
        BY <1>1, <4>1
      <4> QED BY <1>0, <4>1, <4>2 DEF TypeOK
    <3> QED BY <3>1, <3>2, <3>3, DataStep
  <2> QED BY <2>1, <2>2, <2>3
<1>2. ASSUME NEW c \in Conn, writer["gate"][c] \notin {"stop", "done"},
             writer'["gate"][c] \in {"stop", "done"}
      PROVE  WriterBreak("gate", c) /\ NextIs("gate", c, "CLOSE")
  <2>0. ASSUME UNCHANGED writer PROVE FALSE
    BY <1>2, <2>0
  <2>s. ASSUME NEW e, NEW b, NEW id, Spawn(e, b, id) PROVE FALSE
    <3>1. writer' = [writer EXCEPT ![e][b] = "run"]
      BY <2>s DEF Spawn
    <3>2. writer \in [End -> [Conn -> {"none", "run", "stop", "done"}]]
      BY DEF TypeOK
    <3>3. writer'["gate"][c] = writer["gate"][c] \/ writer'["gate"][c] = "run"
      BY <1>0, <3>1, <3>2
    <3> QED BY <1>2, <3>3
  <2>1. ~Acceptor
    <3>1. ~AcceptAlloc(c) /\ ~AcceptFull(c) /\ ~SendOpen /\ \A b : ~AcceptAlloc(b) /\ ~AcceptFull(b)
      BY <2>0 DEF AcceptAlloc, AcceptFull, SendOpen, taskVars
    <3>2. ~SpawnLocal
      BY <2>s DEF SpawnLocal
    <3> QED BY <3>1, <3>2 DEF Acceptor
  <2>2. ~Gate
    <3>1. ~RecvOpen /\ ~DialFailed
      BY <2>0 DEF RecvOpen, Incoming, DialFailed, taskVars
    <3>2. ~Dialed
      BY <2>s DEF Dialed
    <3> QED BY <3>1, <3>2 DEF Gate
  <2>3. ASSUME NEW e \in End, Session(e) PROVE FALSE
    <3>1. CASE \E cmd : Incoming(e, cmd)
      BY <2>0, <3>1 DEF Incoming, taskVars
    <3>2. CASE ~\E cmd : Incoming(e, cmd)
      BY <2>0, <2>3, <3>2 DEF Session, Connect, SendFrame, LoseFrame, NoticeDrop, RecvData, RecvClose,
         RecvRouted, RecvUnknown, Reply, Deliver, DeliverDataFailed, DeliverShutdownFailed, taskVars
    <3> QED BY <3>1, <3>2
  <2>4. ASSUME NEW e \in End, Fault(e) PROVE FALSE
    BY <2>4 DEF Calm, Fault, DropLink, Kill, TypeOK
  <2>5. ASSUME NEW e \in End, NEW b \in Conn, Reader(e, b) PROVE FALSE
    BY <2>0, <2>5 DEF Reader, ReadChunk, ReadEnd, taskVars
  <2>6. ASSUME NEW e \in End, NEW b \in Conn, Writer(e, b)
        PROVE  WriterBreak("gate", c) /\ NextIs("gate", c, "CLOSE")
    <3>1. ~WriteChunk(e, b)
      BY <2>0 DEF WriteChunk
    <3>2. ~WriterOrphaned(e, b)
      BY <1>0 DEF WriterOrphaned, HasSender, RunningIsRouted
    <3>3. CASE WriterExit(e, b)
      <4>1. writer[e][b] = "stop" /\ writer' = [writer EXCEPT ![e][b] = "done"]
        BY <3>3 DEF WriterExit
      <4>2. ~(e = "gate" /\ b = c)
        BY <1>2, <4>1
      <4> QED BY <1>0, <1>2, <4>1, <4>2 DEF TypeOK
    <3>4. CASE WriterBreak(e, b)
      <4>1. writer' = [writer EXCEPT ![e][b] = "stop"] /\ NextIs(e, b, "CLOSE")
        BY <3>4 DEF WriterBreak
      <4>2. ~(e = "gate" /\ b = c) => writer'["gate"][c] = writer["gate"][c]
        BY <1>0, <4>1 DEF TypeOK
      <4> QED BY <1>2, <3>4, <4>1, <4>2
    <3> QED BY <2>6, <3>1, <3>2, <3>3, <3>4 DEF Writer
  <2>7. ~UNCHANGED vars
    BY <2>0 DEF vars, taskVars
  <2> QED BY <2>1, <2>2, <2>3, <2>4, <2>5, <2>6, <2>7 DEF Next
<1>3. ASSUME NEW c \in Conn, WriterBreak("gate", c), NextIs("gate", c, "CLOSE")
      PROVE  /\ reader'["home"][c] = "done"
             /\ Len(got'["gate"][c]) = sent'["home"][c]
  <2>1. UNCHANGED <<reader, sent, got>>
    BY <1>3 DEF WriterBreak, dataVars
  <2> QED BY <1>0, <1>3, <2>1, LastFlight
<1> QED BY <1>1, <1>2, <1>3 DEF Told, Stopped

\* README.md:69, tcp.rs:560-566: on a tunnel whose link, processes and sockets
\* do not fail, the service behind the gate has been given every byte the local
\* program sent when its socket is shut down, whatever is queued in between,
\* while ids are not reused.
THEOREM CloseAfterAllInvariant ==
  ASSUME Calm, Fragile = {}
  PROVE  ReadySpec /\ []IdsApart => []CloseAfterAll
<1> DEFINE I == /\ LeadsInv /\ RouteInv /\ FlowInv /\ TaskInv /\ Once /\ EndInv
                /\ Steady /\ FillInv /\ Told
<1>1. InitReady => I
  <2> SUFFICES ASSUME InitLinks(TRUE) PROVE I
    BY DEF InitReady
  <2>1. LeadsInv
    BY LeadsEmpty DEF InitLinks, LeadsInv, End
  <2>2. Told
    BY DEF InitLinks, Told, Stopped, End
  <2> QED BY <2>1, <2>2, RouteInit, FlowInit, TaskInit, EndInit, FillInit
<1>2. IInv /\ IdsApart /\ I /\ [Next]_vars => I'
  <2> SUFFICES ASSUME IInv, IdsApart, I, [Next]_vars PROVE I'
    OBVIOUS
  <2>1. TagInv /\ EntriesLive /\ TypeOK /\ OwnFrames
    BY DEF IInv, TagInv, RouteInv
  <2>2. LeadsInv' /\ RouteInv' /\ FlowInv' /\ TaskInv' /\ Once' /\ OneStart /\ Steady'
    BY <2>1, LeadsStep, RouteStep, FlowStep, TaskStep, OnceStep, SteadyStep
  <2>3. Grows
    BY <2>1, <2>2, UnseenStep, OverStep DEF Grows
  <2>4. EndInv'
    BY <2>1, <2>2, <2>3, EndStep
  <2>5. FillInv' /\ Told'
    BY <2>1, <2>2, FillStep, ToldStep
  <2> QED BY <2>2, <2>4, <2>5
<1>3. IInv /\ I => CloseAfterAll
  BY DEF Told, Stopped, CloseAfterAll
<1> QED BY <1>1, <1>2, <1>3, IInvInvariant, PTL DEF ReadySpec

-----------------------------------------------------------------------------
\* All this of a home that is not restarted and opens no more connections than
\* there are ids (alloc_conn_id, tcp.rs): one process serving up to 256 of them.
THEOREM TunnelWithinIds ==
  ASSUME Mortal \subseteq {"gate"}, IsFiniteSet(Conn), Cardinality(Conn) <= NumIds
  PROVE  /\ Spec => StreamsKept /\ []RunningIsRouted
         /\ Fragile = {} => (Spec => []HalfClose)
         /\ Calm => (ReadySpec => []NoGap)
         /\ Calm /\ Fragile = {} => (ReadySpec => []CloseAfterAll)
<1>1. (Spec => []IdsApart) /\ (ReadySpec => []IdsApart)
  BY EnoughIds
<1>2. Spec => StreamsKept /\ []RunningIsRouted
  BY <1>1, RoutedWhileApart, TunnelKeepsItsPromise, PTL
<1>3. ASSUME Fragile = {} PROVE Spec => []HalfClose
  BY <1>1, <1>3, HalfCloseHonored, PTL
<1>4. ASSUME Calm PROVE ReadySpec => []NoGap
  BY <1>1, <1>4, NoGapInvariant, PTL
<1>5. ASSUME Calm, Fragile = {} PROVE ReadySpec => []CloseAfterAll
  BY <1>1, <1>5, CloseAfterAllInvariant, PTL
<1> QED BY <1>2, <1>3, <1>4, <1>5
=============================================================================
