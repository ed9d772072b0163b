-------------------------- MODULE RelaySessionProofs --------------------------
(***************************************************************************)
(* Theorems about RelaySession, for any number of faults and commands, any *)
(* way a link may fail, any policy of the gate, any table, read or not,    *)
(* written or not, and either kind of relay.  They rest on what WireFormat *)
(* says of keys: what a party has signed opens as its own, and only the    *)
(* relay's frames open as the relay's.  At the end, theorems about the     *)
(* lengths of WireFormat.                                                  *)
(***************************************************************************)
EXTENDS RelaySession, TLAPS

Party   == End \cup {Server, Zero}
Cmd     == {"HANDSHAKE_OK", "REFUSED", "INTRO_FROM", "TCP"}
Header  == {xor_header(Session(e).s2c, Clear(p)) : e \in End, p \in Party}
Packet  == [secret : SUBSET Party, signed : Party, inner : [cmd : Cmd, body : End]]
Message == [header : Header, packet : Packet]

\* What may lie in the inbox of e: frames of the relay, where the gate is only
\* introduced to initiators; and at the gate frames of initiators.
Box(e) ==
  {f \in Message :
     \/ f.packet.signed = Server
        /\ (e = "gate" /\ f.packet.inner.cmd = "INTRO_FROM" => f.packet.inner.body \in Initiator)
     \/ e = "gate" /\ f.packet.signed \in Initiator}

Boxes(box) == /\ box = [e \in End |-> box[e]]
              /\ \A e \in End : box[e] \in Seq(Box(e))

\* Initiators have the gate for a peer, and the gate an initiator or nobody.
Paired ==
  /\ \A i \in Initiator : peer[i] = "gate"
  /\ peer["gate"] \in Initiator \cup {Nobody}
  /\ peer["gate"] = Nobody => served = {}
  /\ held \subseteq Initiator \X {"gate"}

IInv == Typed /\ Boxes(inbox) /\ Paired /\ ServesListed

-----------------------------------------------------------------------------
(* Keys and inboxes.                                                       *)

LEMMA Parties == Server \notin End /\ Zero \notin End /\ "gate" \notin Initiator
BY DEF Server, Zero, End, Initiator

\* What a party seals for another opens there, and nowhere else as the peer's.
LEMMA OpensAsSealed ==
  ASSUME NEW inner, NEW a, NEW b
  PROVE  verify_and_decrypt(encrypt_and_sign(inner, a, b), b, a) = inner
BY DEF verify_and_decrypt, encrypt_and_sign, x25519

LEMMA PeerSigned ==
  ASSUME NEW frame, NEW me, NEW p, decode_peer_frame(frame, me, p).cmd # "none"
  PROVE  frame.packet.signed = p
BY DEF decode_peer_frame, verify_and_decrypt, Nothing, pack_inner

LEMMA Addressed ==
  ASSUME NEW e, NEW p, NEW inner
  PROVE  Addressee(e, build_peer_frame(e, p, inner)) = p
BY DEF Addressee, build_peer_frame, Frame, xor_header, Clear

LEMMA FromServerInBox ==
  ASSUME NEW e \in End, NEW cmd \in Cmd, NEW body \in End,
         e = "gate" /\ cmd = "INTRO_FROM" => body \in Initiator
  PROVE  ServerFrame(e, pack_inner(cmd, body)) \in Box(e)
<1> DEFINE f == ServerFrame(e, pack_inner(cmd, body))
<1>1. f.header \in Header
  BY DEF ServerFrame, Frame, Header, Party
<1>2. f.packet = [secret |-> {Server, e}, signed |-> Server,
                  inner |-> [cmd |-> cmd, body |-> body]]
  BY DEF ServerFrame, Frame, encrypt_and_sign, pack_inner, x25519
<1>3. f.packet \in Packet
  BY <1>2 DEF Packet, Party
<1>4. f = [header |-> f.header, packet |-> f.packet]
  BY DEF ServerFrame, Frame
<1> QED BY <1>1, <1>2, <1>3, <1>4 DEF Box, Message

LEMMA FromInitiatorInBox ==
  ASSUME NEW i \in Initiator
  PROVE  Forwarded(i, "gate", build_peer_frame(i, "gate", pack_inner("TCP", "gate")))
           \in Box("gate")
<1> DEFINE f == Forwarded(i, "gate", build_peer_frame(i, "gate", pack_inner("TCP", "gate")))
<1>1. f.header \in Header
  BY DEF Forwarded, Frame, Header, Party, End
<1>2. f.packet = [secret |-> {i, "gate"}, signed |-> i,
                  inner |-> [cmd |-> "TCP", body |-> "gate"]]
  BY DEF Forwarded, build_peer_frame, Frame, encrypt_and_sign, pack_inner, x25519
<1>3. f.packet \in Packet
  BY <1>2 DEF Packet, Party, End, Cmd
<1>4. f = [header |-> f.header, packet |-> f.packet]
  BY DEF Forwarded, Frame
<1> QED BY <1>1, <1>2, <1>3, <1>4 DEF Box, Message

\* An introduction the gate makes out names an initiator.
LEMMA IntroducesInitiator ==
  ASSUME NEW f \in Box("gate"), decode_server_frame(f, "gate").cmd = "INTRO_FROM"
  PROVE  decode_server_frame(f, "gate").body \in Initiator
<1>1. f.packet.signed = Server /\ decode_server_frame(f, "gate") = f.packet.inner
  BY DEF decode_server_frame, verify_and_decrypt, Nothing, pack_inner
<1> QED BY <1>1, Parties DEF Box, Server, Initiator

LEMMA BoxRead ==
  ASSUME Boxes(inbox), NEW e \in End, Arrived(e)
  PROVE  Boxes(Read(e)) /\ Head(inbox[e]) \in Box(e)
<1>1. inbox[e] \in Seq(Box(e)) /\ inbox[e] # <<>>
  BY DEF Boxes, Arrived
<1>2. Head(inbox[e]) \in Box(e) /\ Tail(inbox[e]) \in Seq(Box(e))
  BY <1>1
<1> QED BY <1>2 DEF Boxes, Read

LEMMA BoxSet ==
  ASSUME NEW box, Boxes(box), NEW e \in End, NEW s \in Seq(Box(e))
  PROVE  Boxes([box EXCEPT ![e] = s])
BY DEF Boxes

LEMMA BoxPost ==
  ASSUME NEW box, Boxes(box), NEW d \in End, NEW f \in Box(d)
  PROVE  Boxes(Post(box, d, f))
<1>1. Append(box[d], f) \in Seq(Box(d))
  BY DEF Boxes
<1> QED BY <1>1, BoxSet DEF Post

LEMMA BoxClosed ==
  ASSUME Boxes(inbox), NEW e \in End, Close(e)
  PROVE  Boxes(inbox')
<1>1. <<>> \in Seq(Box(e))
  OBVIOUS
<1> QED BY <1>1, BoxSet DEF Close

\* No frame in an inbox is signed by its reader.
LEMMA BoxesNoEcho == Boxes(inbox) => NoEcho
<1> SUFFICES ASSUME Boxes(inbox), NEW e \in End, NEW k \in DOMAIN inbox[e]
             PROVE  inbox[e][k].packet.signed # e
  BY DEF NoEcho
<1>1. inbox[e][k] \in Box(e)
  BY DEF Boxes
<1> QED BY <1>1, Parties DEF Box

-----------------------------------------------------------------------------
(* The steps.                                                              *)

LEMMA InitInv == Init => IInv
<1> SUFFICES ASSUME Init
             PROVE  IInv
  OBVIOUS
<1> USE SessionAssumption, Parties
<1>1. Typed
  BY DEF Init, Typed, Listening, End, Initiator
<1>2. Boxes(inbox)
  BY DEF Init, Boxes
<1>3. Paired
  BY DEF Init, Paired, End, Initiator
<1>4. ServesListed
  BY DEF Init, ServesListed, End, Initiator
<1> QED BY <1>1, <1>2, <1>3, <1>4 DEF IInv

\* Where a process goes: it has heard of Ctrl-C once it is anywhere that listens.
Points == {"dial", "hello", "serve", "await", "pause5", "pause3", "exit"}
Hears  == heard \in [End -> BOOLEAN] /\ \A x \in End : at[x] \in Listening => heard[x]

LEMMA Moved ==
  ASSUME Typed, NEW e \in End, NEW point \in Points, Goto(e, point)
  PROVE  /\ at' = [at EXCEPT ![e] = point] /\ at' \in [End -> Points]
         /\ Hears'
<1>1. at' = [at EXCEPT ![e] = point] /\ at' \in [End -> Points] /\ at \in [End -> Points]
  BY DEF Goto, Typed, Points
<1> DEFINE now == heard[e] \/ point \in Listening
<1>2. now \in BOOLEAN /\ (point \in Listening => now)
  OBVIOUS
<1>3. heard' = [heard EXCEPT ![e] = now]
  BY DEF Goto
<1> HIDE DEF now
<1>4. heard' \in [End -> BOOLEAN]
  BY <1>2, <1>3 DEF Typed
<1>5. ASSUME NEW x \in End, at'[x] \in Listening
      PROVE  heard'[x]
  <2>1. CASE x = e
    BY <2>1, <1>1, <1>2, <1>3, <1>5 DEF Typed
  <2>2. CASE x # e
    <3>1. at'[x] = at[x] /\ heard'[x] = heard[x]
      BY <2>2, <1>1, <1>3 DEF Typed
    <3> QED BY <3>1, <1>5, Zenon DEF Typed
  <2> QED BY <2>1, <2>2
<1>6. Listening' = Listening
  BY DEF Listening
<1> QED BY <1>1, <1>4, <1>5, <1>6, Zenon DEF Hears

\* Steps of a process that only move it, open or close its websocket, and touch
\* neither its peer nor anybody's commands.
LEMMA MovesKeep ==
  ASSUME IInv, NEW e \in End,
         Dial(e) \/ DialFailed(e) \/ HelloFailed(e) \/ Notice(e) \/ PauseOver(e) \/ Interrupt(e)
  PROVE  IInv'
<1> USE SessionAssumption, Parties
<1>1. CASE Dial(e)
  <2>1. Typed'
    <3>1. Goto(e, "hello") /\ at' = [at EXCEPT ![e] = "hello"] /\ at' \in [End -> Points] /\ Hears'
      BY <1>1, Moved DEF Dial, IInv, Points
    <3> QED BY <1>1, <3>1 DEF Dial, IInv, Typed, Points, Hears, tableVars, relayVars
  <2> QED BY <1>1, <2>1 DEF Dial, IInv, Boxes, Box, Paired, ServesListed, tableVars, relayVars
<1>2. CASE DialFailed(e) \/ PauseOver(e)
  <2>1. Typed'
    <3>1. PICK point \in {"pause5", "dial"} : Goto(e, point)
      BY <1>2 DEF DialFailed, PauseOver
    <3>2. at' = [at EXCEPT ![e] = point] /\ at' \in [End -> Points] /\ Hears'
      BY <3>1, Moved DEF IInv, Points
    <3> QED BY <1>2, <3>2
            DEF DialFailed, PauseOver, IInv, Typed, Points, Hears, tableVars, relayVars
  <2> QED BY <1>2, <2>1
          DEF DialFailed, PauseOver, IInv, Boxes, Box, Paired, ServesListed, tableVars, relayVars
<1>3. CASE HelloFailed(e) \/ Notice(e) \/ Interrupt(e)
  <2>1. Typed'
    <3>1. PICK point \in {"pause5", "pause3", "exit"} : Goto(e, point)
      BY <1>3 DEF HelloFailed, Notice, Interrupt
    <3>2. at' = [at EXCEPT ![e] = point] /\ at' \in [End -> Points] /\ Hears'
      BY <3>1, Moved DEF IInv, Points
    <3> QED BY <1>3, <3>2
            DEF HelloFailed, Notice, Interrupt, Close, IInv, Typed, Points, Hears, tableVars
  <2>2. Boxes(inbox')
    BY <1>3, BoxClosed DEF HelloFailed, Notice, Interrupt, IInv
  <2> QED BY <1>3, <2>1, <2>2
          DEF HelloFailed, Notice, Interrupt, IInv, Paired, ServesListed, tableVars
<1> QED BY <1>1, <1>2, <1>3

LEMMA IntroduceKeeps ==
  ASSUME IInv, NEW e \in End, HelloIntroduce(e)
  PROVE  IInv'
<1> USE SessionAssumption, Parties
<1> DEFINE intro == build_server_bound(e, pack_inner("INTRODUCE", peer[e]))
           d == verify_and_decrypt(intro.packet, Server, e).body
           frame == ServerFrame(d, pack_inner("INTRO_FROM", e))
<1>1. d = peer[e]
  BY OpensAsSealed DEF build_server_bound, Frame, pack_inner
<1>2. d \in End /\ (d = "gate" => e \in Initiator) /\ (e \in Initiator => d = "gate")
  BY <1>1 DEF HelloIntroduce, HelloOk, IInv, Paired, End, Initiator
<1>3. Boxes(inbox')
  <2>1. frame \in Box(d)
    BY <1>2, FromServerInBox DEF Cmd
  <2>2. Boxes(Read(e))
    BY BoxRead DEF HelloIntroduce, HelloOk, IInv
  <2>3. Boxes(Post(Read(e), d, frame))
    BY <1>2, <2>1, <2>2, BoxPost
  <2> HIDE DEF frame, d
  <2>4. inbox' = Read(e) \/ inbox' = Post(Read(e), d, frame)
    BY DEF HelloIntroduce, d, frame
  <2> QED BY <2>2, <2>3, <2>4
<1>4. held' = held \/ (e \in Initiator /\ held' = held \cup {<<e, d>>})
  BY DEF HelloIntroduce
<1> HIDE DEF d, frame
<1>5. Typed'
  <2>1. at' = [at EXCEPT ![e] = "serve"] /\ at' \in [End -> Points] /\ Hears'
    BY Moved DEF HelloIntroduce, IInv, Points
  <2> QED BY <1>2, <1>4, <2>1
          DEF HelloIntroduce, HelloOk, IInv, Typed, Points, Hears, tableVars
<1>6. Paired'
  BY <1>2, <1>4 DEF HelloIntroduce, IInv, Paired
<1>7. ServesListed'
  BY DEF HelloIntroduce, IInv, ServesListed, tableVars
<1> QED BY <1>3, <1>5, <1>6, <1>7 DEF IInv

\* Steps that take a message out of the inbox and drop it.
LEMMA ReadsKeep ==
  ASSUME IInv, NEW e \in End, HelloAwait(e) \/ AwaitReject(e) \/ Incoming(e)
  PROVE  IInv'
<1> USE SessionAssumption, Parties
<1>1. Arrived(e) /\ inbox' = Read(e)
  BY DEF HelloAwait, HelloOk, AwaitReject, Introduced, Incoming
<1>2. Boxes(inbox')
  BY <1>1, BoxRead DEF IInv
<1>3. Typed'
  <2>1. CASE HelloAwait(e)
    <3>1. at' = [at EXCEPT ![e] = "await"] /\ at' \in [End -> Points] /\ Hears'
      BY <2>1, Moved DEF HelloAwait, IInv, Points
    <3> QED BY <2>1, <3>1
            DEF HelloAwait, HelloOk, IInv, Typed, Points, Hears, tableVars, relayVars
  <2>2. CASE AwaitReject(e) \/ Incoming(e)
    BY <2>2 DEF AwaitReject, Incoming, IInv, Typed, procVars, tableVars, relayVars
  <2> QED BY <2>1, <2>2
<1>4. Paired' /\ ServesListed'
  BY DEF HelloAwait, AwaitReject, Incoming, IInv, Paired, ServesListed, procVars, tableVars, relayVars
<1> QED BY <1>2, <1>3, <1>4 DEF IInv

\* Only the gate awaits; it has served nobody, and the initiator it takes it lists,
\* has tried to list, or takes like any other.
LEMMA AcceptKeeps ==
  ASSUME IInv, NEW e \in End, AwaitIntro(e)
  PROVE  IInv'
<1> USE SessionAssumption, Parties
<1>1. e = "gate" /\ peer[e] = Nobody /\ served = {}
  BY DEF AwaitIntro, Introduced, IInv, Typed, Paired, End
<1>2. Who(e) \in Initiator
  BY <1>1, BoxRead, IntroducesInitiator DEF AwaitIntro, Introduced, IInv, Who, ByServer
<1>3. Boxes(inbox')
  BY BoxClosed DEF AwaitIntro, IInv
<1>4. Typed'
  <2>1. at' = [at EXCEPT ![e] = "dial"] /\ at' \in [End -> Points] /\ Hears'
    BY Moved DEF AwaitIntro, IInv, Points
  <2>2. ws' = [ws EXCEPT ![e] = "none"] /\ known' = known \ {e}
    BY DEF AwaitIntro, Close
  <2>3. peer' = [peer EXCEPT ![e] = Who(e)] /\ Who(e) # Nobody
    BY <1>2, SessionAssumption DEF AwaitIntro, SessionAssumption, End
  <2>4. /\ listed' \subseteq Initiator /\ unsaved' \subseteq Initiator
        /\ faults' \in 0 .. MaxFaults
    BY <1>2 DEF AwaitIntro, Remember, IInv, Typed
  <2>5. peer' \in [End -> End \cup {Nobody}]
    BY <1>2, <2>3 DEF IInv, Typed, End
  <2>6. UNCHANGED <<policy, served, relayUp, held, frames>>
    BY DEF AwaitIntro
  <2> HIDE DEF Who
  <2> QED BY <2>1, <2>2, <2>3, <2>4, <2>5, <2>6 DEF IInv, Typed, Points, Hears
<1>5. Paired'
  BY <1>1, <1>2 DEF AwaitIntro, IInv, Typed, Paired
<1>6. ServesListed'
  <2>1. peer'["gate"] = Who(e) /\ UNCHANGED <<policy, served>>
    BY <1>1 DEF AwaitIntro, IInv, Typed
  <2>2. policy = "table" =>
          Who(e) \in listed' \/ (Who(e) \in unsaved' /\ listed' = {})
    BY DEF AwaitIntro, Remember, Authorized
  <2> HIDE DEF Who
  <2> QED BY <1>1, <2>1, <2>2 DEF ServesListed
<1> QED BY <1>3, <1>4, <1>5, <1>6 DEF IInv

\* A command opens with the peer's keys, so the peer has signed it; initiators
\* are sent no command.
LEMMA CommandKeeps ==
  ASSUME IInv, NEW e \in End, Command(e)
  PROVE  IInv'
<1> USE SessionAssumption, Parties
<1>1. Head(inbox[e]).packet.signed = peer[e]
  BY PeerSigned DEF Command, ByPeer
<1>2. Boxes(Read(e)) /\ Head(inbox[e]) \in Box(e)
  BY BoxRead DEF Command, IInv
<1>3. e = "gate"
  BY <1>1, <1>2 DEF Box, IInv, Paired, End
<1>4. peer["gate"] \in Initiator /\ served' \subseteq {peer["gate"]}
  BY <1>1, <1>3 DEF Command, IInv, Typed, Paired, ServesListed
<1>5. Typed'
  BY <1>4 DEF Command, IInv, Typed, tableVars, relayVars
<1>6. Paired' /\ ServesListed'
  BY <1>4 DEF Command, IInv, Paired, ServesListed, SessionAssumption, End, tableVars, relayVars
<1> QED BY <1>2, <1>5, <1>6 DEF IInv, Command

LEMMA SendKeeps ==
  ASSUME IInv, NEW e \in End, Send(e)
  PROVE  IInv'
<1> USE SessionAssumption, Parties
<1> DEFINE sent == build_peer_frame(e, peer[e], pack_inner("TCP", peer[e]))
           d == Addressee(e, sent)
<1>1. e \in Initiator /\ peer[e] = "gate" /\ d = "gate"
  BY Addressed DEF Send, IInv, Paired
<1>2. Boxes(Post(inbox, "gate", Forwarded(e, "gate", sent)))
  BY <1>1, FromInitiatorInBox, BoxPost DEF IInv, End
<1> HIDE DEF sent, d
<1>3. \/ ws[e] # "cut" /\ UNCHANGED <<procVars, ws, known>>
         /\ (inbox' = inbox \/ inbox' = Post(inbox, "gate", Forwarded(e, "gate", sent)))
      \/ Goto(e, "pause3") /\ Close(e) /\ UNCHANGED <<peer, tableVars, served>>
  BY <1>1 DEF Send, sent, d
<1>4. Boxes(inbox')
  BY <1>2, <1>3, BoxClosed DEF IInv
<1>5. Typed'
  <2>1. frames' \in 0 .. MaxFrames /\ UNCHANGED <<relayUp, held, faults>>
    BY DEF Send, IInv, Typed
  <2>2. CASE Goto(e, "pause3") /\ Close(e) /\ UNCHANGED <<peer, tableVars, served>>
    <3>1. at' = [at EXCEPT ![e] = "pause3"] /\ at' \in [End -> Points] /\ Hears'
      BY <2>2, Moved DEF IInv, Points
    <3> QED BY <2>1, <2>2, <3>1 DEF Close, IInv, Typed, Points, Hears, tableVars
  <2>3. CASE UNCHANGED <<procVars, ws, known>>
    BY <2>1, <2>3 DEF IInv, Typed, procVars, tableVars
  <2> QED BY <1>3, <2>2, <2>3
<1>6. Paired' /\ ServesListed'
  BY <1>3 DEF Send, IInv, Paired, ServesListed, procVars, tableVars
<1> QED BY <1>4, <1>5, <1>6 DEF IInv

\* The relay's own messages.
LEMMA RelayKeeps ==
  ASSUME IInv, NEW e \in End,
         RelayGreets(e) \/ RelayRefuses(e) \/ \E i \in Initiator : RelayDelivers(i, e)
  PROVE  IInv'
<1> USE SessionAssumption, Parties
<1>1. CASE RelayGreets(e)
  <2> DEFINE ok == ServerFrame(e, pack_inner("HANDSHAKE_OK", e))
  <2>1. Opens(build_handshake_request(e)).body = e
    BY OpensAsSealed DEF Opens, build_handshake_request, pack_inner
  <2>2. <<ok>> \in Seq(Box(e))
    BY FromServerInBox DEF Cmd
  <2> HIDE DEF ok
  <2>3. known' = known \cup {e} /\ inbox' = [inbox EXCEPT ![e] = <<ok>>]
    BY <1>1, <2>1 DEF RelayGreets, ok
  <2>4. Boxes(inbox')
    BY <2>2, <2>3, BoxSet DEF IInv
  <2>5. Typed' /\ Paired' /\ ServesListed'
    BY <1>1, <2>3 DEF RelayGreets, IInv, Typed, Paired, ServesListed, procVars, tableVars
  <2> QED BY <2>4, <2>5 DEF IInv
<1>2. CASE RelayRefuses(e)
  <2> DEFINE no == ServerFrame(e, pack_inner("REFUSED", e))
  <2>1. <<no>> \in Seq(Box(e))
    BY FromServerInBox DEF Cmd
  <2> HIDE DEF no
  <2>2. inbox' = [inbox EXCEPT ![e] = <<no>>]
    BY <1>2 DEF RelayRefuses, no
  <2>3. Boxes(inbox')
    BY <2>1, <2>2, BoxSet DEF IInv
  <2>4. Typed' /\ Paired' /\ ServesListed'
    BY <1>2 DEF RelayRefuses, IInv, Typed, Paired, ServesListed, procVars, tableVars, relayVars
  <2> QED BY <2>3, <2>4 DEF IInv
<1>3. ASSUME NEW i \in Initiator, RelayDelivers(i, e)
      PROVE  IInv'
  <2> DEFINE intro == ServerFrame(e, pack_inner("INTRO_FROM", i))
  <2>1. intro \in Box(e)
    BY FromServerInBox DEF Cmd, End
  <2> HIDE DEF intro
  <2>2. Boxes(inbox')
    BY <1>3, <2>1, BoxPost DEF RelayDelivers, IInv, intro
  <2>3. Typed' /\ Paired' /\ ServesListed'
    BY <1>3 DEF RelayDelivers, IInv, Typed, Paired, ServesListed, procVars, tableVars
  <2> QED BY <2>2, <2>3 DEF IInv
<1> QED BY <1>1, <1>2, <1>3

LEMMA FailureKeeps ==
  ASSUME IInv, NEW E \in SUBSET End, NEW how \in {"cut", "mute"}, Fails(E, how),
         relayUp' \in BOOLEAN
  PROVE  IInv'
<1> USE SessionAssumption, Parties
<1>1. Boxes(inbox')
  <2>1. \A e \in End : <<>> \in Seq(Box(e))
    OBVIOUS
  <2>2. CASE inbox' = inbox
    BY <2>2 DEF IInv, Boxes, Box
  <2>3. CASE inbox' = [e \in End |-> IF e \in E THEN <<>> ELSE inbox[e]]
    <3>1. \A e \in End : inbox'[e] \in Seq(Box(e))
      BY <2>1, <2>3 DEF IInv, Boxes
    <3> QED BY <2>3, <3>1 DEF Boxes
  <2> QED BY <2>2, <2>3 DEF Fails
<1>2. Typed'
  BY DEF Fails, IInv, Typed, procVars, tableVars
<1>3. Paired' /\ ServesListed'
  BY DEF Fails, IInv, Paired, ServesListed, procVars, tableVars
<1> QED BY <1>1, <1>2, <1>3 DEF IInv

LEMMA RestKeeps ==
  ASSUME IInv, UNCHANGED vars \/ RelayStops \/ RelayStarts \/ \E e \in End : LinkFails(e)
  PROVE  IInv'
<1>1. CASE UNCHANGED vars
  BY <1>1 DEF vars, procVars, tableVars, relayVars, IInv, Typed, Boxes, Box, Paired, ServesListed
<1>2. CASE RelayStops
  BY <1>2, FailureKeeps DEF RelayStops
<1>3. CASE RelayStarts
  BY <1>3 DEF RelayStarts, procVars, tableVars, IInv, Typed, Boxes, Box, Paired, ServesListed
<1>4. CASE \E e \in End : LinkFails(e)
  <2>1. PICK e \in End : LinkFails(e)
    BY <1>4
  <2>2. PICK how \in Ways : Fails({e}, how)
    BY <2>1 DEF LinkFails
  <2>3. relayUp' \in BOOLEAN
    BY <2>1 DEF LinkFails, relayVars, IInv, Typed
  <2> QED BY <2>2, <2>3, FailureKeeps, SessionAssumption
<1> QED BY <1>1, <1>2, <1>3, <1>4

LEMMA StepKeeps == IInv /\ [Next]_vars => IInv'
<1> SUFFICES ASSUME IInv, [Next]_vars
             PROVE  IInv'
  OBVIOUS
<1>1. ASSUME NEW e \in End, Process(e) \/ Send(e) \/ Interrupt(e)
      PROVE  IInv'
  BY <1>1, MovesKeep, IntroduceKeeps, ReadsKeep, AcceptKeeps, CommandKeeps, SendKeeps
  DEF Process
<1>2. ASSUME NEW e \in End, Relay(e) \/ RelayRefuses(e)
      PROVE  IInv'
  BY <1>2, RelayKeeps DEF Relay
<1> QED BY <1>1, <1>2, RestKeeps DEF Next

LEMMA Inductive == Spec => []IInv
BY InitInv, StepKeeps, PTL DEF Spec

-----------------------------------------------------------------------------

\* The processes, the relay and every inbox stay within their types: an end in
\* session has a peer, and a websocket exists just where the code holds one.
THEOREM TypeCorrect == Spec => []TypeOK
<1>1. IInv => TypeOK
  BY BoxesNoEcho DEF IInv, TypeOK
<1> QED BY <1>1, Inductive, PTL

\* The gate carries out commands of its peer only, however often it reconnects.
\* Unless it was given that peer, or started with USBWS_NO_PINNING=1, its table
\* lists the peer, or is empty because it could not be written (tcp.rs 250-361).
THEOREM ServesListedInvariant == Spec => []ServesListed
<1>1. IInv => ServesListed
  BY DEF IInv
<1> QED BY <1>1, Inductive, PTL

-----------------------------------------------------------------------------
(* Lengths: whatever the length of what the relay or a peer sends, no      *)
(* slice that is taken of it is out of range, which would panic.           *)

\* verify_and_decrypt cuts a packet of any length only where it may.
LEMMA VerifyInRange ==
  ASSUME NEW n \in Nat
  PROVE  \A s \in VerifySlices(n) : InRange(s)
BY DEF VerifySlices, InRange, Sealed

\* The same for the header, the nonce and the packet of a frame.
LEMMA FrameInRange ==
  ASSUME NEW n \in Nat
  PROVE  \A s \in FrameSlices(n) : InRange(s)
<1>1. CASE n < 8 + Sealed(0)
  BY <1>1 DEF FrameSlices
<1>2. CASE ~(n < 8 + Sealed(0))
  <2>1. n - 8 \in Nat
    BY <1>2 DEF Sealed
  <2>2. \A s \in VerifySlices(n - 8) : InRange(s)
    BY <2>1, VerifyInRange
  <2>3. \A s \in {<<0, 8, n>>, <<8, 32, n>>, <<8, n, n>>} : InRange(s)
    BY <1>2 DEF InRange, Sealed
  <2> QED BY <1>2, <2>2, <2>3 DEF FrameSlices
<1> QED BY <1>1, <1>2

\* The command and the body of a message that has been opened.
LEMMA InnerInRange ==
  ASSUME NEW n \in Nat
  PROVE  \A s \in InnerSlices(n) \cup BodySlices(n) \cup PeerSlices(n) : InRange(s)
BY DEF InnerSlices, BodySlices, PeerSlices, InRange

\* Once a frame has passed the first check, what it opens to has a length.
LEMMA OpenedLength ==
  ASSUME NEW n \in Nat, ~(n < 8 + Sealed(0))
  PROVE  Opened(n - 8) \in Nat /\ (~(Opened(n - 8) < 3) => Opened(n - 8) - 3 \in Nat)
BY DEF Opened, Sealed

\* handle_incoming of tcp.rs takes no slice out of range, of a frame of any
\* length (tcp.rs:461-488).
THEOREM IncomingInRange ==
  \A n \in Nat : \A s \in IncomingSlices(n, BodySlices) : InRange(s)
<1> SUFFICES ASSUME NEW n \in Nat, NEW s \in IncomingSlices(n, BodySlices)
             PROVE  InRange(s)
  OBVIOUS
<1>1. CASE s \in FrameSlices(n)
  BY <1>1, FrameInRange
<1>2. CASE s \notin FrameSlices(n)
  <2>1. ~(n < 8 + Sealed(0))
    BY <1>2 DEF IncomingSlices
  <2>2. \/ s \in InnerSlices(Opened(n - 8))
        \/ ~(Opened(n - 8) < 3) /\ s \in BodySlices(Opened(n - 8) - 3)
    BY <1>2, <2>1 DEF IncomingSlices
  <2> QED BY <2>1, <2>2, OpenedLength, InnerInRange
<1> QED BY <1>1, <1>2

\* Nor does the wait for an initiator, which cuts two keys and a nick out of an
\* INTRO_FROM (tcp.rs:261-266, proto.rs:252-262).
THEOREM IntroductionInRange ==
  \A n \in Nat : \A s \in IncomingSlices(n, PeerSlices) : InRange(s)
<1> SUFFICES ASSUME NEW n \in Nat, NEW s \in IncomingSlices(n, PeerSlices)
             PROVE  InRange(s)
  OBVIOUS
<1>1. CASE s \in FrameSlices(n)
  BY <1>1, FrameInRange
<1>2. CASE s \notin FrameSlices(n)
  <2>1. ~(n < 8 + Sealed(0))
    BY <1>2 DEF IncomingSlices
  <2>2. \/ s \in InnerSlices(Opened(n - 8))
        \/ ~(Opened(n - 8) < 3) /\ s \in PeerSlices(Opened(n - 8) - 3)
    BY <1>2, <2>1 DEF IncomingSlices
  <2> QED BY <2>1, <2>2, OpenedLength, InnerInRange
<1> QED BY <1>1, <1>2

\* The length checks refuse no frame that the builders make: it opens to a body
\* of the length that was put in, down to the empty one.
THEOREM FramesFit ==
  \A body \in Nat :
    /\ ~(FrameLength(body) < 8 + Sealed(0))
    /\ Opened(FrameLength(body) - 8) = 3 + body
BY DEF FrameLength, Sealed, Opened

===============================================================================
