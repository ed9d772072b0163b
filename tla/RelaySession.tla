----------------------------- MODULE RelaySession -----------------------------
(***************************************************************************)
(* How the ends of a tunnel find each other through the relay: relay.rs    *)
(* (connect_and_handshake, introduce_and_subscribe), the reconnect loop of *)
(* tcp.rs's session_loop, and the loop in which `tcp-connect --accept`     *)
(* waits for an initiator.  The bridge of main.rs reconnects in the same   *)
(* way.  Two initiators, home and a guest, know the gate's invite.  What   *)
(* flows once two ends serve is TcpTunnel's matter; here one frame stands  *)
(* for a command of an initiator.                                          *)
(*                                                                         *)
(* The relay is external; it passes a message on when its addressee has    *)
(* completed a handshake, loses it otherwise, and may hold introductions.  *)
(***************************************************************************)
EXTENDS WireFormat, Sequences

CONSTANTS
  Holds,      \* whether the relay holds an introduction until it can deliver it
  Ways,       \* how a link may fail: "cut" (both sides notice), "mute" (no sign)
  Fragile,    \* ends whose link may fail and whose handshake may be refused
  Users,      \* ends whose user may press Ctrl-C
  Tables,     \* what the authorized table may hold when an accepting gate starts
  Nobody,     \* no peer
  MaxFaults,  \* bound: link failures, refused handshakes, relay restarts, and
              \* failures to read or to write the table
  MaxFrames   \* bound: commands the initiators send

Initiator == {"home", "guest"}
End == Initiator \cup {"gate"}

ASSUME SessionAssumption ==
  /\ Holds \in BOOLEAN /\ Ways \subseteq {"cut", "mute"}
  /\ Fragile \subseteq End /\ Users \subseteq End
  /\ Tables \subseteq SUBSET Initiator /\ Nobody \notin End
  /\ MaxFaults \in Nat /\ MaxFrames \in Nat

VARIABLES
  at,        \* where each process is
  peer,      \* its peer; a gate without one is waiting for an initiator
  heard,     \* whether tokio has replaced the default action of SIGINT
  policy,    \* whom the gate takes: its --peer ("peer"), whom its table allows
             \* ("table"), or anybody ("none", USBWS_NO_PINNING=1)
  listed,    \* the gate's authorized table; {} if it has none or ignores it
  unsaved,   \* history: initiators accepted though they could not be noted
  served,    \* history: whose commands the gate has carried out
  ws,        \* a process's websocket
  inbox,     \* what the relay has sent it on that websocket
  relayUp,
  known,     \* ends whose handshake the relay has completed
  held,      \* introductions the relay holds: <<from, to>>
  frames, faults

tableVars == <<policy, listed, unsaved>>
procVars  == <<at, peer, heard, tableVars, served>>
relayVars == <<relayUp, known, held>>
vars == <<procVars, ws, inbox, relayVars, frames, faults>>

ListeningNoPause == {"serve", "await"}  \* mutant: a plain backoff(5)

\* Where a select! polls ctrl_c() along with the rest.
Listening == {"serve", "await", "pause5"}

Typed ==
  /\ at \in [End -> {"dial", "hello", "serve", "await", "pause5", "pause3", "exit"}]
  /\ peer \in [End -> End \cup {Nobody}] /\ heard \in [End -> BOOLEAN]
  /\ policy \in {"peer", "table", "none"}
  /\ listed \subseteq Initiator /\ unsaved \subseteq Initiator
  /\ served \subseteq Initiator
  /\ \A e \in End : /\ at[e] = "serve" => peer[e] # Nobody
                    /\ at[e] = "await" => peer[e] = Nobody
                    /\ at[e] \in Listening => heard[e]
  /\ ws \in [End -> {"none", "up", "cut", "mute"}]
  /\ \A e \in End : ws[e] = "none" <=> at[e] \notin {"hello", "serve", "await"}
  /\ relayUp \in BOOLEAN /\ known \subseteq End /\ held \subseteq Initiator \X End
  /\ frames \in 0 .. MaxFrames /\ faults \in 0 .. MaxFaults

\* Nobody is sent what it signed itself.
NoEcho == \A e \in End : \A k \in DOMAIN inbox[e] : inbox[e][k].packet.signed # e

TypeOK == Typed /\ NoEcho

\* The gate has a --peer, or accepts an initiator.
Init ==
  /\ at = [e \in End |-> "dial"]
  /\ policy \in {"peer", "table", "none"}
  /\ peer = [e \in End |-> IF e # "gate" THEN "gate"
                          ELSE IF policy = "peer" THEN "home" ELSE Nobody]
  /\ listed \in IF policy = "table" THEN Tables ELSE {{}}
  /\ unsaved = {}
  /\ heard = [e \in End |-> FALSE]
  /\ served = {}
  /\ ws = [e \in End |-> "none"]
  /\ inbox = [e \in End |-> <<>>]
  /\ relayUp = TRUE /\ known = {} /\ held = {}
  /\ frames = 0 /\ faults = 0

-----------------------------------------------------------------------------

Goto(e, point) ==
  /\ at' = [at EXCEPT ![e] = point]
  /\ heard' = [heard EXCEPT ![e] = @ \/ point \in Listening]

\* The websocket is closed or dropped; the relay forgets the session.
Close(e) == /\ ws' = [ws EXCEPT ![e] = "none"]
            /\ inbox' = [inbox EXCEPT ![e] = <<>>]
            /\ known' = known \ {e}

\* The relay passes a message on to an end with a session and a live link.
Reaches(d) == d \in known /\ ws[d] = "up"

Post(box, d, frame) == IF Reaches(d) THEN [box EXCEPT ![d] = Append(@, frame)] ELSE box

\* The next message, as a frame of the relay and as one of the peer.
Arrived(e) == inbox[e] # <<>>
ByServer(e) == decode_server_frame(Head(inbox[e]), e)
ByPeer(e)   == decode_peer_frame(Head(inbox[e]), e, peer[e])
Read(e)     == [inbox EXCEPT ![e] = Tail(@)]

\* connect_async, and the handshake request.
Dial(e) ==
  /\ at[e] = "dial" /\ relayUp
  /\ Goto(e, "hello")
  /\ ws' = [ws EXCEPT ![e] = "up"]
  /\ UNCHANGED <<peer, tableVars, served, inbox, relayVars, frames, faults>>

DialFailed(e) ==
  /\ at[e] = "dial" /\ ~relayUp
  /\ Goto(e, "pause5")
  /\ UNCHANGED <<peer, tableVars, served, ws, inbox, relayVars, frames, faults>>

\* The one message ws.next() awaits is not HANDSHAKE_OK, an error, or the end.
HelloFailed(e) ==
  /\ at[e] = "hello"
  /\ IF Arrived(e) THEN ByServer(e).cmd # "HANDSHAKE_OK" ELSE ws[e] = "cut"
  /\ Goto(e, "pause5")
  /\ Close(e)
  /\ UNCHANGED <<peer, tableVars, served, relayUp, held, frames, faults>>

HelloOk(e) == at[e] = "hello" /\ Arrived(e) /\ ByServer(e).cmd = "HANDSHAKE_OK"

\* An end with a peer introduces itself, whether or not these sends succeed, and
\* prints "tunnel ready"; one without a peer awaits an initiator.
HelloIntroduce(e) ==
  /\ HelloOk(e) /\ peer[e] # Nobody
  /\ Goto(e, "serve")
  /\ LET intro == build_server_bound(e, pack_inner("INTRODUCE", peer[e]))
         d == verify_and_decrypt(intro.packet, Server, e).body
     IN  /\ inbox' = IF ws[e] # "up" THEN Read(e)
                     ELSE Post(Read(e), d, ServerFrame(d, pack_inner("INTRO_FROM", e)))
         /\ held' = IF Holds /\ ws[e] = "up" /\ ~Reaches(d) /\ e \in Initiator
                    THEN held \cup {<<e, d>>} ELSE held
  /\ UNCHANGED <<peer, tableVars, served, ws, relayUp, known, frames, faults>>

HelloAwait(e) ==
  /\ HelloOk(e) /\ peer[e] = Nobody
  /\ Goto(e, "await")
  /\ inbox' = Read(e)
  /\ UNCHANGED <<peer, tableVars, served, ws, relayVars, frames, faults>>

\* CMD_INTRO_FROM, and the party decode_intro_from makes of it.
Introduced(e) == at[e] = "await" /\ Arrived(e) /\ ByServer(e).cmd = "INTRO_FROM"
Who(e) == ByServer(e).body

AuthorizedAny(p) == TRUE       \* mutant: whoever knows the invite is accepted

\* Whom authorize_initiator accepts if it can read the table.
Authorized(p) == policy = "none" \/ listed = {} \/ p \in listed

\* Trusted on first use, an initiator is added to the empty table.  Where that
\* fails, perhaps behind a written line, the gate warns and accepts all the same.
Remember(p) ==
  \/ /\ policy = "none" \/ listed # {}
     /\ UNCHANGED <<listed, unsaved, faults>>
  \/ /\ policy # "none" /\ listed = {}
     /\ \/ listed' = {p} /\ UNCHANGED <<unsaved, faults>>
        \/ /\ faults < MaxFaults /\ faults' = faults + 1
           /\ listed' \in {{}, {p}}
           /\ unsaved' = unsaved \cup {p}

AwaitIntroForgets(e) ==        \* mutant: back to 'wait, without the initiator
  /\ Introduced(e) /\ Authorized(Who(e))
  /\ Goto(e, "dial")
  /\ Close(e)
  /\ UNCHANGED <<peer, tableVars, served, relayUp, held, frames, faults>>

AwaitIntroKeeps(e) ==          \* mutant: the waiting websocket is never closed
  /\ Introduced(e) /\ Authorized(Who(e))
  /\ peer' = [peer EXCEPT ![e] = Who(e)]
  /\ Remember(Who(e))
  /\ Goto(e, "dial")
  /\ inbox' = Read(e)
  /\ UNCHANGED <<policy, served, ws, relayVars, frames>>

\* authorize_initiator accepts.  The websocket is closed and the session starts
\* from a new one, at once.
AwaitIntro(e) ==
  /\ Introduced(e) /\ Authorized(Who(e))
  /\ peer' = [peer EXCEPT ![e] = Who(e)]
  /\ Remember(Who(e))
  /\ Goto(e, "dial")
  /\ Close(e)
  /\ UNCHANGED <<policy, served, relayUp, held, frames>>

\* It rejects, an unlisted initiator or, if the table cannot be read, any: "keep
\* waiting for another".
AwaitReject(e) ==
  /\ Introduced(e)
  /\ \/ ~Authorized(Who(e)) /\ UNCHANGED faults
     \/ policy # "none" /\ faults < MaxFaults /\ faults' = faults + 1
  /\ inbox' = Read(e)
  /\ UNCHANGED <<procVars, ws, relayVars, frames>>

\* A frame of no meaning here is dropped: of a peer before there is one, of
\* another than the peer, or of the relay during the session.
Incoming(e) ==
  /\ Arrived(e)
  /\ \/ at[e] = "await" /\ ByServer(e).cmd # "INTRO_FROM"
     \/ at[e] = "serve" /\ ByPeer(e).cmd = "none"
  /\ inbox' = Read(e)
  /\ UNCHANGED <<procVars, ws, relayVars, frames, faults>>

\* The peer's command is carried out.
Command(e) ==
  /\ at[e] = "serve" /\ Arrived(e) /\ ByPeer(e).cmd # "none"
  /\ served' = served \cup {Head(inbox[e]).packet.signed}
  /\ inbox' = Read(e)
  /\ UNCHANGED <<at, peer, heard, tableVars, ws, relayVars, frames, faults>>

NoticeIgnored(e) ==            \* mutant: an error does not break the loop
  /\ at[e] \in {"serve", "await"} /\ ws[e] = "cut" /\ ~Arrived(e)
  /\ UNCHANGED vars

NoticeForgets(e) ==            \* mutant: a lost link sends the gate back to 'wait
  /\ at[e] \in {"serve", "await"} /\ ws[e] = "cut" /\ ~Arrived(e)
  /\ Goto(e, "pause3")
  /\ peer' = [peer EXCEPT ![e] = IF e = "gate" THEN Nobody ELSE @]
  /\ Close(e)
  /\ UNCHANGED <<tableVars, served, relayUp, held, frames, faults>>

\* ws.next() yields Close, an error or None: out of the loop.
Notice(e) ==
  /\ at[e] \in {"serve", "await"} /\ ws[e] = "cut" /\ ~Arrived(e)
  /\ Goto(e, "pause3")
  /\ Close(e)
  /\ UNCHANGED <<peer, tableVars, served, relayUp, held, frames, faults>>

\* An initiator puts a command from its out queue on the wire.  A failed send
\* breaks the loop; a dead link may swallow the frame.
Send(e) ==
  /\ e \in Initiator /\ at[e] = "serve" /\ frames < MaxFrames
  /\ frames' = frames + 1
  /\ LET frame == build_peer_frame(e, peer[e], pack_inner("TCP", peer[e]))
         d == Addressee(e, frame)
     IN  \/ /\ ws[e] # "cut"
            /\ inbox' = IF ws[e] = "up" THEN Post(inbox, d, Forwarded(e, d, frame)) ELSE inbox
            /\ UNCHANGED <<procVars, ws, known>>
         \/ /\ ws[e] = "cut"
            /\ Goto(e, "pause3") /\ Close(e)
            /\ UNCHANGED <<peer, tableVars, served>>
  /\ UNCHANGED <<relayUp, held, faults>>

\* backoff(5), which listens to Ctrl-C, or backoff(3), which does not.
PauseOver(e) ==
  /\ at[e] \in {"pause5", "pause3"}
  /\ Goto(e, "dial")
  /\ UNCHANGED <<peer, tableVars, served, ws, inbox, relayVars, frames, faults>>

\* Ctrl-C where somebody listens, or before tokio ever did, ends the process;
\* elsewhere it is lost (a step without effect).
Interrupt(e) ==
  /\ e \in Users /\ at[e] # "exit"
  /\ at[e] \in Listening \/ ~heard[e]
  /\ Goto(e, "exit")
  /\ Close(e)
  /\ UNCHANGED <<peer, tableVars, served, relayUp, held, frames, faults>>

-----------------------------------------------------------------------------
(* The relay and the network.                                              *)

Waiting(e) == at[e] = "hello" /\ ws[e] = "up" /\ e \notin known /\ ~Arrived(e)

RelayGreets(e) ==
  /\ Waiting(e)
  /\ LET who == Opens(build_handshake_request(e)).body IN
     /\ known' = known \cup {who}
     /\ inbox' = [inbox EXCEPT ![who] = <<ServerFrame(who, pack_inner("HANDSHAKE_OK", who))>>]
  /\ UNCHANGED <<procVars, ws, relayUp, held, frames, faults>>

RelayRefuses(e) ==
  /\ e \in Fragile /\ Waiting(e) /\ faults < MaxFaults /\ faults' = faults + 1
  /\ inbox' = [inbox EXCEPT ![e] = <<ServerFrame(e, pack_inner("REFUSED", e))>>]
  /\ UNCHANGED <<procVars, ws, relayVars, frames>>

RelayDelivers(i, e) ==
  /\ <<i, e>> \in held /\ Reaches(e)
  /\ held' = held \ {<<i, e>>}
  /\ inbox' = Post(inbox, e, ServerFrame(e, pack_inner("INTRO_FROM", i)))
  /\ UNCHANGED <<procVars, ws, relayUp, known, frames, faults>>

\* What has arrived before the link failed may still be read.
Fails(E, how) ==
  /\ faults < MaxFaults /\ faults' = faults + 1
  /\ ws' = [e \in End |-> IF e \in E /\ ws[e] # "none" THEN how ELSE ws[e]]
  /\ inbox' \in {inbox, [e \in End |-> IF e \in E THEN <<>> ELSE inbox[e]]}
  /\ known' = known \ E
  /\ UNCHANGED <<procVars, held, frames>>

LinkFails(e) ==
  /\ e \in Fragile /\ ws[e] = "up"
  /\ \E how \in Ways : Fails({e}, how)
  /\ UNCHANGED relayUp

RelayStops   == relayUp /\ Fails(End, "cut") /\ relayUp' = FALSE
RelayStarts  == /\ ~relayUp /\ relayUp' = TRUE
                /\ UNCHANGED <<procVars, ws, inbox, known, held, frames, faults>>

-----------------------------------------------------------------------------

Process(e) == \/ Dial(e) \/ DialFailed(e) \/ HelloFailed(e) \/ HelloIntroduce(e)
              \/ HelloAwait(e) \/ AwaitIntro(e) \/ AwaitReject(e) \/ Incoming(e)
              \/ Command(e) \/ Notice(e) \/ PauseOver(e)
Relay(e) == RelayGreets(e) \/ \E i \in Initiator : RelayDelivers(i, e)

Next == \/ \E e \in End : \/ Process(e) \/ Send(e) \/ Interrupt(e)
                         \/ Relay(e) \/ RelayRefuses(e) \/ LinkFails(e)
        \/ RelayStops \/ RelayStarts

Spec == Init /\ [][Next]_vars

\* Processes go on, and a relay that is there answers.  It may stay away.
Fairness == \A e \in End : WF_vars(Process(e)) /\ WF_vars(Relay(e))

FairSpec == Spec /\ Fairness

RelayReturns == []<>relayUp
NobodyStops  == [](\A e \in End : at[e] # "exit")

-----------------------------------------------------------------------------

\* The gate carries out commands of one initiator only, and stays with it through
\* reconnections, whoever else knows its invite.  A gate that consults its table
\* has that initiator on it (tcp.rs:197-198 "only listed initiators are
\* accepted"), with one exception: the table was empty and could not be written,
\* so that nobody is listed (341-344).  Under USBWS_NO_PINNING=1 it is whoever
\* came first (319-326).  AuthorizedTable has the table's other writers.
ServesListed ==
  /\ served \subseteq {peer["gate"]}
  /\ policy = "table" /\ peer["gate"] # Nobody =>
       \/ peer["gate"] \in listed
       \/ peer["gate"] \in unsaved /\ listed = {}

\* tcp.rs:378-379 "Reconnects on failure (the tunnel survives relay restarts":
\* whatever has failed before, an end is connected again, in session or waiting
\* for an initiator, unless the relay stays away or the user stops it.
Live(e) == at[e] \in {"serve", "await"} /\ ws[e] = "up"
Reconnects == RelayReturns => \A e \in End : []<>(Live(e) \/ at[e] = "exit")

\* Once the gate knows its peer, given or accepted, the two end up in session
\* for good, whatever link fails and relay restarts or refuses when.
Met == /\ peer["gate"] # Nobody
       /\ \A e \in {peer["gate"], "gate"} : at[e] = "serve" /\ ws[e] = "up"
Meet == RelayReturns /\ NobodyStops => [](peer["gate"] # Nobody => <>[]Met)

\* Whoever starts first and whoever else is rejected meanwhile, a gate that
\* accepts finds an initiator while nothing fails, if the relay holds
\* introductions (tcp.rs:271 "rejected - keep waiting for another").
Accepts == [](faults = 0) /\ NobodyStops => <>(peer["gate"] # Nobody)

\* A process comes by a point where a Ctrl-C ends it again and again, so that a
\* user who keeps pressing gets through, also while the relay is away for good.
Stoppable ==
  \A e \in End : []<>(at[e] \in Listening \/ ~heard[e] \/ at[e] = "exit")

=============================================================================
