-------------------------- MODULE UartScriptsProofs ---------------------------
(***************************************************************************)
(* Theorems about UartScripts: any number of runs of the two scripts on    *)
(* one machine, and of signals.                                            *)
(***************************************************************************)
EXTENDS UartScripts, TLAPS

-----------------------------------------------------------------------------
(* Types.                                                                  *)

LEMMA TypeInit == Init => TypeOK
BY UartAssumption DEF Init, TypeOK, Body, Teardown

\* Killing processes makes no tunnel that was not there, and frees the device
\* at most.
LEMMA PkillType ==
  ASSUME TypeOK, NEW E, Pkill(E)
  PROVE  /\ tunnel' \in [Script -> {"none", "forked", "started", "ready", "dead"}]
         /\ port' \in Script \cup {NoScript} /\ (port' = port \/ port' = NoScript)
         /\ \A s \in Script : tunnel[s] # "none" => tunnel'[s] # "none"
BY DEF TypeOK, Pkill

LEMMA TypeScript ==
  ASSUME TypeOK, NEW s \in Script,
         \/ KillStale(s) \/ DetachStale(s) \/ Launch(s) \/ SetPid(s) \/ Check(s)
         \/ List(s) \/ Attach(s) \/ AttachFailed(s) \/ FindTty(s) \/ Stream(s)
         \/ Probe(s) \/ CatOver(s) \/ Over(s)
  PROVE  TypeOK'
<1>0. pc[s] \notin Teardown => back[s] = "none"
  BY DEF TypeOK
<1>1. CASE KillStale(s)
  <2>1. Pkill(Running)
    BY <1>1 DEF KillStale
  <2> QED BY <1>1, <2>1, PkillType DEF KillStale, Step, TypeOK, Body, Teardown
<1>2. CASE DetachStale(s)
  BY <1>2 DEF DetachStale, Detach, Step, TypeOK, Body, Teardown
<1>3. CASE Launch(s)
  BY <1>0, <1>3 DEF Launch, Step, TypeOK, Body, Teardown
<1>4. CASE SetPid(s)
  BY <1>4 DEF SetPid, Step, TypeOK, Body, Teardown
<1>5. CASE Check(s)
  BY <1>5 DEF Check, Step, TypeOK, Body, Teardown
<1>6. CASE List(s) \/ AttachFailed(s)
  BY <1>6 DEF List, AttachFailed, Step, TypeOK, Body, Teardown
<1>7. CASE Attach(s)
  BY <1>7 DEF Attach, Step, TypeOK, Body, Teardown
<1>8. CASE FindTty(s) \/ Stream(s)
  BY <1>8 DEF FindTty, Stream, Step, TypeOK, Body, Teardown
<1>9. CASE Probe(s) \/ CatOver(s) \/ Over(s)
  BY <1>9 DEF Probe, CatOver, Over, Step, TypeOK, Body, Teardown
<1> QED BY <1>1, <1>2, <1>3, <1>4, <1>5, <1>6, <1>7, <1>8, <1>9

LEMMA TypeTeardown ==
  ASSUME TypeOK, NEW s \in Script, Trap(s) \/ Killed(s) \/ DetachAll(s) \/ Stop(s)
  PROVE  TypeOK'
<1>1. CASE Trap(s)
  BY <1>1 DEF Trap, Ended, TypeOK, Body, Teardown
<1>2. CASE Killed(s)
  BY <1>2 DEF Killed, Ended, TypeOK, Body, Teardown
<1>3. CASE DetachAll(s)
  BY <1>3 DEF DetachAll, Detach, Step, TypeOK, Body, Teardown
<1>4. CASE Stop(s)
  <2>1. Pkill(Running \cup {t \in {s} : usbwsPid[t]})
    BY <1>4 DEF Stop
  <2>2. /\ pc' = [pc EXCEPT ![s] = IF back[s] = "none" THEN "done" ELSE back[s]]
        /\ back' = [back EXCEPT ![s] = "none"]
        /\ UNCHANGED <<usbwsPid, signal, signals>>
    BY <1>4 DEF Stop, Step
  <2> QED BY <2>1, <2>2, PkillType DEF TypeOK, Body, Teardown
<1> QED BY <1>1, <1>2, <1>3, <1>4

LEMMA TypeNext == TypeOK /\ [Next]_vars => TypeOK'
<1> SUFFICES ASSUME TypeOK, [Next]_vars PROVE TypeOK'
  OBVIOUS
<1>1. CASE UNCHANGED vars
  BY <1>1 DEF vars, TypeOK
<1>2. ASSUME NEW s \in Script, Exec(s) \/ Ready(s)
      PROVE  TypeOK'
  BY <1>2 DEF Exec, Ready, TypeOK
<1>3. ASSUME NEW s \in Script, Die(s)
      PROVE  TypeOK'
  <2>1. Pkill({s})
    BY <1>3 DEF Die
  <2> QED BY <1>3, <2>1, PkillType DEF Die, TypeOK
<1>4. ASSUME NEW s \in Script, Signal(s)
      PROVE  TypeOK'
  BY <1>4, UartAssumption DEF Signal, TypeOK
<1> QED BY <1>1, <1>2, <1>3, <1>4, TypeScript, TypeTeardown DEF Next, Bash

\* Types; only read_wsuart.sh returns from its trap, and from teardown only; a
\* pid is noted after its process was launched, also when a trap came between.
THEOREM TypeCorrect == Spec => []TypeOK
BY TypeInit, TypeNext, PTL DEF Spec

-----------------------------------------------------------------------------
(* Nothing is left behind.                                                 *)

\* An ended run has no device, and the tunnel it knows of is stopped.
Clean(s) == pc[s] = "done" => port # s /\ (usbwsPid[s] => ~Alive(s))

\* No tunnel runs before the launch, also when a trap comes before it.
Unlaunched(s) ==
  pc[s] \in {"pkill", "clear", "launch"} \/ back[s] \in {"pkill", "clear", "launch"}
    => tunnel[s] = "none"

\* An attached device goes through a tunnel that is ready.
Carried == port # NoScript => Reachable

IInv == TypeOK /\ Carried /\ \A s \in Script : Clean(s) /\ Unlaunched(s)

\* Killing frees the device where it kills the tunnel it goes through.
LEMMA PkillCarried ==
  ASSUME TypeOK, Carried, NEW E, Pkill(E)
  PROVE  Carried' /\ (Running \subseteq E => port' = NoScript)
BY DEF TypeOK, Carried, Reachable, Pkill, Running, Runs

LEMMA CleanOwn ==
  ASSUME IInv, NEW s \in Script, Bash(s) \/ Exec(s) \/ Ready(s) \/ Die(s) \/ Signal(s)
  PROVE  Clean(s)'
<1> USE DEF Clean, IInv
<1>1. CASE KillStale(s) \/ DetachStale(s) \/ Launch(s) \/ SetPid(s) \/ Check(s)
  BY <1>1 DEF KillStale, DetachStale, Launch, SetPid, Check, Step, TypeOK
<1>2. CASE List(s) \/ Attach(s) \/ AttachFailed(s) \/ FindTty(s) \/ Stream(s)
  BY <1>2 DEF List, Attach, AttachFailed, FindTty, Stream, Step, TypeOK
<1>3. CASE Probe(s) \/ CatOver(s) \/ Over(s) \/ DetachAll(s)
  BY <1>3 DEF Probe, CatOver, Over, DetachAll, Step, TypeOK
<1>4. CASE Trap(s) \/ Killed(s)
  BY <1>4 DEF Trap, Killed, TypeOK
<1>5. CASE Stop(s)
  <2>1. Pkill(Running \cup {t \in {s} : usbwsPid[t]})
    BY <1>5 DEF Stop
  <2>2. port' # s
    BY <2>1, PkillCarried, UartAssumption
  <2>3. usbwsPid[s] => tunnel'[s] = "dead"
    BY <2>1 DEF Pkill
  <2>4. usbwsPid' = usbwsPid
    BY <1>5 DEF Stop
  <2> QED BY <2>2, <2>3, <2>4 DEF Alive, Runs
<1>6. CASE Exec(s) \/ Ready(s)
  BY <1>6 DEF Exec, Ready, Alive, Runs, TypeOK
<1>7. CASE Die(s)
  BY <1>7, UartAssumption DEF Die, Pkill, Alive, Runs, TypeOK
<1>8. CASE Signal(s)
  BY <1>8 DEF Signal, Alive, Runs
<1> QED BY <1>1, <1>2, <1>3, <1>4, <1>5, <1>6, <1>7, <1>8 DEF Bash

LEMMA UnlaunchedOwn ==
  ASSUME IInv, NEW s \in Script, Bash(s) \/ Exec(s) \/ Ready(s) \/ Die(s) \/ Signal(s)
  PROVE  Unlaunched(s)'
<1> USE DEF Unlaunched, IInv
<1>1. CASE KillStale(s)
  BY <1>1 DEF KillStale, Pkill, Running, Runs, Step, TypeOK
<1>2. CASE DetachStale(s) \/ Launch(s) \/ SetPid(s) \/ Check(s) \/ List(s)
  BY <1>2 DEF DetachStale, Launch, SetPid, Check, List, Step, TypeOK, Teardown
<1>3. CASE Attach(s) \/ AttachFailed(s) \/ FindTty(s) \/ Stream(s) \/ Probe(s)
           \/ CatOver(s) \/ Over(s) \/ DetachAll(s)
  BY <1>3 DEF Attach, AttachFailed, FindTty, Stream, Probe, CatOver, Over, DetachAll, Step,
              TypeOK, Teardown
<1>4. CASE Trap(s) \/ Killed(s)
  BY <1>4 DEF Trap, Killed, TypeOK, Teardown
<1>5. CASE Stop(s)
  <2>1. Pkill(Running \cup {t \in {s} : usbwsPid[t]})
    BY <1>5 DEF Stop
  <2>2. tunnel[s] = "none" => tunnel'[s] = "none"
    BY <2>1 DEF Pkill, Running, Runs, TypeOK
  <2> QED BY <1>5, <2>2 DEF Stop, Step, TypeOK
<1>6. CASE Exec(s) \/ Ready(s) \/ Signal(s)
  BY <1>6 DEF Exec, Ready, Signal, TypeOK
<1>7. CASE Die(s)
  BY <1>7 DEF Die, Pkill, Runs, TypeOK
<1> QED BY <1>1, <1>2, <1>3, <1>4, <1>5, <1>6, <1>7 DEF Bash

LEMMA CarriedNext == IInv /\ [Next]_vars => Carried'
<1> SUFFICES ASSUME IInv, [Next]_vars PROVE Carried'
  OBVIOUS
<1> USE DEF IInv
<1>1. CASE UNCHANGED vars
  BY <1>1 DEF vars, Carried, Reachable
<1>2. ASSUME NEW s \in Script, KillStale(s) \/ Stop(s) \/ Die(s)
      PROVE  Carried'
  BY <1>2, PkillCarried DEF KillStale, Stop, Die
<1>3. ASSUME NEW s \in Script, Launch(s) \/ Exec(s) \/ Ready(s)
      PROVE  Carried'
  <2>1. port' = port /\ (tunnel[s] # "ready" \/ tunnel' = tunnel)
    BY <1>3 DEF Launch, Exec, Ready, Step, Unlaunched
  <2>2. \A t \in Script : t # s => tunnel'[t] = tunnel[t]
    BY <1>3 DEF Launch, Exec, Ready, TypeOK
  <2> QED BY <2>1, <2>2 DEF Carried, Reachable
<1>4. ASSUME NEW s \in Script, DetachStale(s) \/ DetachAll(s) \/ Attach(s)
      PROVE  Carried'
  BY <1>4 DEF DetachStale, DetachAll, Detach, Attach, Carried, Reachable
<1>5. ASSUME NEW s \in Script,
             \/ SetPid(s) \/ Check(s) \/ List(s) \/ AttachFailed(s) \/ FindTty(s) \/ Stream(s)
             \/ Probe(s) \/ CatOver(s) \/ Over(s) \/ Trap(s) \/ Killed(s) \/ Signal(s)
      PROVE  Carried'
  BY <1>5 DEF SetPid, Check, List, AttachFailed, FindTty, Stream, Probe, CatOver, Over, Trap,
              Killed, Signal, Carried, Reachable
<1> QED BY <1>1, <1>2, <1>3, <1>4, <1>5 DEF Next, Bash

\* A step of another run leaves this one where it is; it frees the device or
\* takes it itself, and revives no tunnel.
LEMMA StepOfOther ==
  ASSUME TypeOK, NEW s \in Script, NEW t \in Script, t # s,
         Bash(t) \/ Exec(t) \/ Ready(t) \/ Die(t) \/ Signal(t)
  PROVE  /\ pc'[s] = pc[s] /\ back'[s] = back[s] /\ usbwsPid'[s] = usbwsPid[s]
         /\ port' = s => port = s
         /\ (~Alive(s) => ~Alive(s)') /\ (tunnel[s] = "none" => tunnel'[s] = "none")
<1> USE DEF TypeOK
<1>1. ASSUME NEW E, Pkill(E)
      PROVE  (port' = s => port = s) /\ (~Alive(s) => ~Alive(s)')
  BY <1>1, UartAssumption DEF Pkill, Alive, Runs
<1>2. ASSUME NEW E, Pkill(E), s \notin E \/ E \subseteq Running \/ E = Running \cup {u \in {t} : usbwsPid[u]}
      PROVE  tunnel[s] = "none" => tunnel'[s] = "none"
  BY <1>2 DEF Pkill, Running, Runs
<1>3. CASE KillStale(t) \/ Stop(t) \/ Die(t)
  BY <1>1, <1>2, <1>3 DEF KillStale, Stop, Die, Step
<1>4. CASE DetachStale(t) \/ Launch(t) \/ SetPid(t) \/ Check(t) \/ DetachAll(t)
  BY <1>4, UartAssumption
  DEF DetachStale, Launch, SetPid, Check, DetachAll, Detach, Step, Alive, Runs
<1>5. CASE List(t) \/ Attach(t) \/ AttachFailed(t) \/ FindTty(t) \/ Stream(t) \/ Probe(t)
           \/ CatOver(t) \/ Over(t)
  BY <1>5 DEF List, Attach, AttachFailed, FindTty, Stream, Probe, CatOver, Over, Step, Alive, Runs
<1>6. CASE Trap(t) \/ Killed(t) \/ Exec(t) \/ Ready(t) \/ Signal(t)
  BY <1>6 DEF Trap, Killed, Exec, Ready, Signal, Alive, Runs
<1> QED BY <1>3, <1>4, <1>5, <1>6 DEF Bash

LEMMA InitInv == Init => IInv
BY TypeInit DEF Init, IInv, Clean, Unlaunched, Carried

LEMMA StepKeeps == IInv /\ [Next]_vars => IInv'
<1> SUFFICES ASSUME IInv, [Next]_vars PROVE IInv'
  OBVIOUS
<1>1. TypeOK'
  BY TypeNext DEF IInv
<1>2. Carried'
  BY CarriedNext
<1>3. ASSUME NEW s \in Script
      PROVE  Clean(s)' /\ Unlaunched(s)'
  <2>0. Clean(s) /\ Unlaunched(s)
    BY DEF IInv
  <2>1. CASE UNCHANGED vars
    BY <2>0, <2>1 DEF vars, Clean, Unlaunched, Alive, Runs
  <2>2. ASSUME NEW t \in Script, t # s, Bash(t) \/ Exec(t) \/ Ready(t) \/ Die(t) \/ Signal(t)
        PROVE  Clean(s)' /\ Unlaunched(s)'
    BY <2>0, <2>2, StepOfOther DEF IInv, Clean, Unlaunched
  <2> QED BY <2>1, <2>2, CleanOwn, UnlaunchedOwn DEF Next
<1> QED BY <1>1, <1>2, <1>3 DEF IInv

\* A run that has come to its end has its device detached and the tunnel whose
\* pid it noted stopped, whatever command a signal interrupted and whether its
\* usbip commands failed or not.
THEOREM NothingLeftBehind == Spec => []NothingLeft
<1>1. IInv => NothingLeft
  BY DEF IInv, Clean, NothingLeft
<1> QED BY <1>1, InitInv, StepKeeps, PTL DEF Spec
===============================================================================
