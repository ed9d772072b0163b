--------------------------- MODULE UsbwsMountProofs ---------------------------
(***************************************************************************)
(* Theorems about UsbwsMount: any number of runs of the script on one      *)
(* machine, of devices and of signals.                                     *)
(***************************************************************************)
EXTENDS UsbwsMount, FiniteSetTheorems, TLAPS

-----------------------------------------------------------------------------
(* Types.                                                                  *)

Command == {"begin", "launch", "setpid", "await", "list", "attach", "record",
            "wait", "ports", "detach", "kill", "exit", "done"}

\* What `usbip list` names is a sequence of devices.
LEMMA ListedType == \A found \in SetToSeqs(Free) : found \in Seq(Dev)
<1> SUFFICES ASSUME NEW found \in SetToSeqs(Free) PROVE found \in Seq(Dev)
  OBVIOUS
<1>1. IsFiniteSet(Free) /\ Free \subseteq Dev
  BY MountAssumption, FS_Subset DEF Free
<1>2. Cardinality(Free) \in Nat
  BY <1>1, FS_CardinalityType
<1>3. found \in [1 .. Cardinality(Free) -> Free]
  BY DEF SetToSeqs
<1> QED BY <1>1, <1>2, <1>3

LEMMA TypeInit == Init => TypeOK
BY MountAssumption DEF Init, TypeOK

\* A command of the script: only pc moves, the trap is left alone.
LEMMA StepType ==
  ASSUME TypeOK, NEW s \in Script, NEW from, NEW to \in Command, Step(s, from, to)
  PROVE  /\ pc' \in [Script -> Command] /\ signal' = signal /\ signals' = signals
         /\ pc[s] = from /\ pc'[s] = to /\ \A t \in Script : t # s => pc'[t] = pc[t]
BY DEF TypeOK, Step, Command

LEMMA TypeRun ==
  ASSUME TypeOK, NEW s \in Script, Run(s)
  PROVE  TypeOK'
<1> USE DEF scriptVars
<1>1. CASE Begin(s) \/ TunnelUp(s) \/ Attached(s)
  BY <1>1 DEF Begin, TunnelUp, Attached, Step, TypeOK
<1>2. CASE Launch(s)
  BY <1>2 DEF Launch, Step, TypeOK
<1>3. CASE SetPid(s)
  BY <1>3 DEF SetPid, Step, TypeOK
<1>4. CASE GiveUp(s) \/ WaitOver(s)
  BY <1>4 DEF GiveUp, WaitOver, Exit, Step, TypeOK
<1>5. CASE List(s)
  <2>1. PICK found \in {<<>>} \cup SetToSeqs(Free) : todo' = [todo EXCEPT ![s] = found]
    BY <1>5 DEF List
  <2>2. found \in Seq(Dev)
    <3>1. <<>> \in Seq(Dev)
      OBVIOUS
    <3> QED BY <3>1, ListedType
  <2>3. todo' \in [Script -> Seq(Dev)]
    BY <2>1, <2>2 DEF TypeOK
  <2> QED BY <1>5, <2>3 DEF List, Step, TypeOK
<1>6. CASE Attach(s)
  <2>1. Head(todo[s]) \in Dev
    BY <1>6 DEF Attach, Free
  <2> QED BY <1>6, <2>1 DEF Attach, Step, TypeOK
<1>7. CASE Record(s)
  <2>1. Head(todo[s]) \in Dev /\ Tail(todo[s]) \in Seq(Dev)
    BY <1>7 DEF Record, Step, TypeOK
  <2> QED BY <1>7, <2>1 DEF Record, Step, TypeOK
<1>8. CASE AttachFailed(s)
  <2>1. Tail(todo[s]) \in Seq(Dev)
    BY <1>8 DEF AttachFailed, TypeOK
  <2> QED BY <1>8, <2>1 DEF AttachFailed, Step, TypeOK
<1> QED BY <1>1, <1>2, <1>3, <1>4, <1>5, <1>6, <1>7, <1>8 DEF Run

LEMMA TypeCleanup ==
  ASSUME TypeOK, NEW s \in Script, Cleanup(s)
  PROVE  TypeOK'
<1> USE DEF scriptVars
<1>1. CASE Trap(s)
  BY <1>1 DEF Trap, TypeOK
<1>2. CASE Killed(s)
  BY <1>2 DEF Killed, TypeOK
<1>3. CASE Ports(s)
  <2>1. PICK list \in SUBSET Dev : doomed' = [doomed EXCEPT ![s] = list]
    BY <1>3 DEF Ports
  <2>2. doomed' \in [Script -> SUBSET Dev]
    BY <2>1 DEF TypeOK
  <2>3. missed' \subseteq Script
    BY <1>3 DEF Ports, TypeOK
  <2> QED BY <1>3, <2>2, <2>3 DEF Ports, Step, TypeOK
<1>4. CASE Detach(s)
  <2>1. PICK d \in doomed[s] :
          /\ doomed' = [doomed EXCEPT ![s] = @ \ {d}]
          /\ \/ port' = [port EXCEPT ![d] = NoScript] /\ UNCHANGED missed
             \/ missed' = missed \cup {s} /\ UNCHANGED port
    BY <1>4 DEF Detach
  <2>2. doomed' \in [Script -> SUBSET Dev]
    BY <2>1 DEF TypeOK
  <2>3. missed' \subseteq Script
    BY <2>1 DEF TypeOK
  <2>4. port' \in [Dev -> Script \cup {NoScript}]
    BY <2>1 DEF TypeOK
  <2> QED BY <1>4, <2>2, <2>3, <2>4 DEF Detach, Step, TypeOK
<1>5. CASE Detached(s)
  BY <1>5 DEF Detached, Step, TypeOK
<1>6. CASE Kill(s)
  BY <1>6 DEF Kill, Ends, Step, TypeOK
<1>7. CASE ExitCode(s)
  BY <1>7 DEF ExitCode, Step, TypeOK
<1> QED BY <1>1, <1>2, <1>3, <1>4, <1>5, <1>6, <1>7 DEF Cleanup

LEMMA TypeNext == TypeOK /\ [Next]_vars => TypeOK'
<1> SUFFICES ASSUME TypeOK, [Next]_vars PROVE TypeOK'
  OBVIOUS
<1> USE DEF scriptVars
<1>1. CASE UNCHANGED vars
  BY <1>1 DEF vars, TypeOK
<1>2. ASSUME NEW s \in Script, Usbws(s)
      PROVE  TypeOK'
  <2>1. CASE Bind(s) \/ Ready(s)
    BY <2>1 DEF Bind, Ready, TypeOK
  <2>2. CASE Die(s)
    BY <2>2 DEF Die, Ends, TypeOK
  <2> QED BY <1>2, <2>1, <2>2 DEF Usbws
<1>3. ASSUME NEW s \in Script, Signal(s)
      PROVE  TypeOK'
  BY <1>3, MountAssumption DEF Signal, TypeOK
<1> QED BY <1>1, <1>2, <1>3, TypeRun, TypeCleanup DEF Next

\* Types; a trap runs exactly while its commands do; nothing is recorded that
\* was not the next one to attach.
THEOREM TypeCorrect == Spec => []TypeOK
BY TypeInit, TypeNext, PTL DEF Spec

-----------------------------------------------------------------------------
(* Nothing is left behind.                                                 *)

\* Before a run attaches its first device, no port is its own; nor after it has
\* detached the last, if no command of its cleanup has failed.
HoldsNone(s) ==
  \/ pc[s] \in {"begin", "launch", "setpid", "await", "list"}
  \/ pc[s] \in {"kill", "exit", "done"} /\ s \notin missed
  => \A d \in Dev : port[d] # s

\* What is its own while it detaches is on its list, if none has failed so far.
OnTheList(s) ==
  pc[s] = "detach" /\ s \notin missed => \A d \in Dev : port[d] = s => d \in doomed[s]

\* No tunnel runs before the launch.  The pid is noted after it and before any
\* device is attached, and what it names is stopped by the end.
PidInTime(s) == /\ pc[s] \in {"begin", "launch"} => tunnel[s] = "none"
                /\ pc[s] \in {"begin", "launch", "setpid"} => ~usbwsPid[s]
                /\ pc[s] \in {"await", "list", "attach", "record", "wait"} => usbwsPid[s]
Noted(s) == \A d \in Dev : port[d] = s => usbwsPid[s]
Stopped(s) == pc[s] \in {"exit", "done"} /\ usbwsPid[s] => ~Alive(s)

\* What is attached goes through a tunnel that is ready.
Carried == (\E d \in Dev : port[d] # NoScript) => \E t \in Script : tunnel[t] = "ready"

CleanRun(s) == HoldsNone(s) /\ OnTheList(s) /\ PidInTime(s) /\ Noted(s) /\ Stopped(s)
Clean == Carried /\ \A s \in Script : CleanRun(s)

LEMMA CleanInit == Init => Clean
BY MountAssumption
DEF Init, Clean, CleanRun, Carried, HoldsNone, OnTheList, PidInTime, Noted, Stopped, Alive

\* A step of one run adds no port to another one.
LEMMA PortsOfOthers ==
  ASSUME TypeOK, [Next]_vars, NEW s \in Script, NEW d \in Dev, port'[d] = s
  PROVE  port[d] = s \/ Attach(s)
<1> USE DEF scriptVars
<1>1. CASE UNCHANGED vars
  BY <1>1 DEF vars
<1>2. ASSUME NEW t \in Script, Attach(t)
      PROVE  port[d] = s \/ t = s
  BY <1>2 DEF Attach, TypeOK
<1>3. ASSUME NEW t \in Script, Run(t), ~Attach(t)
      PROVE  port' = port
  BY <1>3 DEF Run, Begin, Launch, SetPid, TunnelUp, GiveUp, List, Record, AttachFailed, Attached,
              WaitOver, Exit
<1>4. ASSUME NEW t \in Script, Cleanup(t)
      PROVE  port'[d] = port[d] \/ port'[d] = NoScript
  BY <1>4 DEF Cleanup, Trap, Killed, Ports, Detach, Detached, Kill, ExitCode, Ends, TypeOK
<1>5. ASSUME NEW t \in Script, Usbws(t) \/ Signal(t)
      PROVE  port'[d] = port[d] \/ port'[d] = NoScript
  BY <1>5 DEF Usbws, Bind, Ready, Die, Ends, Signal
<1>6. CASE Next
  BY <1>2, <1>3, <1>4, <1>5, <1>6, MountAssumption DEF Next
<1> QED BY <1>1, <1>6

\* What a run is at and knows is changed by its own steps only.
LEMMA OwnState ==
  ASSUME TypeOK, NEW t \in Script, NEW s \in Script, t # s,
         Run(t) \/ Cleanup(t) \/ Usbws(t) \/ Signal(t)
  PROVE  pc'[s] = pc[s] /\ doomed'[s] = doomed[s] /\ usbwsPid'[s] = usbwsPid[s]
         /\ tunnel'[s] = tunnel[s] /\ (s \in missed' <=> s \in missed)
<1> USE DEF scriptVars, TypeOK
<1>1. CASE Run(t)
  BY <1>1 DEF Run, Begin, Launch, SetPid, TunnelUp, GiveUp, List, Attach, Record, AttachFailed,
              Attached, WaitOver, Exit, Step
<1>2. CASE Cleanup(t)
  BY <1>2 DEF Cleanup, Trap, Killed, Ports, Detach, Detached, Kill, ExitCode, Ends, Step
<1>3. CASE Usbws(t) \/ Signal(t)
  BY <1>3 DEF Usbws, Bind, Ready, Die, Ends, Signal
<1> QED BY <1>1, <1>2, <1>3

\* The run that makes the step.
LEMMA CleanOwn ==
  ASSUME TypeOK, NEW s \in Script, CleanRun(s),
         Run(s) \/ Cleanup(s) \/ Usbws(s) \/ Signal(s)
  PROVE  CleanRun(s)'
<1> USE DEF scriptVars
<1>1. CASE Begin(s) \/ TunnelUp(s) \/ List(s)
  BY <1>1 DEF Begin, TunnelUp, List, Step, TypeOK, CleanRun, HoldsNone, OnTheList,
              PidInTime, Noted, Stopped, Alive
<1>2. CASE Launch(s)
  BY <1>2 DEF Launch, Step, TypeOK, CleanRun, HoldsNone, OnTheList, PidInTime, Noted, Stopped, Alive
<1>3. CASE SetPid(s)
  BY <1>3 DEF SetPid, Step, TypeOK, CleanRun, HoldsNone, OnTheList, PidInTime, Noted, Stopped, Alive
<1>4. CASE GiveUp(s) \/ WaitOver(s)
  BY <1>4 DEF GiveUp, WaitOver, Exit, Step, TypeOK, CleanRun, HoldsNone, OnTheList,
              PidInTime, Noted, Stopped
<1>5. CASE Attach(s) \/ Record(s) \/ AttachFailed(s) \/ Attached(s)
  BY <1>5 DEF Attach, Record, AttachFailed, Attached, Step, TypeOK, CleanRun, HoldsNone, OnTheList,
              PidInTime, Noted, Stopped
<1>6. CASE Trap(s)
  BY <1>6 DEF Trap, TypeOK, CleanRun, HoldsNone, OnTheList, PidInTime, Noted, Stopped
<1>7. CASE Killed(s)
  BY <1>7 DEF Killed, TypeOK, CleanRun, HoldsNone, OnTheList, PidInTime, Noted, Stopped
<1>8. CASE Ports(s)
  <2>1. s \notin missed' => \A d \in Dev : port'[d] = s => d \in doomed'[s]
    BY <1>8, MountAssumption DEF Ports, Step, TypeOK, Free
  <2> QED BY <1>8, <2>1
          DEF Ports, Step, TypeOK, CleanRun, HoldsNone, OnTheList, PidInTime, Noted, Stopped
<1>9. CASE Detach(s)
  <2>1. \A d \in Dev : port'[d] = s => port[d] = s
    BY <1>9, MountAssumption DEF Detach, TypeOK
  <2>2. s \notin missed' => \A d \in Dev : port'[d] = s => d \in doomed'[s]
    BY <1>9, MountAssumption DEF Detach, Step, TypeOK, CleanRun, OnTheList
  <2> QED BY <1>9, <2>1, <2>2
          DEF Detach, Step, TypeOK, CleanRun, HoldsNone, OnTheList, PidInTime, Noted, Stopped
<1>10. CASE Detached(s)
  BY <1>10 DEF Detached, Step, TypeOK, CleanRun, HoldsNone, OnTheList, PidInTime, Noted, Stopped
<1>11. CASE Kill(s)
  <2>1. \A d \in Dev : port'[d] = s => port[d] = s
    BY <1>11, MountAssumption DEF Kill, Ends
  <2>2. usbwsPid'[s] => ~Alive(s)'
    BY <1>11 DEF Kill, Ends, TypeOK, Alive
  <2> QED BY <1>11, <2>1, <2>2
          DEF Kill, Step, TypeOK, CleanRun, HoldsNone, OnTheList, PidInTime, Noted, Stopped
<1>12. CASE ExitCode(s)
  BY <1>12 DEF ExitCode, Step, TypeOK, CleanRun, HoldsNone, OnTheList, PidInTime, Noted, Stopped,
               Alive
<1>13. CASE Usbws(s)
  <2>1. /\ pc' = pc /\ usbwsPid' = usbwsPid /\ doomed' = doomed /\ missed' = missed
        /\ (~Alive(s) => ~Alive(s)') /\ (tunnel[s] = "none" => tunnel'[s] = "none")
    BY <1>13 DEF Usbws, Bind, Ready, Die, Ends, TypeOK, Alive
  <2>2. \A d \in Dev : port'[d] = s => port[d] = s
    BY <1>13, MountAssumption DEF Usbws, Bind, Ready, Die, Ends
  <2> QED BY <2>1, <2>2 DEF CleanRun, HoldsNone, OnTheList, PidInTime, Noted, Stopped
<1>14. CASE Signal(s)
  BY <1>14 DEF Signal, CleanRun, HoldsNone, OnTheList, PidInTime, Noted, Stopped, Alive
<1> QED BY <1>1, <1>2, <1>3, <1>4, <1>5, <1>6, <1>7, <1>8, <1>9, <1>10, <1>11, <1>12, <1>13, <1>14
        DEF Run, Cleanup

\* A port comes with a tunnel that is ready, and goes with it at the latest.
LEMMA CarriedNext == TypeOK /\ Clean /\ [Next]_vars => Carried'
<1> SUFFICES ASSUME TypeOK, Clean, [Next]_vars PROVE Carried'
  OBVIOUS
<1> Carried
  BY DEF Clean
<1> USE DEF scriptVars
<1>1. CASE UNCHANGED vars
  BY <1>1 DEF vars, Carried
<1>2. ASSUME NEW t \in Script, Run(t)
      PROVE  Carried'
  <2>1. CASE Launch(t)
    <3>1. tunnel[t] = "none"
      BY <2>1 DEF Launch, Step, Clean, CleanRun, PidInTime
    <3>2. \A s \in Script : tunnel[s] = "ready" => tunnel'[s] = "ready"
      BY <2>1, <3>1 DEF Launch, TypeOK
    <3> QED BY <2>1, <3>2 DEF Launch, Carried
  <2>2. CASE Attach(t)
    BY <2>2 DEF Attach, Carried
  <2>3. CASE ~Launch(t) /\ ~Attach(t)
    BY <1>2, <2>3 DEF Run, Begin, SetPid, TunnelUp, GiveUp, List, Record, AttachFailed, Attached,
                      WaitOver, Exit, Carried
  <2> QED BY <2>1, <2>2, <2>3
<1>3. ASSUME NEW t \in Script, Ends(t)
      PROVE  Carried'
  <2>1. \A s \in Script : tunnel[s] = "ready" /\ s # t => tunnel'[s] = "ready"
    BY <1>3 DEF Ends, TypeOK
  <2> QED BY <1>3, <2>1 DEF Ends, Listens, Carried
<1>4. ASSUME NEW t \in Script, Cleanup(t)
      PROVE  Carried'
  <2>1. CASE Kill(t)
    BY <1>3, <2>1 DEF Kill, Carried
  <2>2. CASE Detach(t)
    <3>1. tunnel' = tunnel /\ \A d \in Dev : port'[d] # NoScript => port[d] # NoScript
      BY <2>2 DEF Detach, TypeOK
    <3> QED BY <3>1 DEF Carried
  <2>3. CASE ~Kill(t) /\ ~Detach(t)
    BY <1>4, <2>3 DEF Cleanup, Trap, Killed, Ports, Detached, ExitCode, Carried
  <2> QED BY <2>1, <2>2, <2>3
<1>5. ASSUME NEW t \in Script, Usbws(t) \/ Signal(t)
      PROVE  Carried'
  <2>1. CASE Bind(t) \/ Ready(t)
    <3>1. port' = port /\ \A s \in Script : tunnel[s] = "ready" => tunnel'[s] = "ready"
      BY <2>1 DEF Bind, Ready, TypeOK
    <3> QED BY <3>1 DEF Carried
  <2>2. CASE Die(t)
    BY <1>3, <2>2 DEF Die
  <2>3. CASE Signal(t)
    BY <2>3 DEF Signal, Carried
  <2> QED BY <1>5, <2>1, <2>2, <2>3 DEF Usbws
<1>6. CASE Next
  BY <1>2, <1>4, <1>5, <1>6 DEF Next
<1> QED BY <1>1, <1>6

LEMMA CleanRunNext ==
  ASSUME TypeOK, Clean, [Next]_vars, NEW s \in Script
  PROVE  CleanRun(s)'
<1>0. CleanRun(s)
  BY DEF Clean
<1>1. CASE UNCHANGED vars
  BY <1>0, <1>1
          DEF vars, scriptVars, CleanRun, HoldsNone, OnTheList, PidInTime, Noted, Stopped, Alive
<1>2. ASSUME NEW t \in Script, t # s, Run(t) \/ Cleanup(t) \/ Usbws(t) \/ Signal(t)
      PROVE  CleanRun(s)'
  <2>1. /\ pc'[s] = pc[s] /\ doomed'[s] = doomed[s] /\ usbwsPid'[s] = usbwsPid[s]
        /\ tunnel'[s] = tunnel[s] /\ (s \in missed' <=> s \in missed)
    BY <1>2, OwnState
  <2>2. ~Attach(s)
    BY <2>1 DEF Attach, Step, TypeOK
  <2>3. \A d \in Dev : port'[d] = s => port[d] = s
    BY <2>2, PortsOfOthers
  <2> QED BY <1>0, <2>1, <2>3 DEF CleanRun, HoldsNone, OnTheList, PidInTime, Noted, Stopped, Alive
<1>3. CASE Next
  BY <1>0, <1>2, <1>3, CleanOwn DEF Next
<1> QED BY <1>1, <1>3

LEMMA CleanNext == TypeOK /\ Clean /\ [Next]_vars => Clean'
BY CarriedNext, CleanRunNext DEF Clean

\* Whenever a run has ended, in whatever command a signal interrupted it, the
\* tunnel it knows the pid of is stopped, and a device it attached is left only if
\* a usbip command of its cleanup failed and the tunnel of another run carries it.
THEOREM LeavesNothingBehind == Spec => []LeavesNothing
<1>1. TypeOK /\ Clean => LeavesNothing
  <2> SUFFICES ASSUME TypeOK, Clean, NEW s \in Script, pc[s] = "done"
               PROVE  /\ usbwsPid[s] => ~Alive(s)
                      /\ \A d \in Dev : port[d] = s =>
                           s \in missed /\ \E t \in Script \ {s} : tunnel[t] = "ready"
    BY DEF LeavesNothing
  <2>1. CleanRun(s) /\ Carried
    BY DEF Clean
  <2>2. usbwsPid[s] => ~Alive(s) /\ tunnel[s] # "ready"
    BY <2>1 DEF CleanRun, Stopped, Alive
  <2>3. ASSUME NEW d \in Dev, port[d] = s
        PROVE  s \in missed /\ \E t \in Script \ {s} : tunnel[t] = "ready"
    <3>1. s \in missed
      BY <2>1, <2>3 DEF CleanRun, HoldsNone
    <3>2. PICK t \in Script : tunnel[t] = "ready"
      BY <2>1, <2>3, MountAssumption DEF Carried
    <3>3. t # s
      BY <2>1, <2>2, <2>3, <3>2 DEF CleanRun, Noted
    <3> QED BY <3>1, <3>2, <3>3
  <2> QED BY <2>2, <2>3
<1> QED BY <1>1, TypeInit, TypeNext, CleanInit, CleanNext, PTL DEF Spec
===============================================================================
