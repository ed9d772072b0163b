------------------------------ MODULE UartScripts ------------------------------
(***************************************************************************)
(* bin/read_wsuart.sh and bin/test_wsuart.sh: make room, start `usbws      *)
(* tcp-listen`, attach the first device the phone exports, find its tty,   *)
(* then stream it until Ctrl-C, or probe it once and compare the echo.     *)
(* Their traps differ: the first sets teardown for EXIT, INT and TERM and  *)
(* does not exit in it, so that an interrupted script goes on; the second  *)
(* sets it for EXIT only, which bash also runs when a signal ends it.      *)
(*                                                                         *)
(* Signals take effect between commands; a command that dies of one is one *)
(* that fails.  The detach loops, over the one device, are one step each.  *)
(***************************************************************************)
EXTENDS Naturals

CONSTANTS
  Script,      \* runs of the scripts
  Tests,       \* those of test_wsuart.sh
  NoScript,    \* "attached by nobody"
  MaxSignals   \* bound: signals each run gets

ASSUME UartAssumption ==
  Tests \subseteq Script /\ NoScript \notin Script /\ MaxSignals \in Nat

VARIABLES
  pc,         \* the command each run executes next
  back,       \* where it was when the INT trap began; "none" outside of it
  usbwsPid,   \* whether USBWS_PID is set
  tunnel,     \* its usbws: forked, started (the program runs), ready, dead
  port,       \* who attached the device
  signal, signals

vars == <<pc, back, usbwsPid, tunnel, port, signal, signals>>

Runs(s)  == tunnel[s] \in {"started", "ready"}
Alive(s) == Runs(s) \/ tunnel[s] = "forked"
Body     == {"pkill", "clear", "launch", "setpid", "check", "list", "attach", "tty",
             "stream", "wait", "over"}
Teardown == {"detach", "stop"}
Ended(s) == pc[s] \in {"done", "killed"}

TypeOK ==
  /\ pc \in [Script -> Body \cup Teardown \cup {"done", "killed"}]
  /\ back \in [Script -> Body \cup {"none"}]
  /\ tunnel \in [Script -> {"none", "forked", "started", "ready", "dead"}]
  /\ port \in Script \cup {NoScript} /\ usbwsPid \in [Script -> BOOLEAN]
  /\ signal \in [Script -> BOOLEAN] /\ signals \in [Script -> 0 .. MaxSignals]
  /\ \A s \in Script : /\ back[s] # "none" => s \notin Tests /\ pc[s] \in Teardown
                       /\ usbwsPid[s] \/ "setpid" \in {pc[s], back[s]} => tunnel[s] # "none"

Init ==
  /\ pc = [s \in Script |-> "pkill"]
  /\ back = [s \in Script |-> "none"]
  /\ usbwsPid = [s \in Script |-> FALSE]
  /\ tunnel = [s \in Script |-> "none"]
  /\ port = NoScript
  /\ signal = [s \in Script |-> FALSE] /\ signals = [s \in Script |-> 0]

\* The next command of s is the one at `from`; after it comes the one at `to`.
Step(s, from, to) == /\ pc[s] = from /\ ~signal[s]
                     /\ pc' = [pc EXCEPT ![s] = to]
                     /\ UNCHANGED <<signal, signals>>

\* pkill -f finds the processes that run the program already.
Pkill(E) ==
  /\ tunnel' = [t \in Script |-> IF t \in E THEN "dead" ELSE tunnel[t]]
  /\ port' = IF \E t \in E : tunnel[t] = "ready" THEN NoScript ELSE port
Running == {t \in Script : Runs(t)}

-----------------------------------------------------------------------------
(* The scripts.                                                            *)

KillStale(s) == /\ Step(s, "pkill", "clear") /\ Pkill(Running)
                /\ UNCHANGED <<back, usbwsPid>>

\* `usbip port 2>/dev/null`, and detach for each port it names; when one of them
\* fails the script goes on all the same.
Detach == port' \in {NoScript, port}

DetachStale(s) == /\ Step(s, "clear", "launch") /\ Detach
                  /\ UNCHANGED <<back, usbwsPid, tunnel>>

\* If there is the program: die 1.
Launch(s) == /\ \/ Step(s, "launch", "setpid") /\ tunnel' = [tunnel EXCEPT ![s] = "forked"]
                \/ Step(s, "launch", "detach") /\ UNCHANGED tunnel
             /\ UNCHANGED <<back, usbwsPid, port>>

SetPid(s) == /\ Step(s, "setpid", "check")
             /\ usbwsPid' = [usbwsPid EXCEPT ![s] = TRUE]
             /\ UNCHANGED <<back, tunnel, port>>

\* After three seconds: kill -0, or die 1.
Check(s) == /\ Step(s, "check", IF Alive(s) THEN "list" ELSE "detach")
            /\ UNCHANGED <<back, usbwsPid, tunnel, port>>

Reachable == \E t \in Script : tunnel[t] = "ready"

\* usbip list shows the device, unless it fails or times out: die 2.
List(s) == /\ \/ Step(s, "list", "detach")
              \/ Step(s, "list", "attach") /\ Reachable /\ port = NoScript
           /\ UNCHANGED <<back, usbwsPid, tunnel, port>>

Attach(s) == /\ Step(s, "attach", "tty") /\ Reachable /\ port = NoScript
             /\ port' = s
             /\ UNCHANGED <<back, usbwsPid, tunnel>>

AttachFailed(s) == /\ Step(s, "attach", "detach")    \* die 3
                   /\ UNCHANGED <<back, usbwsPid, tunnel, port>>

\* A new tty has appeared, or has not: die 4.
FindTty(s) == /\ \/ Step(s, "tty", "stream") /\ port = s
                 \/ Step(s, "tty", "detach")
              /\ UNCHANGED <<back, usbwsPid, tunnel, port>>

Stream(s) == /\ Step(s, "stream", "wait")
             /\ UNCHANGED <<back, usbwsPid, tunnel, port>>

ProbeForEver(s) ==             \* mutant: the reader without its timeout
  /\ s \in Tests /\ port # s
  /\ Step(s, "wait", "detach")
  /\ UNCHANGED <<back, usbwsPid, tunnel, port>>

\* The reader of the probe is over after READ_WINDOW seconds.
Probe(s) == /\ s \in Tests
            /\ Step(s, "wait", "detach")
            /\ UNCHANGED <<back, usbwsPid, tunnel, port>>

\* cat ends when its device is gone.
CatOver(s) == /\ s \notin Tests /\ port # s
              /\ Step(s, "wait", "detach")
              /\ UNCHANGED <<back, usbwsPid, tunnel, port>>

\* The last line of the script.
Over(s) == /\ Step(s, "over", "detach")
           /\ UNCHANGED <<back, usbwsPid, tunnel, port>>

-----------------------------------------------------------------------------
(* teardown().                                                             *)

\* read: teardown interrupts whatever comes next; a signal within it begins
\* it anew.  `wait` is over once a trap has run.
Trap(s) ==
  /\ signal[s] /\ s \notin Tests /\ ~Ended(s)
  /\ back' = [back EXCEPT ![s] = IF pc[s] \in Teardown THEN @
                                 ELSE IF pc[s] = "wait" THEN "over" ELSE pc[s]]
  /\ pc' = [pc EXCEPT ![s] = "detach"]
  /\ signal' = [signal EXCEPT ![s] = FALSE]
  /\ UNCHANGED <<usbwsPid, tunnel, port, signals>>

\* test: the signal ends the script by way of the EXIT trap, or within it.
Killed(s) ==
  /\ signal[s] /\ s \in Tests /\ ~Ended(s)
  /\ pc' = [pc EXCEPT ![s] = IF @ \in Teardown THEN "killed" ELSE "detach"]
  /\ signal' = [signal EXCEPT ![s] = FALSE]
  /\ UNCHANGED <<back, usbwsPid, tunnel, port, signals>>

DetachAll(s) == /\ Step(s, "detach", "stop") /\ Detach
                /\ UNCHANGED <<back, usbwsPid, tunnel>>

StopByName(s) ==               \* mutant: only the pkill
  /\ Step(s, "stop", IF back[s] = "none" THEN "done" ELSE back[s])
  /\ Pkill(Running)
  /\ back' = [back EXCEPT ![s] = "none"]
  /\ UNCHANGED usbwsPid

StopForgets(s) ==              \* mutant: the INT trap is never left
  /\ Step(s, "stop", IF back[s] = "none" THEN "done" ELSE back[s])
  /\ Pkill(Running \cup {t \in {s} : usbwsPid[t]})
  /\ UNCHANGED <<back, usbwsPid>>

StopNothing(s) ==              \* mutant: the tunnel is left to the EXIT trap
  /\ Step(s, "stop", IF back[s] = "none" THEN "done" ELSE back[s])
  /\ Pkill(IF back[s] # "none" THEN {} ELSE Running \cup {t \in {s} : usbwsPid[t]})
  /\ back' = [back EXCEPT ![s] = "none"]
  /\ UNCHANGED usbwsPid

\* kill, and pkill -9 -f "usbws tcp-listen $PORT"; the INT trap then returns.
Stop(s) ==
  /\ Step(s, "stop", IF back[s] = "none" THEN "done" ELSE back[s])
  /\ Pkill(Running \cup {t \in {s} : usbwsPid[t]})
  /\ back' = [back EXCEPT ![s] = "none"]
  /\ UNCHANGED usbwsPid

-----------------------------------------------------------------------------
(* The surroundings.                                                       *)

Exec(s) == /\ tunnel[s] = "forked" /\ tunnel' = [tunnel EXCEPT ![s] = "started"]
           /\ UNCHANGED <<pc, back, usbwsPid, port, signal, signals>>

\* It binds the port and connects; or it dies, and the device goes with it.
Ready(s) == /\ tunnel[s] = "started" /\ ~Reachable
            /\ tunnel' = [tunnel EXCEPT ![s] = "ready"]
            /\ UNCHANGED <<pc, back, usbwsPid, port, signal, signals>>

Die(s) == /\ Runs(s) /\ Pkill({s})
          /\ UNCHANGED <<pc, back, usbwsPid, signal, signals>>

Signal(s) ==
  /\ signals[s] < MaxSignals /\ ~Ended(s)
  /\ signals' = [signals EXCEPT ![s] = @ + 1]
  /\ signal' = [signal EXCEPT ![s] = TRUE]
  /\ UNCHANGED <<pc, back, usbwsPid, tunnel, port>>

-----------------------------------------------------------------------------

Bash(s) == \/ KillStale(s) \/ DetachStale(s) \/ Launch(s) \/ SetPid(s) \/ Check(s)
           \/ List(s) \/ Attach(s) \/ AttachFailed(s) \/ FindTty(s) \/ Stream(s)
           \/ Probe(s) \/ CatOver(s) \/ Over(s)
           \/ Trap(s) \/ Killed(s) \/ DetachAll(s) \/ Stop(s)

Next == \E s \in Script : Bash(s) \/ Exec(s) \/ Ready(s) \/ Die(s) \/ Signal(s)

Spec == Init /\ [][Next]_vars

\* Commands end and bash goes on; a fork is followed by its exec.
FairSpec == Spec /\ \A s \in Script : WF_vars(Bash(s)) /\ WF_vars(Exec(s))

-----------------------------------------------------------------------------

\* A run that has ended has its device detached and the tunnel whose pid it
\* noted stopped, whatever command a signal interrupted (read_wsuart.sh:11
\* "detach + kill the tunnel on exit"), also where its usbip commands failed: the
\* device goes with the tunnel it is attached through, and teardown kills any.
\* Only within its own teardown does a signal kill test_wsuart.sh at once.
NothingLeft ==
  \A s \in Script : pc[s] = "done" =>
    port # s /\ (usbwsPid[s] => ~Alive(s))

\* A Ctrl-C that finds the tunnel running ends the script, although the trap
\* of read_wsuart.sh returns to it: what comes next fails and it dies, or cat
\* has lost its device; unless another run's tunnel serves it instead.  A Ctrl-C
\* before that ends test_wsuart.sh only; the other script swallows it.
CtrlCEnds ==
  \A s \in Script :
    signal[s] /\ (s \in Tests \/ Runs(s)) ~> Ended(s) \/ \E t \in Script \ {s} : Alive(t)

\* test_wsuart.sh comes to its end, whatever its device and tunnel do.
TestEnds == \A s \in Tests : <>Ended(s)

================================================================================
