------------------------------ MODULE UsbwsMount ------------------------------
(***************************************************************************)
(* scripts/usbws-mount: start `usbws tcp-listen`, wait for its "tunnel     *)
(* ready", attach every exported USB device with usbip, and on Ctrl-C (or  *)
(* at the end) run the cleanup trap.  Several runs of the script share the *)
(* machine: the port 127.0.0.1:3240 and the kernel's usbip ports.          *)
(*                                                                         *)
(* A trapped signal takes effect between two commands of the script, so    *)
(* one action is one command.                                              *)
(***************************************************************************)
EXTENDS Naturals, Sequences, SequencesExt

CONSTANTS
  Script,      \* runs of the script
  Dev,         \* USB devices the phone exports, by bus id
  NoScript,    \* "attached by nobody"
  MaxSignals   \* bound: SIGINT and SIGTERM each run gets

ASSUME MountAssumption ==
  NoScript \notin Script /\ MaxSignals \in Nat /\ IsFiniteSet(Dev)

VARIABLES
  pc,          \* the command each run executes next
  usbwsPid,    \* whether USBWS_PID is set
  todo,        \* BUSIDS still to attach
  attached,    \* ATTACHED_BUSIDS, which nothing reads
  doomed,      \* $ports: what cleanup is about to detach
  missed,      \* history: runs whose latest cleanup overlooked or failed to detach a port
  trap,        \* the trap being run: none, int or exit
  signal,      \* whether a signal is pending
  signals,     \* signals each run got
  tunnel,      \* each run's usbws process; "over" if dead after being ready
  port         \* the usbip ports: who attached each device

scriptVars == <<usbwsPid, todo, attached, doomed, missed, trap>>
vars == <<pc, scriptVars, signal, signals, tunnel, port>>

Free == {d \in Dev : port[d] = NoScript}
Alive(s) == tunnel[s] \in {"started", "listening", "ready"}
Listens(s) == tunnel[s] \in {"listening", "ready"}

TypeOK ==
  /\ pc \in [Script -> {"begin", "launch", "setpid", "await", "list", "attach", "record",
                        "wait", "ports", "detach", "kill", "exit", "done"}]
  /\ usbwsPid \in [Script -> BOOLEAN]
  /\ todo \in [Script -> Seq(Dev)]
  /\ attached \in [Script -> SUBSET Dev]
  /\ doomed \in [Script -> SUBSET Dev] /\ missed \subseteq Script
  /\ trap \in [Script -> {"none", "int", "exit"}]
  /\ \A s \in Script :
       /\ trap[s] = "none" <=> pc[s] \notin {"ports", "detach", "kill", "exit", "done"}
       /\ pc[s] = "record" => todo[s] # <<>>
  /\ signal \in [Script -> BOOLEAN]
  /\ signals \in [Script -> 0 .. MaxSignals]
  /\ tunnel \in [Script -> {"none", "started", "listening", "ready", "dead", "over"}]
  /\ port \in [Dev -> Script \cup {NoScript}]

Init ==
  /\ pc = [s \in Script |-> "begin"]
  /\ usbwsPid = [s \in Script |-> FALSE]
  /\ todo = [s \in Script |-> <<>>]
  /\ attached = [s \in Script |-> {}] /\ doomed = [s \in Script |-> {}]
  /\ missed = {}
  /\ trap = [s \in Script |-> "none"]
  /\ signal = [s \in Script |-> FALSE] /\ signals = [s \in Script |-> 0]
  /\ tunnel = [s \in Script |-> "none"]
  /\ port = [d \in Dev |-> NoScript]

\* The next command of s is the one at `from`; after it comes the one at `to`.
Step(s, from, to) == /\ pc[s] = from /\ ~signal[s]
                     /\ pc' = [pc EXCEPT ![s] = to]
                     /\ UNCHANGED <<signal, signals>>

-----------------------------------------------------------------------------
(* The script.                                                             *)

\* The checks before the trap is set; then the snapshot of the device nodes.
Begin(s) == /\ Step(s, "begin", "launch")
            /\ UNCHANGED <<scriptVars, tunnel, port>>

Launch(s) ==
  /\ Step(s, "launch", "setpid")
  /\ tunnel' = [tunnel EXCEPT ![s] = "started"]
  /\ UNCHANGED <<scriptVars, port>>

SetPid(s) ==
  /\ Step(s, "setpid", "await")
  /\ usbwsPid' = [usbwsPid EXCEPT ![s] = TRUE]
  /\ UNCHANGED <<todo, attached, doomed, missed, trap, tunnel, port>>

\* "tunnel ready" is in the log, which outlives the process that wrote it.
Logged(s) == tunnel[s] \in {"ready", "over"}

TunnelUp(s) ==
  /\ Logged(s)
  /\ Step(s, "await", "list")
  /\ UNCHANGED <<scriptVars, tunnel, port>>

\* The script ends, which runs the EXIT trap.
Exit(s, from) ==
  /\ Step(s, from, "ports")
  /\ trap' = [trap EXCEPT ![s] = "exit"]
  /\ UNCHANGED <<usbwsPid, todo, attached, doomed, missed, tunnel, port>>

\* mutant: cleanup is called, without exit and not from the EXIT trap
GiveUpCalls(s) == /\ ~Logged(s)
                  /\ Step(s, "await", "ports")
                  /\ UNCHANGED <<scriptVars, tunnel, port>>

\* usbws exited too early, or the sixty polls are over: exit 4 or 5.
GiveUp(s) == ~Logged(s) /\ Exit(s, "await")

\* `usbip list -r 127.0.0.1` asks whatever listens there, which names the devices
\* in an order of its own; it may time out.
List(s) ==
  /\ Step(s, "list", "attach")
  /\ \E found \in {<<>>} \cup (IF \E t \in Script : tunnel[t] = "ready"
                               THEN SetToSeqs(Free) ELSE {}) :
       todo' = [todo EXCEPT ![s] = found]
  /\ UNCHANGED <<usbwsPid, attached, doomed, missed, trap, tunnel, port>>

Attach(s) ==
  /\ todo[s] # <<>> /\ Head(todo[s]) \in Free
  /\ \E t \in Script : tunnel[t] = "ready"
  /\ Step(s, "attach", "record")
  /\ port' = [port EXCEPT ![Head(todo[s])] = s]
  /\ UNCHANGED <<scriptVars, tunnel>>

\* ATTACHED_BUSIDS+=("$busid")
Record(s) ==
  /\ Step(s, "record", "attach")
  /\ attached' = [attached EXCEPT ![s] = @ \cup {Head(todo[s])}]
  /\ todo' = [todo EXCEPT ![s] = Tail(@)]
  /\ UNCHANGED <<usbwsPid, doomed, missed, trap, tunnel, port>>

AttachFailed(s) ==
  /\ todo[s] # <<>>
  /\ Step(s, "attach", "attach")
  /\ todo' = [todo EXCEPT ![s] = Tail(@)]
  /\ UNCHANGED <<usbwsPid, attached, doomed, missed, trap, tunnel, port>>

\* All attached, the new device nodes are reported.
Attached(s) == /\ todo[s] = <<>>
               /\ Step(s, "attach", "wait")
               /\ UNCHANGED <<scriptVars, tunnel, port>>

\* `wait "$USBWS_PID"` returns when usbws has exited.
WaitOver(s) == ~Alive(s) /\ Exit(s, "wait")

-----------------------------------------------------------------------------
(* cleanup().                                                              *)

\* A pending signal: the trap runs from its start; inside the EXIT trap it
\* interrupts, exit then ends the script for good.
Trap(s) ==
  /\ signal[s] /\ pc[s] \notin {"begin", "done"}
  /\ pc' = [pc EXCEPT ![s] = "ports"]
  /\ trap' = [trap EXCEPT ![s] = IF @ = "exit" THEN "exit" ELSE "int"]
  /\ signal' = [signal EXCEPT ![s] = FALSE]
  /\ UNCHANGED <<usbwsPid, todo, attached, doomed, missed, signals, tunnel, port>>

\* Before the trap is set, the signal just kills the script.
Killed(s) ==
  /\ signal[s] /\ pc[s] = "begin"
  /\ pc' = [pc EXCEPT ![s] = "done"]
  /\ trap' = [trap EXCEPT ![s] = "exit"]
  /\ signal' = [signal EXCEPT ![s] = FALSE]
  /\ UNCHANGED <<usbwsPid, todo, attached, doomed, missed, signals, tunnel, port>>

PortsRecorded(s) ==                \* mutant: only what ATTACHED_BUSIDS lists
  /\ Step(s, "ports", "detach")
  /\ doomed' = [doomed EXCEPT ![s] = attached[s] \ Free]
  /\ missed' = missed \ {s}
  /\ UNCHANGED <<usbwsPid, todo, attached, trap, tunnel, port>>

\* `sudo usbip port 2>/dev/null`: every port whose remote is 127.0.0.1, or none
\* if it fails, which nobody notices and which matters where there is a port.
Ports(s) ==
  /\ Step(s, "ports", "detach")
  /\ \/ /\ doomed' = [doomed EXCEPT ![s] = Dev \ Free]
        /\ missed' = missed \ {s}
     \/ /\ Free # Dev
        /\ doomed' = [doomed EXCEPT ![s] = {}]
        /\ missed' = missed \cup {s}
  /\ UNCHANGED <<usbwsPid, todo, attached, trap, tunnel, port>>

\* `sudo usbip detach ... || true`: it goes on with the next port all the same.
Detach(s) ==
  /\ \E d \in doomed[s] :
       /\ doomed' = [doomed EXCEPT ![s] = @ \ {d}]
       /\ \/ port' = [port EXCEPT ![d] = NoScript] /\ UNCHANGED missed
          \/ missed' = missed \cup {s} /\ UNCHANGED port
  /\ Step(s, "detach", "detach")
  /\ UNCHANGED <<usbwsPid, todo, attached, trap, tunnel>>

Detached(s) == /\ doomed[s] = {}
               /\ Step(s, "detach", "kill")
               /\ UNCHANGED <<scriptVars, tunnel, port>>

\* A tunnel that dies takes the ports attached through it along: the kernel
\* sees their sockets closed.
Ends(s) ==
  /\ tunnel' = [tunnel EXCEPT ![s] = IF @ = "ready" THEN "over" ELSE "dead"]
  /\ port' = IF Listens(s) THEN [d \in Dev |-> NoScript] ELSE port

\* kill, and wait until usbws has exited, if USBWS_PID is known and alive.
Kill(s) ==
  /\ Step(s, "kill", "exit")
  /\ IF usbwsPid[s] /\ Alive(s) THEN Ends(s) ELSE UNCHANGED <<tunnel, port>>
  /\ UNCHANGED scriptVars

\* mutant: cleanup returns to the script, as a trap without exit does
ExitCodeReturns(s) ==
  /\ \/ trap[s] = "int" /\ Step(s, "exit", IF usbwsPid[s] THEN "await" ELSE "launch")
        /\ trap' = [trap EXCEPT ![s] = "none"]
     \/ trap[s] = "exit" /\ Step(s, "exit", "done") /\ UNCHANGED trap
  /\ UNCHANGED <<usbwsPid, todo, attached, doomed, missed, tunnel, port>>

\* `exit "$code"`: within the INT or TERM trap it runs the EXIT trap, so
\* cleanup runs once more.
ExitCode(s) ==
  /\ \/ trap[s] = "int" /\ Step(s, "exit", "ports")
     \/ trap[s] = "exit" /\ Step(s, "exit", "done")
  /\ trap' = [trap EXCEPT ![s] = "exit"]
  /\ UNCHANGED <<usbwsPid, todo, attached, doomed, missed, tunnel, port>>

-----------------------------------------------------------------------------
(* The surroundings.                                                       *)

\* usbws binds the port or, when another process listens there, exits.
Bind(s) ==
  /\ tunnel[s] = "started"
  /\ tunnel' = [tunnel EXCEPT ![s] =
                  IF \E t \in Script : Listens(t) THEN "dead" ELSE "listening"]
  /\ UNCHANGED <<pc, scriptVars, signal, signals, port>>

\* It is connected to the relay and logs "tunnel ready".
Ready(s) ==
  /\ tunnel[s] = "listening"
  /\ tunnel' = [tunnel EXCEPT ![s] = "ready"]
  /\ UNCHANGED <<pc, scriptVars, signal, signals, port>>

\* It dies of its own accord.
Die(s) ==
  /\ Alive(s) /\ Ends(s)
  /\ UNCHANGED <<pc, scriptVars, signal, signals>>

Signal(s) ==
  /\ signals[s] < MaxSignals /\ pc[s] # "done"
  /\ signals' = [signals EXCEPT ![s] = @ + 1]
  /\ signal' = [signal EXCEPT ![s] = TRUE]
  /\ UNCHANGED <<pc, scriptVars, tunnel, port>>

-----------------------------------------------------------------------------

Run(s) == \/ Begin(s) \/ Launch(s) \/ SetPid(s) \/ TunnelUp(s) \/ GiveUp(s)
          \/ List(s) \/ Attach(s) \/ Record(s) \/ AttachFailed(s) \/ Attached(s)
          \/ WaitOver(s)

Cleanup(s) == \/ Trap(s) \/ Killed(s) \/ Ports(s) \/ Detach(s) \/ Detached(s)
              \/ Kill(s) \/ ExitCode(s)

Usbws(s) == Bind(s) \/ Ready(s) \/ Die(s)

Next == \E s \in Script : Run(s) \/ Cleanup(s) \/ Usbws(s) \/ Signal(s)

Spec == Init /\ [][Next]_vars

\* Commands end and bash goes on to the next one; usbws itself may run for
\* ever, the user need not interrupt.
Fairness == \A s \in Script : WF_vars(Run(s) \/ Cleanup(s))
FairSpec == Spec /\ Fairness

-----------------------------------------------------------------------------

\* Whenever the script has ended, in whatever command a signal interrupted it,
\* the tunnel it knows the pid of is stopped, and no device it attached is left
\* attached (usbws-mount:20-21 "on exit detaches everything and stops the
\* tunnel"), with one exception: where a usbip command of its cleanup failed
\* unnoticed (67, 69), a device stays that is attached through another's tunnel.
\* What goes through its own goes down with that.
LeavesNothing ==
  \A s \in Script : pc[s] = "done" =>
    /\ usbwsPid[s] => ~Alive(s)
    /\ \A d \in Dev : port[d] = s =>
         s \in missed /\ \E t \in Script \ {s} : tunnel[t] = "ready"

\* Ctrl-C ends the script, at whatever point it comes, however many runs get in
\* each other's way and whatever fails in cleanup (usbws-mount:20 "Blocks until
\* you press Ctrl+C").  A run that has got a signal has got it for good, and is
\* done for good, so that "again and again" is "from some time on".
InterruptEnds == \A s \in Script : []<>(signals[s] = 0 \/ pc[s] = "done")

-----------------------------------------------------------------------------
(* What comments say, and the script does not do.                          *)

\* usbws-mount:55 "detach exactly that on cleanup", 63 "Detach all ports we
\* created": cleanup detaches no device another run has attached.
DetachesOwn ==
  [][\A s \in Script, d \in Dev :
       Detach(s) /\ port'[d] # port[d] => port[d] = s]_vars
=============================================================================
