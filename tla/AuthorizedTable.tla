--------------------------- MODULE AuthorizedTable ---------------------------
(***************************************************************************)
(* The table of authorized initiators (src/src/authorized.rs), as the      *)
(* gates in accept mode (tcp.rs, authorize_initiator) and the runs of      *)
(* `usbws authorize` that share one configuration directory use it.        *)
(*                                                                         *)
(* Nothing locks the file: load() and the append of add() are separate     *)
(* steps, between which other processes act.                               *)
(***************************************************************************)
EXTENDS Naturals, Sequences

CONSTANTS
  Owner,        \* public keys of initiators
  Nobody,       \* "no peer yet"
  Note,         \* a line load() skips: a comment, or malformed
  Gate,         \* processes waiting in `tcp-connect --accept`
  Admin,        \* runs of `usbws authorize`
  Tables,       \* the files there may be at the start: [lines, open]
  NoPinning,    \* the gates started with USBWS_NO_PINNING=1
  MaxFails,     \* bound: appends that fail
  MaxRestarts   \* bound: gates killed and started again

ASSUME TableAssumption ==
  /\ Nobody \notin Owner /\ Note \notin Owner
  /\ Gate \cap Admin = {}
  /\ Tables \subseteq [lines : Seq(Owner \cup {Note}), open : BOOLEAN]
  /\ NoPinning \subseteq Gate /\ MaxFails \in Nat /\ MaxRestarts \in Nat

VARIABLES
  table,     \* the file: its lines, and whether the last one lacks its newline
  at,        \* where each process is
  who,       \* the owner each process is dealing with
  unsaved,   \* owners accepted though they could not be remembered
  torn,      \* history: whether the last line has ever lacked its newline
  fails, restarts

vars == <<table, at, who, unsaved, torn, fails, restarts>>

Proc == Gate \cup Admin

\* A missing file and an empty one load alike.
Listed == {table.lines[k] : k \in DOMAIN table.lines} \ {Note}

TypeOK ==
  /\ table \in [lines : Seq(Owner \cup {Note}), open : BOOLEAN]
  /\ at \in [Proc -> {"wait", "check", "append", "session", "done", "failed"}]
  /\ \A p \in Proc : /\ at[p] \in {"session", "wait"} => p \in Gate
                     /\ at[p] \in {"done", "failed"} => p \in Admin
  /\ who \in [Proc -> Owner \cup {Nobody}]
  /\ \A p \in Proc : at[p] # "wait" => who[p] \in Owner
  /\ unsaved \subseteq Owner /\ torn \in BOOLEAN
  /\ fails \in 0 .. MaxFails /\ restarts \in 0 .. MaxRestarts

Init ==
  /\ table \in Tables
  /\ at = [p \in Proc |-> IF p \in Gate THEN "wait" ELSE "check"]
  /\ who \in {f \in [Proc -> Owner \cup {Nobody}] :
                \A p \in Proc : f[p] = Nobody <=> p \in Gate}
  /\ unsaved = {} /\ torn = table.open
  /\ fails = 0 /\ restarts = 0

Goto(p, point) == at' = [at EXCEPT ![p] = point]

\* mutant: whoever introduces itself is accepted, or remembered if the table is empty
DecideAny(g, o) ==
  /\ at[g] = "wait"
  /\ who' = [who EXCEPT ![g] = o]
  /\ Goto(g, IF Listed = {} THEN "check" ELSE "session")
  /\ UNCHANGED <<table, unsaved, torn, fails, restarts>>

\* CMD_INTRO_FROM names o, and authorize_initiator loads the table.  Somebody
\* not listed is refused and the gate waits on, as when the file is unreadable.
Decide(g, o) ==
  /\ at[g] = "wait"
  /\ g \in NoPinning \/ Listed = {} \/ o \in Listed
  /\ who' = [who EXCEPT ![g] = o]
  /\ Goto(g, IF g \notin NoPinning /\ Listed = {} THEN "check" ELSE "session")
  /\ UNCHANGED <<table, unsaved, torn, fails, restarts>>

\* Where a process goes when its add() is over.
After(p) == IF p \in Gate THEN "session" ELSE "done"

\* add() loads the table (again): whom it lists already is not appended.
AddCheck(p) ==
  /\ at[p] = "check"
  /\ Goto(p, IF who[p] \in Listed THEN After(p) ELSE "append")
  /\ UNCHANGED <<table, who, unsaved, torn, fails, restarts>>

\* The lines after text is appended at the end of the file.  Behind a line
\* without newline it continues that line: a comment or malformed line stays
\* one; a key is no longer one (two keys in a row), unless a nick was in between.
Appended(line) ==
  LET n == Len(table.lines)
  IN  IF table.open /\ n > 0
      THEN {[table.lines EXCEPT ![n] = l] : l \in {table.lines[n], Note}}
      ELSE {Append(table.lines, line)}

\* mutant: the file is truncated instead of appended to
AddWriteTruncates(p) ==
  /\ at[p] = "append"
  /\ table' = [lines |-> <<who[p]>>, open |-> FALSE]
  /\ Goto(p, After(p))
  /\ UNCHANGED <<who, unsaved, torn, fails, restarts>>

\* The line and its newline are written.
AddWrite(p) ==
  /\ at[p] = "append"
  /\ \E lines \in Appended(who[p]) : table' = [lines |-> lines, open |-> FALSE]
  /\ Goto(p, After(p))
  /\ UNCHANGED <<who, unsaved, torn, fails, restarts>>

\* mutant: a gate gives up, too, when it cannot remember the initiator
AddFailStops(p) ==
  /\ at[p] \in {"check", "append"} /\ fails < MaxFails
  /\ fails' = fails + 1
  /\ Goto(p, "failed")
  /\ UNCHANGED <<table, who, unsaved, torn, restarts>>

\* mutant: the result of the append is ignored
AddFailIgnored(p) ==
  /\ at[p] \in {"check", "append"} /\ fails < MaxFails
  /\ fails' = fails + 1
  /\ Goto(p, After(p))
  /\ UNCHANGED <<table, who, unsaved, torn, restarts>>

\* Loading, creating the directory, opening or writing fails, the last perhaps
\* within the line: then a part of a key, or a key without newline, is behind.
\* A gate warns and accepts all the same.
AddFail(p) ==
  /\ at[p] \in {"check", "append"} /\ fails < MaxFails
  /\ fails' = fails + 1
  /\ \/ UNCHANGED <<table, torn>>
     \/ /\ at[p] = "append" /\ torn' = TRUE
        /\ \E lines \in Appended(Note) \cup Appended(who[p]) :
             table' = [lines |-> lines, open |-> TRUE]
  /\ unsaved' = IF p \in Gate THEN unsaved \cup {who[p]} ELSE unsaved
  /\ Goto(p, IF p \in Gate THEN "session" ELSE "failed")
  /\ UNCHANGED <<who, restarts>>

\* A gate is killed, at whatever point, and started again.
Restart(g) ==
  /\ restarts < MaxRestarts /\ at[g] # "wait"
  /\ restarts' = restarts + 1
  /\ Goto(g, "wait")
  /\ who' = [who EXCEPT ![g] = Nobody]
  /\ UNCHANGED <<table, unsaved, torn, fails>>

Next == \/ \E g \in Gate, o \in Owner : Decide(g, o)
        \/ \E g \in Gate : Restart(g)
        \/ \E p \in Proc : AddCheck(p) \/ AddWrite(p) \/ AddFail(p)

Spec == Init /\ [][Next]_vars

-----------------------------------------------------------------------------

\* A gate with pinning serves only initiators the table lists, or one it could
\* not save when it trusted it on first use, however gates, restarts and
\* `usbws authorize` interleave (authorized.rs:15-16), unless an unfinished
\* line let the next append spoil an entry.
SessionAuthorized ==
  ~torn => \A g \in Gate \ NoPinning :
             at[g] = "session" => who[g] \in Listed \cup unsaved

\* Nobody who is listed is dropped from the table by concurrent appends, failed
\* ones or restarts (authorized.rs:14 "Several owners = several lines").
AuthorizationsKept == [][~torn => Listed \subseteq Listed']_vars

\* When `usbws authorize` reports success, the initiator is listed, whatever
\* others appended meanwhile (authorized.rs:73 "Append an initiator to the
\* authorized file"), unless the last line was unfinished.
Recorded == ~torn => \A a \in Admin : at[a] = "done" => who[a] \in Listed
=============================================================================
