------------------------ MODULE AuthorizedTableProofs ------------------------
(***************************************************************************)
(* Theorems about AuthorizedTable, for any number of gates, authorize      *)
(* runs, owners, failures and restarts, and any file to begin with.        *)
(***************************************************************************)
EXTENDS AuthorizedTable, TLAPS

Lines == Seq(Owner \cup {Note})

LEMMA AppendedType ==
  ASSUME table \in [lines : Lines, open : BOOLEAN], NEW line \in Owner \cup {Note},
         NEW lines \in Appended(line)
  PROVE  lines \in Lines
<1>1. table.lines \in Lines /\ Append(table.lines, line) \in Lines
  BY DEF Lines
<1>2. CASE table.open /\ Len(table.lines) > 0
  <2>1. PICK l \in {table.lines[Len(table.lines)], Note} :
          lines = [table.lines EXCEPT ![Len(table.lines)] = l]
    BY <1>2 DEF Appended
  <2>2. Len(table.lines) \in 1 .. Len(table.lines) /\ l \in Owner \cup {Note}
    BY <1>1, <1>2 DEF Lines
  <2> QED
    BY <1>1, <2>1, <2>2 DEF Lines
<1>3. CASE ~(table.open /\ Len(table.lines) > 0)
  BY <1>1, <1>3 DEF Appended
<1> QED
  BY <1>2, <1>3

LEMMA TypeStep == TypeOK /\ [Next]_vars => TypeOK'
<1> SUFFICES ASSUME TypeOK, [Next]_vars PROVE TypeOK'
  OBVIOUS
<1>0. table \in [lines : Lines, open : BOOLEAN]
  BY DEF TypeOK, Lines
<1>1. ASSUME NEW g \in Gate, NEW o \in Owner, Decide(g, o) PROVE TypeOK'
  BY <1>1, TableAssumption DEF Decide, Goto, TypeOK, Proc
<1>2. ASSUME NEW g \in Gate, Restart(g) PROVE TypeOK'
  BY <1>2, TableAssumption DEF Restart, Goto, TypeOK, Proc
<1>3. ASSUME NEW p \in Proc, AddCheck(p) PROVE TypeOK'
  BY <1>3, TableAssumption DEF AddCheck, After, Goto, TypeOK, Proc
<1>4. ASSUME NEW p \in Proc, AddWrite(p) PROVE TypeOK'
  <2>1. who[p] \in Owner
    BY <1>4 DEF AddWrite, TypeOK
  <2>2. table' \in [lines : Seq(Owner \cup {Note}), open : BOOLEAN]
    BY <1>0, <1>4, <2>1, AppendedType DEF AddWrite, Lines
  <2> QED
    BY <1>4, <2>2, TableAssumption DEF AddWrite, After, Goto, TypeOK, Proc
<1>5. ASSUME NEW p \in Proc, AddFail(p) PROVE TypeOK'
  <2>1. who[p] \in Owner
    BY <1>5 DEF AddFail, TypeOK
  <2>2. table' \in [lines : Seq(Owner \cup {Note}), open : BOOLEAN]
    <3>1. CASE UNCHANGED table
      BY <1>0, <3>1 DEF Lines
    <3>2. ASSUME NEW lines \in Appended(Note) \cup Appended(who[p]),
                 table' = [lines |-> lines, open |-> TRUE]
          PROVE  table' \in [lines : Seq(Owner \cup {Note}), open : BOOLEAN]
      BY <1>0, <2>1, <3>2, AppendedType DEF Lines
    <3> QED
      BY <1>5, <3>1, <3>2 DEF AddFail
  <2>3. torn' \in BOOLEAN /\ unsaved' \subseteq Owner
    BY <1>5, <2>1 DEF AddFail, TypeOK
  <2> QED
    BY <1>5, <2>2, <2>3, TableAssumption DEF AddFail, Goto, TypeOK, Proc
<1>6. CASE UNCHANGED vars
  BY <1>6 DEF vars, TypeOK
<1> QED
  BY <1>1, <1>2, <1>3, <1>4, <1>5, <1>6 DEF Next

\* Every variable keeps its type.
THEOREM TypeCorrect == Spec => []TypeOK
<1>1. Init => TypeOK
  BY TableAssumption DEF Init, TypeOK, Proc
<1> QED
  BY <1>1, TypeStep, PTL DEF Spec

-----------------------------------------------------------------------------

\* What the lines of a file list.
In(lines) == {lines[k] : k \in DOMAIN lines} \ {Note}

\* Appending to a file that ends with a newline adds the line and keeps the rest.
LEMMA AppendKeeps ==
  ASSUME table \in [lines : Lines, open : BOOLEAN], ~table.open,
         NEW line \in Owner \cup {Note}, NEW lines \in Appended(line)
  PROVE  In(lines) = Listed \cup ({line} \ {Note})
<1>1. table.lines \in Lines /\ lines = Append(table.lines, line)
  BY DEF Appended
<1>2. /\ DOMAIN table.lines = 1 .. Len(table.lines)
      /\ Len(table.lines) \in Nat
      /\ DOMAIN lines = 1 .. Len(table.lines) + 1
      /\ lines[Len(table.lines) + 1] = line
      /\ \A k \in 1 .. Len(table.lines) : lines[k] = table.lines[k]
  BY <1>1 DEF Lines
<1>3. \A k \in DOMAIN lines : k = Len(table.lines) + 1 \/ k \in DOMAIN table.lines
  BY <1>2
<1>4. DOMAIN table.lines \subseteq DOMAIN lines /\ Len(table.lines) + 1 \in DOMAIN lines
  BY <1>2
<1>5. {lines[k] : k \in DOMAIN lines} = {table.lines[k] : k \in DOMAIN table.lines} \cup {line}
  BY <1>2, <1>3, <1>4
<1> QED
  BY <1>5 DEF In, Listed

\* The file always ends with a newline, until torn.
Ended == ~torn => ~table.open

\* A step keeps every entry, and an append that is reported as done adds its own.
LEMMA ListedKept ==
  ASSUME TypeOK, Ended, ~torn, [Next]_vars
  PROVE  Listed \subseteq Listed'
<1>0. table \in [lines : Lines, open : BOOLEAN] /\ ~table.open
  BY DEF TypeOK, Ended, Lines
<1>1. Listed' = In(table'.lines)
  BY DEF Listed, In
<1>2. ASSUME NEW p \in Proc, AddWrite(p) PROVE Listed \subseteq Listed'
  <2>1. PICK lines \in Appended(who[p]) : table' = [lines |-> lines, open |-> FALSE]
    BY <1>2 DEF AddWrite
  <2>2. who[p] \in Owner
    BY <1>2 DEF AddWrite, TypeOK
  <2> QED
    BY <1>0, <1>1, <2>1, <2>2, AppendKeeps
<1>3. ASSUME NEW p \in Proc, AddFail(p) PROVE Listed \subseteq Listed'
  <2>1. CASE UNCHANGED table
    BY <2>1 DEF Listed
  <2>2. ASSUME NEW lines \in Appended(Note) \cup Appended(who[p]),
               table' = [lines |-> lines, open |-> TRUE]
        PROVE  Listed \subseteq Listed'
    <3>1. who[p] \in Owner
      BY <1>3 DEF AddFail, TypeOK
    <3> QED
      BY <1>0, <1>1, <2>2, <3>1, AppendKeeps
  <2> QED
    BY <1>3, <2>1, <2>2 DEF AddFail
<1>4. ASSUME UNCHANGED table PROVE Listed \subseteq Listed'
  BY <1>4 DEF Listed
<1> QED
  BY <1>2, <1>3, <1>4 DEF Next, vars, Decide, Restart, AddCheck

\* The inductive invariant: AddWrite keeps its promise only behind a newline.
IInv == TypeOK /\ Ended /\ SessionAuthorized /\ Recorded

LEMMA IInvStep == IInv /\ [Next]_vars => IInv'
<1> SUFFICES ASSUME IInv, [Next]_vars PROVE IInv'
  OBVIOUS
<1>1. TypeOK'
  BY TypeStep DEF IInv
<1>2. Ended'
  BY DEF IInv, Ended, Next, vars, Decide, Restart, AddCheck, AddWrite, AddFail
<1>3. torn => torn'
  BY DEF IInv, TypeOK, Next, vars, Decide, Restart, AddCheck, AddWrite, AddFail
<1>4. unsaved \subseteq unsaved'
  BY DEF Next, vars, Decide, Restart, AddCheck, AddWrite, AddFail
<1>5. ASSUME ~torn', NEW q \in Proc
      PROVE  /\ q \in Gate \ NoPinning /\ at'[q] = "session"
                  => who'[q] \in Listed' \cup unsaved'
             /\ q \in Admin /\ at'[q] = "done" => who'[q] \in Listed'
  <2>0. TypeOK /\ Ended /\ SessionAuthorized /\ Recorded /\ ~torn /\ Listed \subseteq Listed'
    BY <1>3, <1>5, ListedKept DEF IInv
  <2>1. CASE at'[q] = at[q] /\ who'[q] = who[q]
    BY <1>4, <2>0, <2>1 DEF SessionAuthorized, Recorded
  <2>2. ASSUME NEW g \in Gate, NEW o \in Owner, Decide(g, o), q = g
        PROVE  q \in Gate /\ (q \notin NoPinning /\ at'[q] = "session" => who'[q] \in Listed')
    <3>1. Listed' = Listed
      BY <2>2 DEF Decide, Listed
    <3>2. who'[g] = o /\ (Listed # {} => o \in Listed \/ g \in NoPinning)
      BY <2>0, <2>2 DEF Decide, TypeOK, Proc
    <3>3. g \notin NoPinning /\ Listed = {} => at'[g] = "check"
      BY <2>0, <2>2 DEF Decide, Goto, TypeOK, Proc
    <3> QED
      BY <2>2, <3>1, <3>2, <3>3
  <2>3. ASSUME NEW g \in Gate, Restart(g), q = g PROVE at'[q] = "wait"
    BY <2>0, <2>3 DEF Restart, Goto, TypeOK, Proc
  <2>4. ASSUME AddCheck(q) PROVE at'[q] = "append" \/ who'[q] \in Listed'
    BY <2>0, <2>4 DEF AddCheck, Goto, TypeOK
  <2>5. ASSUME AddWrite(q) PROVE who'[q] \in Listed'
    <3>1. PICK lines \in Appended(who[q]) : table' = [lines |-> lines, open |-> FALSE]
      BY <2>5 DEF AddWrite
    <3>2. who'[q] = who[q] /\ who[q] \in Owner
      BY <2>0, <2>5 DEF AddWrite, TypeOK
    <3>3. Listed' = In(lines)
      BY <3>1 DEF Listed, In
    <3>4. In(lines) = Listed \cup ({who[q]} \ {Note})
      BY <2>0, <3>2, AppendKeeps DEF TypeOK, Ended, Lines
    <3> QED
      BY <3>2, <3>3, <3>4, TableAssumption
  <2>6. ASSUME AddFail(q)
        PROVE  IF q \in Gate THEN who'[q] \in unsaved' ELSE at'[q] = "failed"
    BY <2>0, <2>6 DEF AddFail, Goto, TypeOK
  <2>7. ASSUME NEW p \in Proc, p # q,
               \/ p \in Gate /\ (Restart(p) \/ \E o \in Owner : Decide(p, o))
               \/ AddCheck(p) \/ AddWrite(p) \/ AddFail(p)
        PROVE  at'[q] = at[q] /\ who'[q] = who[q]
    BY <2>0, <2>7 DEF Restart, Decide, AddCheck, AddWrite, AddFail, Goto, TypeOK
  <2>8. ASSUME UNCHANGED vars PROVE at'[q] = at[q] /\ who'[q] = who[q]
    BY <2>8 DEF vars
  <2> QED
    BY <2>1, <2>2, <2>3, <2>4, <2>5, <2>6, <2>7, <2>8, TableAssumption DEF Next, Proc
<1> QED
  BY <1>1, <1>2, <1>5 DEF IInv, SessionAuthorized, Recorded, Proc

LEMMA IInvInvariant == Spec => []IInv
<1>1. Init => IInv
  BY TableAssumption DEF Init, IInv, TypeOK, Proc, Ended, SessionAuthorized, Recorded
<1> QED
  BY <1>1, IInvStep, PTL DEF Spec

\* authorized.rs:15-16, "only initiators whose x_pub is listed are accepted": a
\* gate with pinning serves nobody else, apart from whom it could not save.
THEOREM SessionAuthorizedInvariant == Spec => []SessionAuthorized
<1>1. IInv => SessionAuthorized
  BY DEF IInv
<1> QED
  BY <1>1, IInvInvariant, PTL

\* authorized.rs:73, "Append an initiator to the authorized file": a run of
\* `usbws authorize` that reported success did, and nobody undid it.
THEOREM RecordedInvariant == Spec => []Recorded
<1>1. IInv => Recorded
  BY DEF IInv
<1> QED
  BY <1>1, IInvInvariant, PTL

\* authorized.rs:14, "Several owners = several lines": no append of anybody,
\* whole or failed, and no restart drops an owner from the table.
THEOREM NobodyDropped == Spec => AuthorizationsKept
<1>1. IInv /\ [Next]_vars => [~torn => Listed \subseteq Listed']_vars
  BY ListedKept DEF IInv
<1> QED
  BY <1>1, IInvInvariant, PTL DEF Spec, AuthorizationsKept
=============================================================================
