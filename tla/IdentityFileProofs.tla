-------------------------- MODULE IdentityFileProofs --------------------------
(***************************************************************************)
(* Theorems about IdentityFile: any number of processes, starts and failed *)
(* writes, and any identity files found at the start.                      *)
(***************************************************************************)
EXTENDS IdentityFile, SequenceTheorems, WellFoundedInduction, TLAPS

-----------------------------------------------------------------------------
(* The format.                                                             *)

LEMMA LeastOf ==
  ASSUME NEW T, T \subseteq Nat, T # {}
  PROVE  Min(T) \in T /\ \A y \in T : Min(T) <= y
<1>1. PICK x \in T : \A y \in T : ~(<<y, x>> \in OpToRel(<, Nat))
  <2> DEFINE R == OpToRel(<, Nat)
  <2>1. IsWellFoundedOn(R, Nat)
    BY NatLessThanWellFounded
  <2> HIDE DEF R
  <2>2. \E x \in T : \A y \in T : ~(<<y, x>> \in R)
    BY <2>1, WFMin
  <2> QED BY <2>2 DEF R
<1>2. \A y \in T : x <= y
  <2> SUFFICES ASSUME NEW y \in T PROVE x <= y
    OBVIOUS
  <2>1. x \in Nat /\ y \in Nat
    OBVIOUS
  <2>2. y < x => <<y, x>> \in {ss \in Nat \X Nat : ss[1] < ss[2]}
    BY <2>1
  <2>3. ~(y < x)
    BY <1>1, <2>2 DEF OpToRel
  <2> QED BY <2>1, <2>3
<1> QED BY <1>2 DEF Min

LEMMA GreatestOf ==
  ASSUME NEW n \in Nat, NEW T, T \subseteq 1 .. n, T # {}
  PROVE  Max(T) \in T /\ \A y \in T : Max(T) >= y
<1> DEFINE U == {n - k : k \in T}
<1>1. U \subseteq Nat /\ U # {}
  <2>1. \A k \in T : k \in Int /\ k <= n /\ n - k \in Nat
    OBVIOUS
  <2>2. \E k \in T : n - k \in U
    OBVIOUS
  <2> QED BY <2>1, <2>2
<1>2. PICK m \in U : \A u \in U : m <= u
  BY <1>1, LeastOf
<1>3. PICK x \in T : m = n - x
  OBVIOUS
<1>4. \A y \in T : x >= y
  <2> SUFFICES ASSUME NEW y \in T PROVE x >= y
    OBVIOUS
  <2>1. m <= n - y /\ x \in 1 .. n /\ y \in 1 .. n
    BY <1>2
  <2> QED BY <1>3, <2>1
<1> QED BY <1>4 DEF Max

LEMMA LastType ==
  ASSUME NEW lines \in Seq(Line), NEW field
  PROVE  LastOf(lines, field) \in Seed \cup {NoSeed}
<1> DEFINE ks == {k \in DOMAIN lines : lines[k].field = field}
<1>1. CASE ks = {}
  BY <1>1 DEF LastOf
<1>2. CASE ks # {}
  <2>1. Len(lines) \in Nat /\ ks \subseteq 1 .. Len(lines)
    BY LenProperties
  <2>2. Max(ks) \in ks
    BY <1>2, <2>1, GreatestOf
  <2>3. lines[Max(ks)] \in Line
    BY <2>1, <2>2, ElementOfSeq
  <2> QED BY <1>2, <2>3 DEF LastOf, Line
<1> QED BY <1>1, <1>2

\* What is parsed is an identity or nothing.
LEMMA ParsedType ==
  ASSUME NEW lines \in Seq(Line)
  PROVE  ParseIdentity(lines) \in Identity \cup {Malformed}
<1> DEFINE x == LastOf(lines, "x_seed")
           ed == LastOf(lines, "ed_seed")
           b == Bare(lines)
           first == Min(b)
           others == b \ {first}
<1>1. x \in Seed \cup {NoSeed} /\ ed \in Seed \cup {NoSeed}
  BY LastType
<1>2. b \subseteq Nat /\ \A k \in b : lines[k].seed \in Seed
  <2>1. \A k \in DOMAIN lines : k \in Nat /\ lines[k] \in Line
    BY LenProperties, ElementOfSeq
  <2> QED BY <2>1 DEF Bare, Line
<1>3. b # {} => lines[first].seed \in Seed
  BY <1>2, LeastOf
<1>4. others # {} => lines[Min(others)].seed \in Seed
  <2> HIDE DEF first
  <2>1. others \subseteq Nat /\ others \subseteq b
    BY <1>2
  <2> HIDE DEF others
  <2> QED BY <1>2, <2>1, LeastOf
<1>5. ParseIdentity(lines) =
        IF x # NoSeed /\ ed # NoSeed THEN [x |-> x, ed |-> ed]
        ELSE IF b # {} /\ others # {}
             THEN [x |-> lines[first].seed, ed |-> lines[Min(others)].seed]
        ELSE Malformed
  BY DEF ParseIdentity
<1> HIDE DEF x, ed, b, first, others
<1> QED BY <1>1, <1>3, <1>4, <1>5 DEF Identity

LEMMA NothingParsed == ParseIdentity(<<>>) = Malformed
<1>1. LastOf(<<>>, "x_seed") = NoSeed
  BY DEF LastOf
<1>2. Bare(<<>>) = {}
  BY DEF Bare
<1> QED BY <1>1, <1>2 DEF ParseIdentity

LEMMA BodyType ==
  ASSUME NEW id \in Identity
  PROVE  /\ Body(id) \in Seq(Line) /\ Len(Body(id)) = 3
         /\ \A i \in 1 .. 3 : Body(id)[i] \in Line
BY DEF Body, Identity, Line, Seed, NoSeed

\* What is written is read back.
LEMMA BodyParsed == ASSUME NEW id \in Identity PROVE ParseIdentity(Body(id)) = id
<1> DEFINE b == Body(id)
<1>1. /\ DOMAIN b = 1 .. 3 /\ b[1].field = "other"
      /\ b[2].field = "x_seed" /\ b[2].seed = id.x
      /\ b[3].field = "ed_seed" /\ b[3].seed = id.ed
  BY DEF Body
<1> HIDE DEF b
<1>2. ASSUME NEW n \in 1 .. 3 PROVE Max({n}) = n
  BY <1>2 DEF Max
<1>3. {k \in DOMAIN b : b[k].field = "x_seed"} = {2}
  <2>1. \A k \in 1 .. 3 : k = 1 \/ k = 2 \/ k = 3
    OBVIOUS
  <2> QED BY <1>1, <2>1
<1>4. {k \in DOMAIN b : b[k].field = "ed_seed"} = {3}
  <2>1. \A k \in 1 .. 3 : k = 1 \/ k = 2 \/ k = 3
    OBVIOUS
  <2> QED BY <1>1, <2>1
<1>5. LastOf(b, "x_seed") = id.x /\ LastOf(b, "ed_seed") = id.ed
  BY <1>1, <1>2, <1>3, <1>4 DEF LastOf
<1>6. id.x # NoSeed /\ id.ed # NoSeed /\ id = [x |-> id.x, ed |-> id.ed]
  BY DEF Identity, Seed, NoSeed
<1>7. ParseIdentity(b) = [x |-> id.x, ed |-> id.ed]
  BY <1>5, <1>6 DEF ParseIdentity
<1> QED BY <1>6, <1>7 DEF b

LEMMA OverwriteType ==
  ASSUME NEW lines \in Seq(Line), NEW id \in Identity, NEW k \in 1 .. 3
  PROVE  Overwrite(lines, Body(id), k) \in Seq(Line)
<1>1. Len(lines) \in Nat /\ \A i \in 1 .. Len(lines) : lines[i] \in Line
  BY LenProperties, ElementOfSeq
<1>2. SubSeq(Body(id), 1, k) \in Seq(Line)
  BY BodyType, SubSeqProperties
<1>3. SubSeq(lines, k + 1, Len(lines)) \in Seq(Line)
  <2>1. \A i \in k + 1 .. Len(lines) : lines[i] \in Line
    BY <1>1
  <2> QED BY <1>1, <2>1, SubSeqProperties
<1> QED BY <1>2, <1>3, ConcatProperties DEF Overwrite

\* The whole body, over nothing or over another body.
LEMMA OverwriteWhole ==
  ASSUME NEW lines \in Seq(Line), NEW id \in Identity, Len(lines) <= 3
  PROVE  Overwrite(lines, Body(id), 3) = Body(id)
<1>1. Len(lines) \in Nat /\ SubSeq(lines, 3 + 1, Len(lines)) = <<>>
  BY LenProperties, SubSeqEmpty
<1>2. SubSeq(Body(id), 1, 3) = Body(id)
  BY BodyType, SubSeqFull
<1> QED BY <1>1, <1>2, BodyType, ConcatEmptySeq DEF Overwrite

-----------------------------------------------------------------------------
(* Types.                                                                  *)

LEMMA TypeInit == Init => TypeOK
BY IdentityAssumption DEF Init, TypeOK, Malformed, Seed

LEMMA TypeRead ==
  ASSUME TypeOK, NEW p \in Proc, Read(p)
  PROVE  TypeOK'
<1> DEFINE id == ParseIdentity(file.lines)
<1>1. id \in Identity \cup {Malformed}
  BY ParsedType DEF TypeOK
<1> HIDE DEF id
<1>2. me' = [me EXCEPT ![p] = id]
  BY DEF Read, id
<1>3. CASE id = Malformed
  <2>1. at' = [at EXCEPT ![p] = "failed"] /\ UNCHANGED <<used, file, drawn, starts, fails>>
    BY <1>3 DEF Read, Goto, id
  <2> QED BY <1>1, <1>2, <2>1 DEF TypeOK
<1>4. CASE id # Malformed
  <2>1. /\ at' = [at EXCEPT ![p] = "running"] /\ used' = used \cup {id}
        /\ UNCHANGED <<file, drawn, starts, fails>>
    BY <1>4 DEF Read, Run, Goto, id
  <2>2. id \in Identity
    BY <1>1, <1>4
  <2> QED BY <1>2, <2>1, <2>2 DEF TypeOK
<1> QED BY <1>3, <1>4

LEMMA TypeNext == TypeOK /\ [Next]_vars => TypeOK'
<1> SUFFICES ASSUME TypeOK, [Next]_vars PROVE TypeOK'
  OBVIOUS
<1>1. CASE UNCHANGED vars
  BY <1>1 DEF vars, TypeOK
<1>2. ASSUME NEW p \in Proc, Start(p)
      PROVE  TypeOK'
  BY <1>2, IdentityAssumption DEF Start, Goto, TypeOK
<1>3. ASSUME NEW p \in Proc, Exists(p)
      PROVE  TypeOK'
  <2>1. CASE file.there
    BY <1>3, <2>1 DEF Exists, Goto, TypeOK
  <2>2. CASE ~file.there
    <3>1. [x |-> drawn + 1, ed |-> drawn + 1] \in Identity /\ drawn + 1 \in Nat
      BY DEF TypeOK, Identity, Seed
    <3> QED BY <1>3, <2>2, <3>1 DEF Exists, Draw, Goto, TypeOK
  <2> QED BY <2>1, <2>2
<1>4. ASSUME NEW p \in Proc, OpenTruncated(p)
      PROVE  TypeOK'
  <2>1. <<>> \in Seq(Line)
    OBVIOUS
  <2> QED BY <1>4, <2>1 DEF OpenTruncated, Goto, TypeOK
<1>5. ASSUME NEW p \in Proc, Write(p)
      PROVE  TypeOK'
  <2>1. me[p] \in Identity /\ file.lines \in Seq(Line)
    BY <1>5 DEF Write, TypeOK
  <2>2. Overwrite(file.lines, Body(me[p]), 3) \in Seq(Line)
    BY <2>1, OverwriteType
  <2>3. file' \in [there : BOOLEAN, lines : Seq(Line)]
    BY <1>5, <2>2 DEF Write, TypeOK
  <2> QED BY <1>5, <2>1, <2>3 DEF Write, Run, Goto, TypeOK
<1>6. ASSUME NEW p \in Proc, WriteFail(p)
      PROVE  TypeOK'
  <2>1. file' \in [there : BOOLEAN, lines : Seq(Line)]
    <3>1. CASE UNCHANGED file
      BY <3>1 DEF TypeOK
    <3>2. CASE at[p] = "write" /\ \E k \in 1 .. 2 :
                 file' = [file EXCEPT !.lines = Overwrite(@, Body(me[p]), k)]
      <4>1. me[p] \in Identity /\ file.lines \in Seq(Line)
        BY <3>2 DEF TypeOK
      <4>2. \A k \in 1 .. 2 : Overwrite(file.lines, Body(me[p]), k) \in Seq(Line)
        BY <4>1, OverwriteType
      <4> QED BY <3>2, <4>2 DEF TypeOK
    <3> QED BY <1>6, <3>1, <3>2 DEF WriteFail
  <2> QED BY <1>6, <2>1, IdentityAssumption DEF WriteFail, Goto, TypeOK
<1>7. ASSUME NEW p \in Proc, Stop(p)
      PROVE  TypeOK'
  BY <1>7 DEF Stop, Goto, TypeOK
<1> QED BY <1>1, <1>2, <1>3, <1>4, <1>5, <1>6, <1>7, TypeRead DEF Next

\* Types; a process writes, and runs with, a complete identity only.
THEOREM TypeCorrect == Spec => []TypeOK
BY TypeInit, TypeNext, PTL DEF Spec

-----------------------------------------------------------------------------
(* The identity is kept.                                                   *)

\* A file that does not exist holds nothing, and a process writes to one it has
\* opened.
Opened == /\ ~file.there => file.lines = <<>>
          /\ \A p \in Proc : at[p] = "write" => file.there

LEMMA OpenedInit == Init => Opened
BY IdentityAssumption DEF Init, Opened

LEMMA OpenedNext == TypeOK /\ Opened /\ [Next]_vars => Opened'
<1> SUFFICES ASSUME TypeOK, Opened, [Next]_vars PROVE Opened'
  OBVIOUS
<1>1. CASE UNCHANGED vars
  BY <1>1 DEF vars, Opened
<1>2. ASSUME NEW p \in Proc, Start(p) \/ Exists(p) \/ Read(p) \/ Stop(p)
      PROVE  Opened'
  BY <1>2 DEF Start, Exists, Read, Stop, Run, Goto, Opened, TypeOK
<1>3. ASSUME NEW p \in Proc, OpenTruncated(p)
      PROVE  Opened'
  BY <1>3 DEF OpenTruncated, Opened
<1>4. ASSUME NEW p \in Proc, Write(p) \/ WriteFail(p)
      PROVE  Opened'
  <2>1. \A q \in Proc : at'[q] = "write" => at[q] = "write"
    BY <1>4 DEF Write, WriteFail, Run, Goto, TypeOK
  <2>2. file' = file \/ (at[p] = "write" /\ file'.there = file.there)
    BY <1>4 DEF Write, WriteFail, TypeOK
  <2> QED BY <2>1, <2>2 DEF Opened
<1> QED BY <1>1, <1>2, <1>3, <1>4 DEF Next

LEMMA SettledStep ==
  TypeOK /\ Opened /\ [Next]_vars
    => (Settled => Settled' /\ ParseIdentity(file'.lines) = ParseIdentity(file.lines))
<1> SUFFICES ASSUME TypeOK, Opened, [Next]_vars, Settled
             PROVE  /\ file' = file
                    /\ \A q \in Proc : at'[q] \notin {"open", "write"}
  BY DEF Settled
<1>1. file.there
  BY NothingParsed DEF Opened, Settled
<1>2. \A q \in Proc : at[q] \notin {"open", "write"}
  BY DEF Settled
<1>3. CASE UNCHANGED vars
  BY <1>2, <1>3 DEF vars
<1>4. ASSUME NEW p \in Proc, Start(p) \/ Stop(p)
      PROVE  file' = file /\ \A q \in Proc : at'[q] \notin {"open", "write"}
  BY <1>2, <1>4 DEF Start, Stop, Goto, TypeOK
<1>5. ASSUME NEW p \in Proc, Exists(p)
      PROVE  file' = file /\ \A q \in Proc : at'[q] \notin {"open", "write"}
  BY <1>1, <1>2, <1>5 DEF Exists, Goto, TypeOK
<1>6. ASSUME NEW p \in Proc, Read(p)
      PROVE  file' = file /\ \A q \in Proc : at'[q] \notin {"open", "write"}
  <2>1. at' = [at EXCEPT ![p] = "failed"] \/ at' = [at EXCEPT ![p] = "running"]
    BY <1>6 DEF Read, Run, Goto
  <2> QED BY <1>2, <1>6, <2>1 DEF Read, TypeOK
<1>7. ASSUME NEW p \in Proc, OpenTruncated(p) \/ Write(p) \/ WriteFail(p)
      PROVE  FALSE
  BY <1>2, <1>7 DEF OpenTruncated, Write, WriteFail
<1> QED BY <1>3, <1>4, <1>5, <1>6, <1>7 DEF Next

\* Once the file holds an identity and nobody is still creating it, it holds that
\* identity for good: every later start only loads it.
THEOREM IdentityStays == Spec => SettledForGood
BY TypeInit, TypeNext, OpenedInit, OpenedNext, SettledStep, PTL DEF Spec, SettledForGood

-----------------------------------------------------------------------------
(* The two keys of an identity belong together.                            *)

Whole(id) == id.x = id.ed

\* Nobody had put together a file out of two keypairs before.
OldFilesWhole == \A f \in Files : Whole(ParseIdentity(f.lines))

\* Empty, or what one process wrote.
Made(lines) == lines = <<>> \/ \E id \in Identity : Whole(id) /\ lines = Body(id)

\* As long as no write has failed half-way, whatever processes come in between.
UsedWhole == fails = 0 => \A id \in used : Whole(id)
MineWhole == \A p \in Proc : at[p] \in {"open", "write"} => Whole(me[p])
FileWhole == fails = 0 => \/ Made(file.lines)
                          \/ file \in Files /\ \A p \in Proc : at[p] # "write"
OnePair == UsedWhole /\ MineWhole /\ FileWhole

LEMMA OnePairInit == Init => OnePair
BY DEF Init, OnePair, UsedWhole, MineWhole, FileWhole

LEMMA MadeParsed == ASSUME NEW lines, Made(lines) PROVE Whole(ParseIdentity(lines))
BY NothingParsed, BodyParsed DEF Made, Whole, Malformed

LEMMA MadeWritten ==
  ASSUME NEW lines \in Seq(Line), Made(lines), NEW id \in Identity, Whole(id)
  PROVE  Made(Overwrite(lines, Body(id), 3))
<1>1. Len(lines) <= 3
  <2>1. CASE lines = <<>>
    BY <2>1
  <2>2. CASE lines # <<>>
    <3>1. PICK made \in Identity : lines = Body(made)
      BY <2>2 DEF Made
    <3>2. Len(lines) = 3
      BY <3>1, BodyType
    <3> QED BY <3>2
  <2> QED BY <2>1, <2>2
<1> QED BY <1>1, OverwriteWhole DEF Made

LEMMA OnePairNext ==
  ASSUME OldFilesWhole
  PROVE  TypeOK /\ OnePair /\ [Next]_vars => OnePair'
<1> SUFFICES ASSUME TypeOK, OnePair, [Next]_vars PROVE OnePair'
  OBVIOUS
<1>1. CASE UNCHANGED vars
  BY <1>1 DEF vars, OnePair, UsedWhole, MineWhole, FileWhole
<1>2. ASSUME NEW p \in Proc, Start(p) \/ Stop(p)
      PROVE  OnePair'
  BY <1>2 DEF Start, Stop, Goto, OnePair, UsedWhole, MineWhole, FileWhole, TypeOK
<1>3. ASSUME NEW p \in Proc, Exists(p)
      PROVE  OnePair'
  BY <1>3 DEF Exists, Draw, Goto, OnePair, UsedWhole, MineWhole, FileWhole, TypeOK, Whole
<1>4. ASSUME NEW p \in Proc, Read(p)
      PROVE  OnePair'
  <2> DEFINE id == ParseIdentity(file.lines)
  <2>1. fails = 0 => Whole(id)
    BY MadeParsed DEF OnePair, FileWhole, OldFilesWhole
  <2> HIDE DEF id
  <2>2. at' = [at EXCEPT ![p] = "failed"] \/ at' = [at EXCEPT ![p] = "running"]
    BY <1>4 DEF Read, Run, Goto
  <2>3. /\ used' \subseteq used \cup {id} /\ me' = [me EXCEPT ![p] = id]
        /\ UNCHANGED <<file, fails>>
    BY <1>4 DEF Read, Run, id
  <2> QED BY <2>1, <2>2, <2>3 DEF OnePair, UsedWhole, MineWhole, FileWhole, TypeOK
<1>5. ASSUME NEW p \in Proc, OpenTruncated(p)
      PROVE  OnePair'
  <2>1. Made(file'.lines)
    BY <1>5 DEF OpenTruncated, Made
  <2>2. at' = [at EXCEPT ![p] = "write"] /\ at[p] = "open" /\ UNCHANGED <<me, used, fails>>
    BY <1>5 DEF OpenTruncated, Goto
  <2>3. \A q \in Proc : at'[q] \in {"open", "write"} => at[q] \in {"open", "write"}
    BY <2>2 DEF TypeOK
  <2>4. \A q \in Proc : at'[q] \in {"open", "write"} => Whole(me[q])
    BY <2>3 DEF OnePair, UsedWhole, MineWhole, FileWhole
  <2>5. fails' = 0 => \A id \in used' : Whole(id)
    BY <2>2 DEF OnePair, UsedWhole, MineWhole, FileWhole
  <2>6. \A q \in Proc : at'[q] \in {"open", "write"} => Whole(me'[q])
    BY <2>2, <2>4
  <2>7. fails' = 0 => Made(file'.lines)
    BY <2>1
  <2>8. MineWhole'
    BY <2>6 DEF MineWhole
  <2> QED BY <2>5, <2>7, <2>8 DEF OnePair, UsedWhole, FileWhole
<1>6. ASSUME NEW p \in Proc, Write(p)
      PROVE  OnePair'
  <2>1. at[p] = "write" /\ me[p] \in Identity /\ Whole(me[p]) /\ file.lines \in Seq(Line)
    BY <1>6 DEF Write, TypeOK, OnePair, MineWhole
  <2>2. fails = 0 => Made(file.lines)
    BY <2>1 DEF OnePair, UsedWhole, MineWhole, FileWhole
  <2>3. file'.lines = Overwrite(file.lines, Body(me[p]), 3)
    BY <1>6 DEF Write, TypeOK
  <2>4. fails = 0 => Made(file'.lines)
    BY <2>1, <2>2, <2>3, MadeWritten
  <2>5. /\ at' = [at EXCEPT ![p] = "running"] /\ used' = used \cup {me[p]}
        /\ UNCHANGED <<me, fails>>
    BY <1>6 DEF Write, Run, Goto
  <2> QED BY <2>1, <2>4, <2>5 DEF OnePair, UsedWhole, MineWhole, FileWhole, TypeOK
<1>7. ASSUME NEW p \in Proc, WriteFail(p)
      PROVE  OnePair'
  BY <1>7 DEF WriteFail, Goto, OnePair, UsedWhole, MineWhole, FileWhole, TypeOK
<1> QED BY <1>1, <1>2, <1>3, <1>4, <1>5, <1>6, <1>7 DEF Next

\* If no file was put together out of two keypairs by hand and no write failed,
\* no process runs with the halves of two: concurrent first starts overwrite
\* each other's identity whole (idfile.rs:103, one write of the whole body).
THEOREM PairsStayWhole == ASSUME OldFilesWhole PROVE Spec => []WholePairs
<1>1. OnePair => WholePairs
  BY DEF OnePair, UsedWhole, WholePairs, Whole
<1> QED BY <1>1, TypeInit, TypeNext, OnePairInit, OnePairNext, PTL DEF Spec
===============================================================================
