----------------------------- MODULE IdentityFile -----------------------------
(***************************************************************************)
(* The machine's identity file (src/src/idfile.rs), shared by every usbws  *)
(* process of a user: each loads it when it starts, and creates it if it   *)
(* is missing.  The check that it exists, the truncating open, the write   *)
(* and the read are separate steps, with no lock around them.              *)
(*                                                                         *)
(* Seeds are numbered in the order they are drawn.                         *)
(***************************************************************************)
EXTENDS Naturals, Sequences, FiniteSetsExt

CONSTANTS
  Proc,        \* usbws processes of one user
  Files,       \* the identity files there may be at the start
  Written,     \* the seeds in Files are 1 .. Written
  MaxStarts,   \* bound: calls of load_or_create
  MaxFails     \* bound: writes that fail (no space left)

Seed   == Nat \ {0}
NoSeed == 0        \* not the hex of 32 bytes

\* A line: "x_seed=..", "ed_seed=..", one seed alone, two seeds on one line,
\* or something else: blank, a comment, unrecognized.
Line == [field : {"x_seed", "ed_seed", "bare", "two", "other"}, seed : Seed \cup {NoSeed}]

ASSUME IdentityAssumption ==
  /\ Files \subseteq [there : BOOLEAN, lines : Seq(Line)]
  /\ \A f \in Files : ~f.there => f.lines = <<>>
  /\ Written \in Nat /\ MaxStarts \in Nat /\ MaxFails \in Nat

Identity  == [x : Seed, ed : Seed]
Malformed == [x |-> NoSeed, ed |-> NoSeed]

VARIABLES
  file,      \* the file: whether it exists, and its lines
  at,        \* where each process is in load_or_create
  me,        \* the identity each process drew or loaded
  used,      \* history: identities a process has gone on to run with
  drawn,     \* how many seeds there are so far
  starts, fails

vars == <<file, at, me, used, drawn, starts, fails>>

TypeOK ==
  /\ file \in [there : BOOLEAN, lines : Seq(Line)]
  /\ at \in [Proc -> {"idle", "exists", "read", "open", "write", "running", "failed"}]
  /\ me \in [Proc -> Identity \cup {Malformed}]
  /\ \A p \in Proc : at[p] \in {"open", "write", "running"} => me[p] \in Identity
  /\ used \subseteq Identity
  /\ drawn \in Nat /\ starts \in 0 .. MaxStarts /\ fails \in 0 .. MaxFails

Init ==
  /\ file \in Files
  /\ at = [p \in Proc |-> "idle"]
  /\ me = [p \in Proc |-> Malformed]
  /\ used = {}
  /\ drawn = Written /\ starts = 0 /\ fails = 0

-----------------------------------------------------------------------------
(* The format.                                                             *)

\* The last line of a field decides, even one whose value does not decode.
LastOf(lines, field) ==
  LET ks == {k \in DOMAIN lines : lines[k].field = field}
  IN  IF ks = {} THEN NoSeed ELSE lines[Max(ks)].seed

Bare(lines) == {k \in DOMAIN lines : lines[k].field = "bare" /\ lines[k].seed # NoSeed}

\* parse_identity: both named fields, or else the first two bare lines.
ParseIdentity(lines) ==
  LET x      == LastOf(lines, "x_seed")
      ed     == LastOf(lines, "ed_seed")
      first  == Min(Bare(lines))
      others == Bare(lines) \ {first}
  IN  IF x # NoSeed /\ ed # NoSeed THEN [x |-> x, ed |-> ed]
      ELSE IF Bare(lines) # {} /\ others # {}
           THEN [x |-> lines[first].seed, ed |-> lines[Min(others)].seed]
      ELSE Malformed

\* The body write_identity writes.
Body(id) == << [field |-> "other", seed |-> NoSeed],
               [field |-> "x_seed", seed |-> id.x],
               [field |-> "ed_seed", seed |-> id.ed] >>

\* Writing the first k lines of body at offset 0 of a file.
Overwrite(lines, body, k) ==
  SubSeq(body, 1, k) \o SubSeq(lines, k + 1, Len(lines))

-----------------------------------------------------------------------------

Goto(p, point) == at' = [at EXCEPT ![p] = point]

\* A process starts, for the first time or again.
Start(p) ==
  /\ at[p] \in {"idle", "failed"} /\ starts < MaxStarts
  /\ starts' = starts + 1
  /\ me' = [me EXCEPT ![p] = Malformed]
  /\ Goto(p, "exists")
  /\ UNCHANGED <<file, used, drawn, fails>>

Draw(p) == /\ drawn' = drawn + 1
           /\ me' = [me EXCEPT ![p] = [x |-> drawn + 1, ed |-> drawn + 1]]

\* mutant: a keypair is drawn and persisted at every start
ExistsUnchecked(p) ==
  /\ at[p] = "exists"
  /\ Draw(p)
  /\ Goto(p, "open")
  /\ UNCHANGED <<file, used, starts, fails>>

\* path.exists(); without a file the process draws its two seeds.
Exists(p) ==
  /\ at[p] = "exists"
  /\ IF file.there THEN Goto(p, "read") /\ UNCHANGED <<me, drawn>>
                   ELSE Goto(p, "open") /\ Draw(p)
  /\ UNCHANGED <<file, used, starts, fails>>

Run(p, id) == /\ used' = used \cup {id}
              /\ Goto(p, "running")

\* mutant: whatever was parsed so far is taken for the identity
ReadUnchecked(p) ==
  /\ at[p] = "read"
  /\ me' = [me EXCEPT ![p] = ParseIdentity(file.lines)]
  /\ Goto(p, "running")
  /\ UNCHANGED <<file, used, drawn, starts, fails>>

\* read_to_string and parse_identity; a malformed file ends the process.
Read(p) ==
  LET id == ParseIdentity(file.lines)
  IN  /\ at[p] = "read"
      /\ me' = [me EXCEPT ![p] = id]
      /\ IF id = Malformed THEN Goto(p, "failed") /\ UNCHANGED used ELSE Run(p, id)
      /\ UNCHANGED <<file, drawn, starts, fails>>

\* write_identity: open with create and truncate.
OpenTruncated(p) ==
  /\ at[p] = "open"
  /\ file' = [there |-> TRUE, lines |-> <<>>]
  /\ Goto(p, "write")
  /\ UNCHANGED <<me, used, drawn, starts, fails>>

\* mutant: one write per line, so that another process can come in between
WriteBySeed(p) ==
  /\ at[p] = "write"
  /\ IF \E k \in DOMAIN file.lines : file.lines[k] = Body(me[p])[2]
     THEN /\ file' = [file EXCEPT !.lines = SubSeq(@, 1, 2) \o SubSeq(Body(me[p]), 3, 3)]
          /\ Run(p, me[p])
     ELSE /\ file' = [file EXCEPT !.lines = Overwrite(@, Body(me[p]), 2)]
          /\ UNCHANGED <<at, used>>
  /\ UNCHANGED <<me, drawn, starts, fails>>

\* write_all of the whole body at offset 0, in one write.
Write(p) ==
  /\ at[p] = "write"
  /\ file' = [file EXCEPT !.lines = Overwrite(@, Body(me[p]), 3)]
  /\ Run(p, me[p])
  /\ UNCHANGED <<me, drawn, starts, fails>>

\* Creating the directory or the file fails, or the write, after some lines:
\* the error ends the process.
WriteFail(p) ==
  /\ at[p] \in {"open", "write"} /\ fails < MaxFails
  /\ fails' = fails + 1
  /\ \/ UNCHANGED file
     \/ /\ at[p] = "write"
        /\ \E k \in 1 .. 2 :
             file' = [file EXCEPT !.lines = Overwrite(@, Body(me[p]), k)]
  /\ Goto(p, "failed")
  /\ UNCHANGED <<me, used, drawn, starts>>

\* The process ends, is killed, or the machine goes down, at whatever point.
Stop(p) ==
  /\ at[p] \notin {"idle", "failed"}
  /\ Goto(p, "idle")
  /\ UNCHANGED <<file, me, used, drawn, starts, fails>>

Next == \E p \in Proc : \/ Start(p) \/ Exists(p) \/ Read(p) \/ OpenTruncated(p)
                        \/ Write(p) \/ WriteFail(p) \/ Stop(p)

Spec == Init /\ [][Next]_vars

-----------------------------------------------------------------------------

\* No process ever runs with the encryption key of one keypair and the signing
\* key of another, whoever else creates the file meanwhile, unless a write
\* failed half-way.
WholePairs == fails = 0 => \A id \in used : id.x = id.ed

\* Once the file holds an identity and nobody is still creating it, it holds
\* that identity for good: later starts, at any interleaving, only load it
\* (idfile.rs:3-6 "must keep the same keys across restarts").
Settled == /\ ParseIdentity(file.lines) # Malformed
           /\ \A p \in Proc : at[p] \notin {"open", "write"}
SettledForGood == [][Settled => Settled' /\ ParseIdentity(file'.lines) = ParseIdentity(file.lines)]_vars
=============================================================================
