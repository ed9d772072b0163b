---------------------------- MODULE StartUpProofs ----------------------------
(***************************************************************************)
(* Theorems about StartUp: any processes, command lines, terminals, ports  *)
(* and any number of starts.                                               *)
(***************************************************************************)
EXTENDS StartUp, TLAPS

-----------------------------------------------------------------------------
(* What main makes of a command line.                                      *)

Linked == {"share", "attach", "listen", "connect"}    \* the modes that need an invitation
Served == Linked \cup {"accept"}

PlanOK(m) ==
  /\ m.mode \in Modes
  /\ m.mode \in Linked => m.peer \in Invite
  /\ m.link # None => m.mode = "attach"

LEMMA WithOK == ASSUME NEW peer, NEW m, peer \in Invite => PlanOK(m) PROVE PlanOK(With(peer, m))
BY DEF With, failed, PlanOK, Plan, Modes, Linked

LEMMA UsageOK == PlanOK(usage)
BY DEF usage, PlanOK, Plan, Modes, Linked

\* Whatever the command line: who is talked to is a decoded invitation, and only
\* attach gets a link.
LEMMA PlanMade == \A cmd, args : PlanOK(main(cmd, args))
<1> SUFFICES ASSUME NEW cmd, NEW args PROVE PlanOK(main(cmd, args))
  OBVIOUS
<1> DEFINE cli == parse(args)
           what == first(cli)
           peer == resolve_peer(cli, cmd = "attach")
           who == Some(flag(cli, "peer"), what)
           link == flag(cli, "link")
           accept == flag(cli, "accept")
<1>1. /\ peer \in Invite => PlanOK(Plan("share", what, peer, None))
      /\ peer \in Invite => PlanOK(Plan("attach", None, peer, link))
      /\ peer \in Invite => PlanOK(Plan("listen", what, peer, None))
      /\ peer \in Invite => PlanOK(Plan("connect", what, peer, None))
      /\ who \in Invite => PlanOK(Plan("authorize", None, who, None))
      /\ PlanOK(Plan("keygen", None, None, None))
      /\ PlanOK(Plan("authorized", None, None, None))
      /\ PlanOK(Plan("accept", what, None, None))
  <2> HIDE DEF what, peer, who, link
  <2> QED BY DEF PlanOK, Plan, Modes, Linked
<1>2. /\ PlanOK(With(peer, Plan("share", what, peer, None)))
      /\ PlanOK(With(peer, Plan("attach", None, peer, link)))
      /\ PlanOK(With(peer, Plan("listen", what, peer, None)))
      /\ PlanOK(With(peer, Plan("connect", what, peer, None)))
      /\ PlanOK(With(who, Plan("authorize", None, who, None)))
  <2> HIDE DEF what, peer, who, link
  <2> QED BY <1>1, WithOK
<1>3. main(cmd, args) =
        CASE cmd = "keygen" -> Plan("keygen", None, None, None)
          [] cmd = "share" ->
               IF what = None THEN usage ELSE With(peer, Plan("share", what, peer, None))
          [] cmd = "attach" -> With(peer, Plan("attach", None, peer, link))
          [] cmd = "tcp-listen" ->
               IF what \notin Port THEN usage ELSE With(peer, Plan("listen", what, peer, None))
          [] cmd = "tcp-connect" ->
               IF what = None THEN usage
               ELSE IF accept # None THEN Plan("accept", what, None, None)
               ELSE With(peer, Plan("connect", what, peer, None))
          [] cmd = "authorized" -> Plan("authorized", None, None, None)
          [] cmd = "authorize" ->
               IF who = None THEN usage ELSE With(who, Plan("authorize", None, who, None))
          [] OTHER -> usage
  BY DEF main
<1> HIDE DEF what, peer, who, link, accept
<1> QED BY <1>1, <1>2, <1>3, UsageOK

-----------------------------------------------------------------------------
(* Types.                                                                  *)

Point == {"off", "main", "identity", "open", "pty", "unlink", "symlink",
          "bind", "target", "keys", "await", "session"}

\* Which plan leads to which point, with which terminal.
Fits(x, m, n) ==
  /\ x \notin {"off", "main"} => m.mode \in Served \cup {"keygen"}
  /\ x \in {"keys", "session"} => m.mode \in Served
  /\ x = "open" => m.mode = "share"
  /\ x \in {"pty", "unlink", "symlink"} => m.mode = "attach"
  /\ x = "bind" => m.mode = "listen"
  /\ x = "target" => m.mode \in {"connect", "accept"}
  /\ x = "await" => m.mode = "accept"
  /\ n # None => m.mode = "attach" /\ x \notin {"off", "main"}
  /\ x \in {"unlink", "symlink"} => n # None

ServedAs(x, m) == x \in {"keys", "session"} /\ m.mode = "listen"

Core ==
  /\ at \in [Process -> Point] /\ pts \in [Process -> Pts \cup {None}]
  /\ plan = [p \in Process |-> plan[p]]
  /\ \A p \in Process :
       /\ PlanOK(plan[p]) /\ Fits(at[p], plan[p], pts[p])
       /\ \A q \in Process \ {p} : /\ pts[p] # None => pts[q] # pts[p]
                                   /\ Listens(p) /\ Listens(q) => plan[p].what # plan[q].what

\* One process moves, to a point that fits its plan and its terminal.
LEMMA CoreMove ==
  ASSUME Core, NEW p \in Process, NEW x \in Point, NEW m, NEW n \in Pts \cup {None},
         at' = [at EXCEPT ![p] = x], plan' = [plan EXCEPT ![p] = m], pts' = [pts EXCEPT ![p] = n],
         PlanOK(m), Fits(x, m, n),
         n # None => \A q \in Process \ {p} : pts[q] # n,
         ServedAs(x, m) => \A q \in Process : Listens(q) => q = p \/ plan[q].what # m.what
  PROVE  Core'
<1>1. at' \in [Process -> Point] /\ pts' \in [Process -> Pts \cup {None}]
  BY DEF Core
<1>2. plan' = [q \in Process |-> plan'[q]]
  BY DEF Core
<1>3. /\ at'[p] = x /\ plan'[p] = m /\ pts'[p] = n
      /\ \A q \in Process \ {p} : at'[q] = at[q] /\ plan'[q] = plan[q] /\ pts'[q] = pts[q]
  BY DEF Core
<1>4. \A q \in Process : PlanOK(plan'[q]) /\ Fits(at'[q], plan'[q], pts'[q])
  <2> SUFFICES ASSUME NEW q \in Process
               PROVE  PlanOK(plan'[q]) /\ Fits(at'[q], plan'[q], pts'[q])
    OBVIOUS
  <2>1. PlanOK(plan[q]) /\ Fits(at[q], plan[q], pts[q])
    BY DEF Core
  <2> QED BY <1>3, <2>1
<1>5. \A a \in Process : \A b \in Process \ {a} : pts'[a] # None => pts'[b] # pts'[a]
  BY <1>3 DEF Core
<1>6. \A a \in Process : \A b \in Process \ {a} :
        Listens(a)' /\ Listens(b)' => plan'[a].what # plan'[b].what
  <2> SUFFICES ASSUME NEW a \in Process, NEW b \in Process \ {a}, Listens(a)', Listens(b)'
               PROVE  plan'[a].what # plan'[b].what
    OBVIOUS
  <2>1. CASE a # p /\ b # p
    BY <1>3, <2>1 DEF Listens, Core
  <2>2. CASE a = p
    BY <1>3, <2>2 DEF Listens, ServedAs
  <2>3. CASE b = p
    BY <1>3, <2>3 DEF Listens, ServedAs
  <2> QED BY <2>1, <2>2, <2>3
<1> QED BY <1>1, <1>2, <1>4, <1>5, <1>6 DEF Core

\* Its plan or its terminal may stay as it is.
LEMMA Same ==
  ASSUME Core, NEW p \in Process
  PROVE  /\ PlanOK(plan[p]) /\ Fits(at[p], plan[p], pts[p]) /\ pts[p] \in Pts \cup {None}
         /\ plan = [plan EXCEPT ![p] = plan[p]] /\ pts = [pts EXCEPT ![p] = pts[p]]
         /\ pts[p] # None => \A q \in Process \ {p} : pts[q] # pts[p]
         /\ Listens(p) => \A q \in Process : Listens(q) => q = p \/ plan[q].what # plan[p].what
BY DEF Core

LEMMA CoreEnd == ASSUME Core, NEW p \in Process, End(p) PROVE Core'
<1>1. /\ at' = [at EXCEPT ![p] = "off"] /\ plan' = [plan EXCEPT ![p] = usage]
      /\ pts' = [pts EXCEPT ![p] = None]
  BY DEF End, Goto
<1>2. Fits("off", usage, None) /\ "off" \in Point /\ ~ServedAs("off", usage)
  BY DEF Fits, Point, ServedAs
<1> QED BY <1>1, <1>2, UsageOK, CoreMove

Working == at[Watched] \notin {"off", "main"} /\ plan[Watched].mode \in {"listen", "connect", "accept"}

Rest ==
  /\ path \in Pts \cup {"none", "dir"} /\ rivals \in [Process -> SUBSET Process]
  /\ starts \in [Process -> 0 .. MaxStarts]
  /\ TickerTypeOK /\ (tick # "off" => Working)

LEMMA CoreIsType == Core /\ Rest => TypeOK
<1> SUFFICES ASSUME Core, Rest PROVE TypeOK
  OBVIOUS
<1>1. ASSUME NEW p \in Process
      PROVE  /\ starts[p] \in 0 .. MaxStarts /\ plan[p].mode \in Modes
             /\ AtWork(p) => plan[p].mode \notin {"usage", "error", "authorized", "authorize"}
             /\ at[p] = "session" => plan[p].mode = "accept" \/ plan[p].peer \in Invite
             /\ pts[p] # None => plan[p].mode = "attach" /\ AtWork(p)
  BY DEF Core, Rest, PlanOK, Fits, AtWork, Served, Linked
<1> QED BY <1>1 DEF Core, Rest, TypeOK, Point, Working, AtWork

LEMMA CoreInit == Init => Core /\ Rest
<1> SUFFICES ASSUME Init PROVE Core /\ Rest
  OBVIOUS
<1>1. \A p \in Process : at[p] = "off" /\ plan[p] = usage /\ pts[p] = None
  BY DEF Init
<1>2. PlanOK(usage) /\ Fits("off", usage, None)
  BY UsageOK DEF Fits
<1>3. Core
  BY <1>1, <1>2 DEF Init, Core, Point, Listens
<1>4. TickerTypeOK /\ tick = "off"
  BY TickerAssumption DEF Init, TickerOff, TickerTypeOK, Zeros, Dir
<1>5. Rest
  <2>1. 0 \in 0 .. MaxStarts
    <3>1. MaxStarts \in Nat
      BY StartUpAssumption
    <3> QED BY <3>1
  <2> QED BY <1>4, <2>1 DEF Init, Rest
<1> QED BY <1>3, <1>5

\* An end takes the ticker along.
LEMMA RestEnd ==
  ASSUME Core, Rest, NEW p \in Process, End(p), UNCHANGED <<starts, path>>
  PROVE  Rest'
<1>1. rivals' \in [Process -> SUBSET Process]
  BY DEF End, Rest
<1>2. CASE p = Watched
  <2>1. TickerTypeOK' /\ tick' = "off"
    BY <1>2, TickerAssumption DEF End, TickerTypeOK, Zeros, Dir
  <2> QED BY <1>1, <2>1 DEF Rest
<1>3. CASE p # Watched
  <2>1. UNCHANGED tickerVars
    BY <1>3 DEF End
  <2>2. at'[Watched] = at[Watched] /\ plan'[Watched] = plan[Watched]
    BY <1>3, StartUpAssumption DEF End, Goto, Core
  <2> QED BY <1>1, <2>1, <2>2 DEF Rest, Working, TickerTypeOK, tickerVars
<1> QED BY <1>2, <1>3

\* A step within the work of p, whose ticker starts at most with a tunnel.
LEMMA RestWork ==
  ASSUME Core, Rest, NEW p \in Process, NEW x \in Point \ {"off", "main"},
         AtWork(p), at' = [at EXCEPT ![p] = x], UNCHANGED <<plan, starts, rivals>>,
         path' \in Pts \cup {"none", "dir"},
         UNCHANGED tickerVars \/ (Ticks(p) /\ plan[p].mode \in {"listen", "connect", "accept"})
  PROVE  Rest'
<1>1. Working => Working'
  BY DEF Working, Core
<1>2. CASE UNCHANGED tickerVars
  BY <1>1, <1>2 DEF Rest, TickerTypeOK, tickerVars
<1>3. CASE p = Watched /\ spawn_ticker /\ plan[p].mode \in {"listen", "connect", "accept"}
  <2>1. TickerTypeOK'
    BY <1>3 DEF spawn_ticker, Rest, TickerTypeOK
  <2>2. Working'
    BY <1>3 DEF Working, Core
  <2> QED BY <2>1, <2>2 DEF Rest
<1> QED BY <1>2, <1>3 DEF Ticks

LEMMA StartStep ==
  ASSUME Core, Rest, NEW p \in Process, Start(p) \/ Dispatch(p)
  PROVE  Core' /\ Rest'
<1>1. CASE Start(p)
  <2>1. /\ at' = [at EXCEPT ![p] = "main"] /\ plan' = [plan EXCEPT ![p] = usage] /\ pts' = pts
        /\ at[p] = "off"
    BY <1>1 DEF Start, Going, Goto
  <2>2. pts[p] = None
    BY <2>1, Same DEF Fits
  <2>3. Fits("main", usage, None) /\ "main" \in Point /\ ~ServedAs("main", usage)
    BY DEF Fits, Point, ServedAs
  <2>4. Core'
    BY <2>1, <2>2, <2>3, UsageOK, Same, CoreMove
  <2>5. tick # "off" => p # Watched
    BY <2>1 DEF Rest, Working
  <2>6. starts' \in [Process -> 0 .. MaxStarts]
    <3>1. starts[p] \in 0 .. MaxStarts /\ starts[p] < MaxStarts /\ MaxStarts \in Nat
      BY <1>1, StartUpAssumption DEF Start, Rest
    <3>2. starts[p] + 1 \in 0 .. MaxStarts
      BY <3>1
    <3> QED BY <1>1, <3>2 DEF Start, Rest
  <2>7. tick # "off" => Working'
    BY <2>1, <2>5, StartUpAssumption DEF Core, Rest, Working
  <2> QED BY <1>1, <2>4, <2>6, <2>7 DEF Start, Rest, worldVars, tickerVars, TickerTypeOK
<1>2. CASE Dispatch(p)
  <2> DEFINE made == main(line[p][1], line[p][2])
             x == IF made.mode \in {"usage", "error", "authorized", "authorize"}
                  THEN "off" ELSE "identity"
  <2>1. /\ at' = [at EXCEPT ![p] = x] /\ plan' = [plan EXCEPT ![p] = made] /\ pts' = pts
        /\ at[p] = "main" /\ UNCHANGED <<starts, worldVars, tickerVars>>
        /\ rivals' \in [Process -> SUBSET Process]
    <3>1. rivals \in [Process -> SUBSET Process]
      BY DEF Rest
    <3>2. /\ at' = [at EXCEPT ![p] = x] /\ plan' = [plan EXCEPT ![p] = made] /\ pts' = pts
          /\ at[p] = "main" /\ UNCHANGED <<starts, worldVars, tickerVars>>
      BY <1>2 DEF Dispatch, Goto
    <3> DEFINE others == {q \in Process \ {p} : made.link = LinkPath /\ Asked(q)}
    <3>3. rivals' = [q \in Process |-> IF q = p THEN others
                                      ELSE IF q \in others THEN rivals[q] \cup {p} ELSE rivals[q]]
      BY <1>2 DEF Dispatch
    <3>4. others \subseteq Process
      OBVIOUS
    <3> HIDE DEF others, made
    <3>5. rivals' \in [Process -> SUBSET Process]
      BY <3>1, <3>3, <3>4
    <3> QED BY <3>2, <3>5
  <2>2. PlanOK(made)
    BY PlanMade
  <2> HIDE DEF made
  <2>3. pts[p] = None
    BY <2>1, Same DEF Fits
  <2>4. Fits(x, made, None) /\ x \in Point /\ ~ServedAs(x, made)
    BY <2>2 DEF Fits, Point, ServedAs, PlanOK, Modes, Served, Linked
  <2> HIDE DEF x
  <2>5. Core'
    BY <2>1, <2>2, <2>3, <2>4, Same, CoreMove
  <2>6. tick # "off" => p # Watched
    BY <2>1 DEF Rest, Working
  <2>7. tick # "off" => Working'
    BY <2>1, <2>6, StartUpAssumption DEF Core, Rest, Working
  <2> QED BY <2>1, <2>5, <2>7 DEF Rest, worldVars, tickerVars, TickerTypeOK
<1> QED BY <1>1, <1>2

LEMMA EndStep ==
  ASSUME Core, Rest, NEW p \in Process, End(p), UNCHANGED <<line, starts, worldVars>>
  PROVE  Core' /\ Rest'
BY CoreEnd, RestEnd DEF worldVars

LEMMA WorkStep ==
  ASSUME Core, Rest, NEW p \in Process,
         \/ LoadIdentity(p) \/ Fails(p) \/ OpenSerial(p) \/ open_pty(p) \/ RemoveLink(p)
         \/ SymLink(p) \/ BindPort(p) \/ CheckTarget(p) \/ FromEnv(p) \/ Accepted(p) \/ Ends(p)
  PROVE  Core' /\ Rest'
<1> DEFINE m == plan[p]
           n == pts[p]
<1>0. /\ PlanOK(m) /\ Fits(at[p], m, n) /\ n \in Pts \cup {None}
      /\ plan = [plan EXCEPT ![p] = m] /\ pts = [pts EXCEPT ![p] = n]
      /\ n # None => \A q \in Process \ {p} : pts[q] # n
      /\ Listens(p) => \A q \in Process : Listens(q) => q = p \/ plan[q].what # m.what
  BY Same
<1>p. path \in Pts \cup {"none", "dir"}
  BY DEF Rest
\* A step to point x with nothing but the ticker started or the path changed.
<1>a. ASSUME NEW x \in Point \ {"off", "main"}, AtWork(p), at' = [at EXCEPT ![p] = x],
             UNCHANGED <<plan, pts, starts, rivals>>, Fits(x, m, n),
             path' \in Pts \cup {"none", "dir"},
             UNCHANGED tickerVars \/ (Ticks(p) /\ m.mode \in {"listen", "connect", "accept"}),
             ServedAs(x, m) => \A q \in Process : Listens(q) => q = p \/ plan[q].what # m.what
      PROVE  Core' /\ Rest'
  <2>1. plan' = [plan EXCEPT ![p] = m] /\ pts' = [pts EXCEPT ![p] = n]
    BY <1>0, <1>a
  <2>2. Core'
    <3> HIDE DEF m, n
    <3> QED BY <1>0, <1>a, <2>1, CoreMove
  <2>3. Rest'
    BY <1>a, RestWork
  <2> QED BY <2>2, <2>3
<1> USE DEF worldVars
<1>1. CASE LoadIdentity(p)
  <2>1. CASE m.mode = "keygen"
    BY <1>1, <2>1, EndStep DEF LoadIdentity
  <2>2. CASE m.mode # "keygen"
    <3> DEFINE x == CASE m.mode = "share"  -> "open"
                      [] m.mode = "attach" -> "pty"
                      [] m.mode = "listen" -> "bind"
                      [] OTHER             -> "target"
    <3>1. /\ at[p] = "identity" /\ at' = [at EXCEPT ![p] = x]
          /\ UNCHANGED <<plan, pts, starts, rivals, path, tickerVars>>
      BY <1>1, <2>2 DEF LoadIdentity, Goto
    <3>2. m.mode \in Served
      BY <1>0, <2>2, <3>1 DEF Fits, Served, Linked
    <3> HIDE DEF m, n
    <3>3. x \in Point \ {"off", "main"} /\ Fits(x, m, n) /\ ~ServedAs(x, m)
      BY <1>0, <3>1, <3>2 DEF Fits, Point, ServedAs, Served, Linked
    <3> HIDE DEF x
    <3>4. AtWork(p)
      BY <3>1 DEF AtWork
    <3> QED BY <1>a, <1>p, <3>1, <3>3, <3>4 DEF m, n
  <2> QED BY <2>1, <2>2
<1>2. CASE Fails(p) \/ Ends(p)
  BY <1>2, EndStep DEF Fails, Ends
<1>3. CASE OpenSerial(p)
  <2>1. /\ at[p] = "open" /\ at' = [at EXCEPT ![p] = "keys"]
        /\ UNCHANGED <<plan, pts, starts, rivals, path, tickerVars>>
    BY <1>3 DEF OpenSerial, Going, Goto
  <2>2. Fits("keys", m, n) /\ ~ServedAs("keys", m) /\ "keys" \in Point /\ AtWork(p)
    BY <1>0, <2>1 DEF Fits, Served, Linked, ServedAs, Point, AtWork
  <2> QED BY <1>a, <1>p, <2>1, <2>2
<1>4. CASE open_pty(p)
  <2> DEFINE x == IF m.link = None THEN "keys" ELSE "unlink"
  <2>1. /\ at[p] = "pty" /\ at' = [at EXCEPT ![p] = x]
        /\ UNCHANGED <<plan, starts, rivals, path, tickerVars>>
    BY <1>4 DEF open_pty, Going, Goto
  <2>2. PICK k \in Pts : ~Holds(k) /\ pts' = [pts EXCEPT ![p] = k]
    BY <1>4 DEF open_pty
  <2>3. k # None /\ \A q \in Process \ {p} : pts[q] # k
    BY <2>2, StartUpAssumption DEF Holds
  <2>4. Fits(x, m, k) /\ ~ServedAs(x, m) /\ x \in Point \ {"off", "main"} /\ AtWork(p)
    BY <1>0, <2>1, <2>3 DEF Fits, Served, Linked, ServedAs, Point, AtWork
  <2>5. plan' = [plan EXCEPT ![p] = m]
    BY <1>0, <2>1
  <2> HIDE DEF x, m
  <2>6. Core'
    BY <1>0, <2>1, <2>2, <2>3, <2>4, <2>5, CoreMove
  <2>7. Rest'
    BY <1>p, <2>1, <2>4, RestWork
  <2> QED BY <2>6, <2>7
<1>5. CASE RemoveLink(p)
  <2>1. /\ at[p] = "unlink" /\ at' = [at EXCEPT ![p] = "symlink"]
        /\ UNCHANGED <<plan, pts, starts, rivals, tickerVars>>
        /\ path' \in Pts \cup {"none", "dir"}
    BY <1>5, <1>p DEF RemoveLink, Going, Goto
  <2>2. Fits("symlink", m, n) /\ ~ServedAs("symlink", m) /\ "symlink" \in Point /\ AtWork(p)
    BY <1>0, <2>1 DEF Fits, Served, Linked, ServedAs, Point, AtWork
  <2> QED BY <1>a, <2>1, <2>2
<1>6. CASE SymLink(p)
  <2>1. /\ at[p] = "symlink" /\ at' = [at EXCEPT ![p] = "keys"]
        /\ UNCHANGED <<plan, pts, starts, rivals, tickerVars>>
        /\ path' = path \/ path' = n
    BY <1>6 DEF SymLink, Going, Goto
  <2>2. Fits("keys", m, n) /\ ~ServedAs("keys", m) /\ "keys" \in Point /\ AtWork(p) /\ n # None
    BY <1>0, <2>1 DEF Fits, Served, Linked, ServedAs, Point, AtWork
  <2>3. path' \in Pts \cup {"none", "dir"}
    BY <1>0, <1>p, <2>1, <2>2
  <2> QED BY <1>a, <2>1, <2>2, <2>3
<1>7. CASE BindPort(p)
  <2>1. /\ at[p] = "bind" /\ at' = [at EXCEPT ![p] = "keys"] /\ Ticks(p)
        /\ UNCHANGED <<plan, pts, starts, rivals, path>>
        /\ \A q \in Process : Listens(q) => plan[q].what # m.what
    BY <1>7 DEF BindPort, Going, Goto
  <2>2. Fits("keys", m, n) /\ "keys" \in Point /\ AtWork(p) /\ m.mode = "listen"
    BY <1>0, <2>1 DEF Fits, Served, Linked, Point, AtWork
  <2> QED BY <1>a, <1>p, <2>1, <2>2
<1>8. CASE CheckTarget(p)
  <2>1. /\ at[p] = "target" /\ at' = [at EXCEPT ![p] = "keys"]
        /\ UNCHANGED tickerVars \/ (Ticks(p) /\ m.mode \in {"listen", "connect", "accept"})
        /\ UNCHANGED <<plan, pts, starts, rivals, path>>
    BY <1>8 DEF CheckTarget, Going, Goto
  <2>2. Fits("keys", m, n) /\ ~ServedAs("keys", m) /\ "keys" \in Point /\ AtWork(p)
    BY <1>0, <2>1 DEF Fits, Served, Linked, ServedAs, Point, AtWork
  <2> QED BY <1>a, <1>p, <2>1, <2>2
<1>9. CASE FromEnv(p)
  <2>1. CASE goodKeys
    <3> DEFINE x == IF m.mode = "accept" THEN "await" ELSE "session"
    <3>1. /\ at[p] = "keys" /\ at' = [at EXCEPT ![p] = x]
          /\ UNCHANGED <<plan, pts, starts, rivals, path, tickerVars>>
      BY <1>9, <2>1 DEF FromEnv, Goto
    <3>2. Fits(x, m, n) /\ x \in Point \ {"off", "main"} /\ AtWork(p)
      BY <1>0, <3>1 DEF Fits, Served, Linked, Point, AtWork
    <3>3. ServedAs(x, m) => Listens(p)
      BY <3>1 DEF ServedAs, Listens
    <3> HIDE DEF x
    <3> QED BY <1>a, <1>p, <1>0, <3>1, <3>2, <3>3
  <2>2. CASE ~goodKeys
    BY <1>9, <2>2, EndStep DEF FromEnv
  <2> QED BY <2>1, <2>2
<1>10. CASE Accepted(p)
  <2>1. /\ at[p] = "await" /\ at' = [at EXCEPT ![p] = "session"] /\ Ticks(p)
        /\ UNCHANGED <<plan, pts, starts, rivals, path>>
    BY <1>10 DEF Accepted, Going, Goto
  <2>2. Fits("session", m, n) /\ ~ServedAs("session", m) /\ "session" \in Point /\ AtWork(p)
        /\ m.mode = "accept"
    BY <1>0, <2>1 DEF Fits, Served, Linked, ServedAs, Point, AtWork
  <2> QED BY <1>a, <1>p, <2>1, <2>2
<1> QED BY <1>1, <1>2, <1>3, <1>4, <1>5, <1>6, <1>7, <1>8, <1>9, <1>10

LEMMA CoreNext == Core /\ Rest /\ [Next]_vars => Core' /\ Rest'
<1> SUFFICES ASSUME Core, Rest, [Next]_vars PROVE Core' /\ Rest'
  OBVIOUS
<1>1. ASSUME UNCHANGED <<procVars, path>>, TickerTypeOK', tick' = tick
             \/ tick # "off"
      PROVE  Core' /\ Rest'
  BY <1>1 DEF Core, Rest, procVars, Listens, Working
<1>2. CASE UNCHANGED vars
  BY <1>1, <1>2 DEF vars, worldVars, tickerVars, TickerTypeOK, Rest
<1>3. CASE Ticker
  <2>1. TickerTypeOK'
    BY <1>3 DEF Ticker, Tick, LoadTx, LoadRx, PrintStat, Rest, TickerTypeOK, Dir
  <2> QED BY <1>1, <1>3, <2>1 DEF Ticker, worldVars
<1>4. CASE Traffic
  <2>1. TickerTypeOK'
    BY <1>4, TickerAssumption DEF Traffic, Moved, Rest, TickerTypeOK, Dir
  <2> QED BY <1>1, <1>4, <2>1 DEF Traffic, worldVars
<1> QED BY <1>2, <1>3, <1>4, StartStep, WorkStep DEF Next

\* Types; nobody gets to a session with a peer that was not decoded from an
\* invitation, no two processes hold one terminal or listen on one port, and the
\* ticker runs within a tunnel only.
THEOREM TypeCorrect == Spec => []TypeOK
BY CoreInit, CoreNext, CoreIsType, PTL DEF Spec

-----------------------------------------------------------------------------
(* The name given with --link.                                             *)

Past(p) == Asked(p) /\ at[p] \in {"symlink", "keys", "session"}   \* has cleared the path
Done(p) == Asked(p) /\ at[p] \in {"keys", "session"}              \* has tried to link it

\* Two that asked for the path know of each other.
Mutual == \A p \in Process : \A q \in Process \ {p} : Asked(p) /\ Asked(q) => q \in rivals[p]

\* If there is nothing, somebody has cleared it after all those that were done.
Vacant == path = "none" => \A p \in Process : Done(p) => \E q \in rivals[p] : ~Done(q)

\* Otherwise there is an owner, at work with that terminal or gone, whom everybody
\* knows of that has cleared the path: its owner linked it after that.
LinkedBy(o) == /\ Past(o) => Done(o) /\ path = pts[o]
               /\ \A p \in Process : Past(p) => o \in rivals[p] \cup {p}
Owned == path \notin {"none", "dir"} => \E o \in Process : LinkedBy(o)

LinkInv == Mutual /\ Vacant /\ Owned

LEMMA AskedAt ==
  ASSUME Core, NEW p \in Process, Asked(p)
  PROVE  plan[p].mode = "attach" /\ at[p] \in {"identity", "pty", "unlink", "symlink", "keys", "session"}
<1>1. PlanOK(plan[p]) /\ Fits(at[p], plan[p], pts[p]) /\ at[p] \in Point
  BY DEF Core
<1>2. plan[p].mode = "attach"
  BY <1>1, StartUpAssumption DEF Asked, PlanOK
<1> QED BY <1>1, <1>2 DEF Asked, AtWork, Fits, Point

LEMMA LinkInvInit == Init => LinkInv
<1> SUFFICES ASSUME Init PROVE LinkInv
  OBVIOUS
<1>1. \A p \in Process : ~Asked(p)
  BY DEF Init, Asked, AtWork
<1> QED BY <1>1 DEF LinkInv, Mutual, Vacant, Owned, Done, Init

\* What the others are at is left alone by a step of p.
Others(p) == \A q \in Process \ {p} : /\ Asked(q)' <=> Asked(q)
                                      /\ Past(q)' <=> Past(q)
                                      /\ Done(q)' <=> Done(q)
                                      /\ pts'[q] = pts[q]

LEMMA StepOfOther ==
  ASSUME Core, NEW p \in Process, NEW x, NEW m, NEW n,
         at' = [at EXCEPT ![p] = x],
         plan' = [plan EXCEPT ![p] = m] \/ (plan' = plan /\ m = plan[p]),
         pts' = [pts EXCEPT ![p] = n] \/ (pts' = pts /\ n = pts[p])
  PROVE  Others(p) /\ at'[p] = x /\ plan'[p] = m /\ pts'[p] = n
BY DEF Core, Others, Asked, AtWork, Past, Done

\* Steps that do not touch the path: before the process has cleared it, or after
\* it has linked it.
LEMMA LinkQuiet ==
  ASSUME Rest, LinkInv, NEW p \in Process, Others(p), UNCHANGED <<path, rivals>>,
         Asked(p)' <=> Asked(p), Past(p)' <=> Past(p), Done(p)' <=> Done(p),
         Past(p) => pts'[p] = pts[p]
  PROVE  LinkInv'
<1>0. \A q \in Process : /\ Asked(q)' <=> Asked(q)
                         /\ Past(q)' <=> Past(q)
                         /\ Done(q)' <=> Done(q)
                         /\ Past(q) => pts'[q] = pts[q]
  BY DEF Others
<1>1. Mutual'
  BY <1>0 DEF LinkInv, Mutual
<1>2. Vacant'
  <2> SUFFICES ASSUME path' = "none", NEW q \in Process, Done(q)'
               PROVE  \E r \in rivals'[q] : ~Done(r)'
    BY DEF Vacant
  <2>1. PICK r \in rivals[q] : ~Done(r)
    BY <1>0 DEF LinkInv, Vacant
  <2>2. r \in Process
    BY <2>1 DEF Rest
  <2> QED BY <1>0, <2>1, <2>2
<1>3. Owned'
  <2> SUFFICES ASSUME path' \notin {"none", "dir"} PROVE \E o \in Process : LinkedBy(o)'
    BY DEF Owned
  <2>1. PICK o \in Process : LinkedBy(o)
    BY DEF LinkInv, Owned
  <2> QED BY <1>0, <2>1 DEF LinkedBy
<1> QED BY <1>1, <1>2, <1>3 DEF LinkInv

\* An owner that ends is gone; the link stays its own.
LEMMA LinkEnd ==
  ASSUME Core, Rest, LinkInv, NEW p \in Process, End(p), UNCHANGED path
  PROVE  LinkInv'
<1>1. Others(p) /\ at'[p] = "off"
  BY StepOfOther DEF End, Goto
<1>2. ~Asked(p)' /\ ~Past(p)' /\ ~Done(p)'
  BY <1>1 DEF Asked, AtWork, Past, Done
<1>3. rivals'[p] = {} /\ \A q \in Process \ {p} : rivals'[q] = rivals[q]
  BY DEF End, Rest
<1>4. Mutual'
  BY <1>1, <1>2, <1>3 DEF LinkInv, Mutual, Others
<1>5. Vacant'
  <2> SUFFICES ASSUME path' = "none", NEW q \in Process, Done(q)'
               PROVE  \E r \in rivals'[q] : ~Done(r)'
    BY DEF Vacant
  <2>1. q # p /\ Done(q)
    BY <1>1, <1>2 DEF Others
  <2>2. PICK r \in rivals[q] : ~Done(r)
    BY <2>1 DEF LinkInv, Vacant
  <2>3. r \in Process
    BY <2>2 DEF Rest
  <2> QED BY <1>1, <1>2, <1>3, <2>1, <2>2, <2>3 DEF Others
<1>6. Owned'
  <2> SUFFICES ASSUME path' \notin {"none", "dir"} PROVE \E o \in Process : LinkedBy(o)'
    BY DEF Owned
  <2>1. PICK o \in Process : LinkedBy(o)
    BY DEF LinkInv, Owned
  <2> QED BY <1>1, <1>2, <1>3, <2>1 DEF LinkedBy, Others
<1> QED BY <1>4, <1>5, <1>6 DEF LinkInv

\* Who asks gets to know those that have asked, and they of it.
LEMMA LinkDispatch ==
  ASSUME Core, Rest, LinkInv, NEW p \in Process, Dispatch(p)
  PROVE  LinkInv'
<1> DEFINE made == main(line[p][1], line[p][2])
           x == IF made.mode \in {"usage", "error", "authorized", "authorize"}
                THEN "off" ELSE "identity"
           others == {q \in Process \ {p} : made.link = LinkPath /\ Asked(q)}
<1>1. /\ at' = [at EXCEPT ![p] = x] /\ plan' = [plan EXCEPT ![p] = made]
      /\ pts' = pts /\ path' = path /\ at[p] = "main"
      /\ rivals' = [q \in Process |-> IF q = p THEN others
                                      ELSE IF q \in others THEN rivals[q] \cup {p} ELSE rivals[q]]
  BY DEF Dispatch, Goto, worldVars
<1>2. x \in {"off", "identity"}
  OBVIOUS
<1> HIDE DEF made, x
<1>3. Others(p) /\ at'[p] = x /\ plan'[p] = made
  BY <1>1, StepOfOther
<1>4. ~Past(p)' /\ ~Done(p)' /\ (Asked(p)' => made.link = LinkPath)
  BY <1>2, <1>3 DEF Past, Done, Asked
<1>5. /\ rivals'[p] = others
      /\ \A q \in Process : q # p => rivals[q] \subseteq rivals'[q]
      /\ \A q \in others : p \in rivals'[q]
  BY <1>1
<1>6. Mutual'
  <2> SUFFICES ASSUME NEW a \in Process, NEW b \in Process \ {a}, Asked(a)', Asked(b)'
               PROVE  b \in rivals'[a]
    BY DEF Mutual
  <2>1. CASE a = p
    BY <1>3, <1>4, <1>5, <2>1 DEF Others
  <2>2. CASE b = p
    BY <1>3, <1>4, <1>5, <2>2 DEF Others
  <2>3. CASE a # p /\ b # p
    BY <1>3, <1>5, <2>3 DEF Others, LinkInv, Mutual
  <2> QED BY <2>1, <2>2, <2>3
<1> HIDE DEF others
<1>7. Vacant'
  <2> SUFFICES ASSUME path' = "none", NEW q \in Process, Done(q)'
               PROVE  \E r \in rivals'[q] : ~Done(r)'
    BY DEF Vacant
  <2>1. q # p /\ Done(q)
    BY <1>3, <1>4 DEF Others
  <2>2. PICK r \in rivals[q] : ~Done(r)
    BY <1>1, <2>1 DEF LinkInv, Vacant
  <2>3. r \in Process /\ r \in rivals'[q]
    BY <1>5, <2>1, <2>2 DEF Rest
  <2> QED BY <1>3, <1>4, <2>2, <2>3 DEF Others
<1>8. Owned'
  <2> SUFFICES ASSUME path' \notin {"none", "dir"} PROVE \E o \in Process : LinkedBy(o)'
    BY DEF Owned
  <2>1. PICK o \in Process : LinkedBy(o)
    BY <1>1 DEF LinkInv, Owned
  <2>2. Past(o)' => Done(o)' /\ path' = pts'[o]
    BY <1>1, <1>3, <1>4, <2>1 DEF LinkedBy, Others
  <2>3. \A q \in Process : Past(q)' => o \in rivals'[q] \cup {q}
    BY <1>3, <1>4, <1>5, <2>1 DEF LinkedBy, Others
  <2> QED BY <2>2, <2>3 DEF LinkedBy
<1> QED BY <1>6, <1>7, <1>8 DEF LinkInv

\* Who clears the path has not linked it yet, and those that have know of it.
LEMMA LinkRemove ==
  ASSUME Core, Rest, LinkInv, NEW p \in Process, RemoveLink(p)
  PROVE  LinkInv'
<1>1. /\ at[p] = "unlink" /\ at' = [at EXCEPT ![p] = "symlink"]
      /\ UNCHANGED <<plan, pts, rivals>>
      /\ path' = IF Asked(p) /\ path # "dir" THEN "none" ELSE path
  BY DEF RemoveLink, Going, Goto
<1>2. Others(p) /\ at'[p] = "symlink" /\ plan'[p] = plan[p] /\ pts'[p] = pts[p]
  BY <1>1, StepOfOther
<1>3. (Asked(p)' <=> Asked(p)) /\ ~Done(p) /\ ~Done(p)'
  BY <1>1, <1>2 DEF Asked, AtWork, Done
<1>4. CASE ~Asked(p)
  <2>1. (Past(p)' <=> Past(p)) /\ path' = path
    BY <1>1, <1>3, <1>4 DEF Past
  <2> QED BY <1>1, <1>2, <1>3, <2>1, LinkQuiet
<1>5. CASE Asked(p)
  <2>1. Mutual'
    BY <1>1, <1>2, <1>3 DEF LinkInv, Mutual, Others
  <2>2. path' \in {"none", "dir"}
    BY <1>1, <1>5
  <2>3. Vacant'
    <3> SUFFICES ASSUME path' = "none", NEW q \in Process, Done(q)'
                 PROVE  \E r \in rivals'[q] : ~Done(r)'
      BY DEF Vacant
    <3>1. q # p /\ Asked(q)'
      BY <1>3 DEF Done
    <3>2. p \in rivals'[q]
      BY <1>3, <1>5, <2>1, <3>1 DEF Mutual
    <3> QED BY <1>3, <3>2
  <2>4. Owned'
    BY <2>2 DEF Owned
  <2> QED BY <2>1, <2>3, <2>4 DEF LinkInv
<1> QED BY <1>4, <1>5

\* Who finds the path cleared becomes the owner; who does not keeps the one that
\* was faster.
LEMMA LinkSym ==
  ASSUME Core, Rest, LinkInv, NEW p \in Process, SymLink(p)
  PROVE  LinkInv'
<1>1. /\ at[p] = "symlink" /\ at' = [at EXCEPT ![p] = "keys"]
      /\ UNCHANGED <<plan, pts, rivals>>
      /\ path' = IF Asked(p) /\ path = "none" THEN pts[p] ELSE path
  BY DEF SymLink, Going, Goto
<1>2. Others(p) /\ at'[p] = "keys" /\ plan'[p] = plan[p] /\ pts'[p] = pts[p]
  BY <1>1, StepOfOther
<1>3. (Asked(p)' <=> Asked(p)) /\ (Past(p)' <=> Past(p)) /\ ~Done(p)
  BY <1>1, <1>2 DEF Asked, AtWork, Past, Done
<1>4. CASE ~Asked(p)
  <2>1. (Done(p)' <=> Done(p)) /\ path' = path
    BY <1>1, <1>3, <1>4 DEF Done
  <2> QED BY <1>1, <1>2, <1>3, <2>1, LinkQuiet
<1>5. CASE Asked(p)
  <2>1. Mutual'
    BY <1>1, <1>2, <1>3 DEF LinkInv, Mutual, Others
  <2>2. Done(p)' /\ Past(p) /\ Past(p)'
    BY <1>1, <1>2, <1>3, <1>5 DEF Done, Past
  <2>3. path' # "none"
    <3>1. pts[p] \in Pts
      BY <1>1, Same DEF Fits
    <3>2. pts[p] # "none"
      BY <3>1, StartUpAssumption
    <3> QED BY <1>1, <1>5, <3>2
  <2>4. CASE path = "none"
    <3>1. LinkedBy(p)'
      BY <1>1, <1>2, <1>5, <2>1, <2>2, <2>4 DEF LinkedBy, Mutual, Past
    <3> QED BY <2>1, <2>3, <3>1 DEF LinkInv, Vacant, Owned
  <2>5. CASE path # "none"
    <3>1. path' = path
      BY <1>1, <2>5
    <3>2. Owned'
      <4> SUFFICES ASSUME path' \notin {"none", "dir"} PROVE \E o \in Process : LinkedBy(o)'
        BY DEF Owned
      <4>1. PICK o \in Process : LinkedBy(o)
        BY <3>1 DEF LinkInv, Owned
      <4>2. o # p
        BY <1>3, <2>2, <4>1 DEF LinkedBy
      <4> QED BY <1>1, <1>2, <1>3, <3>1, <4>1, <4>2 DEF LinkedBy, Others
    <3> QED BY <2>1, <2>3, <3>2 DEF LinkInv, Vacant
  <2> QED BY <2>4, <2>5
<1> QED BY <1>4, <1>5

LEMMA LinkNext == Core /\ Rest /\ LinkInv /\ [Next]_vars => LinkInv'
<1> SUFFICES ASSUME Core, Rest, LinkInv, [Next]_vars PROVE LinkInv'
  OBVIOUS
\* A step of p from before the path is cleared to before it, or from after it is
\* linked to after it.
<1>0. ASSUME NEW p \in Process, NEW x, at' = [at EXCEPT ![p] = x],
             UNCHANGED <<plan, path, rivals>>,
             pts' = pts \/ (at[p] = "pty" /\ \E n : pts' = [pts EXCEPT ![p] = n]),
             AtWork(p), x \notin {"off", "main"},
             Asked(p) => (at[p] \in {"keys", "session"} <=> x \in {"keys", "session"}),
             at[p] # "symlink", x # "symlink"
      PROVE  LinkInv'
  <2>1. CASE pts' = pts
    <3>1. Others(p) /\ at'[p] = x /\ plan'[p] = plan[p] /\ pts'[p] = pts[p]
      BY <1>0, <2>1, StepOfOther
    <3>2. (Asked(p)' <=> Asked(p)) /\ (Past(p)' <=> Past(p)) /\ (Done(p)' <=> Done(p))
      BY <1>0, <3>1 DEF Asked, AtWork, Past, Done
    <3> QED BY <1>0, <3>1, <3>2, LinkQuiet
  <2>2. CASE at[p] = "pty" /\ \E n : pts' = [pts EXCEPT ![p] = n]
    <3>1. PICK n : pts' = [pts EXCEPT ![p] = n]
      BY <2>2
    <3>2. Others(p) /\ at'[p] = x /\ plan'[p] = plan[p]
      BY <1>0, <3>1, StepOfOther
    <3>3. (Asked(p)' <=> Asked(p)) /\ ~Past(p) /\ ~Past(p)' /\ (Done(p)' <=> Done(p))
      BY <1>0, <2>2, <3>2 DEF Asked, AtWork, Past, Done
    <3> QED BY <1>0, <3>2, <3>3, LinkQuiet
  <2> QED BY <1>0, <2>1, <2>2
<1>1. ASSUME UNCHANGED <<at, plan, pts, path, rivals>> PROVE LinkInv'
  BY <1>1 DEF LinkInv, Mutual, Vacant, Owned, LinkedBy, Asked, AtWork, Past, Done
<1>2. CASE UNCHANGED vars \/ Ticker \/ Traffic
  BY <1>1, <1>2 DEF vars, procVars, worldVars, Ticker, Traffic
<1> SUFFICES ASSUME NEW p \in Process,
                    \/ Start(p) \/ Dispatch(p) \/ LoadIdentity(p) \/ Fails(p) \/ OpenSerial(p)
                    \/ open_pty(p) \/ RemoveLink(p) \/ SymLink(p) \/ BindPort(p) \/ CheckTarget(p)
                    \/ FromEnv(p) \/ Accepted(p) \/ Ends(p)
             PROVE  LinkInv'
  BY <1>2 DEF Next
<1>3. CASE Start(p)
  <2>1. /\ at[p] = "off" /\ at' = [at EXCEPT ![p] = "main"] /\ plan' = [plan EXCEPT ![p] = usage]
        /\ UNCHANGED <<pts, path, rivals>>
    BY <1>3 DEF Start, Going, Goto, worldVars
  <2>2. Others(p) /\ at'[p] = "main"
    BY <2>1, StepOfOther
  <2>3. ~Asked(p) /\ ~Asked(p)' /\ ~Past(p) /\ ~Past(p)' /\ ~Done(p) /\ ~Done(p)'
    BY <2>1, <2>2 DEF Asked, AtWork, Past, Done
  <2> QED BY <2>1, <2>2, <2>3, LinkQuiet
<1>4. CASE Dispatch(p)
  BY <1>4, LinkDispatch
<1>5. CASE RemoveLink(p)
  BY <1>5, LinkRemove
<1>6. CASE SymLink(p)
  BY <1>6, LinkSym
<1>7. ASSUME End(p), UNCHANGED path PROVE LinkInv'
  BY <1>7, LinkEnd
<1>8. CASE Fails(p) \/ Ends(p)
  BY <1>7, <1>8 DEF Fails, Ends, worldVars
<1>9. CASE LoadIdentity(p)
  BY <1>0, <1>7, <1>9 DEF LoadIdentity, Goto, AtWork, worldVars
<1>10. CASE OpenSerial(p) \/ BindPort(p) \/ CheckTarget(p) \/ Accepted(p)
  <2>1. PICK x \in {"keys", "session"} :
          /\ at[p] \in {"open", "bind", "target", "await"} /\ at' = [at EXCEPT ![p] = x]
          /\ UNCHANGED <<plan, pts, path, rivals>>
    BY <1>10 DEF OpenSerial, BindPort, CheckTarget, Accepted, Going, Goto, worldVars
  <2>2. ~Asked(p) /\ AtWork(p)
    BY <2>1, AskedAt DEF AtWork
  <2> QED BY <1>0, <2>1, <2>2
<1>11. CASE open_pty(p)
  <2> DEFINE x == IF plan[p].link = None THEN "keys" ELSE "unlink"
  <2>1. /\ at[p] = "pty" /\ at' = [at EXCEPT ![p] = x] /\ UNCHANGED <<plan, path, rivals>>
        /\ \E n : pts' = [pts EXCEPT ![p] = n]
    BY <1>11 DEF open_pty, Going, Goto, worldVars
  <2>2. AtWork(p) /\ (Asked(p) => x = "unlink") /\ x \in {"keys", "unlink"}
    BY <2>1, StartUpAssumption DEF AtWork, Asked
  <2> HIDE DEF x
  <2> QED BY <1>0, <2>1, <2>2
<1>12. CASE FromEnv(p)
  <2>1. CASE goodKeys
    <3> DEFINE x == IF plan[p].mode = "accept" THEN "await" ELSE "session"
    <3>1. /\ at[p] = "keys" /\ at' = [at EXCEPT ![p] = x]
          /\ UNCHANGED <<plan, pts, path, rivals>>
      BY <1>12, <2>1 DEF FromEnv, Goto, worldVars
    <3>2. AtWork(p) /\ (Asked(p) => x = "session") /\ x \in {"await", "session"}
      BY <3>1, AskedAt DEF AtWork
    <3> HIDE DEF x
    <3> QED BY <1>0, <3>1, <3>2
  <2>2. CASE ~goodKeys
    BY <1>7, <1>12, <2>2 DEF FromEnv, worldVars
  <2> QED BY <2>1, <2>2
<1> QED BY <1>3, <1>4, <1>5, <1>6, <1>8, <1>9, <1>10, <1>11, <1>12

LEMMA LinkInvLeads == Core /\ Rest /\ LinkInv => LinkLeads
<1> SUFFICES ASSUME Core, Rest, LinkInv, NEW p \in Process, InSession(p),
                    \A q \in rivals[p] : InSession(q), path # "dir"
             PROVE  \E q \in rivals[p] \cup {p} : path = pts[q]
  BY DEF LinkLeads
<1>1. Past(p) /\ Done(p) /\ \A q \in rivals[p] : Past(q) /\ Done(q)
  BY DEF InSession, Past, Done
<1>2. path # "none"
  BY <1>1 DEF LinkInv, Vacant
<1>3. PICK o \in Process : LinkedBy(o)
  BY <1>2 DEF LinkInv, Owned
<1> QED BY <1>1, <1>3 DEF LinkedBy

\* The name given with --link leads to the terminal of an attach in session, or,
\* when several ask for it at once, to that of one of them, whatever stale link
\* they found and in whatever order they cleared and made it.
THEOREM LinkLeadsAlways == Spec => []LinkLeads
<1>1. Init => Core /\ Rest /\ LinkInv
  BY CoreInit, LinkInvInit
<1>2. Core /\ Rest /\ LinkInv /\ [Next]_vars => (Core /\ Rest /\ LinkInv)'
  BY CoreNext, LinkNext
<1> QED BY <1>1, <1>2, LinkInvLeads, PTL DEF Spec

==============================================================================
