-------------------------------- MODULE StartUp --------------------------------
(***************************************************************************)
(* From the command line to the session: Cli::parse, the dispatch of       *)
(* main(), resolve_peer, and what run_share, run_attach and the run_tcp_*  *)
(* functions set up before they talk to the relay: identity, serial port,  *)
(* pseudo-terminal and its symlink, listening port, traffic ticker.        *)
(* Several processes share the machine; each may be started again.         *)
(***************************************************************************)
EXTENDS StatTicker, Sequences, FiniteSets, TLC

CONSTANTS
  Process,
  Lines,      \* Lines[p]: the command lines p may be started with, <<cmd, args>>
  Environs,   \* values of USBWS_PEER, None if it is not set
  Invite, Device, Port, Target,   \* arguments that are one of these
  LinkPath,   \* the path of --link that is modelled; other paths stay out of sight
  None,       \* no value
  Pts,        \* numbers of pseudo-terminals
  Watched,    \* the process whose ticker is modelled
  MaxStarts   \* bound: starts of each process

ASSUME StartUpAssumption ==
  /\ Watched \in Process /\ MaxStarts \in Nat /\ DOMAIN Lines = Process
  /\ None \notin Invite \cup Device \cup Port \cup Target \cup Pts \cup {"", LinkPath}
  /\ (Pts \cup {None}) \cap {"none", "dir"} = {}

VARIABLES
  at,         \* where each process is
  line,       \* its command line, until main has dispatched it
  plan,       \* what main has made of it
  pts,        \* the pseudo-terminal it holds
  path,       \* what is at LinkPath
  USBWS_PEER, goodKeys,   \* the environment; whether the relay's keys parse
  rivals,     \* history: who else asked for the path while it was at work
  starts

procVars == <<at, line, plan, pts, rivals, starts>>
worldVars == <<path, USBWS_PEER, goodKeys>>
vars == <<procVars, worldVars, tickerVars>>

-----------------------------------------------------------------------------
(* The command line.  An argument is a record: --name, --name=value, or    *)
(* a word, which has no flag.                                              *)

Word(v)          == [flag |-> None, value |-> v]
Bare(name)       == [flag |-> name, value |-> None]
Assign(name, v)  == [flag |-> name, value |-> v]
IsWord(a)        == a.flag = None

TakesAny(args, i) ==           \* mutant: also another flag
  ~IsWord(args[i]) /\ args[i].value = None /\ i < Len(args)

\* A flag without = takes the next argument, if that is a word.
Takes(args, i) ==
  /\ ~IsWord(args[i]) /\ args[i].value = None
  /\ i < Len(args) /\ IsWord(args[i + 1])

\* Later values win: HashMap::insert replaces.
parse(args) ==
  LET n == Len(args)
      From[i \in 1 .. n + 2] ==
        IF i > n THEN [positionals |-> <<>>, flags |-> <<>>]
        ELSE LET a == args[i]
                 rest == From[IF Takes(args, i) THEN i + 2 ELSE i + 1]
                 value == IF Takes(args, i) THEN args[i + 1].value
                          ELSE IF a.value = None THEN "" ELSE a.value
             IN  IF IsWord(a) THEN [rest EXCEPT !.positionals = <<a.value>> \o @]
                 ELSE [rest EXCEPT !.flags = @ @@ (a.flag :> value)]
  IN  From[1]

flag(cli, name) == IF name \in DOMAIN cli.flags THEN cli.flags[name] ELSE None
first(cli) == IF cli.positionals = <<>> THEN None ELSE Head(cli.positionals)

Some(a, b) == IF a # None THEN a ELSE b
resolve_peer(cli, positional) ==
  Some(flag(cli, "peer"), Some(IF positional THEN first(cli) ELSE None, USBWS_PEER))

Plan(mode, what, peer, link) == [mode |-> mode, what |-> what, peer |-> peer, link |-> link]
usage  == Plan("usage", None, None, None)
failed == Plan("error", None, None, None)
WithAny(peer, p) == IF peer # None THEN p ELSE failed     \* mutant: not decoded
With(peer, p) == IF peer \in Invite THEN p ELSE failed     \* decode_qr

main(cmd, args) ==
  LET cli == parse(args)
      what == first(cli)
      peer == resolve_peer(cli, cmd = "attach")
  IN  CASE cmd = "keygen" -> Plan("keygen", None, None, None)
        [] cmd = "share" ->
             IF what = None THEN usage ELSE With(peer, Plan("share", what, peer, None))
        [] cmd = "attach" -> With(peer, Plan("attach", None, peer, flag(cli, "link")))
        [] cmd = "tcp-listen" ->
             IF what \notin Port THEN usage ELSE With(peer, Plan("listen", what, peer, None))
        [] cmd = "tcp-connect" ->
             IF what = None THEN usage
             ELSE IF flag(cli, "accept") # None THEN Plan("accept", what, None, None)
             ELSE With(peer, Plan("connect", what, peer, None))
        [] cmd = "authorized" -> Plan("authorized", None, None, None)
        [] cmd = "authorize" ->
             LET who == Some(flag(cli, "peer"), what)
             IN  IF who = None THEN usage ELSE With(who, Plan("authorize", None, who, None))
        [] OTHER -> usage

-----------------------------------------------------------------------------

Modes == {"usage", "error", "keygen", "share", "attach", "listen", "connect",
          "accept", "authorized", "authorize"}
AtWork(p)  == at[p] \notin {"off", "main"}
Asked(p)   == AtWork(p) /\ plan[p].link = LinkPath
Holds(n)   == \E p \in Process : pts[p] = n
Listens(p) == at[p] \in {"keys", "session"} /\ plan[p].mode = "listen"

TypeOK ==
  /\ at \in [Process -> {"off", "main", "identity", "open", "pty", "unlink", "symlink",
                         "bind", "target", "keys", "await", "session"}]
  /\ pts \in [Process -> Pts \cup {None}] /\ path \in Pts \cup {"none", "dir"}
  /\ rivals \in [Process -> SUBSET Process]
  /\ \A p \in Process :
       /\ starts[p] \in 0 .. MaxStarts /\ plan[p].mode \in Modes
       /\ AtWork(p) => plan[p].mode \notin {"usage", "error", "authorized", "authorize"}
       /\ at[p] = "session" => plan[p].mode = "accept" \/ plan[p].peer \in Invite
       /\ pts[p] # None => plan[p].mode = "attach" /\ AtWork(p)
       /\ \A q \in Process \ {p} : /\ pts[p] # None => pts[q] # pts[p]
                                   /\ Listens(p) /\ Listens(q) => plan[p].what # plan[q].what
  /\ TickerTypeOK
  /\ tick # "off" => plan[Watched].mode \in {"listen", "connect", "accept"} /\ AtWork(Watched)

Init ==
  /\ at = [p \in Process |-> "off"] /\ line = [p \in Process |-> <<>>]
  /\ plan = [p \in Process |-> usage]
  /\ pts = [p \in Process |-> None] /\ rivals = [p \in Process |-> {}]
  /\ starts = [p \in Process |-> 0]
  /\ path \in {"none", "dir"}
  /\ USBWS_PEER \in Environs /\ goodKeys \in BOOLEAN
  /\ TickerOff

Goto(p, point) == at' = [at EXCEPT ![p] = point]
Going(p, from, to) == at[p] = from /\ Goto(p, to)

\* The process ends: the kernel closes what it had open.  The path stays.
End(p) ==
  /\ Goto(p, "off")
  /\ pts' = [pts EXCEPT ![p] = None]
  /\ plan' = [plan EXCEPT ![p] = usage] /\ rivals' = [rivals EXCEPT ![p] = {}]
  /\ IF p = Watched THEN tick' = "off" /\ bytes' = Zeros /\ cur' = Zeros /\ last' = Zeros /\ STAT' = Zeros
                    ELSE UNCHANGED tickerVars

\* spawn_ticker, of the process that is watched.
Ticks(p) == IF p = Watched THEN spawn_ticker ELSE UNCHANGED tickerVars

Start(p) ==
  /\ starts[p] < MaxStarts /\ starts' = [starts EXCEPT ![p] = @ + 1]
  /\ Going(p, "off", "main")
  /\ \E l \in Lines[p] : line' = [line EXCEPT ![p] = l]
  /\ plan' = [plan EXCEPT ![p] = usage]
  /\ UNCHANGED <<pts, rivals, worldVars, tickerVars>>

\* A refused line ends here, as do authorized and authorize (AuthorizedTable).
Dispatch(p) ==
  LET made == main(line[p][1], line[p][2])
      others == {q \in Process \ {p} : made.link = LinkPath /\ Asked(q)}
  IN  /\ at[p] = "main"
      /\ plan' = [plan EXCEPT ![p] = made]
      /\ Goto(p, IF made.mode \in {"usage", "error", "authorized", "authorize"}
                 THEN "off" ELSE "identity")
      /\ rivals' = [q \in Process |-> IF q = p THEN others
                                      ELSE IF q \in others THEN rivals[q] \cup {p} ELSE rivals[q]]
      /\ line' = [line EXCEPT ![p] = <<>>]
      /\ UNCHANGED <<pts, starts, worldVars, tickerVars>>

\* load_or_create (IdentityFile).
LoadIdentity(p) ==
  /\ at[p] = "identity"
  /\ IF plan[p].mode = "keygen" THEN End(p)
     ELSE /\ Goto(p, CASE plan[p].mode = "share"  -> "open"
                       [] plan[p].mode = "attach" -> "pty"
                       [] plan[p].mode = "listen" -> "bind"
                       [] OTHER                   -> "target")
          /\ UNCHANGED <<plan, pts, rivals, tickerVars>>
  /\ UNCHANGED <<line, starts, worldVars>>

\* One of the `?`s: a bad identity, a serial port that does not open, no free
\* pseudo-terminal, a port that is taken, a target without a colon.
Fails(p) ==
  /\ \/ at[p] \in {"identity", "open", "pty"}
     \/ at[p] = "bind" /\ \E q \in Process : Listens(q) /\ plan[q].what = plan[p].what
     \/ at[p] = "target" /\ plan[p].what \notin Target
  /\ End(p)
  /\ UNCHANGED <<line, starts, worldVars>>

OpenSerial(p) ==
  /\ plan[p].what \in Device
  /\ Going(p, "open", "keys")
  /\ UNCHANGED <<line, plan, pts, rivals, starts, worldVars, tickerVars>>

\* openpty, set_raw, ttyname: numbers are used again.
open_pty(p) ==
  /\ Going(p, "pty", IF plan[p].link = None THEN "keys" ELSE "unlink")
  /\ \E n \in Pts : ~Holds(n) /\ pts' = [pts EXCEPT ![p] = n]
  /\ UNCHANGED <<line, plan, rivals, starts, worldVars, tickerVars>>

RemoveLinkKeeps(p) ==          \* mutant: what is at the path is left there
  /\ Going(p, "unlink", "symlink")
  /\ UNCHANGED <<line, plan, pts, rivals, starts, worldVars, tickerVars>>

\* remove_file takes a file or anybody's link, not a directory.
RemoveLink(p) ==
  /\ Going(p, "unlink", "symlink")
  /\ path' = IF Asked(p) /\ path # "dir" THEN "none" ELSE path
  /\ UNCHANGED <<line, plan, pts, rivals, starts, USBWS_PEER, goodKeys, tickerVars>>

\* symlink fails when there is something; the process goes on without.
SymLink(p) ==
  /\ Going(p, "symlink", "keys")
  /\ path' = IF Asked(p) /\ path = "none" THEN pts[p] ELSE path
  /\ UNCHANGED <<line, plan, pts, rivals, starts, USBWS_PEER, goodKeys, tickerVars>>

BindPort(p) ==
  /\ \A q \in Process : Listens(q) => plan[q].what # plan[p].what
  /\ Going(p, "bind", "keys")
  /\ Ticks(p)
  /\ UNCHANGED <<line, plan, pts, rivals, starts, worldVars>>

CheckTarget(p) ==
  /\ plan[p].what \in Target
  /\ Going(p, "target", "keys")
  /\ IF plan[p].mode = "connect" THEN Ticks(p) ELSE UNCHANGED tickerVars
  /\ UNCHANGED <<line, plan, pts, rivals, starts, worldVars>>

\* Relay::from_env panics over a key that is not one.
FromEnv(p) ==
  /\ at[p] = "keys"
  /\ IF goodKeys THEN /\ Goto(p, IF plan[p].mode = "accept" THEN "await" ELSE "session")
                      /\ UNCHANGED <<plan, pts, rivals, tickerVars>>
                 ELSE End(p)
  /\ UNCHANGED <<line, starts, worldVars>>

\* An initiator is accepted (RelaySession).
Accepted(p) ==
  /\ Going(p, "await", "session")
  /\ Ticks(p)
  /\ UNCHANGED <<line, plan, pts, rivals, starts, worldVars>>

\* Ctrl-C, a kill, or a session that is over.
Ends(p) ==
  /\ AtWork(p) /\ End(p)
  /\ UNCHANGED <<line, starts, worldVars>>

Ticker ==
  /\ tick # "off" /\ Tick
  /\ UNCHANGED <<procVars, worldVars>>

Traffic ==
  /\ at[Watched] = "session" /\ tick # "off" /\ Moved
  /\ UNCHANGED <<procVars, worldVars>>

-----------------------------------------------------------------------------

Next == \/ \E p \in Process :
             \/ Start(p) \/ Dispatch(p) \/ LoadIdentity(p) \/ Fails(p) \/ OpenSerial(p)
             \/ open_pty(p) \/ RemoveLink(p) \/ SymLink(p) \/ BindPort(p) \/ CheckTarget(p)
             \/ FromEnv(p) \/ Accepted(p) \/ Ends(p)
        \/ Ticker \/ Traffic

Spec == Init /\ [][Next]_vars

\* The runtime gets round to the ticker, whose sleep ends.
FairSpec == Spec /\ WF_vars(Ticker)

-----------------------------------------------------------------------------
(* The usage text, read declaratively.                                     *)

\* The positions of a flag; its value: the word after it or after its =.
Given(args, name) == {i \in DOMAIN args : args[i].flag = name}
ValueAt(args, i)  == IF args[i].value # None THEN args[i].value
                     ELSE IF i < Len(args) /\ IsWord(args[i + 1]) THEN args[i + 1].value ELSE ""
Lastly(args, name) ==
  IF Given(args, name) = {} THEN None
  ELSE ValueAt(args, CHOOSE i \in Given(args, name) : \A j \in Given(args, name) : j <= i)

\* The first argument that belongs to no flag.
Own(args) == {i \in DOMAIN args :
                IsWord(args[i]) /\ (i > 1 => IsWord(args[i - 1]) \/ args[i - 1].value # None)}
Firstly(args) == IF Own(args) = {} THEN None
                 ELSE args[CHOOSE i \in Own(args) : \A j \in Own(args) : i <= j].value

\* Who a process may talk to: --peer, which nothing overrides and which is used
\* or refused; for attach the positional; else USBWS_PEER (main.rs:268-269 "in
\* that priority order").  The port, device or target is never taken for the
\* peer (main.rs:192-193), nor a flag's value for one of them.
Understood ==
  [][\A p \in Process : Dispatch(p) =>
       LET cmd == line[p][1]  args == line[p][2]  made == plan'[p]
           peer == IF Given(args, "peer") # {} THEN Lastly(args, "peer")
                   ELSE IF cmd \in {"attach", "authorize"} /\ Own(args) # {} THEN Firstly(args)
                   ELSE IF cmd = "authorize" THEN None ELSE USBWS_PEER
           accepts == cmd = "tcp-connect" /\ Given(args, "accept") # {}
           complete == /\ cmd # "help"
                       /\ cmd \in {"share", "tcp-connect"} => Own(args) # {}
                       /\ cmd = "tcp-listen" => Firstly(args) \in Port
                       /\ cmd \notin {"keygen", "authorized"} => accepts \/ peer \in Invite
       IN  /\ made.mode \notin {"usage", "error"} <=> complete
           /\ complete /\ cmd \notin {"keygen", "authorized"} =>
                /\ made.peer = IF accepts THEN None ELSE peer
                /\ made.link = IF cmd = "attach" THEN Lastly(args, "link") ELSE None
                /\ cmd \notin {"attach", "authorize"} => made.what = Firstly(args)]_vars

\* The name given with --link leads to the terminal of an attach in session, also
\* after a restart has left a stale link (main.rs:351 "so the name is stable
\* across restarts").  When several ask for one path at once, it leads to one of
\* them, as long as none of those has ended again.
InSession(p) == at[p] = "session" /\ Asked(p)
LinkLeads ==
  \A p \in Process :
    InSession(p) /\ (\A q \in rivals[p] : InSession(q)) =>
      path = "dir" \/ \E q \in rivals[p] \cup {p} : path = pts[q]

================================================================================
