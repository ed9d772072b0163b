---- MODULE MCStartUp ----
EXTENDS StartUp

\* Up to n of the given arguments, in any order, also repeated.
UpTo(n, args) == UNION {[1 .. k -> args] : k \in 0 .. n}
Words(S) == {Word(v) : v \in S}

PeerFlags == {Bare("peer"), Assign("peer", "B")}
AnyLine ==
       {"share"}       \X UpTo(3, Words({"tty", "A"}) \cup PeerFlags)
  \cup {"attach"}      \X UpTo(3, Words({"A", "L"}) \cup PeerFlags \cup {Bare("link")})
  \cup {"tcp-listen"}  \X UpTo(3, Words({"3240", "A"}) \cup PeerFlags)
  \cup {"tcp-connect"} \X UpTo(3, Words({"host:1", "host"}) \cup PeerFlags \cup {Bare("accept")})
  \cup {"authorize"}   \X UpTo(2, Words({"A"}) \cup PeerFlags)
  \cup {"keygen", "authorized", "help"} \X {<<>>}
FewLines == {<<"attach", <<Word("A"), Bare("link"), Word("L")>>>>,
             <<"tcp-listen", <<Word("3240"), Assign("peer", "A")>>>>}
LinesOf == [p1 |-> AnyLine, p2 |-> FewLines]
ProcessNames == DOMAIN LinesOf
====
