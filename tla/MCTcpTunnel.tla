---- MODULE MCTcpTunnel ----
EXTENDS TcpTunnel, TLC
Symmetry == Permutations(Conn)
Both(h, g) == [e \in End |-> IF e = "home" THEN h ELSE g]
Chunks10 == Both(1, 0)
Chunks20 == Both(2, 0)
Chunks22 == Both(2, 2)
====
