---------------------------- MODULE StreamPromise ----------------------------
(***************************************************************************)
(* What a bridge promises the programs at its two ends, whatever the relay *)
(* does: a connection is two independent streams of chunks, one per        *)
(* direction.  A chunk may be lost (tcp.rs:378-380, "individual TCP        *)
(* connections may drop"), but the chunks an end is given are chunks the   *)
(* same connection's other end yielded, in that order, each once.          *)
(***************************************************************************)
EXTENDS Naturals, Sequences

CONSTANTS Conn, End

VARIABLES
  sent,   \* sent[e][c]: chunks connection c has yielded at end e
  got     \* got[e][c]: chunks connection c was given at end e

vars == <<sent, got>>

Peer(e) == CHOOSE d \in End : d # e

Init == /\ sent = [e \in End |-> [c \in Conn |-> 0]]
        /\ got  = [e \in End |-> [c \in Conn |-> <<>>]]

Send(e, c) == /\ sent' = [sent EXCEPT ![e][c] = @ + 1]
              /\ UNCHANGED got

LastGot(e, c) == IF got[e][c] = <<>> THEN 0 ELSE got[e][c][Len(got[e][c])].n

Deliver(e, c) ==
  \E n \in LastGot(e, c) + 1 .. sent[Peer(e)][c] :
    /\ got' = [got EXCEPT ![e][c] = Append(@, [conn |-> c, n |-> n])]
    /\ UNCHANGED sent

Next == \E e \in End, c \in Conn : Send(e, c) \/ Deliver(e, c)

Spec == Init /\ [][Next]_vars
=============================================================================
