---- MODULE MCIdentityFile ----
EXTENDS IdentityFile
L(f, s) == [field |-> f, seed |-> s]
F(lines) == [there |-> TRUE, lines |-> lines]
NoFile == [there |-> FALSE, lines |-> <<>>]
Created == F(<<L("other", 0), L("x_seed", 1), L("ed_seed", 1)>>)
ByHand == {F(<<L("bare", 1), L("other", 0), L("bare", 1)>>),
           F(<<L("ed_seed", 1), L("x_seed", 2), L("x_seed", 1)>>)}
Broken == {F(<<L("bare", 1), L("x_seed", 1)>>), F(<<L("x_seed", 1), L("ed_seed", 1), L("ed_seed", 0)>>),
           F(<<L("two", 1)>>)}
AnyFile == {NoFile, Created} \cup ByHand \cup Broken
====
