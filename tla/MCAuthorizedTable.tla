---- MODULE MCAuthorizedTable ----
EXTENDS AuthorizedTable, TLC
CONSTANTS o1, o2, o3, g1, g2, g3, a1
Empty == [lines |-> <<>>, open |-> FALSE]
Terminated == {Empty, [lines |-> <<Note>>, open |-> FALSE],
               [lines |-> <<o1>>, open |-> FALSE], [lines |-> <<o1, Note, o2>>, open |-> FALSE]}
HandEdited == {[lines |-> <<o1>>, open |-> TRUE], [lines |-> <<o2, Note>>, open |-> TRUE]}
AnyTable == Terminated \cup HandEdited
====
