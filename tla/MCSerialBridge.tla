---- MODULE MCSerialBridge ----
EXTENDS SerialBridge
Both(s, a) == [e \in End |-> IF e = "share" THEN s ELSE a]
Chunks32 == Both(3, 2)
====
