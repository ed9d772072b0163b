-------------------------- MODULE SerialBridgeProofs --------------------------
(***************************************************************************)
(* Theorems about SerialBridge, for any channel capacities, any number of  *)
(* chunks and of link failures.                                            *)
(***************************************************************************)
EXTENDS SerialBridge, SequenceTheorems, TLAPS

-----------------------------------------------------------------------------
(* Sequences.                                                              *)

\* A chunk that goes from the head of one queue to the end of the one before it
\* leaves their concatenation as it is.
LEMMA Shift ==
  ASSUME NEW S, NEW s \in Seq(S), NEW t \in Seq(S), t # <<>>
  PROVE  Append(s, Head(t)) \o Tail(t) = s \o t
<1>1. Head(t) \in S /\ Tail(t) \in Seq(S) /\ Len(Tail(t)) = Len(t) - 1
      /\ \A i \in 1 .. Len(Tail(t)) : Tail(t)[i] = t[i + 1]
  BY HeadTailProperties
<1>2. Append(s, Head(t)) \in Seq(S) /\ Len(Append(s, Head(t))) = Len(s) + 1
      /\ (\A i \in 1 .. Len(s) : Append(s, Head(t))[i] = s[i])
      /\ Append(s, Head(t))[Len(s) + 1] = Head(t)
  BY <1>1, AppendProperties
<1>3. s \o t \in Seq(S) /\ Len(s \o t) = Len(s) + Len(t)
      /\ \A i \in 1 .. Len(s) + Len(t) : (s \o t)[i] = IF i <= Len(s) THEN s[i] ELSE t[i - Len(s)]
  BY ConcatProperties
<1> DEFINE a == Append(s, Head(t))
           b == Tail(t)
<1>4. a \o b \in Seq(S) /\ Len(a \o b) = Len(a) + Len(b)
      /\ \A i \in 1 .. Len(a) + Len(b) : (a \o b)[i] = IF i <= Len(a) THEN a[i] ELSE b[i - Len(a)]
  <2> HIDE DEF a, b
  <2>1. a \in Seq(S) /\ b \in Seq(S)
    BY <1>1, <1>2 DEF a, b
  <2> QED BY <2>1, ConcatProperties
<1>5. Head(t) = t[1] /\ Len(s) \in Nat /\ Len(t) \in Nat /\ Len(t) # 0
  BY LenProperties, EmptySeq
<1>6. \A i \in 1 .. Len(s) + Len(t) : (a \o b)[i] = (s \o t)[i]
  BY <1>1, <1>2, <1>3, <1>4, <1>5
<1> HIDE DEF a, b
<1>7. Len(a \o b) = Len(s \o t)
  BY <1>1, <1>2, <1>3, <1>4, <1>5 DEF a, b
<1>8. a \o b = s \o t
  BY <1>3, <1>4, <1>6, <1>7, SeqEqual
<1> QED BY <1>8 DEF a, b

LEMMA AppendThrough ==
  ASSUME NEW S, NEW s \in Seq(S), NEW t \in Seq(S), NEW x \in S
  PROVE  s \o Append(t, x) = Append(s \o t, x)
<1>1. Append(t, x) = t \o <<x>> /\ <<x>> \in Seq(S) /\ s \o t \in Seq(S)
  BY AppendIsConcat, ConcatProperties
<1>2. Append(s \o t, x) = (s \o t) \o <<x>>
  BY <1>1, AppendIsConcat
<1> QED BY <1>1, <1>2, ConcatAssociative

\* s keeps some members of t, in the order they have there.
Fewer(s, t) ==
  \E f \in [1 .. Len(s) -> 1 .. Len(t)] :
    /\ \A i \in 1 .. Len(s) : s[i] = t[f[i]]
    /\ \A i, j \in 1 .. Len(s) : i < j => f[i] < f[j]

LEMMA SubSeqFewer ==
  ASSUME NEW S, NEW s \in Seq(S), NEW k \in 0 .. Len(s)
  PROVE  SubSeq(s, 1, k) \in Seq(S) /\ Fewer(SubSeq(s, 1, k), s)
<1>1. /\ SubSeq(s, 1, k) \in Seq(S) /\ Len(SubSeq(s, 1, k)) = k
      /\ \A i \in 1 .. k : SubSeq(s, 1, k)[i] = s[i]
  BY LenProperties, ElementOfSeq, SubSeqProperties
<1> DEFINE f == [i \in 1 .. k |-> i]
<1>2. f \in [1 .. Len(SubSeq(s, 1, k)) -> 1 .. Len(s)]
  BY <1>1, LenProperties
<1> QED BY <1>1, <1>2 DEF Fewer

LEMMA TailFewer ==
  ASSUME NEW S, NEW s \in Seq(S), s # <<>>
  PROVE  Tail(s) \in Seq(S) /\ Fewer(Tail(s), s)
<1>1. /\ Tail(s) \in Seq(S) /\ Len(Tail(s)) = Len(s) - 1 /\ Len(s) \in Nat \ {0}
      /\ \A i \in 1 .. Len(Tail(s)) : Tail(s)[i] = s[i + 1]
  BY HeadTailProperties, EmptySeq
<1> DEFINE f == [i \in 1 .. Len(Tail(s)) |-> i + 1]
<1>2. f \in [1 .. Len(Tail(s)) -> 1 .. Len(s)]
  BY <1>1
<1>3. \A i \in 1 .. Len(Tail(s)) : Tail(s)[i] = s[f[i]]
  BY <1>1
<1>4. \A i, j \in 1 .. Len(Tail(s)) : i < j => f[i] < f[j]
  BY <1>1
<1> HIDE DEF f
<1> QED BY <1>1, <1>2, <1>3, <1>4 DEF Fewer

LEMMA SameFewer == ASSUME NEW S, NEW s \in Seq(S) PROVE Fewer(s, s)
<1>1. Len(s) \in 0 .. Len(s)
  BY LenProperties
<1> QED BY <1>1, SubSeqFewer, SubSeqFull

LEMMA NoneFewer == ASSUME NEW S, NEW s \in Seq(S) PROVE Fewer(<<>>, s)
<1>1. 0 \in 0 .. Len(s) /\ SubSeq(s, 1, 0) = <<>>
  BY LenProperties, SubSeqEmpty
<1> QED BY <1>1, SubSeqFewer

LEMMA ConcatFewer ==
  ASSUME NEW S, NEW s1 \in Seq(S), NEW s2 \in Seq(S), NEW t1 \in Seq(S), NEW t2 \in Seq(S),
         Fewer(s1, t1), Fewer(s2, t2)
  PROVE  Fewer(s1 \o s2, t1 \o t2)
<1>1. PICK f \in [1 .. Len(s1) -> 1 .. Len(t1)] :
        /\ \A i \in 1 .. Len(s1) : s1[i] = t1[f[i]]
        /\ \A i, j \in 1 .. Len(s1) : i < j => f[i] < f[j]
  BY DEF Fewer
<1>2. PICK g \in [1 .. Len(s2) -> 1 .. Len(t2)] :
        /\ \A i \in 1 .. Len(s2) : s2[i] = t2[g[i]]
        /\ \A i, j \in 1 .. Len(s2) : i < j => g[i] < g[j]
  BY DEF Fewer
<1>3. Len(s1) \in Nat /\ Len(s2) \in Nat /\ Len(t1) \in Nat /\ Len(t2) \in Nat
  BY LenProperties
<1>4. /\ Len(s1 \o s2) = Len(s1) + Len(s2)
      /\ \A i \in 1 .. Len(s1) + Len(s2) :
           (s1 \o s2)[i] = IF i <= Len(s1) THEN s1[i] ELSE s2[i - Len(s1)]
  BY ConcatProperties
<1>5. /\ Len(t1 \o t2) = Len(t1) + Len(t2)
      /\ \A i \in 1 .. Len(t1) + Len(t2) :
           (t1 \o t2)[i] = IF i <= Len(t1) THEN t1[i] ELSE t2[i - Len(t1)]
  BY ConcatProperties
<1> DEFINE h == [i \in 1 .. Len(s1 \o s2) |->
                   IF i <= Len(s1) THEN f[i] ELSE Len(t1) + g[i - Len(s1)]]
<1>6. \A i \in 1 .. Len(s1 \o s2) :
        /\ h[i] \in 1 .. Len(t1 \o t2)
        /\ (s1 \o s2)[i] = (t1 \o t2)[h[i]]
        /\ i <= Len(s1) => h[i] = f[i] /\ f[i] \in 1 .. Len(t1)
        /\ i > Len(s1) => i - Len(s1) \in 1 .. Len(s2) /\ h[i] = Len(t1) + g[i - Len(s1)]
                          /\ g[i - Len(s1)] \in 1 .. Len(t2)
  <2> SUFFICES ASSUME NEW i \in 1 .. Len(s1 \o s2)
               PROVE  /\ h[i] \in 1 .. Len(t1 \o t2)
                      /\ (s1 \o s2)[i] = (t1 \o t2)[h[i]]
                      /\ i <= Len(s1) => h[i] = f[i] /\ f[i] \in 1 .. Len(t1)
                      /\ i > Len(s1) => i - Len(s1) \in 1 .. Len(s2)
                                        /\ h[i] = Len(t1) + g[i - Len(s1)]
                                        /\ g[i - Len(s1)] \in 1 .. Len(t2)
    OBVIOUS
  <2>1. CASE i <= Len(s1)
    <3>1. i \in 1 .. Len(s1) /\ h[i] = f[i] /\ f[i] \in 1 .. Len(t1)
      BY <1>1, <1>3, <1>4, <2>1
    <3> HIDE DEF h
    <3> QED BY <1>1, <1>3, <1>4, <1>5, <2>1, <3>1
  <2>2. CASE i > Len(s1)
    <3>0. i - Len(s1) \in 1 .. Len(s2) /\ i \in 1 .. Len(s1) + Len(s2) /\ ~(i <= Len(s1))
      BY <1>3, <1>4, <2>2
    <3>1. /\ i - Len(s1) \in 1 .. Len(s2) /\ h[i] = Len(t1) + g[i - Len(s1)]
          /\ g[i - Len(s1)] \in 1 .. Len(t2)
      BY <1>2, <3>0
    <3> HIDE DEF h
    <3>2. h[i] \in 1 .. Len(t1) + Len(t2) /\ ~(h[i] <= Len(t1)) /\ h[i] - Len(t1) = g[i - Len(s1)]
      BY <1>3, <3>1
    <3>3. (s1 \o s2)[i] = s2[i - Len(s1)] /\ (t1 \o t2)[h[i]] = t2[g[i - Len(s1)]]
      BY <1>4, <1>5, <3>0, <3>2
    <3> QED BY <1>2, <1>5, <2>2, <3>0, <3>1, <3>2, <3>3
  <2> QED BY <1>3, <1>4, <2>1, <2>2
<1>7. \A i, j \in 1 .. Len(s1 \o s2) : i < j => h[i] < h[j]
  <2> HIDE DEF h
  <2> SUFFICES ASSUME NEW i \in 1 .. Len(s1 \o s2), NEW j \in 1 .. Len(s1 \o s2), i < j
               PROVE  h[i] < h[j]
    OBVIOUS
  <2>1. CASE j <= Len(s1)
    BY <1>1, <1>3, <1>4, <1>6, <2>1
  <2>2. CASE i <= Len(s1) /\ j > Len(s1)
    BY <1>3, <1>6, <2>2
  <2>3. CASE i > Len(s1)
    <3>1. i \in Nat /\ j \in Nat /\ j > Len(s1) /\ i - Len(s1) < j - Len(s1)
      BY <1>3, <1>4, <2>3
    <3>2. i - Len(s1) \in 1 .. Len(s2) /\ j - Len(s1) \in 1 .. Len(s2)
      BY <1>6, <2>3, <3>1
    <3>3. g[i - Len(s1)] < g[j - Len(s1)]
      BY <1>2, <3>1, <3>2
    <3>4. /\ h[i] = Len(t1) + g[i - Len(s1)] /\ h[j] = Len(t1) + g[j - Len(s1)]
          /\ g[i - Len(s1)] \in 1 .. Len(t2) /\ g[j - Len(s1)] \in 1 .. Len(t2)
      BY <1>6, <2>3, <3>1
    <3> QED BY <1>3, <3>3, <3>4
  <2> QED BY <1>3, <1>4, <2>1, <2>2, <2>3
<1>8. h \in [1 .. Len(s1 \o s2) -> 1 .. Len(t1 \o t2)]
  BY <1>6
<1> HIDE DEF h
<1> QED BY <1>6, <1>7, <1>8 DEF Fewer

\* Chunks in the order they were read, of which there are n.
InOrder(s, n) == \A i, j \in 1 .. Len(s) : s[i] <= n /\ (i < j => s[i] < s[j])

LEMMA FewerInOrder ==
  ASSUME NEW s, NEW t, NEW n, Fewer(s, t), InOrder(t, n)
  PROVE  InOrder(s, n)
BY DEF Fewer, InOrder

LEMMA AppendInOrder ==
  ASSUME NEW s \in Seq(Nat), NEW n \in Nat, InOrder(s, n)
  PROVE  InOrder(Append(s, n + 1), n + 1)
<1>1. /\ Len(s) \in Nat /\ Len(Append(s, n + 1)) = Len(s) + 1
      /\ \A i \in 1 .. Len(s) : Append(s, n + 1)[i] = s[i] /\ s[i] \in Nat
      /\ Append(s, n + 1)[Len(s) + 1] = n + 1
  BY AppendProperties, LenProperties, ElementOfSeq
<1> HIDE DEF InOrder
<1> DEFINE a == Append(s, n + 1)
<1>2. \A i \in 1 .. Len(a) :
        \/ i = Len(s) + 1 /\ a[i] = n + 1
        \/ i \in 1 .. Len(s) /\ a[i] = s[i] /\ s[i] \in Nat /\ s[i] <= n
  <2>1. \A i \in 1 .. Len(s) : s[i] <= n
    BY DEF InOrder
  <2>2. \A i \in 1 .. Len(s) + 1 : i = Len(s) + 1 \/ i \in 1 .. Len(s)
    BY <1>1
  <2> QED BY <1>1, <2>1, <2>2
<1>3. \A i, j \in 1 .. Len(a) : a[i] <= n + 1 /\ (i < j => a[i] < a[j])
  <2> HIDE DEF a
  <2> SUFFICES ASSUME NEW i \in 1 .. Len(a), NEW j \in 1 .. Len(a)
               PROVE  a[i] <= n + 1 /\ (i < j => a[i] < a[j])
    OBVIOUS
  <2>1. CASE i \in 1 .. Len(s) /\ j \in 1 .. Len(s) /\ a[i] = s[i] /\ a[j] = s[j]
    BY <1>2, <2>1 DEF InOrder
  <2> QED BY <1>1, <1>2, <2>1
<1> QED BY <1>3 DEF InOrder

-----------------------------------------------------------------------------
(* Types.                                                                  *)

LEMMA Others == \A e \in End : Other(e) \in End /\ Other(Other(e)) = e /\ Other(e) # e
BY DEF Other, End

LEMMA TypeInit == ASSUME NEW up \in BOOLEAN, InitLinks(up) PROVE TypeOK
BY BridgeAssumption DEF InitLinks, TypeOK, At, LoopState

LEMMA GotoType ==
  ASSUME TypeOK, NEW e \in End, NEW point \in {"down", "select", "exit", "stopped"},
         Goto(e, point)
  PROVE  loop' \in [End -> LoopState]
BY DEF TypeOK, Goto, At, LoopState

LEMMA TypeDevice ==
  ASSUME TypeOK, NEW e \in End, Device(e) \/ Reader(e) \/ Writer(e)
  PROVE  TypeOK'
<1> USE DEF deviceVars
<1>1. CASE DeviceEof(e) \/ DeviceEio(e) \/ ReadEof(e)
  BY <1>1 DEF DeviceEof, DeviceEio, ReadEof, TypeOK
<1>2. CASE ReadChunk(e)
  <2>1. read[e] + 1 \in Chunk /\ read' \in [End -> Nat]
    BY <1>2 DEF ReadChunk, TypeOK, Chunk
  <2>2. /\ Append(devQ[e], read[e] + 1) \in Seq(Chunk)
        /\ Len(Append(devQ[e], read[e] + 1)) <= DevCap
    BY <1>2, <2>1, BridgeAssumption DEF ReadChunk, TypeOK
  <2> QED BY <1>2, <2>1, <2>2 DEF ReadChunk, TypeOK
<1>3. CASE WriteChunk(e)
  <2>1. /\ Head(netQ[e]) \in Chunk /\ Tail(netQ[e]) \in Seq(Chunk)
        /\ Len(Tail(netQ[e])) <= NetCap
    BY <1>3, BridgeAssumption DEF WriteChunk, TypeOK
  <2>2. Append(wrote[e], Head(netQ[e])) \in Seq(Chunk)
    BY <2>1 DEF TypeOK
  <2> QED BY <1>3, <2>1, <2>2 DEF WriteChunk, TypeOK
<1>4. CASE WriteFailed(e)
  <2>1. <<>> \in Seq(Chunk) /\ Len(<<>>) <= NetCap
    BY BridgeAssumption
  <2> QED BY <1>4, <2>1 DEF WriteFailed, TypeOK
<1> QED BY <1>1, <1>2, <1>3, <1>4 DEF Device, Reader, Writer

LEMMA TypeQuit ==
  ASSUME TypeOK, NEW e \in End, NEW point \in {"exit", "stopped"}, Quit(e, point)
  PROVE  TypeOK'
<1>1. <<>> \in Seq(Chunk) /\ Len(<<>>) <= NetCap /\ Len(<<>>) <= DevCap
  BY BridgeAssumption
<1> QED BY <1>1, GotoType DEF Quit, TypeOK

LEMMA TypeSession ==
  ASSUME TypeOK, NEW e \in End, Session(e)
  PROVE  TypeOK'
<1> USE DEF deviceVars
<1>1. CASE Connect(e) \/ NoticeDrop(e) \/ Discard(e)
  BY <1>1, GotoType DEF Connect, NoticeDrop, Discard, TypeOK
<1>2. CASE SendChunk(e) \/ LoseChunk(e)
  <2>1. /\ Head(devQ[e]) \in Chunk /\ Tail(devQ[e]) \in Seq(Chunk)
        /\ Len(Tail(devQ[e])) <= DevCap
    BY <1>2, BridgeAssumption DEF SendChunk, LoseChunk, TypeOK
  <2>2. CASE SendChunk(e)
    <3>1. wire' \in [End -> Seq(Chunk)]
      <4>1. Append(wire[Other(e)], Head(devQ[e])) \in Seq(Chunk)
        BY <2>1, Others DEF TypeOK
      <4> QED BY <2>2, <4>1, Others DEF SendChunk, TypeOK
    <3> QED BY <2>1, <2>2, <3>1 DEF SendChunk, TypeOK
  <2>3. CASE LoseChunk(e)
    BY <2>1, <2>3, GotoType DEF LoseChunk, TypeOK
  <2> QED BY <1>2, <2>2, <2>3
<1>3. CASE Recv(e)
  <2>1. Head(wire[e]) \in Chunk /\ Tail(wire[e]) \in Seq(Chunk)
    BY <1>3 DEF Recv, TypeOK
  <2>2. loop' \in [End -> LoopState]
    BY <1>3, <2>1 DEF Recv, TypeOK, LoopState
  <2> QED BY <1>3, <2>1, <2>2 DEF Recv, TypeOK
<1>4. CASE Deliver(e)
  <2>1. loop[e].chunk \in Chunk
    BY <1>4 DEF Deliver, TypeOK, LoopState
  <2>2. /\ Append(netQ[e], loop[e].chunk) \in Seq(Chunk)
        /\ Len(Append(netQ[e], loop[e].chunk)) <= NetCap
    BY <1>4, <2>1, BridgeAssumption DEF Deliver, TypeOK
  <2> QED BY <1>4, <2>2, GotoType DEF Deliver, TypeOK
<1>5. ASSUME NEW point \in {"exit", "stopped"}, Quit(e, point)
      PROVE  TypeOK'
  <2>1. <<>> \in Seq(Chunk) /\ Len(<<>>) <= NetCap /\ Len(<<>>) <= DevCap
    BY BridgeAssumption
  <2> QED BY <1>5, <2>1, GotoType DEF Quit, TypeOK
<1> QED BY <1>1, <1>2, <1>3, <1>4, <1>5 DEF Session, DeviceClosed

LEMMA TypeDrop ==
  ASSUME TypeOK, NEW e \in End, DropLink(e)
  PROVE  TypeOK'
<1> USE DEF deviceVars
<1>1. PICK k \in 0 .. Len(wire[Other(e)]) :
        wire' = [d \in End |-> IF d = e THEN <<>> ELSE SubSeq(wire[d], 1, k)]
  BY DEF DropLink
<1>2. \A d \in End : d # e => SubSeq(wire[d], 1, k) \in Seq(Chunk)
  <2> SUFFICES ASSUME NEW d \in End, d # e PROVE SubSeq(wire[d], 1, k) \in Seq(Chunk)
    OBVIOUS
  <2>1. d = Other(e) /\ wire[d] \in Seq(Chunk)
    BY DEF Other, End, TypeOK
  <2> QED BY <2>1
<1>3. wire' \in [End -> Seq(Chunk)]
  BY <1>1, <1>2
<1> QED BY <1>3 DEF DropLink, TypeOK

LEMMA TypeNext == TypeOK /\ [Next]_vars => TypeOK'
<1> SUFFICES ASSUME TypeOK, [Next]_vars PROVE TypeOK'
  OBVIOUS
<1>1. CASE UNCHANGED vars
  BY <1>1 DEF vars, deviceVars, TypeOK
<1>2. CASE Next
  BY <1>2, TypeDevice, TypeSession, TypeQuit, TypeDrop DEF Next, CtrlC
<1> QED BY <1>1, <1>2

LEMMA InitialTypes == (Init \/ InitReady) => TypeOK
BY TypeInit DEF Init, InitReady


\* Types, and the two channels within their capacities.
THEOREM TypeCorrect == (Spec => []TypeOK) /\ (ReadySpec => []TypeOK)
BY InitialTypes, TypeNext, PTL DEF Spec, ReadySpec

-----------------------------------------------------------------------------
(* The journey of the chunks from one end to the other.                    *)

\* Written, in the net channel, in hand, on the wire, in the device channel.
Along(w, n, h, x, q) == w \o n \o h \o x \o q

LEMMA AlongType ==
  ASSUME NEW S, NEW w \in Seq(S), NEW n \in Seq(S), NEW h \in Seq(S), NEW x \in Seq(S),
         NEW q \in Seq(S)
  PROVE  Along(w, n, h, x, q) \in Seq(S)
BY ConcatProperties DEF Along

LEMMA AlongWrite ==
  ASSUME NEW S, NEW w \in Seq(S), NEW n \in Seq(S), NEW h \in Seq(S), NEW x \in Seq(S),
         NEW q \in Seq(S), n # <<>>
  PROVE  Along(Append(w, Head(n)), Tail(n), h, x, q) = Along(w, n, h, x, q)
BY Shift DEF Along

\* Moving from the third place to the second: the loop pushes its chunk.
LEMMA AlongDeliver ==
  ASSUME NEW S, NEW w \in Seq(S), NEW n \in Seq(S), NEW c \in S, NEW x \in Seq(S),
         NEW q \in Seq(S)
  PROVE  Along(w, Append(n, c), <<>>, x, q) = Along(w, n, <<c>>, x, q)
<1>1. <<c>> \in Seq(S) /\ Append(n, c) \in Seq(S) /\ Append(n, c) = n \o <<c>>
  BY AppendIsConcat, AppendProperties
<1>2. w \o Append(n, c) = w \o n \o <<c>> /\ w \o Append(n, c) \in Seq(S)
  BY <1>1, ConcatAssociative, ConcatProperties
<1>3. w \o Append(n, c) \o <<>> = w \o Append(n, c)
  BY <1>2, ConcatEmptySeq
<1> QED BY <1>2, <1>3 DEF Along

LEMMA AlongRecv ==
  ASSUME NEW S, NEW w \in Seq(S), NEW n \in Seq(S), NEW x \in Seq(S), NEW q \in Seq(S),
         x # <<>>
  PROVE  Along(w, n, <<Head(x)>>, Tail(x), q) = Along(w, n, <<>>, x, q)
<1>1. Head(x) \in S /\ Tail(x) \in Seq(S) /\ w \o n \in Seq(S) /\ <<Head(x)>> \in Seq(S)
  BY HeadTailProperties, ConcatProperties
<1>2. (w \o n) \o <<Head(x)>> = Append(w \o n, Head(x))
  BY <1>1, AppendIsConcat
<1>3. Append(w \o n, Head(x)) \o Tail(x) = (w \o n) \o x
  BY <1>1, Shift
<1>4. (w \o n) \o <<>> = w \o n
  BY <1>1, ConcatEmptySeq
<1> QED BY <1>2, <1>3, <1>4 DEF Along

LEMMA AlongSend ==
  ASSUME NEW S, NEW w \in Seq(S), NEW n \in Seq(S), NEW h \in Seq(S), NEW x \in Seq(S),
         NEW q \in Seq(S), q # <<>>
  PROVE  Along(w, n, h, Append(x, Head(q)), Tail(q)) = Along(w, n, h, x, q)
<1> DEFINE u == w \o n \o h
<1>1. u \in Seq(S) /\ u \o x \in Seq(S) /\ Head(q) \in S
  BY HeadTailProperties, ConcatProperties
<1> HIDE DEF u
<1>2. u \o Append(x, Head(q)) = Append(u \o x, Head(q))
  BY <1>1, AppendThrough
<1>3. Append(u \o x, Head(q)) \o Tail(q) = (u \o x) \o q
  BY <1>1, Shift
<1> QED BY <1>2, <1>3 DEF Along, u

LEMMA AlongFewer ==
  ASSUME NEW S, NEW w \in Seq(S), NEW n \in Seq(S), NEW h \in Seq(S), NEW x \in Seq(S),
         NEW q \in Seq(S),
         NEW n1 \in Seq(S), NEW h1 \in Seq(S), NEW x1 \in Seq(S), NEW q1 \in Seq(S),
         Fewer(n1, n), Fewer(h1, h), Fewer(x1, x), Fewer(q1, q)
  PROVE  Fewer(Along(w, n1, h1, x1, q1), Along(w, n, h, x, q))
<1>1. Fewer(w, w)
  BY SameFewer
<1>2. Fewer(w \o n1, w \o n) /\ w \o n1 \in Seq(S) /\ w \o n \in Seq(S)
  BY <1>1, ConcatFewer, ConcatProperties
<1>3. /\ Fewer(w \o n1 \o h1, w \o n \o h)
      /\ w \o n1 \o h1 \in Seq(S) /\ w \o n \o h \in Seq(S)
  BY <1>2, ConcatFewer, ConcatProperties
<1>4. /\ Fewer(w \o n1 \o h1 \o x1, w \o n \o h \o x)
      /\ w \o n1 \o h1 \o x1 \in Seq(S) /\ w \o n \o h \o x \in Seq(S)
  BY <1>3, ConcatFewer, ConcatProperties
<1> QED BY <1>4, ConcatFewer DEF Along

LEMMA JourneyAlong ==
  \A e \in End : Journey(e) = Along(wrote[Other(e)], netQ[Other(e)], InHand(Other(e)),
                                   wire[Other(e)], devQ[e])
BY DEF Journey, Along

LEMMA Pieces ==
  ASSUME TypeOK, NEW e \in End
  PROVE  /\ wrote[e] \in Seq(Chunk) /\ netQ[e] \in Seq(Chunk) /\ InHand(e) \in Seq(Chunk)
         /\ wire[e] \in Seq(Chunk) /\ devQ[e] \in Seq(Chunk) /\ read[e] \in Nat
<1>1. loop[e].at = "deliver" => loop[e].chunk \in Chunk
  BY DEF TypeOK, LoopState
<1> QED BY <1>1 DEF TypeOK, InHand

\* While no link has failed, each end that still runs is connected.
Linked ==
  \A e \in End : /\ Gone(e) => writer[e] = "done"
                 /\ drops = 0 => link[e] \/ Gone(e)

\* What a step may do to the chunks read at e: move them on, add the one just
\* read, or lose some, which takes a failed link or a device that is gone.
Kept(e) == read'[e] = read[e] /\ Journey(e)' = Journey(e)
Read(e) == read'[e] = read[e] + 1 /\ Journey(e)' = Append(Journey(e), read[e] + 1)
Lost(e) == /\ read'[e] = read[e] /\ Fewer(Journey(e)', Journey(e))
           /\ Linked => drops' # 0 \/ writer'[Other(e)] # "run" \/ loop'[e].at = "stopped"
Moved(e) == Kept(e) \/ Read(e) \/ Lost(e)

LEMMA Untouched ==
  ASSUME NEW e \in End,
         read'[e] = read[e], wrote'[Other(e)] = wrote[Other(e)],
         netQ'[Other(e)] = netQ[Other(e)], InHand(Other(e))' = InHand(Other(e)),
         wire'[Other(e)] = wire[Other(e)], devQ'[e] = devQ[e]
  PROVE  Kept(e)
BY DEF Kept, Journey

\* Pieces that lose some of their chunks, and none of those written.
LEMMA Lessened ==
  ASSUME TypeOK, TypeOK', NEW e \in End, NEW d, d = Other(e), wrote'[d] = wrote[d],
         Fewer(netQ'[d], netQ[d]), Fewer(InHand(d)', InHand(d)),
         Fewer(wire'[d], wire[d]), Fewer(devQ'[e], devQ[e])
  PROVE  Fewer(Journey(e)', Journey(e))
<1>1. d \in End
  BY Others
<1>2. /\ wrote[d] \in Seq(Chunk) /\ netQ[d] \in Seq(Chunk) /\ InHand(d) \in Seq(Chunk)
      /\ wire[d] \in Seq(Chunk) /\ devQ[e] \in Seq(Chunk)
  BY <1>1, Pieces
<1>3. /\ netQ'[d] \in Seq(Chunk) /\ InHand(d)' \in Seq(Chunk)
      /\ wire'[d] \in Seq(Chunk) /\ devQ'[e] \in Seq(Chunk)
  <2>1. (loop[d].at = "deliver" => loop[d].chunk \in Chunk)'
    BY <1>1 DEF TypeOK, LoopState
  <2> QED BY <1>1, <2>1 DEF TypeOK, InHand
<1>4. Fewer(Along(wrote[d], netQ'[d], InHand(d)', wire'[d], devQ'[e]),
            Along(wrote[d], netQ[d], InHand(d), wire[d], devQ[e]))
  BY <1>2, <1>3, AlongFewer
<1> QED BY <1>4 DEF Journey, Along

LEMMA SameQueue ==
  ASSUME TypeOK, NEW e \in End
  PROVE  /\ Fewer(netQ[e], netQ[e]) /\ Fewer(InHand(e), InHand(e))
         /\ Fewer(wire[e], wire[e]) /\ Fewer(devQ[e], devQ[e])
         /\ Fewer(<<>>, netQ[e]) /\ Fewer(<<>>, InHand(e))
         /\ Fewer(<<>>, wire[e]) /\ Fewer(<<>>, devQ[e])
         /\ \A k \in 0 .. Len(wire[e]) : Fewer(SubSeq(wire[e], 1, k), wire[e])
         /\ devQ[e] # <<>> => Fewer(Tail(devQ[e]), devQ[e])
<1>1. /\ netQ[e] \in Seq(Chunk) /\ InHand(e) \in Seq(Chunk)
      /\ wire[e] \in Seq(Chunk) /\ devQ[e] \in Seq(Chunk)
  BY Pieces
<1> QED BY <1>1, SameFewer, NoneFewer, SubSeqFewer, TailFewer

LEMMA MovedThreads ==
  ASSUME TypeOK, TypeOK', NEW x \in End, NEW e \in End, Device(x) \/ Reader(x) \/ Writer(x)
  PROVE  Moved(e)
<1> DEFINE d == Other(e)
<1>0. d \in End /\ d # e /\ Other(d) = e /\ (x = e \/ x = d)
  BY Others DEF Other, End
<1> HIDE DEF d
<1>1. CASE DeviceEof(x) \/ DeviceEio(x) \/ ReadEof(x)
  BY <1>1, Untouched DEF DeviceEof, DeviceEio, ReadEof, InHand, Moved
<1>2. CASE ReadChunk(x)
  <2>1. CASE x = d
    BY <1>0, <1>2, <2>1, Untouched DEF ReadChunk, InHand, Moved, TypeOK, d
  <2>2. CASE x = e
    <3>1. /\ wrote[d] \in Seq(Chunk) /\ netQ[d] \in Seq(Chunk) /\ InHand(d) \in Seq(Chunk)
          /\ wire[d] \in Seq(Chunk) /\ devQ[e] \in Seq(Chunk) /\ read[e] + 1 \in Chunk
      BY <1>0, Pieces DEF Chunk
    <3>2. /\ wrote'[d] = wrote[d] /\ netQ'[d] = netQ[d] /\ InHand(d)' = InHand(d)
          /\ wire'[d] = wire[d] /\ devQ'[e] = Append(devQ[e], read[e] + 1)
          /\ read'[e] = read[e] + 1
      BY <1>2, <2>2 DEF ReadChunk, InHand, TypeOK
    <3>3. Along(wrote[d], netQ[d], InHand(d), wire[d], Append(devQ[e], read[e] + 1))
            = Append(Along(wrote[d], netQ[d], InHand(d), wire[d], devQ[e]), read[e] + 1)
      <4> DEFINE u == wrote[d] \o netQ[d] \o InHand(d) \o wire[d]
                 c == read[e] + 1
      <4>1. u \in Seq(Chunk) /\ c \in Chunk /\ devQ[e] \in Seq(Chunk)
        BY <3>1, ConcatProperties
      <4> HIDE DEF u, c
      <4>2. u \o Append(devQ[e], c) = Append(u \o devQ[e], c)
        BY <4>1, AppendThrough
      <4> QED BY <4>2 DEF Along, u, c
    <3>4. Journey(e)' = Append(Journey(e), read[e] + 1)
      BY <3>2, <3>3 DEF Journey, Along, d
    <3> QED BY <3>2, <3>4 DEF Moved, Read
  <2> QED BY <1>0, <2>1, <2>2
<1>3. CASE WriteChunk(x)
  <2>1. CASE x = e
    BY <1>0, <1>3, <2>1, Untouched DEF WriteChunk, InHand, Moved, TypeOK, d
  <2>2. CASE x = d
    <3>1. /\ wrote[d] \in Seq(Chunk) /\ netQ[d] \in Seq(Chunk) /\ InHand(d) \in Seq(Chunk)
          /\ wire[d] \in Seq(Chunk) /\ devQ[e] \in Seq(Chunk) /\ netQ[d] # <<>>
      BY <1>0, <1>3, <2>2, Pieces DEF WriteChunk
    <3>2. /\ wrote'[d] = Append(wrote[d], Head(netQ[d])) /\ netQ'[d] = Tail(netQ[d])
          /\ InHand(d)' = InHand(d) /\ wire'[d] = wire[d] /\ devQ'[e] = devQ[e]
          /\ read'[e] = read[e]
      BY <1>0, <1>3, <2>2 DEF WriteChunk, InHand, TypeOK
    <3>3. Along(Append(wrote[d], Head(netQ[d])), Tail(netQ[d]), InHand(d), wire[d], devQ[e])
            = Along(wrote[d], netQ[d], InHand(d), wire[d], devQ[e])
      BY <3>1, AlongWrite
    <3>4. Journey(e)' = Journey(e)
      BY <3>2, <3>3 DEF Journey, Along, d
    <3> QED BY <3>2, <3>4 DEF Moved, Kept
  <2> QED BY <1>0, <2>1, <2>2
<1>4. CASE WriteFailed(x)
  <2>1. CASE x = e
    BY <1>0, <1>4, <2>1, Untouched DEF WriteFailed, InHand, Moved, TypeOK, d
  <2>2. CASE x = d
    <3>1. /\ wrote'[d] = wrote[d] /\ netQ'[d] = <<>> /\ InHand(d)' = InHand(d)
          /\ wire'[d] = wire[d] /\ devQ'[e] = devQ[e] /\ read'[e] = read[e]
          /\ writer'[d] = "done"
      BY <1>0, <1>4, <2>2 DEF WriteFailed, InHand, TypeOK
    <3>2. Fewer(Journey(e)', Journey(e))
      BY <1>0, <3>1, SameQueue, Lessened DEF d
    <3> QED BY <3>1, <3>2 DEF Moved, Lost, d
  <2> QED BY <1>0, <2>1, <2>2
<1> QED BY <1>1, <1>2, <1>3, <1>4 DEF Device, Reader, Writer

\* A process that ends takes its queues and what was on the way to it.
LEMMA MovedQuit ==
  ASSUME TypeOK, TypeOK', NEW x \in End, NEW e \in End, NEW point \in {"exit", "stopped"},
         Quit(x, point), point = "stopped" \/ devQ[x] = <<>>,
         loop[x].at \in {"select", "down"}
  PROVE  Moved(e)
<1> DEFINE d == Other(e)
<1>0. d \in End /\ d # e /\ Other(d) = e /\ (x = e \/ x = d)
  BY Others DEF Other, End
<1> HIDE DEF d
<1>1. CASE x = d
  <2>1. /\ wrote'[d] = wrote[d] /\ netQ'[d] = <<>> /\ InHand(d)' = <<>>
        /\ wire'[d] = <<>> /\ devQ'[e] = devQ[e] /\ read'[e] = read[e]
        /\ writer'[d] = "done"
    BY <1>0, <1>1 DEF Quit, Goto, At, InHand, TypeOK
  <2>2. Fewer(Journey(e)', Journey(e))
    BY <1>0, <2>1, SameQueue, Lessened DEF d
  <2> QED BY <2>1, <2>2 DEF Moved, Lost, d
<1>2. CASE x = e
  <2>1. /\ wrote'[d] = wrote[d] /\ netQ'[d] = netQ[d] /\ InHand(d)' = InHand(d)
        /\ wire'[d] = wire[d] /\ devQ'[e] = <<>> /\ read'[e] = read[e]
        /\ loop'[e].at = point
    BY <1>0, <1>2 DEF Quit, Goto, At, InHand, TypeOK
  <2>2. CASE devQ[x] = <<>>
    BY <1>2, <2>1, <2>2, Untouched DEF Moved, d
  <2>3. CASE point = "stopped"
    <3>1. Fewer(Journey(e)', Journey(e))
      BY <1>0, <2>1, SameQueue, Lessened DEF d
    <3> QED BY <2>1, <2>3, <3>1 DEF Moved, Lost
  <2> QED BY <2>2, <2>3
<1> QED BY <1>0, <1>1, <1>2

LEMMA MovedSession ==
  ASSUME TypeOK, TypeOK', NEW x \in End, NEW e \in End, Session(x)
  PROVE  Moved(e)
<1> DEFINE d == Other(e)
<1>0. d \in End /\ d # e /\ Other(d) = e /\ (x = e \/ x = d)
  BY Others DEF Other, End
<1> USE DEF deviceVars
<1>s. /\ wrote[d] \in Seq(Chunk) /\ netQ[d] \in Seq(Chunk) /\ InHand(d) \in Seq(Chunk)
      /\ wire[d] \in Seq(Chunk) /\ devQ[e] \in Seq(Chunk)
  BY <1>0, Pieces
<1> HIDE DEF d
<1>1. CASE Connect(x) \/ NoticeDrop(x)
  <2>1. InHand(d)' = InHand(d)
    BY <1>0, <1>1 DEF Connect, NoticeDrop, Goto, At, InHand, TypeOK
  <2> QED BY <1>1, <2>1, Untouched DEF Connect, NoticeDrop, Moved, d
<1>2. CASE SendChunk(x)
  <2>1. CASE x = d
    BY <1>0, <1>2, <2>1, Untouched DEF SendChunk, InHand, Moved, TypeOK, d
  <2>2. CASE x = e
    <3>1. /\ wrote'[d] = wrote[d] /\ netQ'[d] = netQ[d] /\ InHand(d)' = InHand(d)
          /\ devQ'[e] = Tail(devQ[e]) /\ read'[e] = read[e] /\ devQ[e] # <<>>
          /\ drops' = drops /\ writer'[d] = writer[d]
      BY <1>2, <2>2 DEF SendChunk, InHand, TypeOK
    <3>2. CASE link[d]
      <4>1. wire'[d] = Append(wire[d], Head(devQ[e]))
        BY <1>0, <1>2, <2>2, <3>2 DEF SendChunk, TypeOK, d
      <4>2. Along(wrote[d], netQ[d], InHand(d), Append(wire[d], Head(devQ[e])), Tail(devQ[e]))
              = Along(wrote[d], netQ[d], InHand(d), wire[d], devQ[e])
        BY <1>s, <3>1, AlongSend
      <4>3. Journey(e)' = Journey(e)
        BY <3>1, <4>1, <4>2 DEF Journey, Along, d
      <4> QED BY <3>1, <4>3 DEF Moved, Kept
    <3>3. CASE ~link[d]
      <4>1. wire'[d] = wire[d]
        BY <1>2, <2>2, <3>3 DEF SendChunk, d
      <4>2. Fewer(Journey(e)', Journey(e))
        BY <1>0, <3>1, <4>1, SameQueue, Lessened DEF d
      <4>3. Linked => drops # 0 \/ writer[d] # "run"
        BY <1>0, <3>3 DEF Linked
      <4> QED BY <3>1, <4>2, <4>3 DEF Moved, Lost, d
    <3> QED BY <3>2, <3>3
  <2> QED BY <1>0, <2>1, <2>2
<1>3. CASE LoseChunk(x)
  <2>0. InHand(d)' = InHand(d)
    BY <1>0, <1>3 DEF LoseChunk, Goto, At, InHand, TypeOK
  <2>1. CASE x = d
    BY <1>0, <1>3, <2>0, <2>1, Untouched DEF LoseChunk, Moved, TypeOK, d
  <2>2. CASE x = e
    <3>1. /\ wrote'[d] = wrote[d] /\ netQ'[d] = netQ[d] /\ wire'[d] = wire[d]
          /\ devQ'[e] = Tail(devQ[e]) /\ read'[e] = read[e] /\ devQ[e] # <<>>
          /\ drops' = drops
      BY <1>3, <2>2 DEF LoseChunk, TypeOK
    <3>2. Fewer(Journey(e)', Journey(e))
      BY <1>0, <2>0, <3>1, SameQueue, Lessened DEF d
    <3>3. Linked => drops # 0
      BY <1>3, <2>2 DEF LoseChunk, Linked, Gone
    <3> QED BY <3>1, <3>2, <3>3 DEF Moved, Lost
  <2> QED BY <1>0, <2>1, <2>2
<1>4. CASE Recv(x)
  <2>1. CASE x = e
    BY <1>0, <1>4, <2>1, Untouched DEF Recv, InHand, Moved, TypeOK, d
  <2>2. CASE x = d
    <3>1. /\ wrote'[d] = wrote[d] /\ netQ'[d] = netQ[d] /\ wire[d] # <<>>
          /\ InHand(d) = <<>> /\ InHand(d)' = <<Head(wire[d])>> /\ wire'[d] = Tail(wire[d])
          /\ devQ'[e] = devQ[e] /\ read'[e] = read[e]
      BY <1>0, <1>4, <2>2 DEF Recv, InHand, TypeOK
    <3>2. Along(wrote[d], netQ[d], <<Head(wire[d])>>, Tail(wire[d]), devQ[e])
            = Along(wrote[d], netQ[d], <<>>, wire[d], devQ[e])
      BY <1>s, <3>1, AlongRecv
    <3>3. Journey(e)' = Journey(e)
      BY <3>1, <3>2 DEF Journey, Along, d
    <3> QED BY <3>1, <3>3 DEF Moved, Kept
  <2> QED BY <1>0, <2>1, <2>2
<1>5. CASE Deliver(x)
  <2>1. CASE x = e
    BY <1>0, <1>5, <2>1, Untouched DEF Deliver, Goto, InHand, Moved, TypeOK, d
  <2>2. CASE x = d
    <3>1. /\ wrote'[d] = wrote[d] /\ netQ'[d] = Append(netQ[d], loop[d].chunk)
          /\ InHand(d) = <<loop[d].chunk>> /\ InHand(d)' = <<>> /\ wire'[d] = wire[d]
          /\ devQ'[e] = devQ[e] /\ read'[e] = read[e]
      BY <1>0, <1>5, <2>2 DEF Deliver, Goto, At, InHand, TypeOK
    <3>2. loop[d].chunk \in Chunk
      BY <1>0, <1>5, <2>2 DEF Deliver, TypeOK, LoopState
    <3>3. Along(wrote[d], Append(netQ[d], loop[d].chunk), <<>>, wire[d], devQ[e])
            = Along(wrote[d], netQ[d], <<loop[d].chunk>>, wire[d], devQ[e])
      BY <1>s, <3>2, AlongDeliver
    <3>4. Journey(e)' = Journey(e)
      BY <3>1, <3>3 DEF Journey, Along, d
    <3> QED BY <3>1, <3>4 DEF Moved, Kept
  <2> QED BY <1>0, <2>1, <2>2
<1>6. CASE Discard(x)
  <2>1. CASE x = e
    BY <1>0, <1>6, <2>1, Untouched DEF Discard, Goto, InHand, Moved, TypeOK, d
  <2>2. CASE x = d
    <3>1. /\ wrote'[d] = wrote[d] /\ netQ'[d] = netQ[d] /\ InHand(d)' = <<>>
          /\ wire'[d] = wire[d] /\ devQ'[e] = devQ[e] /\ read'[e] = read[e]
          /\ writer'[d] = "done"
      BY <1>0, <1>6, <2>2 DEF Discard, Goto, At, InHand, TypeOK
    <3>2. Fewer(Journey(e)', Journey(e))
      BY <1>0, <3>1, SameQueue, Lessened DEF d
    <3> QED BY <3>1, <3>2 DEF Moved, Lost, d
  <2> QED BY <1>0, <2>1, <2>2
<1>7. CASE DeviceClosed(x)
  BY <1>7, MovedQuit DEF DeviceClosed
<1> QED BY <1>1, <1>2, <1>3, <1>4, <1>5, <1>6, <1>7 DEF Session

LEMMA MovedDrop ==
  ASSUME TypeOK, TypeOK', NEW x \in End, NEW e \in End, DropLink(x)
  PROVE  Moved(e)
<1> DEFINE d == Other(e)
<1>0. d \in End /\ d # e /\ Other(d) = e /\ (x = e \/ x = d)
  BY Others DEF Other, End
<1> HIDE DEF d
<1>1. PICK k \in 0 .. Len(wire[Other(x)]) :
        wire' = [c \in End |-> IF c = x THEN <<>> ELSE SubSeq(wire[c], 1, k)]
  BY DEF DropLink
<1>2. Fewer(wire'[d], wire[d])
  <2>1. CASE x = d
    BY <1>0, <1>1, <2>1, SameQueue
  <2>2. CASE x = e
    BY <1>0, <1>1, <2>2, SameQueue DEF d
  <2> QED BY <1>0, <2>1, <2>2
<1>3. /\ wrote'[d] = wrote[d] /\ netQ'[d] = netQ[d] /\ InHand(d)' = InHand(d)
      /\ devQ'[e] = devQ[e] /\ read'[e] = read[e] /\ drops' # 0
  BY DEF DropLink, deviceVars, InHand, TypeOK
<1>4. Fewer(Journey(e)', Journey(e))
  BY <1>0, <1>2, <1>3, SameQueue, Lessened DEF d
<1> QED BY <1>3, <1>4 DEF Moved, Lost

LEMMA MovedNext == TypeOK /\ [Next]_vars => \A e \in End : Moved(e)
<1> SUFFICES ASSUME TypeOK, [Next]_vars, NEW e \in End PROVE Moved(e)
  OBVIOUS
<1>1. TypeOK'
  BY TypeNext
<1>2. CASE UNCHANGED vars
  BY <1>2, Untouched DEF vars, deviceVars, InHand, Moved
<1>3. CASE Next
  BY <1>1, <1>3, MovedThreads, MovedSession, MovedQuit, MovedDrop DEF Next, CtrlC
<1> QED BY <1>2, <1>3

-----------------------------------------------------------------------------
(* Nothing is lost without a failure.                                      *)

\* Once drops, the end of a writer or Ctrl-C spoiled the promise, it stays so.
LEMMA Spoiled ==
  ASSUME TypeOK, [Next]_vars, NEW e \in End
  PROVE  /\ drops' = 0 => drops = 0
         /\ writer'[e] = "run" => writer[e] = "run"
         /\ loop'[e].at # "stopped" => loop[e].at # "stopped"
<1> USE DEF deviceVars
<1>1. CASE UNCHANGED vars
  BY <1>1 DEF vars
<1>2. ASSUME NEW x \in End, Device(x) \/ Reader(x) \/ Writer(x)
      PROVE  /\ drops' = drops /\ loop' = loop
             /\ writer'[e] = "run" => writer[e] = "run"
  BY <1>2 DEF Device, DeviceEof, DeviceEio, Reader, ReadChunk, ReadEof, Writer, WriteChunk,
              WriteFailed, TypeOK
<1>3. ASSUME NEW x \in End, NEW point \in {"exit", "stopped"}, Quit(x, point),
             loop[x].at \in {"select", "down"}
      PROVE  /\ drops' = drops
             /\ writer'[e] = "run" => writer[e] = "run"
             /\ loop'[e].at # "stopped" => loop[e].at # "stopped"
  BY <1>3 DEF Quit, Goto, At, TypeOK
<1>4. ASSUME NEW x \in End, Session(x)
      PROVE  /\ drops' = drops
             /\ writer'[e] = "run" => writer[e] = "run"
             /\ loop'[e].at # "stopped" => loop[e].at # "stopped"
  <2>1. CASE DeviceClosed(x)
    BY <1>3, <2>1 DEF DeviceClosed
  <2>2. CASE ~DeviceClosed(x)
    BY <1>4, <2>2 DEF Session, Connect, SendChunk, LoseChunk, NoticeDrop, Recv, Deliver, Discard,
                      Goto, At, TypeOK
  <2> QED BY <2>1, <2>2
<1>5. ASSUME NEW x \in End, DropLink(x)
      PROVE  drops' # 0 /\ writer' = writer /\ loop' = loop
  BY <1>5 DEF DropLink, TypeOK
<1> QED BY <1>1, <1>2, <1>3, <1>4, <1>5 DEF Next, CtrlC

LEMMA LinkedInit == InitReady => Linked
BY DEF InitReady, InitLinks, Linked, Gone, At

LEMMA LinkedNext == TypeOK /\ Linked /\ [Next]_vars => Linked'
<1> SUFFICES ASSUME TypeOK, Linked, [Next]_vars, NEW e \in End
             PROVE  /\ Gone(e)' => writer'[e] = "done"
                    /\ drops' = 0 => link'[e] \/ Gone(e)'
  BY DEF Linked
<1> USE DEF deviceVars
<1>0. (Gone(e) => writer[e] = "done") /\ (drops = 0 => link[e] \/ Gone(e))
  BY DEF Linked
<1>1. CASE UNCHANGED vars
  BY <1>0, <1>1 DEF vars, Gone
<1>2. ASSUME NEW x \in End, Device(x) \/ Reader(x) \/ Writer(x)
      PROVE  /\ drops' = drops /\ loop' = loop /\ link' = link
             /\ writer[e] = "done" => writer'[e] = "done"
  BY <1>2 DEF Device, DeviceEof, DeviceEio, Reader, ReadChunk, ReadEof, Writer, WriteChunk,
              WriteFailed, TypeOK
<1>3. ASSUME NEW x \in End, NEW point \in {"exit", "stopped"}, Quit(x, point)
      PROVE  /\ Gone(e)' => writer'[e] = "done"
             /\ drops' = 0 => link'[e] \/ Gone(e)'
  <2>1. CASE x = e
    BY <1>3, <2>1 DEF Quit, Goto, At, Gone, TypeOK
  <2>2. CASE x # e
    BY <1>0, <1>3, <2>2 DEF Quit, Goto, At, Gone, TypeOK
  <2> QED BY <2>1, <2>2
<1>4. ASSUME NEW x \in End, Session(x), ~DeviceClosed(x)
      PROVE  /\ drops' = drops /\ writer' = writer /\ (link[e] => link'[e])
             /\ Gone(e)' <=> Gone(e)
  BY <1>4 DEF Session, Connect, SendChunk, LoseChunk, NoticeDrop, Recv, Deliver, Discard,
              Goto, At, Gone, TypeOK
<1>5. ASSUME NEW x \in End, DropLink(x)
      PROVE  drops' # 0 /\ writer' = writer /\ loop' = loop
  BY <1>5 DEF DropLink, TypeOK
<1>6. CASE Next
  BY <1>0, <1>2, <1>3, <1>4, <1>5, <1>6 DEF Next, CtrlC, DeviceClosed, Gone
<1> QED BY <1>1, <1>6

Counted(n) == [k \in 1 .. n |-> k]

LEMMA CountedAppend == ASSUME NEW n \in Nat PROVE Append(Counted(n), n + 1) = Counted(n + 1)
<1>1. Counted(n) \in Seq(Nat) /\ Len(Counted(n)) = n
  BY DEF Counted
<1>2. Counted(n + 1) \in Seq(Nat) /\ Len(Counted(n + 1)) = n + 1
  BY DEF Counted
<1> DEFINE a == Append(Counted(n), n + 1)
<1>3. a \in Seq(Nat) /\ Len(a) = n + 1
      /\ (\A i \in 1 .. n : a[i] = Counted(n)[i]) /\ a[n + 1] = n + 1
  BY <1>1, AppendProperties
<1>4. (\A i \in 1 .. n : Counted(n)[i] = i) /\ (\A i \in 1 .. n + 1 : Counted(n + 1)[i] = i)
  BY DEF Counted
<1> HIDE DEF a
<1>5. \A i \in 1 .. n + 1 : a[i] = Counted(n + 1)[i]
  <2> SUFFICES ASSUME NEW i \in 1 .. n + 1 PROVE a[i] = Counted(n + 1)[i]
    OBVIOUS
  <2>1. i \in 1 .. n \/ i = n + 1
    OBVIOUS
  <2> QED BY <1>3, <1>4, <2>1
<1>6. a = Counted(n + 1)
  BY <1>2, <1>3, <1>5, SeqEqual
<1> QED BY <1>6 DEF a

LEMMA EmptyJourney == ASSUME NEW up \in BOOLEAN, InitLinks(up), NEW e \in End
                      PROVE  Journey(e) = <<>> /\ read[e] = 0
<1>1. /\ wrote[Other(e)] = <<>> /\ netQ[Other(e)] = <<>> /\ InHand(Other(e)) = <<>>
      /\ wire[Other(e)] = <<>> /\ devQ[e] = <<>> /\ read[e] = 0
  BY Others DEF InitLinks, InHand, At
<1>2. <<>> \o <<>> = <<>>
  BY ConcatEmptySeq
<1> QED BY <1>1, <1>2 DEF Journey

LEMMA NothingLostInit == InitReady => NothingLost
<1> SUFFICES ASSUME InitReady, NEW e \in End PROVE Journey(e) = [k \in 1 .. read[e] |-> k]
  BY DEF NothingLost
<1>1. Journey(e) = <<>> /\ read[e] = 0
  BY EmptyJourney DEF InitReady
<1> QED BY <1>1

LEMMA NothingLostNext == TypeOK /\ Linked /\ NothingLost /\ [Next]_vars => NothingLost'
<1> SUFFICES ASSUME TypeOK, Linked, NothingLost, [Next]_vars, NEW e \in End,
                    drops' = 0, writer'[Other(e)] = "run", loop'[e].at # "stopped"
             PROVE  Journey(e)' = Counted(read'[e])
  BY DEF NothingLost, Counted
<1>1. Journey(e) = Counted(read[e])
  BY Spoiled, Others DEF NothingLost, Counted
<1>2. ~Lost(e) /\ read[e] \in Nat
  BY DEF Lost, TypeOK
<1>3. Kept(e) \/ Read(e)
  BY <1>2, MovedNext DEF Moved
<1> QED BY <1>1, <1>2, <1>3, CountedAppend DEF Kept, Read

\* Without link failures no byte is lost or reordered between two running
\* bridges (net_tx.send(..).await and blocking_send wait for room, main.rs:561-562).
THEOREM NothingLostAlways == ReadySpec => []NothingLost
<1>1. InitReady => TypeOK /\ Linked /\ NothingLost
  BY InitialTypes, LinkedInit, NothingLostInit
<1>2. TypeOK /\ Linked /\ NothingLost /\ [Next]_vars => (TypeOK /\ Linked /\ NothingLost)'
  BY TypeNext, LinkedNext, NothingLostNext
<1> QED BY <1>1, <1>2, PTL DEF ReadySpec

-----------------------------------------------------------------------------
(* The bridge keeps the promise of a single connection.                    *)

Ordered == \A e \in End : InOrder(Journey(e), read[e])

LEMMA OrderedInit == (Init \/ InitReady) => Ordered
<1> SUFFICES ASSUME NEW up \in BOOLEAN, InitLinks(up), NEW e \in End
             PROVE  InOrder(Journey(e), read[e])
  BY DEF Init, InitReady, Ordered
<1>1. Journey(e) = <<>>
  BY EmptyJourney
<1> QED BY <1>1 DEF InOrder

LEMMA OrderedNext == TypeOK /\ Ordered /\ [Next]_vars => Ordered'
<1> SUFFICES ASSUME TypeOK, Ordered, [Next]_vars, NEW e \in End
             PROVE  InOrder(Journey(e)', read'[e])
  BY DEF Ordered
<1>1. InOrder(Journey(e), read[e]) /\ read[e] \in Nat
  BY DEF Ordered, TypeOK
<1>2. CASE Kept(e)
  BY <1>1, <1>2 DEF Kept
<1>3. CASE Read(e)
  <2>1. Journey(e) \in Seq(Chunk)
    BY Pieces, Others, AlongType DEF Journey, Along
  <2>2. Journey(e) \in Seq(Nat)
    <3>1. Chunk \subseteq Nat
      BY DEF Chunk
    <3> HIDE DEF Chunk
    <3>2. \A i \in 1 .. Len(Journey(e)) : Journey(e)[i] \in Nat
      BY <2>1, <3>1, ElementOfSeq
    <3>3. Journey(e) = [i \in 1 .. Len(Journey(e)) |-> Journey(e)[i]] /\ Len(Journey(e)) \in Nat
      BY <2>1, LenProperties
    <3> QED BY <3>2, <3>3
  <2> QED BY <1>1, <1>3, <2>2, AppendInOrder DEF Read
<1>4. CASE Lost(e)
  BY <1>1, <1>4, FewerInOrder DEF Lost
<1> QED BY <1>2, <1>3, <1>4, MovedNext DEF Moved

\* The chunks written at e, as the promise names them.
Given(w) == [k \in DOMAIN w |-> [conn |-> "line", n |-> w[k]]]
GivenChunk == [conn : {"line"}, n : Chunk]

LEMMA GivenAppend ==
  ASSUME NEW w \in Seq(Chunk), NEW n \in Chunk
  PROVE  /\ Given(w) \in Seq(GivenChunk) /\ Len(Given(w)) = Len(w)
         /\ Given(Append(w, n)) = Append(Given(w), [conn |-> "line", n |-> n])
<1> DEFINE x == [conn |-> "line", n |-> n]
           a == Append(w, n)
<1>1. Len(w) \in Nat /\ \A i \in 1 .. Len(w) : w[i] \in Chunk
  BY LenProperties, ElementOfSeq
<1>2. /\ DOMAIN w = 1 .. Len(w) /\ a \in Seq(Chunk) /\ DOMAIN a = 1 .. Len(w) + 1
      /\ (\A i \in 1 .. Len(w) : a[i] = w[i]) /\ a[Len(w) + 1] = n
  BY <1>1, AppendProperties, LenProperties
<1> HIDE DEF a
<1>3. Given(w) \in Seq(GivenChunk) /\ Len(Given(w)) = Len(w)
      /\ \A i \in 1 .. Len(w) : Given(w)[i] = [conn |-> "line", n |-> w[i]]
  BY <1>1, <1>2 DEF Given, GivenChunk
<1>4. /\ Given(a) \in Seq(GivenChunk) /\ Len(Given(a)) = Len(w) + 1
      /\ \A i \in 1 .. Len(w) + 1 : Given(a)[i] = [conn |-> "line", n |-> a[i]]
  <2>1. \A i \in 1 .. Len(w) + 1 : a[i] \in Chunk
    BY <1>2, LenProperties, ElementOfSeq
  <2> QED BY <1>1, <1>2, <2>1 DEF Given, GivenChunk
<1>5. x \in GivenChunk
  BY DEF GivenChunk
<1> DEFINE b == Append(Given(w), x)
<1> HIDE DEF x
<1>6. /\ b \in Seq(GivenChunk) /\ Len(b) = Len(w) + 1
      /\ (\A i \in 1 .. Len(w) : b[i] = Given(w)[i]) /\ b[Len(w) + 1] = x
  BY <1>3, <1>5, AppendProperties
<1> HIDE DEF b
<1>7. \A i \in 1 .. Len(w) + 1 : Given(a)[i] = b[i]
  <2> SUFFICES ASSUME NEW i \in 1 .. Len(w) + 1 PROVE Given(a)[i] = b[i]
    OBVIOUS
  <2>1. i \in 1 .. Len(w) \/ i = Len(w) + 1
    BY <1>1
  <2>2. CASE i \in 1 .. Len(w)
    BY <1>2, <1>3, <1>4, <1>6, <2>2
  <2>3. CASE i = Len(w) + 1
    BY <1>2, <1>4, <1>6, <2>3 DEF x
  <2> QED BY <2>1, <2>2, <2>3
<1>8. Given(a) = b
  BY <1>4, <1>6, <1>7, SeqEqual
<1> QED BY <1>3, <1>8 DEF a, b, x

SentLine == [e \in End |-> [c \in {"line"} |-> read[e]]]
GotLine  == [e \in End |-> [c \in {"line"} |->
              [k \in DOMAIN wrote[e] |-> [conn |-> c, n |-> wrote[e][k]]]]]

LEMMA GotLineIs == \A e \in End : GotLine[e]["line"] = Given(wrote[e])
BY DEF GotLine, Given

LEMMA PeerIsOther == \A e \in End : Line!Peer(e) = Other(e)
BY DEF Line!Peer, Other, End

\* u starts with w, and c comes next.
StartsWith(u, w, c) ==
  /\ Len(u) \in Nat /\ Len(u) >= Len(w) + 1 /\ u[Len(w) + 1] = c
  /\ \A i \in 1 .. Len(w) : u[i] = w[i]

LEMMA StartsConcat ==
  ASSUME NEW S, NEW u \in Seq(S), NEW z \in Seq(S), NEW w \in Seq(S), NEW c,
         StartsWith(u, w, c)
  PROVE  u \o z \in Seq(S) /\ StartsWith(u \o z, w, c)
<1>1. /\ u \o z \in Seq(S) /\ Len(u \o z) = Len(u) + Len(z)
      /\ \A i \in 1 .. Len(u) + Len(z) :
           (u \o z)[i] = IF i <= Len(u) THEN u[i] ELSE z[i - Len(u)]
  BY ConcatProperties
<1>2. Len(u) \in Nat /\ Len(z) \in Nat /\ Len(w) \in Nat
  BY LenProperties
<1>3. /\ Len(w) + 1 \in 1 .. Len(u) + Len(z) /\ Len(w) + 1 <= Len(u)
      /\ \A i \in 1 .. Len(w) : i \in 1 .. Len(u) + Len(z) /\ i <= Len(u)
  BY <1>2 DEF StartsWith
<1> QED BY <1>1, <1>2, <1>3 DEF StartsWith

LEMMA AlongStarts ==
  ASSUME NEW S, NEW w \in Seq(S), NEW n \in Seq(S), NEW h \in Seq(S), NEW x \in Seq(S),
         NEW q \in Seq(S), n # <<>>
  PROVE  StartsWith(Along(w, n, h, x, q), w, Head(n))
<1>1. Len(w) \in Nat /\ Len(n) \in Nat /\ Len(n) # 0 /\ n[1] = Head(n)
  BY LenProperties, EmptySeq, HeadTailProperties
<1>2. /\ w \o n \in Seq(S) /\ Len(w \o n) = Len(w) + Len(n)
      /\ \A i \in 1 .. Len(w) + Len(n) :
           (w \o n)[i] = IF i <= Len(w) THEN w[i] ELSE n[i - Len(w)]
  BY ConcatProperties
<1>3. /\ (w \o n)[Len(w) + 1] = Head(n)
      /\ \A i \in 1 .. Len(w) : (w \o n)[i] = w[i]
  BY <1>1, <1>2
<1>4. StartsWith(w \o n, w, Head(n))
  BY <1>1, <1>2, <1>3 DEF StartsWith
<1>5. w \o n \o h \in Seq(S) /\ StartsWith(w \o n \o h, w, Head(n))
  BY <1>2, <1>4, StartsConcat
<1>6. w \o n \o h \o x \in Seq(S) /\ StartsWith(w \o n \o h \o x, w, Head(n))
  BY <1>5, StartsConcat
<1> QED BY <1>6, StartsConcat DEF Along

\* The chunk the writer thread takes next was read at the other end, after all
\* those already written.
LEMMA NextInOrder ==
  ASSUME TypeOK, Ordered, NEW x \in End, netQ[x] # <<>>
  PROVE  /\ Head(netQ[x]) \in Chunk /\ Head(netQ[x]) <= read[Other(x)]
         /\ \A i \in 1 .. Len(wrote[x]) : wrote[x][i] < Head(netQ[x])
<1> DEFINE e == Other(x)
           j == Journey(e)
<1>1. e \in End /\ Other(e) = x
  BY Others
<1>2. /\ wrote[x] \in Seq(Chunk) /\ netQ[x] \in Seq(Chunk) /\ InHand(x) \in Seq(Chunk)
      /\ wire[x] \in Seq(Chunk) /\ devQ[e] \in Seq(Chunk)
  BY <1>1, Pieces
<1>3. j = Along(wrote[x], netQ[x], InHand(x), wire[x], devQ[e])
  BY <1>1, JourneyAlong
<1> HIDE DEF e, j
<1>4. StartsWith(j, wrote[x], Head(netQ[x]))
  BY <1>2, <1>3, AlongStarts
<1>5. InOrder(j, read[e])
  BY <1>1 DEF Ordered, j
<1>6. Head(netQ[x]) \in Chunk /\ Len(wrote[x]) \in Nat
  BY <1>2, HeadTailProperties, LenProperties
<1>7. Len(wrote[x]) + 1 \in 1 .. Len(j) /\ \A i \in 1 .. Len(wrote[x]) : i \in 1 .. Len(j)
  BY <1>4, <1>6 DEF StartsWith
<1>8. Head(netQ[x]) <= read[e]
  BY <1>4, <1>5, <1>7 DEF StartsWith, InOrder
<1>9. \A i \in 1 .. Len(wrote[x]) : wrote[x][i] < Head(netQ[x])
  <2> SUFFICES ASSUME NEW i \in 1 .. Len(wrote[x]) PROVE wrote[x][i] < Head(netQ[x])
    OBVIOUS
  <2>1. i < Len(wrote[x]) + 1
    BY <1>6
  <2>2. j[i] < j[Len(wrote[x]) + 1]
    BY <1>5, <1>7, <2>1 DEF InOrder
  <2> QED BY <1>4, <2>2 DEF StartsWith
<1> QED BY <1>6, <1>8, <1>9 DEF e

LEMMA LineSend ==
  ASSUME TypeOK, NEW x \in End, ReadChunk(x)
  PROVE  Line!Send(x, "line")
<1>1. SentLine' = [SentLine EXCEPT ![x]["line"] = @ + 1]
  BY DEF ReadChunk, SentLine, TypeOK
<1>2. GotLine' = GotLine
  BY DEF ReadChunk, GotLine
<1> QED BY <1>1, <1>2 DEF Line!Send, SentLine, GotLine

LEMMA LineDeliver ==
  ASSUME TypeOK, Ordered, NEW x \in End, WriteChunk(x)
  PROVE  Line!Deliver(x, "line")
<1> DEFINE n == Head(netQ[x])
           w == wrote[x]
           g == Given(w)
<1>1. netQ[x] # <<>> /\ wrote' = [wrote EXCEPT ![x] = Append(w, n)] /\ read' = read
  BY DEF WriteChunk
<1>2. n \in Chunk /\ n <= read[Other(x)] /\ \A i \in 1 .. Len(w) : w[i] < n
  BY <1>1, NextInOrder
<1>3. w \in Seq(Chunk) /\ wrote'[x] = Append(w, n) /\ \A e \in End : e # x => wrote'[e] = wrote[e]
  BY <1>1 DEF TypeOK
<1>4. Len(w) \in Nat /\ (\A i \in 1 .. Len(w) : w[i] \in Chunk) /\ (w = <<>> <=> Len(w) = 0)
  BY <1>3, LenProperties, ElementOfSeq, EmptySeq
<1> HIDE DEF n, w
<1>5. /\ g \in Seq(GivenChunk) /\ Len(g) = Len(w)
      /\ Given(Append(w, n)) = Append(g, [conn |-> "line", n |-> n])
  BY <1>2, <1>3, GivenAppend
<1>6. GotLine[x]["line"] = g
  BY GotLineIs DEF w
<1>7. GotLine' = [GotLine EXCEPT ![x]["line"] = Append(@, [conn |-> "line", n |-> n])]
  <2>1. \A e \in End : GotLine'[e]["line"] = Given(wrote'[e])
    BY DEF GotLine, Given
  <2>2. GotLine'[x]["line"] = Append(g, [conn |-> "line", n |-> n])
    BY <1>3, <1>5, <2>1
  <2>3. \A e \in End : e # x => GotLine'[e] = GotLine[e]
    BY <1>3 DEF GotLine
  <2>4. /\ GotLine' = [e \in End |-> GotLine'[e]] /\ GotLine = [e \in End |-> GotLine[e]]
        /\ DOMAIN GotLine = End
        /\ \A e \in End : GotLine[e] = [c \in {"line"} |-> GotLine[e]["line"]]
        /\ \A e \in End : GotLine'[e] = [c \in {"line"} |-> GotLine'[e]["line"]]
    BY DEF GotLine
  <2> DEFINE p == GotLine'
             q == GotLine
             b == Append(g, [conn |-> "line", n |-> n])
  <2>5. /\ p[x]["line"] = b /\ (\A e \in End : e # x => p[e] = q[e])
        /\ p = [e \in End |-> p[e]] /\ q = [e \in End |-> q[e]] /\ DOMAIN q = End
        /\ (\A e \in End : q[e] = [c \in {"line"} |-> q[e]["line"]])
        /\ (\A e \in End : p[e] = [c \in {"line"} |-> p[e]["line"]])
    BY <2>2, <2>3, <2>4
  <2> HIDE DEF p, q, b
  <2>6. p = [q EXCEPT ![x]["line"] = b]
    BY <2>5
  <2>7. b = Append(q[x]["line"], [conn |-> "line", n |-> n])
    BY <1>6 DEF b, q
  <2> QED BY <2>6, <2>7 DEF p, q
<1>8. SentLine' = SentLine /\ SentLine[Other(x)]["line"] = read[Other(x)]
  BY <1>1, Others DEF SentLine
<1>9. (IF g = <<>> THEN 0 ELSE g[Len(g)].n) < n
  <2>1. CASE Len(w) = 0
    BY <1>2, <1>4, <1>5, <2>1 DEF Given, Chunk
  <2>2. CASE Len(w) # 0
    <3>1. Len(w) \in 1 .. Len(w) /\ w[Len(w)] < n
      BY <1>2, <1>4, <2>2
    <3>2. g[Len(w)] = [conn |-> "line", n |-> w[Len(w)]]
      BY <1>3, <3>1 DEF Given
    <3>3. g # <<>>
      BY <1>5, <2>2
    <3> QED BY <1>5, <3>1, <3>2, <3>3
  <2> QED BY <2>1, <2>2
<1>10. Line!LastGot(x, "line") = IF g = <<>> THEN 0 ELSE g[Len(g)].n
  BY <1>6 DEF Line!LastGot, GotLine
<1>11. n \in Line!LastGot(x, "line") + 1 .. read[Other(x)]
  <2>1. (IF g = <<>> THEN 0 ELSE g[Len(g)].n) \in Nat
    BY <1>3, <1>4, <1>5 DEF Given, Chunk
  <2> QED BY <1>2, <1>9, <1>10, <2>1 DEF Chunk
<1> QED BY <1>7, <1>8, <1>11, PeerIsOther DEF Line!Deliver, SentLine, GotLine

LEMMA LineStutter ==
  ASSUME read' = read, wrote' = wrote
  PROVE  UNCHANGED <<SentLine, GotLine>>
BY DEF SentLine, GotLine

LEMMA LineNext ==
  TypeOK /\ Ordered /\ [Next]_vars => [Line!Next]_<<SentLine, GotLine>>
<1> SUFFICES ASSUME TypeOK, Ordered, [Next]_vars
             PROVE  Line!Next \/ UNCHANGED <<SentLine, GotLine>>
  OBVIOUS
<1> USE DEF deviceVars
<1>1. CASE UNCHANGED vars
  BY <1>1, LineStutter DEF vars
<1>2. ASSUME NEW x \in End, ReadChunk(x) \/ WriteChunk(x)
      PROVE  Line!Next
  BY <1>2, LineSend, LineDeliver DEF Line!Next
<1>3. ASSUME NEW x \in End, Device(x) \/ ReadEof(x) \/ WriteFailed(x) \/ DropLink(x)
      PROVE  read' = read /\ wrote' = wrote
  BY <1>3 DEF Device, DeviceEof, DeviceEio, ReadEof, WriteFailed, DropLink
<1>4. ASSUME NEW x \in End, Session(x) \/ CtrlC(x)
      PROVE  read' = read /\ wrote' = wrote
  BY <1>4 DEF Session, Connect, SendChunk, LoseChunk, NoticeDrop, Recv, Deliver, Discard,
              DeviceClosed, CtrlC, Quit
<1>5. CASE Next
  BY <1>2, <1>3, <1>4, <1>5, LineStutter DEF Next, Reader, Writer
<1> QED BY <1>1, <1>5

LEMMA LineInit == (Init \/ InitReady) => Line!Init
<1> SUFFICES ASSUME NEW up \in BOOLEAN, InitLinks(up) PROVE Line!Init
  BY DEF Init, InitReady
<1>1. SentLine = [e \in End |-> [c \in {"line"} |-> 0]]
  BY DEF InitLinks, SentLine
<1>2. GotLine = [e \in End |-> [c \in {"line"} |-> <<>>]]
  <2>1. \A e \in End : wrote[e] = <<>>
    BY DEF InitLinks
  <2>2. \A c \in {"line"} : [k \in DOMAIN <<>> |-> [conn |-> c, n |-> <<>>[k]]] = <<>>
    OBVIOUS
  <2> QED BY <2>1, <2>2 DEF GotLine
<1> QED BY <1>1, <1>2 DEF Line!Init, SentLine, GotLine

\* Whatever fails, the bytes written at one end are bytes read at the other, in
\* order, none twice: the bridge implements the promise of a single connection,
\* from a cold start and from two connected ends alike.
THEOREM BridgeKeepsItsPromise == (Spec => LineKept) /\ (ReadySpec => LineKept)
<1>1. (Init \/ InitReady) => TypeOK /\ Ordered /\ Line!Init
  BY InitialTypes, OrderedInit, LineInit
<1>2. TypeOK /\ Ordered /\ [Next]_vars => (TypeOK /\ Ordered)' /\ [Line!Next]_(Line!vars)
  BY TypeNext, OrderedNext, LineNext DEF Line!vars, SentLine, GotLine
<1> QED BY <1>1, <1>2, PTL DEF Spec, ReadySpec, LineKept, Line!Spec
===============================================================================
