----------------------- MODULE BufferingFlowDataProofs -----------------------
(***************************************************************************)
(* Proofs about what BufferingFlow (bufferingflow.go) hands to the         *)
(* underlying flow, for every value of the constants: every batch fits the *)
(* MTU or is a single payload, payloads arrive in the order they were      *)
(* written, and a payload accepted without error is sent or still          *)
(* buffered.                                                               *)
(*                                                                         *)
(* BytesOf and Delivered are recursive functions.  What they return after  *)
(* an Append is proved by showing that the function the definition         *)
(* denotes exists and is unique; both facts are a least counterexample,    *)
(* by the well-foundedness of < on Nat.                                    *)
(***************************************************************************)
EXTENDS BufferingFlowProofs, SequenceTheorems, WellFoundedInduction

-----------------------------------------------------------------------------
(* BytesOf: the recursive function f of its definition, and its value.    *)

\* The body of f in BytesOf.
BytesBody(f, s, i) == IF i = 0 THEN 0 ELSE f[i - 1] + s[i].size

\* The function the definition of f denotes.
BytesFcn(s) == CHOOSE f : f = [i \in 0 .. Len(s) |-> BytesBody(f, s, i)]

\* One payload's size is a number.
LEMMA PayloadSize ==
    ASSUME NEW s \in Seq(Payload), NEW i \in 1 .. Len(s)
    PROVE  s[i].size \in Nat
<1>1. s[i] \in Payload
  BY ElementOfSeq
<1>2. Sizes \subseteq Nat
  BY BufferingFlowAssumption
<1>3. QED
  BY <1>1, <1>2 DEF Payload

LEMMA BytesUnfold == ASSUME NEW s PROVE BytesOf(s) = BytesFcn(s)[Len(s)]
BY DEF BytesOf, BytesFcn, BytesBody

\* For every prefix length n there is a function satisfying the recursion
\* up to n: a least n without one would extend the function for n - 1.
LEMMA BytesExists ==
    ASSUME NEW s \in Seq(Payload)
    PROVE  \E g \in [0 .. Len(s) -> Nat] : g = [i \in 0 .. Len(s) |-> BytesBody(g, s, i)]
<1> DEFINE N == Len(s)
           Good(n) == \E g \in [0 .. n -> Nat] : \A i \in 0 .. n : g[i] = BytesBody(g, s, i)
           Bad == {n \in 0 .. N : ~Good(n)}
<1>1. N \in Nat
  BY LenProperties
<1>2. Bad = {}
  <2>1. SUFFICES ASSUME Bad # {} PROVE FALSE
    OBVIOUS
  <2>2. IsWellFoundedOn(OpToRel(<, Nat), Nat)
    BY NatLessThanWellFounded
  <2>3. Bad \subseteq Nat
    BY <1>1
  <2>4. PICK n \in Bad : \A y \in Bad : ~(<<y, n>> \in OpToRel(<, Nat))
    BY <2>1, <2>2, <2>3, WFMin, Zenon
  <2>5. CASE n = 0
    <3> DEFINE g0 == [i \in 0 .. 0 |-> 0]
    <3>1. g0 \in [0 .. 0 -> Nat] /\ \A i \in 0 .. 0 : g0[i] = BytesBody(g0, s, i)
      BY DEF BytesBody
    <3>2. Good(0)
      BY <3>1
    <3>3. QED
      BY <2>4, <2>5, <3>2
  <2>6. CASE n # 0
    <3>1. n \in 1 .. N /\ n - 1 \in 0 .. N
      BY <1>1, <2>6
    <3>2. n - 1 \notin Bad
      <4>1. n - 1 \in Nat /\ n \in Nat /\ n - 1 < n
        BY <3>1
      <4>2. <<n - 1, n>> \in OpToRel(<, Nat)
        BY <4>1, Zenon DEF OpToRel
      <4>3. QED
        BY <2>4, <4>2, Zenon
    <3>3. PICK g \in [0 .. n - 1 -> Nat] : \A i \in 0 .. n - 1 : g[i] = BytesBody(g, s, i)
      BY <3>1, <3>2
    <3>4. s[n].size \in Nat
      BY <3>1, PayloadSize
    <3> DEFINE h == [i \in 0 .. n |-> IF i < n THEN g[i] ELSE g[n - 1] + s[n].size]
    <3>5. h \in [0 .. n -> Nat]
      BY <3>1, <3>3, <3>4
    <3>6. \A i \in 0 .. n - 1 : h[i] = BytesBody(h, s, i)
      BY <3>1, <3>3 DEF BytesBody
    <3>7. h[n] = BytesBody(h, s, n)
      BY <3>1, <3>3 DEF BytesBody
    <3>8. Good(n)
      <4>1. \A i \in 0 .. n : h[i] = BytesBody(h, s, i)
        BY <3>1, <3>6, <3>7
      <4>2. QED
        BY <3>5, <4>1
    <3>9. QED
      BY <2>4, <3>8
  <2>7. QED
    BY <2>5, <2>6
<1>3. PICK g \in [0 .. N -> Nat] : \A i \in 0 .. N : g[i] = BytesBody(g, s, i)
  BY <1>1, <1>2
<1>4. g = [i \in 0 .. N |-> BytesBody(g, s, i)]
  BY <1>3
<1>5. QED
  BY <1>3, <1>4

\* Two functions satisfying the recursion agree: a least position where
\* they differ is not 0, and at it both add the same size to equal values.
LEMMA BytesUnique ==
    ASSUME NEW s \in Seq(Payload), NEW g1, NEW g2,
           g1 = [i \in 0 .. Len(s) |-> BytesBody(g1, s, i)],
           g2 = [i \in 0 .. Len(s) |-> BytesBody(g2, s, i)]
    PROVE  g1 = g2
<1> DEFINE N == Len(s)
           Bad == {i \in 0 .. N : g1[i] # g2[i]}
<1>1. N \in Nat
  BY LenProperties
<1>2. Bad = {}
  <2>1. SUFFICES ASSUME Bad # {} PROVE FALSE
    OBVIOUS
  <2>2. IsWellFoundedOn(OpToRel(<, Nat), Nat)
    BY NatLessThanWellFounded
  <2>3. Bad \subseteq Nat
    BY <1>1
  <2>4. PICK n \in Bad : \A y \in Bad : ~(<<y, n>> \in OpToRel(<, Nat))
    BY <2>1, <2>2, <2>3, WFMin, Zenon
  <2>5. \A i \in 0 .. N : g1[i] = BytesBody(g1, s, i) /\ g2[i] = BytesBody(g2, s, i)
    OBVIOUS
  <2>6. CASE n = 0
    BY <2>4, <2>5, <2>6 DEF BytesBody
  <2>7. CASE n # 0
    <3>1. n \in 1 .. N /\ n - 1 \in 0 .. N
      BY <1>1, <2>7
    <3>2. n - 1 \notin Bad
      <4>1. n - 1 \in Nat /\ n \in Nat /\ n - 1 < n
        BY <3>1
      <4>2. <<n - 1, n>> \in OpToRel(<, Nat)
        BY <4>1, Zenon DEF OpToRel
      <4>3. QED
        BY <2>4, <4>2, Zenon
    <3>3. g1[n - 1] = g2[n - 1]
      BY <3>1, <3>2
    <3>4. QED
      BY <2>4, <2>5, <3>1, <3>3 DEF BytesBody
  <2>8. QED
    BY <2>6, <2>7
<1>3. QED
  BY <1>2

\* The function BytesOf reads is well defined and counts in Nat.
LEMMA BytesFcnDef ==
    ASSUME NEW s \in Seq(Payload)
    PROVE  /\ BytesFcn(s) \in [0 .. Len(s) -> Nat]
           /\ BytesFcn(s) = [i \in 0 .. Len(s) |-> BytesBody(BytesFcn(s), s, i)]
<1>1. PICK g \in [0 .. Len(s) -> Nat] : g = [i \in 0 .. Len(s) |-> BytesBody(g, s, i)]
  BY BytesExists
<1>2. BytesFcn(s) = [i \in 0 .. Len(s) |-> BytesBody(BytesFcn(s), s, i)]
  BY <1>1 DEF BytesFcn
<1>3. BytesFcn(s) = g
  BY <1>1, <1>2, BytesUnique
<1>4. QED
  BY <1>1, <1>2, <1>3

\* The empty buffer holds no bytes.
LEMMA BytesOfEmpty == BytesOf(<<>>) = 0
<1>1. <<>> \in Seq(Payload)
  BY EmptySeq
<1>2. BytesFcn(<<>>) = [i \in 0 .. 0 |-> BytesBody(BytesFcn(<<>>), <<>>, i)]
  BY <1>1, BytesFcnDef
<1>3. QED
  BY <1>2, BytesUnfold DEF BytesBody

\* Appending a payload adds its size.
LEMMA BytesOfAppend ==
    ASSUME NEW s \in Seq(Payload), NEW d \in Payload
    PROVE  /\ BytesOf(s) \in Nat
           /\ BytesOf(Append(s, d)) = BytesOf(s) + d.size
<1> DEFINE N == Len(s)
           t == Append(s, d)
           f == BytesFcn(s)
           h == [i \in 0 .. N + 1 |-> IF i <= N THEN f[i] ELSE f[N] + d.size]
<1>1. N \in Nat /\ t \in Seq(Payload) /\ Len(t) = N + 1 /\ t[N + 1] = d
      /\ \A i \in 1 .. N : t[i] = s[i]
  BY LenProperties, AppendProperties
<1>2. f \in [0 .. N -> Nat] /\ f = [i \in 0 .. N |-> BytesBody(f, s, i)]
  BY BytesFcnDef
<1>3. h = [i \in 0 .. Len(t) |-> BytesBody(h, t, i)]
  <2>1. \A i \in 0 .. N : h[i] = BytesBody(h, t, i)
    BY <1>1, <1>2 DEF BytesBody
  <2>2. h[N + 1] = BytesBody(h, t, N + 1)
    BY <1>1 DEF BytesBody
  <2>3. QED
    BY <1>1, <2>1, <2>2
<1>4. BytesFcn(t) = h
  <2>1. BytesFcn(t) = [i \in 0 .. Len(t) |-> BytesBody(BytesFcn(t), t, i)]
    BY <1>1, BytesFcnDef
  <2>2. QED
    BY <1>1, <1>3, <2>1, BytesUnique
<1>5. BytesOf(s) = f[N] /\ BytesOf(t) = BytesFcn(t)[Len(t)]
  BY BytesUnfold
<1>6. QED
  BY <1>1, <1>2, <1>4, <1>5

-----------------------------------------------------------------------------
(* Delivered: the recursive function f of its definition, and its value.  *)

\* Delivered over any sequence of sent chunks.
DeliveredOf(s) ==
    LET f[i \in 0..Len(s)] == IF i = 0 THEN <<>> ELSE f[i - 1] \o s[i].data
    IN  f[Len(s)]

\* The body of f in Delivered.
DelivBody(f, s, i) == IF i = 0 THEN <<>> ELSE f[i - 1] \o s[i].data

\* The function the definition of f denotes.
DelivFcn(s) == CHOOSE f : f = [i \in 0 .. Len(s) |-> DelivBody(f, s, i)]

LEMMA DeliveredIsOf == Delivered = DeliveredOf(sent) /\ Delivered' = DeliveredOf(sent')
BY DEF Delivered, DeliveredOf

LEMMA DeliveredUnfold == ASSUME NEW s PROVE DeliveredOf(s) = DelivFcn(s)[Len(s)]
BY DEF DeliveredOf, DelivFcn, DelivBody

\* One chunk's data is a sequence of payloads.
LEMMA ChunkData ==
    ASSUME NEW s \in Seq(Chunk), NEW i \in 1 .. Len(s)
    PROVE  s[i].data \in Seq(Payload)
<1>1. s[i] \in Chunk
  BY ElementOfSeq
<1>2. QED
  BY <1>1 DEF Chunk

\* For every prefix length n there is a function satisfying the recursion
\* up to n: a least n without one would extend the function for n - 1.
LEMMA DelivExists ==
    ASSUME NEW s \in Seq(Chunk)
    PROVE  \E g \in [0 .. Len(s) -> Seq(Payload)] :
              g = [i \in 0 .. Len(s) |-> DelivBody(g, s, i)]
<1> DEFINE N == Len(s)
           Good(n) == \E g \in [0 .. n -> Seq(Payload)] :
                        \A i \in 0 .. n : g[i] = DelivBody(g, s, i)
           Bad == {n \in 0 .. N : ~Good(n)}
<1>1. N \in Nat
  BY LenProperties
<1>2. Bad = {}
  <2>1. SUFFICES ASSUME Bad # {} PROVE FALSE
    OBVIOUS
  <2>2. IsWellFoundedOn(OpToRel(<, Nat), Nat)
    BY NatLessThanWellFounded
  <2>3. Bad \subseteq Nat
    BY <1>1
  <2>4. PICK n \in Bad : \A y \in Bad : ~(<<y, n>> \in OpToRel(<, Nat))
    BY <2>1, <2>2, <2>3, WFMin, Zenon
  <2>5. CASE n = 0
    <3> DEFINE g0 == [i \in 0 .. 0 |-> << >>]
    <3>1. << >> \in Seq(Payload)
      BY EmptySeq
    <3>2. g0 \in [0 .. 0 -> Seq(Payload)] /\ \A i \in 0 .. 0 : g0[i] = DelivBody(g0, s, i)
      BY <3>1 DEF DelivBody
    <3>3. Good(0)
      BY <3>2
    <3>4. QED
      BY <2>4, <2>5, <3>3
  <2>6. CASE n # 0
    <3>1. n \in 1 .. N /\ n - 1 \in 0 .. N
      BY <1>1, <2>6
    <3>2. n - 1 \notin Bad
      <4>1. n - 1 \in Nat /\ n \in Nat /\ n - 1 < n
        BY <3>1
      <4>2. <<n - 1, n>> \in OpToRel(<, Nat)
        BY <4>1, Zenon DEF OpToRel
      <4>3. QED
        BY <2>4, <4>2, Zenon
    <3>3. PICK g \in [0 .. n - 1 -> Seq(Payload)] :
             \A i \in 0 .. n - 1 : g[i] = DelivBody(g, s, i)
      BY <3>1, <3>2
    <3>4. g[n - 1] \o s[n].data \in Seq(Payload)
      <4>1. s[n].data \in Seq(Payload) /\ g[n - 1] \in Seq(Payload)
        BY <3>1, <3>3, ChunkData
      <4>2. QED
        BY <4>1, ConcatProperties
    <3> DEFINE h == [i \in 0 .. n |-> IF i < n THEN g[i] ELSE g[n - 1] \o s[n].data]
    <3>5. h \in [0 .. n -> Seq(Payload)]
      BY <3>1, <3>3, <3>4
    <3>6. \A i \in 0 .. n - 1 : h[i] = DelivBody(h, s, i)
      <4> SUFFICES ASSUME NEW i \in 0 .. n - 1 PROVE h[i] = DelivBody(h, s, i)
        OBVIOUS
      <4>1. h[i] = g[i] /\ g[i] = DelivBody(g, s, i)
        <5>1. i \in 0 .. n /\ i < n
          BY <1>1, <3>1
        <5>2. h[i] = g[i]
          BY <5>1
        <5>3. QED
          BY <3>3, <5>2
      <4>2. CASE i = 0
        BY <4>1, <4>2 DEF DelivBody
      <4>3. CASE i # 0
        <5>1. h[i - 1] = g[i - 1]
          BY <3>1, <4>3
        <5>2. QED
          BY <4>1, <4>3, <5>1 DEF DelivBody
      <4>4. QED
        BY <4>2, <4>3
    <3>7. h[n] = DelivBody(h, s, n)
      BY <3>1, <3>3 DEF DelivBody
    <3>8. Good(n)
      <4>1. \A i \in 0 .. n : h[i] = DelivBody(h, s, i)
        BY <3>1, <3>6, <3>7
      <4>2. QED
        BY <3>5, <4>1
    <3>9. QED
      BY <2>4, <3>8
  <2>7. QED
    BY <2>5, <2>6
<1>3. PICK g \in [0 .. N -> Seq(Payload)] : \A i \in 0 .. N : g[i] = DelivBody(g, s, i)
  <2>1. N \in 0 .. N
    BY <1>1
  <2>2. Good(N)
    BY <1>2, <2>1
  <2>3. QED
    BY <2>2
<1>4. g = [i \in 0 .. N |-> DelivBody(g, s, i)]
  BY <1>3
<1>5. QED
  BY <1>3, <1>4

\* Two functions satisfying the recursion agree: a least position where
\* they differ is not 0, and at it both extend equal values by the same data.
LEMMA DelivUnique ==
    ASSUME NEW s \in Seq(Chunk), NEW g1, NEW g2,
           g1 = [i \in 0 .. Len(s) |-> DelivBody(g1, s, i)],
           g2 = [i \in 0 .. Len(s) |-> DelivBody(g2, s, i)]
    PROVE  g1 = g2
<1> DEFINE N == Len(s)
           Bad == {i \in 0 .. N : g1[i] # g2[i]}
<1>1. N \in Nat
  BY LenProperties
<1>2. Bad = {}
  <2>1. SUFFICES ASSUME Bad # {} PROVE FALSE
    OBVIOUS
  <2>2. IsWellFoundedOn(OpToRel(<, Nat), Nat)
    BY NatLessThanWellFounded
  <2>3. Bad \subseteq Nat
    BY <1>1
  <2>4. PICK n \in Bad : \A y \in Bad : ~(<<y, n>> \in OpToRel(<, Nat))
    BY <2>1, <2>2, <2>3, WFMin, Zenon
  <2>5. \A i \in 0 .. N : g1[i] = DelivBody(g1, s, i) /\ g2[i] = DelivBody(g2, s, i)
    OBVIOUS
  <2>6. CASE n = 0
    BY <2>4, <2>5, <2>6 DEF DelivBody
  <2>7. CASE n # 0
    <3>1. n \in 1 .. N /\ n - 1 \in 0 .. N
      BY <1>1, <2>7
    <3>2. n - 1 \notin Bad
      <4>1. n - 1 \in Nat /\ n \in Nat /\ n - 1 < n
        BY <3>1
      <4>2. <<n - 1, n>> \in OpToRel(<, Nat)
        BY <4>1, Zenon DEF OpToRel
      <4>3. QED
        BY <2>4, <4>2, Zenon
    <3>3. g1[n - 1] = g2[n - 1]
      BY <3>1, <3>2
    <3>4. QED
      BY <2>4, <2>5, <3>1, <3>3 DEF DelivBody
  <2>8. QED
    BY <2>6, <2>7
<1>3. QED
  BY <1>2

\* The function Delivered reads is well defined and yields payloads.
LEMMA DelivFcnDef ==
    ASSUME NEW s \in Seq(Chunk)
    PROVE  /\ DelivFcn(s) \in [0 .. Len(s) -> Seq(Payload)]
           /\ DelivFcn(s) = [i \in 0 .. Len(s) |-> DelivBody(DelivFcn(s), s, i)]
<1>1. PICK g \in [0 .. Len(s) -> Seq(Payload)] : g = [i \in 0 .. Len(s) |-> DelivBody(g, s, i)]
  BY DelivExists
<1>2. DelivFcn(s) = [i \in 0 .. Len(s) |-> DelivBody(DelivFcn(s), s, i)]
  BY <1>1 DEF DelivFcn
<1>3. DelivFcn(s) = g
  BY <1>1, <1>2, DelivUnique
<1>4. QED
  BY <1>1, <1>2, <1>3

\* Nothing is delivered before the first write.
LEMMA DeliveredOfEmpty == DeliveredOf(<<>>) = <<>>
<1>1. <<>> \in Seq(Chunk)
  BY EmptySeq
<1>2. DelivFcn(<<>>) = [i \in 0 .. 0 |-> DelivBody(DelivFcn(<<>>), <<>>, i)]
  BY <1>1, DelivFcnDef
<1>3. QED
  BY <1>2, DeliveredUnfold DEF DelivBody

\* A sent chunk appends its data to what was delivered.
LEMMA DeliveredOfAppend ==
    ASSUME NEW s \in Seq(Chunk), NEW c \in Chunk
    PROVE  /\ DeliveredOf(s) \in Seq(Payload)
           /\ DeliveredOf(Append(s, c)) = DeliveredOf(s) \o c.data
<1> DEFINE N == Len(s)
           t == Append(s, c)
           f == DelivFcn(s)
           h == [i \in 0 .. N + 1 |-> IF i <= N THEN f[i] ELSE f[N] \o c.data]
<1>1. N \in Nat /\ t \in Seq(Chunk) /\ Len(t) = N + 1 /\ t[N + 1] = c
      /\ \A i \in 1 .. N : t[i] = s[i]
  BY LenProperties, AppendProperties
<1>2. f \in [0 .. N -> Seq(Payload)] /\ f = [i \in 0 .. N |-> DelivBody(f, s, i)]
  BY DelivFcnDef
<1>3. h = [i \in 0 .. Len(t) |-> DelivBody(h, t, i)]
  <2>1. \A i \in 0 .. N : h[i] = DelivBody(h, t, i)
    <3> SUFFICES ASSUME NEW i \in 0 .. N PROVE h[i] = DelivBody(h, t, i)
      OBVIOUS
    <3>1. h[i] = f[i] /\ f[i] = DelivBody(f, s, i)
      <4>1. i \in 0 .. N + 1 /\ i <= N
        BY <1>1
      <4>2. h[i] = f[i]
        BY <4>1
      <4>3. f[i] = DelivBody(f, s, i)
        BY <1>2
      <4>4. QED
        BY <4>2, <4>3
    <3>2. CASE i = 0
      <4>1. DelivBody(f, s, i) = <<>> /\ DelivBody(h, t, i) = <<>>
        BY <3>2 DEF DelivBody
      <4>2. QED
        BY <3>1, <4>1
    <3>3. CASE i # 0
      <4>1. h[i - 1] = f[i - 1] /\ t[i] = s[i]
        BY <1>1, <3>3
      <4>2. QED
        BY <3>1, <3>3, <4>1 DEF DelivBody
    <3>4. QED
      BY <3>2, <3>3
  <2>2. h[N + 1] = DelivBody(h, t, N + 1)
    BY <1>1 DEF DelivBody
  <2>3. QED
    BY <1>1, <2>1, <2>2
<1>4. DelivFcn(t) = h
  <2>1. DelivFcn(t) = [i \in 0 .. Len(t) |-> DelivBody(DelivFcn(t), t, i)]
    BY <1>1, DelivFcnDef
  <2>2. QED
    BY <1>1, <1>3, <2>1, DelivUnique
<1>5. DeliveredOf(s) = f[N] /\ DeliveredOf(t) = DelivFcn(t)[Len(t)]
  BY DeliveredUnfold
<1>6. f[N] \in Seq(Payload)
  BY <1>1, <1>2
<1>7. DelivFcn(t)[Len(t)] = f[N] \o c.data
  BY <1>1, <1>4
<1>8. QED
  BY <1>5, <1>6, <1>7

-----------------------------------------------------------------------------
(* The inductive invariant.                                                *)

\* The ids of a sequence of payloads increase along it.
Increasing(s) == \A i, j \in DOMAIN s : i < j => s[i].id < s[j].id

\* Every number of A is below every number of B.
AllBelow(A, B) == \A x \in A, y \in B : x < y

\* No net buffer is held only while b.buf is empty.
BufOK == ~hasBuf => buf = <<>>

\* b.buf holds less than an MTU, or a single payload.
BufFits == BytesOf(buf) < MTU \/ Len(buf) <= 1

\* Delivered payloads D, buffered B and those of a WriteMsg in progress P
\* each increase, lie in that order, and are below the next id n.
OrderOf(D, B, P, n) ==
    /\ Increasing(D) /\ Increasing(B) /\ Increasing(P)
    /\ AllBelow(IdsOf(D), IdsOf(B))
    /\ AllBelow(IdsOf(D) \cup IdsOf(B), IdsOf(P))
    /\ AllBelow(IdsOf(D) \cup IdsOf(B) \cup IdsOf(P), {n})

Order == OrderOf(Delivered, buf, parts, nextId)

DInv == IInv /\ BufOK /\ BufFits /\ SentWithinMTU /\ Order /\ NoSilentLoss

-----------------------------------------------------------------------------
(* Lemmas about ids and order along sequences of payloads.                 *)

\* Ids are numbers.
LEMMA IdsOfNat ==
    ASSUME NEW s \in Seq(Payload)
    PROVE  IdsOf(s) \subseteq Nat
<1>1. \A i \in DOMAIN s : s[i] \in Payload
  BY LenProperties, ElementOfSeq
<1>2. QED
  BY <1>1 DEF IdsOf, Payload, Ids

LEMMA IdsOfEmpty == IdsOf(<<>>) = {} /\ Increasing(<<>>)
BY DEF IdsOf, Increasing

LEMMA IdsOfSingle ==
    ASSUME NEW d
    PROVE  IdsOf(<<d>>) = {d.id} /\ Increasing(<<d>>)
BY DEF IdsOf, Increasing

LEMMA IdsOfConcat ==
    ASSUME NEW s \in Seq(Payload), NEW t \in Seq(Payload)
    PROVE  /\ s \o t \in Seq(Payload)
           /\ IdsOf(s \o t) = IdsOf(s) \cup IdsOf(t)
<1>1. /\ s \o t \in Seq(Payload)
      /\ Len(s \o t) = Len(s) + Len(t)
      /\ \A i \in 1 .. Len(s) + Len(t) : (s \o t)[i] = IF i <= Len(s) THEN s[i] ELSE t[i - Len(s)]
  BY ConcatProperties
<1>2. Len(s) \in Nat /\ Len(t) \in Nat /\ DOMAIN s = 1 .. Len(s) /\ DOMAIN t = 1 .. Len(t)
  BY LenProperties
<1>3. DOMAIN (s \o t) = 1 .. Len(s) + Len(t)
  BY <1>1, LenProperties
<1>4. IdsOf(s \o t) \subseteq IdsOf(s) \cup IdsOf(t)
  BY <1>1, <1>2, <1>3 DEF IdsOf
<1>5. IdsOf(s) \subseteq IdsOf(s \o t)
  <2> SUFFICES ASSUME NEW i \in 1 .. Len(s) PROVE s[i].id \in IdsOf(s \o t)
    BY <1>2 DEF IdsOf
  <2>1. i \in DOMAIN (s \o t) /\ (s \o t)[i] = s[i]
    BY <1>1, <1>2, <1>3
  <2>2. QED
    BY <2>1 DEF IdsOf
<1>6. IdsOf(t) \subseteq IdsOf(s \o t)
  <2> SUFFICES ASSUME NEW i \in 1 .. Len(t) PROVE t[i].id \in IdsOf(s \o t)
    BY <1>2 DEF IdsOf
  <2>1. Len(s) + i \in DOMAIN (s \o t) /\ (s \o t)[Len(s) + i] = t[i]
    BY <1>1, <1>2, <1>3
  <2>2. QED
    BY <2>1 DEF IdsOf
<1>7. QED
  BY <1>1, <1>4, <1>5, <1>6

\* Two increasing sequences, the first below the second, concatenate to
\* an increasing one.
LEMMA IncreasingConcat ==
    ASSUME NEW s \in Seq(Payload), NEW t \in Seq(Payload),
           Increasing(s), Increasing(t), AllBelow(IdsOf(s), IdsOf(t))
    PROVE  Increasing(s \o t)
<1>1. /\ Len(s \o t) = Len(s) + Len(t)
      /\ \A i \in 1 .. Len(s) + Len(t) : (s \o t)[i] = IF i <= Len(s) THEN s[i] ELSE t[i - Len(s)]
  BY ConcatProperties
<1>2. Len(s) \in Nat /\ Len(t) \in Nat /\ DOMAIN s = 1 .. Len(s) /\ DOMAIN t = 1 .. Len(t)
  BY LenProperties
<1>3. DOMAIN (s \o t) = 1 .. Len(s) + Len(t)
  BY ConcatProperties, LenProperties
<1> SUFFICES ASSUME NEW i \in 1 .. Len(s) + Len(t), NEW j \in 1 .. Len(s) + Len(t), i < j
             PROVE  (s \o t)[i].id < (s \o t)[j].id
  BY <1>3 DEF Increasing
<1>4. CASE j <= Len(s)
  BY <1>1, <1>2, <1>4 DEF Increasing
<1>5. CASE i > Len(s)
  BY <1>1, <1>2, <1>5 DEF Increasing
<1>6. CASE i <= Len(s) /\ j > Len(s)
  <2>1. s[i].id \in IdsOf(s) /\ t[j - Len(s)].id \in IdsOf(t)
    BY <1>2, <1>6 DEF IdsOf
  <2>2. QED
    BY <1>1, <1>2, <1>6, <2>1 DEF AllBelow
<1>7. QED
  BY <1>2, <1>4, <1>5, <1>6

\* Appending a payload above every id keeps a sequence increasing.
LEMMA IncreasingAppend ==
    ASSUME NEW s \in Seq(Payload), NEW d \in Payload,
           Increasing(s), AllBelow(IdsOf(s), {d.id})
    PROVE  /\ Append(s, d) \in Seq(Payload)
           /\ Increasing(Append(s, d))
           /\ IdsOf(Append(s, d)) = IdsOf(s) \cup {d.id}
<1>1. <<d>> \in Seq(Payload) /\ Append(s, d) = s \o <<d>>
  BY AppendIsConcat, AppendProperties, EmptySeq
<1>2. IdsOf(<<d>>) = {d.id} /\ Increasing(<<d>>)
  BY IdsOfSingle
<1>3. QED
  BY <1>1, <1>2, IdsOfConcat, IncreasingConcat

\* The head of an increasing sequence is below its tail, which increases.
LEMMA IncreasingTail ==
    ASSUME NEW s \in Seq(Payload), s # <<>>, Increasing(s)
    PROVE  /\ Head(s) \in Payload /\ Tail(s) \in Seq(Payload)
           /\ Increasing(Tail(s))
           /\ AllBelow({Head(s).id}, IdsOf(Tail(s)))
           /\ IdsOf(s) = {Head(s).id} \cup IdsOf(Tail(s))
<1>1. /\ Head(s) \in Payload /\ Tail(s) \in Seq(Payload)
      /\ Len(Tail(s)) = Len(s) - 1
      /\ \A i \in 1 .. Len(Tail(s)) : Tail(s)[i] = s[i + 1]
  BY HeadTailProperties
<1>2. Len(s) \in Nat \ {0} /\ DOMAIN s = 1 .. Len(s) /\ Head(s) = s[1]
  BY LenProperties, EmptySeq
<1>3. DOMAIN Tail(s) = 1 .. Len(s) - 1
  BY <1>1, LenProperties
<1>4. Increasing(Tail(s))
  BY <1>1, <1>2, <1>3 DEF Increasing
<1>5. AllBelow({Head(s).id}, IdsOf(Tail(s)))
  BY <1>1, <1>2, <1>3 DEF Increasing, AllBelow, IdsOf
<1>6. IdsOf(s) = {Head(s).id} \cup IdsOf(Tail(s))
  <2>1. IdsOf(s) \subseteq {Head(s).id} \cup IdsOf(Tail(s))
    <3> SUFFICES ASSUME NEW i \in 1 .. Len(s) PROVE s[i].id \in {Head(s).id} \cup IdsOf(Tail(s))
      BY <1>2 DEF IdsOf
    <3>1. CASE i = 1
      BY <1>2, <3>1
    <3>2. CASE i # 1
      <4>1. i - 1 \in DOMAIN Tail(s) /\ Tail(s)[i - 1] = s[i]
        BY <1>1, <1>2, <1>3, <3>2
      <4>2. QED
        BY <4>1 DEF IdsOf
    <3>3. QED
      BY <3>1, <3>2
  <2>2. {Head(s).id} \cup IdsOf(Tail(s)) \subseteq IdsOf(s)
    BY <1>1, <1>2, <1>3 DEF IdsOf
  <2>3. QED
    BY <2>1, <2>2
<1>7. QED
  BY <1>1, <1>4, <1>5, <1>6


\* The payloads a WriteMsg takes are numbered upward from nextId.
LEMMA NewPayloadsFacts ==
    ASSUME nextId \in Nat, NEW k \in Nat, NEW ps \in NewPayloads(k)
    PROVE  /\ ps \in Seq(Payload)
           /\ Increasing(ps)
           /\ \A x \in IdsOf(ps) : nextId <= x /\ x < nextId + k
<1>1. ps \in [1 .. k -> Payload] /\ \A i \in 1 .. k : ps[i].id = nextId + i - 1
  BY DEF NewPayloads
<1>2. ps \in Seq(Payload)
  BY <1>1, SeqDef
<1>3. QED
  BY <1>1, <1>2 DEF Increasing, IdsOf

-----------------------------------------------------------------------------
(* How the order of payloads survives each kind of step.                   *)

\* appendLocked from Write: the payload joins the buffer, or the buffer is
\* sent and the payload starts the next one, or the buffer is lost.
LEMMA OrderBuffer ==
    ASSUME NEW D \in Seq(Payload), NEW B \in Seq(Payload), NEW n \in Nat,
           OrderOf(D, B, <<>>, n), NEW d \in Payload, d.id = n
    PROVE  /\ OrderOf(D, Append(B, d), <<>>, n + 1)
           /\ OrderOf(D \o B, <<d>>, <<>>, n + 1)
           /\ OrderOf(D, <<d>>, <<>>, n + 1)
<1>1. IdsOf(D) \subseteq Nat /\ IdsOf(B) \subseteq Nat
  BY IdsOfNat
<1>2. IdsOf(<<>>) = {} /\ Increasing(<<>>) /\ IdsOf(<<d>>) = {d.id} /\ Increasing(<<d>>)
  BY IdsOfEmpty, IdsOfSingle
<1>3. AllBelow(IdsOf(B), {d.id}) /\ AllBelow(IdsOf(D), {d.id})
  BY <1>2 DEF OrderOf, AllBelow
<1>4. Append(B, d) \in Seq(Payload) /\ Increasing(Append(B, d))
      /\ IdsOf(Append(B, d)) = IdsOf(B) \cup {d.id}
  BY <1>3, IncreasingAppend DEF OrderOf
<1>5. D \o B \in Seq(Payload) /\ IdsOf(D \o B) = IdsOf(D) \cup IdsOf(B)
      /\ Increasing(D \o B)
  BY IdsOfConcat, IncreasingConcat DEF OrderOf
<1>6. QED
  BY <1>1, <1>2, <1>3, <1>4, <1>5 DEF OrderOf, AllBelow

\* A WriteMsg appends its next payload: it joins the buffer, or the buffer
\* is sent and the payload starts the next one.
LEMMA OrderStep ==
    ASSUME NEW D \in Seq(Payload), NEW B \in Seq(Payload), NEW P \in Seq(Payload),
           NEW n \in Nat, OrderOf(D, B, P, n), P # <<>>
    PROVE  /\ OrderOf(D, Append(B, Head(P)), Tail(P), n)
           /\ OrderOf(D \o B, <<Head(P)>>, Tail(P), n)
<1> DEFINE h == Head(P)
<1>1. /\ h \in Payload /\ Tail(P) \in Seq(Payload)
      /\ Increasing(Tail(P))
      /\ AllBelow({h.id}, IdsOf(Tail(P)))
      /\ IdsOf(P) = {h.id} \cup IdsOf(Tail(P))
  BY IncreasingTail DEF OrderOf
<1>2. IdsOf(D) \subseteq Nat /\ IdsOf(B) \subseteq Nat /\ IdsOf(P) \subseteq Nat
  BY IdsOfNat
<1>3. IdsOf(<<h>>) = {h.id} /\ Increasing(<<h>>)
  BY IdsOfSingle
<1>4. AllBelow(IdsOf(B), {h.id})
  BY <1>1 DEF OrderOf, AllBelow
<1>5. Append(B, h) \in Seq(Payload) /\ Increasing(Append(B, h))
      /\ IdsOf(Append(B, h)) = IdsOf(B) \cup {h.id}
  BY <1>1, <1>4, IncreasingAppend DEF OrderOf
<1>6. D \o B \in Seq(Payload) /\ IdsOf(D \o B) = IdsOf(D) \cup IdsOf(B)
      /\ Increasing(D \o B)
  BY IdsOfConcat, IncreasingConcat DEF OrderOf
<1>7. QED
  BY <1>1, <1>2, <1>3, <1>5, <1>6 DEF OrderOf, AllBelow

\* The buffer is sent or lost and the rest of a WriteMsg is dropped; the
\* next id may only grow.
LEMMA OrderDrop ==
    ASSUME NEW D \in Seq(Payload), NEW B \in Seq(Payload), NEW P \in Seq(Payload),
           NEW n \in Nat, OrderOf(D, B, P, n), NEW m \in Nat, n <= m
    PROVE  /\ OrderOf(D, <<>>, <<>>, m)
           /\ OrderOf(D \o B, <<>>, <<>>, m)
           /\ OrderOf(D, B, P, m)
<1>1. IdsOf(D) \subseteq Nat /\ IdsOf(B) \subseteq Nat /\ IdsOf(P) \subseteq Nat
  BY IdsOfNat
<1>2. IdsOf(<<>>) = {} /\ Increasing(<<>>)
  BY IdsOfEmpty
<1>3. D \o B \in Seq(Payload) /\ IdsOf(D \o B) = IdsOf(D) \cup IdsOf(B)
      /\ Increasing(D \o B)
  BY IdsOfConcat, IncreasingConcat DEF OrderOf
<1>4. QED
  BY <1>1, <1>2, <1>3 DEF OrderOf, AllBelow

\* New payloads numbered from n join as the rest of a WriteMsg, or are
\* sent after the buffer.
LEMMA OrderNew ==
    ASSUME NEW D \in Seq(Payload), NEW B \in Seq(Payload), NEW n \in Nat,
           OrderOf(D, B, <<>>, n), NEW k \in Nat, NEW ps \in Seq(Payload),
           Increasing(ps), \A x \in IdsOf(ps) : n <= x /\ x < n + k
    PROVE  /\ OrderOf(D, B, ps, n + k)
           /\ OrderOf((D \o B) \o ps, <<>>, <<>>, n + k)
<1>1. IdsOf(D) \subseteq Nat /\ IdsOf(B) \subseteq Nat /\ IdsOf(ps) \subseteq Nat
  BY IdsOfNat
<1>2. IdsOf(<<>>) = {} /\ Increasing(<<>>)
  BY IdsOfEmpty
<1>3. D \o B \in Seq(Payload) /\ IdsOf(D \o B) = IdsOf(D) \cup IdsOf(B)
      /\ Increasing(D \o B)
  BY IdsOfConcat, IncreasingConcat DEF OrderOf
<1>4. AllBelow(IdsOf(D \o B), IdsOf(ps))
  BY <1>1, <1>3 DEF OrderOf, AllBelow
<1>5. (D \o B) \o ps \in Seq(Payload) /\ IdsOf((D \o B) \o ps) = IdsOf(D \o B) \cup IdsOf(ps)
      /\ Increasing((D \o B) \o ps)
  BY <1>3, <1>4, IdsOfConcat, IncreasingConcat
<1>6. QED
  BY <1>1, <1>2, <1>3, <1>5 DEF OrderOf, AllBelow

\* InOrder is the order of the delivered payloads followed by the buffer.
LEMMA InOrderFromOrder ==
    ASSUME Delivered \in Seq(Payload), buf \in Seq(Payload), Order
    PROVE  InOrder
<1>1. Increasing(Delivered \o buf)
  BY IncreasingConcat DEF Order, OrderOf
<1>2. QED
  BY <1>1 DEF InOrder, Increasing


-----------------------------------------------------------------------------
(* What the steps do to the data.                                          *)

\* SentWithinMTU over any sequence of sent chunks.
SentOK(s) ==
    \A i \in DOMAIN s :
        s[i].batch => BytesOf(s[i].data) <= MTU \/ Len(s[i].data) <= 1

\* A sequence of payloads holds a natural number of bytes.
LEMMA BytesOfNat ==
    ASSUME NEW s \in Seq(Payload)
    PROVE  BytesOf(s) \in Nat
<1>1. Len(s) \in 0 .. Len(s)
  BY LenProperties
<1>2. QED
  BY <1>1, BytesFcnDef, BytesUnfold

\* The chunk flw.write sends for b.buf; c is the close flag.
BufChunk(c) == [data |-> buf, close |-> c, batch |-> TRUE]

\* The ids of a sequence with one more payload.
LEMMA IdsOfAppend ==
    ASSUME NEW s \in Seq(Payload), NEW d \in Payload
    PROVE  Append(s, d) \in Seq(Payload) /\ IdsOf(Append(s, d)) = IdsOf(s) \cup {d.id}
<1>1. <<d>> \in Seq(Payload) /\ Append(s, d) = s \o <<d>>
  BY AppendIsConcat, AppendProperties, EmptySeq
<1>2. QED
  BY <1>1, IdsOfSingle, IdsOfConcat

\* Sending a chunk within the MTU keeps every sent batch within it.
LEMMA SentOKAppend ==
    ASSUME NEW s \in Seq(Chunk), SentOK(s), NEW c \in Chunk,
           c.batch => BytesOf(c.data) <= MTU \/ Len(c.data) <= 1
    PROVE  SentOK(Append(s, c))
<1>1. /\ Append(s, c) \in Seq(Chunk) /\ Len(Append(s, c)) = Len(s) + 1
      /\ Append(s, c)[Len(s) + 1] = c
      /\ \A i \in 1 .. Len(s) : Append(s, c)[i] = s[i]
  BY AppendProperties
<1>2. Len(s) \in Nat /\ DOMAIN s = 1 .. Len(s)
      /\ DOMAIN Append(s, c) = 1 .. Len(s) + 1
  BY <1>1, LenProperties
<1>3. QED
  BY <1>1, <1>2 DEF SentOK

\* With BufFits, a write of the buffer is a chunk within the MTU.
LEMMA BufChunkOK ==
    ASSUME buf \in Seq(Payload), BufFits, NEW c \in BOOLEAN
    PROVE  /\ BufChunk(c) \in Chunk
           /\ BufChunk(c).batch => BytesOf(BufChunk(c).data) <= MTU
                                   \/ Len(BufChunk(c).data) <= 1
<1>1. BytesOf(buf) \in Nat /\ MTU \in Nat
  BY BytesOfNat, BufferingFlowAssumption
<1>2. BufChunk(c) \in Chunk /\ BufChunk(c).data = buf /\ BufChunk(c).batch
  BY DEF BufChunk, Chunk
<1>3. BytesOf(buf) <= MTU \/ Len(buf) <= 1
  BY <1>1 DEF BufFits
<1>4. QED
  BY <1>2, <1>3

\* appendLocked, when b.buf is empty whenever no net buffer is held and
\* fits, either adds the payload to the buffer, or sends the buffer and
\* starts a new one with the payload, or fails to send it and keeps the
\* payload alone or (when the caller handles the error) nothing.
LEMMA AppendLockedData ==
    ASSUME TypeOK, BufOK, BufFits, NEW d \in Payload, NEW ok \in WriteOutcomes,
           NEW handle \in BOOLEAN, AppendLocked(d, ok, handle)
    PROVE  \/ /\ AppendOk(d, ok) /\ sent' = sent /\ buf' = Append(buf, d)
              /\ BytesOf(buf') < MTU /\ hasBuf'
           \/ /\ AppendOk(d, ok) /\ sent' = Append(sent, BufChunk(FALSE))
              /\ buf' = <<d>> /\ hasBuf'
           \/ /\ ~AppendOk(d, ok) /\ sent' = sent
              /\ \/ buf' = <<d>> /\ hasBuf' /\ ~handle
                 \/ buf' = <<>> /\ ~hasBuf' /\ handle
<1>1. (IF hasBuf THEN buf ELSE <<>>) = buf
  BY DEF BufOK, TypeOK
<1>2. buf \in Seq(Payload) /\ ok \in BOOLEAN
  BY WriteOutcomeFacts DEF TypeOK
<1>3. BytesOf(buf) \in Nat /\ BytesOf(Append(buf, d)) = BytesOf(buf) + d.size
  BY <1>2, BytesOfAppend
<1>4. CASE BytesOf(buf) + d.size < MTU
  <2>1. buf' = Append(buf, d) /\ hasBuf' = TRUE /\ sent' = sent
    BY <1>1, <1>4 DEF AppendLocked
  <2>2. AppendOk(d, ok)
    BY <1>1, <1>4 DEF AppendOk, AppendFits
  <2>3. QED
    BY <1>3, <1>4, <2>1, <2>2
<1>5. CASE ~(BytesOf(buf) + d.size < MTU)
  <2>1. /\ UnderlyingWrite(FALSE, buf, ok)
        /\ IF ok \/ ~handle
           THEN buf' = <<d>> /\ hasBuf' = TRUE
           ELSE buf' = <<>> /\ hasBuf' = FALSE
    BY <1>1, <1>5 DEF AppendLocked
  <2>5. AppendOk(d, ok) = ok
    BY <1>1, <1>2, <1>5 DEF AppendOk, AppendFits
  <2>2. CASE ok
    BY <2>1, <2>2, <2>5 DEF UnderlyingWrite, BufChunk
  <2>3. CASE ~ok
    BY <1>2, <2>1, <2>3, <2>5 DEF UnderlyingWrite
  <2>4. QED
    BY <1>2, <2>2, <2>3
<1>6. QED
  BY <1>4, <1>5


\* The data part of the inductive invariant.
DataOK == BufOK /\ BufFits /\ SentWithinMTU /\ Order /\ NoSilentLoss

\* Delivered is a sequence of payloads.
LEMMA DeliveredOfType ==
    ASSUME NEW s \in Seq(Chunk)
    PROVE  DeliveredOf(s) \in Seq(Payload)
<1>1. Len(s) \in 0 .. Len(s)
  BY LenProperties
<1>2. QED
  BY <1>1, DelivFcnDef, DeliveredUnfold

\* DInv restated over DeliveredOf(sent), for the step lemmas.
LEMMA DInvFacts ==
    ASSUME DInv
    PROVE  /\ TypeOK /\ BufOK /\ BufFits
           /\ buf \in Seq(Payload) /\ parts \in Seq(Payload) /\ sent \in Seq(Chunk)
           /\ nextId \in Nat
           /\ DeliveredOf(sent) \in Seq(Payload)
           /\ SentOK(sent)
           /\ OrderOf(DeliveredOf(sent), buf, parts, nextId)
           /\ pendingOk \subseteq IdsOf(DeliveredOf(sent)) \cup IdsOf(buf)
<1>1. TypeOK /\ BufOK /\ BufFits /\ SentWithinMTU /\ Order /\ NoSilentLoss
  BY DEF DInv, IInv
<1>2. buf \in Seq(Payload) /\ parts \in Seq(Payload) /\ sent \in Seq(Chunk)
      /\ nextId \in Nat
  BY <1>1 DEF TypeOK
<1>3. DeliveredOf(sent) \in Seq(Payload)
  BY <1>2, DeliveredOfType
<1>4. QED
  BY <1>1, <1>2, <1>3, DeliveredIsOf DEF SentOK, SentWithinMTU, Order, NoSilentLoss

\* DataOK' from its parts, over DeliveredOf(sent').
LEMMA DataAssemble ==
    ASSUME BufOK', BufFits', SentOK(sent'),
           OrderOf(DeliveredOf(sent'), buf', parts', nextId'),
           pendingOk' \subseteq IdsOf(DeliveredOf(sent')) \cup IdsOf(buf')
    PROVE  DataOK'
BY DeliveredIsOf DEF DataOK, SentOK, SentWithinMTU, Order, NoSilentLoss

\* A payload appended by appendLocked (from Write or WriteMsg) keeps the
\* data invariant, given that the order holds of each outcome.
LEMMA AppendData ==
    ASSUME DInv, NEW d \in Payload, NEW ok \in WriteOutcomes, NEW handle \in BOOLEAN,
           AppendLocked(d, ok, handle),
           pendingOk' = IF AppendOk(d, ok) THEN pendingOk \cup {d.id} ELSE {},
           AppendOk(d, ok) => OrderOf(DeliveredOf(sent), Append(buf, d), parts', nextId'),
           AppendOk(d, ok) => OrderOf(DeliveredOf(sent) \o buf, <<d>>, parts', nextId'),
           ~AppendOk(d, ok) /\ ~handle => OrderOf(DeliveredOf(sent), <<d>>, parts', nextId'),
           ~AppendOk(d, ok) /\ handle => OrderOf(DeliveredOf(sent), <<>>, parts', nextId')
    PROVE  DataOK'
<1> DEFINE D == DeliveredOf(sent)
<1>1. /\ TypeOK /\ BufOK /\ BufFits
      /\ buf \in Seq(Payload) /\ sent \in Seq(Chunk) /\ D \in Seq(Payload)
      /\ SentOK(sent)
      /\ pendingOk \subseteq IdsOf(D) \cup IdsOf(buf)
  BY DInvFacts
<1>2. \/ /\ AppendOk(d, ok) /\ sent' = sent /\ buf' = Append(buf, d)
         /\ BytesOf(buf') < MTU /\ hasBuf'
      \/ /\ AppendOk(d, ok) /\ sent' = Append(sent, BufChunk(FALSE))
         /\ buf' = <<d>> /\ hasBuf'
      \/ /\ ~AppendOk(d, ok) /\ sent' = sent
         /\ \/ buf' = <<d>> /\ hasBuf' /\ ~handle
            \/ buf' = <<>> /\ ~hasBuf' /\ handle
  BY <1>1, AppendLockedData
<1>3. IdsOf(D \o buf) = IdsOf(D) \cup IdsOf(buf)
  BY <1>1, IdsOfConcat
<1>4. IdsOf(Append(buf, d)) = IdsOf(buf) \cup {d.id}
  BY <1>1, IdsOfAppend
<1>5. IdsOf(<<d>>) = {d.id} /\ Len(<<d>>) = 1 /\ Len(<<>>) = 0
  BY IdsOfSingle
<1>6. CASE AppendOk(d, ok) /\ sent' = sent /\ buf' = Append(buf, d) /\ BytesOf(buf') < MTU /\ hasBuf'
  <2>1. BufOK' /\ BufFits'
    BY <1>6 DEF BufOK, BufFits
  <2>2. SentOK(sent') /\ OrderOf(DeliveredOf(sent'), buf', parts', nextId')
    BY <1>1, <1>6
  <2>3. pendingOk' \subseteq IdsOf(DeliveredOf(sent')) \cup IdsOf(buf')
    BY <1>1, <1>4, <1>6
  <2>4. QED
    BY <2>1, <2>2, <2>3, DataAssemble
<1>7. CASE AppendOk(d, ok) /\ sent' = Append(sent, BufChunk(FALSE)) /\ buf' = <<d>> /\ hasBuf'
  <2>1. /\ BufChunk(FALSE) \in Chunk /\ BufChunk(FALSE).data = buf
        /\ BufChunk(FALSE).batch => BytesOf(BufChunk(FALSE).data) <= MTU
                                    \/ Len(BufChunk(FALSE).data) <= 1
    BY <1>1, BufChunkOK DEF BufChunk
  <2>2. DeliveredOf(sent') = D \o buf
    BY <1>1, <1>7, <2>1, DeliveredOfAppend
  <2>3. SentOK(sent')
    BY <1>1, <1>7, <2>1, SentOKAppend
  <2>4. BufOK' /\ BufFits'
    BY <1>5, <1>7 DEF BufOK, BufFits
  <2>5. OrderOf(DeliveredOf(sent'), buf', parts', nextId')
    BY <1>7, <2>2
  <2>6. pendingOk' \subseteq IdsOf(DeliveredOf(sent')) \cup IdsOf(buf')
    BY <1>1, <1>3, <1>5, <1>7, <2>2
  <2>7. QED
    BY <2>3, <2>4, <2>5, <2>6, DataAssemble
<1>8. CASE ~AppendOk(d, ok) /\ sent' = sent
  <2>1. SentOK(sent') /\ DeliveredOf(sent') = D /\ pendingOk' = {}
    BY <1>1, <1>8
  <2>2. CASE buf' = <<d>> /\ hasBuf' /\ ~handle
    <3>1. BufOK' /\ BufFits'
      BY <1>5, <2>2 DEF BufOK, BufFits
    <3>2. OrderOf(DeliveredOf(sent'), buf', parts', nextId')
      BY <1>8, <2>1, <2>2
    <3>3. QED
      BY <2>1, <3>1, <3>2, DataAssemble
  <2>3. CASE buf' = <<>> /\ ~hasBuf' /\ handle
    <3>1. BufOK' /\ BufFits'
      BY <1>5, <2>3 DEF BufOK, BufFits
    <3>2. OrderOf(DeliveredOf(sent'), buf', parts', nextId')
      BY <1>8, <2>1, <2>3
    <3>3. QED
      BY <2>1, <3>1, <3>2, DataAssemble
  <2>4. QED
    BY <1>2, <1>8, <2>2, <2>3
<1>9. QED
  BY <1>2, <1>6, <1>7, <1>8


\* Write: the payload numbered nextId goes through appendLocked, whose
\* error is returned but not handled.
LEMMA WriteData ==
    ASSUME DInv, Write
    PROVE  DataOK'
<1> DEFINE D == DeliveredOf(sent)
<1>1. /\ TypeOK /\ buf \in Seq(Payload) /\ D \in Seq(Payload) /\ nextId \in Nat
      /\ OrderOf(D, buf, parts, nextId)
  BY DInvFacts
<1>2. parts = <<>> /\ parts' = <<>> /\ nextId' = nextId + 1 /\ nextId \in Ids
  BY <1>1 DEF Write, Call, Unlocked, TypeOK, Ids
<1>3. PICK s \in Sizes, ok \in WriteOutcomes :
         /\ AppendLocked([id |-> nextId, size |-> s], ok, FALSE)
         /\ pendingOk' = IF AppendOk([id |-> nextId, size |-> s], ok)
                          THEN pendingOk \cup {[id |-> nextId, size |-> s].id} ELSE {}
  BY DEF Write
<1> DEFINE d == [id |-> nextId, size |-> s]
<1>4. d \in Payload /\ d.id = nextId
  BY <1>2 DEF Payload
<1>5. /\ OrderOf(D, Append(buf, d), <<>>, nextId + 1)
      /\ OrderOf(D \o buf, <<d>>, <<>>, nextId + 1)
      /\ OrderOf(D, <<d>>, <<>>, nextId + 1)
  BY <1>1, <1>2, <1>4, OrderBuffer
<1>6. OrderOf(D, <<>>, <<>>, nextId + 1)
  <2>1. <<d>> \in Seq(Payload) /\ <<>> \in Seq(Payload) /\ nextId + 1 \in Nat
        /\ nextId + 1 <= nextId + 1
    BY <1>1, <1>4
  <2>2. QED
    BY <1>1, <1>5, <2>1, OrderDrop, Zenon
<1>7. FALSE \in BOOLEAN
  OBVIOUS
<1>8. QED
  BY <1>2, <1>3, <1>4, <1>5, <1>6, <1>7, AppendData

\* WriteMsg takes its payloads, numbered upward from nextId.
LEMMA WriteMsgBeginData ==
    ASSUME DInv, WriteMsgBegin
    PROVE  DataOK'
<1> DEFINE D == DeliveredOf(sent)
<1>1. /\ BufOK /\ BufFits /\ buf \in Seq(Payload) /\ D \in Seq(Payload) /\ nextId \in Nat
      /\ SentOK(sent) /\ OrderOf(D, buf, parts, nextId)
      /\ pendingOk \subseteq IdsOf(D) \cup IdsOf(buf)
  BY DInvFacts
<1>2. parts = <<>> /\ UNCHANGED <<buf, hasBuf, sent, pendingOk>>
  BY DEF WriteMsgBegin, Call, Unlocked
<1>3. PICK n \in 1 .. MaxParts : /\ \E ps \in NewPayloads(n) : parts' = ps
                                 /\ nextId' = nextId + n
  BY DEF WriteMsgBegin
<1>9. PICK ps \in NewPayloads(n) : parts' = ps
  BY <1>3
<1>4. n \in Nat
  BY BufferingFlowAssumption
<1>5. /\ ps \in Seq(Payload) /\ Increasing(ps)
      /\ \A x \in IdsOf(ps) : nextId <= x /\ x < nextId + n
  BY <1>1, <1>4, NewPayloadsFacts
<1>6. OrderOf(D, buf, ps, nextId + n)
  BY <1>1, <1>2, <1>4, <1>5, OrderNew
<1>7. BufOK' /\ BufFits'
  BY <1>1, <1>2 DEF BufOK, BufFits
<1>8. QED
  BY <1>1, <1>2, <1>3, <1>6, <1>7, <1>9, DataAssemble

\* WriteMsg appends its next payload; on an error it hands the error to
\* handleError and drops the rest.
LEMMA WriteMsgStepData ==
    ASSUME DInv, WriteMsgStep
    PROVE  DataOK'
<1> DEFINE D == DeliveredOf(sent)
<1>1. /\ buf \in Seq(Payload) /\ parts \in Seq(Payload) /\ D \in Seq(Payload)
      /\ nextId \in Nat /\ OrderOf(D, buf, parts, nextId)
  BY DInvFacts
<1>2. parts # <<>> /\ nextId' = nextId
  BY DEF WriteMsgStep
<1>3. PICK ok \in WriteOutcomes :
         \/ /\ AppendOk(Head(parts), ok)
            /\ AppendLocked(Head(parts), ok, TRUE)
            /\ parts' = Tail(parts)
            /\ pendingOk' = pendingOk \cup {Head(parts).id}
         \/ /\ ~AppendOk(Head(parts), ok)
            /\ AppendLocked(Head(parts), ok, TRUE)
            /\ parts' = <<>>
            /\ pendingOk' = {}
  BY DEF WriteMsgStep
<1>4. Head(parts) \in Payload /\ ok \in BOOLEAN /\ TRUE \in BOOLEAN
  BY <1>1, <1>2, WriteOutcomeFacts
<1>5. /\ OrderOf(D, Append(buf, Head(parts)), Tail(parts), nextId)
      /\ OrderOf(D \o buf, <<Head(parts)>>, Tail(parts), nextId)
  BY <1>1, <1>2, OrderStep
<1>6. OrderOf(D, <<>>, <<>>, nextId)
  BY <1>1, OrderDrop
<1>7. CASE AppendOk(Head(parts), ok)
  BY <1>2, <1>3, <1>4, <1>5, <1>7, AppendData
<1>8. CASE ~AppendOk(Head(parts), ok)
  BY <1>2, <1>3, <1>4, <1>6, <1>8, AppendData
<1>9. QED
  BY <1>7, <1>8

\* Flush, Close and an unsent buffer of WriteMsgAndClose: b.buf is
\* written out with the given outcome and emptied, no WriteMsg is under
\* way, and an error covers every earlier acceptance.
LEMMA SendBufData ==
    ASSUME DInv, parts = <<>>, parts' = <<>>, nextId' \in Nat, nextId <= nextId',
           buf' = <<>>, NEW ok \in BOOLEAN, NEW c \in BOOLEAN,
           sent' = IF ok THEN Append(sent, BufChunk(c)) ELSE sent,
           pendingOk' = IF ok THEN pendingOk ELSE {}
    PROVE  DataOK'
<1> DEFINE D == DeliveredOf(sent)
<1>1. /\ BufFits /\ buf \in Seq(Payload) /\ sent \in Seq(Chunk) /\ D \in Seq(Payload)
      /\ nextId \in Nat /\ SentOK(sent) /\ OrderOf(D, buf, parts, nextId)
      /\ pendingOk \subseteq IdsOf(D) \cup IdsOf(buf)
  BY DInvFacts
<1>2. BufOK' /\ BufFits' /\ IdsOf(buf') = {}
  BY IdsOfEmpty DEF BufOK, BufFits
<1>3. /\ OrderOf(D, <<>>, <<>>, nextId')
      /\ OrderOf(D \o buf, <<>>, <<>>, nextId')
  <2>1. OrderOf(D, buf, <<>>, nextId) /\ <<>> \in Seq(Payload)
    BY <1>1
  <2>2. nextId' \in Nat /\ nextId <= nextId'
    OBVIOUS
  <2>3. QED
    BY <1>1, <2>1, <2>2, OrderDrop, Zenon
<1>4. CASE ok
  <2>1. /\ BufChunk(c) \in Chunk /\ BufChunk(c).data = buf
        /\ BufChunk(c).batch => BytesOf(BufChunk(c).data) <= MTU
                                \/ Len(BufChunk(c).data) <= 1
    BY <1>1, BufChunkOK DEF BufChunk
  <2>2. sent' = Append(sent, BufChunk(c))
    BY <1>4
  <2>3. DeliveredOf(sent') = D \o buf /\ SentOK(sent')
    BY <1>1, <2>1, <2>2, DeliveredOfAppend, SentOKAppend
  <2>4. IdsOf(D \o buf) = IdsOf(D) \cup IdsOf(buf)
    BY <1>1, IdsOfConcat
  <2>5. QED
    BY <1>1, <1>2, <1>3, <1>4, <2>3, <2>4, DataAssemble
<1>5. CASE ~ok
  BY <1>1, <1>2, <1>3, <1>5, DataAssemble
<1>6. QED
  BY <1>4, <1>5

LEMMA FlushData ==
    ASSUME DInv, Flush
    PROVE  DataOK'
<1>1. parts = <<>> /\ parts' = <<>> /\ nextId' = nextId /\ nextId \in Nat
  BY DInvFacts DEF Flush, Call, Unlocked
<1>2. PICK ok \in WriteOutcomes :
         /\ UnderlyingWrite(FALSE, buf, ok)
         /\ HandleError(ok, <<>>)
         /\ pendingOk' = IF ok THEN pendingOk ELSE {}
  BY DEF Flush
<1>3. ok \in BOOLEAN /\ FALSE \in BOOLEAN
  BY WriteOutcomeFacts
<1>4. buf' = <<>> /\ sent' = IF ok THEN Append(sent, BufChunk(FALSE)) ELSE sent
  BY <1>2 DEF HandleError, UnderlyingWrite, BufChunk
<1>5. nextId' \in Nat /\ nextId <= nextId'
  BY <1>1
<1>6. QED
  BY <1>1, <1>2, <1>3, <1>4, <1>5, SendBufData, Zenon

LEMMA CloseData ==
    ASSUME DInv, Close
    PROVE  DataOK'
<1>1. parts = <<>> /\ parts' = <<>> /\ nextId' = nextId /\ nextId \in Nat
  BY DInvFacts DEF Close, Call, Unlocked
<1>2. PICK ok \in WriteOutcomes :
         /\ UnderlyingWrite(TRUE, buf, ok)
         /\ buf' = <<>>
         /\ pendingOk' = IF ok THEN pendingOk ELSE {}
  BY DEF Close
<1>3. ok \in BOOLEAN /\ TRUE \in BOOLEAN
  BY WriteOutcomeFacts
<1>4. sent' = IF ok THEN Append(sent, BufChunk(TRUE)) ELSE sent
  BY <1>2 DEF UnderlyingWrite, BufChunk
<1>5. nextId' \in Nat /\ nextId <= nextId'
  BY <1>1
<1>6. QED
  BY <1>1, <1>2, <1>3, <1>4, <1>5, SendBufData, Zenon


\* WriteMsgAndClose: a non-empty buffer is written first (an error there
\* returns through handleError); then the caller's payloads go out with
\* the close flag, in a chunk that is not a batch, and b.buf is emptied.
LEMMA WriteMsgAndCloseData ==
    ASSUME DInv, WriteMsgAndClose
    PROVE  DataOK'
<1> DEFINE D == DeliveredOf(sent)
           Step(ps, ok1) ==
             IF buf # <<>> /\ ~ok1
             THEN /\ UnderlyingWrite(FALSE, buf, FALSE)
                  /\ HandleError(FALSE, <<>>)
                  /\ pendingOk' = {}
             ELSE LET sent1 == IF buf # <<>>
                               THEN Append(sent, [data |-> buf, close |-> FALSE, batch |-> TRUE])
                               ELSE sent
                  IN
                  \E ok2 \in WriteOutcomes :
                    /\ sent' = IF ok2 THEN Append(sent1, [data |-> ps, close |-> TRUE, batch |-> FALSE])
                               ELSE sent1
                    /\ flowClosed' = (flowClosed \/ ok2)
                    /\ failures' = IF ok2 \/ flowClosed THEN failures ELSE failures + 1
                    /\ HandleError(ok2, <<>>)
                    /\ pendingOk' = IF ok2 THEN pendingOk ELSE {}
<1>1. /\ BufFits /\ buf \in Seq(Payload) /\ sent \in Seq(Chunk) /\ D \in Seq(Payload)
      /\ nextId \in Nat /\ SentOK(sent) /\ OrderOf(D, buf, parts, nextId)
      /\ pendingOk \subseteq IdsOf(D) \cup IdsOf(buf)
  BY DInvFacts
<1>2. parts = <<>> /\ parts' = <<>>
  BY DEF WriteMsgAndClose, Call, Unlocked
<1>3. PICK n \in 1 .. MaxParts :
         /\ nextId' = nextId + n
         /\ \E ps \in NewPayloads(n), ok1 \in WriteOutcomes : Step(ps, ok1)
  BY DEF WriteMsgAndClose
<1>4. PICK ps \in NewPayloads(n), ok1 \in WriteOutcomes : Step(ps, ok1)
  BY <1>3
<1>5. /\ n \in Nat /\ nextId' \in Nat /\ nextId <= nextId'
      /\ ps \in Seq(Payload) /\ Increasing(ps)
      /\ \A x \in IdsOf(ps) : nextId <= x /\ x < nextId + n
  <2>1. n \in Nat
    BY BufferingFlowAssumption
  <2>2. QED
    BY <1>1, <1>3, <2>1, NewPayloadsFacts
<1>6. CASE buf # <<>> /\ ~ok1
  <2>1. /\ sent' = IF FALSE THEN Append(sent, BufChunk(FALSE)) ELSE sent
        /\ buf' = <<>>
        /\ pendingOk' = IF FALSE THEN pendingOk ELSE {}
    BY <1>4, <1>6 DEF UnderlyingWrite, HandleError
  <2>2. FALSE \in BOOLEAN
    OBVIOUS
  <2>3. QED
    BY <1>2, <1>5, <2>1, <2>2, SendBufData, Zenon
<1>7. CASE ~(buf # <<>> /\ ~ok1)
  <2> DEFINE sent1 == IF buf # <<>> THEN Append(sent, BufChunk(FALSE)) ELSE sent
             c2 == [data |-> ps, close |-> TRUE, batch |-> FALSE]
  <2>1. sent1 \in Seq(Chunk) /\ SentOK(sent1) /\ DeliveredOf(sent1) = D \o buf
    <3>1. CASE buf # <<>>
      <4>1. /\ BufChunk(FALSE) \in Chunk /\ BufChunk(FALSE).data = buf
            /\ BufChunk(FALSE).batch => BytesOf(BufChunk(FALSE).data) <= MTU
                                        \/ Len(BufChunk(FALSE).data) <= 1
        BY <1>1, BufChunkOK DEF BufChunk
      <4>2. QED
        BY <1>1, <3>1, <4>1, SentOKAppend, DeliveredOfAppend, AppendProperties
    <3>2. CASE buf = <<>>
      BY <1>1, <3>2, ConcatEmptySeq
    <3>3. QED
      BY <3>1, <3>2
  <2>2. PICK ok2 \in WriteOutcomes :
          /\ sent' = IF ok2 THEN Append(sent1, c2) ELSE sent1
          /\ HandleError(ok2, <<>>)
          /\ pendingOk' = IF ok2 THEN pendingOk ELSE {}
    BY <1>4, <1>7 DEF BufChunk
  <2>3. BufOK' /\ BufFits' /\ buf' = <<>> /\ IdsOf(buf') = {}
    BY <2>2, IdsOfEmpty DEF HandleError, BufOK, BufFits
  <2>4. D \o buf \in Seq(Payload) /\ IdsOf(D \o buf) = IdsOf(D) \cup IdsOf(buf)
    BY <1>1, IdsOfConcat
  <2>5. OrderOf(D, buf, <<>>, nextId)
    BY <1>1, <1>2
  <2>6. CASE ok2
    <3>1. c2 \in Chunk /\ ~c2.batch
      BY <1>5 DEF Chunk
    <3>2. sent' = Append(sent1, c2)
      BY <2>2, <2>6
    <3>3. SentOK(sent') /\ DeliveredOf(sent') = (D \o buf) \o ps
      BY <2>1, <3>1, <3>2, SentOKAppend, DeliveredOfAppend
    <3>4. OrderOf((D \o buf) \o ps, <<>>, <<>>, nextId + n)
      BY <1>1, <1>5, <2>5, OrderNew
    <3>5. IdsOf((D \o buf) \o ps) = IdsOf(D \o buf) \cup IdsOf(ps)
      BY <1>5, <2>4, IdsOfConcat
    <3>6. pendingOk' \subseteq IdsOf(DeliveredOf(sent')) \cup IdsOf(buf')
      BY <1>1, <2>2, <2>4, <2>6, <3>3, <3>5
    <3>7. QED
      BY <1>2, <1>3, <2>3, <3>3, <3>4, <3>6, DataAssemble
  <2>7. CASE ~ok2
    <3>1. sent' = sent1 /\ pendingOk' = {}
      BY <2>2, <2>7
    <3>2. OrderOf(D \o buf, <<>>, <<>>, nextId')
      <4>1. <<>> \in Seq(Payload)
        OBVIOUS
      <4>2. QED
        BY <1>1, <1>5, <2>5, <4>1, OrderDrop, Zenon
    <3>3. QED
      BY <1>2, <2>1, <2>3, <3>1, <3>2, DataAssemble
  <2>8. QED
    BY <2>6, <2>7, WriteOutcomeFacts
<1>8. QED
  BY <1>6, <1>7


-----------------------------------------------------------------------------
(* DInv is inductive.                                                      *)

LEMMA DInvInit == Init => DInv
<1> SUFFICES ASSUME Init PROVE DInv
  OBVIOUS
<1>1. IInv
  BY IInvInit
<1>2. sent = <<>> /\ buf = <<>> /\ parts = <<>> /\ nextId = 1 /\ pendingOk = {}
  BY DEF Init
<1>3. DeliveredOf(sent) = <<>> /\ IdsOf(<<>>) = {} /\ Increasing(<<>>)
  BY <1>2, DeliveredOfEmpty, IdsOfEmpty
<1>4. BufOK /\ BufFits /\ SentWithinMTU
  BY <1>2 DEF BufOK, BufFits, SentWithinMTU
<1>5. Order /\ NoSilentLoss
  BY <1>2, <1>3, DeliveredIsOf DEF Order, OrderOf, AllBelow, NoSilentLoss
<1>6. QED
  BY <1>1, <1>4, <1>5 DEF DInv

LEMMA DInvStep == DInv /\ [Next]_vars => DInv'
<1> SUFFICES ASSUME DInv, [Next]_vars PROVE DInv'
  OBVIOUS
<1>1. IInv'
  BY IInvStep DEF DInv
<1>2. DataOK'
  <2>1. CASE Write
    BY <2>1, WriteData
  <2>2. CASE WriteMsgBegin
    BY <2>2, WriteMsgBeginData
  <2>3. CASE WriteMsgStep
    BY <2>3, WriteMsgStepData
  <2>4. CASE Flush
    BY <2>4, FlushData
  <2>5. CASE Close
    BY <2>5, CloseData
  <2>6. CASE WriteMsgAndClose
    BY <2>6, WriteMsgAndCloseData
  <2>7. CASE UNCHANGED vars
    <3>1. /\ BufOK /\ BufFits /\ SentOK(sent)
          /\ OrderOf(DeliveredOf(sent), buf, parts, nextId)
          /\ pendingOk \subseteq IdsOf(DeliveredOf(sent)) \cup IdsOf(buf)
      BY DInvFacts
    <3>2. BufOK' /\ BufFits'
      BY <2>7, <3>1 DEF vars, BufOK, BufFits
    <3>3. QED
      BY <2>7, <3>1, <3>2, DataAssemble DEF vars
  <2>8. QED
    BY <2>1, <2>2, <2>3, <2>4, <2>5, <2>6, <2>7 DEF Next
<1>3. QED
  BY <1>1, <1>2 DEF DInv, DataOK

-----------------------------------------------------------------------------
(* Theorems.                                                               *)

\* appendLocked writes b.buf out before it would reach the MTU, and Flush,
\* Close and WriteMsgAndClose write out a buffer that stayed below it: every
\* batch the underlying flow sends is at most an MTU, or a single payload.
THEOREM SentWithinMTUHolds == Spec => []SentWithinMTU
<1>1. DInv => SentWithinMTU
  BY DEF DInv
<1>2. QED
  BY <1>1, DInvInit, DInvStep, PTL DEF Spec

\* Whatever writes fail and however Write, WriteMsg, Flush, Close and
\* WriteMsgAndClose interleave, the payloads reach the underlying flow in
\* the order they were written, and those still in b.buf come after them.
THEOREM InOrderHolds == Spec => []InOrder
<1>1. DInv => InOrder
  <2> SUFFICES ASSUME DInv PROVE InOrder
    OBVIOUS
  <2>1. Delivered \in Seq(Payload) /\ buf \in Seq(Payload) /\ Order
    BY DInvFacts, DeliveredIsOf DEF DInv
  <2>2. QED
    BY <2>1, InOrderFromOrder
<1>2. QED
  BY <1>1, DInvInit, DInvStep, PTL DEF Spec

\* No payload is silently lost: one that Write or WriteMsg accepted without
\* an error has been sent or is still in b.buf, unless a later call
\* (Flush, Close, a write-out in appendLocked) returned an error.
THEOREM NoSilentLossHolds == Spec => []NoSilentLoss
<1>1. DInv => NoSilentLoss
  BY DEF DInv
<1>2. QED
  BY <1>1, DInvInit, DInvStep, PTL DEF Spec

=============================================================================
