------------------------------ MODULE ListProofs ----------------------------
(***************************************************************************)
(* Proofs about Lists: that the pointers of the lists and of the sleep     *)
(* queue always amount to sequences of threads, and that what the          *)
(* operations do to these sequences, and the relative times to the ticks   *)
(* each sleeper has left, is what Queues promises.                         *)
(***************************************************************************)
EXTENDS Lists, SequenceTheorems, Induction, TLAPS

Memories ==
  [head : [List -> TCB \cup {NULL}], tail : [List -> TCB \cup {NULL}],
   next : [TCB -> TCB \cup {NULL}],  prev : [TCB -> TCB \cup {NULL}],
   sleep_for : [TCB -> Int]]

-----------------------------------------------------------------------------
(* Sequences, with a thread put in or taken out at a place.                *)

At(s, i) == IF i \in 1..Len(s) THEN s[i] ELSE NULL

Inserted(s, p, t) ==
  [i \in 1..Len(s) + 1 |-> IF i <= p THEN s[i] ELSE IF i = p + 1 THEN t ELSE s[i-1]]

Removed(s, p) == [i \in 1..Len(s) - 1 |-> IF i < p THEN s[i] ELSE s[i+1]]

LEMMA InsertedSeq ==
  ASSUME NEW s \in Seq(TCB), NEW p \in 0..Len(s), NEW t \in TCB
  PROVE  Inserted(s, p, t) \in Seq(TCB) /\ Len(Inserted(s, p, t)) = Len(s) + 1
<1>1. Len(s) \in Nat /\ \A i \in 1..Len(s) : s[i] \in TCB
  OBVIOUS
<1>2. \A i \in 1..Len(s) + 1 : Inserted(s, p, t)[i] \in TCB
  BY <1>1 DEF Inserted
<1>3. Inserted(s, p, t) \in [1..Len(s) + 1 -> TCB]
  BY <1>2 DEF Inserted
<1>. QED  BY <1>1, <1>3, IsASeq, LenProperties

LEMMA InsertedPlaces ==
  ASSUME NEW s \in Seq(TCB), NEW p \in 0..Len(s), NEW t \in TCB
  PROVE  /\ \A i \in 1..p : Inserted(s, p, t)[i] = s[i]
         /\ Inserted(s, p, t)[p + 1] = t
         /\ \A i \in p + 1..Len(s) : Inserted(s, p, t)[i + 1] = s[i]
<1>. Len(s) \in Nat
  OBVIOUS
<1>. QED  BY DEF Inserted

LEMMA RemovedSeq ==
  ASSUME NEW s \in Seq(TCB), NEW p \in 1..Len(s)
  PROVE  Removed(s, p) \in Seq(TCB) /\ Len(Removed(s, p)) = Len(s) - 1
<1>1. Len(s) \in Nat \ {0} /\ \A i \in 1..Len(s) : s[i] \in TCB
  OBVIOUS
<1>2. \A i \in 1..Len(s) - 1 : Removed(s, p)[i] \in TCB
  BY <1>1 DEF Removed
<1>3. Removed(s, p) \in [1..Len(s) - 1 -> TCB]
  BY <1>2 DEF Removed
<1>. QED  BY <1>1, <1>3, IsASeq, LenProperties

LEMMA RemovedPlaces ==
  ASSUME NEW s \in Seq(TCB), NEW p \in 1..Len(s)
  PROVE  /\ \A i \in 1..p - 1 : Removed(s, p)[i] = s[i]
         /\ \A i \in p..Len(s) - 1 : Removed(s, p)[i] = s[i + 1]
<1>. Len(s) \in Nat
  OBVIOUS
<1>. QED  BY DEF Removed

LEMMA SameSeq ==
  ASSUME NEW s \in Seq(TCB), NEW u \in Seq(TCB), Len(s) = Len(u),
         \A i \in 1..Len(s) : s[i] = u[i]
  PROVE  s = u
BY SeqEqual

(* The ends.                                                               *)
LEMMA InsertedAtEnds ==
  ASSUME NEW s \in Seq(TCB), NEW t \in TCB
  PROVE  Inserted(s, Len(s), t) = Append(s, t) /\ Inserted(s, 0, t) = <<t>> \o s
<1>1. Len(s) \in Nat /\ Len(s) \in 0..Len(s) /\ Append(s, t) \in Seq(TCB) /\ <<t>> \o s \in Seq(TCB)
  OBVIOUS
<1>2. Len(Append(s, t)) = Len(s) + 1 /\ Len(<<t>> \o s) = Len(s) + 1
  OBVIOUS
<1>3. Inserted(s, Len(s), t) = Append(s, t)
  <2>1. \A i \in 1..Len(s) + 1 : Inserted(s, Len(s), t)[i] = Append(s, t)[i]
    BY <1>1 DEF Inserted
  <2>2. Inserted(s, Len(s), t) \in Seq(TCB) /\ Len(Inserted(s, Len(s), t)) = Len(s) + 1
    BY <1>1, InsertedSeq
  <2>. QED  BY <1>1, <1>2, <2>1, <2>2, SameSeq
<1>4. Inserted(s, 0, t) = <<t>> \o s
  <2>1. \A i \in 1..Len(s) + 1 : Inserted(s, 0, t)[i] = (<<t>> \o s)[i]
    BY <1>1, ConcatProperties DEF Inserted
  <2>2. Inserted(s, 0, t) \in Seq(TCB) /\ Len(Inserted(s, 0, t)) = Len(s) + 1
    BY <1>1, InsertedSeq
  <2>. QED  BY <1>1, <1>2, <2>1, <2>2, SameSeq
<1>. QED  BY <1>3, <1>4

LEMMA RemovedAtEnds ==
  ASSUME NEW s \in Seq(TCB), s # <<>>
  PROVE  Removed(s, 1) = Tail(s) /\ Removed(s, Len(s)) = SubSeq(s, 1, Len(s) - 1)
<1>1. Len(s) \in Nat \ {0} /\ Tail(s) \in Seq(TCB) /\ Len(Tail(s)) = Len(s) - 1
  BY HeadTailProperties, EmptySeq, LenProperties
<1>2. SubSeq(s, 1, Len(s) - 1) \in Seq(TCB) /\ Len(SubSeq(s, 1, Len(s) - 1)) = Len(s) - 1
  BY <1>1, SubSeqProperties
<1>3. 1 \in 1..Len(s) /\ Len(s) \in 1..Len(s)
  BY <1>1
<1>4. Removed(s, 1) = Tail(s)
  <2>1. \A i \in 1..Len(s) - 1 : Removed(s, 1)[i] = Tail(s)[i]
    BY <1>1, HeadTailProperties DEF Removed
  <2>2. Removed(s, 1) \in Seq(TCB) /\ Len(Removed(s, 1)) = Len(s) - 1
    BY <1>1, <1>3, RemovedSeq
  <2>. QED  BY <1>1, <2>1, <2>2, SameSeq
<1>5. Removed(s, Len(s)) = SubSeq(s, 1, Len(s) - 1)
  <2>1. \A i \in 1..Len(s) - 1 : Removed(s, Len(s))[i] = SubSeq(s, 1, Len(s) - 1)[i]
    BY <1>1, SubSeqProperties DEF Removed
  <2>2. Removed(s, Len(s)) \in Seq(TCB) /\ Len(Removed(s, Len(s))) = Len(s) - 1
    BY <1>1, <1>3, RemovedSeq
  <2>. QED  BY <1>2, <2>1, <2>2, SameSeq
<1>. QED  BY <1>4, <1>5

-----------------------------------------------------------------------------
(* The sequences W that the pointers of m amount to.                       *)

OnceEach(W) ==
  \A l, k \in List : \A i \in 1..Len(W[l]), j \in 1..Len(W[k]) :
    W[l][i] = W[k][j] => l = k /\ i = j

Absent(t, W) == \A l \in List : \A i \in 1..Len(W[l]) : W[l][i] # t

Linked(m, W) ==
  \A l \in List :
    /\ m.head[l] = At(W[l], 1) /\ m.tail[l] = At(W[l], Len(W[l]))
    /\ \A i \in 1..Len(W[l]) :
         m.prev[W[l][i]] = At(W[l], i - 1) /\ m.next[W[l][i]] = At(W[l], i + 1)

Shape(m, W) ==
  m \in Memories /\ W \in [List -> Seq(TCB)] /\ OnceEach(W) /\ Linked(m, W)

(* What a pointer from one thread to another must be after a thread is put *)
(* between the places p and p + 1 of a list.                               *)
InsertedAt(m, n, l, s, p, t) ==
  /\ n.head = IF p = 0 THEN [m.head EXCEPT ![l] = t] ELSE m.head
  /\ n.tail = IF p = Len(s) THEN [m.tail EXCEPT ![l] = t] ELSE m.tail
  /\ \A u \in TCB : n.next[u] = IF u = t THEN At(s, p + 1)
                                ELSE IF u = At(s, p) THEN t ELSE m.next[u]
  /\ \A u \in TCB : n.prev[u] = IF u = t THEN At(s, p)
                                ELSE IF u = At(s, p + 1) THEN t ELSE m.prev[u]

LEMMA Once ==
  ASSUME NEW W, OnceEach(W), NEW l \in List, NEW k \in List,
         NEW i \in 1..Len(W[l]), NEW j \in 1..Len(W[k]), W[l][i] = W[k][j]
  PROVE  l = k /\ i = j
BY DEF OnceEach

LEMMA InsertKeepsOnce ==
  ASSUME NEW W \in [List -> Seq(TCB)], OnceEach(W), NEW l \in List, NEW t \in TCB,
         Absent(t, W), NEW p \in 0..Len(W[l])
  PROVE  OnceEach([W EXCEPT ![l] = Inserted(W[l], p, t)])
<1>. DEFINE V == [W EXCEPT ![l] = Inserted(W[l], p, t)]
            old(k, i) == IF k = l /\ i > p THEN i - 1 ELSE i
<1>1. V[l] = Inserted(W[l], p, t) /\ \A k \in List \ {l} : V[k] = W[k]
  OBVIOUS
<1>2. \A k \in List : W[k] \in Seq(TCB) /\ Len(W[k]) \in Nat
  OBVIOUS
<1>3. Len(V[l]) = Len(W[l]) + 1 /\ V[l][p + 1] = t
  BY <1>1, <1>2, InsertedSeq, InsertedPlaces
<1>4. ASSUME NEW k \in List, NEW i \in 1..Len(V[k]), ~(k = l /\ i = p + 1)
      PROVE  old(k, i) \in 1..Len(W[k]) /\ V[k][i] = W[k][old(k, i)]
  <2>1. CASE k # l
    BY <1>1, <2>1
  <2>2. CASE k = l
    <3>1. CASE i <= p
      BY <1>1, <1>2, <2>2, <3>1, InsertedPlaces
    <3>2. CASE i > p + 1
      <4>1. i - 1 \in p + 1..Len(W[l]) /\ (i - 1) + 1 = i
        BY <1>2, <1>3, <2>2, <3>2
      <4>2. V[l][i] = W[l][i - 1]
        BY <1>1, <1>2, <4>1, InsertedPlaces
      <4>. QED  BY <1>2, <2>2, <3>2, <4>1, <4>2
    <3>. QED  BY <1>2, <1>3, <1>4, <2>2, <3>1, <3>2
  <2>. QED  BY <2>1, <2>2
<1>. HIDE DEF V
<1>5. ASSUME NEW k \in List, NEW j \in List, NEW i \in 1..Len(V[k]), NEW h \in 1..Len(V[j]),
             V[k][i] = V[j][h]
      PROVE  k = j /\ i = h
  <2>1. CASE ~(k = l /\ i = p + 1) /\ ~(j = l /\ h = p + 1)
    <3>1. /\ old(k, i) \in 1..Len(W[k]) /\ V[k][i] = W[k][old(k, i)]
          /\ old(j, h) \in 1..Len(W[j]) /\ V[j][h] = W[j][old(j, h)]
      BY <1>4, <2>1
    <3>. HIDE DEF old
    <3>2. k = j /\ old(k, i) = old(j, h)
      <4>1. W[k][old(k, i)] = W[j][old(j, h)]
        BY <1>5, <3>1
      <4>. QED  BY <3>1, <4>1, Once
    <3>3. i \in Int /\ h \in Int /\ (k = l => i # p + 1 /\ h # p + 1)
      BY <2>1, <3>2
    <3>4. i = h
      BY <3>2, <3>3 DEF old
    <3>. QED  BY <3>2, <3>4
  <2>2. CASE (k = l /\ i = p + 1) /\ ~(j = l /\ h = p + 1)
    <3>1. old(j, h) \in 1..Len(W[j]) /\ V[j][h] = W[j][old(j, h)] /\ V[k][i] = t
      BY <1>3, <1>4, <2>2
    <3>. QED  BY <1>5, <3>1 DEF Absent
  <2>3. CASE ~(k = l /\ i = p + 1) /\ (j = l /\ h = p + 1)
    <3>1. old(k, i) \in 1..Len(W[k]) /\ V[k][i] = W[k][old(k, i)] /\ V[j][h] = t
      BY <1>3, <1>4, <2>3
    <3>. QED  BY <1>5, <3>1 DEF Absent
  <2>. QED  BY <2>1, <2>2, <2>3
<1>. QED  BY <1>5 DEF OnceEach, V

LEMMA AtInserted ==
  ASSUME NEW s \in Seq(TCB), NEW p \in 0..Len(s), NEW t \in TCB, NEW i \in Int
  PROVE  At(Inserted(s, p, t), i) =
           IF i <= p THEN At(s, i) ELSE IF i = p + 1 THEN t ELSE At(s, i - 1)
<1>1. Len(s) \in Nat /\ Len(Inserted(s, p, t)) = Len(s) + 1
  BY InsertedSeq
<1>2. CASE i <= p
  BY <1>1, <1>2, InsertedPlaces DEF At
<1>3. CASE i = p + 1
  BY <1>1, <1>3, InsertedPlaces DEF At
<1>4. CASE i > p + 1
  <2>1. i - 1 \in Int /\ (i - 1) + 1 = i
    OBVIOUS
  <2>2. i - 1 \in p + 1..Len(s) => Inserted(s, p, t)[i] = s[i - 1]
    BY <2>1, InsertedPlaces
  <2>. QED  BY <1>1, <1>4, <2>1, <2>2 DEF At
<1>. QED  BY <1>2, <1>3, <1>4

LEMMA AtThread ==
  ASSUME NEW s \in Seq(TCB), NEW i \in Int
  PROVE  /\ At(s, i) \in TCB \cup {NULL}
         /\ At(s, i) \in TCB <=> i \in 1..Len(s)
BY ListAssumption DEF At

LEMMA AtNull ==
  ASSUME NEW s \in Seq(TCB), NEW i \in Int
  PROVE  At(s, i) = NULL <=> i \notin 1..Len(s)
BY ListAssumption DEF At

(* A thread of one list is at no place of another.                         *)
LEMMA AtOnce ==
  ASSUME NEW W \in [List -> Seq(TCB)], OnceEach(W), NEW l \in List, NEW k \in List,
         NEW i \in 1..Len(W[k]), NEW p \in Int, W[k][i] = At(W[l], p)
  PROVE  k = l /\ i = p
<1>1. W[k] \in Seq(TCB) /\ W[l] \in Seq(TCB) /\ W[k][i] \in TCB
  OBVIOUS
<1>2. p \in 1..Len(W[l])
  BY <1>1, AtThread
<1>3. W[k][i] = W[l][p]
  BY <1>2 DEF At
<1>. QED  BY <1>2, <1>3, Once

LEMMA InsertKeeps ==
  ASSUME NEW m, NEW W, Shape(m, W), NEW l \in List, NEW t \in TCB, Absent(t, W),
         NEW p \in 0..Len(W[l]), NEW n \in Memories, InsertedAt(m, n, l, W[l], p, t)
  PROVE  Shape(n, [W EXCEPT ![l] = Inserted(W[l], p, t)])
<1>. DEFINE V == [W EXCEPT ![l] = Inserted(W[l], p, t)]
            s == W[l]
<1>1. m \in Memories /\ W \in [List -> Seq(TCB)] /\ OnceEach(W) /\ Linked(m, W)
  BY DEF Shape
<1>2. /\ V[l] = Inserted(s, p, t) /\ \A k \in List \ {l} : V[k] = W[k]
      /\ s \in Seq(TCB) /\ Len(s) \in Nat
  BY <1>1
<1>3. Inserted(s, p, t) \in Seq(TCB) /\ Len(Inserted(s, p, t)) = Len(s) + 1
  BY <1>2, InsertedSeq
<1>10. V \in [List -> Seq(TCB)] /\ Len(V[l]) = Len(s) + 1
  BY <1>1, <1>2, <1>3
<1>11. /\ \A u \in TCB : n.next[u] = IF u = t THEN At(s, p + 1)
                                     ELSE IF u = At(s, p) THEN t ELSE m.next[u]
       /\ \A u \in TCB : n.prev[u] = IF u = t THEN At(s, p)
                                     ELSE IF u = At(s, p + 1) THEN t ELSE m.prev[u]
  BY DEF InsertedAt
<1>4. \A i \in Int : At(V[l], i) = IF i <= p THEN At(s, i) ELSE IF i = p + 1 THEN t ELSE At(s, i - 1)
  BY <1>2, AtInserted
<1>5. OnceEach(V)
  BY <1>1, InsertKeepsOnce
<1>. HIDE DEF V
<1>6. ASSUME NEW k \in List
      PROVE  n.head[k] = At(V[k], 1) /\ n.tail[k] = At(V[k], Len(V[k]))
  <2>1. m.head[k] = At(W[k], 1) /\ m.tail[k] = At(W[k], Len(W[k]))
    BY <1>1 DEF Linked
  <2>2. m.head \in [List -> TCB \cup {NULL}] /\ m.tail \in [List -> TCB \cup {NULL}]
    BY <1>1 DEF Memories
  <2>3. CASE k # l
    BY <1>2, <2>1, <2>2, <2>3 DEF InsertedAt
  <2>4. CASE k = l
    <3>1. n.head[l] = IF p = 0 THEN t ELSE At(s, 1)
      BY <2>1, <2>2, <2>4 DEF InsertedAt
    <3>2. n.tail[l] = IF p = Len(s) THEN t ELSE At(s, Len(s))
      BY <2>1, <2>2, <2>4 DEF InsertedAt
    <3>3. At(V[l], 1) = IF p = 0 THEN t ELSE At(s, 1)
      BY <1>4
    <3>4. At(V[l], Len(V[l])) = IF p = Len(s) THEN t ELSE At(s, Len(s))
      BY <1>2, <1>10, <1>4
    <3>. QED  BY <2>4, <3>1, <3>2, <3>3, <3>4
  <2>. QED  BY <2>3, <2>4
<1>7. ASSUME NEW k \in List, NEW i \in 1..Len(W[k])
      PROVE  /\ W[k][i] \in TCB /\ W[k][i] # t
             /\ m.prev[W[k][i]] = At(W[k], i - 1) /\ m.next[W[k][i]] = At(W[k], i + 1)
             /\ W[k][i] = At(s, p) => k = l /\ i = p
             /\ W[k][i] = At(s, p + 1) => k = l /\ i = p + 1
  <2>1. W[k][i] \in TCB /\ W[k][i] # t
    BY <1>1 DEF Absent
  <2>2. m.prev[W[k][i]] = At(W[k], i - 1) /\ m.next[W[k][i]] = At(W[k], i + 1)
    BY <1>1 DEF Linked
  <2>3. p \in Int /\ p + 1 \in Int
    BY <1>2
  <2>4. W[k][i] = At(s, p) => k = l /\ i = p
    BY <1>1, <2>3, AtOnce
  <2>5. W[k][i] = At(s, p + 1) => k = l /\ i = p + 1
    BY <1>1, <2>3, AtOnce
  <2>. QED  BY <2>1, <2>2, <2>4, <2>5
<1>12. ASSUME NEW k \in List, NEW i \in 1..Len(W[k])
       PROVE  /\ n.next[W[k][i]] = IF k = l /\ i = p THEN t ELSE At(W[k], i + 1)
              /\ n.prev[W[k][i]] = IF k = l /\ i = p + 1 THEN t ELSE At(W[k], i - 1)
  <2>. DEFINE u == W[k][i]
  <2>1. /\ u \in TCB /\ u # t
        /\ m.prev[u] = At(W[k], i - 1) /\ m.next[u] = At(W[k], i + 1)
    BY <1>7
  <2>2. u = At(s, p) <=> k = l /\ i = p
    BY <1>7 DEF At
  <2>3. u = At(s, p + 1) <=> k = l /\ i = p + 1
    BY <1>7 DEF At
  <2>. HIDE DEF u
  <2>4. n.next[u] = IF u = At(s, p) THEN t ELSE m.next[u]
    BY <1>11, <2>1
  <2>5. n.prev[u] = IF u = At(s, p + 1) THEN t ELSE m.prev[u]
    BY <1>11, <2>1
  <2>6. n.next[u] = IF k = l /\ i = p THEN t ELSE At(W[k], i + 1)
    BY <2>1, <2>2, <2>4
  <2>7. n.prev[u] = IF k = l /\ i = p + 1 THEN t ELSE At(W[k], i - 1)
    BY <2>1, <2>3, <2>5
  <2>. QED  BY <2>6, <2>7 DEF u
<1>8. ASSUME NEW k \in List, NEW i \in 1..Len(V[k])
      PROVE  n.prev[V[k][i]] = At(V[k], i - 1) /\ n.next[V[k][i]] = At(V[k], i + 1)
  <2>1. CASE k # l
    <3>1. V[k] = W[k] /\ i \in 1..Len(W[k])
      BY <1>2, <2>1
    <3>. QED  BY <1>12, <2>1, <3>1
  <2>2. CASE k = l /\ i = p + 1
    <3>1. V[l][i] = t
      BY <1>2, <2>2, InsertedPlaces
    <3>2. n.prev[t] = At(s, p) /\ n.next[t] = At(s, p + 1)
      BY <1>11
    <3>3. At(V[l], i - 1) = At(s, p) /\ At(V[l], i + 1) = At(s, p + 1)
      BY <1>4, <2>2
    <3>. QED  BY <2>2, <3>1, <3>2, <3>3
  <2>3. CASE k = l /\ i <= p
    <3>1. i \in 1..p /\ i \in 1..Len(s)
      BY <1>2, <1>10, <2>3
    <3>2. V[l][i] = s[i]
      BY <1>2, <3>1, InsertedPlaces
    <3>3. n.prev[s[i]] = At(s, i - 1) /\ n.next[s[i]] = IF i = p THEN t ELSE At(s, i + 1)
      BY <1>12, <2>3, <3>1
    <3>4. At(V[l], i - 1) = At(s, i - 1) /\ At(V[l], i + 1) = IF i = p THEN t ELSE At(s, i + 1)
      BY <1>4, <2>3
    <3>. QED  BY <2>3, <3>2, <3>3, <3>4
  <2>4. CASE k = l /\ i > p + 1
    <3>1. PICK j \in p + 1..Len(s) : j = i - 1 /\ j + 1 = i
      BY <1>2, <1>10, <2>4
    <3>2. V[l][j + 1] = s[j]
      <4>1. \A h \in p + 1..Len(s) : Inserted(s, p, t)[h + 1] = s[h]
        BY <1>2, InsertedPlaces
      <4>. QED  BY <1>2, <4>1
    <3>3. At(V[l], i - 1) = (IF j = p + 1 THEN t ELSE At(s, j - 1)) /\ At(V[l], i + 1) = At(s, j + 1)
      BY <1>4, <2>4, <3>1
    <3>4. n.next[s[j]] = At(s, j + 1) /\ n.prev[s[j]] = IF j = p + 1 THEN t ELSE At(s, j - 1)
      <4>1. j \in 1..Len(s) /\ j # p
        BY <1>2
      <4>. QED  BY <1>12, <4>1
    <3>. QED  BY <2>4, <3>1, <3>2, <3>3, <3>4
  <2>. QED  BY <1>10, <2>1, <2>2, <2>3, <2>4
<1>9. Linked(n, V)
  BY <1>6, <1>8 DEF Linked
<1>. QED  BY <1>10, <1>5, <1>9 DEF Shape, V

(* The same when the thread at place p is taken out; its own pointers do   *)
(* not matter.                                                             *)
RemovedAt(m, n, l, s, p) ==
  /\ n.head = IF p = 1 THEN [m.head EXCEPT ![l] = At(s, 2)] ELSE m.head
  /\ n.tail = IF p = Len(s) THEN [m.tail EXCEPT ![l] = At(s, Len(s) - 1)] ELSE m.tail
  /\ \A u \in TCB \ {s[p]} :
       /\ n.next[u] = IF u = At(s, p - 1) THEN At(s, p + 1) ELSE m.next[u]
       /\ n.prev[u] = IF u = At(s, p + 1) THEN At(s, p - 1) ELSE m.prev[u]

LEMMA AtRemoved ==
  ASSUME NEW s \in Seq(TCB), NEW p \in 1..Len(s), NEW i \in Int
  PROVE  At(Removed(s, p), i) = IF i < p THEN At(s, i) ELSE At(s, i + 1)
<1>1. Len(s) \in Nat /\ Len(Removed(s, p)) = Len(s) - 1
  BY RemovedSeq
<1>2. CASE i < p
  BY <1>1, <1>2, RemovedPlaces DEF At
<1>3. CASE i >= p
  BY <1>1, <1>3, RemovedPlaces DEF At
<1>. QED  BY <1>2, <1>3

LEMMA RemoveKeepsOnce ==
  ASSUME NEW W \in [List -> Seq(TCB)], OnceEach(W), NEW l \in List, NEW p \in 1..Len(W[l])
  PROVE  /\ OnceEach([W EXCEPT ![l] = Removed(W[l], p)])
         /\ Absent(W[l][p], [W EXCEPT ![l] = Removed(W[l], p)])
<1>. DEFINE V == [W EXCEPT ![l] = Removed(W[l], p)]
            old(k, i) == IF k = l /\ i >= p THEN i + 1 ELSE i
<1>1. V[l] = Removed(W[l], p) /\ \A k \in List \ {l} : V[k] = W[k]
  OBVIOUS
<1>2. \A k \in List : W[k] \in Seq(TCB) /\ Len(W[k]) \in Nat
  OBVIOUS
<1>3. Len(V[l]) = Len(W[l]) - 1
  BY <1>1, <1>2, RemovedSeq
<1>4. ASSUME NEW k \in List, NEW i \in 1..Len(V[k])
      PROVE  /\ old(k, i) \in 1..Len(W[k]) /\ V[k][i] = W[k][old(k, i)]
             /\ ~(k = l /\ old(k, i) = p)
  <2>1. CASE k # l
    BY <1>1, <2>1
  <2>2. CASE k = l /\ i < p
    <3>1. i \in 1..p - 1
      BY <2>2
    <3>. QED  BY <1>1, <1>2, <2>2, <3>1, RemovedPlaces
  <2>3. CASE k = l /\ i >= p
    <3>1. i \in p..Len(W[l]) - 1 /\ i + 1 \in 1..Len(W[l])
      BY <1>2, <1>3, <2>3
    <3>2. V[l][i] = W[l][i + 1]
      BY <1>1, <1>2, <3>1, RemovedPlaces
    <3>. QED  BY <2>3, <3>1, <3>2
  <2>. QED  BY <2>1, <2>2, <2>3
<1>. HIDE DEF V
<1>5. ASSUME NEW k \in List, NEW j \in List, NEW i \in 1..Len(V[k]), NEW h \in 1..Len(V[j]),
             V[k][i] = V[j][h]
      PROVE  k = j /\ i = h
  <2>1. /\ old(k, i) \in 1..Len(W[k]) /\ V[k][i] = W[k][old(k, i)]
        /\ old(j, h) \in 1..Len(W[j]) /\ V[j][h] = W[j][old(j, h)]
    BY <1>4
  <2>. HIDE DEF old
  <2>2. k = j /\ old(k, i) = old(j, h)
    <3>1. W[k][old(k, i)] = W[j][old(j, h)]
      BY <1>5, <2>1
    <3>. QED  BY <2>1, <3>1, Once
  <2>. QED  BY <2>2 DEF old
<1>6. ASSUME NEW k \in List, NEW i \in 1..Len(V[k])
      PROVE  V[k][i] # W[l][p]
  <2>1. /\ old(k, i) \in 1..Len(W[k]) /\ V[k][i] = W[k][old(k, i)]
        /\ ~(k = l /\ old(k, i) = p)
    BY <1>4
  <2>. HIDE DEF old
  <2>. QED  BY <2>1, Once
<1>. QED  BY <1>5, <1>6 DEF OnceEach, Absent, V

LEMMA RemoveKeeps ==
  ASSUME NEW m, NEW W, Shape(m, W), NEW l \in List, NEW p \in 1..Len(W[l]),
         NEW n \in Memories, RemovedAt(m, n, l, W[l], p)
  PROVE  /\ Shape(n, [W EXCEPT ![l] = Removed(W[l], p)])
         /\ Absent(W[l][p], [W EXCEPT ![l] = Removed(W[l], p)])
<1>. DEFINE V == [W EXCEPT ![l] = Removed(W[l], p)]
            s == W[l]
<1>1. m \in Memories /\ W \in [List -> Seq(TCB)] /\ OnceEach(W) /\ Linked(m, W)
  BY DEF Shape
<1>2. /\ V[l] = Removed(s, p) /\ \A k \in List \ {l} : V[k] = W[k]
      /\ s \in Seq(TCB) /\ Len(s) \in Nat
  BY <1>1
<1>3. Removed(s, p) \in Seq(TCB) /\ Len(Removed(s, p)) = Len(s) - 1
  BY <1>2, RemovedSeq
<1>4. V \in [List -> Seq(TCB)] /\ Len(V[l]) = Len(s) - 1
  BY <1>1, <1>2, <1>3
<1>5. \A i \in Int : At(V[l], i) = IF i < p THEN At(s, i) ELSE At(s, i + 1)
  BY <1>2, AtRemoved
<1>6. ASSUME NEW i \in Int
       PROVE  /\ At(V[l], i - 1) = IF i <= p THEN At(s, i - 1) ELSE At(s, i)
              /\ At(V[l], i + 1) = IF i < p - 1 THEN At(s, i + 1) ELSE At(s, i + 2)
  <2>1. i - 1 \in Int /\ (i - 1) + 1 = i /\ i + 1 \in Int /\ (i + 1) + 1 = i + 2
    OBVIOUS
  <2>2. At(V[l], i - 1) = IF i - 1 < p THEN At(s, i - 1) ELSE At(s, (i - 1) + 1)
    BY <1>5, <2>1
  <2>3. At(V[l], i + 1) = IF i + 1 < p THEN At(s, i + 1) ELSE At(s, (i + 1) + 1)
    BY <1>5, <2>1
  <2>. QED  BY <2>1, <2>2, <2>3
<1>7. OnceEach(V) /\ Absent(s[p], V)
  BY <1>1, RemoveKeepsOnce
<1>8. \A u \in TCB \ {s[p]} :
        /\ n.next[u] = IF u = At(s, p - 1) THEN At(s, p + 1) ELSE m.next[u]
        /\ n.prev[u] = IF u = At(s, p + 1) THEN At(s, p - 1) ELSE m.prev[u]
  BY DEF RemovedAt
<1>. HIDE DEF V
<1>9. ASSUME NEW k \in List
      PROVE  n.head[k] = At(V[k], 1) /\ n.tail[k] = At(V[k], Len(V[k]))
  <2>1. m.head[k] = At(W[k], 1) /\ m.tail[k] = At(W[k], Len(W[k]))
    BY <1>1 DEF Linked
  <2>2. m.head \in [List -> TCB \cup {NULL}] /\ m.tail \in [List -> TCB \cup {NULL}]
    BY <1>1 DEF Memories
  <2>3. CASE k # l
    BY <1>2, <2>1, <2>2, <2>3 DEF RemovedAt
  <2>4. CASE k = l
    <3>1. n.head[l] = IF p = 1 THEN At(s, 2) ELSE At(s, 1)
      BY <2>1, <2>2, <2>4 DEF RemovedAt
    <3>2. n.tail[l] = IF p = Len(s) THEN At(s, Len(s) - 1) ELSE At(s, Len(s))
      BY <2>1, <2>2, <2>4 DEF RemovedAt
    <3>3. At(V[l], 1) = IF p = 1 THEN At(s, 2) ELSE At(s, 1)
      BY <1>5
    <3>4. At(V[l], Len(V[l])) = IF p = Len(s) THEN At(s, Len(s) - 1) ELSE At(s, Len(s))
      <4>1. Len(V[l]) = Len(s) - 1 /\ Len(s) \in Int /\ (p = Len(s) \/ p < Len(s))
        BY <1>2, <1>4
      <4>2. At(V[l], Len(s) - 1) = IF Len(s) <= p THEN At(s, Len(s) - 1) ELSE At(s, Len(s))
        BY <1>6, <4>1
      <4>. QED  BY <4>1, <4>2
    <3>. QED  BY <2>4, <3>1, <3>2, <3>3, <3>4
  <2>. QED  BY <2>3, <2>4
<1>10. ASSUME NEW k \in List, NEW i \in 1..Len(W[k]), ~(k = l /\ i = p)
      PROVE  /\ n.next[W[k][i]] = IF k = l /\ i = p - 1 THEN At(s, p + 1) ELSE At(W[k], i + 1)
             /\ n.prev[W[k][i]] = IF k = l /\ i = p + 1 THEN At(s, p - 1) ELSE At(W[k], i - 1)
  <2>. DEFINE u == W[k][i]
  <2>1. u \in TCB \ {s[p]}
    BY <1>1, <1>10, Once
  <2>2. m.prev[u] = At(W[k], i - 1) /\ m.next[u] = At(W[k], i + 1)
    BY <1>1 DEF Linked
  <2>3. p - 1 \in Int /\ p + 1 \in Int
    OBVIOUS
  <2>4. u = At(s, p - 1) => k = l /\ i = p - 1
    BY <1>1, <2>3, AtOnce
  <2>5. u = At(s, p + 1) => k = l /\ i = p + 1
    BY <1>1, <2>3, AtOnce
  <2>6. k = l => u = At(s, i)
    BY DEF At
  <2>. HIDE DEF u
  <2>7. /\ n.next[u] = IF u = At(s, p - 1) THEN At(s, p + 1) ELSE m.next[u]
        /\ n.prev[u] = IF u = At(s, p + 1) THEN At(s, p - 1) ELSE m.prev[u]
    BY <1>8, <2>1
  <2>8. n.next[u] = IF k = l /\ i = p - 1 THEN At(s, p + 1) ELSE At(W[k], i + 1)
    BY <2>2, <2>4, <2>6, <2>7
  <2>9. n.prev[u] = IF k = l /\ i = p + 1 THEN At(s, p - 1) ELSE At(W[k], i - 1)
    BY <2>2, <2>5, <2>6, <2>7
  <2>. QED  BY <2>8, <2>9 DEF u
<1>11. ASSUME NEW k \in List, NEW i \in 1..Len(V[k])
       PROVE  n.prev[V[k][i]] = At(V[k], i - 1) /\ n.next[V[k][i]] = At(V[k], i + 1)
  <2>1. CASE k # l
    <3>1. V[k] = W[k] /\ i \in 1..Len(W[k])
      BY <1>2, <2>1
    <3>. QED  BY <1>10, <2>1, <3>1
  <2>2. CASE k = l /\ i < p
    <3>1. i \in 1..p - 1 /\ i \in 1..Len(s) /\ i # p
      BY <1>2, <1>4, <2>2
    <3>2. V[l][i] = s[i]
      BY <1>2, <3>1, RemovedPlaces
    <3>3. n.prev[s[i]] = At(s, i - 1) /\ n.next[s[i]] = IF i = p - 1 THEN At(s, p + 1) ELSE At(s, i + 1)
      BY <1>10, <2>2, <3>1
    <3>4. At(V[l], i - 1) = At(s, i - 1) /\ At(V[l], i + 1) = IF i = p - 1 THEN At(s, p + 1) ELSE At(s, i + 1)
      <4>1. i \in Int /\ i <= p /\ (i = p - 1 => i + 2 = p + 1) /\ (i < p - 1 <=> i # p - 1)
        BY <2>2, <3>1
      <4>. QED  BY <1>6, <4>1
    <3>. QED  BY <2>2, <3>2, <3>3, <3>4
  <2>3. CASE k = l /\ i >= p
    <3>1. i \in p..Len(s) - 1 /\ i + 1 \in 1..Len(s) /\ i + 1 # p
      BY <1>2, <1>4, <2>3
    <3>2. V[l][i] = s[i + 1]
      <4>1. \A h \in p..Len(s) - 1 : Removed(s, p)[h] = s[h + 1]
        BY <1>2, RemovedPlaces
      <4>. QED  BY <1>2, <3>1, <4>1
    <3>3. /\ n.next[s[i + 1]] = At(s, i + 2)
          /\ n.prev[s[i + 1]] = IF i = p THEN At(s, p - 1) ELSE At(s, i)
      <4>1. PICK j \in 1..Len(s) : j = i + 1 /\ j # p /\ j # p - 1
        BY <3>1
      <4>2. /\ n.next[s[j]] = At(s, j + 1)
            /\ n.prev[s[j]] = IF j = p + 1 THEN At(s, p - 1) ELSE At(s, j - 1)
        BY <1>10, <4>1
      <4>3. j + 1 = i + 2 /\ j - 1 = i /\ (j = p + 1 <=> i = p)
        BY <4>1
      <4>. QED  BY <4>1, <4>2, <4>3
    <3>4. At(V[l], i - 1) = (IF i = p THEN At(s, p - 1) ELSE At(s, i)) /\ At(V[l], i + 1) = At(s, i + 2)
      <4>1. i \in Int /\ (i <= p <=> i = p) /\ ~(i < p - 1)
        BY <2>3, <3>1
      <4>. QED  BY <1>6, <4>1
    <3>. QED  BY <2>3, <3>2, <3>3, <3>4
  <2>. QED  BY <1>4, <2>1, <2>2, <2>3
<1>12. Linked(n, V)
  BY <1>9, <1>11 DEF Linked
<1>. QED  BY <1>4, <1>7, <1>12 DEF Shape, V

-----------------------------------------------------------------------------
(* The operations keep the types of the pointers, also where they assign   *)
(* through null, which the model lets pass.                                *)

LEMMA UnlinkType ==
  ASSUME NEW m \in Memories, NEW t
  PROVE  Unlink(m, t) \in Memories
BY DEF Unlink, Memories

LEMMA SetFirstType ==
  ASSUME NEW m \in Memories, NEW l \in List, NEW t \in TCB \cup {NULL}
  PROVE  SetFirst(m, l, t) \in Memories
<1>1. Unlink(m, t) \in Memories
  BY UnlinkType
<1>. QED  BY <1>1 DEF SetFirst, Memories

LEMMA LinkType ==
  ASSUME NEW m \in Memories, NEW a \in TCB \cup {NULL}, NEW b \in TCB \cup {NULL}
  PROVE  Link(m, a, b) \in Memories
BY DEF Link, Memories

LEMMA AddFirstType ==
  ASSUME NEW m \in Memories, NEW l \in List, NEW t \in TCB \cup {NULL}
  PROVE  AddFirst(m, l, t) \in Memories
<1>1. SetFirst(m, l, t) \in Memories
  BY SetFirstType
<1>2. m.head[l] \in TCB \cup {NULL}
  BY DEF Memories
<1>3. Link(m, t, m.head[l]) \in Memories
  BY <1>2, LinkType
<1>. DEFINE n == Link(m, t, m.head[l])
<1>. HIDE DEF n
<1>4. [n EXCEPT !.prev[t] = NULL, !.head[l] = t] \in Memories
  BY <1>3 DEF Memories, n
<1>. QED  BY <1>1, <1>4 DEF AddFirst, n

LEMMA AddLastType ==
  ASSUME NEW m \in Memories, NEW l \in List, NEW t \in TCB \cup {NULL}
  PROVE  AddLast(m, l, t) \in Memories
<1>1. SetFirst(m, l, t) \in Memories
  BY SetFirstType
<1>2. m.tail[l] \in TCB \cup {NULL}
  BY DEF Memories
<1>3. Link(m, m.tail[l], t) \in Memories
  BY <1>2, LinkType
<1>. DEFINE n == Link(m, m.tail[l], t)
<1>. HIDE DEF n
<1>4. [n EXCEPT !.next[t] = NULL, !.tail[l] = t] \in Memories
  BY <1>3 DEF Memories, n
<1>. QED  BY <1>1, <1>4 DEF AddLast, n

LEMMA TakeFirstType ==
  ASSUME NEW m \in Memories, NEW l \in List
  PROVE  TakeFirst(m, l) \in Memories
<1>. DEFINE t    == m.head[l]
            rest == [m EXCEPT !.head[l] = m.next[t]]
            n    == IF m.next[t] = NULL THEN [rest EXCEPT !.tail[l] = NULL]
                                        ELSE [rest EXCEPT !.prev[m.next[t]] = NULL]
<1>1. CASE IsEmpty(m, l)
  BY <1>1 DEF TakeFirst
<1>2. CASE ~IsEmpty(m, l)
  <2>1. t \in TCB /\ m.next[t] \in TCB \cup {NULL}
    BY <1>2 DEF IsEmpty, Memories
  <2>2. rest \in Memories
    BY <2>1 DEF Memories
  <2>. HIDE DEF rest
  <2>3. n \in Memories
    BY <2>2 DEF Memories
  <2>4. TakeFirst(m, l) = Unlink(n, t)
    BY <1>2 DEF TakeFirst, rest
  <2>. HIDE DEF n, t
  <2>. QED  BY <2>3, <2>4, UnlinkType
<1>. QED  BY <1>1, <1>2

LEMMA TakeLastType ==
  ASSUME NEW m \in Memories, NEW l \in List, m.tail[l] \in TCB
  PROVE  TakeLast(m, l) \in Memories
<1>. DEFINE t    == m.tail[l]
            rest == [m EXCEPT !.tail[l] = m.prev[t]]
            n    == IF m.prev[t] = NULL THEN [rest EXCEPT !.head[l] = NULL]
                                        ELSE [rest EXCEPT !.next[m.prev[t]] = NULL]
<1>1. CASE IsEmpty(m, l)
  BY <1>1 DEF TakeLast
<1>2. CASE ~IsEmpty(m, l)
  <2>1. t \in TCB /\ m.prev[t] \in TCB \cup {NULL}
    BY DEF Memories
  <2>2. rest \in Memories
    BY <2>1 DEF Memories
  <2>. HIDE DEF rest
  <2>3. n \in Memories
    BY <2>2 DEF Memories
  <2>4. TakeLast(m, l) = Unlink(n, t)
    BY <1>2 DEF TakeLast, rest
  <2>. HIDE DEF n, t
  <2>. QED  BY <2>3, <2>4, UnlinkType
<1>. QED  BY <1>1, <1>2

-----------------------------------------------------------------------------
(* What each operation does to the sequences.                              *)

LEMMA Ends ==
  ASSUME NEW m, NEW W, Shape(m, W), NEW l \in List
  PROVE  /\ W[l] \in Seq(TCB) /\ Len(W[l]) \in Nat
         /\ m.head[l] = At(W[l], 1) /\ m.tail[l] = At(W[l], Len(W[l]))
         /\ IsEmpty(m, l) <=> W[l] = <<>>
         /\ W[l] = <<>> <=> Len(W[l]) = 0
<1>1. W[l] \in Seq(TCB) /\ m.head[l] = At(W[l], 1) /\ m.tail[l] = At(W[l], Len(W[l]))
  BY DEF Shape, Linked
<1>2. Len(W[l]) \in Nat /\ (W[l] = <<>> <=> Len(W[l]) = 0)
  BY <1>1, LenProperties, EmptySeq
<1>3. At(W[l], 1) = NULL <=> Len(W[l]) = 0
  BY <1>1, <1>2, AtThread, ListAssumption DEF At
<1>. QED  BY <1>1, <1>2, <1>3 DEF IsEmpty

LEMMA AddFirstKeeps ==
  ASSUME NEW m, NEW W, Shape(m, W), NEW l \in List, NEW t \in TCB, Absent(t, W)
  PROVE  /\ Shape(AddFirst(m, l, t), [W EXCEPT ![l] = <<t>> \o @])
         /\ AddFirst(m, l, t).sleep_for = m.sleep_for
<1>. DEFINE n == AddFirst(m, l, t)
            s == W[l]
<1>1. /\ m \in Memories /\ s \in Seq(TCB) /\ Len(s) \in Nat
      /\ m.head[l] = At(s, 1) /\ (IsEmpty(m, l) <=> Len(s) = 0)
  BY Ends DEF Shape
<1>2. n \in Memories
  BY <1>1, AddFirstType
<1>3. NULL \notin TCB /\ At(s, 0) = NULL /\ 0 \in 0..Len(s)
  BY <1>1, ListAssumption DEF At
<1>4. InsertedAt(m, n, l, s, 0, t) /\ n.sleep_for = m.sleep_for
  <2>1. CASE IsEmpty(m, l)
    <3>1. n = SetFirst(m, l, t)
      BY <2>1 DEF AddFirst
    <3>2. /\ n.head = [m.head EXCEPT ![l] = t] /\ n.tail = [m.tail EXCEPT ![l] = t]
          /\ n.next = [m.next EXCEPT ![t] = NULL] /\ n.prev = [m.prev EXCEPT ![t] = NULL]
          /\ n.sleep_for = m.sleep_for
      BY <1>1, <3>1 DEF SetFirst, Unlink, Memories
    <3>3. At(s, 1) = NULL /\ Len(s) = 0
      BY <1>1, <2>1 DEF At
    <3>. QED  BY <1>1, <1>3, <3>2, <3>3 DEF InsertedAt, Memories
  <2>2. CASE ~IsEmpty(m, l)
    <3>1. /\ n.head = [m.head EXCEPT ![l] = t] /\ n.tail = m.tail
          /\ n.next = [m.next EXCEPT ![t] = At(s, 1)]
          /\ n.prev = [[m.prev EXCEPT ![At(s, 1)] = t] EXCEPT ![t] = NULL]
          /\ n.sleep_for = m.sleep_for
      BY <1>1, <2>2 DEF AddFirst, Link, Memories
    <3>2. At(s, 1) \in TCB /\ 0 # Len(s)
      BY <1>1, <2>2, AtThread
    <3>. QED  BY <1>1, <1>3, <3>1, <3>2 DEF InsertedAt, Memories
  <2>. QED  BY <2>1, <2>2
<1>5. Shape(n, [W EXCEPT ![l] = Inserted(s, 0, t)])
  BY <1>2, <1>3, <1>4, InsertKeeps
<1>6. Inserted(s, 0, t) = <<t>> \o s
  BY <1>1, InsertedAtEnds
<1>. QED  BY <1>4, <1>5, <1>6

LEMMA AddLastKeeps ==
  ASSUME NEW m, NEW W, Shape(m, W), NEW l \in List, NEW t \in TCB, Absent(t, W)
  PROVE  /\ Shape(AddLast(m, l, t), [W EXCEPT ![l] = Append(@, t)])
         /\ AddLast(m, l, t).sleep_for = m.sleep_for
<1>. DEFINE n == AddLast(m, l, t)
            s == W[l]
<1>1. /\ m \in Memories /\ s \in Seq(TCB) /\ Len(s) \in Nat
      /\ m.tail[l] = At(s, Len(s)) /\ (IsEmpty(m, l) <=> Len(s) = 0)
  BY Ends DEF Shape
<1>2. n \in Memories
  BY <1>1, AddLastType
<1>3. NULL \notin TCB /\ At(s, Len(s) + 1) = NULL /\ Len(s) \in 0..Len(s)
  BY <1>1, ListAssumption DEF At
<1>4. InsertedAt(m, n, l, s, Len(s), t) /\ n.sleep_for = m.sleep_for
  <2>1. CASE IsEmpty(m, l)
    <3>1. n = SetFirst(m, l, t)
      BY <2>1 DEF AddLast
    <3>2. /\ n.head = [m.head EXCEPT ![l] = t] /\ n.tail = [m.tail EXCEPT ![l] = t]
          /\ n.next = [m.next EXCEPT ![t] = NULL] /\ n.prev = [m.prev EXCEPT ![t] = NULL]
          /\ n.sleep_for = m.sleep_for
      BY <1>1, <3>1 DEF SetFirst, Unlink, Memories
    <3>3. At(s, Len(s)) = NULL /\ Len(s) = 0
      BY <1>1, <2>1 DEF At
    <3>. QED  BY <1>1, <1>3, <3>2, <3>3 DEF InsertedAt, Memories
  <2>2. CASE ~IsEmpty(m, l)
    <3>1. /\ n.head = m.head /\ n.tail = [m.tail EXCEPT ![l] = t]
          /\ n.next = [[m.next EXCEPT ![At(s, Len(s))] = t] EXCEPT ![t] = NULL]
          /\ n.prev = [m.prev EXCEPT ![t] = At(s, Len(s))]
          /\ n.sleep_for = m.sleep_for
      BY <1>1, <2>2 DEF AddLast, Link, Memories
    <3>2. At(s, Len(s)) \in TCB /\ 0 # Len(s)
      BY <1>1, <2>2, AtThread
    <3>. QED  BY <1>1, <1>3, <3>1, <3>2 DEF InsertedAt, Memories
  <2>. QED  BY <2>1, <2>2
<1>5. Shape(n, [W EXCEPT ![l] = Inserted(s, Len(s), t)])
  BY <1>2, <1>3, <1>4, InsertKeeps
<1>6. Inserted(s, Len(s), t) = Append(s, t)
  BY <1>1, InsertedAtEnds
<1>. QED  BY <1>4, <1>5, <1>6

LEMMA RemovedFirst ==
  ASSUME NEW m, NEW n, NEW l, NEW s \in Seq(TCB), s # <<>>,
         n.head = [m.head EXCEPT ![l] = At(s, 2)],
         n.tail = IF At(s, 2) = NULL THEN [m.tail EXCEPT ![l] = NULL] ELSE m.tail,
         \A u \in TCB \ {s[1]} :
           n.next[u] = m.next[u] /\ n.prev[u] = IF u = At(s, 2) THEN NULL ELSE m.prev[u]
  PROVE  RemovedAt(m, n, l, s, 1)
<1>1. Len(s) \in Nat \ {0} /\ NULL \notin TCB
  BY EmptySeq, LenProperties, ListAssumption
<1>2. At(s, 1 - 1) = NULL /\ At(s, 1 + 1) = At(s, 2) /\ (At(s, 2) = NULL <=> 1 = Len(s))
  <2>1. At(s, 0) = NULL /\ (At(s, 2) = NULL <=> 2 \notin 1..Len(s))
    BY AtNull
  <2>2. 1 - 1 = 0 /\ 1 + 1 = 2
    OBVIOUS
  <2>3. \A k \in Nat \ {0} : 2 \notin 1..k <=> 1 = k
    OBVIOUS
  <2>. QED  BY <1>1, <2>1, <2>2, <2>3, Zenon
<1>3. 1 = Len(s) => At(s, Len(s) - 1) = NULL
  BY <1>2
<1>. QED  BY <1>1, <1>2, <1>3 DEF RemovedAt

LEMMA RemovedLast ==
  ASSUME NEW m, NEW n, NEW l, NEW s \in Seq(TCB), s # <<>>, NEW k, k = Len(s),
         n.tail = [m.tail EXCEPT ![l] = At(s, k - 1)],
         n.head = IF At(s, k - 1) = NULL THEN [m.head EXCEPT ![l] = NULL] ELSE m.head,
         \A u \in TCB \ {s[k]} :
           n.prev[u] = m.prev[u] /\ n.next[u] = IF u = At(s, k - 1) THEN NULL ELSE m.next[u]
  PROVE  RemovedAt(m, n, l, s, k)
<1>1. k \in Nat \ {0} /\ NULL \notin TCB
  BY EmptySeq, LenProperties, ListAssumption
<1>2. At(s, k + 1) = NULL /\ (At(s, k - 1) = NULL <=> k = 1)
  <2>1. (At(s, k + 1) = NULL <=> k + 1 \notin 1..k) /\ (At(s, k - 1) = NULL <=> k - 1 \notin 1..k)
    BY <1>1, AtNull
  <2>. QED  BY <1>1, <2>1
<1>3. k = 1 => At(s, 2) = NULL
  BY <1>2
<1>. QED  BY <1>1, <1>2, <1>3 DEF RemovedAt

LEMMA TakeFirstKeeps ==
  ASSUME NEW m, NEW W, Shape(m, W), NEW l \in List, W[l] # <<>>
  PROVE  /\ Shape(TakeFirst(m, l), [W EXCEPT ![l] = Tail(@)])
         /\ Absent(W[l][1], [W EXCEPT ![l] = Tail(@)])
         /\ TakeFirst(m, l).sleep_for = m.sleep_for
<1>. DEFINE n == TakeFirst(m, l)
            s == W[l]
            t == s[1]
<1>1. /\ m \in Memories /\ s \in Seq(TCB) /\ Len(s) \in Nat \ {0} /\ ~IsEmpty(m, l)
      /\ m.head[l] = At(s, 1)
  BY Ends DEF Shape
<1>2. 1 \in 1..Len(s) /\ t \in TCB /\ m.head[l] = t /\ At(s, 0) = NULL /\ NULL \notin TCB
  BY <1>1, ListAssumption DEF At
<1>3. m.next[t] = At(s, 2) /\ At(s, 2) \in TCB \cup {NULL}
  <2>1. m.next[t] = At(s, 1 + 1)
    BY <1>2 DEF Shape, Linked
  <2>. QED  BY <1>1, <2>1, AtThread
<1>4. n \in Memories
  BY <1>1, TakeFirstType
<1>5. RemovedAt(m, n, l, s, 1) /\ n.sleep_for = m.sleep_for
  <2>. DEFINE h == At(s, 2)
  <2>1. n = LET rest == [m EXCEPT !.head[l] = h]
            IN Unlink(IF h = NULL THEN [rest EXCEPT !.tail[l] = NULL]
                                  ELSE [rest EXCEPT !.prev[h] = NULL], t)
    BY <1>1, <1>2, <1>3 DEF TakeFirst
  <2>. HIDE DEF n, h, t
  <2>2. /\ n.head = [m.head EXCEPT ![l] = h]
        /\ n.tail = IF h = NULL THEN [m.tail EXCEPT ![l] = NULL] ELSE m.tail
        /\ n.next = [m.next EXCEPT ![t] = NULL]
        /\ \A u \in TCB \ {t} : n.prev[u] = IF u = h THEN NULL ELSE m.prev[u]
        /\ n.sleep_for = m.sleep_for
    BY <1>1, <1>2, <2>1, ListAssumption DEF Unlink, Memories
  <2>3. \A u \in TCB \ {t} : n.next[u] = m.next[u]
    BY <1>1, <2>2 DEF Memories
  <2>. QED  BY <1>1, <2>2, <2>3, RemovedFirst DEF h, t
<1>6. Shape(n, [W EXCEPT ![l] = Removed(s, 1)]) /\ Absent(t, [W EXCEPT ![l] = Removed(s, 1)])
  BY <1>2, <1>4, <1>5, RemoveKeeps
<1>7. Removed(s, 1) = Tail(s)
  BY <1>1, RemovedAtEnds
<1>. QED  BY <1>5, <1>6, <1>7

LEMMA TakeLastKeeps ==
  ASSUME NEW m, NEW W, Shape(m, W), NEW l \in List, W[l] # <<>>
  PROVE  /\ Shape(TakeLast(m, l), [W EXCEPT ![l] = SubSeq(@, 1, Len(@) - 1)])
         /\ TakeLast(m, l).sleep_for = m.sleep_for
<1>. DEFINE n == TakeLast(m, l)
            s == W[l]
            k == Len(s)
            t == s[k]
<1>1. /\ m \in Memories /\ s \in Seq(TCB) /\ k \in Nat \ {0} /\ ~IsEmpty(m, l)
      /\ m.tail[l] = At(s, k)
  BY Ends DEF Shape
<1>2. k \in 1..k /\ t \in TCB /\ m.tail[l] = t /\ At(s, k + 1) = NULL /\ NULL \notin TCB
  BY <1>1, ListAssumption DEF At
<1>3. m.prev[t] = At(s, k - 1) /\ At(s, k - 1) \in TCB \cup {NULL}
  <2>1. m.prev[t] = At(s, k - 1)
    BY <1>2 DEF Shape, Linked
  <2>. QED  BY <1>1, <2>1, AtThread
<1>4. n \in Memories
  BY <1>1, <1>2, TakeLastType
<1>5. RemovedAt(m, n, l, s, k) /\ n.sleep_for = m.sleep_for
  <2>. DEFINE h == At(s, k - 1)
  <2>1. n = LET rest == [m EXCEPT !.tail[l] = h]
            IN Unlink(IF h = NULL THEN [rest EXCEPT !.head[l] = NULL]
                                  ELSE [rest EXCEPT !.next[h] = NULL], t)
    BY <1>1, <1>2, <1>3 DEF TakeLast
  <2>. HIDE DEF n, h, t
  <2>2. /\ n.tail = [m.tail EXCEPT ![l] = h]
        /\ n.head = IF h = NULL THEN [m.head EXCEPT ![l] = NULL] ELSE m.head
        /\ n.prev = [m.prev EXCEPT ![t] = NULL]
        /\ \A u \in TCB \ {t} : n.next[u] = IF u = h THEN NULL ELSE m.next[u]
        /\ n.sleep_for = m.sleep_for
    BY <1>1, <1>2, <2>1, ListAssumption DEF Unlink, Memories
  <2>3. \A u \in TCB \ {t} : n.prev[u] = m.prev[u]
    BY <1>1, <2>2 DEF Memories
  <2>. QED  BY <1>1, <2>2, <2>3, RemovedLast DEF h, t
<1>6. Shape(n, [W EXCEPT ![l] = Removed(s, k)])
  BY <1>2, <1>4, <1>5, RemoveKeeps
<1>7. Removed(s, k) = SubSeq(s, 1, k - 1)
  BY <1>1, RemovedAtEnds
<1>. QED  BY <1>5, <1>6, <1>7

-----------------------------------------------------------------------------
(* A walk along the next pointers passes the sequence.                     *)

(* There are no more threads in a list than there are.                     *)
LEMMA ListBounded ==
  ASSUME NEW m, NEW W, Shape(m, W), NEW l \in List
  PROVE  Cardinality(TCB) \in Nat /\ Len(W[l]) <= Cardinality(TCB)
<1>. DEFINE s == W[l]
<1>1. s \in Seq(TCB) /\ Len(s) \in Nat /\ OnceEach(W)
  BY Ends DEF Shape
<1>2. s \in [1..Len(s) -> TCB]
  BY <1>1
<1>3. \A i, j \in 1..Len(s) : s[i] = s[j] => i = j
  BY <1>1, Once
<1>4. IsFiniteSet(TCB) /\ Cardinality(TCB) \in Nat
  BY ListAssumption, FS_CardinalityType
<1>. HIDE DEF s
<1>5. IsFiniteSet(1..Len(s)) /\ Cardinality(1..Len(s)) = Len(s)
  <2>1. Len(s) \in Int /\ 1 \in Int
    BY <1>1
  <2>2. /\ IsFiniteSet(1..Len(s))
        /\ Cardinality(1..Len(s)) = IF 1 > Len(s) THEN 0 ELSE Len(s) - 1 + 1
    BY <2>1, FS_Interval
  <2>. QED  BY <1>1, <2>2
<1>6. ~(Cardinality(TCB) < Len(s))
  BY <1>2, <1>3, <1>4, <1>5, FS_PigeonHole
<1>. QED  BY <1>1, <1>4, <1>6 DEF s

LEMMA WalkIs ==
  ASSUME NEW m, NEW W, Shape(m, W), NEW l \in List
  PROVE  Walk(m, l) = W[l]
<1>. DEFINE n == Cardinality(TCB)
            s == W[l]
            Rule(g) == g = [i \in 0..n |->
              IF i = 0 THEN m.head[l] ELSE IF g[i-1] = NULL THEN NULL ELSE m.next[g[i-1]]]
            f  == [i \in 0..n |-> At(s, i + 1)]
            at == CHOOSE g : Rule(g)
<1>1. /\ n \in Nat /\ Len(s) <= n /\ Len(s) \in Nat /\ s \in Seq(TCB)
      /\ m.head[l] = At(s, 1) /\ NULL \notin TCB
      /\ \A i \in 1..Len(s) : m.next[s[i]] = At(s, i + 1)
  BY SMTT(40), ListBounded, Ends, ListAssumption DEF Shape, Linked
<1>. HIDE DEF n, s
<1>2. Rule(f)
  <2>. SUFFICES ASSUME NEW i \in 0..n
                PROVE  f[i] = IF i = 0 THEN m.head[l]
                              ELSE IF f[i-1] = NULL THEN NULL ELSE m.next[f[i-1]]
    OBVIOUS
  <2>1. CASE i = 0
    BY <1>1, <2>1
  <2>2. CASE i # 0
    <3>1. i - 1 \in 0..n /\ (i - 1) + 1 = i /\ i \in Int /\ i >= 1
      BY <1>1, <2>2
    <3>2. f[i] = At(s, i + 1) /\ f[i - 1] = At(s, i)
      BY <3>1
    <3>. HIDE DEF f
    <3>3. CASE i \in 1..Len(s)
      <4>1. At(s, i) = s[i] /\ s[i] # NULL
        BY <1>1, <3>3 DEF At
      <4>. QED  BY <1>1, <2>2, <3>2, <3>3, <4>1
    <3>4. CASE i \notin 1..Len(s)
      <4>1. i + 1 \notin 1..Len(s)
        BY <1>1, <3>1, <3>4
      <4>2. At(s, i) = NULL /\ At(s, i + 1) = NULL
        BY <3>4, <4>1 DEF At
      <4>. QED  BY <2>2, <3>2, <4>2
    <3>. QED  BY <3>3, <3>4
  <2>. QED  BY <2>1, <2>2
<1>3. Rule(at)
  BY <1>2
<1>4. at = f
  <2>. HIDE DEF f, at
  <2>1. OnInterval(f, n) /\ OnInterval(at, n) /\ f[0] = m.head[l] /\ at[0] = m.head[l]
    BY <1>1, <1>2, <1>3 DEF OnInterval
  <2>2. \A i \in 1..n : at[i - 1] = f[i - 1] => at[i] = f[i]
    BY <1>1, <1>2, <1>3
  <2>. HIDE DEF Rule
  <2>. QED  BY <1>1, <2>1, <2>2, SameIteration
<1>. DEFINE some == {j \in 0..n : at[j] # NULL}
<1>5. Walk(m, l) = [i \in 1..Cardinality(some) |-> at[i-1]]
  BY DEF Walk, n
<1>. HIDE DEF at, Rule
<1>6. some = 0..Len(s) - 1
  <2>1. ASSUME NEW j \in 0..n
        PROVE  f[j] # NULL <=> j \in 0..Len(s) - 1
    <3>1. f[j] = NULL <=> j + 1 \notin 1..Len(s)
      BY <1>1, AtNull
    <3>. QED  BY <1>1, <3>1
  <2>. HIDE DEF f
  <2>. QED  BY <1>1, <1>4, <2>1
<1>7. Cardinality(some) = Len(s)
  <2>. DEFINE k == Len(s) - 1
  <2>1. k \in Int /\ 0 \in Int /\ (IF 0 > k THEN 0 ELSE k - 0 + 1) = Len(s)
    BY <1>1
  <2>. HIDE DEF k
  <2>2. Cardinality(0..k) = IF 0 > k THEN 0 ELSE k - 0 + 1
    BY <2>1, FS_Interval
  <2>. QED  BY <1>6, <2>1, <2>2 DEF k
<1>. HIDE DEF some
<1>8. \A i \in 1..Len(s) : f[i - 1] = s[i]
  <2>1. ASSUME NEW i \in 1..Len(s) PROVE i - 1 \in 0..n /\ (i - 1) + 1 = i
    BY <1>1
  <2>. QED  BY <2>1 DEF At
<1>. HIDE DEF f
<1>9. Walk(m, l) = [i \in 1..Len(s) |-> s[i]]
  BY <1>4, <1>5, <1>7, <1>8
<1>. QED  BY <1>1, <1>9 DEF s

(* That the lists are well linked follows.                                 *)
LEMMA ShapeLinked ==
  ASSUME NEW W, Shape(mem, W)
  PROVE  WellLinked
<1>1. \A l \in List : Walk(mem, l) = W[l]
  BY WalkIs
<1>2. \A l \in List : W[l] \in Seq(TCB) /\ Len(W[l]) \in Nat /\ (W[l] = <<>> <=> Len(W[l]) = 0)
  BY Ends
<1>. SUFFICES ASSUME NEW l \in List
     PROVE LET w == W[l]
           IN /\ mem.head[l] = IF w = <<>> THEN NULL ELSE w[1]
              /\ mem.tail[l] = IF w = <<>> THEN NULL ELSE w[Len(w)]
              /\ \A i \in DOMAIN w :
                   /\ mem.prev[w[i]] = IF i = 1 THEN NULL ELSE w[i-1]
                   /\ \A k \in List : \A j \in DOMAIN W[k] : W[k][j] = w[i] => k = l /\ j = i
  BY <1>1 DEF WellLinked
<1>. DEFINE w == W[l]
<1>3. mem.head[l] = At(w, 1) /\ mem.tail[l] = At(w, Len(w))
  BY Ends
<1>4. ASSUME NEW i \in 1..Len(w)
      PROVE  /\ mem.prev[w[i]] = At(w, i - 1)
             /\ \A k \in List : \A j \in 1..Len(W[k]) : W[k][j] = w[i] => k = l /\ j = i
  BY Once DEF Shape, Linked
<1>5. \A k \in List : DOMAIN W[k] = 1..Len(W[k])
  BY <1>2
<1>6. \A i \in 1..Len(w) : At(w, i - 1) = IF i = 1 THEN NULL ELSE w[i - 1]
  BY <1>2 DEF At
<1>7. At(w, 1) = (IF w = <<>> THEN NULL ELSE w[1]) /\ At(w, Len(w)) = IF w = <<>> THEN NULL ELSE w[Len(w)]
  BY <1>2 DEF At
<1>8. mem.head[l] = (IF w = <<>> THEN NULL ELSE w[1]) /\ mem.tail[l] = IF w = <<>> THEN NULL ELSE w[Len(w)]
  BY <1>3, <1>7
<1>9. ASSUME NEW i \in DOMAIN w
      PROVE  /\ mem.prev[w[i]] = IF i = 1 THEN NULL ELSE w[i-1]
             /\ \A k \in List : \A j \in DOMAIN W[k] : W[k][j] = w[i] => k = l /\ j = i
  <2>1. i \in 1..Len(w)
    BY <1>5
  <2>2. mem.prev[w[i]] = IF i = 1 THEN NULL ELSE w[i-1]
    BY <1>4, <1>6, <2>1
  <2>3. ASSUME NEW k \in List, NEW j \in DOMAIN W[k], W[k][j] = w[i]
        PROVE  k = l /\ j = i
    <3>1. j \in 1..Len(W[k])
      BY <1>5
    <3>. QED  BY <1>4, <2>1, <2>3, <3>1
  <2>. QED  BY <2>2, <2>3
<1>. QED  BY <1>8, <1>9

-----------------------------------------------------------------------------
(* The relative times.                                                     *)

(* The sums of the times of the sleepers s.                                *)
Sums(T, m, s) ==
  /\ T \in [0..Len(s) -> Int]
  /\ T[0] = 0
  /\ \A i \in 1..Len(s) : T[i] = T[i-1] + m.sleep_for[s[i]]

LEMMA TotalIs ==
  ASSUME NEW m, NEW W, Shape(m, W), NEW T, Sums(T, m, W[Asleep])
  PROVE  TotalTime(m) = T
<1>. DEFINE s == W[Asleep]
            n == Len(s)
            Rule(g) == g = [i \in 0..n |-> IF i = 0 THEN 0 ELSE g[i-1] + m.sleep_for[s[i]]]
            total == CHOOSE g : Rule(g)
<1>1. Asleep \in List /\ Walk(m, Asleep) = s
  BY WalkIs DEF List
<1>2. n \in Nat
  BY <1>1, Ends
<1>3. TotalTime(m) = total
  BY <1>1 DEF TotalTime
<1>. HIDE DEF s, n
<1>4. T \in [0..n -> Int] /\ T[0] = 0 /\ \A i \in 1..n : T[i] = T[i-1] + m.sleep_for[s[i]]
  BY DEF Sums, s, n
<1>5. Rule(T)
  <2>1. \A i \in 0..n : T[i] = IF i = 0 THEN 0 ELSE T[i-1] + m.sleep_for[s[i]]
    BY <1>2, <1>4
  <2>. QED  BY <1>4, <2>1
<1>6. Rule(total)
  BY <1>5
<1>. HIDE DEF total
<1>7. OnInterval(T, n) /\ OnInterval(total, n) /\ total[0] = 0
  BY <1>2, <1>4, <1>6 DEF OnInterval
<1>8. \A i \in 1..n : total[i-1] = T[i-1] => total[i] = T[i]
  BY <1>2, <1>5, <1>6
<1>. HIDE DEF Rule
<1>. QED  BY <1>2, <1>3, <1>4, <1>7, <1>8, SameIteration

LEMMA TotalSums ==
  ASSUME NEW m, NEW W, Shape(m, W)
  PROVE  Sums(TotalTime(m), m, W[Asleep])
<1>. DEFINE s == W[Asleep]
            n == Len(s)
            step == [i \in 1..n |-> [x \in Int |-> x + m.sleep_for[s[i]]]]
<1>1. Asleep \in List
  BY DEF List
<1>2. n \in Nat /\ s \in Seq(TCB)
  BY <1>1, Ends
<1>3. \A i \in 1..n : m.sleep_for[s[i]] \in Int
  BY <1>2 DEF Shape, Memories
<1>4. step \in [1..n -> [Int -> Int]]
  BY <1>3
<1>5. PICK T : IsIterated(T, n, Int, 0, step)
  <2>1. 0 \in Int
    OBVIOUS
  <2>. HIDE DEF step, n
  <2>. QED  BY <1>2, <1>4, <2>1, IterationExists
<1>6. /\ T \in [0..n -> Int] /\ T[0] = 0
      /\ \A i \in 1..n : T[i] = step[i][T[i-1]]
  BY <1>5 DEF IsIterated
<1>7. \A i \in 1..n : T[i-1] \in Int
  <2>. HIDE DEF n
  <2>1. \A i \in 1..n : i - 1 \in 0..n
    BY <1>2
  <2>. QED  BY <1>6, <2>1
<1>8. \A i \in 1..n : T[i] = T[i-1] + m.sleep_for[s[i]]
  BY <1>3, <1>6, <1>7
<1>9. Sums(T, m, s)
  BY <1>6, <1>8 DEF Sums
<1>. QED  BY <1>9, TotalIs

(* Nobody sleeps a negative time after another, and the first wakes later  *)
(* than now.                                                               *)
Timely(m, s) ==
  \A i \in 1..Len(s) : m.sleep_for[s[i]] >= IF i = 1 THEN 1 ELSE 0

LEMMA SumsGrow ==
  ASSUME NEW m \in Memories, NEW s \in Seq(TCB), NEW T, Sums(T, m, s), Timely(m, s)
  PROVE  /\ \A i \in 1..Len(s) : T[i] >= 1
         /\ \A i, j \in 1..Len(s) : i <= j => T[i] <= T[j]
<1>. DEFINE n == Len(s)
<1>1. n \in Nat /\ \A i \in 1..n : m.sleep_for[s[i]] \in Int
  BY DEF Memories
<1>2. \A i \in 1..n : m.sleep_for[s[i]] >= IF i = 1 THEN 1 ELSE 0
  BY DEF Timely
<1>3. /\ T \in [0..n -> Int] /\ T[0] = 0
      /\ \A i \in 1..n : T[i] = T[i-1] + m.sleep_for[s[i]]
  BY DEF Sums
<1>. HIDE DEF n
<1>4. ASSUME NEW i \in 1..n
      PROVE  /\ T[i] \in Int /\ T[i-1] \in Int /\ T[i-1] <= T[i]
             /\ i = 1 => T[i] >= 1
  <2>1. i - 1 \in 0..n /\ i \in 0..n /\ (i = 1 => i - 1 = 0)
    BY <1>1
  <2>2. T[i] \in Int /\ T[i-1] \in Int
    BY <1>3, <2>1
  <2>3. m.sleep_for[s[i]] \in Int /\ m.sleep_for[s[i]] >= (IF i = 1 THEN 1 ELSE 0)
          /\ T[i] = T[i-1] + m.sleep_for[s[i]]
    BY <1>1, <1>2, <1>3
  <2>4. T[i-1] <= T[i]
    BY <2>2, <2>3
  <2>5. i = 1 => T[i] >= 1
    BY <1>3, <2>1, <2>2, <2>3
  <2>. QED  BY <2>2, <2>4, <2>5
<1>. DEFINE S == {j \in 0..n : \A i \in 1..n : i <= j => T[i] <= T[j]}
<1>5. 0 \in S
  BY <1>1
<1>6. ASSUME NEW j \in 0..n - 1, j \in S
      PROVE  j + 1 \in S
  <2>1. j + 1 \in 1..n /\ j + 1 \in 0..n /\ (j + 1) - 1 = j /\ j \in Int
    BY <1>1
  <2>2. T[j] \in Int /\ T[j + 1] \in Int /\ T[j] <= T[j + 1]
    BY <1>4, <2>1
  <2>3. ASSUME NEW i \in 1..n, i <= j + 1
        PROVE  T[i] <= T[j + 1]
    <3>1. i \in Int /\ T[i] \in Int
      BY <1>4
    <3>2. CASE i = j + 1
      BY <2>2, <3>2
    <3>3. CASE i # j + 1
      <4>1. i <= j
        BY <2>1, <2>3, <3>1, <3>3
      <4>2. T[i] <= T[j]
        BY <1>6, <4>1
      <4>. QED  BY <2>2, <3>1, <4>2
    <3>. QED  BY <3>2, <3>3
  <2>. QED  BY <2>1, <2>3
<1>. HIDE DEF S
<1>7. 0..n \subseteq S
  BY <1>1, <1>5, <1>6, IntervalInduction
<1>8. \A i, j \in 1..n : i <= j => T[i] <= T[j]
  <2>1. \A j \in 1..n : j \in 0..n
    BY <1>1
  <2>. QED  BY <1>7, <2>1 DEF S
<1>9. ASSUME NEW i \in 1..n PROVE T[i] >= 1
  <2>1. 1 \in 1..n /\ 1 <= i
    BY <1>1
  <2>2. T[1] >= 1 /\ T[1] <= T[i] /\ T[1] \in Int /\ T[i] \in Int
    BY <1>4, <1>8, <2>1
  <2>. QED  BY <2>2
<1>. QED  BY <1>8, <1>9 DEF n

(* What each thread still sleeps is the sum at its place.                  *)
LEMMA LeftIs ==
  ASSUME NEW m, NEW W, Shape(m, W)
  PROVE  /\ TicksLeft(m) \in [TCB -> Int]
         /\ \A i \in 1..Len(W[Asleep]) : TicksLeft(m)[W[Asleep][i]] = TotalTime(m)[i]
         /\ \A t \in TCB : (\A i \in 1..Len(W[Asleep]) : W[Asleep][i] # t) => TicksLeft(m)[t] = 0
<1>. DEFINE s == W[Asleep]
            T == TotalTime(m)
            place(t) == {i \in 1..Len(s) : s[i] = t}
<1>1. Asleep \in List /\ Walk(m, Asleep) = s
  BY WalkIs DEF List
<1>2. s \in Seq(TCB) /\ Len(s) \in Nat /\ DOMAIN s = 1..Len(s) /\ OnceEach(W)
  BY <1>1, Ends DEF Shape
<1>3. T \in [0..Len(s) -> Int]
  BY TotalSums DEF Sums
<1>4. TicksLeft(m) = [t \in TCB |-> IF place(t) = {} THEN 0 ELSE T[CHOOSE i \in place(t) : TRUE]]
  BY <1>1, <1>2 DEF TicksLeft
<1>5. ASSUME NEW i \in 1..Len(s)
      PROVE  s[i] \in TCB /\ place(s[i]) = {i}
  BY <1>1, <1>2, Once
<1>. HIDE DEF T, s
<1>6. ASSUME NEW t \in TCB, place(t) # {}
      PROVE  T[CHOOSE i \in place(t) : TRUE] \in Int
  BY <1>2, <1>3
<1>7. TicksLeft(m) \in [TCB -> Int]
  BY SMTT(40), <1>4, <1>6
<1>8. ASSUME NEW i \in 1..Len(s)
      PROVE  TicksLeft(m)[s[i]] = T[i]
  <2>1. s[i] \in TCB /\ place(s[i]) = {i}
    BY <1>5
  <2>2. TicksLeft(m)[s[i]] = T[CHOOSE j \in {i} : TRUE]
    BY <1>4, <2>1
  <2>. QED  BY <2>2
<1>9. ASSUME NEW t \in TCB, \A i \in 1..Len(s) : s[i] # t
      PROVE  TicksLeft(m)[t] = 0
  BY <1>4, <1>9
<1>. QED  BY <1>7, <1>8, <1>9 DEF T, s

-----------------------------------------------------------------------------
(* put_to_sleep.                                                           *)

(* Pointers of a thread in no list do not matter.                          *)
LEMMA OtherPointers ==
  ASSUME NEW m, NEW W, Shape(m, W), NEW t, Absent(t, W),
         NEW n \in Memories, n.head = m.head, n.tail = m.tail,
         \A u \in TCB \ {t} : n.next[u] = m.next[u] /\ n.prev[u] = m.prev[u]
  PROVE  Shape(n, W)
<1>1. W \in [List -> Seq(TCB)] /\ OnceEach(W) /\ Linked(m, W)
  BY DEF Shape
<1>2. \A l \in List : \A i \in 1..Len(W[l]) : W[l][i] \in TCB \ {t}
  BY <1>1 DEF Absent
<1>3. Linked(n, W)
  BY <1>1, <1>2 DEF Linked
<1>. QED  BY <1>1, <1>3 DEF Shape

LEMMA InsertBeforeKeeps ==
  ASSUME NEW m, NEW W, Shape(m, W), NEW t \in TCB, Absent(t, W),
         NEW p \in 0..Len(W[Asleep]) - 1, NEW delta \in Int
  PROVE  LET n == InsertBefore(m, t, W[Asleep][p + 1], delta)
             s == W[Asleep]
         IN /\ Shape(n, [W EXCEPT ![Asleep] = Inserted(s, p, t)])
            /\ n.sleep_for[t] = delta
            /\ \A u \in TCB \ {t} :
                 n.sleep_for[u] = m.sleep_for[u] - IF u = At(s, p + 1) THEN delta ELSE 0
<1>. DEFINE s == W[Asleep]
            c == s[p + 1]
            b == At(s, p)
            n == InsertBefore(m, t, c, delta)
<1>1. /\ Asleep \in List /\ m \in Memories /\ s \in Seq(TCB) /\ Len(s) \in Nat
      /\ p + 1 \in 1..Len(s) /\ p \in Int /\ NULL \notin TCB
  BY Ends, ListAssumption DEF Shape, List
<1>2. m.prev[c] = b
  <2>1. m.prev[c] = At(s, p + 1 - 1) /\ p + 1 - 1 = p
    BY <1>1 DEF Shape, Linked
  <2>. QED  BY <2>1
<1>3. c \in TCB /\ c = At(s, p + 1) /\ b \in TCB \cup {NULL} /\ (b = NULL <=> p = 0)
  <2>1. b = NULL <=> p \notin 1..Len(s)
    BY <1>1, AtNull
  <2>. QED  BY <1>1, <2>1, AtThread DEF At
<1>4. c # t /\ b # t
  BY <1>1, <1>3 DEF Absent, At
<1>. DEFINE linked == [m EXCEPT !.next[t] = c, !.prev[t] = b, !.prev[c] = t,
                                !.sleep_for[t] = delta, !.sleep_for[c] = m.sleep_for[c] - delta]
<1>5. n = IF b = NULL THEN [linked EXCEPT !.head[Asleep] = t] ELSE [linked EXCEPT !.next[b] = t]
  BY <1>2 DEF InsertBefore
<1>. HIDE DEF n, c, b, s
<1>. DEFINE sleep == [[m.sleep_for EXCEPT ![t] = delta] EXCEPT ![c] = m.sleep_for[c] - delta]
<1>11. /\ linked \in Memories /\ linked.head = m.head /\ linked.tail = m.tail
       /\ linked.next = [m.next EXCEPT ![t] = c]
       /\ linked.prev = [[m.prev EXCEPT ![t] = b] EXCEPT ![c] = t]
       /\ linked.sleep_for = sleep
  <2>1. m.sleep_for[c] - delta \in Int
    BY <1>1, <1>3 DEF Memories
  <2>2. linked.sleep_for = sleep /\ sleep \in [TCB -> Int]
    BY <1>1, <1>3, <2>1 DEF Memories
  <2>3. /\ linked.head = m.head /\ linked.tail = m.tail /\ linked.next = [m.next EXCEPT ![t] = c]
        /\ linked.prev = [[m.prev EXCEPT ![t] = b] EXCEPT ![c] = t]
    BY <1>1, <1>3 DEF Memories
  <2>4. linked \in Memories
    BY <1>1, <1>3, <2>1 DEF Memories
  <2>. QED  BY <2>2, <2>3, <2>4
<1>. HIDE DEF linked
<1>6. /\ n \in Memories /\ n.tail = m.tail
      /\ n.head = IF b = NULL THEN [m.head EXCEPT ![Asleep] = t] ELSE m.head
      /\ n.next = IF b = NULL THEN [m.next EXCEPT ![t] = c]
                              ELSE [[m.next EXCEPT ![t] = c] EXCEPT ![b] = t]
      /\ n.prev = [[m.prev EXCEPT ![t] = b] EXCEPT ![c] = t]
      /\ n.sleep_for = sleep
  <2>. HIDE DEF sleep
  <2>1. CASE b = NULL
    BY <1>1, <1>5, <1>11, <2>1 DEF Memories
  <2>2. CASE b # NULL
    BY <1>1, <1>3, <1>5, <1>11, <2>2 DEF Memories
  <2>. QED  BY <2>1, <2>2
<1>7. InsertedAt(m, n, Asleep, s, p, t)
  <2>1. n.head = IF p = 0 THEN [m.head EXCEPT ![Asleep] = t] ELSE m.head
    BY <1>3, <1>6
  <2>2. n.tail = IF p = Len(s) THEN [m.tail EXCEPT ![Asleep] = t] ELSE m.tail
    BY <1>1, <1>6
  <2>3. \A u \in TCB : n.next[u] = IF u = t THEN c ELSE IF u = b THEN t ELSE m.next[u]
    BY SMTT(40), <1>1, <1>3, <1>4, <1>6 DEF Memories
  <2>4. \A u \in TCB : n.prev[u] = IF u = t THEN b ELSE IF u = c THEN t ELSE m.prev[u]
    BY <1>1, <1>3, <1>4, <1>6 DEF Memories
  <2>. QED  BY <1>3, <2>1, <2>2, <2>3, <2>4 DEF InsertedAt, b
<1>8. Shape(n, [W EXCEPT ![Asleep] = Inserted(s, p, t)])
  <2>1. p \in 0..Len(s)
    BY <1>1
  <2>. QED  BY <1>1, <1>6, <1>7, <2>1, InsertKeeps DEF s
<1>9. n.sleep_for[t] = delta
  BY <1>1, <1>4, <1>6 DEF Memories
<1>10. \A u \in TCB \ {t} : n.sleep_for[u] = m.sleep_for[u] - IF u = c THEN delta ELSE 0
  BY <1>1, <1>4, <1>6 DEF Memories
<1>. QED  BY <1>3, <1>8, <1>9, <1>10 DEF n, s, c

(* The place p of a new sleeper, behind all that wake no later.            *)
SleepsAt(T, s, ticks, p) ==
  /\ p \in 0..Len(s)
  /\ \A i \in 1..p : T[i] <= ticks
  /\ \A i \in p + 1..Len(s) : T[i] > ticks

(* n is m with t put to sleep there, ahead of the time of its successor.   *)
SleptAt(m, W, t, ticks, n, p) ==
  LET s == W[Asleep]
      T == TotalTime(m)
  IN /\ SleepsAt(T, s, ticks, p)
     /\ Shape(n, [W EXCEPT ![Asleep] = Inserted(s, p, t)])
     /\ n.sleep_for[t] = ticks - T[p]
     /\ \A u \in TCB \ {t} :
          n.sleep_for[u] = m.sleep_for[u] - IF u = At(s, p + 1) THEN ticks - T[p] ELSE 0

LEMMA SleepKeeps ==
  ASSUME NEW m, NEW W, Shape(m, W), Timely(m, W[Asleep]),
         NEW t \in TCB, Absent(t, W), NEW ticks \in Nat
  PROVE  \E p \in 0..Len(W[Asleep]) : SleptAt(m, W, t, ticks, PutToSleep(m, t, ticks), p)
<1>. DEFINE s == W[Asleep]
            T == TotalTime(m)
            later == {i \in 1..Len(s) : ticks < T[i]}
            k == CHOOSE i \in later : \A j \in later : i <= j
            slept == [m EXCEPT !.sleep_for[t] = ticks]
            new == Unlink(slept, t)
<1>1. Asleep \in List /\ Walk(m, Asleep) = s /\ m \in Memories
  BY WalkIs DEF List, Shape
<1>2. s \in Seq(TCB) /\ Len(s) \in Nat
  BY <1>1, Ends
<1>3. PutToSleep(m, t, ticks) =
        IF later # {} THEN InsertBefore(new, t, s[k], ticks - T[k-1])
        ELSE AddLast([new EXCEPT !.sleep_for[t] = ticks - T[Len(s)]], Asleep, t)
  BY <1>1 DEF PutToSleep
<1>4. T \in [0..Len(s) -> Int] /\ Sums(T, m, s)
  BY TotalSums DEF Sums
<1>5. \A i, j \in 1..Len(s) : i <= j => T[i] <= T[j]
  BY <1>1, <1>2, <1>4, SumsGrow
<1>6. /\ new \in Memories /\ new.head = m.head /\ new.tail = m.tail
      /\ \A u \in TCB \ {t} : new.next[u] = m.next[u] /\ new.prev[u] = m.prev[u]
      /\ \A u \in TCB \ {t} : new.sleep_for[u] = m.sleep_for[u]
  <2>1. slept \in Memories
    BY <1>1 DEF Memories
  <2>2. /\ slept.head = m.head /\ slept.tail = m.tail /\ slept.next = m.next /\ slept.prev = m.prev
        /\ \A u \in TCB \ {t} : slept.sleep_for[u] = m.sleep_for[u]
    BY <1>1 DEF Memories
  <2>. HIDE DEF slept
  <2>3. /\ new.head = slept.head /\ new.tail = slept.tail /\ new.sleep_for = slept.sleep_for
        /\ \A u \in TCB \ {t} : new.next[u] = slept.next[u] /\ new.prev[u] = slept.prev[u]
    BY <2>1 DEF Unlink, Memories
  <2>. QED  BY <2>1, <2>2, <2>3, UnlinkType
<1>. HIDE DEF new, T, s
<1>7. Shape(new, W)
  BY <1>6, OtherPointers
<1>8. CASE later # {}
  <2>1. later \subseteq Nat
    BY <1>2
  <2>2. k \in later /\ \A j \in later : k <= j
    <3>1. \E i \in later : \A j \in later : i <= j
      BY <1>8, <2>1, LeastNumber
    <3>. QED  BY <3>1
  <2>. HIDE DEF k
  <2>. DEFINE p == k - 1
  <2>3. k \in 1..Len(s) /\ T[k] > ticks /\ p \in 0..Len(s) - 1 /\ p \in 0..Len(s) /\ p + 1 = k /\ T[p] \in Int
    <3>1. k \in 1..Len(s) /\ T[k] > ticks
      BY <1>4, <2>2
    <3>2. p \in 0..Len(s) - 1 /\ p \in 0..Len(s) /\ p + 1 = k
      BY <1>2, <3>1
    <3>. QED  BY <1>4, <3>1, <3>2
  <2>. HIDE DEF p
  <2>4. SleepsAt(T, s, ticks, p)
    <3>1. ASSUME NEW i \in 1..p
          PROVE  T[i] <= ticks
      <4>1. i \in 1..Len(s) /\ i \in 0..Len(s) /\ ~(k <= i)
        BY <1>2, <2>3
      <4>2. i \notin later /\ T[i] \in Int
        BY <1>4, <2>2, <4>1
      <4>. QED  BY <4>1, <4>2
    <3>2. ASSUME NEW i \in p + 1..Len(s)
          PROVE  T[i] > ticks
      <4>1. i \in 1..Len(s) /\ i \in 0..Len(s) /\ k <= i /\ k \in 0..Len(s)
        BY <1>2, <2>3
      <4>2. T[k] <= T[i] /\ T[k] \in Int /\ T[i] \in Int
        BY <1>4, <1>5, <2>3, <4>1
      <4>. QED  BY <2>3, <4>2
    <3>. QED  BY <2>3, <3>1, <3>2 DEF SleepsAt
  <2>. DEFINE delta == ticks - T[p]
  <2>5. delta \in Int
    BY <2>3
  <2>6. PutToSleep(m, t, ticks) = InsertBefore(new, t, s[p + 1], delta)
    BY <1>3, <1>8, <2>3 DEF p
  <2>. HIDE DEF delta
  <2>. DEFINE n == InsertBefore(new, t, s[p + 1], delta)
  <2>7. /\ Shape(n, [W EXCEPT ![Asleep] = Inserted(s, p, t)])
        /\ n.sleep_for[t] = delta
        /\ \A u \in TCB \ {t} :
             n.sleep_for[u] = new.sleep_for[u] - IF u = At(s, p + 1) THEN delta ELSE 0
    BY <1>7, <2>3, <2>5, InsertBeforeKeeps DEF s
  <2>. HIDE DEF n
  <2>. QED  BY <1>6, <2>3, <2>4, <2>6, <2>7 DEF n, s, T, delta, SleptAt
<1>9. CASE later = {}
  <2>. DEFINE p == Len(s)
              n1 == [new EXCEPT !.sleep_for[t] = ticks - T[p]]
  <2>1. p \in 0..Len(s) /\ T[p] \in Int /\ At(s, p + 1) = NULL
    BY <1>2, <1>4 DEF At
  <2>2. SleepsAt(T, s, ticks, p)
    BY <1>2, <1>4, <1>9, <2>1 DEF SleepsAt
  <2>3. PutToSleep(m, t, ticks) = AddLast(n1, Asleep, t)
    BY <1>3, <1>9
  <2>4. /\ n1 \in Memories /\ n1.head = new.head /\ n1.tail = new.tail
        /\ n1.next = new.next /\ n1.prev = new.prev
        /\ n1.sleep_for = [new.sleep_for EXCEPT ![t] = ticks - T[p]]
    <3>. DEFINE x == ticks - T[p]
    <3>1. x \in Int
      BY <2>1
    <3>. HIDE DEF x
    <3>2. [new EXCEPT !.sleep_for[t] = x] \in Memories
      BY <1>6, <3>1 DEF Memories
    <3>3. /\ n1.head = new.head /\ n1.tail = new.tail /\ n1.next = new.next /\ n1.prev = new.prev
          /\ n1.sleep_for = [new.sleep_for EXCEPT ![t] = ticks - T[p]]
      BY <1>6 DEF Memories
    <3>. QED  BY <3>2, <3>3 DEF x
  <2>. HIDE DEF n1
  <2>5. Shape(n1, W)
    BY <1>7, <2>4, OtherPointers
  <2>. DEFINE n == AddLast(n1, Asleep, t)
  <2>6. Shape(n, [W EXCEPT ![Asleep] = Append(s, t)]) /\ n.sleep_for = n1.sleep_for
    BY <1>1, <2>5, AddLastKeeps DEF s
  <2>. HIDE DEF n
  <2>7. Inserted(s, p, t) = Append(s, t)
    BY <1>2, InsertedAtEnds
  <2>8. n.sleep_for[t] = ticks - T[p]
    BY <1>6, <2>4, <2>6 DEF Memories
  <2>9. ASSUME NEW u \in TCB \ {t}
        PROVE  n.sleep_for[u] = m.sleep_for[u] - IF u = At(s, p + 1) THEN ticks - T[p] ELSE 0
    <3>1. n.sleep_for[u] = m.sleep_for[u] /\ m.sleep_for[u] \in Int
      BY <1>1, <1>6, <2>4, <2>6 DEF Memories
    <3>. QED  BY <2>1, <3>1, ListAssumption
  <2>. QED  BY <2>1, <2>2, <2>3, <2>6, <2>7, <2>8, <2>9 DEF n, s, T, SleptAt
<1>. QED  BY <1>8, <1>9

(* The new sleeper has its ticks left, the others what they had.           *)
LEMMA SleepTimes ==
  ASSUME NEW m, NEW W, Shape(m, W), Timely(m, W[Asleep]),
         NEW t \in TCB, Absent(t, W), NEW ticks \in Nat \ {0},
         NEW n, NEW p, SleptAt(m, W, t, ticks, n, p)
  PROVE  /\ Timely(n, Inserted(W[Asleep], p, t))
         /\ TicksLeft(n) = [TicksLeft(m) EXCEPT ![t] = ticks]
<1>. DEFINE s == W[Asleep]
            T == TotalTime(m)
            V == [W EXCEPT ![Asleep] = Inserted(s, p, t)]
            u == V[Asleep]
            d == ticks - T[p]
            g == [i \in 0..Len(s) + 1 |-> IF i <= p THEN T[i] ELSE IF i = p + 1 THEN ticks ELSE T[i - 1]]
<1>1. /\ Asleep \in List /\ W \in [List -> Seq(TCB)] /\ OnceEach(W)
      /\ s \in Seq(TCB) /\ Len(s) \in Nat /\ m \in Memories /\ n \in Memories
  BY Ends DEF List, Shape, SleptAt
<1>2. /\ T \in [0..Len(s) -> Int] /\ T[0] = 0
      /\ \A i \in 1..Len(s) : T[i] = T[i-1] + m.sleep_for[s[i]]
  BY TotalSums DEF Sums
<1>3. /\ p \in 0..Len(s)
      /\ \A i \in 1..p : T[i] <= ticks
      /\ \A i \in p + 1..Len(s) : T[i] > ticks
  BY DEF SleptAt, SleepsAt
<1>4. u = Inserted(s, p, t) /\ u \in Seq(TCB) /\ Len(u) = Len(s) + 1
  BY <1>1, <1>3, InsertedSeq
<1>5. /\ \A i \in 1..p : u[i] = s[i]
      /\ u[p + 1] = t
      /\ \A i \in p + 1..Len(s) : u[i + 1] = s[i]
  BY <1>1, <1>3, <1>4, InsertedPlaces
<1>6. \A i \in 1..Len(s) : s[i] \in TCB \ {t} /\ (s[i] = At(s, p + 1) <=> i = p + 1)
  <2>1. p + 1 \in Int
    BY <1>3
  <2>2. \A i \in 1..Len(s) : s[i] = At(s, p + 1) => i = p + 1
    BY <1>1, <2>1, AtOnce
  <2>. QED  BY <1>1, <2>2 DEF Absent, At
<1>7. \A i \in 1..Len(s) : m.sleep_for[s[i]] \in Int /\ m.sleep_for[s[i]] >= IF i = 1 THEN 1 ELSE 0
  BY <1>1, <1>6 DEF Timely, Memories
<1>8. n.sleep_for[t] = d /\ \A i \in 1..Len(s) :
        n.sleep_for[s[i]] = m.sleep_for[s[i]] - IF i = p + 1 THEN d ELSE 0
  BY <1>6 DEF SleptAt
<1>9. Shape(n, V)
  BY DEF SleptAt
<1>10. d \in Int /\ T[p] \in Int /\ (p = 0 => d >= 1) /\ d >= 0
  BY <1>2, <1>3
<1>11. \A i \in 1..Len(s) : T[i] \in Int /\ T[i-1] \in Int
  <2>1. \A i \in 1..Len(s) : i \in 0..Len(s) /\ i - 1 \in 0..Len(s)
    BY <1>1
  <2>. QED  BY <1>2, <2>1
<1>. HIDE DEF u, V, T, s, d
<1>12. /\ g \in [0..Len(s) + 1 -> Int] /\ g[0] = 0
       /\ \A i \in 0..p : g[i] = T[i]
       /\ g[p + 1] = ticks
       /\ \A i \in p + 1..Len(s) : g[i + 1] = T[i]
  <2>1. \A i \in 0..Len(s) + 1 : i > p + 1 => i - 1 \in 0..Len(s)
    BY <1>1, <1>3
  <2>2. g \in [0..Len(s) + 1 -> Int]
    BY <1>1, <1>2, <1>3, <2>1
  <2>3. \A i \in 0..p : g[i] = T[i]
    BY <1>1, <1>3
  <2>4. g[p + 1] = ticks
    BY <1>1, <1>3
  <2>5. ASSUME NEW i \in p + 1..Len(s) PROVE g[i + 1] = T[i]
    <3>1. i + 1 \in 0..Len(s) + 1 /\ ~(i + 1 <= p) /\ i + 1 # p + 1 /\ (i + 1) - 1 = i
      BY <1>1, <1>3
    <3>. QED  BY <3>1
  <2>. QED  BY <1>2, <1>3, <2>2, <2>3, <2>4, <2>5
<1>. HIDE DEF g
<1>13. ASSUME NEW i \in 1..Len(u)
       PROVE  /\ g[i] = g[i - 1] + n.sleep_for[u[i]]
              /\ n.sleep_for[u[i]] >= IF i = 1 THEN 1 ELSE 0
  <2>1. CASE i <= p
    <3>1. i \in 1..p /\ i \in 1..Len(s) /\ i \in 0..p /\ i - 1 \in 0..p /\ i # p + 1
      BY <1>1, <1>3, <2>1
    <3>2. u[i] = s[i] /\ g[i] = T[i] /\ g[i - 1] = T[i - 1] /\ T[i] = T[i-1] + m.sleep_for[s[i]]
      BY <1>2, <1>5, <1>12, <3>1
    <3>3. n.sleep_for[s[i]] = m.sleep_for[s[i]] /\ m.sleep_for[s[i]] >= IF i = 1 THEN 1 ELSE 0
      BY <1>7, <1>8, <3>1
    <3>. QED  BY <3>2, <3>3
  <2>2. CASE i = p + 1
    <3>1. u[i] = t /\ g[i] = ticks /\ i - 1 = p /\ p \in 0..p /\ (i = 1 <=> p = 0)
      BY <1>3, <1>5, <1>12, <2>2
    <3>2. g[i - 1] = T[p]
      BY <1>12, <3>1
    <3>3. ticks = T[p] + d
      BY <1>10 DEF d
    <3>. QED  BY <1>8, <1>10, <3>1, <3>2, <3>3
  <2>3. CASE i > p + 1
    <3>1. PICK j \in p + 1..Len(s) : j = i - 1 /\ j + 1 = i
      BY <1>1, <1>3, <1>4, <2>3
    <3>2. j \in 1..Len(s) /\ i # 1
      BY <1>3, <3>1
    <3>3. u[i] = s[j] /\ g[i] = T[j] /\ T[j] = T[j-1] + m.sleep_for[s[j]]
      BY <1>2, <1>5, <1>12, <3>1, <3>2
    <3>4. CASE j = p + 1
      <4>1. i - 1 = p + 1 /\ j - 1 = p
        BY <1>3, <3>1, <3>4
      <4>2. g[i - 1] = ticks /\ T[j] > ticks
        BY <1>3, <1>12, <4>1
      <4>3. n.sleep_for[s[j]] = m.sleep_for[s[j]] - d /\ m.sleep_for[s[j]] \in Int /\ T[j] \in Int
        BY <1>7, <1>8, <1>11, <3>2, <3>4
      <4>4. ticks = T[p] + d /\ T[j] = T[p] + m.sleep_for[s[j]]
        BY <1>10, <3>3, <4>1 DEF d
      <4>. DEFINE x == m.sleep_for[s[j]]
                  y == n.sleep_for[s[j]]
      <4>5. x \in Int /\ y = x - d
        BY <4>3
      <4>. HIDE DEF x
      <4>6. T[p] \in Int /\ T[j] = T[p] + x /\ ticks \in Int
        BY <1>10, <4>4 DEF x
      <4>. HIDE DEF y
      <4>7. T[j] = ticks + y /\ y >= 0
        <5>1. \A a, b, e, f \in Int : a = b + e /\ a > b + f => a = (b + f) + (e - f) /\ e - f >= 0
          OBVIOUS
        <5>2. T[j] \in Int /\ d \in Int /\ T[j] > T[p] + d
          BY <1>10, <4>2, <4>3, <4>4
        <5>3. T[j] = (T[p] + d) + (x - d) /\ x - d >= 0
          BY <4>5, <4>6, <5>1, <5>2
        <5>. QED  BY <4>4, <4>5, <5>3
      <4>. QED  BY <3>2, <3>3, <4>2, <4>7 DEF y
    <3>5. CASE j > p + 1
      <4>1. j - 1 \in p + 1..Len(s) /\ (j - 1) + 1 = i - 1 /\ j # p + 1
        BY <1>3, <3>1, <3>5
      <4>2. g[i - 1] = T[j - 1]
        BY <1>12, <4>1
      <4>3. n.sleep_for[s[j]] = m.sleep_for[s[j]] /\ m.sleep_for[s[j]] >= 0
        BY <1>7, <1>8, <3>2, <4>1
      <4>. QED  BY <3>2, <3>3, <4>2, <4>3
    <3>. QED  BY <1>3, <3>1, <3>4, <3>5
  <2>. QED  BY <1>1, <1>3, <1>4, <2>1, <2>2, <2>3
<1>14. Timely(n, u)
  BY <1>13 DEF Timely
<1>15. TotalTime(n) = g
  <2>1. Sums(g, n, u)
    BY <1>4, <1>12, <1>13 DEF Sums
  <2>. QED  BY <1>9, <2>1, TotalIs DEF u
<1>16. /\ TicksLeft(n) \in [TCB -> Int]
       /\ \A i \in 1..Len(u) : TicksLeft(n)[u[i]] = g[i]
       /\ \A v \in TCB : (\A i \in 1..Len(u) : u[i] # v) => TicksLeft(n)[v] = 0
  BY <1>9, <1>15, LeftIs DEF u
<1>17. /\ TicksLeft(m) \in [TCB -> Int]
       /\ \A i \in 1..Len(s) : TicksLeft(m)[s[i]] = T[i]
       /\ \A v \in TCB : (\A i \in 1..Len(s) : s[i] # v) => TicksLeft(m)[v] = 0
  BY LeftIs DEF s, T
<1>18. ASSUME NEW v \in TCB
       PROVE  TicksLeft(n)[v] = IF v = t THEN ticks ELSE TicksLeft(m)[v]
  <2>1. CASE v = t
    <3>1. p + 1 \in 1..Len(u)
      BY <1>1, <1>3, <1>4
    <3>2. TicksLeft(n)[u[p + 1]] = g[p + 1]
      BY <1>16, <3>1
    <3>. QED  BY <1>5, <1>12, <2>1, <3>2
  <2>2. CASE \E i \in 1..Len(s) : v = s[i]
    <3>1. PICK i \in 1..Len(s) : v = s[i]
      BY <2>2
    <3>2. TicksLeft(m)[v] = T[i] /\ v # t
      BY <1>6, <1>17, <3>1
    <3>3. CASE i <= p
      <4>1. i \in 1..p /\ i \in 0..p /\ i \in 1..Len(u)
        BY <1>1, <1>3, <1>4, <3>3
      <4>. QED  BY <1>5, <1>12, <1>16, <3>1, <3>2, <4>1
    <3>4. CASE i > p
      <4>1. i \in p + 1..Len(s) /\ i + 1 \in 1..Len(u)
        BY <1>1, <1>3, <1>4, <3>4
      <4>2. u[i + 1] = v /\ g[i + 1] = T[i]
        BY <1>5, <1>12, <3>1, <4>1
      <4>. QED  BY <1>16, <3>2, <4>1, <4>2
    <3>. QED  BY <1>3, <3>3, <3>4
  <2>3. CASE v # t /\ \A i \in 1..Len(s) : v # s[i]
    <3>1. ASSUME NEW i \in 1..Len(u) PROVE u[i] # v
      <4>1. CASE i <= p
        <5>1. i \in 1..p /\ i \in 1..Len(s)
          BY <1>1, <1>3, <4>1
        <5>. QED  BY <1>5, <2>3, <5>1
      <4>2. CASE i = p + 1
        BY <1>5, <2>3, <4>2
      <4>3. CASE i > p + 1
        <5>1. PICK j \in p + 1..Len(s) : j + 1 = i
          BY <1>1, <1>3, <1>4, <4>3
        <5>2. j \in 1..Len(s)
          BY <1>3
        <5>. QED  BY <1>5, <2>3, <5>1, <5>2
      <4>. QED  BY <1>3, <4>1, <4>2, <4>3
    <3>. QED  BY <1>16, <1>17, <2>3, <3>1
  <2>. QED  BY <2>1, <2>2, <2>3
<1>19. TicksLeft(n) = [TicksLeft(m) EXCEPT ![t] = ticks]
  BY <1>16, <1>17, <1>18
<1>. QED  BY <1>4, <1>14, <1>19 DEF s

-----------------------------------------------------------------------------
(* timer_tick.                                                             *)

(* The lists when i sleepers have been woken.                              *)
Woken(W, i) ==
  [l \in List |->
     CASE l = Asleep -> SubSeq(W[Asleep], i + 1, Len(W[Asleep]))
       [] l = Ready  -> W[Ready] \o SubSeq(W[Asleep], 1, i)
       [] OTHER      -> W[l]]

LEMMA WokenSeqs ==
  ASSUME NEW W \in [List -> Seq(TCB)], NEW i \in 0..Len(W[Asleep])
  PROVE  /\ Woken(W, i)[Asleep] = SubSeq(W[Asleep], i + 1, Len(W[Asleep]))
         /\ Woken(W, i)[Ready] = W[Ready] \o SubSeq(W[Asleep], 1, i)
         /\ \A l \in List \ {Asleep, Ready} : Woken(W, i)[l] = W[l]
         /\ SubSeq(W[Asleep], i + 1, Len(W[Asleep])) \in Seq(TCB)
         /\ SubSeq(W[Asleep], 1, i) \in Seq(TCB)
         /\ Len(SubSeq(W[Asleep], i + 1, Len(W[Asleep]))) = Len(W[Asleep]) - i
         /\ Len(SubSeq(W[Asleep], 1, i)) = i
         /\ \A j \in 1..Len(W[Asleep]) - i :
              SubSeq(W[Asleep], i + 1, Len(W[Asleep]))[j] = W[Asleep][i + j]
<1>. DEFINE s == W[Asleep]
            n == Len(s)
<1>1. Asleep \in List /\ Ready \in List /\ Asleep # Ready
  BY ListAssumption DEF List
<1>2. s \in Seq(TCB) /\ n \in Nat /\ \A j \in 1..n : s[j] \in TCB
  BY <1>1
<1>3. /\ Woken(W, i)[Asleep] = SubSeq(s, i + 1, n)
      /\ Woken(W, i)[Ready] = W[Ready] \o SubSeq(s, 1, i)
      /\ \A l \in List \ {Asleep, Ready} : Woken(W, i)[l] = W[l]
  BY <1>1 DEF Woken
<1>. HIDE DEF s, n
<1>4. i \in 0..n
  BY DEF s, n
<1>5. /\ SubSeq(s, i + 1, n) \in Seq(TCB)
      /\ Len(SubSeq(s, i + 1, n)) = IF i + 1 <= n THEN n - (i + 1) + 1 ELSE 0
      /\ \A j \in 1..n - (i + 1) + 1 : SubSeq(s, i + 1, n)[j] = s[i + 1 + j - 1]
  <2>1. i + 1 \in Int /\ n \in Int /\ \A j \in i + 1..n : s[j] \in TCB
    BY <1>2, <1>4
  <2>. QED  BY <2>1, SubSeqProperties
<1>6. /\ SubSeq(s, 1, i) \in Seq(TCB)
      /\ Len(SubSeq(s, 1, i)) = IF 1 <= i THEN i - 1 + 1 ELSE 0
  <2>1. 1 \in Int /\ i \in Int /\ \A j \in 1..i : s[j] \in TCB
    BY <1>2, <1>4
  <2>. QED  BY <2>1, SubSeqProperties
<1>7. Len(SubSeq(s, i + 1, n)) = n - i /\ Len(SubSeq(s, 1, i)) = i
  BY <1>2, <1>4, <1>5, <1>6
<1>8. ASSUME NEW j \in 1..n - i PROVE SubSeq(s, i + 1, n)[j] = s[i + j]
  <2>1. j \in 1..n - (i + 1) + 1 /\ i + 1 + j - 1 = i + j
    BY <1>2, <1>4
  <2>. QED  BY <1>5, <2>1
<1>. QED  BY <1>3, <1>5, <1>6, <1>7, <1>8 DEF s, n

(* One more is woken.                                                      *)
LEMMA WokenNext ==
  ASSUME NEW W \in [List -> Seq(TCB)], NEW i \in 0..Len(W[Asleep]) - 1
  PROVE  LET V == [Woken(W, i) EXCEPT ![Asleep] = Tail(Woken(W, i)[Asleep])]
         IN /\ Woken(W, i)[Asleep] # <<>>
            /\ Woken(W, i)[Asleep][1] = W[Asleep][i + 1]
            /\ [V EXCEPT ![Ready] = Append(V[Ready], W[Asleep][i + 1])] = Woken(W, i + 1)
<1>. DEFINE s == W[Asleep]
            n == Len(s)
            B == Woken(W, i)
            V == [B EXCEPT ![Asleep] = Tail(B[Asleep])]
            X == [V EXCEPT ![Ready] = Append(V[Ready], s[i + 1])]
<1>1. Asleep \in List /\ Ready \in List /\ Asleep # Ready
  BY ListAssumption DEF List
<1>2. /\ s \in Seq(TCB) /\ n \in Nat /\ i \in 0..n /\ i + 1 \in 0..n /\ i + 1 \in 1..n
      /\ n \in i + 1..n /\ s[i + 1] \in TCB /\ W[Ready] \in Seq(TCB) /\ (i + 1) + 1 = i + 2
  <2>1. s \in Seq(TCB) /\ n \in Nat /\ W[Ready] \in Seq(TCB)
    BY <1>1
  <2>2. i + 1 \in 1..n
    BY <2>1
  <2>. QED  BY <2>1, <2>2
<1>3. /\ B[Asleep] = SubSeq(s, i + 1, n) /\ B[Ready] = W[Ready] \o SubSeq(s, 1, i)
      /\ \A l \in List \ {Asleep, Ready} : B[l] = W[l]
      /\ B[Asleep] \in Seq(TCB) /\ SubSeq(s, 1, i) \in Seq(TCB) /\ Len(B[Asleep]) = n - i
  <2>1. i \in 0..Len(W[Asleep])
    BY <1>2
  <2>2. /\ B[Asleep] = SubSeq(W[Asleep], i + 1, Len(W[Asleep]))
        /\ B[Ready] = W[Ready] \o SubSeq(W[Asleep], 1, i)
        /\ \A l \in List \ {Asleep, Ready} : B[l] = W[l]
        /\ SubSeq(W[Asleep], i + 1, Len(W[Asleep])) \in Seq(TCB)
        /\ SubSeq(W[Asleep], 1, i) \in Seq(TCB)
        /\ Len(SubSeq(W[Asleep], i + 1, Len(W[Asleep]))) = Len(W[Asleep]) - i
    BY <2>1, WokenSeqs
  <2>. HIDE DEF B
  <2>. QED  BY <2>2
<1>4. /\ Woken(W, i + 1)[Asleep] = SubSeq(s, i + 2, n)
      /\ Woken(W, i + 1)[Ready] = W[Ready] \o SubSeq(s, 1, i + 1)
      /\ \A l \in List \ {Asleep, Ready} : Woken(W, i + 1)[l] = W[l]
  <2>. DEFINE k == i + 1
  <2>1. k \in 0..Len(W[Asleep]) /\ k + 1 = i + 2
    BY <1>2
  <2>2. /\ Woken(W, k)[Asleep] = SubSeq(W[Asleep], k + 1, Len(W[Asleep]))
        /\ Woken(W, k)[Ready] = W[Ready] \o SubSeq(W[Asleep], 1, k)
        /\ \A l \in List \ {Asleep, Ready} : Woken(W, k)[l] = W[l]
    <3>. HIDE DEF k
    <3>. QED  BY <2>1, WokenSeqs
  <2>. QED  BY <2>1, <2>2
<1>5. Head(SubSeq(s, i + 1, n)) = s[i + 1] /\ Tail(SubSeq(s, i + 1, n)) = SubSeq(s, i + 2, n)
  BY <1>2, HeadTailOfSubSeq
<1>6. B[Asleep] # <<>> /\ B[Asleep][1] = s[i + 1]
  <2>1. Len(B[Asleep]) = n - i /\ n - i # 0 /\ B[Asleep] \in Seq(TCB)
    BY <1>2, <1>3
  <2>2. Head(B[Asleep]) = s[i + 1]
    BY <1>3, <1>5
  <2>. HIDE DEF B, s, n
  <2>. QED  BY <2>1, <2>2
<1>7. SubSeq(s, 1, i + 1) = Append(SubSeq(s, 1, i), s[i + 1])
  <2>1. 1 \in 1..n /\ i + 1 \in 1..n /\ (i + 1) - 1 = i
    BY <1>2
  <2>2. SubSeq(s, 1, i + 1) = SubSeq(s, 1, (i + 1) - 1) \o <<s[i + 1]>>
    BY <1>2, <2>1, SubSeqRecursiveSecond
  <2>. QED  BY <1>2, <1>3, <2>1, <2>2, AppendIsConcat
<1>8. Append(W[Ready] \o SubSeq(s, 1, i), s[i + 1]) = W[Ready] \o Append(SubSeq(s, 1, i), s[i + 1])
  <2>. DEFINE a == W[Ready]
              b == SubSeq(s, 1, i)
              e == s[i + 1]
  <2>1. a \in Seq(TCB) /\ b \in Seq(TCB) /\ e \in TCB /\ a \o b \in Seq(TCB) /\ <<e>> \in Seq(TCB)
    BY <1>2, <1>3
  <2>. HIDE DEF a, b, e
  <2>2. Append(a \o b, e) = (a \o b) \o <<e>> /\ Append(b, e) = b \o <<e>>
    BY <2>1, AppendIsConcat
  <2>3. (a \o b) \o <<e>> = a \o (b \o <<e>>)
    BY <2>1, ConcatAssociative
  <2>. QED  BY <2>2, <2>3 DEF a, b, e
<1>9. B = [l \in List |-> B[l]] /\ Woken(W, i + 1) = [l \in List |-> Woken(W, i + 1)[l]]
  BY DEF Woken
<1>. HIDE DEF B, s, n
<1>10. /\ X = [l \in List |-> X[l]]
       /\ X[Asleep] = Tail(B[Asleep]) /\ X[Ready] = Append(B[Ready], s[i + 1])
       /\ \A l \in List \ {Asleep, Ready} : X[l] = B[l]
  BY <1>1, <1>9
<1>11. \A l \in List : X[l] = Woken(W, i + 1)[l]
  BY <1>3, <1>4, <1>5, <1>7, <1>8, <1>10
<1>. HIDE DEF X
<1>12. X = Woken(W, i + 1)
  BY <1>9, <1>10, <1>11
<1>. QED  BY <1>6, <1>12 DEF X, B, s

LEMMA WakingKeeps ==
  ASSUME NEW m, NEW W, Shape(m, W), NEW n \in 0..Len(W[Asleep])
  PROVE  Shape(Waking(m, n), Woken(W, n)) /\ Waking(m, n).sleep_for = m.sleep_for
<1>. DEFINE next(x) == AddLast(TakeFirst(x, Asleep), Ready, x.head[Asleep])
            step == [i \in 1..n |-> [x \in Memories |-> next(x)]]
            Rule(g) == g = [i \in 0..n |-> IF i = 0 THEN m
                              ELSE LET t == g[i-1].head[Asleep]
                                   IN AddLast(TakeFirst(g[i-1], Asleep), Ready, t)]
            wake == CHOOSE g : Rule(g)
<1>1. /\ Asleep \in List /\ Ready \in List /\ m \in Memories /\ W \in [List -> Seq(TCB)]
      /\ Len(W[Asleep]) \in Nat
  BY Ends DEF List, Shape
<1>2. n \in Nat
  BY <1>1
<1>3. ASSUME NEW x \in Memories PROVE next(x) \in Memories
  <2>1. x.head[Asleep] \in TCB \cup {NULL}
    BY <1>1 DEF Memories
  <2>2. TakeFirst(x, Asleep) \in Memories
    BY <1>1, TakeFirstType
  <2>. QED  BY <1>1, <2>1, <2>2, AddLastType
<1>4. Waking(m, n) = wake[n]
  BY DEF Waking
<1>5. Rule(wake)
  <2>1. PICK f : IsIterated(f, n, Memories, m, step)
    <3>. HIDE DEF next
    <3>1. step \in [1..n -> [Memories -> Memories]]
      BY <1>3
    <3>. HIDE DEF step
    <3>. QED  BY <1>1, <1>2, <3>1, IterationExists
  <2>2. f \in [0..n -> Memories] /\ f[0] = m /\ \A i \in 1..n : f[i] = next(f[i-1])
    <3>. HIDE DEF next
    <3>1. \A i \in 1..n : f[i-1] \in Memories
      BY <1>2, <2>1 DEF IsIterated
    <3>. QED  BY <2>1, <3>1 DEF IsIterated
  <2>3. Rule(f)
    <3>. HIDE DEF next
    <3>1. f = [i \in 0..n |-> IF i = 0 THEN m ELSE next(f[i-1])]
      BY <1>2, <2>2
    <3>. QED  BY <3>1 DEF next
  <2>. QED  BY <2>3
<1>. HIDE DEF wake
<1>6. wake[0] = m /\ \A i \in 1..n : wake[i] = next(wake[i-1])
  <2>1. 0 \in 0..n /\ \A i \in 1..n : i \in 0..n /\ i # 0
    BY <1>2
  <2>. QED  BY <1>5, <2>1
<1>. HIDE DEF Rule
<1>. DEFINE S == {i \in 0..n : Shape(wake[i], Woken(W, i)) /\ wake[i].sleep_for = m.sleep_for}
<1>7. 0 \in S
  <2>1. Woken(W, 0) = W
    <3>1. 0 \in 0..Len(W[Asleep]) /\ 0 + 1 = 1 /\ W[Asleep] \in Seq(TCB) /\ W[Ready] \in Seq(TCB)
      BY <1>1
    <3>2. SubSeq(W[Asleep], 1, Len(W[Asleep])) = W[Asleep] /\ SubSeq(W[Asleep], 1, 0) = <<>>
      BY <3>1, SubSeqFull, SubSeqEmpty
    <3>5. /\ Woken(W, 0)[Asleep] = SubSeq(W[Asleep], 0 + 1, Len(W[Asleep]))
          /\ Woken(W, 0)[Ready] = W[Ready] \o SubSeq(W[Asleep], 1, 0)
          /\ \A l \in List \ {Asleep, Ready} : Woken(W, 0)[l] = W[l]
      BY <1>1, <3>1, WokenSeqs
    <3>6. W[Ready] \o <<>> = W[Ready]
      BY <3>1, ConcatEmptySeq
    <3>3. \A l \in List : Woken(W, 0)[l] = W[l]
      BY <3>1, <3>2, <3>5, <3>6
    <3>4. Woken(W, 0) = [l \in List |-> Woken(W, 0)[l]]
      BY DEF Woken
    <3>. QED  BY <1>1, <3>3, <3>4
  <2>. QED  BY <1>2, <1>6, <2>1
<1>8. ASSUME NEW i \in 0..n - 1, i \in S
      PROVE  i + 1 \in S
  <2>. DEFINE x == wake[i]
              B == Woken(W, i)
              t == W[Asleep][i + 1]
              V == [B EXCEPT ![Asleep] = Tail(B[Asleep])]
  <2>1. /\ i + 1 \in 1..n /\ (i + 1) - 1 = i /\ i + 1 \in 0..n /\ i \in 0..Len(W[Asleep]) - 1
        /\ i + 1 \in 1..Len(W[Asleep])
    BY <1>1, <1>2
  <2>2. Shape(x, B) /\ x.sleep_for = m.sleep_for
    BY <1>8
  <2>3. B[Asleep] # <<>> /\ B[Asleep][1] = t /\ [V EXCEPT ![Ready] = Append(V[Ready], t)] = Woken(W, i + 1)
    BY <1>1, <2>1, WokenNext
  <2>4. t \in TCB
    BY <1>1, <2>1
  <2>5. wake[i + 1] = next(x)
    BY <1>6, <2>1
  <2>. HIDE DEF x, B, t
  <2>6. x.head[Asleep] = t
    <3>1. x.head[Asleep] = At(B[Asleep], 1) /\ Len(B[Asleep]) \in Nat /\ Len(B[Asleep]) # 0
      BY <1>1, <2>2, <2>3, Ends
    <3>. QED  BY <2>3, <3>1 DEF At
  <2>7. /\ Shape(TakeFirst(x, Asleep), V) /\ Absent(t, V)
        /\ TakeFirst(x, Asleep).sleep_for = x.sleep_for
    BY <1>1, <2>2, <2>3, TakeFirstKeeps
  <2>. HIDE DEF V
  <2>8. /\ Shape(next(x), [V EXCEPT ![Ready] = Append(V[Ready], t)])
        /\ next(x).sleep_for = TakeFirst(x, Asleep).sleep_for
    BY <1>1, <2>4, <2>6, <2>7, AddLastKeeps
  <2>. HIDE DEF next
  <2>. QED  BY <2>1, <2>2, <2>3, <2>5, <2>7, <2>8
<1>. HIDE DEF S
<1>9. 0..n \subseteq S
  BY <1>2, <1>7, <1>8, IntervalInduction
<1>10. n \in S
  BY <1>2, <1>9
<1>. QED  BY <1>4, <1>10 DEF S

(* How many sleepers have no tick left when the first has one less.        *)
Expired(T, s, n) ==
  n \in 0..Len(s) /\ (\A i \in 1..n : T[i] = 1) /\ \A i \in n + 1..Len(s) : T[i] > 1

LEMMA TickWakes ==
  ASSUME NEW m, NEW W, Shape(m, W), Timely(m, W[Asleep]), W[Asleep] # <<>>
  PROVE  \E n \in 0..Len(W[Asleep]) :
           /\ Expired(TotalTime(m), W[Asleep], n)
           /\ Shape(TimerTick(m), Woken(W, n))
           /\ \A i \in 1..Len(W[Asleep]) :
                TimerTick(m).sleep_for[W[Asleep][i]] =
                  m.sleep_for[W[Asleep][i]] - IF i = 1 THEN 1 ELSE 0
<1>. DEFINE s == W[Asleep]
            N == Len(s)
            T == TotalTime(m)
            ticked == [m EXCEPT !.sleep_for[s[1]] = @ - 1]
            b(i) == ticked.sleep_for[s[i]]
            expired == {i \in 1..N : \A j \in 1..i : b(j) <= 0}
            n == Cardinality(expired)
<1>1. /\ Asleep \in List /\ Walk(m, Asleep) = s /\ m \in Memories /\ W \in [List -> Seq(TCB)]
      /\ OnceEach(W)
  BY WalkIs DEF List, Shape
<1>2. s \in Seq(TCB) /\ N \in Nat \ {0} /\ 1 \in 1..N /\ s[1] \in TCB /\ ~IsEmpty(m, Asleep)
  <2>1. s \in Seq(TCB) /\ N \in Nat /\ N # 0 /\ ~IsEmpty(m, Asleep)
    BY <1>1, Ends
  <2>. QED  BY <2>1
<1>3. TimerTick(m) = Waking(ticked, n)
  <2>1. Len(Walk(m, Asleep)) = N
    BY <1>1
  <2>. QED  BY <1>1, <1>2, <2>1 DEF TimerTick
<1>4. T \in [0..N -> Int] /\ T[0] = 0 /\ \A i \in 1..N : T[i] = T[i-1] + m.sleep_for[s[i]]
  BY TotalSums DEF Sums
<1>5. \A i \in 1..N : /\ s[i] \in TCB /\ (s[i] = s[1] <=> i = 1)
                      /\ m.sleep_for[s[i]] \in Int
                      /\ m.sleep_for[s[i]] >= IF i = 1 THEN 1 ELSE 0
  <2>1. \A i \in 1..N : s[i] \in TCB /\ (s[i] = s[1] <=> i = 1)
    BY <1>1, <1>2, Once
  <2>. QED  BY <1>1, <2>1 DEF Timely, Memories
<1>6. \A i, j \in 1..N : i <= j => T[i] <= T[j]
  <2>1. Sums(T, m, s)
    BY TotalSums
  <2>. QED  BY <1>1, <1>2, <2>1, SumsGrow
<1>. HIDE DEF s, N, T
<1>7. /\ ticked \in Memories /\ ticked.head = m.head /\ ticked.tail = m.tail
      /\ ticked.next = m.next /\ ticked.prev = m.prev
      /\ \A i \in 1..N : b(i) = m.sleep_for[s[i]] - IF i = 1 THEN 1 ELSE 0
  <2>. DEFINE x == m.sleep_for[s[1]] - 1
  <2>1. x \in Int /\ ticked = [m EXCEPT !.sleep_for[s[1]] = x]
    BY <1>1, <1>2, <1>5 DEF Memories
  <2>. HIDE DEF ticked, x
  <2>2. /\ ticked \in Memories /\ ticked.head = m.head /\ ticked.tail = m.tail
        /\ ticked.next = m.next /\ ticked.prev = m.prev
        /\ ticked.sleep_for = [m.sleep_for EXCEPT ![s[1]] = x]
    <3>1. ticked \in Memories
      BY <1>1, <2>1 DEF Memories
    <3>. QED  BY <1>1, <2>1, <3>1 DEF Memories
  <2>3. ASSUME NEW i \in 1..N
        PROVE  ticked.sleep_for[s[i]] = m.sleep_for[s[i]] - IF i = 1 THEN 1 ELSE 0
    <3>1. CASE i = 1
      BY <1>1, <1>2, <2>2, <3>1 DEF x, Memories
    <3>2. CASE i # 1
      BY <1>1, <1>2, <1>5, <2>2, <3>2 DEF Memories
    <3>. QED  BY <3>1, <3>2
  <2>. QED  BY <2>2, <2>3
<1>8. \A i \in 1..N : b(i) \in Int /\ b(i) >= 0
  BY <1>5, <1>7
<1>9. Shape(ticked, W)
  <2>. HIDE DEF ticked
  <2>. QED  BY <1>7 DEF Shape, Linked
<1>. HIDE DEF ticked
<1>10. n \in 0..N /\ expired = 1..n
  <2>1. \A i \in expired : \A j \in 1..i : j \in expired
    BY <1>2
  <2>2. expired \in SUBSET (1..N) /\ N \in Nat
    BY <1>2
  <2>. HIDE DEF expired
  <2>. QED  BY <2>1, <2>2, InitialPositions
<1>11. \A i \in 1..n : i \in 1..N /\ b(i) = 0
  <2>1. ASSUME NEW i \in 1..n PROVE i \in 1..N /\ b(i) = 0
    <3>. HIDE DEF b, n
    <3>1. i \in expired /\ i \in 1..i
      BY <1>10
    <3>2. i \in 1..N /\ b(i) <= 0
      BY <3>1
    <3>. QED  BY <1>8, <3>2
  <2>. QED  BY <2>1
<1>12. n + 1 \in 1..N => b(n + 1) >= 1
  <2>. HIDE DEF b
  <2>1. SUFFICES ASSUME n + 1 \in 1..N, b(n + 1) = 0 PROVE FALSE
    BY <1>8
  <2>2. n + 1 \notin expired
    <3>. HIDE DEF expired
    <3>1. n \in Nat
      BY <1>2, <1>10
    <3>. HIDE DEF n
    <3>. QED  BY <1>10, <3>1
  <2>. HIDE DEF n
  <2>3. \A j \in 1..n + 1 : b(j) <= 0
    <3>1. ASSUME NEW j \in 1..n + 1 PROVE b(j) <= 0
      <4>1. j \in 1..n \/ j = n + 1
        BY <1>10
      <4>. QED  BY <1>11, <2>1, <4>1
    <3>. QED  BY <3>1
  <2>. QED  BY <2>1, <2>2, <2>3
<1>. HIDE DEF b, n
<1>13. \A i \in 1..n : T[i] = 1
  <2>. DEFINE S == {i \in 0..n : i # 0 => T[i] = 1}
  <2>1. 0 \in S
    BY <1>10
  <2>2. ASSUME NEW i \in 0..n - 1, i \in S
        PROVE  i + 1 \in S
    <3>1. i + 1 \in 1..n /\ i + 1 \in 0..n /\ (i + 1) - 1 = i /\ i + 1 \in 1..N
      BY <1>10
    <3>2. b(i + 1) = 0 /\ b(i + 1) = m.sleep_for[s[i + 1]] - IF i + 1 = 1 THEN 1 ELSE 0
      BY <1>7, <1>11, <3>1 DEF b
    <3>3. m.sleep_for[s[i + 1]] \in Int /\ T[i + 1] = T[i] + m.sleep_for[s[i + 1]]
      BY <1>4, <1>5, <3>1
    <3>4. m.sleep_for[s[i + 1]] = IF i = 0 THEN 1 ELSE 0
      BY <3>2, <3>3
    <3>5. T[i + 1] = 1
      BY <1>4, <2>2, <3>3, <3>4
    <3>. QED  BY <3>1, <3>5
  <2>. HIDE DEF S
  <2>3. 0..n \subseteq S /\ n \in Nat
    BY <1>10, <2>1, <2>2, IntervalInduction
  <2>4. \A i \in 1..n : i \in 0..n /\ i # 0
    BY <2>3
  <2>. QED  BY <2>3, <2>4 DEF S
<1>14. ASSUME NEW i \in n + 1..N
       PROVE  T[i] > 1
  <2>1. n + 1 \in 1..N /\ i \in 1..N /\ n + 1 <= i /\ (n + 1) - 1 = n /\ n \in 0..N /\ n \in Int
    BY <1>2, <1>10
  <2>2. b(n + 1) >= 1 /\ b(n + 1) = m.sleep_for[s[n + 1]] - IF n + 1 = 1 THEN 1 ELSE 0
    BY <1>7, <1>12, <2>1 DEF b
  <2>3. m.sleep_for[s[n + 1]] \in Int /\ T[n + 1] = T[n] + m.sleep_for[s[n + 1]]
    BY <1>4, <1>5, <2>1
  <2>4. m.sleep_for[s[n + 1]] >= IF n = 0 THEN 2 ELSE 1
    BY <2>1, <2>2, <2>3
  <2>5. T[n] = IF n = 0 THEN 0 ELSE 1
    BY <1>4, <1>13, <2>1
  <2>6. T[n + 1] > 1 /\ T[n + 1] \in Int
    BY <2>3, <2>4, <2>5
  <2>7. T[n + 1] <= T[i] /\ T[i] \in Int
    BY <1>4, <1>6, <2>1
  <2>. QED  BY <2>6, <2>7
<1>15. Expired(T, s, n)
  BY <1>10, <1>13, <1>14 DEF Expired, N
<1>16. Shape(TimerTick(m), Woken(W, n)) /\ TimerTick(m).sleep_for = ticked.sleep_for
  <2>1. n \in 0..Len(W[Asleep])
    BY <1>10 DEF N, s
  <2>. QED  BY <1>3, <1>9, <2>1, WakingKeeps DEF n
<1>17. \A i \in 1..N : TimerTick(m).sleep_for[s[i]] = m.sleep_for[s[i]] - IF i = 1 THEN 1 ELSE 0
  BY <1>7, <1>16 DEF b
<1>. QED  BY <1>10, <1>15, <1>16, <1>17 DEF N, s, T

(* Each sleeper has one tick less left.                                    *)
LEMMA TickTimes ==
  ASSUME NEW m, NEW W, Shape(m, W), Timely(m, W[Asleep]),
         NEW k, Expired(TotalTime(m), W[Asleep], k),
         NEW n, Shape(n, Woken(W, k)),
         \A i \in 1..Len(W[Asleep]) :
           n.sleep_for[W[Asleep][i]] = m.sleep_for[W[Asleep][i]] - IF i = 1 THEN 1 ELSE 0
  PROVE  /\ Timely(n, Woken(W, k)[Asleep])
         /\ TicksLeft(n) = [t \in TCB |-> IF TicksLeft(m)[t] = 0 THEN 0 ELSE TicksLeft(m)[t] - 1]
<1>. DEFINE s == W[Asleep]
            N == Len(s)
            T == TotalTime(m)
            u == Woken(W, k)[Asleep]
            g == [i \in 0..N - k |-> IF i = 0 THEN 0 ELSE T[k + i] - 1]
<1>1. /\ Asleep \in List /\ m \in Memories /\ W \in [List -> Seq(TCB)] /\ OnceEach(W)
      /\ s \in Seq(TCB) /\ N \in Nat
  BY Ends DEF List, Shape
<1>2. k \in 0..N /\ (\A i \in 1..k : T[i] = 1) /\ \A i \in k + 1..N : T[i] > 1
  BY DEF Expired
<1>3. u \in Seq(TCB) /\ Len(u) = N - k /\ \A i \in 1..N - k : u[i] = s[k + i]
  <2>1. k \in 0..Len(W[Asleep])
    BY <1>2
  <2>2. /\ Woken(W, k)[Asleep] = SubSeq(W[Asleep], k + 1, Len(W[Asleep]))
        /\ SubSeq(W[Asleep], k + 1, Len(W[Asleep])) \in Seq(TCB)
        /\ Len(SubSeq(W[Asleep], k + 1, Len(W[Asleep]))) = Len(W[Asleep]) - k
        /\ \A j \in 1..Len(W[Asleep]) - k :
             SubSeq(W[Asleep], k + 1, Len(W[Asleep]))[j] = W[Asleep][k + j]
    BY <1>1, <2>1, WokenSeqs
  <2>. QED  BY <2>2
<1>4. T \in [0..N -> Int] /\ T[0] = 0 /\ \A i \in 1..N : T[i] = T[i-1] + m.sleep_for[s[i]]
  BY TotalSums DEF Sums
<1>5. \A i, j \in 1..N : s[i] = s[j] => i = j
  BY <1>1, Once
<1>6. \A i \in 1..N : /\ s[i] \in TCB /\ m.sleep_for[s[i]] \in Int
                      /\ m.sleep_for[s[i]] >= IF i = 1 THEN 1 ELSE 0
                      /\ n.sleep_for[s[i]] = m.sleep_for[s[i]] - IF i = 1 THEN 1 ELSE 0
  BY <1>1 DEF Timely, Memories
<1>7. /\ TicksLeft(m) \in [TCB -> Int]
      /\ \A i \in 1..N : TicksLeft(m)[s[i]] = T[i]
      /\ \A v \in TCB : (\A i \in 1..N : s[i] # v) => TicksLeft(m)[v] = 0
  BY LeftIs
<1>. HIDE DEF s, N, T, u
<1>8. \A i \in 1..N - k : k + i \in 1..N /\ k + i \in k + 1..N /\ i \in Int
  BY <1>1, <1>2
<1>9. /\ g \in [0..N - k -> Int] /\ g[0] = 0
      /\ \A i \in 1..N - k : g[i] = T[k + i] - 1
  <2>1. \A i \in 0..N - k : k + i \in 0..N
    BY <1>1, <1>2
  <2>2. 0 \in 0..N - k /\ \A i \in 1..N - k : i \in 0..N - k /\ i # 0
    BY <1>1, <1>2
  <2>. QED  BY <1>4, <2>1, <2>2
<1>. HIDE DEF g
<1>10. ASSUME NEW i \in 1..N - k
       PROVE  /\ g[i] = g[i - 1] + n.sleep_for[u[i]]
              /\ n.sleep_for[u[i]] >= IF i = 1 THEN 1 ELSE 0
  <2>. DEFINE x == m.sleep_for[s[k + i]]
              y == n.sleep_for[s[k + i]]
  <2>1. /\ u[i] = s[k + i] /\ k + i \in 1..N /\ k + i \in 0..N /\ (k + i) - 1 \in 0..N
        /\ k \in Int /\ i \in Int /\ k >= 0 /\ i >= 1
    BY <1>1, <1>2, <1>3, <1>8
  <2>2. /\ x \in Int /\ x >= (IF k + i = 1 THEN 1 ELSE 0) /\ y = x - (IF k + i = 1 THEN 1 ELSE 0)
        /\ T[k + i] = T[(k + i) - 1] + x
    BY <1>4, <1>6, <2>1
  <2>3. T[k + i] \in Int /\ T[(k + i) - 1] \in Int /\ T[k + i] > 1
    BY <1>2, <1>4, <1>8, <2>1
  <2>. HIDE DEF x, y
  <2>4. CASE i = 1
    <3>1. i - 1 = 0 /\ (k + i) - 1 = k /\ (k + i = 1 <=> k = 0)
      BY <2>1, <2>4
    <3>2. T[k] = IF k = 0 THEN 0 ELSE 1
      BY <1>2, <1>4, <2>1
    <3>3. y = T[k + i] - 1
      BY <2>2, <2>3, <3>1, <3>2
    <3>4. g[i] = y /\ g[i - 1] = 0 /\ y >= 1 /\ y \in Int
      BY <1>9, <2>3, <3>1, <3>3
    <3>. QED  BY <2>1, <2>4, <3>4 DEF y
  <2>5. CASE i # 1
    <3>1. i - 1 \in 1..N - k /\ k + (i - 1) = (k + i) - 1 /\ k + i # 1
      BY <1>1, <1>2, <2>1, <2>5
    <3>2. g[i - 1] = T[(k + i) - 1] - 1 /\ g[i] = T[k + i] - 1
      BY <1>9, <3>1
    <3>3. y = x /\ x >= 0
      BY <2>2, <3>1
    <3>4. g[i] = g[i - 1] + y /\ y >= 0
      BY <2>2, <2>3, <3>2, <3>3
    <3>. QED  BY <2>1, <2>5, <3>4 DEF y
  <2>. QED  BY <2>4, <2>5
<1>11. Timely(n, u)
  BY <1>3, <1>10 DEF Timely
<1>12. TotalTime(n) = g
  <2>1. Sums(g, n, u)
    BY <1>3, <1>9, <1>10 DEF Sums
  <2>. QED  BY <2>1, TotalIs DEF u
<1>13. /\ TicksLeft(n) \in [TCB -> Int]
       /\ \A i \in 1..N - k : TicksLeft(n)[u[i]] = g[i]
       /\ \A v \in TCB : (\A i \in 1..N - k : u[i] # v) => TicksLeft(n)[v] = 0
  BY <1>3, <1>12, LeftIs DEF u
<1>14. ASSUME NEW v \in TCB
       PROVE  TicksLeft(n)[v] = IF TicksLeft(m)[v] = 0 THEN 0 ELSE TicksLeft(m)[v] - 1
  <2>1. CASE \A i \in 1..N : s[i] # v
    <3>1. \A i \in 1..N - k : u[i] # v
      BY <1>3, <1>8, <2>1
    <3>. QED  BY <1>7, <1>13, <2>1, <3>1
  <2>2. CASE \E i \in 1..N : s[i] = v
    <3>1. PICK i \in 1..N : s[i] = v
      BY <2>2
    <3>2. TicksLeft(m)[v] = T[i]
      BY <1>7, <3>1
    <3>3. CASE i <= k
      <4>1. T[i] = 1
        BY <1>1, <1>2, <3>3
      <4>2. \A j \in 1..N - k : u[j] # v
        <5>1. ASSUME NEW j \in 1..N - k, u[j] = v PROVE FALSE
          <6>1. s[k + j] = s[i] /\ k + j \in 1..N
            BY <1>3, <1>8, <3>1, <5>1
          <6>2. k + j = i
            BY <1>5, <6>1
          <6>. QED  BY <1>2, <3>3, <6>2
        <5>. QED  BY <5>1
      <4>. QED  BY <1>13, <3>2, <4>1, <4>2
    <3>4. CASE i > k
      <4>1. PICK j \in 1..N - k : i = k + j
        <5>1. i - k \in 1..N - k /\ i = k + (i - k)
          BY <1>1, <1>2, <3>4
        <5>. QED  BY <5>1
      <4>2. u[j] = v /\ g[j] = T[i] - 1
        BY <1>3, <1>9, <3>1, <4>1
      <4>3. T[i] > 1 /\ T[i] \in Int
        <5>1. i \in k + 1..N /\ i \in 0..N
          BY <1>1, <1>2, <3>4
        <5>. QED  BY <1>2, <1>4, <5>1
      <4>4. TicksLeft(n)[v] = g[j]
        BY <1>13, <4>2
      <4>. QED  BY <3>2, <4>2, <4>3, <4>4
    <3>. QED  BY <1>2, <3>3, <3>4
  <2>. QED  BY <2>1, <2>2
<1>15. TicksLeft(n) = [t \in TCB |-> IF TicksLeft(m)[t] = 0 THEN 0 ELSE TicksLeft(m)[t] - 1]
  BY <1>13, <1>14
<1>. QED  BY <1>11, <1>15 DEF u

-----------------------------------------------------------------------------
(* The invariant: the pointers amount to some sequences, and the times of  *)
(* the sleepers to ticks still to come.                                    *)
Amounts(W) == Shape(mem, W) /\ Timely(mem, W[Asleep])

ListInv == \E W : Amounts(W)

(* The sequences are what the refinement mapping reads.                    *)
LEMMA Mapping ==
  ASSUME NEW m, NEW W, Shape(m, W)
  PROVE  /\ Walk(m, Asleep) = W[Asleep]
         /\ QueuesOf(m) = [l \in List \ {Asleep} |-> W[l]]
BY WalkIs DEF QueuesOf, List

LEMMA FreeThread ==
  ASSUME NEW W, Shape(mem, W), NEW t, InNoList(t)
  PROVE  Absent(t, W) /\ Promised!Free(t)
<1>1. \A l \in List : Walk(mem, l) = W[l] /\ DOMAIN W[l] = 1..Len(W[l])
  BY WalkIs, Ends
<1>2. Absent(t, W)
  BY <1>1 DEF Absent, InNoList
<1>3. Asleep \in List /\ \A l \in List : ~Promised!In(t, W[l])
  BY <1>1, <1>2 DEF Absent, Promised!In, List
<1>4. Promised!Free(t)
  BY <1>3, Mapping DEF Promised!Free
<1>. QED  BY <1>2, <1>4

(* The ticks left depend on the sleep queue and the times alone.           *)
LEMMA SameTicks ==
  ASSUME NEW m, NEW W, Shape(m, W), NEW n, NEW V, Shape(n, V),
         V[Asleep] = W[Asleep], n.sleep_for = m.sleep_for
  PROVE  TicksLeft(n) = TicksLeft(m) /\ (Timely(m, W[Asleep]) => Timely(n, V[Asleep]))
<1>1. Walk(n, Asleep) = Walk(m, Asleep)
  BY Mapping
<1>2. Sums(TotalTime(m), n, V[Asleep])
  BY TotalSums DEF Sums
<1>3. TotalTime(n) = TotalTime(m)
  BY <1>2, TotalIs
<1>4. TicksLeft(n) = TicksLeft(m)
  BY <1>1, <1>3 DEF TicksLeft
<1>5. Timely(m, W[Asleep]) => Timely(n, V[Asleep])
  BY DEF Timely
<1>. QED  BY <1>4, <1>5

(* A step that changes one queue.                                          *)
LEMMA QueueStep ==
  ASSUME NEW W, Amounts(W), NEW l \in List \ {Asleep}, NEW q,
         Shape(mem', [W EXCEPT ![l] = q]), mem'.sleep_for = mem.sleep_for
  PROVE  /\ ListInv'
         /\ QueuesOf(mem)[l] = W[l]
         /\ QueuesOf(mem)' = [QueuesOf(mem) EXCEPT ![l] = q]
         /\ UNCHANGED <<Walk(mem, Asleep), TicksLeft(mem)>>
<1>. DEFINE V == [W EXCEPT ![l] = q]
<1>1. Asleep \in List /\ W \in [List -> Seq(TCB)] /\ Shape(mem, W)
  BY DEF List, Amounts, Shape
<1>2. V[Asleep] = W[Asleep] /\ \A k \in List : V[k] = IF k = l THEN q ELSE W[k]
  BY <1>1
<1>. HIDE DEF V
<1>3. Shape(mem', V)
  BY DEF V
<1>4. TicksLeft(mem') = TicksLeft(mem) /\ Timely(mem', V[Asleep])
  BY <1>1, <1>2, <1>3, SameTicks DEF Amounts
<1>5. ListInv'
  BY <1>3, <1>4 DEF ListInv, Amounts
<1>6. Walk(mem, Asleep) = W[Asleep] /\ QueuesOf(mem) = [k \in List \ {Asleep} |-> W[k]]
  BY <1>1, Mapping
<1>7. Walk(mem', Asleep) = V[Asleep] /\ QueuesOf(mem') = [k \in List \ {Asleep} |-> V[k]]
  BY <1>3, Mapping
<1>8. QueuesOf(mem') = [QueuesOf(mem) EXCEPT ![l] = q]
  BY <1>2, <1>6, <1>7
<1>. QED  BY <1>2, <1>4, <1>5, <1>6, <1>7, <1>8

LEMMA StepAdd ==
  ASSUME ListInv, NEW l \in List \ {Asleep}, NEW t \in TCB, Add(t, l)
  PROVE  ListInv' /\ Promised!Enter(t, l)
<1>1. PICK W : Amounts(W)
  BY DEF ListInv
<1>2. Shape(mem, W) /\ l \in List
  BY <1>1 DEF Amounts
<1>3. Absent(t, W) /\ Promised!Free(t)
  BY <1>2, FreeThread DEF Add
<1>4. CASE mem' = AddLast(mem, l, t)
  <2>1. /\ Shape(mem', [W EXCEPT ![l] = Append(W[l], t)])
        /\ mem'.sleep_for = mem.sleep_for
    BY <1>2, <1>3, <1>4, AddLastKeeps
  <2>2. /\ ListInv' /\ QueuesOf(mem)[l] = W[l]
        /\ QueuesOf(mem)' = [QueuesOf(mem) EXCEPT ![l] = Append(W[l], t)]
        /\ UNCHANGED <<Walk(mem, Asleep), TicksLeft(mem)>>
    BY <1>1, <2>1, QueueStep
  <2>. QED  BY <1>3, <2>2 DEF Promised!Enter
<1>5. CASE mem' = AddFirst(mem, l, t)
  <2>1. /\ Shape(mem', [W EXCEPT ![l] = <<t>> \o W[l]])
        /\ mem'.sleep_for = mem.sleep_for
    BY <1>2, <1>3, <1>5, AddFirstKeeps
  <2>2. /\ ListInv' /\ QueuesOf(mem)[l] = W[l]
        /\ QueuesOf(mem)' = [QueuesOf(mem) EXCEPT ![l] = <<t>> \o W[l]]
        /\ UNCHANGED <<Walk(mem, Asleep), TicksLeft(mem)>>
    BY <1>1, <2>1, QueueStep
  <2>. QED  BY <1>3, <2>2 DEF Promised!Enter
<1>. QED  BY <1>4, <1>5 DEF Add

(* Taking from an empty list changes nothing.                              *)
LEMMA StepTake ==
  ASSUME ListInv, NEW l \in List \ {Asleep}, Take(l)
  PROVE  ListInv' /\ (Promised!Leave(l) \/ UNCHANGED mem)
<1>1. PICK W : Amounts(W)
  BY DEF ListInv
<1>2. Shape(mem, W) /\ l \in List
  BY <1>1 DEF Amounts
<1>3. CASE W[l] = <<>>
  <2>1. mem' = mem
    BY <1>2, <1>3, Ends DEF Take, TakeFirst, TakeLast
  <2>. QED  BY <2>1 DEF ListInv, Amounts
<1>4. CASE W[l] # <<>> /\ mem' = TakeFirst(mem, l)
  <2>1. /\ Shape(mem', [W EXCEPT ![l] = Tail(W[l])])
        /\ mem'.sleep_for = mem.sleep_for
    BY <1>2, <1>4, TakeFirstKeeps
  <2>2. /\ ListInv' /\ QueuesOf(mem)[l] = W[l]
        /\ QueuesOf(mem)' = [QueuesOf(mem) EXCEPT ![l] = Tail(W[l])]
        /\ UNCHANGED <<Walk(mem, Asleep), TicksLeft(mem)>>
    BY <1>1, <2>1, QueueStep
  <2>. QED  BY <1>4, <2>2 DEF Promised!Leave
<1>5. CASE W[l] # <<>> /\ mem' = TakeLast(mem, l)
  <2>. DEFINE q == SubSeq(W[l], 1, Len(W[l]) - 1)
  <2>1. Shape(mem', [W EXCEPT ![l] = q]) /\ mem'.sleep_for = mem.sleep_for
    BY <1>2, <1>5, TakeLastKeeps
  <2>. HIDE DEF q
  <2>2. /\ ListInv' /\ QueuesOf(mem)[l] = W[l]
        /\ QueuesOf(mem)' = [QueuesOf(mem) EXCEPT ![l] = q]
        /\ UNCHANGED <<Walk(mem, Asleep), TicksLeft(mem)>>
    BY <1>1, <2>1, QueueStep
  <2>. QED  BY <1>5, <2>2 DEF Promised!Leave, q
<1>. QED  BY <1>3, <1>4, <1>5 DEF Take

LEMMA InsertedParts ==
  ASSUME NEW s \in Seq(TCB), NEW p \in 0..Len(s), NEW t \in TCB
  PROVE  Inserted(s, p, t) = SubSeq(s, 1, p) \o <<t>> \o SubSeq(s, p + 1, Len(s))
<1>. DEFINE a == SubSeq(s, 1, p)
            c == SubSeq(s, p + 1, Len(s))
            x == a \o <<t>> \o c
<1>1. Len(s) \in Nat /\ p \in Int /\ <<t>> \in Seq(TCB) /\ Len(<<t>>) = 1 /\ <<t>>[1] = t
      /\ \A i \in 1..Len(s) : s[i] \in TCB
  OBVIOUS
<1>2. /\ a \in Seq(TCB) /\ Len(a) = p /\ \A i \in 1..p : a[i] = s[i]
  <2>1. 1 \in Int /\ \A i \in 1..p : s[i] \in TCB
    BY <1>1
  <2>2. /\ a \in Seq(TCB) /\ Len(a) = IF 1 <= p THEN p - 1 + 1 ELSE 0
        /\ \A i \in 1..p - 1 + 1 : a[i] = s[1 + i - 1]
    BY <1>1, <2>1, SubSeqProperties
  <2>. HIDE DEF a
  <2>3. Len(a) = p
    BY <1>1, <2>2
  <2>4. ASSUME NEW i \in 1..p PROVE a[i] = s[i]
    <3>1. i \in 1..p - 1 + 1 /\ 1 + i - 1 = i
      BY <1>1
    <3>. QED  BY <2>2, <3>1
  <2>. QED  BY <2>2, <2>3, <2>4
<1>3. /\ c \in Seq(TCB) /\ Len(c) = Len(s) - p /\ \A i \in 1..Len(s) - p : c[i] = s[p + i]
  <2>1. p + 1 \in Int /\ Len(s) \in Int /\ \A i \in p + 1..Len(s) : s[i] \in TCB
    BY <1>1
  <2>2. /\ c \in Seq(TCB) /\ Len(c) = IF p + 1 <= Len(s) THEN Len(s) - (p + 1) + 1 ELSE 0
        /\ \A i \in 1..Len(s) - (p + 1) + 1 : c[i] = s[p + 1 + i - 1]
    BY <2>1, SubSeqProperties
  <2>. HIDE DEF c
  <2>3. Len(c) = Len(s) - p
    BY <1>1, <2>2
  <2>4. ASSUME NEW i \in 1..Len(s) - p PROVE c[i] = s[p + i]
    <3>1. i \in 1..Len(s) - (p + 1) + 1 /\ p + 1 + i - 1 = p + i
      BY <1>1
    <3>. QED  BY <2>2, <3>1
  <2>. QED  BY <2>2, <2>3, <2>4
<1>. HIDE DEF a, c
<1>4. /\ a \o <<t>> \in Seq(TCB) /\ Len(a \o <<t>>) = p + 1
      /\ \A i \in 1..p + 1 : (a \o <<t>>)[i] = IF i <= p THEN s[i] ELSE t
  <2>1. /\ a \o <<t>> \in Seq(TCB) /\ Len(a \o <<t>>) = Len(a) + Len(<<t>>)
        /\ \A i \in 1..Len(a) + Len(<<t>>) : (a \o <<t>>)[i] =
             IF i <= Len(a) THEN a[i] ELSE <<t>>[i - Len(a)]
    BY <1>1, <1>2, ConcatProperties
  <2>2. ASSUME NEW i \in 1..p + 1
        PROVE  (a \o <<t>>)[i] = IF i <= p THEN s[i] ELSE t
    <3>1. i \in 1..Len(a) + Len(<<t>>) /\ (~(i <= p) => i - p = 1)
      BY <1>1, <1>2
    <3>. QED  BY <1>1, <1>2, <2>1, <3>1
  <2>. QED  BY <1>1, <1>2, <2>1, <2>2
<1>5. /\ x \in Seq(TCB) /\ Len(x) = Len(s) + 1
      /\ \A i \in 1..Len(s) + 1 : x[i] = IF i <= p THEN s[i] ELSE IF i = p + 1 THEN t ELSE s[i - 1]
  <2>. DEFINE y == a \o <<t>>
  <2>. HIDE DEF y
  <2>1. /\ y \o c \in Seq(TCB) /\ Len(y \o c) = Len(y) + Len(c)
        /\ \A i \in 1..Len(y) + Len(c) : (y \o c)[i] = IF i <= Len(y) THEN y[i] ELSE c[i - Len(y)]
    BY <1>3, <1>4, ConcatProperties DEF y
  <2>2. Len(y) = p + 1 /\ \A i \in 1..p + 1 : y[i] = IF i <= p THEN s[i] ELSE t
    BY <1>4 DEF y
  <2>3. ASSUME NEW i \in 1..Len(s) + 1
        PROVE  (y \o c)[i] = IF i <= p THEN s[i] ELSE IF i = p + 1 THEN t ELSE s[i - 1]
    <3>1. i \in 1..Len(y) + Len(c) /\ i \in Int
      BY <1>1, <1>3, <2>2
    <3>2. CASE i <= p + 1
      BY <1>1, <2>1, <2>2, <3>1, <3>2
    <3>3. CASE i > p + 1
      <4>1. i - (p + 1) \in 1..Len(s) - p /\ p + (i - (p + 1)) = i - 1
        BY <1>1, <3>3
      <4>2. c[i - (p + 1)] = s[i - 1]
        BY <1>3, <4>1
      <4>. QED  BY <1>1, <2>1, <2>2, <3>1, <3>3, <4>2
    <3>4. i <= p + 1 \/ i > p + 1
      BY <1>1
    <3>. QED  BY <3>2, <3>3, <3>4, Zenon
  <2>. QED  BY <1>1, <1>3, <2>1, <2>2, <2>3 DEF y
<1>. HIDE DEF x
<1>6. Inserted(s, p, t) \in Seq(TCB) /\ Len(Inserted(s, p, t)) = Len(s) + 1
  BY InsertedSeq
<1>7. \A i \in 1..Len(s) + 1 : Inserted(s, p, t)[i] = x[i]
  BY <1>5 DEF Inserted
<1>8. Inserted(s, p, t) = x
  BY <1>5, <1>6, <1>7, SameSeq
<1>. QED  BY <1>8 DEF x, a, c

LEMMA StepSleep ==
  ASSUME ListInv, NEW t \in TCB, NEW ticks \in 1..MaxSleep, Sleep(t, ticks)
  PROVE  ListInv' /\ Promised!Sleep(t, ticks)
<1>1. PICK W : Amounts(W)
  BY DEF ListInv
<1>. DEFINE s == W[Asleep]
            T == TotalTime(mem)
<1>2. /\ Shape(mem, W) /\ Timely(mem, s) /\ Asleep \in List /\ W \in [List -> Seq(TCB)]
      /\ s \in Seq(TCB) /\ Len(s) \in Nat /\ mem' = PutToSleep(mem, t, ticks)
  BY <1>1 DEF Amounts, Shape, List, Sleep
<1>3. Absent(t, W) /\ Promised!Free(t)
  BY <1>2, FreeThread DEF Sleep
<1>4. ticks \in Nat /\ ticks \in Nat \ {0}
  BY ListAssumption
<1>13. \E p \in 0..Len(s) : SleptAt(mem, W, t, ticks, mem', p)
  BY <1>2, <1>3, <1>4, SleepKeeps
<1>14. PICK p \in 0..Len(s) : SleptAt(mem, W, t, ticks, mem', p)
  BY <1>13
<1>5. SleepsAt(T, s, ticks, p) /\ Shape(mem', [W EXCEPT ![Asleep] = Inserted(s, p, t)])
  BY <1>14 DEF SleptAt
<1>. DEFINE V == [W EXCEPT ![Asleep] = Inserted(s, p, t)]
<1>6. /\ Timely(mem', Inserted(s, p, t))
      /\ TicksLeft(mem') = [TicksLeft(mem) EXCEPT ![t] = ticks]
  BY <1>2, <1>3, <1>4, <1>14, SleepTimes
<1>7. V[Asleep] = Inserted(s, p, t) /\ \A k \in List \ {Asleep} : V[k] = W[k]
  BY <1>2
<1>8. ListInv'
  <2>. HIDE DEF V
  <2>1. Shape(mem', V) /\ Timely(mem', V[Asleep])
    BY <1>5, <1>6, <1>7 DEF V
  <2>. QED  BY <2>1 DEF ListInv, Amounts
<1>9. /\ Walk(mem, Asleep) = s
      /\ QueuesOf(mem) = [k \in List \ {Asleep} |-> W[k]]
  BY <1>2, Mapping
<1>10. /\ Walk(mem', Asleep) = SubSeq(s, 1, p) \o <<t>> \o SubSeq(s, p + 1, Len(s))
       /\ QueuesOf(mem') = QueuesOf(mem)
  <2>1. Inserted(s, p, t) = SubSeq(s, 1, p) \o <<t>> \o SubSeq(s, p + 1, Len(s))
    BY <1>2, InsertedParts
  <2>. HIDE DEF V, s
  <2>2. Shape(mem', V)
    BY <1>5 DEF V
  <2>3. Walk(mem', Asleep) = V[Asleep] /\ QueuesOf(mem') = [k \in List \ {Asleep} |-> V[k]]
    BY <2>2, Mapping
  <2>. QED  BY <1>7, <1>9, <2>1, <2>3
<1>11. \A i \in 1..Len(s) : TicksLeft(mem)[s[i]] <= ticks <=> i <= p
  <2>1. \A i \in 1..Len(s) : TicksLeft(mem)[s[i]] = T[i] /\ T[i] \in Int
    <3>1. T \in [0..Len(s) -> Int]
      BY <1>2, TotalSums DEF Sums
    <3>2. \A i \in 1..Len(s) : TicksLeft(mem)[s[i]] = T[i]
      BY <1>2, LeftIs
    <3>. HIDE DEF T
    <3>3. \A i \in 1..Len(s) : i \in 0..Len(s)
      BY <1>2
    <3>. QED  BY <3>1, <3>2, <3>3
  <2>. HIDE DEF T, s
  <2>2. ASSUME NEW i \in 1..Len(s)
        PROVE  T[i] <= ticks <=> i <= p
    <3>1. CASE i <= p
      BY <1>2, <1>5, <3>1 DEF SleepsAt
    <3>2. CASE i > p
      <4>1. T[i] > ticks
        BY <1>2, <1>5, <3>2 DEF SleepsAt
      <4>. QED  BY <1>4, <2>1, <3>2, <4>1
    <3>. QED  BY <1>2, <3>1, <3>2
  <2>. QED  BY <2>1, <2>2
<1>12. Promised!Sleep(t, ticks)
  <2>. HIDE DEF s
  <2>. QED  BY <1>3, <1>6, <1>9, <1>10, <1>11 DEF Promised!Sleep
<1>. QED  BY <1>8, <1>12

LEMMA StepTick ==
  ASSUME ListInv, Tick
  PROVE  ListInv' /\ Promised!Tick
<1>1. PICK W : Amounts(W)
  BY DEF ListInv
<1>. DEFINE s == W[Asleep]
            T == TotalTime(mem)
<1>2. /\ Shape(mem, W) /\ Timely(mem, s) /\ Asleep \in List /\ Ready \in List \ {Asleep}
      /\ W \in [List -> Seq(TCB)] /\ s \in Seq(TCB) /\ Len(s) \in Nat
      /\ mem' = TimerTick(mem)
  BY <1>1, ListAssumption DEF Amounts, Shape, List, Tick
<1>3. /\ Walk(mem, Asleep) = s
      /\ QueuesOf(mem) = [k \in List \ {Asleep} |-> W[k]]
  BY <1>2, Mapping
<1>4. /\ TicksLeft(mem) \in [TCB -> Int]
      /\ \A i \in 1..Len(s) : TicksLeft(mem)[s[i]] = T[i]
      /\ \A v \in TCB : (\A i \in 1..Len(s) : s[i] # v) => TicksLeft(mem)[v] = 0
  BY <1>2, LeftIs
<1>. DEFINE Done(k) ==
              /\ \A i \in 1..Len(s) : TicksLeft(mem)[s[i]] = 1 <=> i <= k
              /\ Shape(mem', Woken(W, k)) /\ Timely(mem', Woken(W, k)[Asleep])
              /\ TicksLeft(mem') =
                   [t \in TCB |-> IF TicksLeft(mem)[t] = 0 THEN 0 ELSE TicksLeft(mem)[t] - 1]
<1>5. ASSUME s = <<>> PROVE \E k \in 0..Len(s) : Done(k)
  <2>1. mem' = mem
    BY <1>2, <1>5, Ends DEF TimerTick
  <2>2. 0 \in 0..Len(s) /\ Len(s) = 0 /\ \A i \in 1..Len(s) : FALSE
    BY <1>2, <1>5
  <2>3. Woken(W, 0) = W
    <3>1. /\ Woken(W, 0)[Asleep] = SubSeq(s, 0 + 1, Len(s))
          /\ Woken(W, 0)[Ready] = W[Ready] \o SubSeq(s, 1, 0)
          /\ \A l \in List \ {Asleep, Ready} : Woken(W, 0)[l] = W[l]
      BY <1>2, <2>2, WokenSeqs
    <3>2. 0 + 1 = 1 /\ SubSeq(s, 1, 0) = <<>> /\ W[Ready] \in Seq(TCB)
      BY <1>2, SubSeqEmpty
    <3>3. W[Ready] \o <<>> = W[Ready]
      BY <3>2, ConcatEmptySeq
    <3>4. \A l \in List : Woken(W, 0)[l] = W[l]
      BY <1>5, <2>2, <3>1, <3>2, <3>3
    <3>5. Woken(W, 0) = [l \in List |-> Woken(W, 0)[l]]
      BY DEF Woken
    <3>. QED  BY <1>2, <3>4, <3>5
  <2>4. TicksLeft(mem) = [t \in TCB |-> IF TicksLeft(mem)[t] = 0 THEN 0 ELSE TicksLeft(mem)[t] - 1]
    <3>1. \A t \in TCB : TicksLeft(mem)[t] = 0
      BY <1>4, <2>2
    <3>. QED  BY <1>4, <3>1
  <2>5. Done(0)
    BY <1>2, <2>1, <2>2, <2>3, <2>4
  <2>. QED  BY <2>2, <2>5
<1>6. ASSUME s # <<>> PROVE \E k \in 0..Len(s) : Done(k)
  <2>1. PICK k \in 0..Len(s) :
          /\ Expired(T, s, k)
          /\ Shape(mem', Woken(W, k))
          /\ \A i \in 1..Len(s) :
               mem'.sleep_for[s[i]] = mem.sleep_for[s[i]] - IF i = 1 THEN 1 ELSE 0
    BY <1>2, <1>6, TickWakes
  <2>2. /\ Timely(mem', Woken(W, k)[Asleep])
        /\ TicksLeft(mem') =
             [t \in TCB |-> IF TicksLeft(mem)[t] = 0 THEN 0 ELSE TicksLeft(mem)[t] - 1]
    BY <1>2, <2>1, TickTimes
  <2>. HIDE DEF T
  <2>3. \A i \in 1..Len(s) : T[i] = 1 <=> i <= k
    <3>. HIDE DEF s
    <3>. QED  BY <1>2, <2>1 DEF Expired
  <2>4. Done(k)
    BY <1>4, <2>1, <2>2, <2>3
  <2>. QED  BY <2>4
<1>7. PICK k \in 0..Len(s) : Done(k)
  BY <1>5, <1>6
<1>8. ListInv'
  <2>. DEFINE V == Woken(W, k)
  <2>1. Shape(mem', V) /\ Timely(mem', V[Asleep])
    BY <1>7
  <2>. HIDE DEF V
  <2>. QED  BY <2>1 DEF ListInv, Amounts
<1>9. /\ Walk(mem', Asleep) = SubSeq(s, k + 1, Len(s))
      /\ QueuesOf(mem') = [QueuesOf(mem) EXCEPT ![Ready] = W[Ready] \o SubSeq(s, 1, k)]
  <2>1. /\ Woken(W, k)[Asleep] = SubSeq(s, k + 1, Len(s))
        /\ Woken(W, k)[Ready] = W[Ready] \o SubSeq(s, 1, k)
        /\ \A l \in List \ {Asleep, Ready} : Woken(W, k)[l] = W[l]
    BY <1>2, WokenSeqs
  <2>2. /\ Walk(mem', Asleep) = Woken(W, k)[Asleep]
        /\ QueuesOf(mem') = [l \in List \ {Asleep} |-> Woken(W, k)[l]]
    BY ZenonT(40), <1>7, Mapping
  <2>3. \A l \in List \ {Asleep} : Woken(W, k)[l] =
          IF l = Ready THEN W[Ready] \o SubSeq(s, 1, k) ELSE W[l]
    BY <2>1
  <2>. QED  BY <1>3, <2>1, <2>2, <2>3
<1>10. QueuesOf(mem)[Ready] = W[Ready]
  BY <1>2, <1>3
<1>. HIDE DEF s
<1>11. Promised!Tick
  BY <1>3, <1>7, <1>9, <1>10 DEF Promised!Tick
<1>. QED  BY <1>8, <1>11

LEMMA ListInvInit ==
  ASSUME Init
  PROVE  ListInv /\ Promised!Init
<1>. DEFINE W == [l \in List |-> <<>>]
<1>1. \A l \in List : W[l] = <<>> /\ Len(W[l]) = 0 /\ \A i \in 1..Len(W[l]) : FALSE
  OBVIOUS
<1>2. W \in [List -> Seq(TCB)]
  OBVIOUS
<1>3. mem \in Memories /\ \A l \in List : mem.head[l] = NULL /\ mem.tail[l] = NULL
  BY DEF Init, Memories
<1>4. Asleep \in List
  BY DEF List
<1>. HIDE DEF W
<1>5. OnceEach(W)
  BY <1>1 DEF OnceEach
<1>6. Linked(mem, W)
  BY <1>1, <1>3 DEF Linked, At
<1>7. Shape(mem, W) /\ Timely(mem, W[Asleep])
  BY <1>1, <1>2, <1>3, <1>4, <1>5, <1>6 DEF Shape, Timely
<1>8. ListInv
  BY <1>7 DEF ListInv, Amounts
<1>9. Walk(mem, Asleep) = <<>> /\ QueuesOf(mem) = [l \in List \ {Asleep} |-> <<>>]
  BY ZenonT(40), <1>1, <1>4, <1>7, Mapping
<1>10. TicksLeft(mem) = [t \in TCB |-> 0]
  BY <1>1, <1>4, <1>7, LeftIs
<1>. QED  BY <1>8, <1>9, <1>10 DEF Promised!Init

LEMMA ListStep ==
  ASSUME ListInv, [Next]_mem
  PROVE  ListInv' /\ [Promised!Next]_Promised!queues
<1>1. CASE UNCHANGED mem
  BY <1>1 DEF ListInv, Amounts, Promised!queues
<1>2. CASE \E l \in List \ {Asleep} : Take(l)
  <2>1. PICK l \in List \ {Asleep} : Take(l)
    BY <1>2
  <2>2. ListInv' /\ (Promised!Leave(l) \/ UNCHANGED mem)
    BY <2>1, StepTake
  <2>. QED  BY <2>2 DEF Promised!Next, Promised!queues
<1>3. CASE \E l \in List \ {Asleep}, t \in TCB : Add(t, l)
  <2>1. PICK l \in List \ {Asleep}, t \in TCB : Add(t, l)
    BY <1>3
  <2>2. ListInv' /\ Promised!Enter(t, l)
    BY <2>1, StepAdd
  <2>. QED  BY <2>2 DEF Promised!Next
<1>4. CASE \E t \in TCB, ticks \in 1..MaxSleep : Sleep(t, ticks)
  <2>1. PICK t \in TCB, ticks \in 1..MaxSleep : Sleep(t, ticks)
    BY <1>4
  <2>2. ListInv' /\ Promised!Sleep(t, ticks)
    BY <2>1, StepSleep
  <2>. QED  BY <2>2 DEF Promised!Next
<1>5. CASE Tick
  BY <1>5, StepTick DEF Promised!Next
<1>. QED  BY <1>1, <1>2, <1>3, <1>4, <1>5 DEF Next

LEMMA ListInvariant == Spec => []ListInv
<1>1. Init => ListInv
  BY ListInvInit
<1>2. ListInv /\ [Next]_mem => ListInv'
  BY ListStep
<1>. QED  BY <1>1, <1>2, PTL DEF Spec

(* Whatever the kernel does with its lists, each can be walked from either *)
(* end and ends at the other, and no TCB is in two: the prev pointers that *)
(* take_last and put_to_sleep follow are right.                            *)
THEOREM ListsWellLinked == Spec => []WellLinked
<1>1. ListInv => WellLinked
  BY ShapeLinked DEF ListInv, Amounts
<1>. QED  BY <1>1, ListInvariant, PTL

(* list.hpp and put_to_sleep and timer_tick keep the promise of Queues:    *)
(* who enters a queue leaves it once, from its end, and who sleeps becomes *)
(* ready after the ticks asked for, together with those of the same tick   *)
(* and in the order of the queue.                                          *)
THEOREM ListsAreQueues == Spec => QueuesImplemented
<1>1. Init => Promised!Init
  BY ListInvInit
<1>2. ListInv /\ [Next]_mem => [Promised!Next]_Promised!queues
  BY ListStep
<1>. QED  BY <1>1, <1>2, ListInvariant, PTL DEF Spec, QueuesImplemented, Promised!Spec
=============================================================================
