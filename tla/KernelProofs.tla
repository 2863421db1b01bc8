---------------------------- MODULE KernelProofs ----------------------------
(***************************************************************************)
(* Proofs about Kernel for every number of threads, semaphores, buffer     *)
(* places and ticks.  Sections: sequences, the lists of threads under each *)
(* operation of the kernel, type correctness, the inductive invariant.     *)
(***************************************************************************)
EXTENDS Kernel, SequenceTheorems, FiniteSetTheorems, TLAPS

-----------------------------------------------------------------------------
(* Sequences as sets of elements.                                          *)

(* Elements of a sequence are elements of the set it is over.              *)
LEMMA ElementsType ==
  ASSUME NEW S, NEW q \in Seq(S)
  PROVE  Elements(q) \subseteq S
  BY DEF Elements

(* List::add_last adds one element.                                        *)
LEMMA ElementsAppend ==
  ASSUME NEW S, NEW q \in Seq(S), NEW x \in S
  PROVE  /\ Append(q, x) \in Seq(S)
         /\ Elements(Append(q, x)) = Elements(q) \cup {x}
         /\ Distinct(q) /\ x \notin Elements(q) => Distinct(Append(q, x))
<1>1. /\ Append(q, x) \in Seq(S)
      /\ Len(Append(q, x)) = Len(q) + 1
      /\ \A i \in 1..Len(q) : Append(q, x)[i] = q[i]
      /\ Append(q, x)[Len(q) + 1] = x
  OBVIOUS
<1>2. DOMAIN q = 1..Len(q) /\ DOMAIN Append(q, x) = 1..Len(q) + 1
  OBVIOUS
<1>3. Elements(Append(q, x)) = Elements(q) \cup {x}
  BY <1>1, <1>2 DEF Elements
<1>4. ASSUME Distinct(q), x \notin Elements(q)
      PROVE  Distinct(Append(q, x))
  BY <1>1, <1>2, <1>4 DEF Elements, Distinct
<1>. QED  BY <1>1, <1>3, <1>4

(* List::take_first removes one element.                                   *)
LEMMA ElementsTail ==
  ASSUME NEW S, NEW q \in Seq(S), q # <<>>
  PROVE  /\ Head(q) \in S
         /\ Tail(q) \in Seq(S)
         /\ Elements(q) = Elements(Tail(q)) \cup {Head(q)}
         /\ Distinct(q) => Distinct(Tail(q)) /\ Head(q) \notin Elements(Tail(q))
<1>1. /\ Tail(q) \in Seq(S)
      /\ Len(Tail(q)) = Len(q) - 1
      /\ \A i \in 1..Len(q) - 1 : Tail(q)[i] = q[i + 1]
      /\ Head(q) = q[1]
      /\ Head(q) \in S
      /\ Len(q) \in Nat
      /\ Len(q) >= 1
  OBVIOUS
<1>2. DOMAIN q = 1..Len(q) /\ DOMAIN Tail(q) = 1..Len(q) - 1
  BY <1>1
<1>3. \A i \in DOMAIN q : i = 1 \/ (i - 1 \in DOMAIN Tail(q) /\ Tail(q)[i - 1] = q[i])
  BY <1>1, <1>2
<1>4. \A i \in DOMAIN Tail(q) : i + 1 \in DOMAIN q /\ Tail(q)[i] = q[i + 1]
  BY <1>1, <1>2
<1>5. Elements(q) = Elements(Tail(q)) \cup {Head(q)}
  <2>1. Elements(q) \subseteq Elements(Tail(q)) \cup {Head(q)}
    BY <1>1, <1>3 DEF Elements
  <2>2. Elements(Tail(q)) \cup {Head(q)} \subseteq Elements(q)
    BY <1>1, <1>2, <1>4 DEF Elements
  <2>. QED  BY <2>1, <2>2
<1>6. ASSUME Distinct(q)
      PROVE  Distinct(Tail(q)) /\ Head(q) \notin Elements(Tail(q))
  BY <1>1, <1>2, <1>4, <1>6 DEF Elements, Distinct
<1>. QED  BY <1>1, <1>5, <1>6

(* One list appended to another.                                           *)
LEMMA ElementsConcat ==
  ASSUME NEW S, NEW q \in Seq(S), NEW r \in Seq(S)
  PROVE  /\ q \o r \in Seq(S)
         /\ Elements(q \o r) = Elements(q) \cup Elements(r)
         /\ Distinct(q) /\ Distinct(r) /\ Elements(q) \cap Elements(r) = {}
              => Distinct(q \o r)
<1>1. /\ q \o r \in Seq(S)
      /\ Len(q \o r) = Len(q) + Len(r)
      /\ \A i \in 1..Len(q) + Len(r) :
           (q \o r)[i] = IF i <= Len(q) THEN q[i] ELSE r[i - Len(q)]
      /\ Len(q) \in Nat /\ Len(r) \in Nat
  OBVIOUS
<1>2. /\ DOMAIN q = 1..Len(q)
      /\ DOMAIN r = 1..Len(r)
      /\ DOMAIN (q \o r) = 1..Len(q) + Len(r)
  BY <1>1
<1>3. \A i \in DOMAIN q : i \in DOMAIN (q \o r) /\ (q \o r)[i] = q[i]
  BY <1>1, <1>2
<1>4. \A i \in DOMAIN r : i + Len(q) \in DOMAIN (q \o r) /\ (q \o r)[i + Len(q)] = r[i]
  BY <1>1, <1>2
<1>5. \A i \in DOMAIN (q \o r) :
        \/ i \in DOMAIN q /\ (q \o r)[i] = q[i]
        \/ i - Len(q) \in DOMAIN r /\ i > Len(q) /\ (q \o r)[i] = r[i - Len(q)]
  BY <1>1, <1>2
<1>6. Elements(q \o r) = Elements(q) \cup Elements(r)
  <2>1. Elements(q \o r) \subseteq Elements(q) \cup Elements(r)
    BY <1>5 DEF Elements
  <2>2. Elements(q) \cup Elements(r) \subseteq Elements(q \o r)
    BY <1>3, <1>4 DEF Elements
  <2>. QED  BY <2>1, <2>2
<1>7. ASSUME Distinct(q), Distinct(r), Elements(q) \cap Elements(r) = {}
      PROVE  Distinct(q \o r)
  <2>. SUFFICES ASSUME NEW i \in DOMAIN (q \o r), NEW j \in DOMAIN (q \o r),
                       (q \o r)[i] = (q \o r)[j]
                PROVE  i = j
    BY DEF Distinct
  <2>1. CASE i \in DOMAIN q /\ (q \o r)[i] = q[i] /\ j \in DOMAIN q /\ (q \o r)[j] = q[j]
    BY <1>7, <2>1 DEF Distinct
  <2>2. CASE i - Len(q) \in DOMAIN r /\ j - Len(q) \in DOMAIN r
               /\ (q \o r)[i] = r[i - Len(q)] /\ (q \o r)[j] = r[j - Len(q)]
    <3>1. i - Len(q) = j - Len(q)
      BY <1>7, <2>2 DEF Distinct
    <3>2. i \in Int /\ j \in Int /\ Len(q) \in Int
      BY <1>1, <1>2
    <3>. QED  BY <3>1, <3>2
  <2>3. CASE i \in DOMAIN q /\ (q \o r)[i] = q[i]
               /\ j - Len(q) \in DOMAIN r /\ (q \o r)[j] = r[j - Len(q)]
    BY <1>7, <2>3 DEF Elements
  <2>4. CASE j \in DOMAIN q /\ (q \o r)[j] = q[j]
               /\ i - Len(q) \in DOMAIN r /\ (q \o r)[i] = r[i - Len(q)]
    BY <1>7, <2>4 DEF Elements
  <2>. QED  BY <1>5, <2>1, <2>2, <2>3, <2>4
<1>. QED  BY <1>1, <1>6, <1>7

(* The first k of a list and the rest, position by position.               *)
LEMMA SplitPositions ==
  ASSUME NEW S, NEW q \in Seq(S), NEW k \in 0..Len(q)
  PROVE  LET p == SubSeq(q, 1, k)
             r == SubSeq(q, k + 1, Len(q))
         IN /\ p \in Seq(S) /\ Len(p) = k /\ \A i \in 1..k : p[i] = q[i]
            /\ r \in Seq(S) /\ Len(r) = Len(q) - k
            /\ \A i \in 1..Len(q) - k : r[i] = q[i + k]
<1>. DEFINE p == SubSeq(q, 1, k)
            r == SubSeq(q, k + 1, Len(q))
<1>0. Len(q) \in Nat /\ k \in Nat /\ k <= Len(q) /\ DOMAIN q = 1..Len(q)
  OBVIOUS
<1>1. p \in Seq(S) /\ Len(p) = k /\ \A i \in 1..k : p[i] = q[i]
  <2>1. 1 \in Int /\ k \in Int /\ \A i \in 1..k : q[i] \in S
    BY <1>0
  <2>2. p \in Seq(S) /\ Len(p) = (IF 1 <= k THEN k - 1 + 1 ELSE 0)
          /\ \A i \in 1..k - 1 + 1 : p[i] = q[1 + i - 1]
    BY <2>1, SubSeqProperties
  <2>. QED  BY <1>0, <2>2
<1>2. r \in Seq(S) /\ Len(r) = Len(q) - k /\ \A i \in 1..Len(q) - k : r[i] = q[i + k]
  <2>1. k + 1 \in Int /\ Len(q) \in Int /\ \A i \in k + 1..Len(q) : q[i] \in S
    BY <1>0
  <2>2. r \in Seq(S)
          /\ Len(r) = (IF k + 1 <= Len(q) THEN Len(q) - (k + 1) + 1 ELSE 0)
          /\ \A i \in 1..Len(q) - (k + 1) + 1 : r[i] = q[k + 1 + i - 1]
    BY <2>1, SubSeqProperties
  <2>. HIDE DEF r
  <2>3. Len(r) = Len(q) - k
    <3>1. CASE k + 1 <= Len(q)
      BY <1>0, <2>2, <3>1
    <3>2. CASE k = Len(q)
      BY <1>0, <2>2, <3>2
    <3>3. k + 1 <= Len(q) \/ k = Len(q)
      <4>. DEFINE n == Len(q)
      <4>1. n \in Nat /\ k \in Nat /\ k <= n
        BY <1>0
      <4>. HIDE DEF n
      <4>2. k + 1 <= n \/ k = n
        BY <4>1
      <4>. QED  BY <4>2 DEF n
    <3>. QED  BY <3>1, <3>2, <3>3
  <2>4. \A i \in 1..Len(q) - k : r[i] = q[i + k]
    <3>. SUFFICES ASSUME NEW i \in 1..Len(q) - k
                  PROVE  r[i] = q[i + k]
      OBVIOUS
    <3>1. i \in 1..Len(q) - (k + 1) + 1 /\ k + 1 + i - 1 = i + k
      BY <1>0
    <3>. QED  BY <2>2, <3>1
  <2>. QED  BY <2>2, <2>3, <2>4
<1>. QED  BY <1>1, <1>2

(* The first k of a list and the rest.                                     *)
LEMMA ElementsSplit ==
  ASSUME NEW S, NEW q \in Seq(S), NEW k \in 0..Len(q)
  PROVE  LET p == SubSeq(q, 1, k)
             r == SubSeq(q, k + 1, Len(q))
         IN /\ p \in Seq(S)
            /\ r \in Seq(S)
            /\ Len(p) = k
            /\ Len(r) = Len(q) - k
            /\ Elements(q) = Elements(p) \cup Elements(r)
            /\ Distinct(q) =>
                 Distinct(p) /\ Distinct(r) /\ Elements(p) \cap Elements(r) = {}
<1>. DEFINE p == SubSeq(q, 1, k)
            r == SubSeq(q, k + 1, Len(q))
<1>0. Len(q) \in Nat /\ k \in Nat /\ k <= Len(q) /\ DOMAIN q = 1..Len(q)
  OBVIOUS
<1>1. p \in Seq(S) /\ Len(p) = k /\ \A i \in 1..k : p[i] = q[i]
  BY SplitPositions
<1>2. r \in Seq(S) /\ Len(r) = Len(q) - k /\ \A i \in 1..Len(q) - k : r[i] = q[i + k]
  BY SplitPositions
<1>. HIDE DEF p, r
<1>3. DOMAIN p = 1..k /\ DOMAIN r = 1..Len(q) - k
  BY <1>0, <1>1, <1>2
<1>4. \A i \in DOMAIN q :
        (i \in DOMAIN p /\ p[i] = q[i]) \/ (i - k \in DOMAIN r /\ r[i - k] = q[i])
  BY <1>0, <1>1, <1>2, <1>3
<1>5. \A i \in DOMAIN p : i \in DOMAIN q /\ p[i] = q[i]
  BY <1>0, <1>1, <1>3
<1>6. \A i \in DOMAIN r : i + k \in DOMAIN q /\ r[i] = q[i + k]
  BY <1>0, <1>2, <1>3
<1>7. Elements(q) = Elements(p) \cup Elements(r)
  <2>1. Elements(q) \subseteq Elements(p) \cup Elements(r)
    BY <1>4 DEF Elements
  <2>2. Elements(p) \cup Elements(r) \subseteq Elements(q)
    BY <1>5, <1>6 DEF Elements
  <2>. QED  BY <2>1, <2>2
<1>8. ASSUME Distinct(q)
      PROVE  Distinct(p) /\ Distinct(r) /\ Elements(p) \cap Elements(r) = {}
  <2>1. Distinct(p)
    BY <1>5, <1>8 DEF Distinct
  <2>2. Distinct(r)
    BY <1>0, <1>3, <1>6, <1>8 DEF Distinct
  <2>3. Elements(p) \cap Elements(r) = {}
    BY <1>0, <1>3, <1>5, <1>6, <1>8 DEF Distinct, Elements
  <2>. QED  BY <2>1, <2>2, <2>3
<1>. QED  BY <1>1, <1>2, <1>7, <1>8 DEF p, r

-----------------------------------------------------------------------------
(* The lists of threads under the operations of the kernel.  Lists says of *)
(* any statuses st, ready queue rq, semaphore lists wt and sleep queue sl  *)
(* what OneListPerThread says of the kernel's.                             *)

Lists(st, rq, wt, sl) ==
  /\ Distinct(rq)
  /\ Distinct(sl)
  /\ \A s \in SemAddr : Distinct(wt[s])
  /\ \A s \in SemAddr : Elements(wt[s]) \cap Elements(sl) = {}
  /\ \A r, s \in SemAddr : r # s => Elements(wt[r]) \cap Elements(wt[s]) = {}
  /\ \A t \in TCB :
       /\ st[t] = "READY" <=> t \in Elements(rq)
       /\ st[t] = "SUSPENDED" <=>
            t \in Elements(sl) \/ \E s \in SemAddr : t \in Elements(wt[s])

ListsType(st, rq, wt, sl) ==
  /\ st \in [TCB -> Status]
  /\ rq \in Seq(TCB)
  /\ wt \in [SemAddr -> Seq(TCB)]
  /\ sl \in Seq(TCB)

(* next_tcb: the first ready thread runs.                                  *)
LEMMA ListsSwitch ==
  ASSUME NEW st, NEW rq, NEW wt, NEW sl,
         ListsType(st, rq, wt, sl), Lists(st, rq, wt, sl), rq # <<>>
  PROVE  LET next == Head(rq)
             st2  == [st EXCEPT ![next] = "RUNNING"]
         IN /\ next \in TCB
            /\ st[next] = "READY"
            /\ ListsType(st2, Tail(rq), wt, sl)
            /\ Lists(st2, Tail(rq), wt, sl)
<1>. DEFINE next == Head(rq)
            st2  == [st EXCEPT ![next] = "RUNNING"]
<1>1. /\ next \in TCB
      /\ Tail(rq) \in Seq(TCB)
      /\ Elements(rq) = Elements(Tail(rq)) \cup {next}
      /\ Distinct(Tail(rq)) /\ next \notin Elements(Tail(rq))
  BY ElementsTail DEF ListsType, Lists
<1>. HIDE DEF next
<1>2. st[next] = "READY"
  BY <1>1 DEF Lists
<1>3. ListsType(st2, Tail(rq), wt, sl)
  BY <1>1 DEF ListsType, Status
<1>4. \A t \in TCB : st2[t] = IF t = next THEN "RUNNING" ELSE st[t]
  BY <1>1 DEF ListsType
<1>. HIDE DEF st2
<1>5. Lists(st2, Tail(rq), wt, sl)
  BY <1>1, <1>2, <1>4 DEF Lists
<1>. QED  BY <1>1, <1>2, <1>3, <1>5 DEF next, st2

(* put_tcb of a thread that is in no list: the running one, or a new one.  *)
LEMMA ListsPut ==
  ASSUME NEW st, NEW rq, NEW wt, NEW sl, NEW c \in TCB,
         ListsType(st, rq, wt, sl), Lists(st, rq, wt, sl),
         st[c] \in {"RUNNING", "FREE"}
  PROVE  LET st2 == [st EXCEPT ![c] = "READY"]
         IN /\ ListsType(st2, Append(rq, c), wt, sl)
            /\ Lists(st2, Append(rq, c), wt, sl)
            /\ Append(rq, c) # <<>>
<1>. DEFINE st2 == [st EXCEPT ![c] = "READY"]
<1>1. c \notin Elements(rq) /\ c \notin Elements(sl)
        /\ \A s \in SemAddr : c \notin Elements(wt[s])
  BY DEF Lists
<1>2. /\ Append(rq, c) \in Seq(TCB)
      /\ Elements(Append(rq, c)) = Elements(rq) \cup {c}
      /\ Distinct(Append(rq, c))
  BY <1>1, ElementsAppend DEF ListsType, Lists
<1>3. ListsType(st2, Append(rq, c), wt, sl)
  BY <1>2 DEF ListsType, Status
<1>4. \A t \in TCB : st2[t] = IF t = c THEN "READY" ELSE st[t]
  BY DEF ListsType
<1>5. Append(rq, c) # <<>>
  BY <1>2 DEF Elements
<1>. HIDE DEF st2
<1>6. Lists(st2, Append(rq, c), wt, sl)
  BY <1>1, <1>2, <1>4 DEF Lists
<1>. QED  BY <1>3, <1>5, <1>6 DEF st2

(* Sem::block of the running thread.                                       *)
LEMMA ListsBlock ==
  ASSUME NEW st, NEW rq, NEW wt, NEW sl, NEW c \in TCB, NEW s \in SemAddr,
         ListsType(st, rq, wt, sl), Lists(st, rq, wt, sl), st[c] = "RUNNING"
  PROVE  LET st2 == [st EXCEPT ![c] = "SUSPENDED"]
             wt2 == [wt EXCEPT ![s] = Append(@, c)]
         IN ListsType(st2, rq, wt2, sl) /\ Lists(st2, rq, wt2, sl)
<1>. DEFINE st2 == [st EXCEPT ![c] = "SUSPENDED"]
            wt2 == [wt EXCEPT ![s] = Append(@, c)]
<1>1. c \notin Elements(rq) /\ c \notin Elements(sl)
        /\ \A r \in SemAddr : c \notin Elements(wt[r])
  BY DEF Lists
<1>2. /\ Append(wt[s], c) \in Seq(TCB)
      /\ Elements(Append(wt[s], c)) = Elements(wt[s]) \cup {c}
      /\ Distinct(Append(wt[s], c))
  BY <1>1, ElementsAppend DEF ListsType, Lists
<1>3. ListsType(st2, rq, wt2, sl)
  BY <1>2 DEF ListsType, Status
<1>4. \A t \in TCB : st2[t] = IF t = c THEN "SUSPENDED" ELSE st[t]
  BY DEF ListsType
<1>5. \A r \in SemAddr : wt2[r] = IF r = s THEN Append(wt[s], c) ELSE wt[r]
  BY DEF ListsType
<1>. HIDE DEF st2, wt2
<1>6. \A r \in SemAddr :
        /\ Elements(wt2[r]) = IF r = s THEN Elements(wt[s]) \cup {c} ELSE Elements(wt[r])
        /\ Distinct(wt2[r])
  BY <1>2, <1>5 DEF Lists
<1>7. Lists(st2, rq, wt2, sl)
  BY <1>1, <1>4, <1>6 DEF Lists
<1>. QED  BY <1>3, <1>7 DEF st2, wt2

(* A list is split into the threads woken and the rest.                    *)
SplitsInto(q, woken, rest) ==
  /\ woken \in Seq(TCB)
  /\ rest \in Seq(TCB)
  /\ Elements(q) = Elements(woken) \cup Elements(rest)
  /\ Distinct(woken)
  /\ Distinct(rest)
  /\ Elements(woken) \cap Elements(rest) = {}

(* So is the list of s, and wt2 is what remains.                           *)
Splits(wt, s, woken, rest, wt2) ==
  /\ SplitsInto(wt[s], woken, rest)
  /\ wt2 = [wt EXCEPT ![s] = rest]

(* Sem::unblock of threads that wait on s.                                 *)
LEMMA ListsResume ==
  ASSUME NEW st, NEW rq, NEW wt, NEW sl, NEW s \in SemAddr,
         NEW woken, NEW rest, NEW wt2,
         ListsType(st, rq, wt, sl), Lists(st, rq, wt, sl),
         Splits(wt, s, woken, rest, wt2)
  PROVE  /\ ListsType(MakeReady(st, woken), rq \o woken, wt2, sl)
         /\ Lists(MakeReady(st, woken), rq \o woken, wt2, sl)
         /\ \A t \in Elements(woken) : t \in TCB /\ st[t] = "SUSPENDED"
<1>. DEFINE st2 == MakeReady(st, woken)
<1>. USE DEF Splits, SplitsInto
<1>1. \A r \in SemAddr : wt2[r] = IF r = s THEN rest ELSE wt[r]
  BY DEF ListsType
<1>2. \A t \in TCB : st2[t] = IF t \in Elements(woken) THEN "READY" ELSE st[t]
  BY DEF MakeReady
<1>3. st2 \in [TCB -> Status]
  BY DEF MakeReady, ListsType, Status
<1>4. wt2 \in [SemAddr -> Seq(TCB)]
  BY DEF ListsType
<1>. HIDE DEF st2
<1>5. \A t \in Elements(woken) : t \in TCB /\ st[t] = "SUSPENDED" /\ t \in Elements(wt[s])
  BY ElementsType DEF Lists
<1>6. Elements(rq) \cap Elements(woken) = {}
  BY <1>5 DEF Lists
<1>7. /\ rq \o woken \in Seq(TCB)
      /\ Elements(rq \o woken) = Elements(rq) \cup Elements(woken)
      /\ Distinct(rq \o woken)
  BY <1>6, ElementsConcat DEF ListsType, Lists
<1>8. \A r \in SemAddr :
        /\ Elements(wt2[r]) = IF r = s THEN Elements(rest) ELSE Elements(wt[r])
        /\ Distinct(wt2[r])
  BY <1>1 DEF Lists
<1>9. Lists(st2, rq \o woken, wt2, sl)
  <2>1. \A r \in SemAddr : Elements(wt2[r]) \subseteq Elements(wt[r])
    BY <1>8
  <2>2. \A t \in TCB : st2[t] = "READY" <=> t \in Elements(rq \o woken)
    BY <1>2, <1>7 DEF Lists
  <2>3. \A t \in TCB :
          st2[t] = "SUSPENDED" <=>
            t \in Elements(sl) \/ \E r \in SemAddr : t \in Elements(wt2[r])
    BY SMTT(40), <1>2, <1>5, <1>8 DEF Lists
  <2>. QED  BY <1>7, <1>8, <2>1, <2>2, <2>3 DEF Lists
<1>10. ListsType(st2, rq \o woken, wt2, sl)
  BY <1>3, <1>4, <1>7 DEF ListsType
<1>. QED  BY <1>5, <1>9, <1>10 DEF st2

(* Sem::close: every thread that waits on s.                               *)
LEMMA ListsClose ==
  ASSUME NEW st, NEW rq, NEW wt, NEW sl, NEW s \in SemAddr, NEW woken, NEW wt2,
         ListsType(st, rq, wt, sl), Lists(st, rq, wt, sl),
         woken = wt[s],
         wt2 = [wt EXCEPT ![s] = <<>>]
  PROVE  /\ ListsType(MakeReady(st, woken), rq \o woken, wt2, sl)
         /\ Lists(MakeReady(st, woken), rq \o woken, wt2, sl)
         /\ \A t \in Elements(woken) : t \in TCB /\ st[t] = "SUSPENDED"
<1>. DEFINE rest == <<>>
<1>1. /\ woken \in Seq(TCB) /\ rest \in Seq(TCB)
      /\ Elements(rest) = {} /\ Distinct(rest) /\ Distinct(woken)
  BY DEF ListsType, Lists, Elements, Distinct
<1>2. wt2 = [wt EXCEPT ![s] = rest]
  OBVIOUS
<1>. HIDE DEF rest
<1>3. Splits(wt, s, woken, rest, wt2)
  BY <1>1, <1>2 DEF Splits, SplitsInto
<1>. QED  BY <1>3, ListsResume

(* TCBSleepQueue::timer_tick waking sleepers.                              *)
LEMMA ListsWake ==
  ASSUME NEW st, NEW rq, NEW wt, NEW sl, NEW woken, NEW rest,
         ListsType(st, rq, wt, sl), Lists(st, rq, wt, sl),
         SplitsInto(sl, woken, rest)
  PROVE  /\ ListsType(MakeReady(st, woken), rq \o woken, wt, rest)
         /\ Lists(MakeReady(st, woken), rq \o woken, wt, rest)
         /\ \A t \in Elements(woken) : t \in TCB /\ st[t] = "SUSPENDED"
<1>. DEFINE st2 == MakeReady(st, woken)
<1>1. /\ woken \in Seq(TCB) /\ rest \in Seq(TCB)
      /\ Elements(sl) = Elements(woken) \cup Elements(rest)
      /\ Distinct(rest) /\ Distinct(woken) /\ Elements(woken) \cap Elements(rest) = {}
  BY DEF SplitsInto
<1>2. \A t \in TCB : st2[t] = IF t \in Elements(woken) THEN "READY" ELSE st[t]
  BY DEF MakeReady
<1>3. st2 \in [TCB -> Status]
  BY DEF MakeReady, ListsType, Status
<1>. HIDE DEF st2
<1>4. \A t \in Elements(woken) : t \in TCB /\ st[t] = "SUSPENDED" /\ t \in Elements(sl)
  BY <1>1, ElementsType DEF Lists
<1>5. Elements(rq) \cap Elements(woken) = {}
  BY <1>4 DEF Lists
<1>6. /\ rq \o woken \in Seq(TCB)
      /\ Elements(rq \o woken) = Elements(rq) \cup Elements(woken)
      /\ Distinct(rq \o woken)
  BY <1>1, <1>5, ElementsConcat DEF ListsType, Lists
<1>7. Lists(st2, rq \o woken, wt, rest)
  <2>1. \A t \in TCB : st2[t] = "READY" <=> t \in Elements(rq \o woken)
    BY <1>2, <1>6 DEF Lists
  <2>2. \A t \in TCB :
          st2[t] = "SUSPENDED" <=>
            t \in Elements(rest) \/ \E r \in SemAddr : t \in Elements(wt[r])
    BY <1>1, <1>2, <1>4 DEF Lists
  <2>. QED  BY <1>1, <1>6, <2>1, <2>2 DEF Lists
<1>8. ListsType(st2, rq \o woken, wt, rest)
  BY <1>1, <1>3, <1>6 DEF ListsType
<1>. QED  BY <1>4, <1>7, <1>8 DEF st2

(* free_tcb of the running thread.                                         *)
LEMMA ListsFree ==
  ASSUME NEW st, NEW rq, NEW wt, NEW sl, NEW c \in TCB,
         ListsType(st, rq, wt, sl), Lists(st, rq, wt, sl), st[c] = "RUNNING"
  PROVE  LET st2 == [st EXCEPT ![c] = "FREE"]
         IN ListsType(st2, rq, wt, sl) /\ Lists(st2, rq, wt, sl)
<1>. DEFINE st2 == [st EXCEPT ![c] = "FREE"]
<1>1. ListsType(st2, rq, wt, sl)
  BY DEF ListsType, Status
<1>2. \A t \in TCB : st2[t] = IF t = c THEN "FREE" ELSE st[t]
  BY DEF ListsType
<1>. HIDE DEF st2
<1>3. Lists(st2, rq, wt, sl)
  BY <1>2 DEF Lists
<1>. QED  BY <1>1, <1>3 DEF st2

(* TCBSleepQueue::put_to_sleep of the running thread, behind the first k.  *)
LEMMA ListsSleep ==
  ASSUME NEW st, NEW rq, NEW wt, NEW sl, NEW c \in TCB, NEW k \in 0..Len(sl),
         ListsType(st, rq, wt, sl), Lists(st, rq, wt, sl), st[c] = "RUNNING"
  PROVE  LET st2 == [st EXCEPT ![c] = "SUSPENDED"]
             sl2 == SubSeq(sl, 1, k) \o <<c>> \o SubSeq(sl, k + 1, Len(sl))
         IN ListsType(st2, rq, wt, sl2) /\ Lists(st2, rq, wt, sl2)
<1>. DEFINE p   == SubSeq(sl, 1, k)
            r   == SubSeq(sl, k + 1, Len(sl))
            u   == <<c>>
            st2 == [st EXCEPT ![c] = "SUSPENDED"]
            pu  == p \o u
            sl2 == pu \o r
<1>1. /\ p \in Seq(TCB) /\ r \in Seq(TCB)
      /\ Elements(sl) = Elements(p) \cup Elements(r)
      /\ Distinct(p) /\ Distinct(r) /\ Elements(p) \cap Elements(r) = {}
  BY ElementsSplit DEF ListsType, Lists
<1>2. c \notin Elements(rq) /\ c \notin Elements(sl)
        /\ \A s \in SemAddr : c \notin Elements(wt[s])
  BY DEF Lists
<1>3. \A t \in TCB : st2[t] = IF t = c THEN "SUSPENDED" ELSE st[t]
  BY DEF ListsType
<1>4. st2 \in [TCB -> Status]
  BY DEF ListsType, Status
<1>5. u \in Seq(TCB) /\ Elements(u) = {c} /\ Distinct(u)
  BY DEF Elements, Distinct
<1>. HIDE DEF p, r, u, st2
<1>6. /\ pu \in Seq(TCB)
      /\ Elements(pu) = Elements(p) \cup {c}
      /\ Distinct(pu)
  BY <1>1, <1>2, <1>5, ElementsConcat
<1>. HIDE DEF pu
<1>7. /\ sl2 \in Seq(TCB)
      /\ Elements(sl2) = Elements(sl) \cup {c}
      /\ Distinct(sl2)
  <2>1. Elements(pu) \cap Elements(r) = {}
    BY <1>1, <1>2, <1>6
  <2>2. /\ sl2 \in Seq(TCB)
        /\ Elements(sl2) = Elements(pu) \cup Elements(r)
        /\ Distinct(sl2)
    BY <1>1, <1>6, <2>1, ElementsConcat
  <2>. QED  BY <1>1, <1>6, <2>2
<1>. HIDE DEF sl2
<1>8. ListsType(st2, rq, wt, sl2)
  BY <1>4, <1>7 DEF ListsType
<1>9. Lists(st2, rq, wt, sl2)
  BY SMTT(40), <1>2, <1>3, <1>7 DEF Lists
<1>. QED  BY <1>8, <1>9 DEF p, r, u, pu, st2, sl2

-----------------------------------------------------------------------------
(* The console buffers.                                                    *)

(* Queue::put and Queue::get keep a queue of characters.                   *)
LEMMA BufferType ==
  ASSUME NEW buffer \in Seq(Char)
  PROVE  /\ \A c \in Char : Put(buffer, c) \in Seq(Char)
         /\ Get(buffer) \in Seq(Char)
         /\ First(buffer) \in Char \cup {NULL}
  BY DEF Put, Get, First

(* Only the continuation of a putc holds a character.                      *)
LEMMA ContinuationType ==
  /\ \A place \in {"start", "code", "sleep", "wait", "join", "getc"} :
       At(place) \in Continuation
  /\ \A c \in Char : Putting(c) \in Continuation
  /\ \A cont \in Continuation : cont.place = "putc" => cont.char \in Char
<1>1. \A place \in {"start", "code", "sleep", "wait", "join", "getc"} :
        At(place) \in Continuation /\ At(place).place = place
  BY DEF Continuation, At
<1>2. \A c \in Char : Putting(c) \in Continuation /\ Putting(c).char = c
  BY DEF Continuation, Putting
<1>3. \A cont \in Continuation : cont.place = "putc" => \E c \in Char : cont = Putting(c)
  <2>. SUFFICES ASSUME NEW cont \in Continuation, cont.place = "putc",
                       NEW place \in {"start", "code", "sleep", "wait", "join", "getc"},
                       cont = At(place)
                PROVE  FALSE
    BY DEF Continuation
  <2>. QED  BY <1>1
<1>. QED  BY <1>1, <1>2, <1>3

-----------------------------------------------------------------------------
(* The inductive invariant: the three invariants need each other.  A       *)
(* thread made ready must not be the running one, or two would run; this   *)
(* is so because a thread that waits is suspended and in no other list.    *)

IInv == TypeOK /\ SchedulerNeverDry /\ OneListPerThread

(* The lists of the kernel are Lists.                                      *)
LEMMA IInvLists ==
  ASSUME IInv
  PROVE  /\ ListsType(status, ready, waiting, asleep)
         /\ Lists(status, ready, waiting, asleep)
         /\ current \in TCB /\ status[current] = "RUNNING"
         /\ \A t \in TCB : status[t] = "RUNNING" => t = current
         /\ FlushTcb \in TCB
  BY ThreadAssumption
  DEF IInv, TypeOK, SchedulerNeverDry, OneListPerThread, ListsType, Lists

LEMMA InitIInv == Init => IInv
<1>. SUFFICES ASSUME Init PROVE IInv
  OBVIOUS
<1>1. TypeOK
  <2>1. current \in TCB /\ status \in [TCB -> Status] /\ at \in [TCB -> Continuation]
    BY ThreadAssumption, ContinuationType DEF Init, Status
  <2>2. /\ interrupted \in [TCB -> BOOLEAN]
        /\ sleep_for = [t \in TCB |-> sleep_for[t]]
        /\ ready \in Seq(TCB)
        /\ asleep \in Seq(TCB)
    BY ThreadAssumption DEF Init
  <2>3. /\ open \subseteq SemAddr
        /\ value \in [SemAddr -> Int]
        /\ waiting \in [SemAddr -> Seq(TCB)]
    BY ThreadAssumption, SizeAssumption DEF Init, SemAddr
  <2>4. /\ timer_ticks \in Nat
        /\ putc_buffer \in Seq(Char)
        /\ getc_buffer \in Seq(Char)
    BY DEF Init
  <2>5. flushed \in BOOLEAN /\ a0 \in {SUCCESS, FAILED, NULL} \cup Char
    BY DEF Init
  <2>. QED  BY <2>1, <2>2, <2>3, <2>4, <2>5 DEF TypeOK
<1>2. SchedulerNeverDry
  BY ThreadAssumption DEF Init, SchedulerNeverDry
<1>3. /\ Elements(<<>>) = {} /\ Distinct(<<>>)
      /\ Elements(<<FlushTcb>>) = {FlushTcb} /\ Distinct(<<FlushTcb>>)
  BY DEF Elements, Distinct
<1>4. OneListPerThread
  BY <1>3, ThreadAssumption, SemAssumption DEF Init, OneListPerThread
<1>. QED  BY <1>1, <1>2, <1>4 DEF IInv

-----------------------------------------------------------------------------
(* A step that ends in a context switch.                                   *)

(* What is left to show of the variables Switch does not set.              *)
OthersType ==
  /\ interrupted' \in [TCB -> BOOLEAN]
  /\ sleep_for' = [t \in TCB |-> sleep_for'[t]]
  /\ open' \subseteq SemAddr
  /\ value' \in [SemAddr -> Int]
  /\ flushed' \in BOOLEAN

(* The threads are in order once the statuses and the ready queue are st   *)
(* and queue, and none runs.                                               *)
HandedOver(st, queue) ==
  /\ ListsType(st, queue, waiting', asleep')
  /\ Lists(st, queue, waiting', asleep')
  /\ \A t \in TCB : st[t] # "RUNNING"
  /\ st[FlushTcb] = "READY"

(* The semaphores that exist, under the statuses st.                       *)
OpenOK(st) ==
  /\ \A t \in TCB : t \in open' <=> st[t] # "FREE" /\ t # MainTcb
  /\ \A s \in SemAddr \ open' : waiting'[s] = <<>>
  /\ {PutcSem, GetcSem} \subseteq open'

LEMMA SwitchKeeps ==
  ASSUME NEW st, NEW queue, NEW cont \in Continuation, NEW ticks \in Nat,
         NEW input \in Seq(Char),
         IInv, OthersType, HandedOver(st, queue), OpenOK(st),
         Switch(st, queue, cont, ticks, input)
  PROVE  IInv'
<1>. DEFINE next  == Head(queue)
            saved == [at EXCEPT ![current] = cont]
<1>1. queue # <<>>
  BY ThreadAssumption DEF HandedOver, Lists, Elements
<1>2. /\ current' = next
      /\ status' = [st EXCEPT ![next] = "RUNNING"]
      /\ at' = [saved EXCEPT ![next] = At("code")]
      /\ ready' = Tail(queue)
      /\ timer_ticks' = IF saved[next] = At("start") THEN ticks ELSE 0
      /\ Finish(next, saved[next], TRUE, input)
  BY <1>1 DEF Switch
<1>3. /\ next \in TCB
      /\ st[next] = "READY"
      /\ ListsType(status', ready', waiting', asleep')
      /\ Lists(status', ready', waiting', asleep')
  BY <1>1, <1>2, ListsSwitch DEF HandedOver
<1>4. saved \in [TCB -> Continuation]
  BY DEF IInv, TypeOK
<1>. HIDE DEF next, saved
<1>5. \A t \in TCB : status'[t] = IF t = next THEN "RUNNING" ELSE st[t]
  BY <1>2, <1>3 DEF HandedOver, ListsType
<1>6. SchedulerNeverDry'
  BY <1>2, <1>3, <1>5 DEF SchedulerNeverDry, HandedOver
<1>7. OneListPerThread'
  <2>1. \A t \in TCB : t \in open' <=> status'[t] # "FREE" /\ t # MainTcb
    BY <1>3, <1>5 DEF OpenOK
  <2>. QED  BY <1>3, <2>1 DEF OneListPerThread, Lists, OpenOK
<1>8. at' \in [TCB -> Continuation] /\ timer_ticks' \in Nat
  BY <1>2, <1>4, ContinuationType
<1>9. /\ getc_buffer' \in Seq(Char)
      /\ putc_buffer' \in Seq(Char)
      /\ a0' \in {SUCCESS, FAILED, NULL} \cup Char
  <2>1. saved[next] \in Continuation /\ putc_buffer \in Seq(Char)
    BY <1>3, <1>4 DEF IInv, TypeOK
  <2>2. getc_buffer' \in Seq(Char)
    BY <1>2, BufferType DEF Finish
  <2>3. putc_buffer' \in Seq(Char)
    BY <1>2, <2>1, BufferType, ContinuationType DEF Finish
  <2>4. a0' \in {SUCCESS, FAILED, NULL} \cup Char
    BY <1>2, BufferType DEF Finish
  <2>. QED  BY <2>2, <2>3, <2>4
<1>10. TypeOK'
  BY <1>2, <1>3, <1>8, <1>9 DEF TypeOK, OthersType, ListsType
<1>. QED  BY <1>6, <1>7, <1>10 DEF IInv

(* dispatch() once the handler has made the statuses and the ready queue   *)
(* st and queue, the running thread still running.                         *)
LEMMA DispatchKeeps ==
  ASSUME NEW st, NEW queue, NEW ticks \in Nat, NEW input \in Seq(Char),
         IInv, OthersType, OpenOK(st),
         ListsType(st, queue, waiting', asleep'),
         Lists(st, queue, waiting', asleep'),
         \A t \in TCB : st[t] = "RUNNING" <=> t = current,
         st[FlushTcb] \in {"READY", "RUNNING"},
         Dispatch(st, queue, ticks, input)
  PROVE  IInv'
<1>. DEFINE st2 == [st EXCEPT ![current] = "READY"]
<1>1. current \in TCB /\ st[current] = "RUNNING"
  BY DEF IInv, SchedulerNeverDry
<1>2. /\ ListsType(st2, Append(queue, current), waiting', asleep')
      /\ Lists(st2, Append(queue, current), waiting', asleep')
  BY <1>1, ListsPut
<1>3. \A t \in TCB : st2[t] = IF t = current THEN "READY" ELSE st[t]
  BY <1>1 DEF ListsType
<1>4. Switch(st2, Append(queue, current), At("code"), ticks, input)
  BY DEF Dispatch
<1>. HIDE DEF st2
<1>5. HandedOver(st2, Append(queue, current))
  BY <1>2, <1>3, ThreadAssumption DEF HandedOver
<1>6. OpenOK(st2)
  BY <1>1, <1>3 DEF OpenOK
<1>7. At("code") \in Continuation
  BY ContinuationType
<1>. QED  BY <1>4, <1>5, <1>6, <1>7, SwitchKeeps

(* Sem::wait in the handler of a call of a client.                         *)
LEMMA WaitKeeps ==
  ASSUME NEW s \in SemAddr, NEW cont \in Continuation,
         IInv, s \in open, current # FlushTcb,
         Wait(s, cont), UNCHANGED <<sleepVars, flushed>>
  PROVE  IInv'
<1>1. /\ ListsType(status, ready, waiting, asleep)
      /\ Lists(status, ready, waiting, asleep)
      /\ current \in TCB /\ status[current] = "RUNNING"
      /\ \A t \in TCB : status[t] = "RUNNING" => t = current
      /\ FlushTcb \in TCB
  BY IInvLists
<1>2. OthersType
  BY DEF OthersType, Wait, IInv, TypeOK, sleepVars
<1>3. CASE value[s] - 1 < 0
  <2>. DEFINE st == [status EXCEPT ![current] = "SUSPENDED"]
  <2>1. /\ waiting' = [waiting EXCEPT ![s] = Append(@, current)]
        /\ open' = open /\ asleep' = asleep
        /\ Switch(st, ready, cont, timer_ticks, getc_buffer)
    BY <1>3 DEF Wait, sleepVars
  <2>2. ListsType(st, ready, waiting', asleep') /\ Lists(st, ready, waiting', asleep')
    BY <1>1, <2>1, ListsBlock
  <2>3. \A t \in TCB : st[t] = IF t = current THEN "SUSPENDED" ELSE status[t]
    BY <1>1 DEF ListsType
  <2>4. \A r \in SemAddr : r # s => waiting'[r] = waiting[r]
    BY <1>1, <2>1 DEF ListsType
  <2>. HIDE DEF st
  <2>5. HandedOver(st, ready)
    BY <1>1, <2>2, <2>3 DEF HandedOver, IInv, SchedulerNeverDry
  <2>6. OpenOK(st)
    BY <1>1, <2>1, <2>3, <2>4 DEF OpenOK, IInv, OneListPerThread
  <2>7. timer_ticks \in Nat /\ getc_buffer \in Seq(Char)
    BY DEF IInv, TypeOK
  <2>. QED  BY <1>2, <2>1, <2>5, <2>6, <2>7, SwitchKeeps
<1>4. CASE ~(value[s] - 1 < 0)
  <2>1. /\ UNCHANGED <<threadVars, waiting, open, interrupted, asleep, sleep_for, flushed>>
        /\ value' = [value EXCEPT ![s] = @ - 1]
        /\ Finish(current, cont, FALSE, getc_buffer)
    BY <1>4 DEF Wait, sleepVars
  <2>2. /\ getc_buffer' \in Seq(Char)
        /\ putc_buffer' \in Seq(Char)
        /\ a0' \in {SUCCESS, FAILED, NULL} \cup Char
    <3>1. getc_buffer \in Seq(Char) /\ putc_buffer \in Seq(Char)
      BY DEF IInv, TypeOK
    <3>2. getc_buffer' \in Seq(Char)
      BY <2>1, <3>1, BufferType DEF Finish
    <3>3. putc_buffer' \in Seq(Char)
      BY <2>1, <3>1, BufferType, ContinuationType DEF Finish
    <3>4. a0' \in {SUCCESS, FAILED, NULL} \cup Char
      BY <2>1, <3>1, BufferType DEF Finish
    <3>. QED  BY <3>2, <3>3, <3>4
  <2>3. TypeOK'
    BY <1>2, <2>1, <2>2 DEF TypeOK, IInv, threadVars, OthersType
  <2>4. SchedulerNeverDry'
    BY <2>1 DEF IInv, SchedulerNeverDry, threadVars
  <2>5. OneListPerThread'
    BY <2>1 DEF IInv, OneListPerThread, threadVars
  <2>. QED  BY <2>3, <2>4, <2>5 DEF IInv
<1>. QED  BY <1>3, <1>4

(* Unblocked is a beginning of the list of the semaphore.                  *)
LEMMA UnblockedPrefix ==
  ASSUME NEW s \in SemAddr, NEW n \in Nat, waiting \in [SemAddr -> Seq(TCB)]
  PROVE  \E k \in 0..Len(waiting[s]) :
           Unblocked(s, n) = SubSeq(waiting[s], 1, k)
<1>. DEFINE W == {i \in 1..n : value[s] + i <= 0}
            waking == Cardinality(W)
            k == IF waking <= Len(waiting[s]) THEN waking ELSE Len(waiting[s])
<1>1. IsFiniteSet(1..n)
  BY FS_Interval
<1>2. IsFiniteSet(W)
  BY <1>1, FS_Subset
<1>3. waking \in Nat
  BY <1>2, FS_CardinalityType
<1>4. Len(waiting[s]) \in Nat
  OBVIOUS
<1>. HIDE DEF waking
<1>5. k \in 0..Len(waiting[s])
  BY <1>3, <1>4
<1>6. Unblocked(s, n) = SubSeq(waiting[s], 1, k)
  BY DEF Unblocked, waking
<1>. QED  BY <1>5, <1>6

(* Signal and the put_tcb of the threads it unblocks.                      *)
LEMMA SignalKeeps ==
  ASSUME NEW s \in SemAddr, NEW n \in Nat, IInv, s \in open, Signal(s, n)
  PROVE  LET woken == Unblocked(s, n)
             st    == MakeReady(status, woken)
         IN /\ ListsType(st, ready \o woken, waiting', asleep)
            /\ Lists(st, ready \o woken, waiting', asleep)
            /\ \A t \in TCB : st[t] = "RUNNING" <=> t = current
            /\ st[FlushTcb] \in {"READY", "RUNNING"}
            /\ OpenOK(st)
            /\ interrupted' \in [TCB -> BOOLEAN]
            /\ value' \in [SemAddr -> Int]
            /\ open' \subseteq SemAddr
<1>. DEFINE woken == Unblocked(s, n)
            st    == MakeReady(status, woken)
<1>1. /\ ListsType(status, ready, waiting, asleep)
      /\ Lists(status, ready, waiting, asleep)
  BY IInvLists
<1>2. PICK k \in 0..Len(waiting[s]) : Unblocked(s, n) = SubSeq(waiting[s], 1, k)
  BY <1>1, UnblockedPrefix DEF ListsType
<1>3. /\ ListsType(st, ready \o woken, waiting', asleep)
      /\ Lists(st, ready \o woken, waiting', asleep)
      /\ \A t \in Elements(woken) : t \in TCB /\ status[t] = "SUSPENDED"
  <2>. HIDE DEF woken
  <2>. DEFINE rest == SubSeq(waiting[s], k + 1, Len(waiting[s]))
  <2>1. waiting[s] \in Seq(TCB) /\ Distinct(waiting[s])
    BY <1>1 DEF ListsType, Lists
  <2>2. /\ SubSeq(waiting[s], 1, k) \in Seq(TCB) /\ rest \in Seq(TCB)
        /\ Len(SubSeq(waiting[s], 1, k)) = k
        /\ Elements(waiting[s]) = Elements(SubSeq(waiting[s], 1, k)) \cup Elements(rest)
        /\ Distinct(SubSeq(waiting[s], 1, k)) /\ Distinct(rest)
        /\ Elements(SubSeq(waiting[s], 1, k)) \cap Elements(rest) = {}
    BY <2>1, ElementsSplit
  <2>3. woken = SubSeq(waiting[s], 1, k) /\ Len(woken) = k
    BY <1>2, <2>2 DEF woken
  <2>4. waiting' = [waiting EXCEPT ![s] = rest]
    BY <2>3 DEF Signal, woken
  <2>. HIDE DEF rest
  <2>5. Splits(waiting, s, woken, rest, waiting')
    BY <2>2, <2>3, <2>4 DEF Splits, SplitsInto
  <2>6. /\ ListsType(MakeReady(status, woken), ready \o woken, waiting', asleep)
        /\ Lists(MakeReady(status, woken), ready \o woken, waiting', asleep)
        /\ \A t \in Elements(woken) : t \in TCB /\ status[t] = "SUSPENDED"
    BY <1>1, <2>5, ListsResume
  <2>. QED  BY <2>6 DEF st
<1>4. \A t \in TCB : st[t] = IF t \in Elements(woken) THEN "READY" ELSE status[t]
  BY DEF MakeReady
<1>. HIDE DEF woken, st
<1>6. /\ \A t \in TCB : st[t] = "RUNNING" <=> t = current
      /\ st[FlushTcb] \in {"READY", "RUNNING"}
  BY <1>3, <1>4, ThreadAssumption DEF IInv, SchedulerNeverDry
<1>7. OpenOK(st)
  <2>1. open' = open
    BY DEF Signal
  <2>2. \A r \in SemAddr \ open' : waiting'[r] = waiting[r]
    BY <1>1, <2>1 DEF Signal, ListsType
  <2>3. \A t \in TCB : st[t] = "FREE" <=> status[t] = "FREE"
    BY <1>3, <1>4
  <2>. QED  BY <2>1, <2>2, <2>3 DEF OpenOK, IInv, OneListPerThread
<1>8. /\ interrupted' \in [TCB -> BOOLEAN]
      /\ value' \in [SemAddr -> Int]
      /\ open' \subseteq SemAddr
  <2>1. /\ interrupted \in [TCB -> BOOLEAN]
        /\ value \in [SemAddr -> Int]
        /\ open \subseteq SemAddr
    BY DEF IInv, TypeOK
  <2>2. interrupted' \in [TCB -> BOOLEAN]
    BY <2>1 DEF Signal
  <2>3. value' \in [SemAddr -> Int]
    BY <2>1 DEF Signal
  <2>4. open' \subseteq SemAddr
    BY <2>1 DEF Signal
  <2>. QED  BY <2>2, <2>3, <2>4
<1>. QED  BY <1>3, <1>6, <1>7, <1>8 DEF woken, st

-----------------------------------------------------------------------------
(* Every operation keeps the invariant.                                    *)

LEMMA ThreadCreateKeeps == ASSUME IInv, ThreadCreate PROVE IInv'
<1>1. /\ ListsType(status, ready, waiting, asleep)
      /\ Lists(status, ready, waiting, asleep)
      /\ current \in TCB /\ status[current] = "RUNNING"
  BY IInvLists
<1>2. CASE \E t \in Workers : status[t] = "FREE"
  <2>1. PICK t \in Workers :
          /\ status[t] = "FREE"
          /\ status' = [status EXCEPT ![t] = "READY"]
          /\ at' = [at EXCEPT ![t] = At("start")]
          /\ interrupted' = [interrupted EXCEPT ![t] = FALSE]
          /\ sleep_for' = [sleep_for EXCEPT ![t] = 0]
          /\ open' = open \cup {t}
          /\ value' = [value EXCEPT ![t] = 0]
          /\ waiting' = [waiting EXCEPT ![t] = <<>>]
          /\ ready' = Append(ready, t)
    BY <1>2 DEF ThreadCreate
  <2>2. UNCHANGED <<current, timer_ticks, asleep, putc_buffer, getc_buffer, flushed>>
          /\ a0' = SUCCESS
    BY <1>2 DEF ThreadCreate, consoleVars
  <2>3. t \in TCB /\ t # MainTcb /\ t \in SemAddr
    BY DEF Workers, SemAddr
  <2>4. waiting[t] = <<>>
    BY <2>1, <2>3 DEF IInv, OneListPerThread
  <2>5. waiting' = waiting
    BY <1>1, <2>1, <2>3, <2>4 DEF ListsType
  <2>6. ListsType(status', ready', waiting', asleep') /\ Lists(status', ready', waiting', asleep')
    BY <1>1, <2>1, <2>2, <2>3, <2>5, ListsPut
  <2>7. \A u \in TCB : status'[u] = IF u = t THEN "READY" ELSE status[u]
    BY <1>1, <2>1, <2>3 DEF ListsType
  <2>8. SchedulerNeverDry'
    BY <1>1, <2>1, <2>2, <2>7, ThreadAssumption DEF IInv, SchedulerNeverDry
  <2>9. OneListPerThread'
    <3>1. \A u \in TCB : u \in open' <=> status'[u] # "FREE" /\ u # MainTcb
      BY <2>1, <2>3, <2>7 DEF IInv, OneListPerThread
    <3>2. \A s \in SemAddr \ open' : waiting'[s] = <<>>
      BY <2>1, <2>5 DEF IInv, OneListPerThread
    <3>3. {PutcSem, GetcSem} \subseteq open'
      BY <2>1 DEF IInv, OneListPerThread
    <3>. QED  BY <2>6, <3>1, <3>2, <3>3 DEF OneListPerThread, Lists
  <2>10. TypeOK'
    <3>1. /\ at' \in [TCB -> Continuation]
          /\ interrupted' \in [TCB -> BOOLEAN]
      BY <2>1, ContinuationType DEF IInv, TypeOK
    <3>2. sleep_for' = [u \in TCB |-> sleep_for'[u]]
      BY <2>1 DEF IInv, TypeOK
    <3>3. open' \subseteq SemAddr /\ value' \in [SemAddr -> Int]
      BY <2>1, <2>3 DEF IInv, TypeOK
    <3>4. /\ current' \in TCB \cup {NULL}
          /\ timer_ticks' \in Nat
          /\ putc_buffer' \in Seq(Char)
          /\ getc_buffer' \in Seq(Char)
          /\ flushed' \in BOOLEAN
      BY <2>2 DEF IInv, TypeOK
    <3>5. a0' \in {SUCCESS, FAILED, NULL} \cup Char
      BY <2>2
    <3>. QED  BY <2>6, <3>1, <3>2, <3>3, <3>4, <3>5 DEF TypeOK, ListsType
  <2>. QED  BY <2>8, <2>9, <2>10 DEF IInv
<1>3. CASE ~\E t \in Workers : status[t] = "FREE"
  <2>1. /\ UNCHANGED <<current, status, at, ready, timer_ticks, semVars, sleepVars,
                       consoleVars, flushed>>
        /\ a0' = FAILED
    BY <1>3 DEF ThreadCreate, sleepVars
  <2>2. TypeOK'
    BY <2>1 DEF IInv, TypeOK, semVars, sleepVars, consoleVars
  <2>3. SchedulerNeverDry'
    BY <2>1 DEF IInv, SchedulerNeverDry
  <2>4. OneListPerThread'
    BY <2>1 DEF IInv, OneListPerThread, semVars, sleepVars
  <2>. QED  BY <2>2, <2>3, <2>4 DEF IInv
<1>. QED  BY <1>2, <1>3

(* A call that changes nothing but its answer.                             *)
LEMMA AnswerKeeps ==
  ASSUME IInv, UNCHANGED <<threadVars, semVars, sleepVars, consoleVars, flushed>>,
         a0' \in {SUCCESS, FAILED, NULL} \cup Char
  PROVE  IInv'
<1>1. TypeOK'
  BY DEF IInv, TypeOK, threadVars, semVars, sleepVars, consoleVars
<1>2. SchedulerNeverDry'
  BY DEF IInv, SchedulerNeverDry, threadVars
<1>3. OneListPerThread'
  BY DEF IInv, OneListPerThread, threadVars, semVars, sleepVars
<1>. QED  BY <1>1, <1>2, <1>3 DEF IInv

LEMMA ThreadExitKeeps == ASSUME IInv, ThreadExit PROVE IInv'
<1>1. /\ ListsType(status, ready, waiting, asleep)
      /\ Lists(status, ready, waiting, asleep)
      /\ current \in TCB /\ status[current] = "RUNNING"
      /\ \A t \in TCB : status[t] = "RUNNING" => t = current
      /\ FlushTcb \in TCB
  BY IInvLists
<1>2. CASE current # MainTcb
  <2>. DEFINE freed == [status EXCEPT ![current] = "FREE"]
              joiners == waiting[current]
              st    == MakeReady(freed, joiners)
              queue == ready \o joiners
  <2>1. /\ Close(current)
        /\ Switch(st, queue, At("start"), timer_ticks, getc_buffer)
        /\ UNCHANGED <<sleepVars, flushed>>
        /\ current # FlushTcb
    BY <1>2 DEF ThreadExit, Calling, StatusFreed
  <2>2. current \in SemAddr
    BY <1>1 DEF SemAddr
  <2>3. ListsType(freed, ready, waiting, asleep) /\ Lists(freed, ready, waiting, asleep)
    BY <1>1, ListsFree
  <2>4. \A t \in TCB : freed[t] = IF t = current THEN "FREE" ELSE status[t]
    BY <1>1 DEF ListsType
  <2>. HIDE DEF freed
  <2>5. /\ waiting' = [waiting EXCEPT ![current] = <<>>]
        /\ open' = open \ {current}
        /\ asleep' = asleep
    BY <2>1 DEF Close, sleepVars
  <2>6. /\ ListsType(st, queue, waiting', asleep')
        /\ Lists(st, queue, waiting', asleep')
        /\ \A t \in Elements(joiners) : t \in TCB /\ freed[t] = "SUSPENDED"
    BY <2>2, <2>3, <2>5, ListsClose
  <2>7. \A t \in TCB : st[t] = IF t \in Elements(joiners) THEN "READY" ELSE freed[t]
    BY DEF MakeReady
  <2>8. OthersType
    <3>1. interrupted' \in [TCB -> BOOLEAN]
      BY <2>1 DEF Close, IInv, TypeOK
    <3>2. value \in [SemAddr -> Int] /\ open \subseteq SemAddr
      BY DEF IInv, TypeOK
    <3>3. value' \in [SemAddr -> Int]
      <4>1. value' = [value EXCEPT ![current] = 0]
        BY <2>1 DEF Close
      <4>. QED  BY <2>2, <3>2, <4>1
    <3>4. open' \subseteq SemAddr
      BY <2>5, <3>2
    <3>5. sleep_for' = [t \in TCB |-> sleep_for'[t]] /\ flushed' \in BOOLEAN
      BY <2>1 DEF IInv, TypeOK, sleepVars
    <3>. QED  BY <3>1, <3>3, <3>4, <3>5 DEF OthersType
  <2>. HIDE DEF st, queue, joiners
  <2>9. HandedOver(st, queue)
    BY <1>1, <2>1, <2>4, <2>6, <2>7 DEF HandedOver, IInv, SchedulerNeverDry
  <2>10. OpenOK(st)
    <3>1. \A t \in TCB : t \in open' <=> st[t] # "FREE" /\ t # MainTcb
      BY <1>1, <1>2, <2>4, <2>5, <2>6, <2>7 DEF IInv, OneListPerThread
    <3>2. \A s \in SemAddr \ open' : waiting'[s] = <<>>
      BY <1>1, <2>2, <2>5 DEF IInv, OneListPerThread, ListsType
    <3>3. {PutcSem, GetcSem} \subseteq open'
      BY <1>1, <2>5, SemAssumption DEF IInv, OneListPerThread
    <3>. QED  BY <3>1, <3>2, <3>3 DEF OpenOK
  <2>11. At("start") \in Continuation /\ timer_ticks \in Nat /\ getc_buffer \in Seq(Char)
    BY ContinuationType DEF IInv, TypeOK
  <2>. QED  BY <2>1, <2>8, <2>9, <2>10, <2>11, SwitchKeeps
<1>3. CASE current = MainTcb
  BY <1>3, AnswerKeeps DEF ThreadExit
<1>. QED  BY <1>2, <1>3

LEMMA ThreadDispatchKeeps == ASSUME IInv, ThreadDispatch PROVE IInv'
<1>1. /\ ListsType(status, ready, waiting', asleep')
      /\ Lists(status, ready, waiting', asleep')
      /\ \A t \in TCB : status[t] = "RUNNING" <=> t = current
      /\ status[FlushTcb] \in {"READY", "RUNNING"}
  BY IInvLists DEF ThreadDispatch, semVars, sleepVars, IInv, SchedulerNeverDry
<1>2. OthersType /\ OpenOK(status)
  BY DEF ThreadDispatch, semVars, sleepVars, OthersType, OpenOK, IInv, TypeOK, OneListPerThread
<1>3. timer_ticks \in Nat /\ getc_buffer \in Seq(Char)
  BY DEF IInv, TypeOK
<1>4. Dispatch(status, ready, timer_ticks, getc_buffer)
  BY DEF ThreadDispatch
<1>. QED  BY <1>1, <1>2, <1>3, <1>4, DispatchKeeps

LEMMA ThreadJoinKeeps ==
  ASSUME IInv, NEW t \in Workers, ThreadJoin(t)
  PROVE  IInv'
<1>1. CASE t \in open
  <2>1. t \in SemAddr /\ At("join") \in Continuation
    BY ContinuationType DEF Workers, SemAddr
  <2>2. Wait(t, At("join")) /\ UNCHANGED <<sleepVars, flushed>> /\ current # FlushTcb
    BY <1>1 DEF ThreadJoin, Calling
  <2>. QED  BY <1>1, <2>1, <2>2, WaitKeeps
<1>2. CASE t \notin open
  BY <1>2, AnswerKeeps DEF ThreadJoin
<1>. QED  BY <1>1, <1>2

LEMMA SemOpenKeeps ==
  ASSUME IInv, NEW s \in Sem, NEW init \in 0..MaxInit, SemOpen(s, init)
  PROVE  IInv'
<1>1. /\ s \notin open
      /\ open' = open \cup {s}
      /\ value' = [value EXCEPT ![s] = init]
      /\ waiting' = [waiting EXCEPT ![s] = <<>>]
      /\ a0' = SUCCESS
      /\ UNCHANGED <<threadVars, interrupted, sleepVars, consoleVars, flushed>>
  BY DEF SemOpen
<1>2. s \in SemAddr /\ s \notin TCB /\ init \in Int
  BY SemAssumption, SizeAssumption DEF SemAddr
<1>3. waiting' = waiting
  BY <1>1, <1>2 DEF IInv, OneListPerThread, TypeOK
<1>4. TypeOK'
  <2>1. open' \subseteq SemAddr
    BY <1>1, <1>2 DEF IInv, TypeOK
  <2>2. value' \in [SemAddr -> Int]
    BY <1>1, <1>2 DEF IInv, TypeOK
  <2>. QED  BY <1>1, <1>3, <2>1, <2>2 DEF IInv, TypeOK, threadVars, sleepVars, consoleVars
<1>5. SchedulerNeverDry'
  BY <1>1 DEF IInv, SchedulerNeverDry, threadVars
<1>6. OneListPerThread'
  BY <1>1, <1>2, <1>3 DEF IInv, OneListPerThread, threadVars, sleepVars
<1>. QED  BY <1>4, <1>5, <1>6 DEF IInv

LEMMA SemCloseKeeps == ASSUME IInv, NEW s \in Sem, SemClose(s) PROVE IInv'
<1>. DEFINE woken == waiting[s]
<1>1. /\ ListsType(status, ready, waiting, asleep)
      /\ Lists(status, ready, waiting, asleep)
  BY IInvLists
<1>2. /\ waiting' = [waiting EXCEPT ![s] = <<>>]
      /\ open' = open \ {s}
      /\ value' = [value EXCEPT ![s] = 0]
      /\ interrupted' = [t \in TCB |-> IF t \in Elements(woken) THEN TRUE ELSE interrupted[t]]
      /\ status' = MakeReady(status, woken)
      /\ ready' = ready \o woken
      /\ a0' = SUCCESS
      /\ UNCHANGED <<current, at, timer_ticks, sleepVars, consoleVars, flushed>>
  BY DEF SemClose, Close
<1>3. s \in SemAddr /\ s \notin TCB /\ s \notin {PutcSem, GetcSem}
  BY SemAssumption DEF SemAddr
<1>4. /\ ListsType(status', ready', waiting', asleep')
      /\ Lists(status', ready', waiting', asleep')
      /\ \A t \in Elements(woken) : t \in TCB /\ status[t] = "SUSPENDED"
  BY <1>1, <1>2, <1>3, ListsClose DEF sleepVars
<1>. HIDE DEF woken
<1>5. \A t \in TCB : status'[t] = IF t \in Elements(woken) THEN "READY" ELSE status[t]
  BY <1>2 DEF MakeReady
<1>6. SchedulerNeverDry'
  BY <1>2, <1>4, <1>5, ThreadAssumption DEF IInv, SchedulerNeverDry
<1>7. OneListPerThread'
  <2>1. \A t \in TCB : t \in open' <=> status'[t] # "FREE" /\ t # MainTcb
    BY <1>2, <1>3, <1>4, <1>5 DEF IInv, OneListPerThread
  <2>2. \A r \in SemAddr \ open' : waiting'[r] = <<>>
    BY <1>1, <1>2 DEF IInv, OneListPerThread, ListsType
  <2>3. {PutcSem, GetcSem} \subseteq open'
    BY <1>2, <1>3 DEF IInv, OneListPerThread
  <2>. QED  BY <1>4, <2>1, <2>2, <2>3 DEF OneListPerThread, Lists
<1>8. TypeOK'
  <2>1. interrupted' \in [TCB -> BOOLEAN]
    BY <1>2 DEF IInv, TypeOK
  <2>2. value' \in [SemAddr -> Int]
    BY <1>2, <1>3 DEF IInv, TypeOK
  <2>3. open' \subseteq SemAddr
    BY <1>2 DEF IInv, TypeOK
  <2>. QED  BY <1>2, <1>4, <2>1, <2>2, <2>3
            DEF IInv, TypeOK, ListsType, sleepVars, consoleVars
<1>. QED  BY <1>6, <1>7, <1>8 DEF IInv

LEMMA SemWaitKeeps == ASSUME IInv, NEW s \in Sem, SemWait(s) PROVE IInv'
<1>1. s \in SemAddr /\ s \in open /\ current # FlushTcb
  BY DEF SemAddr, SemWait, Calling
<1>2. Wait(s, At("wait")) /\ UNCHANGED <<sleepVars, flushed>> /\ At("wait") \in Continuation
  BY ContinuationType DEF SemWait
<1>. QED  BY <1>1, <1>2, WaitKeeps

LEMMA GetcKeeps == ASSUME IInv, Getc PROVE IInv'
<1>1. GetcSem \in SemAddr /\ GetcSem \in open /\ current # FlushTcb
  BY DEF SemAddr, Getc, Calling, IInv, OneListPerThread
<1>2. Wait(GetcSem, At("getc")) /\ UNCHANGED <<sleepVars, flushed>> /\ At("getc") \in Continuation
  BY ContinuationType DEF Getc
<1>. QED  BY <1>1, <1>2, WaitKeeps

LEMMA PutcKeeps == ASSUME IInv, NEW c \in Char, Putc(c) PROVE IInv'
<1>1. PutcSem \in SemAddr /\ PutcSem \in open /\ current # FlushTcb
  BY DEF SemAddr, Putc, Calling, IInv, OneListPerThread
<1>2. Wait(PutcSem, Putting(c)) /\ UNCHANGED <<sleepVars, flushed>> /\ Putting(c) \in Continuation
  BY ContinuationType DEF Putc
<1>. QED  BY <1>1, <1>2, WaitKeeps

(* A handler that signals and returns to the thread it interrupted.        *)
LEMMA ResumeKeeps ==
  ASSUME NEW s \in SemAddr, NEW n \in Nat, IInv, s \in open, Signal(s, n),
         status' = MakeReady(status, Unblocked(s, n)),
         ready' = ready \o Unblocked(s, n),
         UNCHANGED <<current, at, timer_ticks, sleepVars, getc_buffer>>,
         putc_buffer' \in Seq(Char), flushed' \in BOOLEAN,
         a0' \in {SUCCESS, FAILED, NULL} \cup Char
  PROVE  IInv'
<1>1. /\ ListsType(status', ready', waiting', asleep')
      /\ Lists(status', ready', waiting', asleep')
      /\ \A t \in TCB : status'[t] = "RUNNING" <=> t = current
      /\ status'[FlushTcb] \in {"READY", "RUNNING"}
      /\ OpenOK(status')
      /\ interrupted' \in [TCB -> BOOLEAN]
      /\ value' \in [SemAddr -> Int]
      /\ open' \subseteq SemAddr
  BY SignalKeeps DEF sleepVars
<1>2. TypeOK'
  BY <1>1 DEF IInv, TypeOK, ListsType, sleepVars
<1>3. SchedulerNeverDry'
  BY <1>1 DEF IInv, SchedulerNeverDry
<1>4. OneListPerThread'
  BY <1>1 DEF OneListPerThread, OpenOK, Lists
<1>. QED  BY <1>2, <1>3, <1>4 DEF IInv

LEMMA SemSignalKeeps == ASSUME IInv, NEW s \in Sem, SemSignal(s) PROVE IInv'
<1>1. s \in SemAddr /\ s \in open /\ 1 \in Nat
  BY DEF SemAddr, SemSignal
<1>2. /\ Signal(s, 1)
      /\ status' = MakeReady(status, Unblocked(s, 1))
      /\ ready' = ready \o Unblocked(s, 1)
      /\ UNCHANGED <<current, at, timer_ticks, sleepVars, getc_buffer>>
      /\ UNCHANGED <<putc_buffer, flushed>>
      /\ a0' = SUCCESS
  BY DEF SemSignal, consoleVars
<1>3. putc_buffer' \in Seq(Char) /\ flushed' \in BOOLEAN
  BY <1>2 DEF IInv, TypeOK
<1>. QED  BY <1>1, <1>2, <1>3, ResumeKeeps

LEMMA FlushPutcKeeps ==
  ASSUME IInv, NEW n \in 0..IO_BUFFER_SIZE, FlushPutc(n)
  PROVE  IInv'
<1>1. PutcSem \in SemAddr /\ PutcSem \in open /\ n \in Nat
  BY SizeAssumption DEF SemAddr, IInv, OneListPerThread
<1>2. /\ Signal(PutcSem, n)
      /\ status' = MakeReady(status, Unblocked(PutcSem, n))
      /\ ready' = ready \o Unblocked(PutcSem, n)
      /\ UNCHANGED <<current, at, timer_ticks, sleepVars, getc_buffer>>
      /\ putc_buffer' = SubSeq(putc_buffer, n + 1, Len(putc_buffer))
      /\ n <= Len(putc_buffer)
      /\ flushed' = TRUE
      /\ a0' = NULL
  BY DEF FlushPutc
<1>3. putc_buffer' \in Seq(Char)
  <2>1. putc_buffer \in Seq(Char)
    BY DEF IInv, TypeOK
  <2>2. n \in 0..Len(putc_buffer)
    BY <1>1, <1>2, <2>1
  <2>3. SubSeq(putc_buffer, n + 1, Len(putc_buffer)) \in Seq(Char)
    BY <2>1, <2>2, ElementsSplit
  <2>. QED  BY <1>2, <2>3
<1>. QED  BY <1>1, <1>2, <1>3, ResumeKeeps

LEMMA ConsoleInterruptKeeps ==
  ASSUME IInv, NEW c \in Char, ConsoleInterrupt(c)
  PROVE  IInv'
<1>. DEFINE woken == Unblocked(GetcSem, 1)
            st    == MakeReady(status, woken)
            queue == ready \o woken
            input == Put(getc_buffer, c)
<1>1. GetcSem \in SemAddr /\ GetcSem \in open /\ 1 \in Nat
  BY DEF SemAddr, IInv, OneListPerThread
<1>2. /\ Signal(GetcSem, 1)
      /\ Dispatch(st, queue, timer_ticks, input)
      /\ UNCHANGED <<sleepVars, flushed>>
  BY DEF ConsoleInterrupt
<1>3. timer_ticks \in Nat /\ input \in Seq(Char)
  BY BufferType DEF IInv, TypeOK
<1>4. /\ ListsType(st, queue, waiting', asleep')
      /\ Lists(st, queue, waiting', asleep')
      /\ \A t \in TCB : st[t] = "RUNNING" <=> t = current
      /\ st[FlushTcb] \in {"READY", "RUNNING"}
      /\ OpenOK(st)
      /\ interrupted' \in [TCB -> BOOLEAN]
      /\ value' \in [SemAddr -> Int]
      /\ open' \subseteq SemAddr
  BY <1>1, <1>2, SignalKeeps DEF sleepVars
<1>5. OthersType
  BY <1>2, <1>4 DEF OthersType, IInv, TypeOK, sleepVars
<1>. HIDE DEF st, queue, input
<1>. QED  BY <1>2, <1>3, <1>4, <1>5, DispatchKeeps

LEMMA FlushDispatchKeeps == ASSUME IInv, FlushDispatch PROVE IInv'
<1>1. /\ ListsType(status, ready, waiting', asleep')
      /\ Lists(status, ready, waiting', asleep')
      /\ \A t \in TCB : status[t] = "RUNNING" <=> t = current
      /\ status[FlushTcb] \in {"READY", "RUNNING"}
  BY IInvLists DEF FlushDispatch, semVars, sleepVars, IInv, SchedulerNeverDry
<1>2. OthersType /\ OpenOK(status)
  BY DEF FlushDispatch, semVars, sleepVars, OthersType, OpenOK, IInv, TypeOK, OneListPerThread
<1>3. timer_ticks \in Nat /\ getc_buffer \in Seq(Char)
  BY DEF IInv, TypeOK
<1>4. Dispatch(status, ready, timer_ticks, getc_buffer)
  BY DEF FlushDispatch
<1>. QED  BY <1>1, <1>2, <1>3, <1>4, DispatchKeeps

(* A beginning of a sequence that is chosen by counting its positions.     *)
LEMMA CountedPrefix ==
  ASSUME NEW S, NEW q \in Seq(S), NEW P \in SUBSET (1..Len(q))
  PROVE  Cardinality(P) \in 0..Len(q)
<1>1. Len(q) \in Nat
  OBVIOUS
<1>2. IsFiniteSet(1..Len(q)) /\ Cardinality(1..Len(q)) = Len(q)
  BY SMTT(40), <1>1, FS_Interval
<1>3. IsFiniteSet(P) /\ Cardinality(P) <= Cardinality(1..Len(q))
  BY <1>2, FS_Subset
<1>4. Cardinality(P) \in Nat
  BY <1>3, FS_CardinalityType
<1>. QED  BY <1>1, <1>2, <1>3, <1>4

LEMMA TimeSleepKeeps ==
  ASSUME IInv, NEW ticks \in 1..MaxSleep, TimeSleep(ticks)
  PROVE  IInv'
<1>. DEFINE before == {i \in 1..Len(asleep) : \A j \in 1..i : ticks >= Until[j]}
            k      == Cardinality(before)
            sl     == SubSeq(asleep, 1, k) \o <<current>> \o SubSeq(asleep, k + 1, Len(asleep))
            st     == [status EXCEPT ![current] = "SUSPENDED"]
<1>1. /\ ListsType(status, ready, waiting, asleep)
      /\ Lists(status, ready, waiting, asleep)
      /\ current \in TCB /\ status[current] = "RUNNING"
      /\ \A t \in TCB : status[t] = "RUNNING" => t = current
  BY IInvLists
<1>2. /\ asleep' = sl
      /\ sleep_for' = [t \in TCB |-> sleep_for'[t]]
  BY DEF TimeSleep, PutToSleep
<1>3. /\ Switch(st, ready, At("sleep"), timer_ticks, getc_buffer)
      /\ UNCHANGED <<open, value, waiting, interrupted, flushed>>
      /\ current # FlushTcb
  BY DEF TimeSleep, Calling, semVars
<1>4. k \in 0..Len(asleep)
  <2>1. asleep \in Seq(TCB) /\ before \in SUBSET (1..Len(asleep))
    BY DEF IInv, TypeOK
  <2>. HIDE DEF before
  <2>. QED  BY <2>1, CountedPrefix
<1>. HIDE DEF k
<1>5. ListsType(st, ready, waiting, sl) /\ Lists(st, ready, waiting, sl)
  BY <1>1, <1>4, ListsSleep
<1>6. \A t \in TCB : st[t] = IF t = current THEN "SUSPENDED" ELSE status[t]
  BY <1>1 DEF ListsType
<1>. HIDE DEF sl, st
<1>7. HandedOver(st, ready)
  BY <1>1, <1>2, <1>3, <1>5, <1>6, ThreadAssumption DEF HandedOver, IInv, SchedulerNeverDry
<1>8. OpenOK(st)
  BY <1>1, <1>3, <1>6 DEF OpenOK, IInv, OneListPerThread
<1>9. OthersType
  BY <1>2, <1>3 DEF OthersType, IInv, TypeOK
<1>10. At("sleep") \in Continuation /\ timer_ticks \in Nat /\ getc_buffer \in Seq(Char)
  BY ContinuationType DEF IInv, TypeOK
<1>. QED  BY <1>3, <1>7, <1>8, <1>9, <1>10, SwitchKeeps

LEMMA TimerTickKeeps == ASSUME IInv, TimerTick PROVE IInv'
<1>. DEFINE woken == Due
            st    == MakeReady(status, woken)
            queue == ready \o woken
            sl    == SubSeq(asleep, Len(woken) + 1, Len(asleep))
<1>1. /\ ListsType(status, ready, waiting, asleep)
      /\ Lists(status, ready, waiting, asleep)
      /\ current \in TCB
  BY IInvLists
<1>2. /\ asleep' = sl
      /\ sleep_for' = Ticked
      /\ UNCHANGED <<open, value, waiting, interrupted, flushed>>
  BY DEF TimerTick, semVars
<1>3. PICK k \in 0..Len(asleep) : Due = SubSeq(asleep, 1, k)
  <2>. DEFINE expired == {i \in 1..Len(asleep) : \A j \in 1..i : Ticked[asleep[j]] <= 0}
  <2>1. asleep \in Seq(TCB) /\ expired \in SUBSET (1..Len(asleep))
    BY DEF IInv, TypeOK
  <2>2. Due = SubSeq(asleep, 1, Cardinality(expired))
    BY DEF Due
  <2>. HIDE DEF expired
  <2>. QED  BY <2>1, <2>2, CountedPrefix
<1>4. /\ ListsType(st, queue, waiting, sl)
      /\ Lists(st, queue, waiting, sl)
      /\ \A t \in Elements(woken) : t \in TCB /\ status[t] = "SUSPENDED"
  <2>. DEFINE first == SubSeq(asleep, 1, k)
              rest  == SubSeq(asleep, k + 1, Len(asleep))
  <2>1. asleep \in Seq(TCB) /\ Distinct(asleep)
    BY <1>1 DEF ListsType, Lists
  <2>2. SplitsInto(asleep, first, rest) /\ Len(first) = k
    BY <2>1, ElementsSplit DEF SplitsInto
  <2>3. woken = first /\ sl = rest
    BY <1>3, <2>2
  <2>. HIDE DEF first, rest, woken, sl
  <2>4. SplitsInto(asleep, woken, sl)
    BY <2>2, <2>3
  <2>5. /\ ListsType(MakeReady(status, woken), ready \o woken, waiting, sl)
        /\ Lists(MakeReady(status, woken), ready \o woken, waiting, sl)
        /\ \A t \in Elements(woken) : t \in TCB /\ status[t] = "SUSPENDED"
    BY <1>1, <2>4, ListsWake
  <2>. QED  BY <2>5 DEF st, queue
<1>5. \A t \in TCB : st[t] = IF t \in Elements(woken) THEN "READY" ELSE status[t]
  BY DEF MakeReady
<1>6. OthersType
  <2>1. sleep_for = [t \in TCB |-> sleep_for[t]]
    BY DEF IInv, TypeOK
  <2>2. Ticked = [t \in TCB |-> Ticked[t]]
    BY <2>1 DEF Ticked
  <2>. QED  BY <1>2, <2>2 DEF OthersType, IInv, TypeOK
<1>7. timer_ticks + 1 \in Nat /\ getc_buffer \in Seq(Char)
  BY DEF IInv, TypeOK
<1>8. IF SliceOver(timer_ticks + 1)
        THEN Dispatch(st, queue, timer_ticks + 1, getc_buffer)
        ELSE /\ status' = st
             /\ ready' = queue
             /\ timer_ticks' = timer_ticks + 1
             /\ a0' = NULL
             /\ UNCHANGED <<current, at, consoleVars>>
  BY DEF TimerTick
<1>. HIDE DEF woken, st, queue, sl
<1>9. /\ \A t \in TCB : st[t] = "RUNNING" <=> t = current
      /\ st[FlushTcb] \in {"READY", "RUNNING"}
  BY <1>4, <1>5, ThreadAssumption DEF IInv, SchedulerNeverDry
<1>10. OpenOK(st)
  BY <1>2, <1>4, <1>5 DEF OpenOK, IInv, OneListPerThread
<1>11. CASE SliceOver(timer_ticks + 1)
  <2>1. /\ ListsType(st, queue, waiting', asleep')
        /\ Lists(st, queue, waiting', asleep')
    BY <1>2, <1>4
  <2>2. Dispatch(st, queue, timer_ticks + 1, getc_buffer)
    BY <1>8, <1>11
  <2>. QED  BY <1>6, <1>7, <1>9, <1>10, <2>1, <2>2, DispatchKeeps
<1>12. CASE ~(SliceOver(timer_ticks + 1))
  <2>1. /\ status' = st
        /\ ready' = queue
        /\ timer_ticks' = timer_ticks + 1
        /\ a0' = NULL
        /\ UNCHANGED <<current, at, putc_buffer, getc_buffer>>
    BY <1>8, <1>12 DEF consoleVars
  <2>2. TypeOK'
    BY <1>2, <1>4, <1>6, <1>7, <2>1 DEF IInv, TypeOK, OthersType, ListsType
  <2>3. SchedulerNeverDry'
    BY <1>1, <1>9, <2>1 DEF SchedulerNeverDry
  <2>4. OneListPerThread'
    BY <1>2, <1>4, <1>10, <2>1 DEF OneListPerThread, OpenOK, Lists
  <2>. QED  BY <2>2, <2>3, <2>4 DEF IInv
<1>. QED  BY <1>11, <1>12

LEMMA NextKeeps == IInv /\ [Next]_vars => IInv'
<1>. SUFFICES ASSUME IInv, [Next]_vars
              PROVE  IInv'
  OBVIOUS
<1>1. CASE ThreadCreate
  BY <1>1, ThreadCreateKeeps
<1>2. CASE ThreadExit
  BY <1>2, ThreadExitKeeps
<1>3. CASE ThreadDispatch
  BY <1>3, ThreadDispatchKeeps
<1>4. CASE \E t \in Workers : ThreadJoin(t)
  BY <1>4, ThreadJoinKeeps
<1>5. CASE \E s \in Sem, init \in 0..MaxInit : SemOpen(s, init)
  BY <1>5, SemOpenKeeps
<1>6. CASE \E s \in Sem : SemClose(s)
  BY <1>6, SemCloseKeeps
<1>7. CASE \E s \in Sem : SemWait(s)
  BY <1>7, SemWaitKeeps
<1>8. CASE \E s \in Sem : SemSignal(s)
  BY <1>8, SemSignalKeeps
<1>9. CASE \E ticks \in 1..MaxSleep : TimeSleep(ticks)
  BY <1>9, TimeSleepKeeps
<1>10. CASE Getc
  BY <1>10, GetcKeeps
<1>11. CASE \E c \in Char : Putc(c)
  BY <1>11, PutcKeeps
<1>12. CASE TimerTick
  BY <1>12, TimerTickKeeps
<1>13. CASE \E c \in Char : ConsoleInterrupt(c)
  BY <1>13, ConsoleInterruptKeeps
<1>14. CASE \E n \in 0..IO_BUFFER_SIZE : FlushPutc(n)
  BY <1>14, FlushPutcKeeps
<1>15. CASE FlushDispatch
  BY <1>15, FlushDispatchKeeps
<1>16. CASE UNCHANGED vars
  <2>1. UNCHANGED <<threadVars, semVars, sleepVars, consoleVars, flushed, a0>>
    BY <1>16 DEF vars
  <2>2. a0' \in {SUCCESS, FAILED, NULL} \cup Char
    BY <2>1 DEF IInv, TypeOK
  <2>. QED  BY <2>1, <2>2, AnswerKeeps
<1>. QED  BY <1>1, <1>2, <1>3, <1>4, <1>5, <1>6, <1>7, <1>8, <1>9, <1>10, <1>11,
             <1>12, <1>13, <1>14, <1>15, <1>16 DEF Next

-----------------------------------------------------------------------------
(* The theorems.                                                           *)

(* IInv holds in every state the kernel reaches.                           *)
LEMMA Invariant == Spec => []IInv
  BY InitIInv, NextKeeps, PTL DEF Spec

(* Every variable keeps its type: no handler stores a value of another     *)
(* kind, whatever the numbers of threads, semaphores and buffer places.    *)
THEOREM TypeCorrect == Spec => []TypeOK
<1>1. IInv => TypeOK
  BY DEF IInv
<1>. QED  BY <1>1, Invariant, PTL

(* There is always a thread to run: current_tcb is never null after        *)
(* next_tcb, and never another thread than the one that is RUNNING.        *)
THEOREM SchedulerNeverRunsDry == Spec => []SchedulerNeverDry
<1>1. IInv => SchedulerNeverDry
  BY DEF IInv
<1>. QED  BY <1>1, Invariant, PTL

(* A TCB is in one list of the kernel at a time, once, so the list links   *)
(* in it are never in use twice; and no suspended thread is lost.          *)
THEOREM ThreadsInOneList == Spec => []OneListPerThread
<1>1. IInv => OneListPerThread
  BY DEF IInv
<1>. QED  BY <1>1, Invariant, PTL
=============================================================================
