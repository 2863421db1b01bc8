---------------------------- MODULE MemoryProofs ----------------------------
(***************************************************************************)
(* What to_blocks returns, for every size of block and every width of the  *)
(* integers; that the list of free runs and the table stay sound, for a    *)
(* heap of any number of blocks and requests of any sizes; and that the    *)
(* allocator keeps the promise of Heap as long as no request is cut.       *)
(***************************************************************************)
EXTENDS MemoryRequests, Induction

(* A number lies between two multiples of any other.                       *)
LEMMA Division ==
  ASSUME NEW a \in Nat, NEW b \in Nat \ {0}
  PROVE  a \div b \in Nat /\ (a \div b) * b <= a /\ a < (a \div b) * b + b
BY SMTT(30)

(* A number that fits in its width is not cut.                             *)
LEMMA SmallModulo ==
  ASSUME NEW a \in Nat, NEW b \in Nat \ {0}, a < b
  PROVE  a % b = a
BY SMTT(30)

(* to_blocks returns the least number of blocks that hold size bytes, when *)
(* neither the sum, a size_t, nor the result, a blocks_t, is cut; the run  *)
(* HugeRequest shows what happens when it is.                              *)
THEOREM ToBlocksHold ==
  ASSUME NEW size \in Nat,
         size + MEM_BLOCK_SIZE - 1 < SIZE_MOD,
         (size + MEM_BLOCK_SIZE - 1) \div MEM_BLOCK_SIZE < BLOCKS_MOD
  PROVE  /\ ToBlocks(size) \in Nat
         /\ size <= ToBlocks(size) * MEM_BLOCK_SIZE
         /\ ToBlocks(size) * MEM_BLOCK_SIZE < size + MEM_BLOCK_SIZE
<1> DEFINE sum    == size + MEM_BLOCK_SIZE - 1
           blocks == sum \div MEM_BLOCK_SIZE
<1>1. /\ MEM_BLOCK_SIZE \in Nat \ {0}
      /\ SIZE_MOD \in Nat \ {0} /\ BLOCKS_MOD \in Nat \ {0}
  BY MemoryAssumption
<1>2. sum \in Nat
  BY <1>1
<1>3. blocks \in Nat /\ blocks * MEM_BLOCK_SIZE <= sum
         /\ sum < blocks * MEM_BLOCK_SIZE + MEM_BLOCK_SIZE
  BY <1>1, <1>2, Division
<1>4. ToBlocks(size) = blocks
  <2>1. sum % SIZE_MOD = sum
    BY <1>1, <1>2, SmallModulo
  <2>2. blocks % BLOCKS_MOD = blocks
    BY <1>1, <1>3, SmallModulo
  <2> QED
    BY <2>1, <2>2 DEF ToBlocks
<1>5. blocks * MEM_BLOCK_SIZE \in Nat
  BY <1>1, <1>3, SMT
<1> QED
  BY <1>1, <1>3, <1>4, <1>5, SMT

-----------------------------------------------------------------------------
(* The list, as the set F of the blocks with the headers of free runs.     *)

(* x is the next element of F after b, and the previous one, if any.       *)
IsNext(F, b, x) ==
  \/ x = NULL /\ \A f \in F : f <= b
  \/ x \in F /\ b < x /\ \A f \in F : f <= b \/ x <= f

IsPrev(F, b, x) ==
  \/ x = NULL /\ \A f \in F : f >= b
  \/ x \in F /\ x < b /\ \A f \in F : f >= b \/ f <= x

Ends(h, b) == b + h[b].n_blocks

(* b has a header, linked to its neighbours, of a run that does not reach  *)
(* into the next one.                                                      *)
Linked(F, h, b) ==
  /\ h[b] = Header(h[b].next, h[b].prev, h[b].n_blocks)
  /\ h[b].n_blocks \in Nat \ {0}
  /\ Ends(h, b) <= N + 1
  /\ \A f \in F : b < f => Ends(h, b) <= f
  /\ IsNext(F, b, h[b].next)
  /\ IsPrev(F, b, h[b].prev)

IsList(F, head, h) ==
  /\ F \subseteq Block
  /\ h = [b \in Block |-> h[b]]
  /\ IsNext(F, 0, head)
  /\ \A b \in F : Linked(F, h, b)

(* The run at b does not touch the next one.                               *)
Apart(F, h, b) == \A f \in F : b < f => Ends(h, b) < f

FreeMemory(F, h) == {x \in Block : \E f \in F : f <= x /\ x < Ends(h, f)}

(* What the table t says is given out is all that is not free.             *)
IsTable(free, t) ==
  /\ t \in [Block -> Nat]
  /\ \A a \in Block : a + t[a] <= N + 1
  /\ \A a, c \in Block : t[a] > 0 /\ t[c] > 0 /\ a < c => a + t[a] <= c
  /\ \A a, x \in Block : a <= x /\ x < a + t[a] => x \notin free
  /\ \A x \in Block : x \notin free => \E a \in Block : a <= x /\ x < a + t[a]

IInv ==
  \E F \in SUBSET Block :
    /\ IsList(F, fb_head, header)
    /\ \A b \in F : Apart(F, header, b)
    /\ IsTable(FreeMemory(F, header), alloc_table)

LEMMA Addresses ==
  /\ N \in Nat \ {0}
  /\ NULL \notin Block /\ UNALIGNED \notin Block /\ UNALIGNED # NULL
  BY MemoryAssumption, AddressAssumption

(* No element lies between one and the next, or the previous.              *)
LEMMA Neighbours ==
  ASSUME NEW F, F \subseteq Block, NEW b \in Nat, NEW x
  PROVE  /\ IsNext(F, b, x) => /\ x = NULL => \A f \in F : f <= b
                               /\ x # NULL => /\ x \in F /\ x \in Nat /\ b < x
                                             /\ \A f \in F : f < x => f <= b
         /\ IsPrev(F, b, x) => /\ x = NULL => \A f \in F : b <= f
                               /\ x # NULL => /\ x \in F /\ x \in Nat /\ x < b
                                             /\ \A f \in F : f < b => f <= x
<1>1. F \subseteq Nat /\ NULL \notin F
  <2>1. Block \subseteq Nat
    BY DEF Block
  <2>. QED  BY <2>1, Addresses
<1>2. ASSUME IsNext(F, b, x), x = NULL
      PROVE  \A f \in F : f <= b
  BY <1>1, <1>2 DEF IsNext
<1>3. ASSUME IsNext(F, b, x), x # NULL
      PROVE  x \in F /\ x \in Nat /\ b < x /\ \A f \in F : f < x => f <= b
  <2>1. x \in F /\ b < x /\ \A f \in F : f <= b \/ x <= f
    BY <1>3 DEF IsNext
  <2>. QED  BY <1>1, <2>1
<1>4. ASSUME IsPrev(F, b, x), x = NULL
      PROVE  \A f \in F : b <= f
  BY <1>1, <1>4 DEF IsPrev
<1>5. ASSUME IsPrev(F, b, x), x # NULL
      PROVE  x \in F /\ x \in Nat /\ x < b /\ \A f \in F : f < b => f <= x
  <2>1. x \in F /\ x < b /\ \A f \in F : f >= b \/ f <= x
    BY <1>5 DEF IsPrev
  <2>. QED  BY <1>1, <2>1
<1>. QED  BY <1>2, <1>3, <1>4, <1>5, Zenon

(* The walk along the list.                                                *)
LEMMA ChainWalks ==
  ASSUME NEW F, IsList(F, fb_head, header)
  PROVE  /\ Chain[1] = fb_head
         /\ \A i \in 1..N : Chain[i + 1] = IF Chain[i] = NULL THEN NULL
                                           ELSE header[Chain[i]].next
         /\ \A i \in 1..N + 1 : Chain[i] \in F \cup {NULL}
<1>. DEFINE X == F \cup {NULL}
            step == [i \in 1..N |-> [x \in X |-> IF x = NULL THEN NULL ELSE header[x].next]]
            Walks(f) == f = [i \in 1..N + 1 |->
                               IF i = 1 THEN fb_head
                               ELSE IF f[i - 1] = NULL THEN NULL
                               ELSE header[f[i - 1]].next]
<1>1. fb_head \in X
  BY DEF IsList, IsNext
<1>2. \A x \in F : header[x].next \in X
  BY DEF IsList, Linked, IsNext
<1>3. step \in [1..N -> [X -> X]]
  BY <1>2
<1>4. N \in Nat
  BY Addresses
<1>5. PICK g : IsIterated(g, N, X, fb_head, step)
  <2>. HIDE DEF X, step
  <2>. QED  BY <1>1, <1>3, <1>4, IterationExists
<1>. DEFINE f == [i \in 1..N + 1 |-> g[i - 1]]
<1>6. Walks(f)
  <2>1. f[1] = fb_head
    BY <1>4, <1>5 DEF IsIterated
  <2>2. ASSUME NEW i \in 2..N + 1
        PROVE  f[i] = IF f[i - 1] = NULL THEN NULL ELSE header[f[i - 1]].next
    <3>1. i - 1 \in 1..N /\ i - 2 \in 0..N /\ i - 1 \in 1..N + 1 /\ i \in 1..N + 1
      BY <1>4
    <3>2. g[i - 1] = step[i - 1][g[i - 2]] /\ g[i - 2] \in X
      <4>. HIDE DEF step, X
      <4>1. (i - 1) - 1 = i - 2
        OBVIOUS
      <4>. QED  BY <1>5, <3>1, <4>1 DEF IsIterated
    <3>3. f[i] = g[i - 1] /\ f[i - 1] = g[i - 2]
      BY <1>4, <3>1
    <3>. HIDE DEF f
    <3>. QED  BY <3>1, <3>2, <3>3
  <2>3. f = [i \in 1..N + 1 |-> f[i]]
    OBVIOUS
  <2>4. \A i \in 1..N + 1 : i # 1 => i \in 2..N + 1
    BY <1>4
  <2>5. \A i \in 1..N + 1 : f[i] = IF i = 1 THEN fb_head
                                   ELSE IF f[i - 1] = NULL THEN NULL
                                   ELSE header[f[i - 1]].next
    <3>. HIDE DEF f
    <3>. QED  BY <2>1, <2>2, <2>4
  <2>. HIDE DEF f
  <2>. QED  BY <2>3, <2>5
<1>7. Chain = CHOOSE h : Walks(h)
  BY DEF Chain
<1>. HIDE DEF f
<1>8. Walks(Chain)
  BY <1>6, <1>7
<1>9. Chain[1] = fb_head
  BY <1>4, <1>8
<1>10. ASSUME NEW i \in 1..N
       PROVE  Chain[i + 1] = IF Chain[i] = NULL THEN NULL ELSE header[Chain[i]].next
  <2>1. i + 1 \in 1..N + 1 /\ i + 1 # 1 /\ (i + 1) - 1 = i
    BY <1>4
  <2>. QED  BY <1>8, <2>1
<1>11. \A i \in 1..N + 1 : Chain[i] \in X
  <2>. DEFINE S == {i \in 0..N : Chain[i + 1] \in X}
  <2>1. 0 \in S
    BY <1>1, <1>4, <1>9
  <2>2. ASSUME NEW i \in 0..N - 1, i \in S
        PROVE  i + 1 \in S
    <3>1. i + 1 \in 1..N /\ i + 1 \in 0..N
      BY <1>4
    <3>2. Chain[(i + 1) + 1] \in X
      BY <1>2, <1>10, <2>2, <3>1
    <3>. QED  BY <3>1, <3>2
  <2>. HIDE DEF S
  <2>3. 0..N \subseteq S
    BY <1>4, <2>1, <2>2, IntervalInduction
  <2>4. \A i \in 1..N + 1 : i - 1 \in 0..N /\ (i - 1) + 1 = i
    BY <1>4
  <2>. QED  BY <2>3, <2>4 DEF S
<1>. QED  BY <1>9, <1>10, <1>11

(* It passes the elements of F in order, and ends.                         *)
LEMMA ChainIsSorted ==
  ASSUME NEW F, IsList(F, fb_head, header)
  PROVE  /\ Chain[N + 1] = NULL
         /\ \A i \in Links : Chain[i] \in F
         /\ \A i, j \in Links : i < j => Chain[i] < Chain[j]
         /\ \A f \in F : \E i \in Links : Chain[i] = f
         /\ \A i \in Links : \A j \in 1..i : j \in Links
         /\ \A i \in Links : header[Chain[i]].prev = IF i = 1 THEN NULL ELSE Chain[i - 1]
<1>. DEFINE Before(f, i) == \E j \in 1..i - 1 : Chain[j] = f
            Here(i) == /\ Chain[i] # NULL => Chain[i] >= i
                       /\ \A j \in 1..i - 1 : Chain[i] # NULL => Chain[j] # NULL /\ Chain[j] < Chain[i]
                       /\ \A f \in F : Chain[i] = NULL \/ f < Chain[i] => Before(f, i)
<1>1. N \in Nat \ {0} /\ F \subseteq Block /\ NULL \notin F
  BY Addresses DEF IsList
<1>2. /\ Chain[1] = fb_head
      /\ \A i \in 1..N : Chain[i + 1] = IF Chain[i] = NULL THEN NULL
                                        ELSE header[Chain[i]].next
      /\ \A i \in 1..N + 1 : Chain[i] \in F \cup {NULL}
  BY ChainWalks
<1>3. \A b \in F : b \in Nat /\ 1 <= b /\ b <= N
  BY <1>1 DEF Block
<1>4. Here(1)
  <2>1. IsNext(F, 0, fb_head)
    BY DEF IsList
  <2>. DEFINE x == Chain[1]
  <2>2. x # NULL => x >= 1
    BY <1>2, <1>3, <2>1 DEF IsNext
  <2>3. ASSUME NEW f \in F, x = NULL \/ f < x
        PROVE  FALSE
    <3>1. f <= 0
      BY <1>1, <1>2, <2>1, <2>3, Neighbours
    <3>. QED  BY <1>3, <3>1
  <2>. QED  BY <2>2, <2>3
<1>5. ASSUME NEW i \in 1..N, Here(i)
      PROVE  Here(i + 1)
  <2>1. Chain[i] \in F \cup {NULL} /\ Chain[i + 1] \in F \cup {NULL}
    BY <1>1, <1>2
  <2>2. CASE Chain[i] = NULL
    <3>1. Chain[i + 1] = NULL
      BY <1>2, <2>2
    <3>. QED  BY <1>1, <1>5, <2>2, <3>1
  <2>3. CASE Chain[i] # NULL
    <3>. DEFINE b == Chain[i]
                x == Chain[i + 1]
    <3>1. b \in F /\ x = header[b].next
      BY <1>2, <2>1, <2>3
    <3>2. IsNext(F, b, x)
      BY <3>1 DEF IsList, Linked
    <3>3. b >= i /\ \A j \in 1..i - 1 : Chain[j] # NULL /\ Chain[j] < b /\ Chain[j] \in F
      <4>1. b >= i /\ \A j \in 1..i - 1 : Chain[j] # NULL /\ Chain[j] < b
        BY <1>5, <2>3
      <4>2. \A j \in 1..i - 1 : j \in 1..N + 1
        BY <1>1
      <4>. HIDE DEF b
      <4>. QED  BY <1>2, <4>1, <4>2
    <3>4. ASSUME x # NULL
          PROVE  /\ x >= i + 1
                 /\ \A j \in 1..i : Chain[j] # NULL /\ Chain[j] < x
      <4>1. x \in F /\ b < x
        BY <3>2, <3>4 DEF IsNext
      <4>2. ASSUME NEW j \in 1..i
            PROVE  Chain[j] # NULL /\ Chain[j] < x
        <5>1. j = i \/ j \in 1..i - 1
          OBVIOUS
        <5>. QED  BY <1>3, <2>3, <3>1, <3>3, <4>1, <5>1
      <4>. QED  BY <1>3, <3>1, <3>3, <4>1, <4>2
    <3>5. ASSUME NEW f \in F, x = NULL \/ f < x
          PROVE  Before(f, i + 1)
      <4>1. f <= b
        BY ZenonT(40), <1>1, <1>3, <3>1, <3>2, <3>5, Neighbours
      <4>2. f < b \/ f = b
        BY <1>3, <3>1, <4>1
      <4>3. f < b => Before(f, i)
        BY <1>5
      <4>. QED  BY <4>2, <4>3
    <3>. QED  BY <3>4, <3>5
  <2>. QED  BY <2>2, <2>3
<1>. DEFINE S == {i \in 0..N : Here(i + 1)}
<1>6. 0 \in S
  BY <1>1, <1>4
<1>7. ASSUME NEW i \in 0..N - 1, i \in S
      PROVE  i + 1 \in S
  <2>1. i + 1 \in 1..N /\ i + 1 \in 0..N
    BY <1>1
  <2>. QED  BY <1>5, <1>7, <2>1
<1>. HIDE DEF S
<1>8. 0..N \subseteq S
  BY <1>1, <1>6, <1>7, IntervalInduction
<1>9. \A i \in 1..N + 1 : Here(i)
  <2>1. \A i \in 1..N + 1 : i - 1 \in 0..N /\ (i - 1) + 1 = i
    BY <1>1
  <2>. HIDE DEF Here
  <2>. QED  BY <1>8, <2>1 DEF S
<1>10. Chain[N + 1] = NULL
  <2>1. N + 1 \in 1..N + 1
    BY <1>1
  <2>2. Chain[N + 1] # NULL => Chain[N + 1] \in F /\ Chain[N + 1] >= N + 1
    BY <1>2, <1>9, <2>1
  <2>. QED  BY <1>1, <1>3, <2>2
<1>11. \A i \in Links : i \in 1..N /\ Chain[i] # NULL /\ Chain[i] \in F
  BY <1>1, <1>2 DEF Links
<1>12. ASSUME NEW i \in Links, NEW j \in Links, i < j
       PROVE  Chain[i] < Chain[j]
  <2>1. i \in 1..j - 1 /\ j \in 1..N + 1
    BY <1>1, <1>11, <1>12
  <2>. QED  BY <1>9, <1>11, <2>1
<1>13. ASSUME NEW f \in F
       PROVE  \E i \in Links : Chain[i] = f
  <2>1. N + 1 \in 1..N + 1 /\ (N + 1) - 1 = N
    BY <1>1
  <2>2. Before(f, N + 1)
    BY <1>9, <1>10, <2>1
  <2>3. PICK i \in 1..N : Chain[i] = f
    BY <2>1, <2>2
  <2>. QED  BY <1>1, <2>3 DEF Links
<1>14. ASSUME NEW i \in Links
       PROVE  header[Chain[i]].prev = IF i = 1 THEN NULL ELSE Chain[i - 1]
  <2>. DEFINE b == Chain[i]
              p == header[b].prev
  <2>1. b \in F /\ i \in 1..N /\ i \in 1..N + 1
    BY <1>1, <1>11
  <2>2. IsPrev(F, b, p)
    BY <2>1 DEF IsList, Linked
  <2>3. \A f \in F : f < b => Before(f, i)
    BY <1>9, <2>1
  <2>4. CASE i = 1
    <3>1. \A f \in F : ~(f < b)
      BY <2>3, <2>4
    <3>. QED  BY <2>2, <2>4, <3>1 DEF IsPrev
  <2>5. CASE i # 1
    <3>. DEFINE a == Chain[i - 1]
    <3>1. i - 1 \in 1..N /\ i - 1 \in 1..N + 1 /\ i - 1 \in 1..i - 1
      BY <1>1, <2>1, <2>5
    <3>2. a # NULL /\ a < b /\ a \in F
      BY <1>2, <1>9, <1>11, <2>1, <3>1
    <3>3. \A j \in 1..i - 1 : j = i - 1 \/ j \in 1..(i - 1) - 1
      BY <2>1
    <3>4. \A f \in F : f < b => f <= a
      <4>1. \A j \in 1..(i - 1) - 1 : Chain[j] < a
        BY <1>9, <3>1, <3>2
      <4>. QED  BY <1>3, <2>3, <3>2, <3>3, <4>1
    <3>. HIDE DEF a, p, b
    <3>5. p # NULL
      <4>1. p = NULL => b <= a
        BY <1>1, <1>3, <2>1, <2>2, <3>2, Neighbours
      <4>. QED  BY <1>3, <2>1, <3>2, <4>1
    <3>6. p \in F /\ p < b /\ a <= p
      BY <1>1, <1>3, <2>1, <2>2, <3>2, <3>5, Neighbours
    <3>7. p = a
      BY <1>3, <2>1, <3>2, <3>4, <3>6
    <3>. QED  BY <2>5, <3>7 DEF a, p, b
  <2>. QED  BY <2>4, <2>5
<1>15. ASSUME NEW i \in Links, NEW j \in 1..i
       PROVE  j \in Links
  <2>1. i \in 1..N /\ i \in 1..N + 1 /\ (j = i \/ j \in 1..i - 1)
    BY <1>1, <1>11
  <2>2. j \in 1..i - 1 => Chain[j] # NULL
    BY <1>9, <1>11, <2>1
  <2>. QED  BY <1>1, <2>1, <2>2 DEF Links
<1>. QED  BY <1>10, <1>11, <1>12, <1>13, <1>14, <1>15

-----------------------------------------------------------------------------
(* What the invariant says of the list and the table.                      *)

LEMMA ListIsSound ==
  ASSUME IInv
  PROVE  FreeListSound
<1>1. PICK F \in SUBSET Block : /\ IsList(F, fb_head, header)
                                /\ \A b \in F : Apart(F, header, b)
  BY DEF IInv
<1>2. /\ Chain[N + 1] = NULL
      /\ \A i \in Links : Chain[i] \in F
      /\ \A i \in Links : header[Chain[i]].prev = IF i = 1 THEN NULL ELSE Chain[i - 1]
  BY <1>1, ChainIsSorted
<1>3. ASSUME NEW b \in F
      PROVE  /\ header[b].n_blocks \in 1..(N - b + 1)
             /\ header[b].next # NULL => header[b].next > b + header[b].n_blocks
  <2>. DEFINE n == header[b].n_blocks
              x == header[b].next
  <2>1. n \in Nat \ {0} /\ b + n <= N + 1 /\ IsNext(F, b, x)
    BY <1>1 DEF IsList, Linked, Ends
  <2>2. b \in Nat /\ N \in Nat
    BY Addresses DEF Block
  <2>3. x # NULL => x \in F /\ x \in Nat /\ b < x
    <3>. HIDE DEF x
    <3>. QED  BY <2>1, <2>2, Neighbours
  <2>4. x # NULL => b + n < x
    BY <1>1, <2>3 DEF Apart, Ends
  <2>. HIDE DEF n, x
  <2>5. n \in 1..(N - b + 1)
    BY <2>1, <2>2
  <2>6. x # NULL => x > b + n
    BY <2>1, <2>2, <2>3, <2>4
  <2>. QED  BY <2>5, <2>6 DEF n, x
<1>. QED  BY <1>2, <1>3 DEF FreeListSound

LEMMA BlocksOnce ==
  ASSUME IInv
  PROVE  EveryBlockOnce
<1>1. PICK F \in SUBSET Block : /\ IsList(F, fb_head, header)
                                /\ IsTable(FreeMemory(F, header), alloc_table)
  BY DEF IInv
<1>2. /\ \A i \in Links : Chain[i] \in F
      /\ \A i, j \in Links : i < j => Chain[i] < Chain[j]
      /\ \A f \in F : \E i \in Links : Chain[i] = f
  BY <1>1, ChainIsSorted
<1>. DEFINE G == FreeMemory(F, header)
            t == alloc_table
<1>. SUFFICES ASSUME NEW b \in Block
              PROVE  LET free  == {i \in Links :
                                     b \in Chain[i]..(Chain[i] + header[Chain[i]].n_blocks - 1)}
                         given == {a \in Block : b \in a..(a + t[a] - 1)}
                     IN \/ given = {} /\ \E i \in free : free = {i}
                        \/ free = {} /\ \E a \in given : given = {a}
  BY DEF EveryBlockOnce
<1>. DEFINE free  == {i \in Links : b \in Chain[i]..(Chain[i] + header[Chain[i]].n_blocks - 1)}
            given == {a \in Block : b \in a..(a + t[a] - 1)}
<1>3. N \in Nat /\ b \in Nat /\ Links \subseteq Nat /\ Block \subseteq Nat
  BY Addresses DEF Block, Links
<1>4. \A f \in F : f \in Nat /\ header[f].n_blocks \in Nat
  BY <1>1, <1>3 DEF IsList, Linked
<1>5. ASSUME NEW i \in Links
      PROVE  i \in free <=> Chain[i] <= b /\ b < Ends(header, Chain[i])
  <2>1. PICK f \in F : f = Chain[i]
    BY <1>2
  <2>2. PICK n \in Nat : n = header[f].n_blocks
    BY <1>4
  <2>3. b \in f..(f + n - 1) <=> f <= b /\ b < f + n
    BY <1>3, <1>4
  <2>. QED  BY <2>1, <2>2, <2>3 DEF Ends
<1>6. \A a \in Block : t[a] \in Nat
  BY <1>1 DEF IsTable
<1>7. \A a \in Block : a \in given <=> a <= b /\ b < a + t[a]
  BY <1>3, <1>6
<1>8. free \subseteq Links /\ given \subseteq Block
  OBVIOUS
<1>. HIDE DEF free, given
<1>9. ASSUME NEW a \in given, NEW c \in given
      PROVE  a = c
  <2>1. /\ a \in Block /\ a \in Nat /\ t[a] \in Nat /\ a <= b /\ b < a + t[a]
        /\ c \in Block /\ c \in Nat /\ t[c] \in Nat /\ c <= b /\ b < c + t[c]
    BY <1>3, <1>6, <1>7, <1>8
  <2>2. t[a] > 0 /\ t[c] > 0
    BY <1>3, <2>1
  <2>3. (a < c => a + t[a] <= c) /\ (c < a => c + t[c] <= a)
    BY <1>1, <2>1, <2>2 DEF IsTable
  <2>. QED  BY <1>3, <2>1, <2>3
<1>10. ASSUME NEW i \in free, NEW j \in free
       PROVE  i = j
  <2>. DEFINE f == Chain[i]
              g == Chain[j]
  <2>1. /\ f \in F /\ f \in Nat /\ f <= b /\ b < Ends(header, f)
        /\ g \in F /\ g \in Nat /\ g <= b /\ b < Ends(header, g)
        /\ Ends(header, f) \in Nat /\ Ends(header, g) \in Nat
    BY <1>2, <1>4, <1>5, <1>8 DEF Ends
  <2>2. (f < g => Ends(header, f) <= g) /\ (g < f => Ends(header, g) <= f)
    BY <1>1, <2>1 DEF IsList, Linked
  <2>3. f = g
    <3>. HIDE DEF f, g
    <3>. QED  BY <1>3, <2>1, <2>2
  <2>4. i \in Nat /\ j \in Nat /\ i \in Links /\ j \in Links
    BY <1>3, <1>8
  <2>. QED  BY <1>2, <2>1, <2>3, <2>4
<1>11. CASE b \in G
  <2>1. PICK f \in F : f <= b /\ b < Ends(header, f)
    BY <1>11 DEF FreeMemory
  <2>2. PICK i \in Links : Chain[i] = f
    BY <1>2
  <2>3. i \in free
    BY <1>5, <2>1, <2>2
  <2>4. given = {}
    BY <1>1, <1>7, <1>8, <1>11 DEF IsTable
  <2>. QED  BY <1>10, <2>3, <2>4 DEF free, given
<1>12. CASE b \notin G
  <2>1. PICK a \in Block : a <= b /\ b < a + t[a]
    BY <1>1, <1>12 DEF IsTable
  <2>2. a \in given
    BY <1>7, <2>1
  <2>3. free = {}
    BY <1>2, <1>5, <1>8, <1>12 DEF FreeMemory
  <2>. QED  BY <1>9, <2>2, <2>3 DEF free, given
<1>. QED  BY <1>11, <1>12

-----------------------------------------------------------------------------
(* How the neighbours change when the set F of the headers does.           *)

(* b is before f if and only if f is after b.                              *)
LEMMA BothWays ==
  ASSUME NEW F, F \subseteq Block, NEW b \in F, NEW f \in F,
         NEW x, IsNext(F, b, x), NEW y, IsPrev(F, f, y)
  PROVE  x = f <=> y = b
<1>1. Block \subseteq Nat /\ NULL \notin Block
  BY Addresses DEF Block
<1>2. b \in Nat /\ f \in Nat /\ b # NULL /\ f # NULL
  BY <1>1
<1>3. /\ x = NULL => \A g \in F : g <= b
      /\ x # NULL => x \in F /\ x \in Nat /\ b < x /\ \A g \in F : g < x => g <= b
  BY <1>2, Neighbours
<1>4. /\ y = NULL => \A g \in F : f <= g
      /\ y # NULL => y \in F /\ y \in Nat /\ y < f /\ \A g \in F : g < f => g <= y
  BY <1>2, Neighbours
<1>5. ASSUME x = f
      PROVE  y = b
  <2>1. y # NULL
    BY <1>2, <1>3, <1>4, <1>5
  <2>. QED  BY <1>2, <1>3, <1>4, <1>5, <2>1
<1>6. ASSUME y = b
      PROVE  x = f
  <2>1. x # NULL
    BY <1>2, <1>3, <1>4, <1>6
  <2>2. x \in Nat /\ x \in F /\ b < x /\ b < f /\ ~(f < x) /\ ~(x < f)
    BY <1>2, <1>3, <1>4, <1>6, <2>1
  <2>. QED  BY <1>2, <2>2
<1>. QED  BY <1>5, <1>6

(* A header moves from b to new, within the run at b.                      *)
Moved(F, b, new) == (F \ {b}) \cup {new}

LEMMA NeighboursOfMoved ==
  ASSUME NEW F, F \subseteq Block, NEW b \in F, NEW new \in Block, b <= new,
         \A f \in F : b < f => new < f
  PROVE  /\ \A f \in (F \ {b}) \cup {0} : \A x :
              IsNext(F, f, x) => IsNext(Moved(F, b, new), f, IF x = b THEN new ELSE x)
         /\ \A f \in F \ {b} : \A x :
              IsPrev(F, f, x) => IsPrev(Moved(F, b, new), f, IF x = b THEN new ELSE x)
         /\ \A x : IsNext(F, b, x) => IsNext(Moved(F, b, new), new, x)
         /\ \A x : IsPrev(F, b, x) => IsPrev(Moved(F, b, new), new, x)
<1>. DEFINE M == Moved(F, b, new)
<1>1. Block \subseteq Nat \ {0} /\ NULL \notin Block
  BY Addresses DEF Block
<1>2. b \in Nat /\ b > 0 /\ new \in Nat /\ new > 0 /\ F \subseteq Nat
  BY <1>1
<1>3. /\ new \in M
      /\ \A g \in F : g \in Nat /\ (g # b => g \in M)
      /\ \A g \in M : g \in Nat /\ (g = new \/ (g \in F /\ g # b))
  BY <1>2 DEF Moved
<1>. HIDE DEF M
<1>4. ASSUME NEW f \in (F \ {b}) \cup {0}, NEW x, IsNext(F, f, x)
      PROVE  IsNext(M, f, IF x = b THEN new ELSE x)
  <2>1. f \in Nat /\ (b < f => new < f) /\ f # b
    BY <1>2
  <2>2. CASE x = NULL
    <3>1. \A g \in F : g <= f
      BY <1>4, <2>1, <2>2, Neighbours
    <3>2. \A g \in M : g <= f
      BY <1>2, <1>3, <2>1, <3>1
    <3>3. x # b
      BY <1>1, <2>2
    <3>. QED  BY <2>2, <3>2, <3>3 DEF IsNext
  <2>3. CASE x # NULL
    <3>1. x \in F /\ x \in Nat /\ f < x /\ \A g \in F : g < x => g <= f
      BY <1>4, <2>1, <2>3, Neighbours
    <3>2. CASE x = b
      <4>1. \A g \in M : g <= f \/ new <= g
        BY <1>2, <1>3, <2>1, <3>1, <3>2
      <4>2. new \in M /\ f < new
        BY <1>2, <1>3, <2>1, <3>1, <3>2
      <4>. QED  BY <3>2, <4>1, <4>2 DEF IsNext
    <3>3. CASE x # b
      <4>1. x \in M
        BY <1>3, <3>1, <3>3
      <4>2. new <= f \/ x <= new
        BY <1>2, <2>1, <3>1
      <4>3. \A g \in M : g <= f \/ x <= g
        BY <1>2, <1>3, <2>1, <3>1, <4>2
      <4>. QED  BY <3>1, <3>3, <4>1, <4>3 DEF IsNext
    <3>. QED  BY <3>2, <3>3
  <2>. QED  BY <2>2, <2>3
<1>5. ASSUME NEW f \in F \ {b}, NEW x, IsPrev(F, f, x)
      PROVE  IsPrev(M, f, IF x = b THEN new ELSE x)
  <2>1. f \in Nat /\ (b < f => new < f) /\ f # b
    BY <1>2
  <2>2. CASE x = NULL
    <3>1. \A g \in F : f <= g
      BY <1>5, <2>1, <2>2, Neighbours
    <3>2. \A g \in M : g >= f
      BY <1>2, <1>3, <2>1, <3>1
    <3>3. x # b
      BY <1>1, <2>2
    <3>. QED  BY <2>2, <3>2, <3>3 DEF IsPrev
  <2>3. CASE x # NULL
    <3>1. x \in F /\ x \in Nat /\ x < f /\ \A g \in F : g < f => g <= x
      BY <1>5, <2>1, <2>3, Neighbours
    <3>2. CASE x = b
      <4>1. \A g \in M : g >= f \/ g <= new
        BY <1>2, <1>3, <2>1, <3>1, <3>2
      <4>2. new \in M /\ new < f
        BY <1>2, <1>3, <2>1, <3>1, <3>2
      <4>. QED  BY <3>2, <4>1, <4>2 DEF IsPrev
    <3>3. CASE x # b
      <4>1. x \in M
        BY <1>3, <3>1, <3>3
      <4>2. new >= f \/ new <= x
        <5>1. b < x => new < x
          BY <3>1
        <5>2. b < f => b < x
          BY <1>2, <2>1, <3>1, <3>3
        <5>. QED  BY <1>2, <2>1, <3>1, <5>1, <5>2
      <4>3. \A g \in M : g >= f \/ g <= x
        BY <1>2, <1>3, <2>1, <3>1, <4>2
      <4>. QED  BY <3>1, <3>3, <4>1, <4>3 DEF IsPrev
    <3>. QED  BY <3>2, <3>3
  <2>. QED  BY <2>2, <2>3
<1>6. ASSUME NEW x, IsNext(F, b, x)
      PROVE  IsNext(M, new, x)
  <2>1. CASE x = NULL
    <3>1. \A g \in F : g <= b
      BY <1>2, <1>6, <2>1, Neighbours
    <3>2. \A g \in M : g <= new
      BY <1>2, <1>3, <3>1
    <3>. QED  BY <2>1, <3>2 DEF IsNext
  <2>2. CASE x # NULL
    <3>1. x \in F /\ x \in Nat /\ b < x /\ \A g \in F : g < x => g <= b
      BY <1>2, <1>6, <2>2, Neighbours
    <3>2. x \in M /\ new < x /\ \A g \in M : g <= new \/ x <= g
      BY <1>2, <1>3, <3>1
    <3>. QED  BY <3>2 DEF IsNext
  <2>. QED  BY <2>1, <2>2
<1>7. ASSUME NEW x, IsPrev(F, b, x)
      PROVE  IsPrev(M, new, x)
  <2>1. CASE x = NULL
    <3>1. \A g \in F : b <= g
      BY <1>2, <1>7, <2>1, Neighbours
    <3>2. \A g \in M : g >= new
      BY <1>2, <1>3, <3>1
    <3>. QED  BY <2>1, <3>2 DEF IsPrev
  <2>2. CASE x # NULL
    <3>1. x \in F /\ x \in Nat /\ x < b /\ \A g \in F : g < b => g <= x
      BY <1>2, <1>7, <2>2, Neighbours
    <3>2. x \in M /\ x < new /\ \A g \in M : g >= new \/ g <= x
      BY <1>2, <1>3, <3>1
    <3>. QED  BY <3>2 DEF IsPrev
  <2>. QED  BY <2>1, <2>2
<1>. QED  BY <1>4, <1>5, <1>6, <1>7 DEF M

(* The header at b goes; n and p are the next and the previous one.        *)
LEMMA NeighboursOfRemoved ==
  ASSUME NEW F, F \subseteq Block, NEW b \in F,
         NEW n, IsNext(F, b, n), NEW p, IsPrev(F, b, p)
  PROVE  /\ \A f \in (F \ {b}) \cup {0} : \A x :
              IsNext(F, f, x) => IsNext(F \ {b}, f, IF x = b THEN n ELSE x)
         /\ \A f \in F \ {b} : \A x :
              IsPrev(F, f, x) => IsPrev(F \ {b}, f, IF x = b THEN p ELSE x)
<1>. DEFINE R == F \ {b}
<1>1. Block \subseteq Nat \ {0} /\ NULL \notin Block
  BY Addresses DEF Block
<1>2. b \in Nat /\ b > 0 /\ F \subseteq Nat
  BY <1>1
<1>3. /\ \A g \in F : g \in Nat /\ (g # b => g \in R)
      /\ \A g \in R : g \in Nat /\ g \in F /\ g # b
  BY <1>2
<1>. HIDE DEF R
<1>4. /\ n = NULL => \A g \in F : g <= b
      /\ n # NULL => n \in F /\ n \in Nat /\ b < n /\ \A g \in F : g < n => g <= b
  BY <1>2, Neighbours
<1>5. /\ p = NULL => \A g \in F : b <= g
      /\ p # NULL => p \in F /\ p \in Nat /\ p < b /\ \A g \in F : g < b => g <= p
  BY <1>2, Neighbours
<1>6. ASSUME NEW f \in R \cup {0}, NEW x, IsNext(F, f, x)
      PROVE  IsNext(R, f, IF x = b THEN n ELSE x)
  <2>1. f \in Nat
    BY <1>2, <1>3
  <2>2. CASE x # b
    BY <1>3, <1>6, <2>2 DEF IsNext
  <2>3. CASE x = b
    <3>1. f < b /\ \A g \in F : g < b => g <= f
      <4>1. x # NULL
        BY <1>1, <2>3
      <4>. QED  BY <1>6, <2>1, <2>3, <4>1, Neighbours
    <3>2. CASE n = NULL
      <4>1. \A g \in R : g <= f
        BY <1>2, <1>3, <1>4, <2>1, <3>1, <3>2
      <4>. QED  BY <2>3, <3>2, <4>1 DEF IsNext
    <3>3. CASE n # NULL
      <4>1. n \in R /\ f < n /\ \A g \in R : g <= f \/ n <= g
        BY <1>2, <1>3, <1>4, <2>1, <3>1, <3>3
      <4>. QED  BY <2>3, <4>1 DEF IsNext
    <3>. QED  BY <3>2, <3>3
  <2>. QED  BY <2>2, <2>3
<1>7. ASSUME NEW f \in R, NEW x, IsPrev(F, f, x)
      PROVE  IsPrev(R, f, IF x = b THEN p ELSE x)
  <2>1. f \in Nat
    BY <1>2, <1>3
  <2>2. CASE x # b
    BY <1>3, <1>7, <2>2 DEF IsPrev
  <2>3. CASE x = b
    <3>1. b < f /\ \A g \in F : g < f => g <= b
      <4>1. x # NULL
        BY <1>1, <2>3
      <4>. QED  BY <1>7, <2>1, <2>3, <4>1, Neighbours
    <3>2. CASE p = NULL
      <4>1. \A g \in R : g >= f
        BY <1>2, <1>3, <1>5, <2>1, <3>1, <3>2
      <4>. QED  BY <2>3, <3>2, <4>1 DEF IsPrev
    <3>3. CASE p # NULL
      <4>1. p \in R /\ p < f /\ \A g \in R : g >= f \/ g <= p
        BY <1>2, <1>3, <1>5, <2>1, <3>1, <3>3
      <4>. QED  BY <2>3, <4>1 DEF IsPrev
    <3>. QED  BY <3>2, <3>3
  <2>. QED  BY <2>2, <2>3
<1>. QED  BY <1>6, <1>7 DEF R

(* A header comes at a, between p and n.                                   *)
LEMMA NeighboursOfAdded ==
  ASSUME NEW F, F \subseteq Block, NEW a \in Block, a \notin F,
         NEW n, IsNext(F, a, n), NEW p, IsPrev(F, a, p)
  PROVE  /\ \A f \in F : \A x :
              IsNext(F, f, x) => IsNext(F \cup {a}, f, IF f = p THEN a ELSE x)
         /\ \A x : IsNext(F, 0, x) => IsNext(F \cup {a}, 0, IF p = NULL THEN a ELSE x)
         /\ \A f \in F : \A x :
              IsPrev(F, f, x) => IsPrev(F \cup {a}, f, IF f = n THEN a ELSE x)
         /\ IsNext(F \cup {a}, a, n)
         /\ IsPrev(F \cup {a}, a, p)
<1>. DEFINE A == F \cup {a}
<1>1. Block \subseteq Nat \ {0} /\ NULL \notin Block
  BY Addresses DEF Block
<1>2. a \in Nat /\ a > 0 /\ NULL \notin F /\ \A f \in F : f \in Nat /\ f > 0 /\ f # a
  <2>1. \A x \in Block : x \in Nat /\ x > 0
    BY <1>1
  <2>. QED  BY <1>1, <2>1
<1>3. /\ a \in A
      /\ \A g \in F : g \in Nat /\ g > 0 /\ g \in A
      /\ \A g \in A : g \in Nat /\ (g = a \/ g \in F)
  BY <1>2
<1>. HIDE DEF A
<1>4. /\ n = NULL => \A g \in F : g < a
      /\ n # NULL => n \in F /\ n \in Nat /\ a < n /\ \A g \in F : g < n => g < a
  <2>1. /\ n = NULL => \A g \in F : g <= a
        /\ n # NULL => n \in F /\ n \in Nat /\ a < n /\ \A g \in F : g < n => g <= a
    BY <1>2, Neighbours
  <2>2. \A g \in F : g <= a => g < a
    BY <1>2
  <2>. QED  BY <2>1, <2>2
<1>5. /\ p = NULL => \A g \in F : a < g
      /\ p # NULL => p \in F /\ p \in Nat /\ p < a /\ \A g \in F : g < a => g <= p
  <2>1. /\ p = NULL => \A g \in F : a <= g
        /\ p # NULL => p \in F /\ p \in Nat /\ p < a /\ \A g \in F : g < a => g <= p
    BY <1>2, Neighbours
  <2>2. \A g \in F : a <= g => a < g
    BY <1>2
  <2>. QED  BY <2>1, <2>2
<1>6. ASSUME NEW f \in F, NEW x, IsNext(F, f, x)
      PROVE  IsNext(A, f, IF f = p THEN a ELSE x)
  <2>1. f \in Nat
    BY <1>2
  <2>2. CASE f = p
    <3>1. a \in A /\ f < a /\ \A g \in A : g <= f \/ a <= g
      BY <1>2, <1>3, <1>5, <2>1, <2>2
    <3>. QED  BY <2>2, <3>1 DEF IsNext
  <2>3. CASE f # p
    <3>1. a < f \/ (p # NULL /\ f < p)
      BY <1>2, <1>5, <2>1, <2>3
    <3>2. CASE x = NULL
      <4>1. \A g \in F : g <= f
        BY <1>6, <2>1, <3>2, Neighbours
      <4>2. \A g \in A : g <= f
        BY <1>2, <1>3, <1>5, <2>1, <3>1, <4>1
      <4>. QED  BY <2>3, <3>2, <4>2 DEF IsNext
    <3>3. CASE x # NULL
      <4>1. x \in F /\ x \in Nat /\ f < x /\ \A g \in F : g < x => g <= f
        BY <1>6, <2>1, <3>3, Neighbours
      <4>2. a <= f \/ x <= a
        BY <1>2, <1>5, <2>1, <3>1, <4>1
      <4>3. x \in A /\ \A g \in A : g <= f \/ x <= g
        BY <1>2, <1>3, <2>1, <4>1, <4>2
      <4>. QED  BY <2>3, <4>1, <4>3 DEF IsNext
    <3>. QED  BY <3>2, <3>3
  <2>. QED  BY <2>2, <2>3
<1>7. ASSUME NEW x, IsNext(F, 0, x)
      PROVE  IsNext(A, 0, IF p = NULL THEN a ELSE x)
  <2>2. CASE p = NULL
    <3>1. a \in A /\ 0 < a /\ \A g \in A : g <= 0 \/ a <= g
      BY <1>2, <1>3, <1>5, <2>2
    <3>. QED  BY <2>2, <3>1 DEF IsNext
  <2>3. CASE p # NULL
    <3>1. p \in F /\ ~(p <= 0)
      BY <1>2, <1>5, <2>3
    <3>2. x # NULL
      BY <1>7, <3>1, Neighbours
    <3>3. x \in F /\ x \in Nat /\ 0 < x /\ \A g \in F : g < x => g <= 0
      BY <1>7, <3>2, Neighbours
    <3>4. x <= p
      BY <1>2, <1>5, <2>3, <3>3
    <3>5. x \in A /\ \A g \in A : g <= 0 \/ x <= g
      BY <1>2, <1>3, <1>5, <2>3, <3>3, <3>4
    <3>. QED  BY <2>3, <3>3, <3>5 DEF IsNext
  <2>. QED  BY <2>2, <2>3
<1>8. ASSUME NEW f \in F, NEW x, IsPrev(F, f, x)
      PROVE  IsPrev(A, f, IF f = n THEN a ELSE x)
  <2>1. f \in Nat
    BY <1>2
  <2>2. CASE f = n
    <3>1. a \in A /\ a < f /\ \A g \in A : g >= f \/ g <= a
      BY <1>2, <1>3, <1>4, <2>1, <2>2
    <3>. QED  BY <2>2, <3>1 DEF IsPrev
  <2>3. CASE f # n
    <3>1. f < a \/ (n # NULL /\ n < f)
      BY <1>2, <1>4, <2>1, <2>3
    <3>2. CASE x = NULL
      <4>1. \A g \in F : f <= g
        BY <1>8, <2>1, <3>2, Neighbours
      <4>2. \A g \in A : g >= f
        BY <1>2, <1>3, <1>4, <2>1, <3>1, <4>1
      <4>. QED  BY <2>3, <3>2, <4>2 DEF IsPrev
    <3>3. CASE x # NULL
      <4>1. x \in F /\ x \in Nat /\ x < f /\ \A g \in F : g < f => g <= x
        BY <1>8, <2>1, <3>3, Neighbours
      <4>2. a >= f \/ a <= x
        BY <1>2, <1>4, <2>1, <3>1, <4>1
      <4>3. x \in A /\ \A g \in A : g >= f \/ g <= x
        BY <1>2, <1>3, <2>1, <4>1, <4>2
      <4>. QED  BY <2>3, <4>1, <4>3 DEF IsPrev
    <3>. QED  BY <3>2, <3>3
  <2>. QED  BY <2>2, <2>3
<1>9. IsNext(A, a, n)
  <2>1. CASE n = NULL
    <3>1. \A g \in A : g <= a
      BY <1>2, <1>3, <1>4, <2>1
    <3>. QED  BY <2>1, <3>1 DEF IsNext
  <2>2. CASE n # NULL
    <3>1. n \in A /\ a < n /\ \A g \in A : g <= a \/ n <= g
      BY <1>2, <1>3, <1>4, <2>2
    <3>. QED  BY <3>1 DEF IsNext
  <2>. QED  BY <2>1, <2>2
<1>10. IsPrev(A, a, p)
  <2>1. CASE p = NULL
    <3>1. \A g \in A : g >= a
      BY <1>2, <1>3, <1>5, <2>1
    <3>. QED  BY <2>1, <3>1 DEF IsPrev
  <2>2. CASE p # NULL
    <3>1. p \in A /\ p < a /\ \A g \in A : g >= a \/ g <= p
      BY <1>2, <1>3, <1>5, <2>2
    <3>. QED  BY <3>1 DEF IsPrev
  <2>. QED  BY <2>1, <2>2
<1>. QED  BY <1>6, <1>7, <1>8, <1>9, <1>10 DEF A

-----------------------------------------------------------------------------
(* What the assignments to the headers do.                                 *)

IsHeader(r) == r = Header(r.next, r.prev, r.n_blocks)

LEMMA HeaderFields ==
  ASSUME NEW n, NEW p, NEW k
  PROVE  /\ Header(n, p, k).next = n /\ Header(n, p, k).prev = p
         /\ Header(n, p, k).n_blocks = k
         /\ IsHeader(Header(n, p, k))
         /\ \A v : [Header(n, p, k) EXCEPT !.next = v] = Header(v, p, k)
         /\ \A v : [Header(n, p, k) EXCEPT !.prev = v] = Header(n, v, k)
         /\ \A v : [Header(n, p, k) EXCEPT !.n_blocks = v] = Header(n, p, v)
  BY DEF Header, IsHeader

(* In g the header at c is changed as told, and no other.                  *)
NextSet(h, g, c, v) ==
  /\ g = [b \in Block |-> g[b]]
  /\ \A f \in Block : f # c => g[f] = h[f]
  /\ \A f \in Block : IsHeader(h[f]) =>
       /\ IsHeader(g[f])
       /\ g[f].next = IF f = c THEN v ELSE h[f].next
       /\ g[f].prev = h[f].prev
       /\ g[f].n_blocks = h[f].n_blocks

PrevSet(h, g, c, v) ==
  /\ g = [b \in Block |-> g[b]]
  /\ \A f \in Block : f # c => g[f] = h[f]
  /\ \A f \in Block : IsHeader(h[f]) =>
       /\ IsHeader(g[f])
       /\ g[f].prev = IF f = c THEN v ELSE h[f].prev
       /\ g[f].next = h[f].next
       /\ g[f].n_blocks = h[f].n_blocks

LEMMA SetNextSets ==
  ASSUME NEW h, h = [b \in Block |-> h[b]], NEW c, NEW v
  PROVE  NextSet(h, SetNext(h, c, v), c, v)
<1>. DEFINE g == SetNext(h, c, v)
<1>1. CASE c = NULL
  <2>1. g = h
    BY <1>1 DEF SetNext
  <2>2. \A f \in Block : f # c
    BY <1>1, Addresses
  <2>. HIDE DEF g
  <2>3. NextSet(h, g, c, v)
    BY <2>1, <2>2 DEF NextSet
  <2>. QED  BY <2>3 DEF g
<1>2. CASE c # NULL
  <2>1. g = [h EXCEPT ![c].next = v]
    BY <1>2 DEF SetNext
  <2>2. g = [b \in Block |-> g[b]]
    BY <2>1
  <2>3. \A f \in Block : g[f] = IF f = c THEN [h[c] EXCEPT !.next = v] ELSE h[f]
    BY <2>1
  <2>. HIDE DEF g
  <2>4. ASSUME NEW f \in Block, IsHeader(h[f])
        PROVE  /\ IsHeader(g[f])
               /\ g[f].next = IF f = c THEN v ELSE h[f].next
               /\ g[f].prev = h[f].prev
               /\ g[f].n_blocks = h[f].n_blocks
    <3>. DEFINE r == h[f]
    <3>1. r = Header(r.next, r.prev, r.n_blocks)
      BY <2>4 DEF IsHeader
    <3>2. CASE f = c
      <4>1. g[f] = [Header(r.next, r.prev, r.n_blocks) EXCEPT !.next = v]
        BY <2>3, <3>1, <3>2
      <4>2. g[f] = Header(v, r.prev, r.n_blocks)
        BY <4>1, HeaderFields
      <4>. HIDE DEF r
      <4>3. IsHeader(g[f]) /\ g[f].next = v /\ g[f].prev = r.prev /\ g[f].n_blocks = r.n_blocks
        BY <4>2, HeaderFields
      <4>. QED  BY <3>2, <4>3 DEF r
    <3>3. CASE f # c
      BY <2>3, <2>4, <3>3
    <3>. QED  BY <3>2, <3>3
  <2>5. NextSet(h, g, c, v)
    BY <2>2, <2>3, <2>4 DEF NextSet
  <2>. QED  BY <2>5 DEF g
<1>. QED  BY <1>1, <1>2

LEMMA SetPrevSets ==
  ASSUME NEW h, h = [b \in Block |-> h[b]], NEW c, NEW v
  PROVE  PrevSet(h, SetPrev(h, c, v), c, v)
<1>. DEFINE g == SetPrev(h, c, v)
<1>1. CASE c = NULL
  <2>1. g = h
    BY <1>1 DEF SetPrev
  <2>2. \A f \in Block : f # c
    BY <1>1, Addresses
  <2>. HIDE DEF g
  <2>3. PrevSet(h, g, c, v)
    BY <2>1, <2>2 DEF PrevSet
  <2>. QED  BY <2>3 DEF g
<1>2. CASE c # NULL
  <2>1. g = [h EXCEPT ![c].prev = v]
    BY <1>2 DEF SetPrev
  <2>2. g = [b \in Block |-> g[b]]
    BY <2>1
  <2>3. \A f \in Block : g[f] = IF f = c THEN [h[c] EXCEPT !.prev = v] ELSE h[f]
    BY <2>1
  <2>. HIDE DEF g
  <2>4. ASSUME NEW f \in Block, IsHeader(h[f])
        PROVE  /\ IsHeader(g[f])
               /\ g[f].prev = IF f = c THEN v ELSE h[f].prev
               /\ g[f].next = h[f].next
               /\ g[f].n_blocks = h[f].n_blocks
    <3>. DEFINE r == h[f]
    <3>1. r = Header(r.next, r.prev, r.n_blocks)
      BY <2>4 DEF IsHeader
    <3>2. CASE f = c
      <4>1. g[f] = [Header(r.next, r.prev, r.n_blocks) EXCEPT !.prev = v]
        BY <2>3, <3>1, <3>2
      <4>2. g[f] = Header(r.next, v, r.n_blocks)
        BY <4>1, HeaderFields
      <4>. HIDE DEF r
      <4>3. IsHeader(g[f]) /\ g[f].prev = v /\ g[f].next = r.next /\ g[f].n_blocks = r.n_blocks
        BY <4>2, HeaderFields
      <4>. QED  BY <3>2, <4>3 DEF r
    <3>3. CASE f # c
      BY <2>3, <2>4, <3>3
    <3>. QED  BY <3>2, <3>3
  <2>5. PrevSet(h, g, c, v)
    BY <2>2, <2>3, <2>4 DEF PrevSet
  <2>. QED  BY <2>5 DEF g
<1>. QED  BY <1>1, <1>2

-----------------------------------------------------------------------------
(* What the table says after a block run is given out or given back.       *)

LEMMA TableGives ==
  ASSUME NEW G \in SUBSET Block, NEW t, IsTable(G, t),
         NEW a \in G, NEW n \in Nat, a + n <= N + 1,
         \A x \in Block : a <= x /\ x < a + n => x \in G
  PROVE  IsTable({x \in G : ~(a <= x /\ x < a + n)}, [t EXCEPT ![a] = n])
<1>. DEFINE G2 == {x \in G : ~(a <= x /\ x < a + n)}
            u  == [t EXCEPT ![a] = n]
<1>1. /\ t \in [Block -> Nat]
      /\ \A c \in Block : c + t[c] <= N + 1
      /\ \A b, c \in Block : t[b] > 0 /\ t[c] > 0 /\ b < c => b + t[b] <= c
      /\ \A b, x \in Block : b <= x /\ x < b + t[b] => x \notin G
      /\ \A x \in Block : x \notin G => \E b \in Block : b <= x /\ x < b + t[b]
  BY DEF IsTable
<1>2. a \in Block /\ a \in Nat /\ N \in Nat /\ \A x \in Block : x \in Nat /\ t[x] \in Nat
  BY <1>1, Addresses DEF Block
<1>3. t[a] = 0
  BY <1>1, <1>2
<1>4. u \in [Block -> Nat] /\ u[a] = n /\ \A c \in Block : c # a => u[c] = t[c]
  BY <1>1, <1>2
<1>5. \A x : x \in G2 <=> x \in G /\ ~(a <= x /\ x < a + n)
  OBVIOUS
<1>. HIDE DEF G2, u
<1>6. \A c \in Block : c + u[c] <= N + 1
  BY <1>1, <1>4
<1>7. ASSUME NEW b \in Block, NEW c \in Block, u[b] > 0, u[c] > 0, b < c
      PROVE  b + u[b] <= c
  <2>1. CASE b = a
    <3>1. t[c] > 0 /\ c # a
      BY <1>2, <1>4, <1>7, <2>1
    <3>2. c \notin G
      BY <1>1, <1>2, <3>1
    <3>. QED  BY <1>2, <1>4, <1>7, <2>1, <3>2
  <2>2. CASE c = a
    <3>1. b # a /\ u[b] = t[b]
      BY <1>2, <1>4, <1>7, <2>2
    <3>2. ~(a < b + t[b])
      BY <1>1, <1>2, <1>7, <2>2
    <3>. QED  BY <1>2, <2>2, <3>1, <3>2
  <2>3. CASE b # a /\ c # a
    BY <1>1, <1>4, <1>7, <2>3
  <2>. QED  BY <2>1, <2>2, <2>3
<1>8. ASSUME NEW b \in Block, NEW x \in Block, b <= x, x < b + u[b]
      PROVE  x \notin G2
  BY <1>1, <1>4, <1>5, <1>8
<1>9. ASSUME NEW x \in Block, x \notin G2
      PROVE  \E b \in Block : b <= x /\ x < b + u[b]
  <2>1. CASE x \in G
    BY <1>2, <1>4, <1>5, <1>9, <2>1
  <2>2. CASE x \notin G
    <3>1. PICK b \in Block : b <= x /\ x < b + t[b]
      BY <1>1, <2>2
    <3>2. b # a
      BY <1>2, <1>3, <3>1
    <3>. QED  BY <1>4, <3>1, <3>2
  <2>. QED  BY <2>1, <2>2
<1>. QED  BY <1>4, <1>6, <1>7, <1>8, <1>9 DEF IsTable, G2, u

LEMMA TableTakesBack ==
  ASSUME NEW G \in SUBSET Block, NEW t, IsTable(G, t), NEW a \in Block, t[a] > 0
  PROVE  IsTable(G \cup {x \in Block : a <= x /\ x < a + t[a]}, [t EXCEPT ![a] = 0])
<1>. DEFINE G2 == G \cup {x \in Block : a <= x /\ x < a + t[a]}
            u  == [t EXCEPT ![a] = 0]
<1>1. /\ t \in [Block -> Nat]
      /\ \A c \in Block : c + t[c] <= N + 1
      /\ \A b, c \in Block : t[b] > 0 /\ t[c] > 0 /\ b < c => b + t[b] <= c
      /\ \A b, x \in Block : b <= x /\ x < b + t[b] => x \notin G
      /\ \A x \in Block : x \notin G => \E b \in Block : b <= x /\ x < b + t[b]
  BY DEF IsTable
<1>2. a \in Nat /\ N \in Nat /\ \A x \in Block : x \in Nat /\ t[x] \in Nat
  BY <1>1, Addresses DEF Block
<1>3. u \in [Block -> Nat] /\ u[a] = 0 /\ \A c \in Block : c # a => u[c] = t[c]
  BY <1>1
<1>4. \A x \in Block : x \in G2 <=> x \in G \/ (a <= x /\ x < a + t[a])
  OBVIOUS
<1>. HIDE DEF G2, u
<1>5. \A c \in Block : c + u[c] <= N + 1
  <2>1. a + 0 <= N + 1
    BY <1>1, <1>2
  <2>. QED  BY <1>1, <1>3, <2>1
<1>6. ASSUME NEW b \in Block, NEW c \in Block, u[b] > 0, u[c] > 0, b < c
      PROVE  b + u[b] <= c
  <2>1. b # a /\ c # a
    BY <1>3, <1>6
  <2>. QED  BY <1>1, <1>3, <1>6, <2>1
<1>7. ASSUME NEW b \in Block, NEW x \in Block, b <= x, x < b + u[b]
      PROVE  x \notin G2
  <2>1. b # a
    BY <1>2, <1>3, <1>7
  <2>2. x < b + t[b] /\ t[b] > 0
    BY <1>2, <1>3, <1>7, <2>1
  <2>3. (b < a => b + t[b] <= a) /\ (a < b => a + t[a] <= b)
    BY <1>1, <2>2
  <2>4. ~(a <= x /\ x < a + t[a])
    BY <1>2, <1>7, <2>1, <2>2, <2>3
  <2>. QED  BY <1>1, <1>4, <1>7, <2>2, <2>4
<1>8. ASSUME NEW x \in Block, x \notin G2
      PROVE  \E b \in Block : b <= x /\ x < b + u[b]
  <2>1. x \notin G /\ ~(a <= x /\ x < a + t[a])
    BY <1>4, <1>8
  <2>2. PICK b \in Block : b <= x /\ x < b + t[b]
    BY <1>1, <2>1
  <2>3. b # a
    BY <2>1, <2>2
  <2>. QED  BY <1>3, <2>2, <2>3
<1>. QED  BY <1>3, <1>5, <1>6, <1>7, <1>8 DEF IsTable, G2, u

-----------------------------------------------------------------------------
(* What is known of each header of a list.                                 *)
LEMMA ListFacts ==
  ASSUME NEW F, NEW head, NEW h, IsList(F, head, h)
  PROVE  /\ F \subseteq Block /\ NULL \notin F
         /\ h = [b \in Block |-> h[b]]
         /\ IsNext(F, 0, head)
         /\ N \in Nat /\ \A b \in F : b \in Nat /\ b > 0
         /\ \A b \in F : /\ IsHeader(h[b])
                         /\ h[b].n_blocks \in Nat /\ h[b].n_blocks > 0
                         /\ b + h[b].n_blocks <= N + 1
                         /\ \A f \in F : b < f => b + h[b].n_blocks <= f
                         /\ IsNext(F, b, h[b].next)
                         /\ IsPrev(F, b, h[b].prev)
<1>1. F \subseteq Block /\ h = [b \in Block |-> h[b]] /\ IsNext(F, 0, head)
  BY DEF IsList
<1>2. N \in Nat /\ NULL \notin F /\ \A b \in F : b \in Nat /\ b > 0
  BY <1>1, Addresses DEF Block
<1>3. ASSUME NEW b \in F
      PROVE  /\ IsHeader(h[b])
             /\ h[b].n_blocks \in Nat /\ h[b].n_blocks > 0
             /\ b + h[b].n_blocks <= N + 1
             /\ \A f \in F : b < f => b + h[b].n_blocks <= f
             /\ IsNext(F, b, h[b].next)
             /\ IsPrev(F, b, h[b].prev)
  <2>1. Linked(F, h, b)
    BY DEF IsList
  <2>2. IsHeader(h[b])
    BY <2>1 DEF Linked, IsHeader
  <2>. QED  BY <2>1, <2>2 DEF Linked, Ends
<1>. QED  BY <1>1, <1>2, <1>3

(* And what makes it a list.                                               *)
LEMMA MakesList ==
  ASSUME NEW F, F \subseteq Block, NEW head, IsNext(F, 0, head),
         NEW h, h = [b \in Block |-> h[b]],
         \A b \in F : /\ IsHeader(h[b])
                      /\ h[b].n_blocks \in Nat /\ h[b].n_blocks > 0
                      /\ b + h[b].n_blocks <= N + 1
                      /\ \A f \in F : b < f => b + h[b].n_blocks <= f
                      /\ IsNext(F, b, h[b].next)
                      /\ IsPrev(F, b, h[b].prev)
  PROVE  IsList(F, head, h)
<1>1. ASSUME NEW b \in F
      PROVE  Linked(F, h, b)
  BY DEF Linked, Ends, IsHeader
<1>. QED  BY <1>1 DEF IsList

(* merge_blocks keeps the list, the free memory and the link back, and     *)
(* parts the run at b from the next one if the runs after b are apart.     *)
MergesAt(b, F, R, head, h, g) ==
  /\ R \in SUBSET F
  /\ b \in R /\ \A f \in F : f < b => f \in R
  /\ IsList(R, head, g)
  /\ Apart(R, g, b)
  /\ \A f \in R : f # b => Ends(g, f) = Ends(h, f)
  /\ FreeMemory(R, g) = FreeMemory(F, h)
  /\ g[b].prev = h[b].prev

LEMMA MergeKeeps ==
  ASSUME NEW F, NEW head, NEW h, IsList(F, head, h), NEW b \in F,
         \A f \in F : b < f => Apart(F, h, f)
  PROVE  \E R : MergesAt(b, F, R, head, h, MergeBlocks(h, b))
<1>. DEFINE g == MergeBlocks(h, b)
            n == h[b].n_blocks
            x == h[b].next
            m == h[x].n_blocks
            y == h[x].next
<1>1. /\ F \subseteq Block /\ NULL \notin F
      /\ h = [c \in Block |-> h[c]]
      /\ IsNext(F, 0, head)
      /\ N \in Nat /\ \A c \in F : c \in Nat /\ c > 0
      /\ \A c \in F : /\ IsHeader(h[c])
                      /\ h[c].n_blocks \in Nat /\ h[c].n_blocks > 0
                      /\ c + h[c].n_blocks <= N + 1
                      /\ \A f \in F : c < f => c + h[c].n_blocks <= f
                      /\ IsNext(F, c, h[c].next)
                      /\ IsPrev(F, c, h[c].prev)
  BY ListFacts
<1>2. b # NULL /\ b \in Block
  BY <1>1
<1>3. /\ x = NULL => \A f \in F : f <= b
      /\ x # NULL => x \in F /\ x \in Nat /\ b < x /\ \A f \in F : f < x => f <= b
  <2>. HIDE DEF x
  <2>1. IsNext(F, b, x) /\ b \in Nat
    BY <1>1 DEF x
  <2>. QED  BY <1>1, <2>1, Neighbours
<1>4. CASE x = NULL \/ x # b + n
  <2>1. g = h
    BY <1>4 DEF MergeBlocks
  <2>2. Apart(F, h, b)
    <3>. SUFFICES ASSUME NEW f \in F, b < f PROVE b + n < f
      BY DEF Apart, Ends
    <3>1. b \in Nat /\ f \in Nat /\ n \in Nat /\ ~(f <= b)
      BY <1>1
    <3>. HIDE DEF x, n
    <3>2. x # NULL /\ x # b + n
      BY <1>3, <1>4, <3>1
    <3>3. x \in F /\ x \in Nat /\ b < x /\ x <= f
      BY <1>3, <3>1, <3>2
    <3>4. b + n <= x
      BY <1>1, <3>3 DEF n
    <3>. QED  BY <3>1, <3>2, <3>3, <3>4
  <2>3. MergesAt(b, F, F, head, h, g)
    BY <2>1, <2>2 DEF MergesAt
  <2>. QED  BY <2>3
<1>5. CASE x # NULL /\ x = b + n
  <2>. DEFINE merged == [h EXCEPT ![b].n_blocks = @ + h[x].n_blocks,
                                  ![b].next = h[x].next]
              R == F \ {x}
  <2>1. g = SetPrev(merged, merged[b].next, b)
    BY <1>2, <1>5 DEF MergeBlocks
  <2>2. merged[b] = Header(y, h[b].prev, n + m)
    <3>1. h[b] = Header(x, h[b].prev, n)
      BY <1>1 DEF IsHeader
    <3>2. merged[b] = [[h[b] EXCEPT !.n_blocks = n + m] EXCEPT !.next = y]
      BY <1>1, <1>2
    <3>. HIDE DEF merged, y, m, n, x
    <3>3. [h[b] EXCEPT !.n_blocks = n + m] = Header(x, h[b].prev, n + m)
      BY <3>1, HeaderFields
    <3>4. [Header(x, h[b].prev, n + m) EXCEPT !.next = y] = Header(y, h[b].prev, n + m)
      BY HeaderFields
    <3>. QED  BY <3>2, <3>3, <3>4
  <2>3. merged = [c \in Block |-> merged[c]] /\ \A c \in Block : c # b => merged[c] = h[c]
    BY <1>1, <1>2
  <2>4. /\ x \in F /\ x \in Nat /\ x \in Block /\ b < x /\ x # b
        /\ \A f \in F : f < x => f <= b
    BY <1>1, <1>3, <1>5
  <2>5. /\ b \in Nat /\ n \in Nat /\ n > 0 /\ m \in Nat /\ m > 0
        /\ IsNext(F, x, y) /\ IsPrev(F, x, h[x].prev)
        /\ IsNext(F, b, x) /\ x + m <= N + 1
        /\ \A f \in F : x < f => x + m <= f
    BY <1>1, <2>4
  <2>6. h[x].prev = b
    <3>. DEFINE z == h[x].prev
    <3>1. F \subseteq Block /\ b \in F /\ x \in F /\ IsNext(F, b, x) /\ IsPrev(F, x, z)
      BY <1>1, <2>4, <2>5
    <3>. HIDE DEF x, z
    <3>2. x = x <=> z = b
      BY <3>1, BothWays
    <3>. QED  BY <3>2 DEF z
  <2>. HIDE DEF merged, g
  <2>7. PrevSet(merged, g, y, b)
    <3>1. merged[b].next = y
      <4>. HIDE DEF y, m, n
      <4>. QED  BY <2>2, HeaderFields
    <3>. QED  BY <2>1, <2>3, <3>1, SetPrevSets
  <2>8. /\ IsHeader(merged[b]) /\ merged[b].next = y
        /\ merged[b].prev = h[b].prev /\ merged[b].n_blocks = n + m
    <3>. HIDE DEF y, m, n
    <3>. QED  BY <2>2, HeaderFields
  <2>9. ASSUME NEW f \in R
        PROVE  /\ IsHeader(g[f])
               /\ g[f].next = IF f = b THEN y ELSE h[f].next
               /\ g[f].prev = IF f = y THEN b ELSE h[f].prev
               /\ g[f].n_blocks = IF f = b THEN n + m ELSE h[f].n_blocks
    <3>1. f \in Block /\ f \in F
      BY <1>1
    <3>2. /\ IsHeader(merged[f])
          /\ merged[f].next = IF f = b THEN y ELSE h[f].next
          /\ merged[f].prev = h[f].prev
          /\ merged[f].n_blocks = IF f = b THEN n + m ELSE h[f].n_blocks
      <4>. HIDE DEF y, m, n
      <4>. QED  BY <1>1, <2>3, <2>8, <3>1
    <3>. HIDE DEF y, m, n
    <3>. QED  BY <2>7, <3>1, <3>2 DEF PrevSet
  <2>10. y # b
    <3>. HIDE DEF x, y
    <3>1. y # NULL => x < y
      BY <1>1, <2>4, <2>5, Neighbours
    <3>. QED  BY <1>2, <2>4, <2>5, <3>1
  <2>11. /\ \A f \in R \cup {0} : \A z : IsNext(F, f, z) => IsNext(R, f, IF z = x THEN y ELSE z)
         /\ \A f \in R : \A z : IsPrev(F, f, z) => IsPrev(R, f, IF z = x THEN b ELSE z)
    <3>1. IsPrev(F, x, b) /\ IsNext(F, x, y)
      BY <2>5, <2>6
    <3>. HIDE DEF y, x
    <3>. QED  BY <1>1, <2>4, <3>1, NeighboursOfRemoved
  <2>12. \A f \in R : f \in F /\ f # x /\ f \in Nat /\ f \in Block
    BY <1>1
  <2>13. b \in R
    BY <2>4
  <2>14. ASSUME NEW f \in R, f # b
         PROVE  /\ g[f].n_blocks \in Nat /\ g[f].n_blocks > 0
                /\ f + g[f].n_blocks <= N + 1
                /\ \A c \in R : f < c => f + g[f].n_blocks <= c
                /\ IsNext(R, f, g[f].next)
    <3>1. g[f].n_blocks = h[f].n_blocks /\ g[f].next = h[f].next
      BY <2>9, <2>14
    <3>2. IsNext(F, f, h[f].next)
      BY <1>1, <2>12
    <3>3. h[f].next # x
      <4>. DEFINE z == h[f].next
      <4>1. /\ F \subseteq Block /\ f \in F /\ x \in F /\ f # b
            /\ IsNext(F, f, z) /\ IsPrev(F, x, b)
        BY <1>1, <2>4, <2>5, <2>6, <2>12, <2>14, <3>2
      <4>. HIDE DEF x, z
      <4>2. z = x <=> b = f
        BY <4>1, BothWays
      <4>. QED  BY <4>1, <4>2 DEF z
    <3>4. IsNext(R, f, h[f].next)
      BY <2>11, <3>2, <3>3
    <3>. QED  BY <1>1, <2>12, <3>1, <3>4
  <2>15. /\ g[b].n_blocks = n + m /\ g[b].n_blocks > 0
         /\ b + g[b].n_blocks <= N + 1
         /\ \A c \in R : b < c => x < c /\ b + g[b].n_blocks <= c
         /\ IsNext(R, b, g[b].next)
    <3>1. g[b].n_blocks = n + m /\ g[b].next = y
      BY <2>9, <2>13
    <3>2. IsNext(R, b, y)
      BY <2>5, <2>11, <2>13
    <3>3. ASSUME NEW c \in R, b < c
          PROVE  x < c /\ x + m <= c
      <4>1. c \in Nat /\ c \in F /\ c # x
        BY <2>12
      <4>2. x < c
        <5>. HIDE DEF x
        <5>. QED  BY <2>4, <2>5, <3>3, <4>1
      <4>. QED  BY <2>5, <4>1, <4>2
    <3>4. b + (n + m) = x + m /\ n + m > 0
      <4>. HIDE DEF x, n, m
      <4>. QED  BY <1>5, <2>4, <2>5
    <3>. QED  BY <2>5, <3>1, <3>2, <3>3, <3>4
  <2>16. ASSUME NEW f \in R
         PROVE  IsPrev(R, f, g[f].prev)
    <3>1. IsPrev(F, f, h[f].prev)
      BY <1>1, <2>12
    <3>2. IsPrev(R, f, IF h[f].prev = x THEN b ELSE h[f].prev)
      BY <2>11, <3>1
    <3>3. h[f].prev = x <=> f = y
      <4>. DEFINE z == h[f].prev
      <4>1. F \subseteq Block /\ f \in F /\ x \in F /\ IsNext(F, x, y) /\ IsPrev(F, f, z)
        BY <1>1, <2>4, <2>5, <2>12, <3>1
      <4>. HIDE DEF x, y, z
      <4>2. y = f <=> z = x
        BY <4>1, BothWays
      <4>. QED  BY <4>2 DEF z
    <3>. QED  BY <2>9, <3>2, <3>3
  <2>17. IsList(R, head, g)
    <3>1. R \subseteq Block
      BY <1>1
    <3>2. IsNext(R, 0, head)
      <4>1. head # x
        <5>. HIDE DEF x
        <5>1. head = x => b <= 0
          BY <1>1, <2>4, Neighbours
        <5>. QED  BY <1>1, <5>1
      <4>2. 0 \in R \cup {0}
        OBVIOUS
      <4>. HIDE DEF x, y, R
      <4>. QED  BY <1>1, <2>11, <4>1, <4>2
    <3>3. g = [c \in Block |-> g[c]]
      BY <2>7 DEF PrevSet
    <3>4. \A f \in R : /\ IsHeader(g[f])
                       /\ g[f].n_blocks \in Nat /\ g[f].n_blocks > 0
                       /\ f + g[f].n_blocks <= N + 1
                       /\ \A c \in R : f < c => f + g[f].n_blocks <= c
                       /\ IsNext(R, f, g[f].next)
                       /\ IsPrev(R, f, g[f].prev)
      <4>1. g[b].n_blocks \in Nat
        <5>. HIDE DEF n, m
        <5>. QED  BY <2>5, <2>15
      <4>. HIDE DEF R, x, y, n, m
      <4>. QED  BY <2>9, <2>14, <2>15, <2>16, <4>1
    <3>. HIDE DEF R
    <3>. QED  BY <3>1, <3>2, <3>3, <3>4, MakesList
  <2>18. Apart(R, g, b)
    <3>1. \A f \in F : x < f => x + m < f
      BY <2>4 DEF Apart, Ends
    <3>2. b + (n + m) = x + m
      <4>. HIDE DEF x, n, m
      <4>. QED  BY <1>5, <2>4, <2>5
    <3>. QED  BY <2>12, <2>15, <3>1, <3>2 DEF Apart, Ends
  <2>19. \A f \in R : f # b => Ends(g, f) = Ends(h, f)
    BY <2>9 DEF Ends
  <2>20. Ends(g, b) = Ends(h, x) /\ x = Ends(h, b) /\ Ends(h, x) \in Nat
    <3>1. Ends(g, b) = b + (n + m) /\ Ends(h, x) = x + m /\ Ends(h, b) = b + n
      BY <2>15 DEF Ends
    <3>. HIDE DEF x, n, m
    <3>. QED  BY <1>5, <2>4, <2>5, <3>1
  <2>21. FreeMemory(R, g) = FreeMemory(F, h)
    <3>. SUFFICES ASSUME NEW z \in Block
                  PROVE  (\E f \in R : f <= z /\ z < Ends(g, f))
                         <=> (\E f \in F : f <= z /\ z < Ends(h, f))
      BY DEF FreeMemory
    <3>1. z \in Nat
      BY DEF Block
    <3>2. ASSUME NEW f \in R, f <= z, z < Ends(g, f)
          PROVE  \E c \in F : c <= z /\ z < Ends(h, c)
      <4>1. CASE f # b
        BY <2>12, <2>19, <3>2, <4>1
      <4>2. CASE f = b
        <5>1. b <= z /\ z < Ends(h, x)
          BY <2>20, <3>2, <4>2
        <5>2. z < Ends(h, b) \/ x <= z
          <6>. HIDE DEF x
          <6>. QED  BY <2>4, <2>20, <3>1
        <5>. QED  BY <2>4, <5>1, <5>2
      <4>. QED  BY <4>1, <4>2
    <3>3. ASSUME NEW f \in F, f <= z, z < Ends(h, f)
          PROVE  \E c \in R : c <= z /\ z < Ends(g, c)
      <4>1. CASE f # b /\ f # x
        <5>1. f \in R /\ Ends(g, f) = Ends(h, f)
          BY <2>19, <4>1
        <5>. QED  BY <3>3, <5>1
      <4>2. CASE f = x
        <5>1. b <= z
          <6>. HIDE DEF x
          <6>. QED  BY <2>4, <2>5, <3>1, <3>3, <4>2
        <5>. QED  BY <2>13, <2>20, <3>3, <4>2, <5>1
      <4>3. CASE f = b
        <5>1. z < Ends(h, x)
          <6>1. x <= Ends(h, x)
            <7>1. Ends(h, x) = x + m
              BY DEF Ends
            <7>. HIDE DEF x, m
            <7>. QED  BY <2>4, <2>5, <7>1
          <6>. HIDE DEF x
          <6>. QED  BY <2>4, <2>20, <3>1, <3>3, <4>3, <6>1
        <5>. QED  BY <2>13, <2>20, <3>3, <4>3, <5>1
      <4>. QED  BY <4>1, <4>2, <4>3
    <3>. QED  BY <3>2, <3>3
  <2>22. g[b].prev = h[b].prev
    BY <2>9, <2>10, <2>13
  <2>23. MergesAt(b, F, R, head, h, g)
    <3>1. R \in SUBSET F
      OBVIOUS
    <3>2. \A f \in F : f < b => f \in R
      <4>. HIDE DEF x
      <4>. QED  BY <1>1, <2>4
    <3>. HIDE DEF R
    <3>. QED  BY <3>2, <2>13, <2>17, <2>18, <2>19, <2>21, <2>22, <3>1 DEF MergesAt
  <2>. QED  BY <2>23 DEF g
<1>. QED  BY <1>4, <1>5

-----------------------------------------------------------------------------
(* mem_free.                                                               *)

(* The run at a is put behind p.                                           *)
Inserts(F, a, p, g) ==
  /\ IsList(F \cup {a}, IF p = NULL THEN a ELSE fb_head, g)
  /\ \A f \in F : Ends(g, f) = Ends(header, f)
  /\ Ends(g, a) = a + alloc_table[a]
  /\ g[a].prev = p

LEMMA InsertKeeps ==
  ASSUME NEW F, IsList(F, fb_head, header), NEW a \in Block, a \notin F,
         NEW p, IsPrev(F, a, p),
         alloc_table[a] \in Nat, alloc_table[a] > 0, a + alloc_table[a] <= N + 1,
         \A f \in F : a < f => a + alloc_table[a] <= f,
         \A f \in F : f < a => Ends(header, f) <= a
  PROVE  Inserts(F, a, p, Insert(a, p))
<1>. DEFINE n    == alloc_table[a]
            x    == IF p = NULL THEN fb_head ELSE header[p].next
            put  == [header EXCEPT ![a] = Header(x, p, n)]
            mid  == SetPrev(put, x, a)
            g    == SetNext(mid, p, a)
            head == IF p = NULL THEN a ELSE fb_head
            A    == F \cup {a}
<1>1. /\ F \subseteq Block /\ NULL \notin F
      /\ header = [c \in Block |-> header[c]]
      /\ IsNext(F, 0, fb_head)
      /\ N \in Nat /\ \A c \in F : c \in Nat /\ c > 0
      /\ \A c \in F : /\ IsHeader(header[c])
                      /\ header[c].n_blocks \in Nat /\ header[c].n_blocks > 0
                      /\ c + header[c].n_blocks <= N + 1
                      /\ \A f \in F : c < f => c + header[c].n_blocks <= f
                      /\ IsNext(F, c, header[c].next)
                      /\ IsPrev(F, c, header[c].prev)
  BY ListFacts
<1>2. a \in Nat /\ a > 0 /\ a # NULL
  BY Addresses DEF Block
<1>3. /\ p = NULL => \A f \in F : a <= f
      /\ p # NULL => p \in F /\ p \in Nat /\ p < a /\ \A f \in F : f < a => f <= p
  BY <1>1, <1>2, Neighbours
<1>4. IsNext(F, a, x)
  <2>1. CASE p = NULL
    <3>. DEFINE h == fb_head
    <3>1. x = h
      BY <2>1
    <3>2. /\ h = NULL => \A f \in F : f <= 0
          /\ h # NULL => h \in F /\ h \in Nat /\ 0 < h /\ \A f \in F : f < h => f <= 0
      BY <1>1, Neighbours
    <3>3. CASE h = NULL
      <4>1. \A f \in F : f <= a
        BY <1>1, <1>2, <3>2, <3>3
      <4>. QED  BY <3>1, <3>3, <4>1 DEF IsNext
    <3>4. CASE h # NULL
      <4>1. h \in F /\ a < h
        BY <1>1, <1>2, <1>3, <2>1, <3>2, <3>4
      <4>2. \A f \in F : f <= a \/ h <= f
        BY <1>1, <1>2, <3>2, <3>4
      <4>. QED  BY <3>1, <4>1, <4>2 DEF IsNext
    <3>. QED  BY <3>3, <3>4
  <2>2. CASE p # NULL
    <3>. DEFINE h == header[p].next
    <3>1. x = h /\ p \in F /\ p \in Nat /\ p < a /\ \A f \in F : f < a => f <= p
      BY <1>3, <2>2
    <3>2. IsNext(F, p, h) /\ F \subseteq Block /\ p \in Nat
      BY <1>1, <3>1
    <3>. HIDE DEF h, x
    <3>3. /\ h = NULL => \A f \in F : f <= p
          /\ h # NULL => h \in F /\ h \in Nat /\ p < h /\ \A f \in F : f < h => f <= p
      BY <3>2, Neighbours
    <3>4. CASE h = NULL
      <4>1. \A f \in F : f <= a
        BY <1>1, <1>2, <3>1, <3>3, <3>4
      <4>. QED  BY <3>1, <3>4, <4>1 DEF IsNext
    <3>5. CASE h # NULL
      <4>1. h \in F /\ a < h
        BY <1>1, <1>2, <3>1, <3>3, <3>5
      <4>2. \A f \in F : f <= a \/ h <= f
        BY <1>1, <1>2, <3>1, <3>3, <3>5
      <4>. QED  BY <3>1, <4>1, <4>2 DEF IsNext
    <3>. QED  BY <3>4, <3>5
  <2>. QED  BY <2>1, <2>2
<1>5. Insert(a, p) = g
  BY DEF Insert
<1>6. put = [c \in Block |-> put[c]] /\ put[a] = Header(x, p, n)
      /\ \A c \in Block : c # a => put[c] = header[c]
  BY <1>1
<1>. HIDE DEF put, x, n
<1>7. PrevSet(put, mid, x, a)
  BY <1>6, SetPrevSets
<1>8. NextSet(mid, g, p, a)
  <2>1. mid = [c \in Block |-> mid[c]]
    BY <1>7 DEF PrevSet
  <2>. HIDE DEF mid
  <2>. QED  BY <2>1, SetNextSets
<1>. HIDE DEF mid, g
<1>9. ASSUME NEW f \in Block, IsHeader(put[f])
      PROVE  /\ IsHeader(g[f])
             /\ g[f].next = IF f = p THEN a ELSE put[f].next
             /\ g[f].prev = IF f = x THEN a ELSE put[f].prev
             /\ g[f].n_blocks = put[f].n_blocks
  BY <1>7, <1>8, <1>9 DEF PrevSet, NextSet
<1>10. a # p /\ a # x
  <2>1. a # p
    BY <1>2, <1>3
  <2>2. a # x
    BY <1>2, <1>4 DEF IsNext
  <2>. QED  BY <2>1, <2>2
<1>11. /\ IsHeader(g[a]) /\ g[a].next = x /\ g[a].prev = p /\ g[a].n_blocks = n
  <2>1. IsHeader(put[a]) /\ put[a].next = x /\ put[a].prev = p /\ put[a].n_blocks = n
    BY <1>6, HeaderFields
  <2>. QED  BY <1>9, <1>10, <2>1
<1>12. ASSUME NEW f \in F
       PROVE  /\ IsHeader(g[f])
              /\ g[f].next = IF f = p THEN a ELSE header[f].next
              /\ g[f].prev = IF f = x THEN a ELSE header[f].prev
              /\ g[f].n_blocks = header[f].n_blocks
  <2>1. f \in Block /\ f # a /\ put[f] = header[f] /\ IsHeader(header[f])
    BY <1>1, <1>6
  <2>. QED  BY <1>9, <2>1
<1>13. /\ \A f \in F : \A z : IsNext(F, f, z) => IsNext(A, f, IF f = p THEN a ELSE z)
       /\ \A z : IsNext(F, 0, z) => IsNext(A, 0, IF p = NULL THEN a ELSE z)
       /\ \A f \in F : \A z : IsPrev(F, f, z) => IsPrev(A, f, IF f = x THEN a ELSE z)
       /\ IsNext(A, a, x)
       /\ IsPrev(A, a, p)
  BY <1>1, <1>4, NeighboursOfAdded
<1>14. n \in Nat /\ n > 0 /\ a + n <= N + 1 /\ \A f \in F : a < f => a + n <= f
  BY DEF n
<1>15. IsList(A, head, g)
  <2>1. A \subseteq Block
    BY <1>1
  <2>2. IsNext(A, 0, head)
    BY <1>1, <1>13
  <2>3. g = [c \in Block |-> g[c]]
    BY <1>8 DEF NextSet
  <2>4. ASSUME NEW b \in F
        PROVE  /\ g[b].n_blocks \in Nat /\ g[b].n_blocks > 0
               /\ b + g[b].n_blocks <= N + 1
               /\ \A f \in A : b < f => b + g[b].n_blocks <= f
               /\ IsNext(A, b, g[b].next)
               /\ IsPrev(A, b, g[b].prev)
    <3>1. IsNext(A, b, g[b].next)
      BY <1>1, <1>12, <1>13
    <3>2. IsPrev(A, b, g[b].prev)
      BY <1>1, <1>12, <1>13
    <3>3. b < a => b + header[b].n_blocks <= a
      BY DEF Ends
    <3>. QED  BY <1>1, <1>12, <3>1, <3>2, <3>3
  <2>5. \A f \in A : a < f => a + g[a].n_blocks <= f
    BY <1>2, <1>11, <1>14
  <2>6. \A b \in A : /\ IsHeader(g[b])
                     /\ g[b].n_blocks \in Nat /\ g[b].n_blocks > 0
                     /\ b + g[b].n_blocks <= N + 1
                     /\ \A f \in A : b < f => b + g[b].n_blocks <= f
                     /\ IsNext(A, b, g[b].next)
                     /\ IsPrev(A, b, g[b].prev)
    <3>1. \A b \in A : b \in F \/ b = a
      OBVIOUS
    <3>. HIDE DEF A
    <3>. QED  BY <1>11, <1>12, <1>13, <1>14, <2>4, <2>5, <3>1
  <2>. HIDE DEF A, head
  <2>. QED  BY <2>1, <2>2, <2>3, <2>6, MakesList
<1>16. \A f \in F : Ends(g, f) = Ends(header, f)
  BY <1>12 DEF Ends
<1>17. Ends(g, a) = a + alloc_table[a] /\ g[a].prev = p
  BY <1>11 DEF Ends, n
<1>. QED  BY <1>5, <1>15, <1>16, <1>17 DEF Inserts

(* The place of the address is behind the last header passed.              *)
Place(address) ==
  IF Passed(address) = {} THEN NULL
  ELSE Chain[CHOOSE i \in Passed(address) : \A j \in Passed(address) : j <= i]

LEMMA PassedIsPrev ==
  ASSUME NEW F, IsList(F, fb_head, header), NEW a \in Block, a \notin F
  PROVE  IsPrev(F, a, Place(a))
<1>. DEFINE P == Passed(a)
            Last(i) == i \in P /\ \A j \in P : j <= i
<1>1. /\ \A i \in Links : Chain[i] \in F
      /\ \A i, j \in Links : i < j => Chain[i] < Chain[j]
      /\ \A f \in F : \E i \in Links : Chain[i] = f
      /\ \A i \in Links : \A j \in 1..i : j \in Links
  BY ChainIsSorted
<1>2. /\ a \in Nat /\ N \in Nat
      /\ \A f \in F : f \in Nat /\ f # a
      /\ \A i \in Links : i \in 1..N /\ i \in Nat
  <2>1. a \in Nat /\ N \in Nat /\ \A i \in Links : i \in 1..N /\ i \in Nat
    BY Addresses DEF Block, Links
  <2>2. \A f \in F : f \in Nat /\ f # a
    BY ListFacts
  <2>. QED  BY <2>1, <2>2
<1>3. ASSUME NEW i \in Links, Chain[i] < a
      PROVE  i \in P
  <2>1. ASSUME NEW j \in 1..i
        PROVE  a >= Chain[j]
    <3>1. j \in Links /\ (j = i \/ j < i) /\ Chain[j] \in Nat /\ Chain[i] \in Nat
      BY <1>1, <1>2
    <3>. QED  BY <1>1, <1>2, <1>3, <3>1
  <2>. QED  BY <2>1 DEF Passed
<1>4. ASSUME NEW i \in P
      PROVE  i \in Links /\ i \in Nat /\ i \in 1..N /\ Chain[i] \in F /\ Chain[i] < a
  <2>1. i \in Links /\ i \in 1..i /\ Chain[i] \in F
    BY <1>1, <1>2 DEF Passed
  <2>2. a >= Chain[i]
    BY <2>1 DEF Passed
  <2>. QED  BY <1>2, <2>1, <2>2
<1>5. CASE P = {}
  <2>1. ASSUME NEW f \in F
        PROVE  f >= a
    <3>1. PICK i \in Links : Chain[i] = f
      BY <1>1
    <3>. QED  BY <1>2, <1>3, <1>5, <3>1
  <2>. QED  BY <1>5, <2>1 DEF IsPrev, Place
<1>6. CASE P # {}
  <2>. DEFINE T == {N - i : i \in P}
              k == CHOOSE i \in P : \A j \in P : j <= i
  <2>1. T # {} /\ T \subseteq Nat
    <3>1. \A i \in P : N - i \in Nat
      BY <1>2, <1>4
    <3>. HIDE DEF P
    <3>. QED  BY <1>6, <3>1
  <2>2. PICK m \in T : \A l \in T : m <= l
    <3>. HIDE DEF T
    <3>. QED  BY <2>1, LeastNumber
  <2>3. PICK i \in P : m = N - i
    OBVIOUS
  <2>4. \A j \in P : j <= i
    <3>1. \A j \in P : N - i <= N - j
      BY <2>2, <2>3
    <3>. HIDE DEF P
    <3>. QED  BY <1>2, <1>4, <3>1
  <2>5. k \in P /\ \A j \in P : j <= k
    <3>. HIDE DEF P, T
    <3>. QED  BY <2>4
  <2>6. Place(a) = Chain[k]
    BY <1>6 DEF Place
  <2>. HIDE DEF k
  <2>7. ASSUME NEW f \in F
        PROVE  f >= a \/ f <= Chain[k]
    <3>1. PICK j \in Links : Chain[j] = f
      BY <1>1
    <3>2. CASE f < a
      <4>1. j \in P /\ j <= k
        BY <1>3, <2>5, <3>1, <3>2
      <4>2. k \in Links /\ k \in Nat /\ j \in Nat /\ Chain[k] \in F
        BY <1>2, <1>4, <2>5
      <4>. QED  BY <1>1, <1>2, <3>1, <4>1, <4>2
    <3>. QED  BY <1>2, <3>2
  <2>. QED  BY <1>4, <2>5, <2>6, <2>7 DEF IsPrev
<1>. QED  BY <1>5, <1>6

(* What the table says of an address in use.                               *)
LEMMA Used ==
  ASSUME NEW F, IsList(F, fb_head, header),
         IsTable(FreeMemory(F, header), alloc_table),
         NEW a \in Block, alloc_table[a] # 0
  PROVE  /\ a \notin F
         /\ alloc_table[a] \in Nat /\ alloc_table[a] > 0
         /\ a + alloc_table[a] <= N + 1
         /\ \A f \in F : a < f => a + alloc_table[a] <= f
         /\ \A f \in F : f < a => Ends(header, f) <= a
<1>. DEFINE n == alloc_table[a]
            G == FreeMemory(F, header)
<1>1. n \in Nat /\ n > 0 /\ a + n <= N + 1
  <2>1. n \in Nat /\ n # 0
    BY DEF IsTable
  <2>. QED  BY <2>1 DEF IsTable
<1>2. /\ a \in Nat /\ F \subseteq Block
      /\ \A f \in F : f \in Nat /\ Ends(header, f) \in Nat /\ f < Ends(header, f)
  <2>1. a \in Nat
    BY DEF Block
  <2>. QED  BY <2>1, ListFacts DEF Ends
<1>3. \A x \in Block : a <= x /\ x < a + n => x \notin G
  BY DEF IsTable
<1>4. ASSUME NEW f \in F
      PROVE  f \in G /\ f \in Block
  BY <1>2 DEF FreeMemory
<1>5. \A f \in F : ~(a <= f /\ f < a + n)
  BY <1>3, <1>4
<1>6. a \notin G
  BY <1>1, <1>2, <1>3
<1>7. \A f \in F : ~(f <= a /\ a < Ends(header, f))
  BY <1>6 DEF FreeMemory
<1>. HIDE DEF n
<1>8. a \notin F /\ \A f \in F : a < f => a + n <= f
  BY <1>1, <1>2, <1>5
<1>9. \A f \in F : f < a => Ends(header, f) <= a
  BY <1>2, <1>7
<1>. QED  BY <1>1, <1>8, <1>9 DEF n

LEMMA FreeKeeps ==
  ASSUME IInv, NEW a \in Block \cup {NULL, UNALIGNED}, MemFree(a)
  PROVE  IInv'
<1>. DEFINE inside == \E i \in Passed(a) : a < Chain[i] + header[Chain[i]].n_blocks
            p      == Place(a)
            g      == Insert(a, p)
            merged == MergeBlocks(g, a)
            last   == MergeBlocks(merged, merged[a].prev)
            head   == IF p = NULL THEN a ELSE fb_head
            n      == alloc_table[a]
<1>1. PICK F \in SUBSET Block :
        /\ IsList(F, fb_head, header)
        /\ \A b \in F : Apart(F, header, b)
        /\ IsTable(FreeMemory(F, header), alloc_table)
  BY DEF IInv
<1>2. ASSUME NEW code, Refuse(code)
      PROVE  IInv'
  BY <1>1, <1>2 DEF Refuse, IInv
<1>3. CASE a = NULL
  <2>1. Refuse(ADDRESS_IS_NULL)
    BY <1>3 DEF MemFree
  <2>. QED  BY <1>2, <2>1
<1>4. CASE a = UNALIGNED
  <2>1. Refuse(ADDRESS_IS_NOT_ALIGNED)
    BY <1>4, Addresses DEF MemFree
  <2>. QED  BY <1>2, <2>1
<1>5. CASE a \in Block /\ (alloc_table[a] = 0 \/ inside)
  <2>1. Refuse(ADDRESS_IS_NOT_USED)
    BY <1>5, Addresses DEF MemFree
  <2>. QED  BY <1>2, <2>1
<1>6. CASE a \in Block /\ ~(alloc_table[a] = 0 \/ inside)
  <2>. DEFINE A == F \cup {a}
  <2>1. /\ header' = last /\ fb_head' = head
        /\ alloc_table' = [alloc_table EXCEPT ![a] = 0]
    <3>1. a # NULL /\ a # UNALIGNED
      BY <1>6, Addresses
    <3>. QED  BY <1>6, <3>1 DEF MemFree, Place
  <2>. HIDE DEF p, inside
  <2>2. /\ a \in Block /\ a \notin F /\ n \in Nat /\ n > 0 /\ a + n <= N + 1
        /\ \A f \in F : a < f => a + n <= f
        /\ \A f \in F : f < a => Ends(header, f) <= a
    BY <1>1, <1>6, Used
  <2>3. IsPrev(F, a, p)
    BY <1>1, <2>2, PassedIsPrev DEF p
  <2>4. Inserts(F, a, p, g)
    BY <1>1, <2>2, <2>3, InsertKeeps
  <2>. HIDE DEF g, merged, last, head
  <2>5. /\ IsList(A, head, g) /\ g[a].prev = p /\ Ends(g, a) = a + n
        /\ \A f \in F : Ends(g, f) = Ends(header, f)
    BY <2>4 DEF Inserts, head
  <2>6. /\ a \in Nat /\ a \in A /\ \A f \in F : f \in Nat /\ f # a /\ f \in A
        /\ F \subseteq Block /\ NULL \notin A
    BY <1>1, <2>2, ListFacts, Addresses DEF Block
  <2>7. /\ p = NULL => \A f \in F : a <= f
        /\ p # NULL => p \in F /\ p \in Nat /\ p < a /\ \A f \in F : f < a => f <= p
    BY <2>3, <2>6, Neighbours
  <2>8. ASSUME NEW f \in F, f # p
        PROVE  Apart(A, g, f)
    <3>1. Apart(F, header, f) /\ Ends(g, f) = Ends(header, f) /\ Ends(header, f) \in Nat
      <4>1. Ends(header, f) \in Nat
        BY <1>1, <2>6, ListFacts DEF Ends
      <4>. QED  BY <1>1, <2>5, <4>1
    <3>2. f < a => Ends(header, f) < a
      <4>1. f < a => p # NULL /\ f < p
        BY <2>6, <2>7, <2>8
      <4>2. f < a => Ends(header, f) < p
        BY <2>7, <3>1, <4>1 DEF Apart
      <4>. QED  BY <2>6, <2>7, <3>1, <4>1, <4>2
    <3>3. \A c \in F : f < c => Ends(header, f) < c
      BY <3>1 DEF Apart
    <3>. QED  BY <3>1, <3>2, <3>3 DEF Apart
  <2>9. PICK R : MergesAt(a, A, R, head, g, merged)
    <3>1. \A f \in A : a < f => Apart(A, g, f)
      <4>1. \A f \in F : a < f => f # p
        BY <2>6, <2>7
      <4>. QED  BY <2>6, <2>8, <4>1
    <3>. HIDE DEF A
    <3>. QED  BY <2>5, <2>6, <3>1, MergeKeeps DEF merged
  <2>10. /\ R \subseteq A /\ a \in R /\ IsList(R, head, merged) /\ Apart(R, merged, a)
         /\ \A f \in A : f < a => f \in R
         /\ \A f \in R : f # a => Ends(merged, f) = Ends(g, f)
         /\ FreeMemory(R, merged) = FreeMemory(A, g)
         /\ merged[a].prev = p
    BY <2>5, <2>9 DEF MergesAt
  <2>11. ASSUME NEW f \in R, f # p
         PROVE  Apart(R, merged, f)
    <3>1. CASE f = a
      BY <2>10, <3>1
    <3>2. CASE f # a
      <4>1. f \in F
        BY <2>10, <3>2
      <4>2. Apart(A, g, f) /\ Ends(merged, f) = Ends(g, f)
        BY <2>8, <2>10, <2>11, <3>2, <4>1
      <4>. HIDE DEF A
      <4>. QED  BY <2>10, <4>2 DEF Apart
    <3>. QED  BY <3>1, <3>2
  <2>12. last = MergeBlocks(merged, p)
    BY <2>10 DEF last
  <2>13. \E S \in SUBSET Block :
            /\ IsList(S, head, last)
            /\ \A f \in S : Apart(S, last, f)
            /\ FreeMemory(S, last) = FreeMemory(A, g)
    <3>1. R \subseteq Block
      BY <2>2, <2>6, <2>10
    <3>2. CASE p = NULL
      <4>1. last = merged
        BY <2>12, <3>2 DEF MergeBlocks
      <4>2. \A f \in R : f # p
        BY <2>6, <2>10, <3>2
      <4>. HIDE DEF A
      <4>. QED  BY <2>10, <2>11, <3>1, <4>1, <4>2
    <3>3. CASE p # NULL
      <4>1. p \in R /\ p \in Nat
        BY <2>6, <2>7, <2>10, <3>3
      <4>2. \A f \in R : p < f => Apart(R, merged, f)
        BY <2>11, <4>1
      <4>3. PICK S : MergesAt(p, R, S, head, merged, last)
        BY <2>10, <2>12, <4>1, <4>2, MergeKeeps
      <4>4. /\ S \subseteq R /\ IsList(S, head, last) /\ Apart(S, last, p)
            /\ \A f \in S : f # p => Ends(last, f) = Ends(merged, f)
            /\ FreeMemory(S, last) = FreeMemory(R, merged)
        BY <4>3 DEF MergesAt
      <4>5. ASSUME NEW f \in S
            PROVE  Apart(S, last, f)
        <5>1. CASE f = p
          BY <4>4, <5>1
        <5>2. CASE f # p
          <6>1. Apart(R, merged, f) /\ Ends(last, f) = Ends(merged, f)
            BY <2>11, <4>4, <5>2
          <6>. QED  BY <4>4, <6>1 DEF Apart
        <5>. QED  BY <5>1, <5>2
      <4>. HIDE DEF A
      <4>. QED  BY <2>10, <3>1, <4>4, <4>5
    <3>. QED  BY <3>2, <3>3
  <2>14. FreeMemory(A, g) = FreeMemory(F, header) \cup {x \in Block : a <= x /\ x < a + n}
    <3>1. ASSUME NEW x \in Block
          PROVE  (\E f \in A : f <= x /\ x < Ends(g, f))
                 <=> (\E f \in F : f <= x /\ x < Ends(header, f)) \/ (a <= x /\ x < a + n)
      BY <2>5
    <3>. QED  BY <3>1 DEF FreeMemory
  <2>15. IsTable(FreeMemory(A, g), [alloc_table EXCEPT ![a] = 0])
    <3>1. FreeMemory(F, header) \in SUBSET Block
      BY DEF FreeMemory
    <3>. QED  BY <1>1, <2>2, <2>14, <3>1, TableTakesBack
  <2>16. PICK S \in SUBSET Block :
            /\ IsList(S, head, last)
            /\ \A f \in S : Apart(S, last, f)
            /\ FreeMemory(S, last) = FreeMemory(A, g)
    BY <2>13
  <2>17. /\ IsList(S, fb_head', header')
         /\ \A f \in S : Apart(S, header', f)
         /\ IsTable(FreeMemory(S, header'), alloc_table')
    BY <2>1, <2>15, <2>16
  <2>. QED  BY <2>17 DEF IInv
<1>. QED  BY <1>3, <1>4, <1>5, <1>6

-----------------------------------------------------------------------------
(* mem_alloc.                                                              *)

Wiped(h, b, n) == [c \in Block |-> IF c \in b..(b + n - 1) THEN DATA ELSE h[c]]

(* n blocks of the run at b are taken out of the list, M is what is left.  *)
Takes(F, b, n, M, head, h) ==
  /\ M \subseteq Block
  /\ IsList(M, head, h)
  /\ \A f \in M : Apart(M, h, f)
  /\ FreeMemory(M, h) = {x \in FreeMemory(F, header) : ~(b <= x /\ x < b + n)}

LEMMA TakesPart ==
  ASSUME NEW F, IsList(F, fb_head, header), \A f \in F : Apart(F, header, f),
         NEW b \in F, NEW n \in Nat, n < header[b].n_blocks
  PROVE  Takes(F, b, n, Moved(F, b, b + n), IF fb_head = b THEN b + n ELSE fb_head,
               Wiped(TakeFrom(b, n), b, n))
<1>. DEFINE new  == b + n
            k    == header[b].n_blocks - n
            x    == header[b].next
            p    == header[b].prev
            put  == [header EXCEPT ![new] = Header(x, p, k)]
            mid  == SetNext(put, p, new)
            g    == SetPrev(mid, x, new)
            h    == Wiped(g, b, n)
            M    == Moved(F, b, new)
            head == IF fb_head = b THEN new ELSE fb_head
<1>1. /\ F \subseteq Block /\ NULL \notin F
      /\ header = [c \in Block |-> header[c]]
      /\ IsNext(F, 0, fb_head)
      /\ N \in Nat /\ \A c \in F : c \in Nat /\ c > 0
      /\ \A c \in F : /\ IsHeader(header[c])
                      /\ header[c].n_blocks \in Nat /\ header[c].n_blocks > 0
                      /\ c + header[c].n_blocks <= N + 1
                      /\ \A f \in F : c < f => c + header[c].n_blocks <= f
                      /\ IsNext(F, c, header[c].next)
                      /\ IsPrev(F, c, header[c].prev)
  BY ListFacts
<1>2. /\ b \in Nat /\ b > 0 /\ k \in Nat /\ k > 0 /\ header[b].n_blocks \in Nat
      /\ b + header[b].n_blocks <= N + 1 /\ header[b].n_blocks = n + k
  <2>. DEFINE size == header[b].n_blocks
  <2>1. b \in Nat /\ b > 0 /\ size \in Nat /\ n < size /\ b + size <= N + 1
    BY <1>1
  <2>2. k = size - n
    OBVIOUS
  <2>. HIDE DEF size, k
  <2>3. k \in Nat /\ k > 0 /\ size = n + k
    BY <2>1, <2>2
  <2>. QED  BY <2>1, <2>3 DEF size
<1>3. TakeFrom(b, n) = g
  <2>1. HEADER_BLOCKS <= k
    BY <1>2 DEF HEADER_BLOCKS
  <2>. QED  BY <2>1 DEF TakeFrom
<1>. HIDE DEF k
<1>4. new \in Nat /\ b <= new /\ new + k <= N + 1 /\ new \in Block
  <2>1. b + (n + k) <= N + 1 /\ N \in Nat
    BY <1>1, <1>2
  <2>2. new \in Nat /\ b <= new /\ new + k <= N + 1
    BY <1>2, <2>1
  <2>3. new >= 1 /\ new <= N
    BY <1>2, <2>1, <2>2
  <2>. HIDE DEF new
  <2>. QED  BY <2>1, <2>2, <2>3 DEF Block
<1>5. \A f \in F : b < f => new < f /\ new + k < f
  <2>1. \A f \in F : b < f => b + header[b].n_blocks < f
    BY DEF Apart, Ends
  <2>. QED  BY <1>1, <1>2, <2>1
<1>6. \A f \in F : f # b => f # new /\ ~(b <= f /\ f < new) /\ (f < new => f < b)
  BY <1>1, <1>2, <1>4, <1>5
<1>7. put = [c \in Block |-> put[c]] /\ put[new] = Header(x, p, k)
      /\ \A c \in Block : c # new => put[c] = header[c]
  BY <1>1, <1>4
<1>8. IsNext(F, b, x) /\ IsPrev(F, b, p)
  BY <1>1
<1>9. new # p /\ new # x
  <2>. HIDE DEF x, p, new
  <2>1. p # NULL => p \in Nat /\ p < b
    BY <1>1, <1>2, <1>8, Neighbours
  <2>2. x # NULL => x \in F /\ b < x
    BY <1>1, <1>2, <1>8, Neighbours
  <2>3. new # NULL
    BY <1>4, Addresses
  <2>. QED  BY <1>2, <1>4, <1>5, <2>1, <2>2, <2>3
<1>. HIDE DEF put, new
<1>10. NextSet(put, mid, p, new)
  BY <1>7, SetNextSets
<1>11. PrevSet(mid, g, x, new)
  <2>1. mid = [c \in Block |-> mid[c]]
    BY <1>10 DEF NextSet
  <2>. HIDE DEF mid
  <2>. QED  BY <2>1, SetPrevSets
<1>. HIDE DEF mid, g
<1>12. h = [c \in Block |-> h[c]] /\ \A c \in Block : ~(b <= c /\ c < new) => h[c] = g[c]
  <2>1. \A c \in Block : c \in Nat
    BY DEF Block
  <2>2. \A c \in Block : c \in b..(b + n - 1) => b <= c /\ c < new
    BY <1>2, <2>1 DEF new
  <2>. QED  BY <2>2 DEF Wiped
<1>. HIDE DEF h
<1>13. ASSUME NEW f \in Block, IsHeader(put[f]), ~(b <= f /\ f < new)
       PROVE  /\ IsHeader(h[f])
              /\ h[f].next = IF f = p THEN new ELSE put[f].next
              /\ h[f].prev = IF f = x THEN new ELSE put[f].prev
              /\ h[f].n_blocks = put[f].n_blocks
  <2>1. h[f] = g[f]
    BY <1>12, <1>13
  <2>2. /\ IsHeader(g[f])
        /\ g[f].next = IF f = p THEN new ELSE put[f].next
        /\ g[f].prev = IF f = x THEN new ELSE put[f].prev
        /\ g[f].n_blocks = put[f].n_blocks
    BY <1>10, <1>11, <1>13 DEF PrevSet, NextSet
  <2>. QED  BY <2>1, <2>2
<1>14. IsHeader(h[new]) /\ h[new].next = x /\ h[new].prev = p /\ h[new].n_blocks = k
  <2>1. IsHeader(put[new]) /\ put[new].next = x /\ put[new].prev = p /\ put[new].n_blocks = k
    <3>. HIDE DEF x, p
    <3>. QED  BY <1>7, HeaderFields
  <2>2. ~(new < new)
    BY <1>4
  <2>. QED  BY <1>4, <1>9, <1>13, <2>1, <2>2
<1>15. ASSUME NEW f \in F, f # b
       PROVE  /\ IsHeader(h[f])
              /\ h[f].next = IF header[f].next = b THEN new ELSE header[f].next
              /\ h[f].prev = IF header[f].prev = b THEN new ELSE header[f].prev
              /\ h[f].n_blocks = header[f].n_blocks
  <2>1. f \in Block /\ put[f] = header[f] /\ IsHeader(header[f]) /\ ~(b <= f /\ f < new)
    BY <1>1, <1>6, <1>7, <1>15
  <2>2. header[f].next = b <=> f = p
    <3>1. IsNext(F, f, header[f].next)
      BY <1>1
    <3>2. header[f].next = b <=> p = f
      BY <1>1, <1>8, <3>1, BothWays
    <3>. QED  BY <3>2
  <2>3. header[f].prev = b <=> f = x
    <3>1. IsPrev(F, f, header[f].prev)
      BY <1>1
    <3>2. x = f <=> header[f].prev = b
      BY <1>1, <1>8, <3>1, BothWays
    <3>. QED  BY <3>2
  <2>. QED  BY <1>13, <2>1, <2>2, <2>3
<1>16. /\ \A f \in (F \ {b}) \cup {0} : \A z :
              IsNext(F, f, z) => IsNext(M, f, IF z = b THEN new ELSE z)
       /\ \A f \in F \ {b} : \A z :
              IsPrev(F, f, z) => IsPrev(M, f, IF z = b THEN new ELSE z)
       /\ \A z : IsNext(F, b, z) => IsNext(M, new, z)
       /\ \A z : IsPrev(F, b, z) => IsPrev(M, new, z)
  BY <1>1, <1>4, <1>5, NeighboursOfMoved
<1>17. /\ new \in M /\ \A f \in F : f # b => f \in M
       /\ \A f \in M : f = new \/ (f \in F /\ f # b /\ f # new)
  BY <1>6 DEF Moved
<1>18. ASSUME NEW f \in F, f # b
       PROVE  /\ h[f].n_blocks \in Nat /\ h[f].n_blocks > 0
              /\ f + h[f].n_blocks <= N + 1
              /\ \A c \in M : f < c => f + h[f].n_blocks < c
              /\ IsNext(M, f, h[f].next)
              /\ IsPrev(M, f, h[f].prev)
  <2>1. IsNext(M, f, h[f].next) /\ IsPrev(M, f, h[f].prev)
    BY <1>1, <1>15, <1>16, <1>18
  <2>2. \A c \in F : f < c => f + header[f].n_blocks < c
    BY DEF Apart, Ends
  <2>3. f < new => f + header[f].n_blocks < new
    BY <1>1, <1>2, <1>4, <1>6, <1>18, <2>2
  <2>. HIDE DEF M
  <2>. QED  BY <1>1, <1>15, <1>17, <1>18, <2>1, <2>2, <2>3
<1>19. /\ h[new].n_blocks \in Nat /\ h[new].n_blocks > 0
       /\ new + h[new].n_blocks <= N + 1
       /\ \A c \in M : new < c => new + h[new].n_blocks < c
       /\ IsNext(M, new, h[new].next)
       /\ IsPrev(M, new, h[new].prev)
  <2>1. \A c \in M : new < c => new + k < c
    <3>1. \A f \in F : new < f => b < f
      BY <1>1, <1>2, <1>4
    <3>2. ~(new < new)
      BY <1>4
    <3>. HIDE DEF M
    <3>. QED  BY <1>5, <1>17, <3>1, <3>2
  <2>. QED  BY <1>2, <1>4, <1>8, <1>14, <1>16, <2>1
<1>. HIDE DEF M
<1>20. IsList(M, head, h)
  <2>1. M \subseteq Block
    BY <1>1, <1>4, <1>17
  <2>2. IsNext(M, 0, head)
    BY <1>1, <1>16
  <2>3. \A f \in M : /\ IsHeader(h[f])
                     /\ h[f].n_blocks \in Nat /\ h[f].n_blocks > 0
                     /\ f + h[f].n_blocks <= N + 1
                     /\ \A c \in M : f < c => f + h[f].n_blocks <= c
                     /\ IsNext(M, f, h[f].next)
                     /\ IsPrev(M, f, h[f].prev)
    <3>1. \A f \in M : f \in Nat
      BY <1>1, <1>4, <1>17
    <3>2. ASSUME NEW f \in M
          PROVE  \A c \in M : f < c => f + h[f].n_blocks <= c
      <4>1. h[f].n_blocks \in Nat /\ \A c \in M : f < c => f + h[f].n_blocks < c
        BY <1>17, <1>18, <1>19
      <4>. QED  BY <3>1, <4>1
    <3>. QED  BY <1>14, <1>15, <1>17, <1>18, <1>19, <3>2
  <2>. HIDE DEF head
  <2>. QED  BY <1>12, <2>1, <2>2, <2>3, MakesList
<1>21. \A f \in M : Apart(M, h, f)
  BY <1>17, <1>18, <1>19 DEF Apart, Ends
<1>22. FreeMemory(M, h) = {z \in FreeMemory(F, header) : ~(b <= z /\ z < new)}
  <2>1. /\ \A f \in F : f # b => Ends(h, f) = Ends(header, f)
        /\ Ends(h, new) = new + k /\ Ends(header, b) = new + k
    BY <1>2, <1>14, <1>15 DEF Ends, new
  <2>2. ASSUME NEW z \in Block
        PROVE  (\E f \in M : f <= z /\ z < Ends(h, f))
               <=> (\E f \in F : f <= z /\ z < Ends(header, f)) /\ ~(b <= z /\ z < new)
    <3>1. z \in Nat
      BY DEF Block
    <3>2. ASSUME NEW f \in M, f <= z, z < Ends(h, f)
          PROVE  (\E c \in F : c <= z /\ z < Ends(header, c)) /\ ~(b <= z /\ z < new)
      <4>1. CASE f = new
        BY <1>2, <1>4, <2>1, <3>1, <3>2, <4>1
      <4>2. CASE f # new
        <5>1. f \in F /\ f # b /\ f \in Nat /\ z < Ends(header, f)
          BY <1>1, <1>17, <2>1, <3>2, <4>2
        <5>2. f < b => Ends(header, f) <= b
          BY <1>1, <5>1 DEF Ends
        <5>3. Ends(header, f) \in Nat
          BY <1>1, <5>1 DEF Ends
        <5>4. b < f => new < f
          BY <1>5, <5>1
        <5>5. ~(b <= z /\ z < new)
          BY <1>2, <1>4, <3>1, <3>2, <5>1, <5>2, <5>3, <5>4
        <5>. QED  BY <3>2, <5>1, <5>5
      <4>. QED  BY <4>1, <4>2
    <3>3. ASSUME NEW f \in F, f <= z, z < Ends(header, f), ~(b <= z /\ z < new)
          PROVE  \E c \in M : c <= z /\ z < Ends(h, c)
      <4>1. CASE f = b
        BY <1>4, <1>17, <2>1, <3>1, <3>3, <4>1
      <4>2. CASE f # b
        BY <1>17, <2>1, <3>3, <4>2
      <4>. QED  BY <4>1, <4>2
    <3>. QED  BY <3>2, <3>3
  <2>. QED  BY <2>2 DEF FreeMemory
<1>23. M \subseteq Block
  BY <1>1, <1>4, <1>17
<1>24. Takes(F, b, n, M, head, h)
  BY <1>20, <1>21, <1>22, <1>23 DEF Takes, new
<1>. QED  BY <1>3, <1>24 DEF M, h, new

LEMMA TakesWhole ==
  ASSUME NEW F, IsList(F, fb_head, header), \A f \in F : Apart(F, header, f),
         NEW b \in F, NEW n \in Nat, n = header[b].n_blocks
  PROVE  Takes(F, b, n, F \ {b}, IF fb_head = b THEN header[b].next ELSE fb_head,
               Wiped(TakeFrom(b, n), b, n))
<1>. DEFINE x    == header[b].next
            p    == header[b].prev
            mid  == SetNext(header, p, x)
            g    == SetPrev(mid, x, p)
            h    == Wiped(g, b, n)
            M    == F \ {b}
            head == IF fb_head = b THEN x ELSE fb_head
<1>1. /\ F \subseteq Block /\ NULL \notin F
      /\ header = [c \in Block |-> header[c]]
      /\ IsNext(F, 0, fb_head)
      /\ N \in Nat /\ \A c \in F : c \in Nat /\ c > 0
      /\ \A c \in F : /\ IsHeader(header[c])
                      /\ header[c].n_blocks \in Nat /\ header[c].n_blocks > 0
                      /\ c + header[c].n_blocks <= N + 1
                      /\ \A f \in F : c < f => c + header[c].n_blocks <= f
                      /\ IsNext(F, c, header[c].next)
                      /\ IsPrev(F, c, header[c].prev)
  BY ListFacts
<1>2. b \in Nat /\ b > 0 /\ b + n <= N + 1
  BY <1>1
<1>3. TakeFrom(b, n) = g
  <2>1. header[b].n_blocks - n = 0
    BY <1>1
  <2>2. ~(HEADER_BLOCKS <= header[b].n_blocks - n)
    BY <2>1 DEF HEADER_BLOCKS
  <2>. QED  BY <2>2 DEF TakeFrom
<1>4. \A f \in F : f # b => ~(b <= f /\ f < b + n)
  <2>1. \A f \in F : f \in Nat /\ (b < f => b + n <= f)
    BY <1>1
  <2>. QED  BY <1>2, <2>1
<1>5. IsNext(F, b, x) /\ IsPrev(F, b, p)
  BY <1>1
<1>6. NextSet(header, mid, p, x)
  BY <1>1, SetNextSets
<1>7. PrevSet(mid, g, x, p)
  <2>1. mid = [c \in Block |-> mid[c]]
    BY <1>6 DEF NextSet
  <2>. HIDE DEF mid
  <2>. QED  BY <2>1, SetPrevSets
<1>. HIDE DEF mid, g
<1>8. h = [c \in Block |-> h[c]] /\ \A c \in Block : ~(b <= c /\ c < b + n) => h[c] = g[c]
  <2>1. \A c \in Block : c \in Nat
    BY DEF Block
  <2>2. \A c \in Block : c \in b..(b + n - 1) => b <= c /\ c < b + n
    BY <1>2, <2>1
  <2>. QED  BY <2>2 DEF Wiped
<1>. HIDE DEF h
<1>9. ASSUME NEW f \in M
      PROVE  /\ IsHeader(h[f])
             /\ h[f].next = IF header[f].next = b THEN x ELSE header[f].next
             /\ h[f].prev = IF header[f].prev = b THEN p ELSE header[f].prev
             /\ h[f].n_blocks = header[f].n_blocks
  <2>1. f \in F /\ f # b /\ f \in Block /\ IsHeader(header[f]) /\ h[f] = g[f]
    BY <1>1, <1>4, <1>8
  <2>2. /\ IsHeader(g[f])
        /\ g[f].next = IF f = p THEN x ELSE header[f].next
        /\ g[f].prev = IF f = x THEN p ELSE header[f].prev
        /\ g[f].n_blocks = header[f].n_blocks
    BY <1>6, <1>7, <2>1 DEF PrevSet, NextSet
  <2>3. header[f].next = b <=> f = p
    <3>1. IsNext(F, f, header[f].next)
      BY <1>1, <2>1
    <3>2. header[f].next = b <=> p = f
      BY <1>1, <1>5, <2>1, <3>1, BothWays
    <3>. QED  BY <3>2
  <2>4. header[f].prev = b <=> f = x
    <3>1. IsPrev(F, f, header[f].prev)
      BY <1>1, <2>1
    <3>2. x = f <=> header[f].prev = b
      BY <1>1, <1>5, <2>1, <3>1, BothWays
    <3>. QED  BY <3>2
  <2>. QED  BY <2>1, <2>2, <2>3, <2>4
<1>10. /\ \A f \in M \cup {0} : \A z : IsNext(F, f, z) => IsNext(M, f, IF z = b THEN x ELSE z)
       /\ \A f \in M : \A z : IsPrev(F, f, z) => IsPrev(M, f, IF z = b THEN p ELSE z)
  <2>. HIDE DEF x, p
  <2>. QED  BY <1>1, <1>5, NeighboursOfRemoved
<1>11. \A f \in F : \A c \in F : f < c => f + header[f].n_blocks < c
  BY DEF Apart, Ends
<1>12. M \subseteq F /\ b \notin M /\ \A f \in F : f # b => f \in M
  OBVIOUS
<1>. HIDE DEF M
<1>13. IsList(M, head, h)
  <2>1. M \subseteq Block
    BY <1>1, <1>12
  <2>2. IsNext(M, 0, head)
    BY <1>1, <1>10
  <2>3. ASSUME NEW f \in M
        PROVE  /\ IsHeader(h[f])
               /\ h[f].n_blocks \in Nat /\ h[f].n_blocks > 0
               /\ f + h[f].n_blocks <= N + 1
               /\ \A c \in M : f < c => f + h[f].n_blocks <= c
               /\ IsNext(M, f, h[f].next)
               /\ IsPrev(M, f, h[f].prev)
    <3>1. f \in F /\ \A c \in M : c \in F
      BY <1>12
    <3>2. IsNext(M, f, h[f].next) /\ IsPrev(M, f, h[f].prev)
      BY <1>1, <1>9, <1>10, <3>1
    <3>. QED  BY <1>1, <1>9, <3>1, <3>2
  <2>. HIDE DEF head
  <2>. QED  BY <1>8, <2>1, <2>2, <2>3, MakesList
<1>14. \A f \in M : Ends(h, f) = Ends(header, f)
  BY <1>9 DEF Ends
<1>15. \A f \in M : Apart(M, h, f)
  BY <1>11, <1>12, <1>14 DEF Apart, Ends
<1>16. FreeMemory(M, h) = {z \in FreeMemory(F, header) : ~(b <= z /\ z < b + n)}
  <2>1. ASSUME NEW z \in Block
        PROVE  (\E f \in M : f <= z /\ z < Ends(h, f))
               <=> (\E f \in F : f <= z /\ z < Ends(header, f)) /\ ~(b <= z /\ z < b + n)
    <3>1. z \in Nat
      BY DEF Block
    <3>2. ASSUME NEW f \in M, f <= z, z < Ends(h, f)
          PROVE  (\E c \in F : c <= z /\ z < Ends(header, c)) /\ ~(b <= z /\ z < b + n)
      <4>1. /\ f \in F /\ f # b /\ f \in Nat /\ z < Ends(header, f)
            /\ Ends(header, f) \in Nat
        <5>1. f \in F /\ f # b
          BY <1>12
        <5>2. z < Ends(header, f)
          BY <1>14, <3>2
        <5>. QED  BY SMTT(40), <1>1, <5>1, <5>2 DEF Ends
      <4>2. (f < b => Ends(header, f) <= b) /\ (b < f => b + n <= f)
        BY <1>1, <4>1 DEF Ends
      <4>3. ~(b <= z /\ z < b + n)
        BY <1>2, <3>1, <3>2, <4>1, <4>2
      <4>. QED  BY <3>2, <4>1, <4>3
    <3>3. ASSUME NEW f \in F, f <= z, z < Ends(header, f), ~(b <= z /\ z < b + n)
          PROVE  \E c \in M : c <= z /\ z < Ends(h, c)
      <4>1. f # b
        BY <3>3 DEF Ends
      <4>. QED  BY <1>12, <1>14, <3>3, <4>1
    <3>. QED  BY <3>2, <3>3
  <2>. QED  BY <2>1 DEF FreeMemory
<1>17. Takes(F, b, n, M, head, h)
  <2>1. M \subseteq Block
    BY <1>1, <1>12
  <2>. HIDE DEF head
  <2>. QED  BY <1>13, <1>15, <1>16, <2>1 DEF Takes
<1>. QED  BY <1>3, <1>17 DEF M, h

(* to_blocks returns a number of blocks, whatever is cut.                  *)
LEMMA ToBlocksIsNumber ==
  ASSUME NEW size \in Nat
  PROVE  ToBlocks(size) \in Nat
<1>. DEFINE sum == size + MEM_BLOCK_SIZE - 1
            cut == sum % SIZE_MOD
            blocks == cut \div MEM_BLOCK_SIZE
<1>1. /\ MEM_BLOCK_SIZE \in Nat \ {0}
      /\ SIZE_MOD \in Nat \ {0} /\ BLOCKS_MOD \in Nat \ {0}
  BY MemoryAssumption
<1>2. sum \in Nat
  BY <1>1
<1>3. \A i \in Nat, m \in Nat \ {0} : i % m \in Nat
  OBVIOUS
<1>4. cut \in Nat
  <2>. HIDE DEF sum
  <2>. QED  BY <1>1, <1>2, <1>3
<1>5. blocks \in Nat
  <2>. HIDE DEF cut
  <2>. QED  BY <1>1, <1>4, Division
<1>6. ToBlocks(size) = blocks % BLOCKS_MOD
  BY DEF ToBlocks
<1>. HIDE DEF blocks
<1>. QED  BY <1>1, <1>3, <1>5, <1>6

(* The best fit is one of the runs that fit.                               *)
LEMMA BestFitFits ==
  ASSUME NEW F, IsList(F, fb_head, header), NEW n \in Nat, Fitting(n) # {}
  PROVE  BestFit(n) \in Fitting(n)
<1>. DEFINE P    == Fitting(n)
            S(i) == header[Chain[i]].n_blocks
            Best(i) == \A j \in P : S(i) < S(j) \/ (S(i) = S(j) /\ i <= j)
<1>1. \A i \in P : i \in Nat /\ S(i) \in Nat
  <2>1. \A i \in P : i \in Links /\ i \in Nat
    BY Addresses DEF Fitting, Links
  <2>2. \A i \in Links : Chain[i] \in F
    BY ChainIsSorted
  <2>3. \A f \in F : header[f].n_blocks \in Nat
    BY ListFacts
  <2>. QED  BY <2>1, <2>2, <2>3
<1>2. BestFit(n) = CHOOSE i \in P : Best(i)
  BY DEF BestFit
<1>. HIDE DEF P, S
<1>. DEFINE T == {S(i) : i \in P}
<1>3. PICK m \in T : \A l \in T : m <= l
  <2>1. T # {} /\ T \subseteq Nat
    BY <1>1 DEF P
  <2>. HIDE DEF T
  <2>. QED  BY <2>1, LeastNumber
<1>4. PICK k \in P : m = S(k)
  OBVIOUS
<1>5. \A j \in P : S(k) <= S(j)
  BY <1>3, <1>4
<1>. DEFINE U == {i \in P : S(i) = m}
<1>6. PICK i \in U : \A j \in U : i <= j
  <2>1. U # {} /\ U \subseteq Nat
    BY <1>1, <1>4
  <2>. HIDE DEF U
  <2>. QED  BY <2>1, LeastNumber
<1>7. i \in P /\ Best(i)
  <2>1. i \in P /\ S(i) = S(k)
    BY <1>4
  <2>2. ASSUME NEW j \in P
        PROVE  S(i) < S(j) \/ (S(i) = S(j) /\ i <= j)
    <3>1. S(i) = S(j) => i <= j
      BY <1>4, <1>6, <2>1
    <3>. QED  BY <1>1, <1>5, <2>1, <3>1
  <2>. QED  BY <2>1, <2>2
<1>. HIDE DEF Best
<1>. QED  BY <1>2, <1>7 DEF P

LEMMA AllocKeeps ==
  ASSUME IInv, NEW size \in Nat, MemAlloc(size)
  PROVE  IInv'
<1>. DEFINE n     == ToBlocks(size)
            b     == Chain[BestFit(n)]
            left  == header[b].n_blocks - n
            head  == IF fb_head # b THEN fb_head
                     ELSE IF HEADER_BLOCKS <= left THEN b + n ELSE header[b].next
<1>1. PICK F \in SUBSET Block :
        /\ IsList(F, fb_head, header)
        /\ \A f \in F : Apart(F, header, f)
        /\ IsTable(FreeMemory(F, header), alloc_table)
  BY DEF IInv
<1>2. CASE Fitting(n) = {}
  <2>1. UNCHANGED <<fb_head, header, alloc_table>>
    BY <1>2 DEF MemAlloc
  <2>. QED  BY <1>1, <2>1 DEF IInv
<1>3. CASE Fitting(n) # {}
  <2>1. /\ header' = Wiped(TakeFrom(b, n), b, n)
        /\ fb_head' = head
        /\ alloc_table' = [alloc_table EXCEPT ![b] = n]
    BY <1>3 DEF MemAlloc, Wiped
  <2>2. n \in Nat
    BY ToBlocksIsNumber
  <2>. HIDE DEF n
  <2>3. BestFit(n) \in Fitting(n)
    BY <1>1, <1>3, <2>2, BestFitFits
  <2>4. b \in F /\ header[b].n_blocks >= n
    BY <1>1, <2>3, ChainIsSorted DEF Fitting
  <2>. HIDE DEF b
  <2>5. /\ header[b].n_blocks \in Nat /\ b \in Nat /\ N \in Nat
        /\ b + header[b].n_blocks <= N + 1 /\ F \subseteq Block
    BY <1>1, <2>4, ListFacts
  <2>6. \E M : Takes(F, b, n, M, head, header')
    <3>1. CASE n < header[b].n_blocks
      <4>1. HEADER_BLOCKS <= left
        <5>1. header[b].n_blocks - n >= 1
          BY <2>2, <2>5, <3>1
        <5>. QED  BY <5>1 DEF HEADER_BLOCKS
      <4>2. head = IF fb_head = b THEN b + n ELSE fb_head
        BY <4>1
      <4>. HIDE DEF head
      <4>. QED  BY <1>1, <2>1, <2>2, <2>4, <3>1, <4>2, TakesPart
    <3>2. CASE ~(n < header[b].n_blocks)
      <4>1. n = header[b].n_blocks
        BY <2>2, <2>4, <2>5, <3>2
      <4>2. ~(HEADER_BLOCKS <= left)
        <5>1. left = 0
          BY <2>2, <4>1
        <5>. QED  BY <5>1 DEF HEADER_BLOCKS
      <4>3. head = IF fb_head = b THEN header[b].next ELSE fb_head
        BY <4>2
      <4>. HIDE DEF head
      <4>. QED  BY <1>1, <2>1, <2>2, <2>4, <4>1, <4>3, TakesWhole
    <3>. QED  BY <3>1, <3>2
  <2>. HIDE DEF head
  <2>7. PICK M : Takes(F, b, n, M, head, header')
    BY <2>6
  <2>8. /\ M \in SUBSET Block /\ IsList(M, fb_head', header')
        /\ \A f \in M : Apart(M, header', f)
        /\ FreeMemory(M, header') = {x \in FreeMemory(F, header) : ~(b <= x /\ x < b + n)}
    BY <2>1, <2>7 DEF Takes
  <2>9. IsTable(FreeMemory(M, header'), alloc_table')
    <3>1. FreeMemory(F, header) \in SUBSET Block
      BY DEF FreeMemory
    <3>2. \A x \in Block : b <= x /\ x < b + n => x \in FreeMemory(F, header)
      <4>1. ASSUME NEW x \in Block, b <= x, x < b + n
            PROVE  x < Ends(header, b)
        <5>1. x \in Nat
          BY DEF Block
        <5>. QED  BY <2>2, <2>4, <2>5, <4>1, <5>1 DEF Ends
      <4>. QED  BY <2>4, <4>1 DEF FreeMemory
    <3>3. b \in FreeMemory(F, header)
      <4>1. b <= b /\ b < Ends(header, b) /\ b \in Block
        <5>1. header[b].n_blocks > 0
          BY <1>1, <2>4, ListFacts
        <5>. QED  BY <2>4, <2>5, <5>1 DEF Ends
      <4>. QED  BY <2>4, <4>1 DEF FreeMemory
    <3>4. b + n <= N + 1
      BY <2>2, <2>4, <2>5
    <3>. QED  BY <1>1, <2>1, <2>2, <2>8, <3>1, <3>2, <3>3, <3>4, TableGives
  <2>. QED  BY <2>8, <2>9 DEF IInv
<1>. QED  BY <1>2, <1>3

-----------------------------------------------------------------------------
LEMMA InitSound == Init => IInv
<1>. SUFFICES ASSUME Init PROVE IInv
  OBVIOUS
<1>1. N \in Nat /\ N > 0 /\ 1 \in Block /\ NULL # 1
  BY Addresses DEF Block
<1>2. fb_head = 1 /\ header = [b \in Block |-> header[b]]
      /\ header[1] = Header(NULL, NULL, N) /\ alloc_table = [b \in Block |-> 0]
  BY <1>1 DEF Init
<1>3. /\ IsHeader(header[1]) /\ header[1].next = NULL /\ header[1].prev = NULL
      /\ header[1].n_blocks = N
  BY <1>2, HeaderFields
<1>4. IsList({1}, fb_head, header)
  <2>1. IsNext({1}, 0, fb_head) /\ IsNext({1}, 1, NULL) /\ IsPrev({1}, 1, NULL)
    BY <1>2 DEF IsNext, IsPrev
  <2>2. {1} \subseteq Block
    BY <1>1
  <2>3. \A b \in {1} : /\ IsHeader(header[b])
                       /\ header[b].n_blocks \in Nat /\ header[b].n_blocks > 0
                       /\ b + header[b].n_blocks <= N + 1
                       /\ \A f \in {1} : b < f => b + header[b].n_blocks <= f
                       /\ IsNext({1}, b, header[b].next)
                       /\ IsPrev({1}, b, header[b].prev)
    BY <1>1, <1>3, <2>1
  <2>. QED  BY <1>2, <2>1, <2>2, <2>3, MakesList
<1>5. \A b \in {1} : Apart({1}, header, b)
  BY DEF Apart
<1>6. FreeMemory({1}, header) = Block
  <2>1. Ends(header, 1) = N + 1
    BY <1>1, <1>3 DEF Ends
  <2>2. \A x \in Block : 1 <= x /\ x < N + 1
    BY <1>1 DEF Block
  <2>. QED  BY <2>1, <2>2 DEF FreeMemory
<1>7. IsTable(Block, alloc_table)
  <2>1. \A x \in Block : x \in Nat /\ x <= N
    BY <1>1 DEF Block
  <2>. QED  BY <1>1, <1>2, <2>1 DEF IsTable
<1>. QED  BY <1>1, <1>4, <1>5, <1>6, <1>7 DEF IInv

LEMMA NextSound == IInv /\ [Next]_vars => IInv'
<1>. SUFFICES ASSUME IInv, [Next]_vars PROVE IInv'
  OBVIOUS
<1>1. ASSUME NEW size \in Sizes, MemAlloc(size)
      PROVE  IInv'
  <2>1. size \in Nat
    BY MemoryAssumption
  <2>. QED  BY <1>1, <2>1, AllocKeeps
<1>2. ASSUME NEW address \in Block \cup {NULL, UNALIGNED}, MemFree(address)
      PROVE  IInv'
  BY <1>2, FreeKeeps
<1>3. CASE UNCHANGED vars
  BY <1>3 DEF IInv, vars
<1>. QED  BY <1>1, <1>2, <1>3 DEF Next

LEMMA Sound == Spec => []IInv
  BY InitSound, NextSound, PTL DEF Spec

(* The list of free runs stays sorted, linked both ways and merged under   *)
(* mem_alloc and mem_free, in a heap of any size, for requests of any      *)
(* sizes, those that are cut by overflow and those of no bytes included.   *)
THEOREM FreeListStaysSound == Spec => []FreeListSound
<1>1. IInv => FreeListSound
  BY ListIsSound
<1>. QED  BY <1>1, Sound, PTL

(* No block is lost, or given out by mem_alloc while it is in use.         *)
THEOREM BlocksGivenOnce == Spec => []EveryBlockOnce
<1>1. IInv => EveryBlockOnce
  BY BlocksOnce
<1>. QED  BY <1>1, Sound, PTL

-----------------------------------------------------------------------------
(* What the calls answer, and the promise of Heap.                         *)

(* No request is of no bytes, and none is cut by a width.                  *)
NothingCut ==
  \A size \in Sizes :
    /\ size > 0
    /\ size + MEM_BLOCK_SIZE - 1 < SIZE_MOD
    /\ (size + MEM_BLOCK_SIZE - 1) \div MEM_BLOCK_SIZE < BLOCKS_MOD

(* Then to_blocks is the rounding of Heap.                                 *)
LEMMA ToBlocksRounds ==
  ASSUME NothingCut, NEW size \in Sizes
  PROVE  /\ size \in Nat
         /\ ToBlocks(size) = (size + MEM_BLOCK_SIZE - 1) \div MEM_BLOCK_SIZE
         /\ ToBlocks(size) \in Nat /\ ToBlocks(size) > 0
         /\ size <= ToBlocks(size) * MEM_BLOCK_SIZE
<1>. DEFINE sum    == size + MEM_BLOCK_SIZE - 1
            blocks == sum \div MEM_BLOCK_SIZE
            n      == ToBlocks(size)
<1>1. /\ MEM_BLOCK_SIZE \in Nat \ {0} /\ SIZE_MOD \in Nat \ {0}
      /\ BLOCKS_MOD \in Nat \ {0} /\ size \in Nat /\ size > 0
      /\ sum < SIZE_MOD /\ blocks < BLOCKS_MOD
  BY MemoryAssumption DEF NothingCut
<1>2. sum \in Nat
  BY <1>1
<1>3. blocks \in Nat
  BY <1>1, <1>2, Division
<1>4. n = blocks
  <2>1. sum % SIZE_MOD = sum
    BY <1>1, <1>2, SmallModulo
  <2>2. blocks % BLOCKS_MOD = blocks
    BY <1>1, <1>3, SmallModulo
  <2>. QED  BY <2>1, <2>2 DEF ToBlocks
<1>5. n \in Nat /\ size <= n * MEM_BLOCK_SIZE
  BY <1>1, ToBlocksHold
<1>6. n # 0
  <2>1. n = 0 => n * MEM_BLOCK_SIZE = 0
    BY <1>1
  <2>. HIDE DEF n
  <2>. QED  BY <1>1, <1>5, <2>1
<1>. QED  BY <1>1, <1>4, <1>5, <1>6

(* The blocks of which the table says nothing.                             *)
Unused(t) == {x \in Block : \A a \in Block : ~(a <= x /\ x < a + t[a])}

LEMMA FreeIsUnused ==
  ASSUME NEW G \in SUBSET Block, NEW t, IsTable(G, t)
  PROVE  G = Unused(t)
BY DEF IsTable, Unused

(* n blocks in a row are free only within one run.                         *)
LEMMA FreeInOneRun ==
  ASSUME NEW F, IsList(F, fb_head, header), \A f \in F : Apart(F, header, f),
         NEW n \in Nat \ {0}, NEW a \in Block,
         \A x \in a..(a + n - 1) : x \in FreeMemory(F, header)
  PROVE  \E f \in F : header[f].n_blocks >= n
<1>1. a \in Nat /\ a \in a..(a + n - 1)
  BY DEF Block
<1>2. \A f \in F : /\ f \in Nat /\ header[f].n_blocks \in Nat
                   /\ Ends(header, f) = f + header[f].n_blocks
                   /\ \A c \in F : f < c => f + header[f].n_blocks <= c
  BY ListFacts DEF Ends
<1>3. PICK f \in F : f <= a /\ a < Ends(header, f)
  <2>1. a \in FreeMemory(F, header)
    BY <1>1
  <2>. QED  BY <2>1 DEF FreeMemory
<1>. DEFINE e == f + header[f].n_blocks
<1>4. f \in Nat /\ header[f].n_blocks \in Nat /\ e \in Nat /\ Ends(header, f) = e
  BY <1>2
<1>. SUFFICES ASSUME ~(header[f].n_blocks >= n)
              PROVE  FALSE
  OBVIOUS
<1>5. e \in a..(a + n - 1)
  <2>. DEFINE m == header[f].n_blocks
  <2>1. m \in Nat /\ ~(m >= n) /\ a < f + m /\ e = f + m
    BY <1>3, <1>4
  <2>. HIDE DEF m, e
  <2>. QED  BY <1>1, <1>3, <1>4, <2>1
<1>6. PICK g \in F : g <= e /\ e < Ends(header, g)
  <2>1. e \in FreeMemory(F, header)
    BY <1>5
  <2>. QED  BY <2>1 DEF FreeMemory
<1>7. g \in Nat /\ header[g].n_blocks \in Nat /\ Ends(header, g) = g + header[g].n_blocks
  BY <1>2
<1>8. (g < f => Ends(header, g) <= f) /\ (f < g => e < g)
  <2>1. f < g => e < g
    BY <1>4 DEF Apart
  <2>. QED  BY <1>2, <2>1
<1>9. f <= e
  <2>. HIDE DEF e
  <2>. QED  BY <1>1, <1>3, <1>4
<1>10. Ends(header, g) \in Nat
  BY <1>7
<1>. HIDE DEF e
<1>. QED  BY <1>4, <1>6, <1>7, <1>8, <1>9, <1>10

LEMMA AllocAnswers ==
  ASSUME IInv, NEW size \in Nat, MemAlloc(size), NEW n \in Nat \ {0}, n = ToBlocks(size)
  PROVE  \/ /\ a0' = NULL /\ UNCHANGED alloc_table
            /\ \A a \in Block : ~(a..(a + n - 1) \subseteq Unused(alloc_table))
         \/ \E b \in Block : /\ a0' = b
                             /\ alloc_table[b] = 0
                             /\ alloc_table' = [alloc_table EXCEPT ![b] = n]
                             /\ b..(b + n - 1) \subseteq Unused(alloc_table)
<1>1. PICK F \in SUBSET Block :
        /\ IsList(F, fb_head, header)
        /\ \A f \in F : Apart(F, header, f)
        /\ IsTable(FreeMemory(F, header), alloc_table)
  BY DEF IInv
<1>2. FreeMemory(F, header) = Unused(alloc_table)
  <2>1. FreeMemory(F, header) \in SUBSET Block
    BY DEF FreeMemory
  <2>. QED  BY <1>1, <2>1, FreeIsUnused
<1>3. CASE Fitting(n) = {}
  <2>1. a0' = NULL /\ UNCHANGED alloc_table
    BY <1>3 DEF MemAlloc
  <2>2. ASSUME NEW a \in Block, a..(a + n - 1) \subseteq Unused(alloc_table)
        PROVE  FALSE
    <3>1. PICK f \in F : header[f].n_blocks >= n
      BY <1>1, <1>2, <2>2, FreeInOneRun
    <3>2. PICK i \in Links : Chain[i] = f
      BY <1>1, ChainIsSorted
    <3>3. i \in Fitting(n)
      BY <3>1, <3>2 DEF Fitting
    <3>. QED  BY <1>3, <3>3
  <2>. QED  BY <2>1, <2>2
<1>4. CASE Fitting(n) # {}
  <2>. DEFINE b == Chain[BestFit(n)]
  <2>1. a0' = b /\ alloc_table' = [alloc_table EXCEPT ![b] = n]
    BY <1>4 DEF MemAlloc
  <2>2. BestFit(n) \in Fitting(n)
    BY <1>1, <1>4, BestFitFits
  <2>3. b \in F /\ header[b].n_blocks >= n
    BY <1>1, <2>2, ChainIsSorted DEF Fitting
  <2>. HIDE DEF b
  <2>4. /\ header[b].n_blocks \in Nat /\ header[b].n_blocks > 0 /\ b \in Nat /\ b > 0
        /\ N \in Nat /\ b + header[b].n_blocks <= N + 1 /\ b \in Block
    BY <1>1, <2>3, ListFacts
  <2>5. b..(b + n - 1) \subseteq FreeMemory(F, header)
    <3>. SUFFICES ASSUME NEW x \in b..(b + n - 1) PROVE x \in FreeMemory(F, header)
      OBVIOUS
    <3>. DEFINE m == header[b].n_blocks
    <3>1. m \in Nat /\ m >= n /\ b + m <= N + 1
      BY <2>3, <2>4
    <3>2. Ends(header, b) = b + m
      BY DEF Ends
    <3>. HIDE DEF m
    <3>3. x \in Block /\ b <= x /\ x < b + m
      BY <2>4, <3>1 DEF Block
    <3>. QED  BY <2>3, <3>2, <3>3 DEF FreeMemory
  <2>6. alloc_table[b] = 0
    <3>1. b \in b..(b + n - 1)
      BY <2>4
    <3>2. b \in FreeMemory(F, header)
      BY <2>5, <3>1
    <3>3. alloc_table[b] \in Nat /\ ~(b <= b /\ b < b + alloc_table[b])
      BY <1>1, <2>4, <3>2 DEF IsTable
    <3>. QED  BY <2>4, <3>3
  <2>. QED  BY <1>2, <2>1, <2>4, <2>5, <2>6
<1>. QED  BY <1>3, <1>4

LEMMA FreeAnswers ==
  ASSUME IInv, NEW a \in Block \cup {NULL, UNALIGNED}, MemFree(a)
  PROVE  \/ /\ a \in Block /\ alloc_table[a] # 0 /\ a0' = 0
            /\ alloc_table' = [alloc_table EXCEPT ![a] = 0]
         \/ /\ a \in Block => alloc_table[a] = 0
            /\ a0' \in {ADDRESS_IS_NULL, ADDRESS_IS_NOT_ALIGNED, ADDRESS_IS_NOT_USED}
            /\ UNCHANGED alloc_table
<1>1. PICK F \in SUBSET Block :
        /\ IsList(F, fb_head, header)
        /\ \A f \in F : Apart(F, header, f)
        /\ IsTable(FreeMemory(F, header), alloc_table)
  BY DEF IInv
<1>2. CASE a = NULL
  <2>1. Refuse(ADDRESS_IS_NULL)
    BY <1>2 DEF MemFree
  <2>. QED  BY <1>2, <2>1, Addresses DEF Refuse
<1>3. CASE a = UNALIGNED
  <2>1. Refuse(ADDRESS_IS_NOT_ALIGNED)
    BY <1>3, Addresses DEF MemFree
  <2>. QED  BY <1>3, <2>1, Addresses DEF Refuse
<1>4. CASE a \in Block /\ alloc_table[a] = 0
  <2>1. Refuse(ADDRESS_IS_NOT_USED)
    BY <1>4, Addresses DEF MemFree
  <2>. QED  BY <1>4, <2>1 DEF Refuse
<1>5. CASE a \in Block /\ alloc_table[a] # 0
  <2>1. ~ \E i \in Passed(a) : a < Chain[i] + header[Chain[i]].n_blocks
    <3>. SUFFICES ASSUME NEW i \in Passed(a), a < Chain[i] + header[Chain[i]].n_blocks
                  PROVE  FALSE
      OBVIOUS
    <3>1. i \in Links /\ Chain[i] \in F /\ i \in 1..i
      <4>1. i \in Links /\ i \in 1..N /\ N \in Nat
        BY Addresses DEF Passed, Links
      <4>. QED  BY <1>1, <4>1, ChainIsSorted
    <3>2. a >= Chain[i]
      BY <3>1 DEF Passed
    <3>. DEFINE f == Chain[i]
    <3>3. /\ f \in F /\ a >= f /\ a < f + header[f].n_blocks
          /\ f \in Nat /\ header[f].n_blocks \in Nat /\ a \in Nat
      BY <1>1, <1>5, <3>1, <3>2, ListFacts DEF Block
    <3>. HIDE DEF f
    <3>4. a \notin F /\ (f < a => f + header[f].n_blocks <= a)
      BY <1>1, <1>5, <3>3, Used DEF Ends
    <3>. QED  BY <3>3, <3>4
  <2>2. a # NULL /\ a # UNALIGNED
    BY <1>5, Addresses
  <2>3. a0' = MEM_SUCCESS /\ alloc_table' = [alloc_table EXCEPT ![a] = 0]
    BY <1>5, <2>1, <2>2 DEF MemFree
  <2>. QED  BY <1>5, <2>3 DEF MEM_SUCCESS
<1>. QED  BY <1>2, <1>3, <1>4, <1>5

(* What the table says as the set of allocations Heap keeps.               *)
Allocations(t) == {[address |-> a, blocks |-> t[a]] : a \in {b \in Block : t[b] > 0}}

LEMMA HeapFreeBlocks ==
  ASSUME alloc_table \in [Block -> Nat]
  PROVE  Promised!FreeBlocks = Unused(alloc_table)
<1>. DEFINE t == alloc_table
            run(a) == a..(a + t[a] - 1)
<1>1. \A a, x \in Block : x \in run(a) <=> a <= x /\ x < a + t[a]
  <2>1. \A a \in Block : a \in Nat /\ t[a] \in Nat
    BY DEF Block
  <2>. QED  BY <2>1
<1>2. ASSUME NEW x \in Block
      PROVE  (\A u \in Allocations(t) : x \notin u.address..(u.address + u.blocks - 1))
             <=> \A a \in Block : ~(a <= x /\ x < a + t[a])
  <2>1. ASSUME \A u \in Allocations(t) : x \notin u.address..(u.address + u.blocks - 1),
               NEW a \in Block, a <= x, x < a + t[a]
        PROVE  FALSE
    <3>. DEFINE u == [address |-> a, blocks |-> t[a]]
    <3>1. t[a] > 0
      <4>1. a \in Nat /\ x \in Nat /\ t[a] \in Nat
        BY DEF Block
      <4>. QED  BY <2>1, <4>1
    <3>2. u \in Allocations(t) /\ u.address = a /\ u.blocks = t[a]
      BY <3>1 DEF Allocations
    <3>. HIDE DEF u
    <3>3. x \notin run(a)
      BY <2>1, <3>2
    <3>. QED  BY <1>1, <2>1, <3>3
  <2>2. ASSUME \A a \in Block : ~(a <= x /\ x < a + t[a]),
               NEW u \in Allocations(t)
        PROVE  x \notin u.address..(u.address + u.blocks - 1)
    <3>1. PICK a \in Block : u = [address |-> a, blocks |-> t[a]]
      BY DEF Allocations
    <3>2. u.address = a /\ u.blocks = t[a]
      BY <3>1
    <3>3. x \notin run(a)
      BY <1>1, <2>2
    <3>. QED  BY <3>2, <3>3
  <2>. QED  BY <2>1, <2>2
<1>3. Promised!FreeBlocks =
        {x \in Block : \A u \in Allocations(t) : x \notin u.address..(u.address + u.blocks - 1)}
  BY DEF Promised!FreeBlocks, Promised!Run, Allocations
<1>. QED  BY <1>2, <1>3 DEF Unused

(* The set changes as the table does.                                      *)
LEMMA AllocationAdded ==
  ASSUME NEW t \in [Block -> Nat], NEW b \in Block, t[b] = 0, NEW n \in Nat \ {0}
  PROVE  Allocations([t EXCEPT ![b] = n])
           = Allocations(t) \cup {[address |-> b, blocks |-> n]}
<1>. DEFINE u == [t EXCEPT ![b] = n]
            new == [address |-> b, blocks |-> n]
<1>1. u[b] = n /\ \A a \in Block : a # b => u[a] = t[a]
  OBVIOUS
<1>. HIDE DEF u
<1>2. ASSUME NEW x \in Allocations(u)
      PROVE  x \in Allocations(t) \cup {new}
  <2>1. PICK a \in Block : u[a] > 0 /\ x = [address |-> a, blocks |-> u[a]]
    BY DEF Allocations
  <2>2. CASE a = b
    BY <1>1, <2>1, <2>2
  <2>3. CASE a # b
    BY <1>1, <2>1, <2>3 DEF Allocations
  <2>. QED  BY <2>2, <2>3
<1>3. new \in Allocations(u)
  <2>1. u[b] > 0 /\ new = [address |-> b, blocks |-> u[b]]
    BY <1>1
  <2>. HIDE DEF new
  <2>. QED  BY <2>1 DEF Allocations
<1>4. ASSUME NEW x \in Allocations(t)
      PROVE  x \in Allocations(u)
  <2>1. PICK a \in Block : t[a] > 0 /\ x = [address |-> a, blocks |-> t[a]]
    BY DEF Allocations
  <2>2. a # b /\ u[a] = t[a]
    BY <1>1, <2>1
  <2>. QED  BY <2>1, <2>2 DEF Allocations
<1>. HIDE DEF new
<1>5. Allocations(u) = Allocations(t) \cup {new}
  BY <1>2, <1>3, <1>4
<1>. QED  BY <1>5 DEF u, new

LEMMA AllocationRemoved ==
  ASSUME NEW t \in [Block -> Nat], NEW b \in Block, t[b] > 0
  PROVE  Allocations([t EXCEPT ![b] = 0])
           = Allocations(t) \ {[address |-> b, blocks |-> t[b]]}
<1>. DEFINE u == [t EXCEPT ![b] = 0]
            old == [address |-> b, blocks |-> t[b]]
<1>1. u[b] = 0 /\ \A a \in Block : a # b => u[a] = t[a]
  OBVIOUS
<1>. HIDE DEF u
<1>2. ASSUME NEW x \in Allocations(u)
      PROVE  x \in Allocations(t) /\ x # old
  <2>1. PICK a \in Block : u[a] > 0 /\ x = [address |-> a, blocks |-> u[a]]
    BY DEF Allocations
  <2>2. a # b /\ u[a] = t[a]
    BY <1>1, <2>1
  <2>3. x.address = a /\ old.address = b
    BY <2>1
  <2>. QED  BY <2>1, <2>2, <2>3 DEF Allocations
<1>3. ASSUME NEW x \in Allocations(t), x # old
      PROVE  x \in Allocations(u)
  <2>1. PICK a \in Block : t[a] > 0 /\ x = [address |-> a, blocks |-> t[a]]
    BY DEF Allocations
  <2>2. a # b /\ u[a] = t[a]
    BY <1>1, <1>3, <2>1
  <2>. QED  BY <2>1, <2>2 DEF Allocations
<1>. HIDE DEF old
<1>4. Allocations(u) = Allocations(t) \ {old}
  BY <1>2, <1>3
<1>. QED  BY <1>4 DEF u, old

(* An answer of mem_alloc is a step of Heap.                               *)
LEMMA AllocPromised ==
  ASSUME NothingCut, IInv, NEW size \in Sizes, Request(size)
  PROVE  Promised!Next
<1>. DEFINE n == ToBlocks(size)
            t == alloc_table
<1>1. size \in Nat /\ n \in Nat \ {0} /\ Promised!Rounded(size) = n
  BY ToBlocksRounds DEF Promised!Rounded
<1>2. MemAlloc(size) /\ asked' = size
  BY DEF Request
<1>3. t \in [Block -> Nat]
  BY DEF IInv, IsTable
<1>4. Promised!FreeBlocks = Unused(t)
  BY <1>3, HeapFreeBlocks
<1>. HIDE DEF n
<1>5. \/ /\ a0' = NULL /\ UNCHANGED alloc_table
         /\ \A a \in Block : ~(a..(a + n - 1) \subseteq Unused(t))
      \/ \E b \in Block : /\ a0' = b
                          /\ t[b] = 0
                          /\ alloc_table' = [t EXCEPT ![b] = n]
                          /\ b..(b + n - 1) \subseteq Unused(t)
  BY <1>1, <1>2, AllocAnswers DEF n
<1>6. ASSUME a0' = NULL, UNCHANGED alloc_table,
             \A a \in Block : ~(a..(a + n - 1) \subseteq Unused(t))
      PROVE  Promised!Alloc(size)
  <2>1. \A a \in Block : ~(Promised!Run(a, n) \subseteq Promised!FreeBlocks)
    BY <1>4, <1>6 DEF Promised!Run
  <2>. QED  BY <1>1, <1>2, <1>6, <2>1 DEF Promised!Alloc
<1>7. ASSUME NEW b \in Block, a0' = b, t[b] = 0, alloc_table' = [t EXCEPT ![b] = n],
             b..(b + n - 1) \subseteq Unused(t)
      PROVE  Promised!Alloc(size)
  <2>1. Promised!Run(b, n) \subseteq Promised!FreeBlocks
    BY <1>4, <1>7 DEF Promised!Run
  <2>2. Allocations(alloc_table') = Allocations(t) \cup {[address |-> b, blocks |-> n]}
    BY <1>1, <1>3, <1>7, AllocationAdded
  <2>. QED  BY <1>1, <1>2, <1>7, <2>1, <2>2 DEF Promised!Alloc, Allocations
<1>8. Promised!Alloc(size)
  BY <1>5, <1>6, <1>7
<1>. QED  BY <1>8 DEF Promised!Next

(* And so is an answer of mem_free, of an address held or not.             *)
LEMMA FreePromised ==
  ASSUME IInv, NEW a \in Block \cup {NULL, UNALIGNED}, MemFree(a), asked' = NULL
  PROVE  Promised!Next
<1>. DEFINE t == alloc_table
            codes == {ADDRESS_IS_NULL, ADDRESS_IS_NOT_ALIGNED, ADDRESS_IS_NOT_USED}
<1>1. t \in [Block -> Nat]
  BY DEF IInv, IsTable
<1>2. \/ /\ a \in Block /\ t[a] # 0 /\ a0' = 0
         /\ alloc_table' = [t EXCEPT ![a] = 0]
      \/ /\ a \in Block => t[a] = 0
         /\ a0' \in codes
         /\ UNCHANGED alloc_table
  BY FreeAnswers
<1>. HIDE DEF codes
<1>3. ASSUME a \in Block, t[a] # 0, a0' = 0, alloc_table' = [t EXCEPT ![a] = 0]
      PROVE  Promised!Next
  <2>. DEFINE u == [address |-> a, blocks |-> t[a]]
  <2>1. t[a] > 0
    BY <1>1, <1>3
  <2>2. Allocations(alloc_table') = Allocations(t) \ {u}
    BY <1>1, <1>3, <2>1, AllocationRemoved
  <2>3. u \in Allocations(t) /\ u.address = a
    BY <1>3, <2>1 DEF Allocations
  <2>. HIDE DEF u
  <2>4. Promised!Free(a)
    BY <1>3, <2>2, <2>3 DEF Promised!Free, Allocations
  <2>. QED  BY <1>3, <2>4 DEF Promised!Next
<1>4. ASSUME a \in Block => t[a] = 0, a0' \in codes, UNCHANGED alloc_table
      PROVE  Promised!Next
  <2>. DEFINE c == IF a = UNALIGNED THEN NULL ELSE a
  <2>1. c \in Block \cup {NULL}
    BY Addresses
  <2>2. c \in Block => t[c] = 0
    BY <1>4, Addresses
  <2>. HIDE DEF c
  <2>3. \A u \in Allocations(t) : u.address # c
    <3>. SUFFICES ASSUME NEW u \in Allocations(t), u.address = c PROVE FALSE
      OBVIOUS
    <3>1. PICK b \in Block : t[b] > 0 /\ u = [address |-> b, blocks |-> t[b]]
      BY DEF Allocations
    <3>2. u.address = b
      BY <3>1
    <3>3. c = b
      BY <3>2
    <3>. QED  BY <1>1, <2>2, <3>1, <3>3
  <2>4. Allocations(alloc_table') = Allocations(t)
    BY <1>4
  <2>5. Promised!Free(c)
    BY <1>4, <2>3, <2>4 DEF Promised!Free, Allocations, codes
  <2>. QED  BY <2>1, <2>5 DEF Promised!Next
<1>. QED  BY <1>2, <1>3, <1>4

(* What clients hold is in the table, and each address is held once.       *)
Held ==
  /\ \A h \in held : /\ h.address \in Block
                     /\ alloc_table[h.address] > 0
                     /\ h.size <= alloc_table[h.address] * MEM_BLOCK_SIZE
  /\ \A h, k \in held : h.address = k.address => h = k

LEMMA RequestKeepsHeld ==
  ASSUME NothingCut, IInv, Held, NEW size \in Sizes, Request(size)
  PROVE  Held'
<1>. DEFINE n == ToBlocks(size)
            t == alloc_table
<1>1. size \in Nat /\ n \in Nat \ {0} /\ size <= n * MEM_BLOCK_SIZE
  BY ToBlocksRounds
<1>2. MemAlloc(size)
      /\ held' = IF a0' = NULL THEN held ELSE held \cup {[address |-> a0', size |-> size]}
  BY DEF Request
<1>3. t \in [Block -> Nat]
  BY DEF IInv, IsTable
<1>4. \/ a0' = NULL /\ UNCHANGED alloc_table
      \/ \E b \in Block : a0' = b /\ t[b] = 0 /\ alloc_table' = [t EXCEPT ![b] = n]
  BY <1>1, <1>2, AllocAnswers
<1>. HIDE DEF n
<1>5. CASE a0' = NULL /\ UNCHANGED alloc_table
  BY <1>2, <1>5 DEF Held
<1>6. ASSUME NEW b \in Block, a0' = b, t[b] = 0, alloc_table' = [t EXCEPT ![b] = n]
      PROVE  Held'
  <2>. DEFINE new == [address |-> b, size |-> size]
  <2>1. held' = held \cup {new} /\ new.address = b /\ new.size = size
    BY <1>2, <1>6, Addresses
  <2>2. alloc_table'[b] = n /\ \A a \in Block : a # b => alloc_table'[a] = t[a]
    BY <1>3, <1>6
  <2>. HIDE DEF new
  <2>3. ASSUME NEW h \in held
        PROVE  /\ h.address \in Block /\ h.address # b
               /\ alloc_table'[h.address] > 0
               /\ h.size <= alloc_table'[h.address] * MEM_BLOCK_SIZE
    <3>1. h.address \in Block /\ t[h.address] > 0
          /\ h.size <= t[h.address] * MEM_BLOCK_SIZE
      BY DEF Held
    <3>2. h.address # b
      BY <1>6, <3>1
    <3>. QED  BY <2>2, <3>1, <3>2
  <2>4. /\ new.address \in Block /\ alloc_table'[new.address] > 0
        /\ new.size <= alloc_table'[new.address] * MEM_BLOCK_SIZE
    BY <1>1, <2>1, <2>2
  <2>5. ASSUME NEW h \in held', NEW k \in held', h.address = k.address
        PROVE  h = k
    <3>1. (h \in held \/ h = new) /\ (k \in held \/ k = new)
      BY <2>1
    <3>2. h \in held /\ k \in held => h = k
      BY <2>5 DEF Held
    <3>. QED  BY <2>1, <2>3, <2>5, <3>1, <3>2
  <2>. QED  BY <2>1, <2>3, <2>4, <2>5 DEF Held
<1>. QED  BY <1>4, <1>5, <1>6

(* A free of an address keeps what is held of the others.                  *)
LEMMA FreeKeepsHeld ==
  ASSUME IInv, Held, NEW a \in Block \cup {NULL, UNALIGNED}, MemFree(a),
         held' \subseteq held, \A h \in held' : h.address # a
  PROVE  Held'
<1>1. alloc_table \in [Block -> Nat]
  BY DEF IInv, IsTable
<1>2. \A b \in Block : b # a => alloc_table'[b] = alloc_table[b]
  <2>1. \/ alloc_table' = [alloc_table EXCEPT ![a] = 0]
        \/ UNCHANGED alloc_table
    BY FreeAnswers
  <2>. QED  BY <1>1, <2>1
<1>3. ASSUME NEW h \in held'
      PROVE  /\ h.address \in Block
             /\ alloc_table'[h.address] > 0
             /\ h.size <= alloc_table'[h.address] * MEM_BLOCK_SIZE
  <2>1. h \in held /\ h.address # a
    OBVIOUS
  <2>2. h.address \in Block /\ alloc_table[h.address] > 0
        /\ h.size <= alloc_table[h.address] * MEM_BLOCK_SIZE
    BY <2>1 DEF Held
  <2>3. alloc_table'[h.address] = alloc_table[h.address]
    BY <1>2, <2>1, <2>2
  <2>. QED  BY <2>2, <2>3
<1>4. \A h, k \in held' : h.address = k.address => h = k
  BY DEF Held
<1>. QED  BY <1>3, <1>4 DEF Held

rvars == <<vars, held, asked>>

LEMMA RequestsStep ==
  ASSUME NothingCut, IInv, Held, [RequestsNext]_rvars
  PROVE  IInv' /\ Held' /\ [Promised!Next]_<<Allocations(alloc_table), asked, a0>>
<1>1. ASSUME NEW size \in Sizes, Request(size)
      PROVE  IInv' /\ Held' /\ Promised!Next
  <2>1. size \in Nat /\ MemAlloc(size)
    BY <1>1, MemoryAssumption DEF Request
  <2>. QED  BY <1>1, <2>1, AllocKeeps, RequestKeepsHeld, AllocPromised
<1>2. ASSUME NEW h \in held, Return(h)
      PROVE  IInv' /\ Held' /\ Promised!Next
  <2>1. /\ h.address \in Block /\ MemFree(h.address) /\ asked' = NULL
        /\ held' \subseteq held /\ \A k \in held' : k.address # h.address
    <3>1. held' = held \ {h}
      BY <1>2 DEF Return
    <3>2. \A k \in held' : k.address # h.address
      BY <3>1 DEF Held
    <3>3. h.address \in Block
      BY DEF Held
    <3>. QED  BY <1>2, <3>1, <3>2, <3>3 DEF Return
  <2>. QED  BY <2>1, FreeKeeps, FreeKeepsHeld, FreePromised
<1>3. ASSUME NEW a \in Block \cup {NULL, UNALIGNED}, Misuse(a)
      PROVE  IInv' /\ Held' /\ Promised!Next
  <2>1. /\ MemFree(a) /\ asked' = NULL
        /\ held' \subseteq held /\ \A k \in held' : k.address # a
    BY <1>3 DEF Misuse
  <2>. QED  BY <2>1, FreeKeeps, FreeKeepsHeld, FreePromised
<1>4. CASE UNCHANGED rvars
  BY <1>4 DEF IInv, Held, rvars, vars
<1>. QED  BY <1>1, <1>2, <1>3, <1>4 DEF RequestsNext

LEMMA RequestsInitially ==
  ASSUME RequestsInit
  PROVE  IInv /\ Held /\ Promised!Init
<1>1. Init /\ held = {} /\ asked = NULL
  BY DEF RequestsInit
<1>2. IInv
  BY <1>1, InitSound
<1>3. Held
  BY <1>1 DEF Held
<1>4. Promised!Init
  <2>1. alloc_table = [b \in Block |-> 0] /\ a0 = NULL
    BY <1>1 DEF Init
  <2>2. {b \in Block : alloc_table[b] > 0} = {}
    BY <2>1
  <2>. QED  BY <1>1, <2>1, <2>2 DEF Promised!Init
<1>. QED  BY <1>2, <1>3, <1>4

(* The list and the table keep the promise of Heap, if no request is of no *)
(* bytes and none is cut by a width: best fit refuses no request that free *)
(* memory could hold, gives it blocks that nobody has, as many as hold it, *)
(* and takes them back once.                                               *)
THEOREM HeapKeepsPromise ==
  ASSUME NothingCut
  PROVE  RequestsSpec => HeapImplemented
<1>. DEFINE mapped == <<Allocations(alloc_table), asked, a0>>
<1>1. RequestsInit => IInv /\ Held /\ Promised!Init
  BY RequestsInitially
<1>2. IInv /\ Held /\ [RequestsNext]_rvars => IInv' /\ Held' /\ [Promised!Next]_mapped
  BY RequestsStep
<1>3. [Promised!Next]_mapped => [Promised!Next]_(Promised!heap)
  BY DEF Promised!heap, Allocations
<1>. QED  BY <1>1, <1>2, <1>3, PTL DEF RequestsSpec, rvars, HeapImplemented, Promised!Spec

(* What a client holds is at least what it asked for, however many calls   *)
(* of others came between, if nothing is cut.                              *)
THEOREM RequestsAreMet ==
  ASSUME NothingCut
  PROVE  RequestsSpec => []AtLeastSize
<1>1. RequestsInit => IInv /\ Held
  BY RequestsInitially
<1>2. IInv /\ Held /\ [RequestsNext]_rvars => IInv' /\ Held'
  BY RequestsStep
<1>3. Held => AtLeastSize
  BY DEF Held, AtLeastSize
<1>. QED  BY <1>1, <1>2, <1>3, PTL DEF RequestsSpec, rvars

-----------------------------------------------------------------------------
(* The constructor, for the sizes and any addresses of the kernel's heap.   *)

Layout == INSTANCE HeapLayout

(* Where the rest of a division lies.                                      *)
LEMMA BlockDivision ==
  ASSUME NEW a \in Nat
  PROVE  /\ a % Layout!MEM_BLOCK_SIZE \in 0..Layout!MEM_BLOCK_SIZE - 1
         /\ (a + Layout!MEM_BLOCK_SIZE - (a % Layout!MEM_BLOCK_SIZE)) % Layout!MEM_BLOCK_SIZE = 0
BY SMT DEF Layout!MEM_BLOCK_SIZE

(* The most blocks fit with their entries.                                 *)
LEMMA MostFit ==
  ASSUME NEW start \in Nat, NEW end \in Nat, start <= end
  PROVE  /\ Layout!MostBlocks(start, end) \in Nat
         /\ Layout!MostBlocks(start, end) * (Layout!MEM_BLOCK_SIZE + Layout!ENTRY_SIZE) <= end - start + 1
BY SMT DEF Layout!MostBlocks, Layout!MEM_BLOCK_SIZE, Layout!ENTRY_SIZE

(* Whatever addresses the linker gives the heap, if it has room for a      *)
(* block, the first block is at a block boundary, does not overlap the     *)
(* table, and the last one ends within the heap.  The padding can be a     *)
(* whole block, when the table ends at a block only without the block that *)
(* was given up; it still fits in the room of that block.                  *)
THEOREM LayoutFits ==
  ASSUME NEW start \in Nat, NEW end \in Nat, start <= end, Layout!MostBlocks(start, end) > 0
  PROVE  /\ Layout!Aligned(Layout!FirstBlock(start, end))
         /\ Layout!FirstBlock(start, end) >= Layout!TableEnd(start, Layout!TotalBlocks(start, end))
         /\ Layout!FirstBlock(start, end) + Layout!TotalBlocks(start, end) * Layout!MEM_BLOCK_SIZE <= end + 1
<1> DEFINE n == Layout!MostBlocks(start, end)
<1>1. n \in Nat /\ n * 68 <= end - start + 1
  BY MostFit, SMT DEF Layout!MEM_BLOCK_SIZE, Layout!ENTRY_SIZE
<1>2. CASE Layout!Aligned(Layout!TableEnd(start, n))
  <2>1. Layout!TotalBlocks(start, end) = n /\ Layout!PaddingSize(start, end) = 0
    BY <1>2 DEF Layout!TotalBlocks, Layout!PaddingSize
  <2>2. Layout!FirstBlock(start, end) = start + n * 4
    BY <1>1, <2>1, SMT DEF Layout!FirstBlock, Layout!TableEnd, Layout!ENTRY_SIZE
  <2> QED
    BY <1>1, <1>2, <2>1, <2>2, SMT DEF Layout!Aligned, Layout!TableEnd, Layout!ENTRY_SIZE, Layout!MEM_BLOCK_SIZE
<1>3. CASE ~Layout!Aligned(Layout!TableEnd(start, n))
  <2> DEFINE e == start + (n - 1) * 4
  <2>1. Layout!TotalBlocks(start, end) = n - 1
    BY <1>3 DEF Layout!TotalBlocks
  <2>2. e \in Nat /\ Layout!TableEnd(start, n - 1) = e
    BY <1>1, SMT DEF Layout!TableEnd, Layout!ENTRY_SIZE
  <2>3. Layout!PaddingSize(start, end) = 64 - (e % 64)
    BY <1>3, <2>1, <2>2 DEF Layout!PaddingSize, Layout!MEM_BLOCK_SIZE
  <2>4. e % 64 \in 0..63 /\ (e + 64 - (e % 64)) % 64 = 0
    BY <2>2, BlockDivision DEF Layout!MEM_BLOCK_SIZE
  <2>5. Layout!FirstBlock(start, end) = e + 64 - (e % 64)
    BY <2>1, <2>2, <2>3, <2>4, SMT DEF Layout!FirstBlock
  <2> HIDE DEF e
  <2>6. Layout!Aligned(Layout!FirstBlock(start, end))
    BY <2>4, <2>5 DEF Layout!Aligned, Layout!MEM_BLOCK_SIZE
  <2>7. Layout!FirstBlock(start, end) >= Layout!TableEnd(start, Layout!TotalBlocks(start, end))
    BY <2>1, <2>2, <2>4, <2>5, SMT
  <2>8. Layout!FirstBlock(start, end) + (n - 1) * 64 <= end + 1
    BY <1>1, <2>2, <2>4, <2>5, SMT DEF e
  <2> QED
    BY <2>1, <2>6, <2>7, <2>8 DEF Layout!MEM_BLOCK_SIZE
<1> QED
  BY <1>2, <1>3
=============================================================================
