--------------------------- MODULE ConsoleProofs ----------------------------
(***************************************************************************)
(* What holds of the console for any threads, strings, numbers and sizes.  *)
(*                                                                         *)
(* LockInv: the lock excludes when one thread uses the console before it   *)
(* creates the others.  With two threads at the start it does not: the run *)
(* ConsoleFirstUse.                                                        *)
(* RingInv: the ring is a queue; its tail follows from head and count.     *)
(* DigitsAreDecimal: the digits of a number are those it is written with,  *)
(* where OverflowShows holds, as it does in 64 bits.                       *)
(* From these: what a panic shows (PanicInv), what a thread prints while   *)
(* it holds the lock (LineInv), what get_string holds (EditInv) and what   *)
(* is seen of it (SeenInv).                                                *)
(***************************************************************************)
EXTENDS Terminal, SequenceTheorems, Induction, TLAPS

Places == {"absent", "enter", "initialize", "mark", "wait", "blocked", "console"}

Somebody == \E t \in Thread : pc[t] = "console"

(* Until the lock is marked as initialized, m is alone.                    *)
Alone(m) ==
  /\ waiting = <<>>
  /\ \A t \in Thread \ {m} : pc[t] = "absent"
  /\ pc[m] \in {"enter", "initialize", "mark"}
  /\ pc[m] = "mark" => value = 1

(* From then on nobody initializes it again, and the semaphore is the      *)
(* mutex it was meant to be: one permit, or a holder and a queue.          *)
Ready ==
  /\ \A t \in Thread : pc[t] \notin {"initialize", "mark"}
  /\ \A i, j \in 1..Len(waiting) : waiting[i] = waiting[j] => i = j
  /\ \A t \in Thread : pc[t] = "blocked" <=> \E i \in 1..Len(waiting) : waiting[i] = t
  /\ OneAtTheConsole
  /\ Somebody => value = 0 - Len(waiting)
  /\ ~Somebody => value = 1 /\ waiting = <<>>

LockInv(m) ==
  /\ pc \in [Thread -> Places]
  /\ initialized \in BOOLEAN
  /\ value \in Int
  /\ waiting \in Seq(Thread)
  /\ initialized \/ Alone(m)
  /\ initialized => Ready

-----------------------------------------------------------------------------
(* A thread that moves between places that no queue or holder is about.    *)
LEMMA ReadyMove ==
  ASSUME NEW m \in Thread, LockInv(m), initialized, initialized',
         NEW t \in Thread, NEW from, NEW to, Goto(t, from, to),
         from \in {"absent", "enter"}, to \in {"enter", "wait"},
         UNCHANGED <<value, waiting>>
  PROVE  LockInv(m)'
<1>1. pc' = [pc EXCEPT ![t] = to] /\ pc[t] = from
  BY DEF Goto
<1>2. /\ pc' \in [Thread -> Places]
      /\ \A u \in Thread : pc'[u] \in {"initialize", "mark", "blocked", "console"} \/
                           pc[u] \in {"initialize", "mark", "blocked", "console"}
                             => pc'[u] = pc[u]
  BY <1>1 DEF LockInv, Places
<1>3. Somebody' <=> Somebody
  BY <1>2 DEF Somebody
<1>4. Ready'
  BY <1>2, <1>3 DEF LockInv, Ready, OneAtTheConsole
<1> QED
  BY <1>2, <1>4 DEF LockInv

LEMMA LockKeepsInv ==
  ASSUME NEW m \in Thread, LockInv(m), NEW t \in Thread, Lock(t)
  PROVE  LockInv(m)'
<1>1. pc[t] = "wait"
  BY DEF Lock, Goto
<1>2. initialized /\ Ready
  BY <1>1 DEF LockInv, Alone
<1>3. /\ initialized' = initialized /\ value' = value - 1 /\ value' \in Int
      /\ pc' \in [Thread -> Places]
  BY DEF Lock, Goto, LockInv, Places
<1>4. CASE Somebody
  <2>1. value - 1 < 0 /\ value' = 0 - (Len(waiting) + 1)
    BY <1>2, <1>3, <1>4, LenProperties, SMT DEF Ready, LockInv
  <2>2. /\ pc' = [pc EXCEPT ![t] = "blocked"]
        /\ waiting' = Append(waiting, t)
    BY <2>1 DEF Lock, Goto
  <2>3. /\ waiting' \in Seq(Thread) /\ Len(waiting') = Len(waiting) + 1
        /\ \A i \in 1..Len(waiting) : waiting'[i] = waiting[i]
        /\ waiting'[Len(waiting) + 1] = t
    BY <2>2, AppendProperties DEF LockInv
  <2>4. \A i \in 1..Len(waiting) : waiting[i] # t
    BY <1>1, <1>2 DEF Ready
  <2>5. \A u \in Thread : pc'[u] = IF u = t THEN "blocked" ELSE pc[u]
    BY <2>2 DEF LockInv
  <2>6. Somebody' /\ OneAtTheConsole'
    BY <1>1, <1>2, <1>4, <2>5 DEF Somebody, OneAtTheConsole, Ready
  <2>7. Len(waiting) \in Nat
    BY LenProperties DEF LockInv
  <2>8. \A i, j \in 1..Len(waiting') : waiting'[i] = waiting'[j] => i = j
    BY <1>2, <2>3, <2>4, <2>7, SMT DEF Ready
  <2>9. ASSUME NEW u \in Thread
        PROVE  pc'[u] = "blocked" <=> \E i \in 1..Len(waiting') : waiting'[i] = u
    BY <1>2, <2>3, <2>4, <2>5, <2>7, SMT DEF Ready
  <2> QED
    BY <1>2, <1>3, <2>1, <2>3, <2>5, <2>6, <2>8, <2>9 DEF LockInv, Ready
<1>5. CASE ~Somebody
  <2>1. value = 1 /\ waiting = <<>>
    BY <1>2, <1>5 DEF Ready
  <2>2. pc' = [pc EXCEPT ![t] = "console"] /\ waiting' = waiting
    BY <2>1 DEF Lock, Goto
  <2>3. \A u \in Thread : pc'[u] = IF u = t THEN "console" ELSE pc[u]
    BY <2>2 DEF LockInv
  <2>4. Somebody' /\ OneAtTheConsole'
    BY <1>5, <2>3 DEF Somebody, OneAtTheConsole
  <2>5. Len(waiting') = 0 /\ value' = 0
    BY <1>3, <2>1, <2>2
  <2>6. /\ 1..Len(waiting) = {} /\ 1..Len(waiting') = {}
        /\ value' = 0 - Len(waiting')
    <3>1. Len(waiting) = 0
      BY <2>2, <2>5
    <3> QED
      BY <2>5, <3>1, SMT
  <2>7. \A u \in Thread : pc'[u] \notin {"initialize", "mark", "blocked"}
    BY <1>2, <2>3, <2>6 DEF Ready
  <2>8. Ready'
    BY <2>4, <2>6, <2>7 DEF Ready
  <2> QED
    BY <1>2, <1>3, <2>2, <2>8 DEF LockInv
<1> QED
  BY <1>4, <1>5

LEMMA UnlockKeepsInv ==
  ASSUME NEW m \in Thread, LockInv(m), NEW t \in Thread, Unlock(t)
  PROVE  LockInv(m)'
<1>1. pc[t] = "console" /\ value' = value + 1 /\ initialized' = initialized
  BY DEF Unlock
<1>2. initialized /\ Ready /\ Somebody
  BY <1>1 DEF LockInv, Alone, Somebody
<1>3. value = 0 - Len(waiting) /\ value' \in Int /\ Len(waiting) \in Nat
  BY <1>1, <1>2, LenProperties DEF Ready, LockInv
<1>4. CASE waiting # <<>>
  <2> DEFINE h == Head(waiting)
  <2>1. /\ Len(waiting) >= 1 /\ h \in Thread /\ h = waiting[1]
        /\ Tail(waiting) \in Seq(Thread) /\ Len(Tail(waiting)) = Len(waiting) - 1
        /\ \A i \in 1..Len(waiting) - 1 : Tail(waiting)[i] = waiting[i + 1]
    BY <1>3, <1>4, HeadTailProperties, EmptySeq, SMT DEF LockInv
  <2>2. /\ pc' = [pc EXCEPT ![t] = "enter", ![h] = "console"]
        /\ waiting' = Tail(waiting)
    BY <1>3, <1>4, <2>1, SMT DEF Unlock
  <2>3. pc[h] = "blocked" /\ h # t
    BY <1>1, <1>2, <2>1, SMT DEF Ready
  <2>4. /\ pc' \in [Thread -> Places]
        /\ \A u \in Thread : pc'[u] = IF u = h THEN "console"
                                      ELSE IF u = t THEN "enter" ELSE pc[u]
    BY <2>1, <2>2, <2>3 DEF LockInv, Places
  <2>5. Somebody' /\ OneAtTheConsole'
    BY <1>1, <1>2, <2>1, <2>4 DEF Somebody, OneAtTheConsole, Ready
  <2>6. value' = 0 - Len(waiting')
    BY <1>1, <1>3, <2>1, <2>2, SMT
  <2> HIDE DEF h
  <2>7. \A i, j \in 1..Len(waiting') : waiting'[i] = waiting'[j] => i = j
    BY <1>2, <1>3, <2>1, <2>2, SMT DEF Ready
  <2>8. ASSUME NEW u \in Thread
        PROVE  pc'[u] = "blocked" <=> \E i \in 1..Len(waiting') : waiting'[i] = u
    <3>1. (\E i \in 1..Len(waiting') : waiting'[i] = u)
            <=> \E i \in 2..Len(waiting) : waiting[i] = u
      <4>1. ASSUME NEW i \in 2..Len(waiting)
            PROVE  i - 1 \in 1..Len(waiting') /\ waiting'[i - 1] = waiting[i]
        BY <1>3, <2>1, <2>2, SMT
      <4>2. ASSUME NEW i \in 1..Len(waiting')
            PROVE  i + 1 \in 2..Len(waiting) /\ waiting'[i] = waiting[i + 1]
        BY <1>3, <2>1, <2>2, SMT
      <4> QED
        BY <4>1, <4>2
    <3>2. (\E i \in 2..Len(waiting) : waiting[i] = u)
            <=> u # h /\ \E i \in 1..Len(waiting) : waiting[i] = u
      BY <1>2, <1>3, <2>1, SMT DEF Ready
    <3> QED
      BY <1>1, <1>2, <2>3, <2>4, <3>1, <3>2 DEF Ready
  <2> QED
    BY <1>1, <1>2, <1>3, <2>1, <2>2, <2>4, <2>5, <2>6, <2>7, <2>8 DEF LockInv, Ready
<1>5. CASE waiting = <<>>
  <2>1. pc' = [pc EXCEPT ![t] = "enter"] /\ waiting' = waiting
    BY <1>5 DEF Unlock
  <2>2. /\ pc' \in [Thread -> Places]
        /\ \A u \in Thread : pc'[u] = IF u = t THEN "enter" ELSE pc[u]
    BY <2>1 DEF LockInv, Places
  <2>3. value' = 1
    BY <1>1, <1>3, <1>5
  <2>4. ~Somebody' /\ OneAtTheConsole'
    BY <1>1, <1>2, <2>2 DEF Somebody, OneAtTheConsole, Ready
  <2>5. Len(waiting) = 0
    BY <1>5
  <2> QED
    BY <1>1, <1>2, <1>3, <1>5, <2>1, <2>2, <2>3, <2>4, <2>5 DEF LockInv, Ready
<1> QED
  BY <1>4, <1>5

-----------------------------------------------------------------------------
LEMMA FirstStepsKeepInv ==
  ASSUME NEW m \in Thread, LockInv(m), NEW t \in Thread,
         ~initialized, Test(t) \/ Initialize(t) \/ Mark(t)
  PROVE  LockInv(m)'
<1>1. t = m /\ pc[m] \in {"enter", "initialize", "mark"} /\ waiting = <<>>
  BY DEF LockInv, Alone, Test, Initialize, Mark, Goto
<1>2. CASE Test(t)
  <2>1. /\ pc' = [pc EXCEPT ![m] = "initialize"]
        /\ UNCHANGED <<initialized, value, waiting>>
    BY <1>1, <1>2 DEF Test, Goto
  <2> QED
    BY <2>1 DEF LockInv, Alone, Places
<1>3. CASE Initialize(t)
  <2>1. /\ pc' = [pc EXCEPT ![m] = "mark"] /\ value' = 1 /\ waiting' = <<>>
        /\ UNCHANGED initialized
    BY <1>1, <1>3 DEF Initialize, Goto
  <2> QED
    BY <2>1 DEF LockInv, Alone, Places
<1>4. CASE Mark(t)
  <2>1. /\ pc[m] = "mark" /\ pc' = [pc EXCEPT ![m] = "wait"]
        /\ initialized' = TRUE /\ UNCHANGED <<value, waiting>>
    BY <1>1, <1>4 DEF Mark, Goto
  <2>2. value' = 1 /\ waiting' = <<>>
    BY <1>1, <2>1 DEF LockInv, Alone
  <2>3. /\ pc' \in [Thread -> Places]
        /\ \A u \in Thread : pc'[u] \in {"absent", "wait"}
    BY <2>1 DEF LockInv, Alone, Places
  <2>4. ~Somebody' /\ OneAtTheConsole'
    BY <2>3 DEF Somebody, OneAtTheConsole
  <2>5. 1..Len(waiting') = {}
    BY <2>2
  <2>6. Ready'
    BY <2>2, <2>3, <2>4, <2>5 DEF Ready
  <2> QED
    BY <2>1, <2>2, <2>3, <2>6 DEF LockInv
<1> QED
  BY <1>2, <1>3, <1>4

LEMMA StepKeepsInv ==
  ASSUME NEW m \in Thread, LockInv(m), [Next]_vars
  PROVE  LockInv(m)'
<1>1. CASE UNCHANGED vars
  BY <1>1 DEF vars, LockInv, Alone, Ready, Somebody, OneAtTheConsole
<1>2. ASSUME NEW t \in Thread, Begin(t)
      PROVE  LockInv(m)'
  BY <1>2, ReadyMove DEF Begin
<1>3. ASSUME NEW t \in Thread, Test(t), initialized
      PROVE  LockInv(m)'
  BY <1>3, ReadyMove DEF Test
<1>4. ASSUME NEW t \in Thread, Initialize(t) \/ Mark(t), initialized
      PROVE  LockInv(m)'
  BY <1>4 DEF LockInv, Ready, Initialize, Mark, Goto
<1> QED
  BY <1>1, <1>2, <1>3, <1>4, FirstStepsKeepInv, LockKeepsInv, UnlockKeepsInv
  DEF Next, LockInv

LEMMA InitHasInv ==
  ASSUME NEW m \in Thread, Early = {m}, Init
  PROVE  LockInv(m)
<1>1. pc \in [Thread -> Places]
  BY DEF Init, Places
<1>2. initialized = FALSE /\ value \in Int /\ waiting = <<>>
  BY DEF Init
<1>3. waiting \in Seq(Thread)
  BY <1>2
<1>4. pc[m] = "enter" /\ \A t \in Thread \ {m} : pc[t] = "absent"
  BY DEF Init
<1>5. Alone(m)
  BY <1>2, <1>4 DEF Alone
<1> QED
  BY <1>1, <1>2, <1>3, <1>5 DEF LockInv

LEMMA LockedIs ==
  ASSUME NEW m \in Thread, LockInv(m)
  PROVE  OneAtTheConsole /\ BlockedAreListed
<1>1. OneAtTheConsole
  BY DEF LockInv, Alone, Ready, OneAtTheConsole
<1>2. ASSUME NEW t \in Thread, pc[t] = "blocked"
      PROVE  (\E i \in DOMAIN waiting : waiting[i] = t) /\ Somebody
  <2>1. Ready
    BY <1>2 DEF LockInv, Alone
  <2>2. DOMAIN waiting = 1..Len(waiting)
    BY LenProperties DEF LockInv
  <2>3. \E i \in 1..Len(waiting) : waiting[i] = t
    BY <1>2, <2>1 DEF Ready
  <2>4. waiting # <<>>
    BY <2>3
  <2> QED
    BY <2>1, <2>2, <2>3, <2>4 DEF Ready
<1> QED
  BY <1>1, <1>2 DEF BlockedAreListed, Somebody

(* The lock is the mutex it was meant to be: at most one thread prints or  *)
(* reads a line, if one thread alone has used the console first.           *)
THEOREM LockExcludes ==
  ASSUME NEW m \in Thread, Early = {m}
  PROVE  Spec => []OneAtTheConsole
BY LockedIs, InitHasInv, StepKeepsInv, PTL DEF Spec

(* No thread is forgotten: one that is blocked is in the list an unlock    *)
(* takes from, and somebody holds the lock who will unlock it.             *)
THEOREM NobodyForgotten ==
  ASSUME NEW m \in Thread, Early = {m}
  PROVE  Spec => []BlockedAreListed
BY LockedIs, InitHasInv, StepKeepsInv, PTL DEF Spec

-----------------------------------------------------------------------------
(* Indices that wrap around.                                               *)

Wrapped(a, n) == a % n

LEMMA WrapOnce ==
  ASSUME NEW a \in Nat, NEW n \in Nat \ {0}, a < n + n
  PROVE  Wrapped(a, n) = IF a < n THEN a ELSE a - n
BY SMTT(30) DEF Wrapped

LEMMA WrapPut ==
  ASSUME NEW n \in Nat \ {0}, NEW h \in 0..n - 1, NEW c \in 0..n - 1
  PROVE  /\ Wrapped(Wrapped(h + c, n) + 1, n) = Wrapped(h + (c + 1), n)
         /\ Wrapped(h + (c + 1), n) \in 0..n - 1
         /\ Wrapped(h + c, n) \in 0..n - 1
         /\ \A i \in 1..c : /\ Wrapped(h + i - 1, n) \in 0..n - 1
                            /\ Wrapped(h + i - 1, n) # Wrapped(h + c, n)
<1>1. Wrapped(h + c, n) = IF h + c < n THEN h + c ELSE h + c - n
  <2>1. h + c \in Nat /\ h + c < n + n
    OBVIOUS
  <2>. QED  BY <2>1, WrapOnce
<1>2. Wrapped(h + (c + 1), n) = IF h + (c + 1) < n THEN h + (c + 1) ELSE h + (c + 1) - n
  <2>1. h + (c + 1) \in Nat /\ h + (c + 1) < n + n
    OBVIOUS
  <2>. QED  BY <2>1, WrapOnce
<1>. DEFINE t == Wrapped(h + c, n)
<1>3. t \in 0..n - 1 /\ t = IF h + c < n THEN h + c ELSE h + c - n
  BY <1>1
<1>. HIDE DEF t
<1>4. Wrapped(t + 1, n) = IF t + 1 < n THEN t + 1 ELSE t + 1 - n
  <2>1. t + 1 \in Nat /\ (t + 1 < n + n)
    BY <1>3
  <2>. QED  BY <1>3, <2>1, WrapOnce
<1>5. Wrapped(t + 1, n) = Wrapped(h + (c + 1), n)
  BY <1>2, <1>3, <1>4
<1>6. ASSUME NEW i \in 1..c
      PROVE  Wrapped(h + i - 1, n) \in 0..n - 1 /\ Wrapped(h + i - 1, n) # t
  <2>1. h + i - 1 \in Nat /\ h + i - 1 < n + n
    OBVIOUS
  <2>2. Wrapped(h + i - 1, n) = IF h + i - 1 < n THEN h + i - 1 ELSE h + i - 1 - n
    BY <2>1, WrapOnce
  <2>. QED  BY <1>3, <2>2
<1>. QED  BY <1>2, <1>3, <1>5, <1>6 DEF t

LEMMA WrapGet ==
  ASSUME NEW n \in Nat \ {0}, NEW h \in 0..n - 1, NEW c \in 1..n
  PROVE  /\ Wrapped(h + 1, n) \in 0..n - 1
         /\ Wrapped(Wrapped(h + 1, n) + (c - 1), n) = Wrapped(h + c, n)
         /\ \A i \in 1..c - 1 :
              /\ Wrapped(Wrapped(h + 1, n) + i - 1, n) = Wrapped(h + (i + 1) - 1, n)
              /\ Wrapped(h + (i + 1) - 1, n) \in 0..n - 1
              /\ Wrapped(h + (i + 1) - 1, n) # h
<1>. DEFINE k == Wrapped(h + 1, n)
<1>1. k = IF h + 1 < n THEN h + 1 ELSE 0
  <2>1. h + 1 \in Nat /\ h + 1 < n + n
    OBVIOUS
  <2>2. Wrapped(h + 1, n) = IF h + 1 < n THEN h + 1 ELSE h + 1 - n
    BY <2>1, WrapOnce
  <2>. HIDE DEF k
  <2>. QED  BY <2>2 DEF k
<1>. HIDE DEF k
<1>2. k \in 0..n - 1
  BY <1>1
<1>3. Wrapped(k + (c - 1), n) = Wrapped(h + c, n)
  <2>1. /\ h + c \in Nat /\ h + c < n + n
        /\ k + (c - 1) \in Nat /\ k + (c - 1) < n + n
    BY <1>2
  <2>2. Wrapped(h + c, n) = IF h + c < n THEN h + c ELSE h + c - n
    BY <2>1, WrapOnce
  <2>3. Wrapped(k + (c - 1), n) = IF k + (c - 1) < n THEN k + (c - 1) ELSE k + (c - 1) - n
    BY <1>2, <2>1, WrapOnce
  <2>. QED  BY <1>1, <2>2, <2>3
<1>4. ASSUME NEW i \in 1..c - 1
      PROVE  /\ Wrapped(k + i - 1, n) = Wrapped(h + (i + 1) - 1, n)
             /\ Wrapped(h + (i + 1) - 1, n) \in 0..n - 1
             /\ Wrapped(h + (i + 1) - 1, n) # h
  <2>1. /\ h + (i + 1) - 1 \in Nat /\ h + (i + 1) - 1 < n + n
        /\ k + i - 1 \in Nat /\ k + i - 1 < n + n
    BY <1>2
  <2>2. Wrapped(h + (i + 1) - 1, n) = IF h + (i + 1) - 1 < n THEN h + (i + 1) - 1
                                      ELSE h + (i + 1) - 1 - n
    BY <2>1, WrapOnce
  <2>3. Wrapped(k + i - 1, n) = IF k + i - 1 < n THEN k + i - 1 ELSE k + i - 1 - n
    BY <1>2, <2>1, WrapOnce
  <2>. QED  BY <1>1, <2>1, <2>2, <2>3
<1>. QED  BY <1>2, <1>3, <1>4 DEF k

-----------------------------------------------------------------------------
(* The ring.                                                               *)

Character ==
  (UNION {Range(m) : m \in Messages}) \cup Letters \cup Singles
    \cup {"0", "1", "2", "3", "4", "5", "6", "7", "8", "9"}
    \cup {DELETE, ENTER, NUL, "P", "end", "newline", "back", "blank"}

Size == IO_BUFFER_SIZE

Record == [head : 0..Size - 1, tail : 0..Size - 1, count : 0..Size,
           buffer : [0..Size - 1 -> Character]]

(* The tail follows from head and count.                                   *)
Rings == {q \in Record : q.tail = Wrapped(q.head + q.count, Size)}

LEMMA SizeIs == Size \in Nat \ {0}
  BY TerminalAssumption DEF Size

LEMMA RingFields ==
  ASSUME NEW q \in Rings
  PROVE  /\ q \in Record
         /\ q.head \in 0..Size - 1 /\ q.tail \in 0..Size - 1 /\ q.count \in 0..Size
         /\ q.buffer \in [0..Size - 1 -> Character]
         /\ q.tail = Wrapped(q.head + q.count, Size)
  BY DEF Rings, Record

(* Where the i-th character is.                                            *)
Cell(q, i) == Wrapped(q.head + i - 1, Size)

LEMMA ContentsAre ==
  ASSUME NEW q \in Rings
  PROVE  /\ q.count \in Nat
         /\ Contents(q) \in Seq(Character)
         /\ Len(Contents(q)) = q.count
         /\ \A i \in 1..q.count : Contents(q)[i] = q.buffer[Cell(q, i)]
<1>1. Contents(q) = [i \in 1..q.count |-> q.buffer[Cell(q, i)]]
  BY DEF Contents, Cell, Size, Wrapped
<1>2. /\ q.head \in 0..Size - 1 /\ q.count \in 0..Size /\ Size \in Nat \ {0}
      /\ q.buffer \in [0..Size - 1 -> Character]
  BY RingFields, SizeIs
<1>3. ASSUME NEW i \in 1..q.count
      PROVE  Cell(q, i) \in 0..Size - 1
  <2>. DEFINE h == q.head
              c == q.count
  <2>1. h \in 0..Size - 1 /\ c \in 0..Size /\ i \in 1..c
    BY <1>2
  <2>. HIDE DEF h, c
  <2>2. h + i - 1 \in Nat /\ h + i - 1 < Size + Size
    BY <1>2, <2>1
  <2>3. Wrapped(h + i - 1, Size) \in 0..Size - 1
    BY <1>2, <2>2, WrapOnce
  <2>. QED  BY <2>3 DEF Cell, h
<1>4. Contents(q) \in [1..q.count -> Character]
  BY <1>1, <1>2, <1>3
<1>5. q.count \in Nat
  BY <1>2
<1>. QED  BY <1>1, <1>4, <1>5

(* put adds a character at the end.                                        *)
LEMMA PutCharAppends ==
  ASSUME NEW q \in Rings, NEW ch \in Character, q.count < Size
  PROVE  /\ PutChar(q, ch) \in Rings
         /\ Contents(PutChar(q, ch)) = Append(Contents(q), ch)
         /\ PutChar(q, ch).count = q.count + 1
<1>. DEFINE r == PutChar(q, ch)
            h == q.head
            c == q.count
            t == q.tail
<1>1. /\ q \in Record /\ Size \in Nat \ {0} /\ h \in 0..Size - 1 /\ t \in 0..Size - 1
      /\ c \in 0..Size /\ q.buffer \in [0..Size - 1 -> Character]
      /\ t = Wrapped(h + c, Size)
  BY RingFields, SizeIs
<1>2. c \in 0..Size - 1
  BY <1>1
<1>3. r = [head |-> h, tail |-> Wrapped(t + 1, Size), count |-> c + 1,
           buffer |-> [q.buffer EXCEPT ![t] = ch]]
  <2>1. q = [head |-> h, tail |-> t, count |-> c, buffer |-> q.buffer]
    BY <1>1 DEF Record
  <2>2. r = [[[q EXCEPT !.buffer = [q.buffer EXCEPT ![t] = ch]] EXCEPT
                !.tail = Wrapped(t + 1, Size)] EXCEPT !.count = c + 1]
    BY <2>1 DEF PutChar, Size, Wrapped
  <2>. QED  BY <2>1, <2>2
<1>4. /\ r.head = h /\ r.tail = Wrapped(t + 1, Size) /\ r.count = c + 1
      /\ r.buffer = [q.buffer EXCEPT ![t] = ch]
  BY <1>3
<1>. HIDE DEF r, h, c, t
<1>5. /\ Wrapped(t + 1, Size) = Wrapped(h + (c + 1), Size)
      /\ Wrapped(t + 1, Size) \in 0..Size - 1
      /\ \A i \in 1..c : /\ Wrapped(h + i - 1, Size) \in 0..Size - 1
                         /\ Wrapped(h + i - 1, Size) # t
  <2>1. /\ Wrapped(Wrapped(h + c, Size) + 1, Size) = Wrapped(h + (c + 1), Size)
        /\ Wrapped(h + (c + 1), Size) \in 0..Size - 1
        /\ \A i \in 1..c : /\ Wrapped(h + i - 1, Size) \in 0..Size - 1
                           /\ Wrapped(h + i - 1, Size) # Wrapped(h + c, Size)
    BY <1>1, <1>2, WrapPut
  <2>. QED  BY <1>1, <2>1, Zenon
<1>6. r \in Rings
  <2>1. c + 1 \in 0..Size /\ [q.buffer EXCEPT ![t] = ch] \in [0..Size - 1 -> Character]
    BY <1>1, <1>2
  <2>2. r \in Record
    BY <1>1, <1>3, <1>5, <2>1 DEF Record
  <2>3. r.tail = Wrapped(r.head + r.count, Size)
    BY <1>4, <1>5
  <2>. QED  BY <2>2, <2>3 DEF Rings
<1>7. /\ Contents(r) \in Seq(Character) /\ Len(Contents(r)) = c + 1
      /\ Contents(q) \in Seq(Character) /\ Len(Contents(q)) = c
      /\ \A i \in 1..c + 1 : Contents(r)[i] = r.buffer[Cell(r, i)]
      /\ \A i \in 1..c : Contents(q)[i] = q.buffer[Cell(q, i)]
  BY <1>4, <1>6, ContentsAre DEF c
<1>8. ASSUME NEW i \in 1..c + 1
      PROVE  Contents(r)[i] = Append(Contents(q), ch)[i]
  <2>1. Contents(r)[i] = r.buffer[Wrapped(h + i - 1, Size)]
    BY <1>4, <1>7 DEF Cell
  <2>2. CASE i = c + 1
    <3>1. (h + i - 1) = h + c
      BY <1>1, <2>2
    <3>2. Contents(r)[i] = ch
      BY <1>1, <1>4, <2>1, <3>1
    <3>. QED  BY <1>7, <2>2, <3>2
  <2>3. CASE i \in 1..c
    <3>1. Wrapped(h + i - 1, Size) \in 0..Size - 1 /\ Wrapped(h + i - 1, Size) # t
      BY <1>5, <2>3
    <3>2. Contents(r)[i] = q.buffer[Wrapped(h + i - 1, Size)]
      BY <1>1, <1>4, <2>1, <3>1
    <3>3. Contents(q)[i] = q.buffer[Wrapped(h + i - 1, Size)]
      BY <1>7, <2>3 DEF Cell, h
    <3>. QED  BY <1>7, <2>3, <3>2, <3>3
  <2>. QED
    <3>1. i = c + 1 \/ i \in 1..c
      BY <1>2
    <3>. QED  BY <2>2, <2>3, <3>1
<1>9. /\ Append(Contents(q), ch) \in Seq(Character)
      /\ Len(Append(Contents(q), ch)) = c + 1
  BY <1>7, AppendProperties
<1>10. Contents(r) = Append(Contents(q), ch)
  BY <1>7, <1>8, <1>9, SeqEqual
<1>. QED  BY <1>4, <1>6, <1>10 DEF r, c

(* get takes the first one.                                                *)
LEMMA GetCharTakes ==
  ASSUME NEW q \in Rings, q.count > 0
  PROVE  /\ GetChar(q) \in Rings
         /\ GetChar(q).count = q.count - 1
         /\ \A i \in 1..q.count - 1 : Contents(GetChar(q))[i] = Contents(q)[i + 1]
<1>. DEFINE r == GetChar(q)
            h == q.head
            c == q.count
            k == Wrapped(h + 1, Size)
<1>1. /\ q \in Record /\ Size \in Nat \ {0} /\ h \in 0..Size - 1
      /\ q.tail \in 0..Size - 1
      /\ c \in 0..Size /\ q.buffer \in [0..Size - 1 -> Character]
      /\ q.tail = Wrapped(h + c, Size)
  BY RingFields, SizeIs
<1>2. c \in 1..Size
  BY <1>1
<1>3. r = [head |-> k, tail |-> q.tail, count |-> c - 1,
           buffer |-> [q.buffer EXCEPT ![h] = NUL]]
  <2>1. q = [head |-> h, tail |-> q.tail, count |-> c, buffer |-> q.buffer]
    BY <1>1 DEF Record
  <2>2. r = [[[q EXCEPT !.buffer = [q.buffer EXCEPT ![h] = NUL]] EXCEPT
                !.head = k] EXCEPT !.count = c - 1]
    BY <2>1 DEF GetChar, Size, Wrapped
  <2>. QED  BY <2>1, <2>2
<1>4. /\ r.head = k /\ r.tail = q.tail /\ r.count = c - 1
      /\ r.buffer = [q.buffer EXCEPT ![h] = NUL]
  BY <1>3
<1>. HIDE DEF r, h, c
<1>5. /\ k \in 0..Size - 1
      /\ Wrapped(k + (c - 1), Size) = Wrapped(h + c, Size)
      /\ \A i \in 1..c - 1 : /\ Wrapped(k + i - 1, Size) = Wrapped(h + (i + 1) - 1, Size)
                             /\ Wrapped(h + (i + 1) - 1, Size) \in 0..Size - 1
                             /\ Wrapped(h + (i + 1) - 1, Size) # h
  BY <1>1, <1>2, WrapGet
<1>. HIDE DEF k
<1>6. r \in Rings
  <2>1. NUL \in Character
    BY DEF Character
  <2>2. c - 1 \in 0..Size /\ [q.buffer EXCEPT ![h] = NUL] \in [0..Size - 1 -> Character]
    BY <1>1, <1>2, <2>1
  <2>3. r \in Record
    BY <1>1, <1>3, <1>5, <2>2 DEF Record
  <2>4. r.tail = Wrapped(r.head + r.count, Size)
    BY <1>1, <1>4, <1>5
  <2>. QED  BY <2>3, <2>4 DEF Rings
<1>7. /\ \A i \in 1..c - 1 : Contents(r)[i] = r.buffer[Cell(r, i)]
      /\ \A i \in 1..c : Contents(q)[i] = q.buffer[Cell(q, i)]
  BY <1>4, <1>6, ContentsAre DEF c
<1>8. ASSUME NEW i \in 1..c - 1
      PROVE  Contents(r)[i] = Contents(q)[i + 1]
  <2>1. Contents(r)[i] = r.buffer[Wrapped(h + (i + 1) - 1, Size)]
    BY <1>4, <1>5, <1>7 DEF Cell
  <2>2. i + 1 \in 1..c
    BY <1>2
  <2>3. Contents(q)[i + 1] = q.buffer[Wrapped(h + (i + 1) - 1, Size)]
    BY <1>7, <2>2 DEF Cell, h
  <2>. QED  BY <1>1, <1>4, <1>5, <2>1, <2>3
<1>. QED  BY <1>4, <1>6, <1>8 DEF r, c

(* flush_putc_buffer takes the first n.                                    *)
LEMMA FlushedTakes ==
  ASSUME NEW q \in Rings, NEW n \in 0..q.count
  PROVE  /\ Flushed(q, n) \in Rings
         /\ Flushed(q, n).count = q.count - n
         /\ Contents(Flushed(q, n)) = SubSeq(Contents(q), n + 1, q.count)
<1>. DEFINE Leaves(f) == f = [i \in 0..n |-> IF i = 0 THEN q ELSE GetChar(f[i-1])]
            step == [i \in 1..n |-> [x \in Rings |-> IF x.count > 0 THEN GetChar(x) ELSE x]]
            c == q.count
<1>1. c \in Nat /\ n \in Nat /\ n \in 0..c
  BY ContentsAre
<1>2. step \in [1..n -> [Rings -> Rings]]
  BY GetCharTakes
<1>3. PICK f : IsIterated(f, n, Rings, q, step)
  <2>. HIDE DEF step
  <2>. QED  BY <1>1, <1>2, IterationExists
<1>4. /\ f \in [0..n -> Rings] /\ f[0] = q
      /\ \A i \in 1..n : f[i] = step[i][f[i-1]]
  BY <1>3 DEF IsIterated
<1>5. \A i \in 1..n : i - 1 \in 0..n /\ i \in 0..n
  <2>. HIDE DEF c
  <2>. QED  BY <1>1
<1>6. \A i \in 1..n : f[i] = IF f[i-1].count > 0 THEN GetChar(f[i-1]) ELSE f[i-1]
  BY <1>4, <1>5
<1>. HIDE DEF step, c
<1>. DEFINE Taken(i) == /\ f[i].count = c - i
                        /\ \A j \in 1..c - i : Contents(f[i])[j] = Contents(q)[j + i]
            S == {i \in 0..n : Taken(i)}
<1>7. 0 \in S
  <2>1. \A j \in 1..c - 0 : j + 0 = j
    BY <1>1
  <2>2. c - 0 = c
    BY <1>1
  <2>. QED  BY <1>1, <1>4, <2>1, <2>2 DEF c
<1>8. ASSUME NEW i \in 0..n - 1, i \in S
      PROVE  i + 1 \in S
  <2>1. i + 1 \in 1..n /\ (i + 1) - 1 = i /\ i \in 0..n /\ c - i > 0 /\ c - (i + 1) = (c - i) - 1
    BY <1>1
  <2>2. Taken(i)
    BY <1>8
  <2>3. f[i] \in Rings /\ f[i].count > 0
    BY <1>4, <2>1, <2>2
  <2>4. f[i + 1] = GetChar(f[i])
    BY <1>6, <2>1, <2>3
  <2>5. /\ f[i + 1].count = f[i].count - 1
        /\ \A j \in 1..f[i].count - 1 : Contents(f[i + 1])[j] = Contents(f[i])[j + 1]
    BY <2>3, <2>4, GetCharTakes
  <2>6. ASSUME NEW j \in 1..c - (i + 1)
        PROVE  Contents(f[i + 1])[j] = Contents(q)[j + (i + 1)]
    <3>1. j \in 1..f[i].count - 1 /\ j + 1 \in 1..c - i /\ (j + 1) + i = j + (i + 1)
      BY <1>1, <2>1, <2>2
    <3>. QED  BY <2>2, <2>5, <3>1
  <2>7. Taken(i + 1)
    BY <2>1, <2>2, <2>5, <2>6
  <2>8. i + 1 \in 0..n
    BY <2>1
  <2>. QED  BY <2>7, <2>8
<1>. HIDE DEF S
<1>9. 0..n \subseteq S
  BY <1>1, <1>7, <1>8, IntervalInduction
<1>10. \A i \in 0..n : Taken(i)
  BY <1>9 DEF S
<1>11. Leaves(f)
  <2>1. ASSUME NEW i \in 1..n
        PROVE  f[i] = GetChar(f[i-1])
    <3>1. f[i-1].count = c - (i - 1) /\ c - (i - 1) > 0
      BY <1>1, <1>5, <1>10
    <3>. QED  BY <1>6, <3>1
  <2>2. \A i \in 0..n : i = 0 \/ i \in 1..n
    BY <1>1
  <2>3. \A i \in 0..n : f[i] = IF i = 0 THEN q ELSE GetChar(f[i-1])
    BY <1>4, <2>1, <2>2
  <2>. QED  BY <1>4, <2>3
<1>12. Flushed(q, n) = (CHOOSE g : Leaves(g))[n]
  BY DEF Flushed
<1>13. Leaves(CHOOSE g : Leaves(g))
  BY <1>11
<1>14. \A g : Leaves(g) => g = f
  <2>. SUFFICES ASSUME NEW g, Leaves(g) PROVE g = f
    OBVIOUS
  <2>1. /\ g = [i \in 0..n |-> g[i]] /\ g[0] = q
        /\ \A i \in 1..n : g[i] = GetChar(g[i-1])
    BY <1>1, <1>5
  <2>2. f = [i \in 0..n |-> f[i]] /\ f[0] = q /\ \A i \in 1..n : f[i] = GetChar(f[i-1])
    BY <1>1, <1>5, <1>11
  <2>3. \A i \in 1..n : g[i - 1] = f[i - 1] => g[i] = f[i]
    BY <2>1, <2>2
  <2>4. OnInterval(g, n) /\ OnInterval(f, n) /\ g[0] = f[0]
    BY <2>1, <2>2 DEF OnInterval
  <2>. HIDE DEF Leaves
  <2>. QED  BY <1>1, <2>3, <2>4, SameIteration
<1>15. Flushed(q, n) = f[n]
  BY <1>12, <1>13, <1>14
<1>16. f[n] \in Rings /\ Taken(n)
  BY <1>1, <1>4, <1>10
<1>17. Contents(f[n]) = SubSeq(Contents(q), n + 1, c)
  <2>1. /\ Contents(f[n]) \in Seq(Character) /\ Len(Contents(f[n])) = c - n
        /\ Contents(q) \in Seq(Character) /\ Len(Contents(q)) = c
    BY <1>16, ContentsAre DEF c
  <2>2. /\ SubSeq(Contents(q), n + 1, c) \in Seq(Character)
        /\ Len(SubSeq(Contents(q), n + 1, c)) = c - n
        /\ \A j \in 1..c - n : SubSeq(Contents(q), n + 1, c)[j] = Contents(q)[j + n]
    BY <1>1, <2>1
  <2>. QED  BY ZenonT(40), <1>16, <2>1, <2>2, SeqEqual
<1>. QED  BY <1>15, <1>16, <1>17 DEF c

LEMMA AppendNext ==
  ASSUME NEW S, NEW a \in Seq(S), NEW s \in Seq(S), NEW i \in 0..Len(s), i < Len(s)
  PROVE  Append(a \o SubSeq(s, 1, i), s[i + 1]) = a \o SubSeq(s, 1, i + 1)
<1>1. i + 1 \in 1..Len(s) /\ s[i + 1] \in S /\ Len(s) \in Nat
  BY LenProperties
<1>2. /\ SubSeq(s, 1, i) \in Seq(S) /\ Len(SubSeq(s, 1, i)) = i
      /\ SubSeq(s, 1, i + 1) \in Seq(S) /\ Len(SubSeq(s, 1, i + 1)) = i + 1
      /\ \A j \in 1..i : SubSeq(s, 1, i)[j] = s[j]
      /\ \A j \in 1..i + 1 : SubSeq(s, 1, i + 1)[j] = s[j]
  BY <1>1
<1>. DEFINE u == SubSeq(s, 1, i)
            v == SubSeq(s, 1, i + 1)
            x == s[i + 1]
<1>3. v = Append(u, x)
  <2>1. /\ Append(u, x) \in Seq(S) /\ Len(Append(u, x)) = i + 1
        /\ \A j \in 1..i : Append(u, x)[j] = u[j]
        /\ Append(u, x)[i + 1] = x
    BY <1>1, <1>2, AppendProperties
  <2>2. \A j \in 1..i + 1 : v[j] = Append(u, x)[j]
    <3>1. \A j \in 1..i + 1 : j = i + 1 \/ j \in 1..i
      BY <1>1
    <3>. HIDE DEF u, v
    <3>. QED  BY <1>1, <1>2, <2>1, <3>1 DEF u, v
  <2>. HIDE DEF u, v, x
  <2>. QED  BY <1>2, <2>1, <2>2, SeqEqual DEF u, v
<1>. HIDE DEF u, v, x
<1>4. u \in Seq(S) /\ v \in Seq(S) /\ x \in S
  BY <1>1, <1>2 DEF u, v, x
<1>5. Append(a \o u, x) = a \o Append(u, x)
  <2>1. /\ Append(u, x) = u \o <<x>> /\ <<x>> \in Seq(S) /\ a \o u \in Seq(S)
        /\ Append(a \o u, x) = (a \o u) \o <<x>>
    BY <1>4, AppendIsConcat, ConcatProperties
  <2>2. (a \o u) \o <<x>> = a \o (u \o <<x>>)
    BY SMTT(40), <1>4, <2>1, ConcatAssociative
  <2>. QED  BY <2>1, <2>2
<1>. QED  BY <1>3, <1>5 DEF u, v, x

(* Several put's keep what fits.                                           *)
LEMMA PutAllAppends ==
  ASSUME NEW q \in Rings, NEW s \in Seq(Character)
  PROVE  /\ PutAll(q, s) \in Rings
         /\ \E k \in 0..Len(s) :
              /\ Contents(PutAll(q, s)) = Contents(q) \o SubSeq(s, 1, k)
              /\ k = Len(s) \/ PutAll(q, s).count = Size
<1>. DEFINE n == Len(s)
            Puts(f) == f = [i \in 0..n |-> IF i = 0 THEN q ELSE PutChar(f[i-1], s[i])]
            step == [i \in 1..n |-> [x \in Rings |-> PutChar(x, s[i])]]
<1>1. n \in Nat /\ \A i \in 1..n : s[i] \in Character
  OBVIOUS
<1>2. \A x \in Rings, ch \in Character :
        /\ x.count \in 0..Size
        /\ x.count < Size \/ (PutChar(x, ch) = x /\ x.count = Size)
        /\ PutChar(x, ch) \in Rings
  <2>. SUFFICES ASSUME NEW x \in Rings, NEW ch \in Character
                PROVE  /\ x.count \in 0..Size
                       /\ x.count < Size \/ (PutChar(x, ch) = x /\ x.count = Size)
                       /\ PutChar(x, ch) \in Rings
    OBVIOUS
  <2>1. x.count \in 0..Size /\ Size \in Nat
    BY RingFields, SizeIs
  <2>2. CASE x.count < Size
    BY <2>1, <2>2, PutCharAppends
  <2>3. CASE ~(x.count < Size)
    BY <2>1, <2>3 DEF PutChar, Size
  <2>. QED  BY <2>2, <2>3
<1>3. step \in [1..n -> [Rings -> Rings]]
  BY <1>1, <1>2
<1>4. PICK f : IsIterated(f, n, Rings, q, step)
  <2>. HIDE DEF step, n
  <2>. QED  BY <1>1, <1>3, IterationExists
<1>5. \A i \in 1..n : i - 1 \in 0..n /\ i \in 0..n
  <2>. HIDE DEF n
  <2>. QED  BY <1>1
<1>6. /\ f \in [0..n -> Rings] /\ f[0] = q
      /\ \A i \in 1..n : f[i] = step[i][f[i-1]]
  BY <1>4 DEF IsIterated
<1>7. \A i \in 1..n : f[i] = PutChar(f[i-1], s[i])
  BY <1>5, <1>6
<1>. HIDE DEF step
<1>8. Puts(f)
  <2>1. \A i \in 0..n : f[i] = IF i = 0 THEN q ELSE PutChar(f[i-1], s[i])
    BY <1>1, <1>6, <1>7
  <2>. QED  BY <1>6, <2>1
<1>9. PutAll(q, s) = (CHOOSE g : Puts(g))[n]
  BY DEF PutAll
<1>10. \A g : Puts(g) => g = f
  <2>. SUFFICES ASSUME NEW g, Puts(g) PROVE g = f
    OBVIOUS
  <2>1. /\ g = [i \in 0..n |-> g[i]] /\ g[0] = q
        /\ \A i \in 1..n : g[i] = PutChar(g[i-1], s[i])
    BY <1>1, <1>5
  <2>2. OnInterval(g, n) /\ OnInterval(f, n) /\ g[0] = f[0]
    BY <1>6, <2>1 DEF OnInterval
  <2>3. \A i \in 1..n : g[i - 1] = f[i - 1] => g[i] = f[i]
    BY <1>7, <2>1
  <2>. HIDE DEF Puts, n
  <2>. QED  BY <1>1, <2>2, <2>3, SameIteration
<1>11. PutAll(q, s) = f[n]
  <2>1. Puts(CHOOSE g : Puts(g))
    BY <1>8
  <2>. HIDE DEF Puts, n
  <2>. QED  BY <1>9, <1>10, <2>1
<1>. HIDE DEF n, Puts
<1>. DEFINE Fits(i) == \E k \in 0..i : /\ Contents(f[i]) = Contents(q) \o SubSeq(s, 1, k)
                                       /\ k = i \/ f[i].count = Size
            S == {i \in 0..n : Fits(i)}
<1>12. Contents(q) \in Seq(Character)
  BY ContentsAre
<1>13. 0 \in S
  <2>1. SubSeq(s, 1, 0) = <<>>
    BY SubSeqEmpty
  <2>2. Contents(q) \o <<>> = Contents(q)
    BY <1>12, ConcatEmptySeq
  <2>3. 0 \in 0..0 /\ 0 \in 0..n
    BY <1>1
  <2>4. Fits(0)
    BY <1>6, <2>1, <2>2, <2>3
  <2>. HIDE DEF Fits
  <2>. QED  BY <2>3, <2>4
<1>14. ASSUME NEW i \in 0..n - 1, i \in S
       PROVE  i + 1 \in S
  <2>1. i + 1 \in 1..n /\ (i + 1) - 1 = i /\ i + 1 \in 0..n /\ i \in 0..n /\ i < n
    BY <1>1
  <2>2. PICK k \in 0..i : /\ Contents(f[i]) = Contents(q) \o SubSeq(s, 1, k)
                          /\ k = i \/ f[i].count = Size
    BY <1>14
  <2>3. f[i] \in Rings /\ s[i + 1] \in Character /\ f[i + 1] = PutChar(f[i], s[i + 1])
    BY <1>1, <1>6, <1>7, <2>1
  <2>4. CASE f[i].count < Size
    <3>1. k = i
      BY <2>2, <2>4, SizeIs
    <3>2. Contents(f[i + 1]) = Append(Contents(q) \o SubSeq(s, 1, i), s[i + 1])
      BY <2>2, <2>3, <2>4, <3>1, PutCharAppends
    <3>3. Contents(f[i + 1]) = Contents(q) \o SubSeq(s, 1, i + 1)
      BY <1>12, <2>1, <3>2, AppendNext DEF n
    <3>4. i + 1 \in 0..i + 1
      BY <2>1
    <3>5. Fits(i + 1)
      BY <3>3, <3>4
    <3>. QED  BY <2>1, <3>5
  <2>5. CASE ~(f[i].count < Size)
    <3>1. f[i + 1] = f[i] /\ f[i].count = Size
      BY <1>2, <2>3, <2>5
    <3>2. k \in 0..i + 1
      BY <2>1
    <3>3. Fits(i + 1)
      BY <2>2, <3>1, <3>2
    <3>. QED  BY <2>1, <3>3
  <2>. QED  BY <2>4, <2>5
<1>. HIDE DEF S
<1>15. 0..n \subseteq S
  BY <1>1, <1>13, <1>14, IntervalInduction
<1>16. Fits(n)
  <2>1. n \in S
    BY <1>1, <1>15
  <2>. HIDE DEF Fits
  <2>. QED  BY <2>1 DEF S
<1>17. f[n] \in Rings
  BY <1>1, <1>6
<1>. QED  BY <1>11, <1>16, <1>17 DEF n

-----------------------------------------------------------------------------
(* Numbers.                                                                *)

Figures == {"0", "1", "2", "3", "4", "5", "6", "7", "8", "9"}

LEMMA DigitIs ==
  ASSUME NEW d \in 0..9
  PROVE  Digit(d) \in Figures
<1>1. d = 0 \/ d = 1 \/ d = 2 \/ d = 3 \/ d = 4 \/ d = 5 \/ d = 6 \/ d = 7 \/ d = 8 \/ d = 9
  OBVIOUS
<1>. QED  BY <1>1 DEF Digit, Figures

LEMMA Division ==
  ASSUME NEW a \in Nat, NEW b \in Nat \ {0}
  PROVE  /\ a \div b \in Nat /\ (a \div b) * b <= a /\ a < (a \div b) * b + b
         /\ a % b \in 0..b - 1
BY SMTT(30)

LEMMA LastDigit == \A h \in 0..9 : h % 10 = h
  OBVIOUS

LEMMA QuotientIsLess ==
  ASSUME NEW a \in Nat, NEW b \in Nat \ {0}
  PROVE  a \div b \in 0..a
<1>. DEFINE p == a \div b
<1>1. PICK k \in Nat : b = k + 1
  OBVIOUS
<1>2. p \in Nat /\ p * b <= a
  BY Division
<1>. HIDE DEF p
<1>. DEFINE x == p * k
<1>3. p * b = x + p /\ x \in Nat
  BY <1>1, <1>2, SMTT(30)
<1>. HIDE DEF x
<1>4. p <= a
  BY <1>2, <1>3
<1>. QED  BY <1>2, <1>4 DEF p

LEMMA Quotient ==
  ASSUME NEW a \in Nat, NEW b \in Nat \ {0}, NEW q \in Nat, q * b <= a, a < q * b + b
  PROVE  a \div b = q
<1>. DEFINE p == a \div b
<1>1. p \in Nat /\ p * b <= a /\ a < p * b + b
  BY Division
<1>. HIDE DEF p
<1>2. CASE p < q
  <2>1. PICK k \in Nat : q = p + 1 + k
    BY <1>1, <1>2
  <2>2. q * b = p * b + b + k * b /\ k * b \in Nat /\ p * b \in Nat
    BY <1>1, <2>1, SMTT(30)
  <2>. QED  BY <1>1, <2>2
<1>3. CASE q < p
  <2>1. PICK k \in Nat : p = q + 1 + k
    BY <1>1, <1>3
  <2>2. p * b = q * b + b + k * b /\ k * b \in Nat /\ q * b \in Nat
    BY <1>1, <2>1, SMTT(30)
  <2>. QED  BY <1>1, <2>2
<1>. QED  BY <1>1, <1>2, <1>3 DEF p

(* A digit more of the weight is one less of the quotient.                 *)
LEMMA NextQuotient ==
  ASSUME NEW a \in Nat, NEW v \in Nat \ {0}
  PROVE  /\ a \div (v * 10) = (a \div v) \div 10
         /\ v * 10 <= a => 10 <= a \div v
         /\ a < v * 10 => a \div v < 10
<1>. DEFINE p == a \div v
            q == p \div 10
            x == q * v
<1>1. p \in Nat /\ p * v <= a /\ a < p * v + v
  BY Division
<1>. HIDE DEF p
<1>2. PICK r \in 0..9 : p = q * 10 + r
  <2>1. q \in Nat /\ q * 10 <= p /\ p < q * 10 + 10
    BY <1>1, Division
  <2>2. p - q * 10 \in 0..9
    BY <1>1, <2>1
  <2>. QED  BY <1>1, <2>1, <2>2
<1>3. q \in Nat
  BY <1>1, Division
<1>. HIDE DEF q
<1>4. x \in Nat /\ p * v = x * 10 + r * v /\ r * v \in Nat /\ q * (v * 10) = x * 10
  BY <1>2, <1>3, SMTT(30)
<1>. HIDE DEF x
<1>5. r * v <= 9 * v
  <2>1. r = 0 \/ r = 1 \/ r = 2 \/ r = 3 \/ r = 4 \/ r = 5 \/ r = 6 \/ r = 7 \/ r = 8 \/ r = 9
    OBVIOUS
  <2>. QED  BY <2>1
<1>6. a \div (v * 10) = q
  <2>1. v * 10 \in Nat \ {0} /\ q * (v * 10) <= a /\ a < q * (v * 10) + v * 10
    BY <1>1, <1>4, <1>5
  <2>. QED  BY <1>3, <2>1, Quotient
<1>7. ASSUME v * 10 <= a, ~(10 <= p)
      PROVE  FALSE
  <2>1. p = 0 \/ p = 1 \/ p = 2 \/ p = 3 \/ p = 4 \/ p = 5 \/ p = 6 \/ p = 7 \/ p = 8 \/ p = 9
    BY <1>1, <1>7
  <2>2. p * v <= 9 * v
    BY <2>1
  <2>. QED  BY <1>1, <1>7, <2>2
<1>8. ASSUME a < v * 10, 10 <= p
      PROVE  FALSE
  <2>1. PICK k \in Nat : p = 10 + k
    BY <1>1, <1>8
  <2>2. p * v = 10 * v + k * v /\ k * v \in Nat
    BY <2>1, SMTT(30)
  <2>. QED  BY <1>1, <1>8, <2>2
<1>. QED  BY <1>1, <1>6, <1>7, <1>8 DEF p, q

Weights == 1..NUMBER_MOD - 1

(* weight * 10 in the width of a number.                                   *)
TenTimes(w) == Wrapped(w * 10, NUMBER_MOD)

Grows(number, w) == TenTimes(w) <= number /\ TenTimes(w) > w

LEMMA ModIs ==
  /\ NUMBER_MOD \in Nat \ {0} /\ NUMBER_MOD > 1
  /\ \A w \in Weights : TenTimes(w) \in 0..NUMBER_MOD - 1
<1>1. NUMBER_MOD \in Nat \ {0} /\ NUMBER_MOD > 1
  BY TerminalAssumption
<1>2. ASSUME NEW w \in Weights
      PROVE  TenTimes(w) \in 0..NUMBER_MOD - 1
  <2>1. w * 10 \in Nat
    BY <1>1 DEF Weights
  <2>. QED  BY <1>1, <2>1, Division DEF TenTimes, Wrapped
<1>. QED  BY <1>1, <1>2

IsWeight(number, g) ==
  g = [w \in Weights |-> IF Grows(number, w) THEN g[TenTimes(w)] ELSE w]

(* The loop of get_decimal_weight ends, since the weight grows.            *)
LEMMA WeightExists ==
  ASSUME NEW number \in Nat
  PROVE  \E g : IsWeight(number, g)
<1>. DEFINE n    == NUMBER_MOD - 2
            W(j) == NUMBER_MOD - 1 - j
            base == [j \in 0..n |-> W(j)]
            deep == {j \in 0..n : Grows(number, W(j))}
            prev == [j \in 0..n |-> NUMBER_MOD - 1 - TenTimes(W(j))]
            step == [j \in 0..n |-> [x \in Weights |-> x]]
<1>1. NUMBER_MOD \in Nat /\ n \in Nat
  BY ModIs
<1>2. \A j \in 0..n : W(j) \in Weights
  BY <1>1 DEF Weights
<1>3. \A j \in deep : /\ TenTimes(W(j)) \in Weights /\ j \in 1..n
                      /\ prev[j] \in 0..j - 1
  <2>. SUFFICES ASSUME NEW j \in 0..n, Grows(number, W(j))
                PROVE  /\ TenTimes(W(j)) \in Weights /\ j \in 1..n
                       /\ NUMBER_MOD - 1 - TenTimes(W(j)) \in 0..j - 1
    OBVIOUS
  <2>1. W(j) \in Weights /\ TenTimes(W(j)) \in 0..NUMBER_MOD - 1 /\ TenTimes(W(j)) > W(j)
    BY <1>2, ModIs DEF Grows
  <2>. QED  BY <1>1, <2>1 DEF Weights
<1>4. /\ base \in [0..n -> Weights] /\ deep \in SUBSET (1..n)
      /\ \A i \in deep : prev[i] \in 0..i - 1
      /\ \A i \in deep : step[i] \in [Weights -> Weights]
  BY <1>2, <1>3
<1>5. PICK f : IsDescent(f, n, Weights, base, deep, prev, step)
  <2>. HIDE DEF n, base, deep, prev, step
  <2>. QED  BY <1>1, <1>4, DescentExists
<1>6. /\ f \in [0..n -> Weights]
      /\ \A j \in 0..n : f[j] = IF j \in deep THEN step[j][f[prev[j]]] ELSE base[j]
  BY <1>5 DEF IsDescent
<1>7. \A j \in 0..n : f[j] = IF Grows(number, W(j)) THEN f[NUMBER_MOD - 1 - TenTimes(W(j))]
                             ELSE W(j)
  <2>. SUFFICES ASSUME NEW j \in 0..n
                PROVE  f[j] = IF Grows(number, W(j)) THEN f[NUMBER_MOD - 1 - TenTimes(W(j))]
                              ELSE W(j)
    OBVIOUS
  <2>1. CASE Grows(number, W(j))
    <3>1. j \in deep /\ prev[j] = NUMBER_MOD - 1 - TenTimes(W(j))
      BY <2>1
    <3>2. prev[j] \in 0..n
      BY <1>1, <1>3, <3>1
    <3>3. f[prev[j]] \in Weights
      BY <1>6, <3>2
    <3>4. f[j] = f[prev[j]]
      BY <1>6, <3>1, <3>3
    <3>. QED  BY <2>1, <3>1, <3>4
  <2>2. CASE ~Grows(number, W(j))
    BY <1>6, <2>2
  <2>. QED  BY <2>1, <2>2
<1>. DEFINE g == [w \in Weights |-> f[NUMBER_MOD - 1 - w]]
<1>8. ASSUME NEW w \in Weights
      PROVE  g[w] = IF Grows(number, w) THEN g[TenTimes(w)] ELSE w
  <2>1. PICK j \in 0..n : j = NUMBER_MOD - 1 - w /\ W(j) = w
    BY <1>1 DEF Weights
  <2>2. g[w] = f[j]
    BY <2>1
  <2>3. f[j] = IF Grows(number, w) THEN f[NUMBER_MOD - 1 - TenTimes(w)] ELSE w
    BY <1>7, <2>1
  <2>4. Grows(number, w) => TenTimes(w) \in Weights
    <3>1. Grows(number, w) => j \in deep
      BY <2>1
    <3>. HIDE DEF deep
    <3>. QED  BY <1>3, <2>1, <3>1
  <2>5. Grows(number, w) => g[TenTimes(w)] = f[NUMBER_MOD - 1 - TenTimes(w)]
    BY <2>4
  <2>. HIDE DEF g
  <2>. QED  BY <2>2, <2>3, <2>5
<1>9. IsWeight(number, g)
  BY <1>8 DEF IsWeight
<1>. QED  BY <1>9

(* Whatever the loop keeps true of the weight is true of its result.       *)
LEMMA WeightKeeps ==
  ASSUME NEW number \in Nat, NEW S, S \subseteq Weights, NEW T, 1 \in S,
         \A w \in S : IF Grows(number, w) THEN TenTimes(w) \in S ELSE w \in T
  PROVE  GetDecimalWeight(number) \in T
<1>1. GetDecimalWeight(number) = (CHOOSE g : IsWeight(number, g))[1]
  BY DEF GetDecimalWeight, IsWeight, Grows, TenTimes, Wrapped, Weights
<1>2. PICK g : IsWeight(number, g) /\ GetDecimalWeight(number) = g[1]
  <2>1. IsWeight(number, CHOOSE g : IsWeight(number, g))
    BY WeightExists
  <2>. QED  BY <1>1, <2>1
<1>3. \A w \in Weights : g[w] = IF Grows(number, w) THEN g[TenTimes(w)] ELSE w
  BY <1>2 DEF IsWeight
<1>. DEFINE Bad == {k \in Nat : \E w \in S : k = NUMBER_MOD - w /\ g[w] \notin T}
<1>4. Bad = {}
  <2>. SUFFICES ASSUME Bad # {} PROVE FALSE
    OBVIOUS
  <2>1. Bad \subseteq Nat
    OBVIOUS
  <2>2. PICK k \in Bad : \A m \in Bad : k <= m
    BY <2>1, LeastNumber
  <2>3. PICK w \in S : k = NUMBER_MOD - w /\ g[w] \notin T
    BY <2>2
  <2>4. w \in Weights /\ Grows(number, w)
    BY <1>3, <2>3
  <2>5. TenTimes(w) \in S /\ g[TenTimes(w)] \notin T
    BY <1>3, <2>3, <2>4
  <2>6. TenTimes(w) > w /\ w \in Nat /\ TenTimes(w) \in Nat /\ TenTimes(w) < NUMBER_MOD
        /\ NUMBER_MOD \in Nat
    BY <2>4, ModIs DEF Grows, Weights
  <2>7. NUMBER_MOD - TenTimes(w) \in Bad
    BY <2>5, <2>6
  <2>. QED  BY <2>2, <2>3, <2>6, <2>7
<1>5. NUMBER_MOD - 1 \in Nat
  BY ModIs
<1>. QED  BY <1>2, <1>4, <1>5

LEMMA WeightInRange ==
  ASSUME NEW number \in Nat
  PROVE  GetDecimalWeight(number) \in Weights
<1>1. \A w \in Weights : IF Grows(number, w) THEN TenTimes(w) \in Weights ELSE w \in Weights
  BY ModIs DEF Grows, Weights
<1>2. 1 \in Weights
  BY ModIs DEF Weights
<1>. QED  BY <1>1, <1>2, WeightKeeps

LEMMA FiguresJoined ==
  \A a, b, c \in Seq(Figures) : (a \o b) \o c = a \o (b \o c)
<1>. SUFFICES ASSUME NEW a \in Seq(Figures), NEW b \in Seq(Figures), NEW c \in Seq(Figures)
              PROVE  (a \o b) \o c = a \o (b \o c)
  OBVIOUS
<1>. QED  BY ConcatAssociative

Place(number, w) == Digit((number \div w) % 10)

IsDigits(number, f) ==
  f = [w \in 0..NUMBER_MOD - 1 |->
         IF w = 0 THEN <<>> ELSE <<Place(number, w)>> \o f[w \div 10]]

(* The loop of divisions, from each weight on.                             *)
LEMMA DigitsFrom ==
  ASSUME NEW number \in Nat
  PROVE  \E f \in [0..NUMBER_MOD - 1 -> Seq(Figures)] :
           /\ f[0] = <<>>
           /\ \A w \in Weights : /\ Place(number, w) \in Figures
                                 /\ f[w] = <<Place(number, w)>> \o f[w \div 10]
           /\ DigitsOf(number) = f[GetDecimalWeight(number)]
<1>. DEFINE n    == NUMBER_MOD - 1
            X    == Seq(Figures)
            base == [w \in 0..n |-> <<>>]
            prev == [w \in 0..n |-> w \div 10]
            step == [w \in 0..n |-> [x \in X |-> <<Place(number, w)>> \o x]]
<1>1. n \in Nat /\ 1..n = Weights
  BY ModIs DEF Weights
<1>2. \A w \in 1..n : Place(number, w) \in Figures
  <2>. SUFFICES ASSUME NEW w \in Nat \ {0} PROVE Place(number, w) \in Figures
    BY <1>1
  <2>1. number \div w \in Nat
    BY Division
  <2>2. (number \div w) % 10 \in 0..9
    BY <2>1, Division
  <2>. QED  BY <2>2, DigitIs DEF Place
<1>3. \A w \in 1..n : w \div 10 \in 0..w - 1 /\ w \in 0..n /\ w \div 10 \in 0..n
  <2>. HIDE DEF n
  <2>. QED  BY <1>1
<1>4. /\ base \in [0..n -> X]
      /\ 1..n \in SUBSET (1..n)
      /\ \A w \in 1..n : prev[w] \in 0..w - 1
      /\ \A w \in 1..n : step[w] \in [X -> X]
  <2>1. <<>> \in X
    OBVIOUS
  <2>2. \A w \in 1..n : \A x \in X : <<Place(number, w)>> \o x \in X
    BY <1>2
  <2>. HIDE DEF n, X
  <2>. QED  BY <1>3, <2>1, <2>2
<1>5. PICK f : IsDescent(f, n, X, base, 1..n, prev, step)
  <2>. HIDE DEF n, base, prev, step, X
  <2>. QED  BY <1>1, <1>4, DescentExists
<1>6. /\ f \in [0..n -> X] /\ f[0] = <<>>
      /\ \A w \in 1..n : f[w] = <<Place(number, w)>> \o f[w \div 10]
  <2>1. /\ f \in [0..n -> X]
        /\ \A w \in 0..n : f[w] = IF w \in 1..n THEN step[w][f[prev[w]]] ELSE base[w]
    BY <1>5 DEF IsDescent
  <2>2. 0 \in 0..n /\ 0 \notin 1..n
    BY <1>1
  <2>3. ASSUME NEW w \in 1..n
        PROVE  f[w] = <<Place(number, w)>> \o f[w \div 10]
    <3>1. f[w \div 10] \in X /\ w \in 0..n
      BY <1>3, <2>1
    <3>. HIDE DEF X, n
    <3>. QED  BY <2>1, <3>1
  <2>. HIDE DEF X, n
  <2>. QED  BY <2>1, <2>2, <2>3
<1>7. IsDigits(number, f)
  <2>1. \A w \in 0..n : w = 0 \/ w \in 1..n
    BY <1>1
  <2>2. \A w \in 0..n : f[w] = IF w = 0 THEN <<>> ELSE <<Place(number, w)>> \o f[w \div 10]
    <3>. HIDE DEF X, n
    <3>. QED  BY <1>6, <2>1
  <2>. HIDE DEF X
  <2>. QED  BY <1>6, <2>2 DEF IsDigits
<1>8. \A g : IsDigits(number, g) => g = f
  <2>. SUFFICES ASSUME NEW g, IsDigits(number, g) PROVE g = f
    OBVIOUS
  <2>1. /\ g = [w \in 0..n |-> g[w]] /\ g[0] = <<>>
        /\ \A w \in 1..n : g[w] = <<Place(number, w)>> \o g[w \div 10]
    <3>1. g = [w \in 0..n |-> IF w = 0 THEN <<>>
                              ELSE <<Place(number, w)>> \o g[w \div 10]]
      BY DEF IsDigits
    <3>2. 0 \in 0..n /\ \A w \in 1..n : w \in 0..n /\ w # 0
      BY <1>1
    <3>. HIDE DEF n
    <3>. QED  BY <3>1, <3>2
  <2>2. OnInterval(g, n) /\ OnInterval(f, n)
    BY <1>6, <2>1 DEF OnInterval
  <2>3. ASSUME NEW i \in 0..n, \A j \in 0..i - 1 : g[j] = f[j]
        PROVE  g[i] = f[i]
    <3>1. i = 0 \/ i \in 1..n
      BY <1>1
    <3>2. i \in 1..n => g[i \div 10] = f[i \div 10]
      BY <1>3, <2>3
    <3>. HIDE DEF n
    <3>. QED  BY <1>6, <2>1, <3>1, <3>2
  <2>. HIDE DEF n
  <2>. QED  BY <1>1, <2>2, <2>3, SameDescent
<1>9. DigitsOf(number) = (CHOOSE g : IsDigits(number, g))[GetDecimalWeight(number)]
  BY DEF DigitsOf, IsDigits, Place
<1>10. DigitsOf(number) = f[GetDecimalWeight(number)]
  BY <1>7, <1>8, <1>9
<1>. QED  BY <1>1, <1>2, <1>6, <1>10

LEMMA DigitsAreFigures ==
  ASSUME NEW number \in Nat
  PROVE  DigitsOf(number) \in Seq(Figures)
<1>1. PICK f \in [0..NUMBER_MOD - 1 -> Seq(Figures)] :
        DigitsOf(number) = f[GetDecimalWeight(number)]
  BY DigitsFrom
<1>2. GetDecimalWeight(number) \in 0..NUMBER_MOD - 1
  <2>1. GetDecimalWeight(number) \in Weights
    BY WeightInRange
  <2>2. Weights \subseteq 0..NUMBER_MOD - 1
    BY ModIs DEF Weights
  <2>. QED  BY <2>1, <2>2
<1>. QED  BY <1>1, <1>2

IsDecimal(number, f) ==
  f = [m \in 0..number |->
         IF m < 10 THEN <<Digit(m)>> ELSE Append(f[m \div 10], Digit(m % 10))]

LEMMA DecimalOf ==
  ASSUME NEW number \in Nat
  PROVE  \E f \in [0..number -> Seq(Figures)] :
           /\ \A m \in 0..number :
                f[m] = IF m < 10 THEN <<Digit(m)>> ELSE Append(f[m \div 10], Digit(m % 10))
           /\ Decimal(number) = f[number]
<1>. DEFINE X    == Seq(Figures)
            base == [m \in 0..number |-> IF m < 10 THEN <<Digit(m)>> ELSE <<>>]
            deep == 10..number
            prev == [m \in 0..number |-> m \div 10]
            step == [m \in 0..number |-> [x \in X |-> Append(x, Digit(m % 10))]]
<1>1. \A m \in 0..number : /\ m % 10 \in 0..9 /\ m < 10 => m \in 0..9
                           /\ m \in deep <=> ~(m < 10)
  OBVIOUS
<1>2. \A m \in 0..number : /\ Digit(m % 10) \in Figures
                           /\ m < 10 => Digit(m) \in Figures
  BY <1>1, DigitIs
<1>3. \A m \in deep : m \div 10 \in 0..m - 1 /\ m \in 0..number /\ m \div 10 \in 0..number
  OBVIOUS
<1>4. /\ base \in [0..number -> X]
      /\ deep \in SUBSET (1..number)
      /\ \A m \in deep : prev[m] \in 0..m - 1
      /\ \A m \in deep : step[m] \in [X -> X]
  <2>1. \A m \in 0..number : (IF m < 10 THEN <<Digit(m)>> ELSE <<>>) \in X
    BY <1>2
  <2>2. \A m \in deep : \A x \in X : Append(x, Digit(m % 10)) \in X
    BY <1>2, <1>3
  <2>3. deep \in SUBSET (1..number)
    OBVIOUS
  <2>. HIDE DEF X, deep
  <2>. QED  BY <1>3, <2>1, <2>2, <2>3
<1>5. PICK f : IsDescent(f, number, X, base, deep, prev, step)
  <2>. HIDE DEF base, deep, prev, step, X
  <2>. QED  BY <1>4, DescentExists
<1>6. /\ f \in [0..number -> X]
      /\ \A m \in 0..number :
           f[m] = IF m < 10 THEN <<Digit(m)>> ELSE Append(f[m \div 10], Digit(m % 10))
  <2>1. /\ f \in [0..number -> X]
        /\ \A m \in 0..number : f[m] = IF m \in deep THEN step[m][f[prev[m]]] ELSE base[m]
    BY <1>5 DEF IsDescent
  <2>2. ASSUME NEW m \in 0..number
        PROVE  f[m] = IF m < 10 THEN <<Digit(m)>> ELSE Append(f[m \div 10], Digit(m % 10))
    <3>1. CASE m < 10
      <4>1. m \notin deep
        BY <1>1, <3>1
      <4>. HIDE DEF deep, X
      <4>. QED  BY <2>1, <3>1, <4>1
    <3>2. CASE ~(m < 10)
      <4>1. m \in deep
        BY <1>1, <3>2
      <4>2. f[m \div 10] \in X
        BY <1>3, <2>1, <4>1
      <4>. HIDE DEF deep, X
      <4>. QED  BY <2>1, <3>2, <4>1, <4>2
    <3>. QED  BY <3>1, <3>2
  <2>. QED  BY <2>1, <2>2
<1>7. IsDecimal(number, f)
  <2>. HIDE DEF X
  <2>. QED  BY <1>6 DEF IsDecimal
<1>8. \A g : IsDecimal(number, g) => g = f
  <2>. SUFFICES ASSUME NEW g, IsDecimal(number, g) PROVE g = f
    OBVIOUS
  <2>1. /\ g = [m \in 0..number |-> g[m]]
        /\ \A m \in 0..number :
             g[m] = IF m < 10 THEN <<Digit(m)>> ELSE Append(g[m \div 10], Digit(m % 10))
    BY DEF IsDecimal
  <2>2. OnInterval(g, number) /\ OnInterval(f, number)
    BY <1>6, <2>1 DEF OnInterval
  <2>3. ASSUME NEW i \in 0..number, \A j \in 0..i - 1 : g[j] = f[j]
        PROVE  g[i] = f[i]
    <3>1. ~(i < 10) => g[i \div 10] = f[i \div 10]
      BY <1>1, <1>3, <2>3
    <3>2. g[i] = IF i < 10 THEN <<Digit(i)>> ELSE Append(g[i \div 10], Digit(i % 10))
      BY <2>1
    <3>3. f[i] = IF i < 10 THEN <<Digit(i)>> ELSE Append(f[i \div 10], Digit(i % 10))
      BY <1>6
    <3>. QED  BY <3>1, <3>2, <3>3
  <2>. QED  BY <2>2, <2>3, SameDescent
<1>9. Decimal(number) = (CHOOSE g : IsDecimal(number, g))[number]
  BY DEF Decimal, IsDecimal
<1>10. Decimal(number) = f[number]
  BY <1>7, <1>8, <1>9
<1>. QED  BY <1>6, <1>10

(* P has the decimal weights of the width of a number, and from the        *)
(* greatest of them the product with ten wraps around to one not greater:  *)
(* what the loop of get_decimal_weight takes for an overflow.              *)
DecimalWeights(P) ==
  /\ P \subseteq Weights /\ 1 \in P
  /\ \A w \in P : w = 1 \/ \E v \in P : w = v * 10
  /\ \A w \in P : IF w * 10 < NUMBER_MOD THEN w * 10 \in P ELSE TenTimes(w) <= w

OverflowShows == \E P : DecimalWeights(P)

(* The weight is that of the first digit.                                  *)
LEMMA WeightOfFirst ==
  ASSUME NEW number \in Nat, number < NUMBER_MOD, NEW P, DecimalWeights(P)
  PROVE  LET w == GetDecimalWeight(number)
         IN w \in P /\ (w <= number \/ w = 1) /\ number < w * 10
<1>. DEFINE S == {w \in P : w <= number \/ w = 1}
            T == {w \in P : (w <= number \/ w = 1) /\ number < w * 10}
<1>1. S \subseteq Weights /\ 1 \in S
  BY DEF DecimalWeights
<1>2. ASSUME NEW w \in S
      PROVE  IF Grows(number, w) THEN TenTimes(w) \in S ELSE w \in T
  <2>1. w \in P /\ w \in Nat /\ w >= 1 /\ w < NUMBER_MOD /\ NUMBER_MOD \in Nat \ {0}
    BY <1>1, ModIs DEF Weights
  <2>2. CASE w * 10 < NUMBER_MOD
    <3>1. w * 10 \in P
      BY <2>1, <2>2 DEF DecimalWeights
    <3>2. w * 10 \in Nat /\ w * 10 < NUMBER_MOD + NUMBER_MOD /\ w * 10 > w
      BY <2>1, <2>2
    <3>3. TenTimes(w) = w * 10
      BY <2>1, <2>2, <3>2, WrapOnce DEF TenTimes
    <3>4. CASE w * 10 <= number
      BY <3>1, <3>2, <3>3, <3>4 DEF Grows
    <3>5. CASE ~(w * 10 <= number)
      <4>1. number < w * 10
        BY <3>2, <3>5
      <4>. QED  BY <3>3, <3>5, <4>1 DEF Grows
    <3>. QED  BY <3>4, <3>5
  <2>3. CASE ~(w * 10 < NUMBER_MOD)
    <3>1. TenTimes(w) <= w
      BY <2>1, <2>3 DEF DecimalWeights
    <3>2. TenTimes(w) \in Nat
      BY <1>1, ModIs
    <3>3. ~Grows(number, w)
      BY <2>1, <3>1, <3>2 DEF Grows
    <3>4. number < w * 10
      BY <2>1, <2>3
    <3>. QED  BY <3>3, <3>4
  <2>. QED  BY <2>2, <2>3
<1>. HIDE DEF S
<1>3. GetDecimalWeight(number) \in T
  <2>. HIDE DEF T
  <2>. QED  BY <1>1, <1>2, WeightKeeps
<1>. QED  BY <1>3

(* print_uint64 and the panic write a number as it is written.             *)
LEMMA DigitsAreDecimal ==
  ASSUME OverflowShows, NEW number \in Nat, number < NUMBER_MOD
  PROVE  DigitsOf(number) = Decimal(number)
<1>1. PICK P : DecimalWeights(P)
  BY DEF OverflowShows
<1>. DEFINE top == GetDecimalWeight(number)
<1>2. top \in P /\ (top <= number \/ top = 1) /\ number < top * 10
  BY <1>1, WeightOfFirst
<1>. HIDE DEF top
<1>3. PICK f \in [0..NUMBER_MOD - 1 -> Seq(Figures)] :
        /\ f[0] = <<>>
        /\ \A w \in Weights : /\ Place(number, w) \in Figures
                              /\ f[w] = <<Place(number, w)>> \o f[w \div 10]
        /\ DigitsOf(number) = f[top]
  BY DigitsFrom DEF top
<1>4. PICK d \in [0..number -> Seq(Figures)] :
        /\ \A m \in 0..number :
             d[m] = IF m < 10 THEN <<Digit(m)>> ELSE Append(d[m \div 10], Digit(m % 10))
        /\ Decimal(number) = d[number]
  BY DecimalOf
<1>5. \A w \in P : w \in Weights /\ w \in Nat \ {0} /\ w < NUMBER_MOD
  BY <1>1, ModIs DEF DecimalWeights, Weights
<1>6. \A w \in P : number \div w \in 0..number
  <2>. SUFFICES ASSUME NEW w \in P PROVE number \div w \in 0..number
    OBVIOUS
  <2>. QED  BY <1>5, QuotientIsLess
<1>. DEFINE Rest(w) == d[number \div w] \o f[w \div 10] = d[number]
            Bad == {w \in P : (w <= number \/ w = 1) /\ ~Rest(w)}
<1>7. Bad = {}
  <2>. SUFFICES ASSUME Bad # {} PROVE FALSE
    OBVIOUS
  <2>1. Bad \subseteq Nat
    BY <1>5
  <2>2. PICK w \in Bad : \A u \in Bad : w <= u
    BY <2>1, LeastNumber
  <2>3. w \in P /\ (w <= number \/ w = 1) /\ ~Rest(w)
    BY <2>2
  <2>4. CASE w = 1
    <3>1. number \div w = number /\ w \div 10 = 0
      BY <2>4
    <3>2. d[number] \o <<>> = d[number]
      BY ConcatEmptySeq
    <3>. QED  BY <1>3, <2>3, <3>1, <3>2
  <2>5. CASE w # 1
    <3>1. PICK v \in P : w = v * 10
      BY <1>1, <2>3, <2>5 DEF DecimalWeights
    <3>2. v \in Nat \ {0} /\ v \in Weights /\ w \div 10 = v /\ v < w /\ w <= number
      BY <1>5, <2>3, <2>5, <3>1
    <3>3. Rest(v)
      <4>1. w \in Nat /\ v \in Nat /\ v < w
        BY <1>5, <2>3, <3>2
      <4>2. v \notin Bad
        <5>. HIDE DEF Bad
        <5>. QED  BY <2>2, <4>1
      <4>3. v <= number
        BY <3>2, <4>1
      <4>. HIDE DEF Rest
      <4>. QED  BY <4>2, <4>3
    <3>. DEFINE p == number \div v
    <3>4. p \in 0..number /\ p >= 10 /\ number \div w = p \div 10
      BY <1>6, <3>1, <3>2, NextQuotient
    <3>5. Place(number, v) = Digit(p % 10)
      BY DEF Place
    <3>. HIDE DEF p
    <3>6. p \div 10 \in 0..number
      BY <3>4
    <3>7. d[p] = Append(d[p \div 10], Digit(p % 10))
      BY <1>4, <3>4
    <3>8. f[v] = <<Digit(p % 10)>> \o f[v \div 10] /\ Digit(p % 10) \in Figures
      BY <1>3, <3>2, <3>5
    <3>9. /\ d[p \div 10] \in Seq(Figures) /\ <<Digit(p % 10)>> \in Seq(Figures)
          /\ f[v \div 10] \in Seq(Figures)
      <4>1. v \div 10 \in 0..NUMBER_MOD - 1
        <5>1. v \in Nat \ {0} /\ v <= NUMBER_MOD - 1 /\ NUMBER_MOD \in Nat
          BY <1>5, <3>2, ModIs
        <5>2. v \div 10 \in 0..v
          BY <5>1, QuotientIsLess
        <5>. QED  BY <5>1, <5>2
      <4>. QED  BY <3>6, <3>8, <4>1
    <3>10. Append(d[p \div 10], Digit(p % 10)) = d[p \div 10] \o <<Digit(p % 10)>>
      BY <3>8, <3>9, AppendIsConcat
    <3>11. (d[p \div 10] \o <<Digit(p % 10)>>) \o f[v \div 10]
             = d[p \div 10] \o (<<Digit(p % 10)>> \o f[v \div 10])
      <4>. DEFINE a == d[p \div 10]
                  b == <<Digit(p % 10)>>
                  c == f[v \div 10]
      <4>1. a \in Seq(Figures) /\ b \in Seq(Figures) /\ c \in Seq(Figures)
        BY <3>9
      <4>. HIDE DEF a, b, c
      <4>2. (a \o b) \o c = a \o (b \o c)
        BY <4>1, FiguresJoined, Zenon
      <4>. QED  BY <4>2 DEF a, b, c
    <3>12. d[p] \o f[v \div 10] = d[number \div w] \o f[w \div 10]
      BY <3>2, <3>4, <3>7, <3>8, <3>10, <3>11
    <3>. QED  BY <2>3, <3>3, <3>12 DEF p
  <2>. QED  BY <2>4, <2>5
<1>8. Rest(top)
  BY <1>2, <1>7
<1>. DEFINE h == number \div top
<1>9. h \in 0..9 /\ h \in 0..number
  <2>1. top \in Nat \ {0}
    BY <1>2, <1>5
  <2>2. h < 10
    BY <1>2, <2>1, NextQuotient
  <2>3. h \in 0..number
    BY <1>2, <1>6
  <2>. HIDE DEF h
  <2>. QED  BY <2>2, <2>3
<1>10. d[h] = <<Place(number, top)>>
  <2>1. Place(number, top) = Digit(h % 10)
    BY DEF Place
  <2>. HIDE DEF h
  <2>2. h % 10 = h
    BY <1>9, LastDigit
  <2>. QED  BY <1>4, <1>9, <2>1, <2>2
<1>11. f[top] = d[h] \o f[top \div 10]
  BY <1>2, <1>3, <1>5, <1>10
<1>. QED  BY <1>3, <1>4, <1>8, <1>11

(* In 64 bits the greatest is 10^19, and ten times that wraps around to    *)
(* 7766279631452241920, which is less.                                     *)
LEMMA OverflowShowsIn64Bits ==
  NUMBER_MOD = 18446744073709551616 => OverflowShows
<1>. SUFFICES ASSUME NUMBER_MOD = 18446744073709551616 PROVE OverflowShows
  OBVIOUS
<1>. DEFINE P    == {1, 10, 100, 1000, 10000, 100000, 1000000, 10000000,
                     100000000, 1000000000, 10000000000, 100000000000,
                     1000000000000, 10000000000000, 100000000000000,
                     1000000000000000, 10000000000000000, 100000000000000000,
                     1000000000000000000, 10000000000000000000}
<1>1. P \subseteq Weights /\ 1 \in P
  BY DEF Weights
<1>2. \A w \in P : w = 1 \/ \E v \in P : w = v * 10
  <2>1. \A w \in P : w = 1 \/ (w \div 10 \in P /\ w = (w \div 10) * 10)
    OBVIOUS
  <2>. HIDE DEF P
  <2>. QED  BY <2>1
<1>3. ASSUME NEW w \in P
      PROVE  IF w * 10 < NUMBER_MOD THEN w * 10 \in P ELSE TenTimes(w) <= w
  <2>1. CASE w = 10000000000000000000
    <3>1. 100000000000000000000 % 18446744073709551616 = 7766279631452241920
      OBVIOUS
    <3>. QED  BY <2>1, <3>1 DEF TenTimes, Wrapped
  <2>2. CASE w # 10000000000000000000
    BY <2>2
  <2>. QED  BY <2>1, <2>2
<1>. HIDE DEF P
<1>. QED  BY <1>1, <1>2, <1>3 DEF OverflowShows, DecimalWeights

(* print_uint64 and a panic write every 64 bit number as it is written in  *)
(* decimal, though the weight of the first digit is found by multiplying   *)
(* until the product overflows.                                            *)
THEOREM NumbersInDecimal ==
  ASSUME NUMBER_MOD = 18446744073709551616, NEW number \in Nat, number < NUMBER_MOD
  PROVE  DigitsOf(number) = Decimal(number)
BY OverflowShowsIn64Bits, DigitsAreDecimal

-----------------------------------------------------------------------------
(* The characters on their way.                                            *)

LEMMA CharactersAre ==
  /\ Figures \subseteq Character
  /\ Seq(Figures) \subseteq Seq(Character)
  /\ {DELETE, ENTER, NUL, "P", "end", "newline", "back", "blank"} \subseteq Character
  /\ Letters \subseteq Character
  /\ \A m \in Messages : m \in Seq(Character)
<1>1. /\ Figures \subseteq Character
      /\ {DELETE, ENTER, NUL, "P", "end", "newline", "back", "blank"} \subseteq Character
      /\ Letters \subseteq Character
      /\ \A m \in Messages : Range(m) \subseteq Character
  BY DEF Character, Figures
<1>. HIDE DEF Character
<1>2. ASSUME NEW m \in Messages
      PROVE  m \in Seq(Character)
  <2>1. m \in Seq(Range(m)) /\ Range(m) \subseteq Character
    BY <1>1, TerminalAssumption
  <2>. QED  BY <2>1, SeqMonotonic
<1>3. Seq(Figures) \subseteq Seq(Character)
  BY <1>1, SeqMonotonic
<1>. QED  BY <1>1, <1>2, <1>3

(* What a call prints.                                                     *)
Printed(c) ==
  CASE c[1] = "string" -> Append(c[2], "end")
    [] c[1] = "number" -> Append(DigitsOf(c[2]), "end")
    [] c[1] = "line"   -> <<>>

LEMMA PrintedIs ==
  ASSUME NEW c \in Calls
  PROVE  Printed(c) \in Seq(Character)
<1>1. CASE \E m \in Messages : c = <<"string", m>>
  <2>1. PICK m \in Messages : c = <<"string", m>>
    BY <1>1
  <2>2. Printed(c) = Append(m, "end")
    BY <2>1 DEF Printed
  <2>3. m \in Seq(Character) /\ "end" \in Character
    BY CharactersAre
  <2>. QED  BY <2>2, <2>3
<1>2. CASE \E n \in Numbers : c = <<"number", n>>
  <2>1. PICK n \in Numbers : c = <<"number", n>>
    BY <1>2
  <2>2. Printed(c) = Append(DigitsOf(n), "end")
    BY <2>1 DEF Printed
  <2>3. n \in Nat
    BY TerminalAssumption
  <2>4. DigitsOf(n) \in Seq(Character) /\ "end" \in Character
    BY <2>3, DigitsAreFigures, CharactersAre
  <2>. QED  BY <2>2, <2>4
<1>3. CASE c = <<"line", MaxLength>>
  <2>1. Printed(c) = <<>>
    BY <1>3 DEF Printed
  <2>. QED  BY <2>1
<1>. QED  BY <1>1, <1>2, <1>3 DEF Calls

LEMMA EchoIs ==
  ASSUME NEW i, NEW key \in Letters \cup {DELETE, ENTER}
  PROVE  Echo(i, key) \in Seq(Character)
<1>1. {"back", "blank", "newline", key} \subseteq Character
  BY CharactersAre
<1>2. Echo(i, key) \in {<<"back", "blank", "back">>, <<>>, <<"newline">>, <<key>>}
  BY DEF Echo
<1>. HIDE DEF Character
<1>3. /\ <<"back", "blank", "back">> \in Seq(Character) /\ <<>> \in Seq(Character)
      /\ <<"newline">> \in Seq(Character) /\ <<key>> \in Seq(Character)
  BY <1>1
<1>. QED  BY <1>2, <1>3

LEMMA EmptyRingIs == EmptyRing \in Rings /\ Contents(EmptyRing) = <<>>
<1>1. Size \in Nat \ {0} /\ NUL \in Character
  BY SizeIs, CharactersAre
<1>2. /\ EmptyRing.head = 0 /\ EmptyRing.tail = 0 /\ EmptyRing.count = 0
      /\ EmptyRing \in Record
  BY <1>1 DEF EmptyRing, Record, Size
<1>3. Wrapped(0 + 0, Size) = 0
  BY <1>1, WrapOnce
<1>4. EmptyRing \in Rings
  BY <1>2, <1>3 DEF Rings
<1>5. Contents(EmptyRing) \in Seq(Character) /\ Len(Contents(EmptyRing)) = 0
  BY <1>2, <1>4, ContentsAre
<1>. QED  BY <1>4, <1>5

RingHolds ==
  /\ putc_buffer \in Rings
  /\ Contents(putc_buffer) = inflight
  /\ out \in [Thread -> Seq(Character)]

RingInv == ~panicked => RingHolds

LEMMA InitRing == Begins => RingInv
<1>. SUFFICES ASSUME Begins PROVE RingHolds
  BY DEF RingInv
<1>1. putc_buffer = EmptyRing /\ inflight = <<>> /\ out = [t \in Thread |-> <<>>]
  BY DEF Begins, Nothing
<1>. QED  BY <1>1, EmptyRingIs DEF RingHolds

LEMMA RingUnmoved ==
  RingInv /\ UNCHANGED <<putc_buffer, inflight, out, panicked>> => RingInv'
  BY DEF RingInv, RingHolds, Contents, Rings

LEMMA PutcKeepsRing ==
  ASSUME RingHolds, NEW t \in Thread, Putc(t)
  PROVE  RingHolds'
<1>1. /\ out[t] # <<>> /\ out \in [Thread -> Seq(Character)] /\ putc_buffer \in Rings
      /\ putc_buffer.count < Size /\ inflight = Contents(putc_buffer)
      /\ putc_buffer' = PutChar(putc_buffer, Head(out[t]))
      /\ inflight' = Append(inflight, Head(out[t]))
      /\ out' = [out EXCEPT ![t] = Tail(@)]
  BY DEF Putc, RingHolds, Size
<1>2. out[t] \in Seq(Character)
  BY <1>1
<1>3. Head(out[t]) \in Character /\ Tail(out[t]) \in Seq(Character)
  BY <1>1, <1>2, HeadTailProperties
<1>4. /\ putc_buffer' \in Rings
      /\ Contents(putc_buffer') = inflight'
  BY <1>1, <1>3, PutCharAppends
<1>5. out' \in [Thread -> Seq(Character)]
  BY <1>1, <1>3
<1>. QED  BY <1>4, <1>5 DEF RingHolds, Contents

LEMMA PutcUnlockedKeepsRing ==
  ASSUME RingHolds, NEW t \in Thread, NEW c \in Singles, PutcUnlocked(t, c)
  PROVE  RingHolds'
<1>1. /\ out \in [Thread -> Seq(Character)] /\ putc_buffer \in Rings
      /\ putc_buffer.count < Size /\ inflight = Contents(putc_buffer)
      /\ putc_buffer' = PutChar(putc_buffer, c)
      /\ inflight' = Append(inflight, c)
      /\ out' = out
  BY DEF PutcUnlocked, RingHolds, Size, text
<1>2. c \in Character
  BY DEF Character
<1>3. /\ putc_buffer' \in Rings
      /\ Contents(putc_buffer') = inflight'
  BY <1>1, <1>2, PutCharAppends
<1>. QED  BY <1>1, <1>3 DEF RingHolds, Contents

LEMMA FlushKeepsRing ==
  ASSUME RingHolds, NEW n \in Nat, Flush(n)
  PROVE  RingHolds'
<1>1. /\ putc_buffer \in Rings /\ inflight = Contents(putc_buffer)
      /\ out \in [Thread -> Seq(Character)]
      /\ n <= putc_buffer.count
      /\ putc_buffer' = Flushed(putc_buffer, n)
      /\ inflight' = SubSeq(inflight, n + 1, Len(inflight))
      /\ out' = out
  BY DEF Flush, RingHolds, text
<1>2. n \in 0..putc_buffer.count /\ Len(inflight) = putc_buffer.count
  BY <1>1, ContentsAre
<1>3. /\ putc_buffer' \in Rings
      /\ Contents(putc_buffer') = inflight'
  BY <1>1, <1>2, FlushedTakes
<1>. QED  BY <1>1, <1>3 DEF RingHolds, Contents

LEMMA NextRing == RingInv /\ [~panicked /\ Moves]_all => RingInv'
<1>. SUFFICES ASSUME RingInv, [~panicked /\ Moves]_all
              PROVE  RingInv'
  OBVIOUS
<1>1. CASE UNCHANGED all
  BY <1>1, RingUnmoved DEF all, text
<1>2. ASSUME ~panicked, NEW t \in Thread, Begin(t) \/ Initialize(t) \/ Mark(t),
             UNCHANGED <<text, putc_buffer, panicked, inflight, shown>>
      PROVE  RingInv'
  BY <1>2, RingUnmoved DEF text
<1>3. ASSUME ~panicked, NEW t \in Thread, NEW c \in Calls, Call(t, c)
      PROVE  RingInv'
  <2>1. /\ out' = [out EXCEPT ![t] = Printed(c)]
        /\ UNCHANGED <<putc_buffer, inflight, panicked>>
    BY <1>3 DEF Call, Printed
  <2>2. out' \in [Thread -> Seq(Character)]
    BY <1>3, <2>1, PrintedIs DEF RingInv, RingHolds
  <2>. QED  BY <1>3, <2>1, <2>2 DEF RingInv, RingHolds, Contents, Rings
<1>4. ASSUME ~panicked, NEW t \in Thread, Locking(t) \/ Unlocking(t)
      PROVE  RingInv'
  BY <1>4, RingUnmoved DEF Locking, Unlocking
<1>5. ASSUME ~panicked, NEW t \in Thread, Putc(t)
      PROVE  RingInv'
  BY <1>5, PutcKeepsRing DEF RingInv, Putc
<1>6. ASSUME ~panicked, NEW t \in Thread, NEW key \in Keys(t), Type(t, key)
      PROVE  RingInv'
  <2>1. /\ out' = [out EXCEPT ![t] = Echo(line[t].i, key)]
        /\ UNCHANGED <<putc_buffer, inflight, panicked>>
    BY <1>6 DEF Type
  <2>2. key \in Letters \cup {DELETE, ENTER}
    BY DEF Keys
  <2>3. out' \in [Thread -> Seq(Character)]
    BY <1>6, <2>1, <2>2, EchoIs DEF RingInv, RingHolds
  <2>. QED  BY <1>6, <2>1, <2>3 DEF RingInv, RingHolds, Contents, Rings
<1>7. ASSUME ~panicked, NEW n \in 1..IO_BUFFER_SIZE, Flush(n)
      PROVE  RingInv'
  <2>1. n \in Nat
    OBVIOUS
  <2>. QED  BY <1>7, <2>1, FlushKeepsRing DEF RingInv, Flush
<1>8. ASSUME NEW sepc, NEW n, NEW m, KernelPanic(sepc, n, m)
      PROVE  RingInv'
  BY <1>8 DEF KernelPanic, RingInv
<1>9. ASSUME ~panicked, NEW t \in Thread, NEW c \in Singles, PutcUnlocked(t, c)
      PROVE  RingInv'
  BY <1>9, PutcUnlockedKeepsRing DEF RingInv, PutcUnlocked
<1>. QED  BY <1>1, <1>2, <1>3, <1>4, <1>5, <1>6, <1>7, <1>8, <1>9 DEF Moves, Working

(* What the flush thread takes out of the ring is what the threads put in, *)
(* in this order, for a ring of any size and wherever head and tail are.   *)
THEOREM PutcBufferIsQueue == TerminalSpec => []RingIsQueue
<1>1. RingInv => RingIsQueue
  BY DEF RingInv, RingHolds, RingIsQueue
<1>. QED  BY <1>1, InitRing, NextRing, PTL DEF TerminalSpec

-----------------------------------------------------------------------------
(* The message of a panic.                                                 *)

LEMMA CharactersJoined ==
  \A a, b, c \in Seq(Character) : (a \o b) \o c = a \o (b \o c)
<1>. SUFFICES ASSUME NEW a \in Seq(Character), NEW b \in Seq(Character),
                     NEW c \in Seq(Character)
              PROVE  (a \o b) \o c = a \o (b \o c)
  OBVIOUS
<1>. QED  BY ConcatAssociative

LEMMA SplitSeq ==
  ASSUME NEW S, NEW s \in Seq(S), NEW n \in 0..Len(s)
  PROVE  /\ SubSeq(s, 1, n) \in Seq(S) /\ Len(SubSeq(s, 1, n)) = n
         /\ SubSeq(s, n + 1, Len(s)) \in Seq(S)
         /\ SubSeq(s, 1, n) \o SubSeq(s, n + 1, Len(s)) = s
<1>1. Len(s) \in Nat /\ \A i \in 1..Len(s) : s[i] \in S
  BY LenProperties, ElementOfSeq
<1>2. SubSeq(s, 1, n) \in Seq(S) /\ Len(SubSeq(s, 1, n)) = n
  <2>1. \A i \in 1..n : s[i] \in S
    BY <1>1
  <2>2. (IF 1 <= n THEN n - 1 + 1 ELSE 0) = n
    BY <1>1
  <2>. QED  BY <2>1, <2>2, SubSeqProperties
<1>3. SubSeq(s, n + 1, Len(s)) \in Seq(S)
  <2>1. \A i \in n + 1..Len(s) : s[i] \in S
    BY <1>1
  <2>2. n + 1 \in Int /\ Len(s) \in Int
    BY <1>1
  <2>. QED  BY <2>1, <2>2, SubSeqProperties
<1>4. SubSeq(s, 1, n) \o SubSeq(s, n + 1, Len(s)) = SubSeq(s, 1, Len(s))
  <2>1. 1 \in 1..Len(s) + 1 /\ n \in 1 - 1..Len(s) /\ Len(s) \in n..Len(s)
    BY <1>1
  <2>. QED  BY <2>1, ConcatAdjacentSubSeq
<1>. QED  BY <1>2, <1>3, <1>4, SubSeqFull

LEMMA PrefixOfConcat ==
  ASSUME NEW a \in Seq(Character), NEW b \in Seq(Character), NEW k \in 0..Len(b)
  PROVE  IsPrefix(a \o SubSeq(b, 1, k), a \o b)
<1>. DEFINE x == SubSeq(b, 1, k)
            y == SubSeq(b, k + 1, Len(b))
            u == a \o x
<1>1. x \in Seq(Character) /\ y \in Seq(Character) /\ x \o y = b
  BY SplitSeq
<1>. HIDE DEF x, y
<1>2. u \in Seq(Character) /\ u \o y = a \o b
  <2>1. u \in Seq(Character)
    BY <1>1, ConcatProperties
  <2>2. (a \o x) \o y = a \o (x \o y)
    <3>1. a \in Seq(Character) /\ x \in Seq(Character) /\ y \in Seq(Character)
      BY <1>1
    <3>. QED  BY <3>1, CharactersJoined, Zenon
  <2>. QED  BY <1>1, <2>1, <2>2
<1>. HIDE DEF u
<1>3. /\ u \o y \in Seq(Character) /\ Len(u \o y) = Len(u) + Len(y)
      /\ \A i \in 1..Len(u) + Len(y) : (u \o y)[i] = IF i <= Len(u) THEN u[i] ELSE y[i - Len(u)]
  BY <1>1, <1>2, ConcatProperties
<1>4. Len(u) \in Nat /\ Len(y) \in Nat /\ \A i \in 1..Len(u) : u[i] \in Character
  BY <1>1, <1>2, LenProperties, ElementOfSeq
<1>. DEFINE p == SubSeq(u \o y, 1, Len(u))
<1>5. \A i \in 1..Len(u) : (u \o y)[i] = u[i] /\ (u \o y)[i] \in Character
  BY <1>3, <1>4
<1>6. /\ p \in Seq(Character) /\ Len(p) = Len(u)
      /\ \A i \in 1..Len(u) : p[i] = (u \o y)[i]
  <2>1. /\ (IF 1 <= Len(u) THEN Len(u) - 1 + 1 ELSE 0) = Len(u) /\ Len(u) - 1 + 1 = Len(u)
        /\ Len(u) \in Int /\ \A i \in 1..Len(u) : 1 + i - 1 = i
    BY <1>4
  <2>2. /\ p \in Seq(Character)
        /\ Len(p) = IF 1 <= Len(u) THEN Len(u) - 1 + 1 ELSE 0
        /\ \A i \in 1..Len(u) - 1 + 1 : p[i] = (u \o y)[1 + i - 1]
    BY <1>5, <2>1, SubSeqProperties
  <2>. QED  BY <2>1, <2>2
<1>. HIDE DEF p
<1>7. p = u
  BY <1>2, <1>5, <1>6, SeqEqual
<1>8. SubSeq(u, 1, Len(u)) = u
  BY <1>2, SubSeqFull
<1>. QED
  <2>1. Len(u) <= Len(u \o y) /\ SubSeq(u, 1, Len(u)) = SubSeq(u \o y, 1, Len(u))
    BY <1>3, <1>4, <1>7, <1>8 DEF p
  <2>2. IsPrefix(u, u \o y)
    BY <2>1 DEF IsPrefix
  <2>. QED  BY <1>2, <2>2 DEF u, x

(* The ring is flushed of n, given what fits of a message, and flushed of  *)
(* m: what came out and what is left are the two one after the other.      *)
Output(q, n, full, m) ==
  (SubSeq(Contents(q), 1, n) \o SubSeq(Contents(full), 1, m)) \o Contents(Flushed(full, m))

ShowsThen(q, s, output) ==
  \E k \in 0..Len(s) : /\ output = Contents(q) \o SubSeq(s, 1, k)
                       /\ k = Len(s) \/ Len(output) >= Size

LEMMA FlushPutFlush ==
  ASSUME NEW q \in Rings, NEW s \in Seq(Character), NEW n \in 0..q.count,
         NEW full, full = PutAll(Flushed(q, n), s), NEW m \in 0..full.count
  PROVE  ShowsThen(q, s, Output(q, n, full, m))
<1>. DEFINE C == Contents(q)
            F == Contents(full)
            a == SubSeq(C, 1, n)
            b == SubSeq(C, n + 1, q.count)
            e == SubSeq(F, 1, m)
            g == SubSeq(F, m + 1, full.count)
            output == Output(q, n, full, m)
<1>1. C \in Seq(Character) /\ Len(C) = q.count /\ q.count \in Nat
  BY ContentsAre
<1>2. Flushed(q, n) \in Rings /\ Contents(Flushed(q, n)) = b
  BY FlushedTakes
<1>3. PICK k \in 0..Len(s) : /\ full \in Rings
                             /\ F = Contents(Flushed(q, n)) \o SubSeq(s, 1, k)
                             /\ k = Len(s) \/ full.count = Size
  BY <1>2, PutAllAppends
<1>4. F \in Seq(Character) /\ Len(F) = full.count /\ full.count \in Nat
  BY <1>3, ContentsAre
<1>5. Contents(Flushed(full, m)) = g
  BY <1>3, FlushedTakes
<1>6. a \in Seq(Character) /\ Len(a) = n /\ b \in Seq(Character) /\ a \o b = C
  BY <1>1, SplitSeq
<1>7. e \in Seq(Character) /\ g \in Seq(Character) /\ e \o g = F
  BY <1>4, SplitSeq
<1>. DEFINE z == SubSeq(s, 1, k)
<1>8. z \in Seq(Character)
  BY SplitSeq
<1>9. F = b \o z
  BY <1>2, <1>3
<1>10. output = (a \o e) \o g
  BY <1>5 DEF Output
<1>. HIDE DEF C, F, a, b, e, g, z, output
<1>11. output = a \o F
  <2>1. (a \o e) \o g = a \o (e \o g)
    <3>1. a \in Seq(Character) /\ e \in Seq(Character) /\ g \in Seq(Character)
      BY <1>6, <1>7
    <3>. QED  BY <3>1, CharactersJoined, Zenon
  <2>. QED  BY <1>7, <1>10, <2>1
<1>12. a \o F = C \o z
  <2>1. (a \o b) \o z = a \o (b \o z)
    <3>1. a \in Seq(Character) /\ b \in Seq(Character) /\ z \in Seq(Character)
      BY <1>6, <1>8
    <3>. QED  BY <3>1, CharactersJoined, Zenon
  <2>. QED  BY <1>6, <1>9, <2>1
<1>13. Len(output) = n + Len(F)
  BY <1>4, <1>6, <1>11, ConcatProperties
<1>14. full.count = Size => Len(output) >= Size
  BY <1>4, <1>13, SizeIs
<1>. QED  BY <1>3, <1>11, <1>12, <1>14 DEF C, z, output, ShowsThen

LEMMA MessageIs ==
  ASSUME OverflowShows, NEW sepc \in Numbers, NEW i \in Seq(Character)
  PROVE  LET s == Panic \o DigitsOf(sepc) \o <<"newline">>
         IN /\ s \in Seq(Character)
            /\ i \o Panic \o Decimal(sepc) \o <<"newline">> = i \o s
<1>. DEFINE d == DigitsOf(sepc)
            p == Panic
            l == <<"newline">>
<1>1. sepc \in Nat /\ sepc < NUMBER_MOD
  BY TerminalAssumption
<1>2. d = Decimal(sepc) /\ d \in Seq(Figures)
  BY <1>1, DigitsAreDecimal, DigitsAreFigures
<1>3. d \in Seq(Character) /\ "P" \in Character /\ "newline" \in Character
  BY <1>2, CharactersAre
<1>4. p \in Seq(Character) /\ l \in Seq(Character)
  BY <1>3 DEF Panic
<1>. HIDE DEF d, p, l
<1>5. p \o d \in Seq(Character) /\ (p \o d) \o l \in Seq(Character)
  BY <1>3, <1>4, ConcatProperties
<1>6. (i \o p) \o d = i \o (p \o d)
  BY SMTT(40), <1>3, <1>4, ConcatAssociative
<1>7. (i \o (p \o d)) \o l = i \o ((p \o d) \o l)
  BY SMTT(40), <1>4, <1>5, ConcatAssociative
<1>. QED  BY <1>2, <1>5, <1>6, <1>7 DEF d, p, l

PanicInv == RingInv /\ PanicInOrder

LEMMA PanicShows ==
  ASSUME OverflowShows, RingHolds, NEW sepc \in Numbers, NEW n \in Nat, NEW m \in Nat,
         KernelPanic(sepc, n, m)
  PROVE  PanicInOrder'
<1>. DEFINE q == putc_buffer
            s == Panic \o DigitsOf(sepc) \o <<"newline">>
            full == PutAll(Flushed(q, n), s)
            output == shown' \o Contents(putc_buffer)'
<1>1. /\ q \in Rings /\ inflight = Contents(q)
      /\ n <= q.count /\ m <= full.count /\ putc_buffer' = Flushed(full, m)
      /\ shown' = SubSeq(Contents(q), 1, n) \o SubSeq(Contents(full), 1, m)
      /\ inflight' = inflight \o Panic \o Decimal(sepc) \o <<"newline">>
  BY DEF KernelPanic, RingHolds
<1>2. Contents(putc_buffer)' = Contents(Flushed(full, m))
  BY <1>1 DEF Contents
<1>3. inflight \in Seq(Character) /\ q.count \in Nat
  BY <1>1, ContentsAre
<1>4. s \in Seq(Character) /\ inflight' = inflight \o s
  BY <1>1, <1>3, MessageIs
<1>5. output = Output(q, n, full, m)
  BY <1>1, <1>2 DEF Output
<1>. HIDE DEF output, s
<1>6. n \in 0..q.count
  BY <1>1, <1>3
<1>7. full \in Rings
  BY <1>1, <1>4, <1>6, FlushedTakes, PutAllAppends
<1>8. full.count \in Nat /\ m \in 0..full.count
  BY <1>1, <1>7, ContentsAre
<1>. HIDE DEF q
<1>9. PICK k \in 0..Len(s) : /\ output = Contents(q) \o SubSeq(s, 1, k)
                             /\ k = Len(s) \/ Len(output) >= Size
  <2>. HIDE DEF full
  <2>1. full = PutAll(Flushed(q, n), s)
    BY DEF full
  <2>2. q \in Rings /\ s \in Seq(Character)
    BY <1>1, <1>4
  <2>3. ShowsThen(q, s, Output(q, n, full, m))
    BY <1>6, <1>8, <2>1, <2>2, FlushPutFlush
  <2>. QED  BY <1>5, <2>3 DEF ShowsThen
<1>10. IsPrefix(output, inflight')
  BY <1>1, <1>3, <1>4, <1>9, PrefixOfConcat
<1>11. k = Len(s) => output = inflight'
  BY <1>1, <1>4, <1>9, SubSeqFull
<1>. QED  BY <1>9, <1>10, <1>11 DEF PanicInOrder, output, Size

LEMMA NextPanic ==
  ASSUME OverflowShows
  PROVE  PanicInv /\ [~panicked /\ Moves]_all => PanicInv'
<1>. SUFFICES ASSUME PanicInv, [~panicked /\ Moves]_all
              PROVE  PanicInOrder'
  BY NextRing DEF PanicInv
<1>1. CASE UNCHANGED all
  BY <1>1 DEF all, PanicInv, PanicInOrder, Contents
<1>2. ASSUME ~panicked, NEW sepc \in Numbers, NEW n \in 0..IO_BUFFER_SIZE,
             NEW m \in 0..IO_BUFFER_SIZE, KernelPanic(sepc, n, m)
      PROVE  PanicInOrder'
  <2>1. n \in Nat /\ m \in Nat /\ RingHolds
    BY <1>2 DEF PanicInv, RingInv
  <2>. QED  BY <1>2, <2>1, PanicShows
<1>3. CASE ~panicked /\ panicked' = panicked
  BY <1>3 DEF PanicInOrder
<1>4. ~panicked /\ Moves =>
        \/ panicked' = panicked
        \/ \E sepc \in Numbers, n, m \in 0..IO_BUFFER_SIZE : KernelPanic(sepc, n, m)
  BY DEF Moves, Working, Call, Locking, Putc, PutcUnlocked, Type, Unlocking, Flush
<1>. QED  BY <1>1, <1>2, <1>3, <1>4

(* At a panic the console shows what threads had printed, then the message *)
(* with the address in decimal, and loses only what does not fit.          *)
THEOREM PanicIsShown ==
  ASSUME OverflowShows
  PROVE  TerminalSpec => []PanicInOrder
<1>1. Begins => PanicInv
  BY InitRing DEF Begins, PanicInv, PanicInOrder
<1>2. PanicInv => PanicInOrder
  BY DEF PanicInv
<1>. QED  BY <1>1, <1>2, NextPanic, PTL DEF TerminalSpec

-----------------------------------------------------------------------------
(* What a thread prints while it holds the lock.                           *)

(* The threads between the test of initialized and the lock.               *)
Lining == {"initialize", "mark", "wait", "blocked"}

(* The whole of what a call is to print.                                   *)
Whole(c) == Append(IF c[1] = "string" THEN c[2] ELSE Decimal(c[2]), "end")

LEMMA PrintedIsWhole ==
  ASSUME OverflowShows, NEW c \in Calls
  PROVE  /\ c[1] = "line" => Printed(c) = <<>>
         /\ c[1] # "line" => Printed(c) = Whole(c)
<1>1. CASE \E m \in Messages : c = <<"string", m>>
  BY <1>1 DEF Printed, Whole
<1>2. CASE \E n \in Numbers : c = <<"number", n>>
  <2>1. PICK n \in Numbers : c = <<"number", n>>
    BY <1>2
  <2>2. n \in Nat /\ n < NUMBER_MOD
    BY TerminalAssumption
  <2>3. DigitsOf(n) = Decimal(n)
    BY <2>2, DigitsAreDecimal
  <2>4. c[1] = "number" /\ c[2] = n
    BY <2>1
  <2>. QED  BY <2>3, <2>4 DEF Printed, Whole
<1>3. CASE c = <<"line", MaxLength>>
  BY <1>3 DEF Printed
<1>. QED  BY <1>1, <1>2, <1>3 DEF Calls

(* Before the lock all is to be printed; at the console what was said and  *)
(* what is left make the whole; a call of print_string or print_uint64     *)
(* never reads a key.                                                      *)
Prints(t) ==
  /\ pc[t] \in Lining \cup {"console"} /\ call[t][1] # "line" => line[t].left
  /\ pc[t] \in Lining /\ call[t][1] # "line" => out[t] = Whole(call[t])
  /\ pc[t] = "console" /\ call[t][1] # "line" => said \o out[t] = Whole(call[t])

Text ==
  /\ out \in [Thread -> Seq(Character)]
  /\ said \in Seq(Character)
  /\ call \in [Thread -> Calls \cup {<<"none">>}]
  /\ DOMAIN line = Thread
  /\ \A t \in Thread : Prints(t)

Printing(m) == LockInv(m) /\ Text

LineInv(m) == IF panicked THEN \A t \in Thread : pc[t] = "halted" ELSE Printing(m)

LEMMA PutcMoves ==
  ASSUME NEW t \in Thread, Putc(t),
         out \in [Thread -> Seq(Character)], said \in Seq(Character)
  PROVE  /\ said' \in Seq(Character) /\ out' \in [Thread -> Seq(Character)]
         /\ said' \o out'[t] = said \o out[t]
         /\ \A u \in Thread \ {t} : out'[u] = out[u]
<1>1. /\ out[t] # <<>> /\ out[t] \in Seq(Character)
      /\ said' = Append(said, Head(out[t])) /\ out' = [out EXCEPT ![t] = Tail(@)]
  BY DEF Putc
<1>. DEFINE h == Head(out[t])
            r == Tail(out[t])
<1>2. h \in Character /\ r \in Seq(Character)
  BY <1>1, HeadTailProperties
<1>3. /\ Len(out[t]) \in Nat /\ Len(r) = Len(out[t]) - 1
      /\ \A i \in 1..Len(r) : r[i] = out[t][i + 1]
  BY <1>1, LenProperties, HeadTailProperties
<1>4. <<h>> \in Seq(Character) /\ Len(<<h>>) = 1 /\ <<h>>[1] = h /\ h = out[t][1]
  BY <1>1, <1>2
<1>5. out[t] = <<h>> \o r
  <2>1. /\ <<h>> \o r \in Seq(Character) /\ Len(<<h>> \o r) = 1 + Len(r)
        /\ \A i \in 1..1 + Len(r) : (<<h>> \o r)[i] = IF i <= 1 THEN <<h>>[i] ELSE r[i - 1]
    <3>. HIDE DEF h, r
    <3>. QED  BY <1>2, <1>4, ConcatProperties
  <2>2. Len(<<h>> \o r) = Len(out[t])
    BY <1>3, <2>1
  <2>3. ASSUME NEW i \in 1..Len(out[t])
        PROVE  (<<h>> \o r)[i] = out[t][i]
    <3>1. CASE i = 1
      BY <1>3, <1>4, <2>1, <3>1
    <3>2. CASE i # 1
      <4>1. i - 1 \in 1..Len(r) /\ i \in 1..1 + Len(r) /\ ~(i <= 1) /\ (i - 1) + 1 = i
        BY <1>3, <3>2
      <4>. HIDE DEF h, r
      <4>. QED  BY <1>3, <2>1, <4>1
    <3>. QED  BY <3>1, <3>2
  <2>. HIDE DEF h, r
  <2>. QED  BY <1>1, <2>1, <2>2, <2>3, SeqEqual
<1>. HIDE DEF h, r
<1>6. said' = said \o <<h>> /\ said' \in Seq(Character)
  BY <1>1, <1>2, AppendIsConcat, AppendProperties DEF h
<1>7. said' \o r = said \o out[t]
  <2>1. (said \o <<h>>) \o r = said \o (<<h>> \o r)
    BY <1>2, <1>4, CharactersJoined, Zenon
  <2>. QED  BY <1>5, <1>6, <2>1
<1>8. out' \in [Thread -> Seq(Character)] /\ \A u \in Thread : out'[u] = IF u = t THEN r ELSE out[u]
  BY <1>1, <1>2 DEF r
<1>. QED  BY <1>6, <1>7, <1>8

LEMMA PutcPrints ==
  ASSUME NEW m \in Thread, Printing(m), NEW t \in Thread, Putc(t)
  PROVE  Text'
<1>1. pc[t] = "console" /\ UNCHANGED <<pc, call, line>>
  BY DEF Putc, vars
<1>2. /\ said' \in Seq(Character) /\ out' \in [Thread -> Seq(Character)]
      /\ said' \o out'[t] = said \o out[t]
      /\ \A u \in Thread \ {t} : out'[u] = out[u]
  BY PutcMoves DEF Printing, Text
<1>3. OneAtTheConsole
  BY LockedIs DEF Printing
<1>4. ASSUME NEW u \in Thread
      PROVE  Prints(u)'
  <2>1. Prints(u)
    BY DEF Printing, Text
  <2>2. CASE u = t
    BY <1>1, <1>2, <2>1, <2>2 DEF Prints, Lining, Whole
  <2>3. CASE u # t
    <3>1. pc[u] # "console"
      BY <1>1, <1>3, <2>3 DEF OneAtTheConsole
    <3>. QED  BY <1>1, <1>2, <2>1, <2>3, <3>1 DEF Prints, Whole
  <2>. QED  BY <2>2, <2>3
<1>. QED  BY <1>1, <1>2, <1>4 DEF Text, Printing

LEMMA TypePrints ==
  ASSUME NEW m \in Thread, Printing(m), NEW t \in Thread, NEW key \in Keys(t), Type(t, key)
  PROVE  Text'
<1>1. /\ pc[t] = "console" /\ ~line[t].left
      /\ out' = [out EXCEPT ![t] = Echo(line[t].i, key)]
      /\ DOMAIN line' = DOMAIN line /\ \A u \in Thread \ {t} : line'[u] = line[u]
      /\ UNCHANGED <<pc, call, said>>
  BY DEF Type, vars, Printing, Text
<1>2. key \in Letters \cup {DELETE, ENTER}
  BY DEF Keys
<1>3. /\ out' \in [Thread -> Seq(Character)]
      /\ \A u \in Thread \ {t} : out'[u] = out[u]
  BY <1>1, <1>2, EchoIs DEF Printing, Text
<1>4. call[t][1] = "line"
  BY <1>1 DEF Printing, Text, Prints, Lining
<1>5. ASSUME NEW u \in Thread
      PROVE  Prints(u)'
  <2>1. Prints(u)
    BY DEF Printing, Text
  <2>. QED  BY <1>1, <1>3, <1>4, <2>1 DEF Prints, Whole
<1>. QED  BY <1>1, <1>3, <1>5 DEF Text, Printing

LEMMA CallPrints ==
  ASSUME OverflowShows, NEW m \in Thread, Printing(m), NEW t \in Thread,
         NEW c \in Calls, Call(t, c)
  PROVE  Text'
<1>1. /\ pc' = [pc EXCEPT ![t] = IF initialized THEN "wait" ELSE "initialize"]
      /\ call' = [call EXCEPT ![t] = c] /\ out' = [out EXCEPT ![t] = Printed(c)]
      /\ line' = [line EXCEPT ![t] = [NoLine EXCEPT !.left = c[1] # "line" \/ MaxLength = 0]]
      /\ said' = said
  BY DEF Call, Test, Goto, Printed
<1>2. /\ pc' \in [Thread -> Places] /\ pc'[t] \in Lining
      /\ out' \in [Thread -> Seq(Character)] /\ out'[t] = Printed(c)
      /\ call' \in [Thread -> Calls \cup {<<"none">>}] /\ call'[t] = c
      /\ DOMAIN line' = Thread /\ line'[t].left = (c[1] # "line" \/ MaxLength = 0)
  BY <1>1, PrintedIs DEF Printing, LockInv, Places, Text, Lining, NoLine
<1>3. \A u \in Thread \ {t} : /\ pc'[u] = pc[u] /\ out'[u] = out[u]
                              /\ call'[u] = call[u] /\ line'[u] = line[u]
  BY <1>1 DEF Printing, LockInv, Text
<1>4. Prints(t)'
  BY <1>2, PrintedIsWhole DEF Prints, Lining, Whole
<1>5. ASSUME NEW u \in Thread \ {t}
      PROVE  Prints(u)'
  <2>1. Prints(u)
    BY DEF Printing, Text
  <2>. QED  BY SMTT(40), <1>1, <1>3, <2>1 DEF Prints, Whole
<1>. QED  BY <1>1, <1>2, <1>4, <1>5 DEF Text, Printing

LEMMA LockingPrints ==
  ASSUME NEW m \in Thread, Printing(m), NEW t \in Thread, Locking(t), LockInv(m)'
  PROVE  Text'
<1>1. /\ pc[t] = "wait" /\ UNCHANGED <<call, out, line>>
      /\ said' = IF pc'[t] = "console" THEN <<>> ELSE said
      /\ pc' = [pc EXCEPT ![t] = "blocked"] \/ pc' = [pc EXCEPT ![t] = "console"]
  BY DEF Locking, Lock, Goto
<1>2. /\ pc'[t] \in {"blocked", "console"}
      /\ \A u \in Thread \ {t} : pc'[u] = pc[u]
  BY <1>1 DEF Printing, LockInv
<1>3. OneAtTheConsole'
  BY DEF LockInv, Alone, Ready, OneAtTheConsole
<1>4. ASSUME NEW u \in Thread
      PROVE  Prints(u)'
  <2>1. Prints(u) /\ out[u] \in Seq(Character)
    BY DEF Printing, Text
  <2>2. CASE u = t
    <3>1. <<>> \o out[u] = out[u]
      BY <2>1, ConcatEmptySeq
    <3>. QED  BY <1>1, <1>2, <2>1, <2>2, <3>1 DEF Prints, Whole, Lining
  <2>3. CASE u # t
    <3>1. pc'[u] = "console" => said' = said
      BY <1>1, <1>2, <1>3, <2>3 DEF OneAtTheConsole
    <3>. QED  BY <1>1, <1>2, <2>1, <2>3, <3>1 DEF Prints, Whole
  <2>. QED  BY <2>2, <2>3
<1>5. said' \in Seq(Character)
  BY <1>1 DEF Printing, Text
<1>. QED  BY <1>1, <1>4, <1>5 DEF Text, Printing

(* Who gives the console back, and who is given it.                        *)
LEMMA UnlockMoves ==
  ASSUME NEW m \in Thread, LockInv(m), NEW t \in Thread, Unlock(t)
  PROVE  /\ pc[t] = "console" /\ pc'[t] = "enter"
         /\ \A u \in Thread \ {t} : /\ pc[u] # "console"
                                    /\ \/ pc'[u] = pc[u]
                                       \/ pc[u] = "blocked" /\ pc'[u] = "console"
<1>1. /\ pc[t] = "console"
      /\ \/ waiting # <<>> /\ pc' = [pc EXCEPT ![t] = "enter", ![Head(waiting)] = "console"]
         \/ pc' = [pc EXCEPT ![t] = "enter"]
  BY DEF Unlock
<1>2. Ready /\ waiting \in Seq(Thread) /\ pc \in [Thread -> Places]
  BY <1>1 DEF LockInv, Alone
<1>3. CASE waiting # <<>> /\ pc' = [pc EXCEPT ![t] = "enter", ![Head(waiting)] = "console"]
  <2>1. Head(waiting) \in Thread /\ Head(waiting) = waiting[1] /\ Len(waiting) \in Nat \ {0}
    BY <1>2, <1>3, HeadTailProperties, EmptySeq
  <2>2. pc[Head(waiting)] = "blocked"
    BY <1>2, <2>1 DEF Ready
  <2>. QED  BY <1>1, <1>2, <1>3, <2>1, <2>2 DEF Ready, OneAtTheConsole
<1>4. CASE pc' = [pc EXCEPT ![t] = "enter"]
  BY <1>1, <1>2, <1>4 DEF Ready, OneAtTheConsole
<1>. QED  BY <1>1, <1>3, <1>4

LEMMA UnlockingPrints ==
  ASSUME NEW m \in Thread, Printing(m), NEW t \in Thread, Unlocking(t)
  PROVE  Text'
<1>1. /\ Unlock(t) /\ said' = <<>> /\ UNCHANGED out
      /\ call' = [call EXCEPT ![t] = <<"none">>] /\ line' = [line EXCEPT ![t] = NoLine]
  BY DEF Unlocking
<1>2. /\ pc'[t] = "enter"
      /\ \A u \in Thread \ {t} : /\ pc[u] # "console"
                                 /\ \/ pc'[u] = pc[u]
                                    \/ pc[u] = "blocked" /\ pc'[u] = "console"
  BY <1>1, UnlockMoves DEF Printing
<1>3. \A u \in Thread \ {t} : call'[u] = call[u] /\ line'[u] = line[u]
  BY <1>1 DEF Printing, Text
<1>4. ASSUME NEW u \in Thread
      PROVE  Prints(u)'
  <2>1. Prints(u) /\ out[u] \in Seq(Character)
    BY DEF Printing, Text
  <2>2. CASE u = t
    BY <1>2, <2>2 DEF Prints, Lining
  <2>3. CASE u # t
    <3>1. <<>> \o out[u] = out[u]
      BY <2>1, ConcatEmptySeq
    <3>. QED  BY <1>1, <1>2, <1>3, <2>1, <2>3, <3>1 DEF Prints, Whole, Lining
  <2>. QED  BY <2>2, <2>3
<1>5. /\ said' \in Seq(Character) /\ DOMAIN line' = Thread
      /\ call' \in [Thread -> Calls \cup {<<"none">>}]
  BY <1>1 DEF Printing, Text
<1>. QED  BY <1>1, <1>4, <1>5 DEF Text, Printing

(* No other step of the lock gives anybody the console or takes it.       *)
LEMMA OtherMoves ==
  ASSUME NEW m \in Thread, LockInv(m),
         \/ UNCHANGED vars
         \/ \E t \in Thread : Begin(t) \/ Initialize(t) \/ Mark(t)
  PROVE  \A u \in Thread : \/ pc'[u] = pc[u]
                           \/ pc'[u] \notin Lining \cup {"console"}
                           \/ pc[u] \in Lining /\ pc'[u] \in Lining
<1>1. pc \in [Thread -> Places]
  BY DEF LockInv
<1>2. CASE UNCHANGED vars
  BY <1>2 DEF vars
<1>3. ASSUME NEW t \in Thread, Begin(t) \/ Initialize(t) \/ Mark(t)
      PROVE  /\ \A u \in Thread \ {t} : pc'[u] = pc[u]
             /\ \/ pc'[t] = "enter"
                \/ pc[t] \in Lining /\ pc'[t] \in Lining
  <2>1. \/ pc' = [pc EXCEPT ![t] = "enter"]
        \/ pc[t] = "initialize" /\ pc' = [pc EXCEPT ![t] = "mark"]
        \/ pc[t] = "mark" /\ pc' = [pc EXCEPT ![t] = "wait"]
    BY <1>3 DEF Begin, Initialize, Mark, Goto
  <2>. QED  BY <1>1, <2>1 DEF Lining
<1>4. "enter" \notin Lining \cup {"console"}
  BY DEF Lining
<1>. QED  BY <1>2, <1>3, <1>4

LEMMA OtherPrints ==
  ASSUME NEW m \in Thread, Printing(m), UNCHANGED text,
         \/ UNCHANGED vars
         \/ \E t \in Thread : Begin(t) \/ Initialize(t) \/ Mark(t)
  PROVE  Text'
<1>1. \A u \in Thread : \/ pc'[u] = pc[u]
                        \/ pc'[u] \notin Lining \cup {"console"}
                        \/ pc[u] \in Lining /\ pc'[u] \in Lining
  BY OtherMoves DEF Printing
<1>2. ASSUME NEW u \in Thread
      PROVE  Prints(u)'
  <2>1. Prints(u)
    BY DEF Printing, Text
  <2>2. UNCHANGED <<call, out, line, said>>
    BY DEF text
  <2>. QED  BY <1>1, <2>1, <2>2 DEF Prints, Whole, Lining
<1>. QED  BY <1>2 DEF Text, Printing, text

LEMMA NextLine ==
  ASSUME OverflowShows, NEW m \in Thread
  PROVE  LineInv(m) /\ [~panicked /\ Moves]_all => LineInv(m)'
<1>. SUFFICES ASSUME LineInv(m), [~panicked /\ Moves]_all
              PROVE  LineInv(m)'
  OBVIOUS
<1>1. CASE panicked
  <2>1. pc' = pc /\ panicked' = panicked
    BY <1>1 DEF all, vars
  <2>. QED  BY <1>1, <2>1 DEF LineInv
<1>2. ASSUME NEW sepc, NEW n, NEW k, KernelPanic(sepc, n, k)
      PROVE  LineInv(m)'
  BY <1>2 DEF KernelPanic, LineInv
<1>3. ASSUME ~panicked, panicked' = panicked, Printing(m), [Next]_vars, LockInv(m)' => Text'
      PROVE  LineInv(m)'
  BY <1>3, StepKeepsInv DEF LineInv, Printing
<1>4. ~panicked => Printing(m)
  BY DEF LineInv
<1>5. CASE ~panicked /\ UNCHANGED all
  BY <1>3, <1>4, <1>5, OtherPrints DEF all
<1>6. ASSUME ~panicked, NEW t \in Thread, Begin(t) \/ Initialize(t) \/ Mark(t),
             UNCHANGED <<text, putc_buffer, panicked, inflight, shown>>
      PROVE  LineInv(m)'
  <2>1. Text'
    BY <1>4, <1>6, OtherPrints
  <2>. QED  BY <1>3, <1>4, <1>6, <2>1 DEF Next
<1>7. ASSUME ~panicked, NEW t \in Thread, NEW c \in Calls, Call(t, c)
      PROVE  LineInv(m)'
  <2>1. Test(t) /\ panicked' = panicked
    BY <1>7 DEF Call
  <2>2. Text'
    BY <1>4, <1>7, CallPrints
  <2>. QED  BY <1>3, <1>4, <1>7, <2>1, <2>2 DEF Next
<1>8. ASSUME ~panicked, NEW t \in Thread, Locking(t)
      PROVE  LineInv(m)'
  <2>1. Lock(t) /\ panicked' = panicked
    BY <1>8 DEF Locking
  <2>. QED  BY <1>3, <1>4, <1>8, <2>1, LockingPrints DEF Next
<1>9. ASSUME ~panicked, NEW t \in Thread, Putc(t)
      PROVE  LineInv(m)'
  <2>1. UNCHANGED vars /\ panicked' = panicked
    BY <1>9 DEF Putc
  <2>. QED  BY <1>3, <1>4, <1>9, <2>1, PutcPrints
<1>10. ASSUME ~panicked, NEW t \in Thread, NEW key \in Keys(t), Type(t, key)
       PROVE  LineInv(m)'
  <2>1. UNCHANGED vars /\ panicked' = panicked
    BY <1>10 DEF Type
  <2>. QED  BY <1>3, <1>4, <1>10, <2>1, TypePrints
<1>11. ASSUME ~panicked, NEW t \in Thread, Unlocking(t)
       PROVE  LineInv(m)'
  <2>1. Unlock(t) /\ panicked' = panicked
    BY <1>11 DEF Unlocking
  <2>. QED  BY <1>3, <1>4, <1>11, <2>1, UnlockingPrints DEF Next
<1>12. ASSUME ~panicked, NEW n, Flush(n)
       PROVE  LineInv(m)'
  <2>1. UNCHANGED vars /\ UNCHANGED text /\ panicked' = panicked
    BY <1>12 DEF Flush
  <2>. QED  BY <1>3, <1>4, <1>12, <2>1, OtherPrints
<1>13. ASSUME ~panicked, NEW t \in Thread, NEW c \in Singles, PutcUnlocked(t, c)
       PROVE  LineInv(m)'
  <2>1. UNCHANGED vars /\ UNCHANGED text /\ panicked' = panicked
    BY <1>13 DEF PutcUnlocked
  <2>. QED  BY <1>3, <1>4, <1>13, <2>1, OtherPrints
<1>. QED  BY <1>1, <1>2, <1>5, <1>6, <1>7, <1>8, <1>9, <1>10, <1>11, <1>12, <1>13
          DEF Moves, Working

LEMMA InitLine ==
  ASSUME NEW m \in Thread, Early = {m}
  PROVE  Begins => LineInv(m)
<1>. SUFFICES ASSUME Begins PROVE Printing(m)
  BY DEF LineInv, Begins
<1>1. LockInv(m)
  BY InitHasInv DEF Begins
<1>2. /\ call = [t \in Thread |-> <<"none">>] /\ out = [t \in Thread |-> <<>>]
      /\ line = [t \in Thread |-> NoLine] /\ said = <<>>
      /\ \A t \in Thread : pc[t] \notin Lining \cup {"console"}
  BY DEF Begins, NoCalls, Nothing, NoLines, Init, Lining
<1>3. Text
  BY <1>2 DEF Text, Prints
<1>. QED  BY <1>1, <1>3 DEF Printing

(* Between a lock and its unlock the console gets the whole of one message *)
(* or number, and nothing of another that takes the lock.                  *)
THEOREM LinesAreWhole ==
  ASSUME OverflowShows, NEW m \in Thread, Early = {m}
  PROVE  TerminalSpec => []LinesWhole
<1>1. LineInv(m) => LinesWhole
  BY DEF LineInv, Printing, Text, Prints, LinesWhole, Whole
<1>. QED  BY <1>1, InitLine, NextLine, PTL DEF TerminalSpec

Held(m) == IF panicked THEN \A t \in Thread : pc[t] = "halted" ELSE LockInv(m)

LEMMA NextHeld ==
  ASSUME NEW m \in Thread
  PROVE  Held(m) /\ [~panicked /\ Moves]_all => Held(m)'
<1>. SUFFICES ASSUME Held(m), [~panicked /\ Moves]_all
              PROVE  Held(m)'
  OBVIOUS
<1>1. CASE UNCHANGED all
  <2>1. UNCHANGED vars /\ UNCHANGED <<pc, panicked>>
    BY <1>1 DEF all, vars
  <2>2. LockInv(m) => LockInv(m)'
    BY <2>1, StepKeepsInv
  <2>. QED  BY <2>1, <2>2 DEF Held
<1>2. ASSUME NEW sepc, NEW n, NEW k, KernelPanic(sepc, n, k)
      PROVE  Held(m)'
  BY <1>2 DEF KernelPanic, Held
<1>3. CASE ~panicked /\ panicked' = panicked /\ [Next]_vars
  BY <1>3, StepKeepsInv DEF Held
<1>4. Moves => \/ \E sepc \in Numbers, n, k \in 0..IO_BUFFER_SIZE : KernelPanic(sepc, n, k)
               \/ panicked' = panicked /\ [Next]_vars
  BY DEF Moves, Working, Call, Locking, Putc, PutcUnlocked, Type, Unlocking, Flush, Next
<1>. QED  BY <1>1, <1>2, <1>3, <1>4

(* What holds of the lock alone holds while the callers print and read     *)
(* lines, up to a panic.                                                   *)
THEOREM TerminalKeepsLock ==
  ASSUME NEW m \in Thread, Early = {m}
  PROVE  TerminalSpec => [](OneAtTheConsole /\ BlockedAreListed)
<1>1. Begins => Held(m)
  BY InitHasInv DEF Begins, Held
<1>2. Held(m) => OneAtTheConsole /\ BlockedAreListed
  BY LockedIs DEF Held, OneAtTheConsole, BlockedAreListed
<1>. QED  BY <1>1, <1>2, NextHeld, PTL DEF TerminalSpec

-----------------------------------------------------------------------------
(* The line that is read.                                                  *)

Key == Letters \cup {DELETE, ENTER}

LEMMA AfterIs ==
  ASSUME NEW held \in Seq(Character), NEW key \in Key
  PROVE  After(held, key) \in Seq(Character)
<1>1. key \in Character
  BY CharactersAre DEF Key
<1>. HIDE DEF Character
<1>2. held # <<>> => Front(held) \in Seq(Character)
  <2>1. \A i \in 1..Len(held) - 1 : held[i] \in Character
    <3>1. Len(held) \in Nat /\ \A i \in 1..Len(held) : held[i] \in Character
      BY LenProperties, ElementOfSeq
    <3>. QED  BY <3>1
  <2>2. Len(held) - 1 \in Int
    BY LenProperties
  <2>. QED  BY <2>1, <2>2, SubSeqProperties DEF Front
<1>. QED  BY <1>1, <1>2, AppendProperties DEF After

LEMMA AfterDelete ==
  \A held : After(held, DELETE) = IF held = <<>> THEN held ELSE Front(held)
BY DEF After, DELETE, ENTER

IsHeld(keys, f) == f = [n \in 0..Len(keys) |-> IF n = 0 THEN <<>> ELSE After(f[n - 1], keys[n])]

LEMMA HeldBy ==
  ASSUME NEW keys \in Seq(Key)
  PROVE  \E f \in [0..Len(keys) -> Seq(Character)] :
           IsHeld(keys, f) /\ Edited(keys) = f[Len(keys)]
<1>. DEFINE n    == Len(keys)
            X    == Seq(Character)
            step == [i \in 1..n |-> [x \in X |-> After(x, keys[i])]]
<1>1. n \in Nat /\ \A i \in 1..n : keys[i] \in Key
  BY LenProperties, ElementOfSeq
<1>2. <<>> \in X
  BY EmptySeq
<1>3. step \in [1..n -> [X -> X]]
  BY <1>1, AfterIs
<1>. HIDE DEF n
<1>4. PICK f : IsIterated(f, n, X, <<>>, step)
  <2>. HIDE DEF step, X
  <2>. QED  BY <1>1, <1>2, <1>3, IterationExists
<1>5. /\ f \in [0..n -> X] /\ f[0] = <<>>
      /\ \A i \in 1..n : f[i] = step[i][f[i - 1]]
  <2>. HIDE DEF step, X
  <2>. QED  BY <1>4 DEF IsIterated
<1>6. \A i \in 1..n : i - 1 \in 0..n /\ i \in 0..n
  BY <1>1
<1>7. \A i \in 0..n : i = 0 \/ i \in 1..n
  BY <1>1
<1>8. \A i \in 1..n : f[i] = After(f[i - 1], keys[i])
  BY <1>5, <1>6
<1>9. IsHeld(keys, f)
  <2>. HIDE DEF step
  <2>1. \A i \in 0..n : f[i] = IF i = 0 THEN <<>> ELSE After(f[i - 1], keys[i])
    BY <1>5, <1>7, <1>8
  <2>. QED  BY <1>5, <2>1 DEF IsHeld, n
<1>10. Edited(keys) = (CHOOSE g : IsHeld(keys, g))[n]
  BY DEF Edited, IsHeld, n
<1>11. IsHeld(keys, CHOOSE g : IsHeld(keys, g))
  BY <1>9
<1>12. ASSUME NEW g, IsHeld(keys, g)
       PROVE  g = f
  <2>1. /\ g = [i \in 0..n |-> g[i]] /\ g[0] = <<>>
        /\ \A i \in 1..n : g[i] = After(g[i - 1], keys[i])
    BY <1>1, <1>6, <1>12 DEF IsHeld, n
  <2>2. f = [i \in 0..n |-> f[i]]
    BY <1>5
  <2>3. \A i \in 1..n : g[i - 1] = f[i - 1] => g[i] = f[i]
    BY <1>8, <2>1
  <2>4. OnInterval(g, n) /\ OnInterval(f, n) /\ g[0] = f[0]
    BY <1>5, <2>1, <2>2 DEF OnInterval
  <2>. QED  BY <1>1, <2>3, <2>4, SameIteration
<1>13. Edited(keys) = f[n]
  <2>1. (CHOOSE g : IsHeld(keys, g)) = f
    BY <1>11, <1>12
  <2>. QED  BY <1>10, <2>1
<1>. QED  BY <1>5, <1>9, <1>13 DEF n

LEMMA NothingEdited == Edited(<<>>) = <<>>
<1>1. <<>> \in Seq(Key) /\ Len(<<>>) = 0
  BY EmptySeq
<1>2. PICK f \in [0..0 -> Seq(Character)] : IsHeld(<<>>, f) /\ Edited(<<>>) = f[0]
  BY <1>1, HeldBy
<1>. QED  BY <1>1, <1>2 DEF IsHeld

(* One more key.                                                           *)
LEMMA EditedNext ==
  ASSUME NEW keys \in Seq(Key), NEW key \in Key
  PROVE  /\ Edited(keys) \in Seq(Character)
         /\ Edited(Append(keys, key)) = After(Edited(keys), key)
<1>. DEFINE n    == Len(keys)
            more == Append(keys, key)
<1>1. /\ n \in Nat /\ more \in Seq(Key) /\ Len(more) = n + 1
      /\ \A i \in 1..n : more[i] = keys[i]
      /\ more[n + 1] = key
  BY LenProperties, AppendProperties
<1>. HIDE DEF n, more
<1>2. PICK f \in [0..n -> Seq(Character)] : IsHeld(keys, f) /\ Edited(keys) = f[n]
  BY HeldBy DEF n
<1>3. PICK g \in [0..n + 1 -> Seq(Character)] : IsHeld(more, g) /\ Edited(more) = g[n + 1]
  BY <1>1, HeldBy
<1>4. \A i \in 1..n : i - 1 \in 0..n /\ i \in 0..n /\ i # 0 /\ i \in 0..n + 1
  BY <1>1
<1>5. f[0] = <<>> /\ \A i \in 1..n : f[i] = After(f[i - 1], keys[i])
  BY <1>1, <1>2, <1>4 DEF IsHeld, n
<1>6. /\ g[0] = <<>> /\ \A i \in 1..n : g[i] = After(g[i - 1], keys[i])
      /\ g[n + 1] = After(g[n], key)
  <2>1. g = [i \in 0..n + 1 |-> IF i = 0 THEN <<>> ELSE After(g[i - 1], more[i])]
    BY <1>1, <1>3 DEF IsHeld
  <2>2. 0 \in 0..n + 1 /\ n + 1 \in 0..n + 1 /\ n + 1 # 0 /\ (n + 1) - 1 = n
    BY <1>1
  <2>3. g[0] = <<>> /\ \A i \in 1..n : g[i] = After(g[i - 1], more[i])
    BY <1>4, <2>1, <2>2
  <2>4. g[n + 1] = After(g[n], more[n + 1])
    BY <2>1, <2>2
  <2>. QED  BY <1>1, <2>3, <2>4
<1>. DEFINE S == {i \in 0..n : g[i] = f[i]}
<1>8. 0 \in S
  BY <1>1, <1>5, <1>6
<1>9. ASSUME NEW i \in 0..n - 1, i \in S
      PROVE  i + 1 \in S
  <2>1. i + 1 \in 1..n /\ (i + 1) - 1 = i /\ i + 1 \in 0..n
    BY <1>1
  <2>. QED  BY <1>5, <1>6, <1>9, <2>1
<1>. HIDE DEF S
<1>10. 0..n \subseteq S
  BY <1>1, <1>8, <1>9, IntervalInduction
<1>11. n \in 0..n
  BY <1>1
<1>12. g[n] = f[n]
  BY <1>10, <1>11 DEF S
<1>. QED  BY <1>2, <1>3, <1>6, <1>11, <1>12 DEF more

Line == [str : [0..MaxLength -> Character], i : 0..MaxLength, left : BOOLEAN]

(* What the line holds up to its index.                                    *)
HeldIn(l) == [j \in 1..l.i |-> l.str[j - 1]]

(* The cell after the last is never written, and the loop is left before   *)
(* the index passes it.                                                    *)
Edits(l, keys) ==
  /\ l \in Line
  /\ keys \in Seq(Key)
  /\ l.left \/ l.i < MaxLength
  /\ l.str[MaxLength] = NUL
  /\ Edited(keys) = HeldIn(l)
  /\ l.left => l.str[l.i] = NUL

EditInv ==
  /\ DOMAIN line = Thread /\ DOMAIN typed = Thread
  /\ \A t \in Thread : Edits(line[t], typed[t])

LEMMA NoLineWith ==
  \A left : [NoLine EXCEPT !.left = left] =
               [str |-> [i \in 0..MaxLength |-> NUL], i |-> 0, left |-> left]
<1>. DEFINE nuls == [i \in 0..MaxLength |-> NUL]
<1>1. NoLine = [str |-> nuls, i |-> 0, left |-> TRUE]
  BY DEF NoLine
<1>. HIDE DEF nuls
<1>2. \A left : [NoLine EXCEPT !.left = left] = [str |-> nuls, i |-> 0, left |-> left]
  BY <1>1
<1>. QED  BY <1>2 DEF nuls

LEMMA NewLine ==
  ASSUME NEW left \in BOOLEAN, left \/ MaxLength > 0
  PROVE  Edits([NoLine EXCEPT !.left = left], <<>>)
<1>. DEFINE l == [NoLine EXCEPT !.left = left]
<1>1. MaxLength \in Nat /\ NUL \in Character /\ <<>> \in Seq(Key)
  BY TerminalAssumption, CharactersAre, EmptySeq
<1>2. l = [str |-> [i \in 0..MaxLength |-> NUL], i |-> 0, left |-> left]
  BY NoLineWith
<1>3. 0 \in 0..MaxLength /\ MaxLength \in 0..MaxLength
  BY <1>1
<1>4. /\ l \in Line /\ l.i = 0 /\ l.left = left
      /\ l.str[MaxLength] = NUL /\ l.str[0] = NUL
  BY <1>1, <1>2, <1>3 DEF Line
<1>. HIDE DEF l
<1>5. HeldIn(l) = <<>>
  <2>1. HeldIn(l) = [j \in 1..0 |-> l.str[j - 1]]
    BY <1>4 DEF HeldIn
  <2>2. 1..0 = {}
    OBVIOUS
  <2>3. HeldIn(l) \in Seq(Character) /\ Len(HeldIn(l)) = 0
    BY <2>1, <2>2
  <2>. QED  BY <2>3, EmptySeq
<1>6. left \/ 0 < MaxLength
  BY <1>1
<1>. QED  BY <1>1, <1>4, <1>5, <1>6, NothingEdited DEF Edits, l

LEMMA NoLineEdits == Edits(NoLine, <<>>)
<1>1. [NoLine EXCEPT !.left = TRUE] = NoLine
  BY NoLineWith DEF NoLine
<1>. QED  BY <1>1, NewLine

(* What a turn of the loop makes of the line.                              *)
Turned(l, key) ==
  LET next == IF key = DELETE THEN NextIndexAfterDelete(l.i) ELSE l.i + 1
  IN [str  |-> [l.str EXCEPT ![l.i] = IF key = ENTER THEN NUL ELSE key],
      i    |-> IF key = ENTER THEN l.i ELSE next,
      left |-> key = ENTER \/ next >= MaxLength]

LEMMA TurnEdits ==
  ASSUME NEW l, NEW keys, Edits(l, keys), ~l.left, NEW key \in Key
  PROVE  Edits(Turned(l, key), Append(keys, key))
<1>. DEFINE i  == l.i
            r  == Turned(l, key)
            ch == IF key = ENTER THEN NUL ELSE key
<1>1. /\ MaxLength \in Nat /\ i \in 0..MaxLength /\ i < MaxLength /\ i \in Nat
      /\ l.str \in [0..MaxLength -> Character] /\ l.str[MaxLength] = NUL
      /\ keys \in Seq(Key) /\ Edited(keys) = HeldIn(l)
  BY TerminalAssumption DEF Edits, Line
<1>2. ch \in Character /\ NUL \in Character
  BY CharactersAre DEF Key
<1>3. Edited(Append(keys, key)) = After(HeldIn(l), key) /\ Append(keys, key) \in Seq(Key)
  BY <1>1, EditedNext, AppendProperties
<1>4. r.str = [l.str EXCEPT ![i] = ch]
  BY DEF Turned
<1>5. /\ r.str \in [0..MaxLength -> Character] /\ r.str[MaxLength] = NUL /\ r.str[i] = ch
      /\ \A j \in 0..MaxLength : j # i => r.str[j] = l.str[j]
  <2>1. MaxLength \in 0..MaxLength /\ i # MaxLength
    BY <1>1
  <2>. HIDE DEF i, r, ch
  <2>. QED  BY <1>1, <1>2, <1>4, <2>1
<1>6. HeldIn(l) \in Seq(Character) /\ Len(HeldIn(l)) = i
  <2>1. \A j \in 1..i : j - 1 \in 0..MaxLength
    BY <1>1
  <2>2. HeldIn(l) \in [1..i -> Character]
    BY <1>1, <2>1 DEF HeldIn
  <2>3. DOMAIN HeldIn(l) = 1..i
    BY DEF HeldIn
  <2>. HIDE DEF i
  <2>. QED  BY <1>1, <2>2, <2>3
<1>7. \A j \in 1..i : HeldIn(l)[j] = l.str[j - 1]
  BY DEF HeldIn
<1>8. CASE key = ENTER
  <2>1. r.i = i /\ r.left = TRUE /\ ch = NUL
    BY <1>8 DEF Turned
  <2>2. r = [str |-> r.str, i |-> r.i, left |-> r.left]
    BY DEF Turned
  <2>3. r \in Line
    BY <1>1, <1>5, <2>1, <2>2 DEF Line
  <2>4. HeldIn(r) = HeldIn(l)
    <3>1. \A j \in 1..i : r.str[j - 1] = l.str[j - 1]
      BY <1>1, <1>5
    <3>. HIDE DEF i, r
    <3>2. HeldIn(r) = [j \in 1..i |-> r.str[j - 1]] /\ HeldIn(l) = [j \in 1..i |-> l.str[j - 1]]
      BY <2>1 DEF HeldIn, i
    <3>. QED  BY <3>1, <3>2
  <2>5. After(HeldIn(l), key) = HeldIn(l)
    BY <1>8 DEF After, ENTER, DELETE
  <2>. HIDE DEF r, i, ch
  <2>. QED  BY <1>3, <1>5, <2>1, <2>3, <2>4, <2>5 DEF Edits, r
<1>9. CASE key = DELETE
  <2>1. r.i = (IF i >= 1 THEN i - 1 ELSE 0) /\ r.i \in 0..MaxLength
    BY <1>1, <1>9 DEF Turned, NextIndexAfterDelete, DELETE, ENTER
  <2>2. r = [str |-> r.str, i |-> r.i, left |-> r.left]
    BY DEF Turned
  <2>3. r.left = FALSE /\ r.i < MaxLength
    <3>1. r.left = (key = ENTER \/ NextIndexAfterDelete(i) >= MaxLength)
      BY <1>9 DEF Turned
    <3>2. key # ENTER /\ ~(NextIndexAfterDelete(i) >= MaxLength)
      BY <1>1, <1>9 DEF NextIndexAfterDelete, DELETE, ENTER
    <3>3. r.i < MaxLength
      <4>. HIDE DEF i, r
      <4>. QED  BY <1>1, <2>1
    <3>. QED  BY <3>1, <3>2, <3>3
  <2>4. r \in Line
    BY <1>5, <2>1, <2>2, <2>3 DEF Line
  <2>5. HeldIn(r) = After(HeldIn(l), key)
    <3>1. After(HeldIn(l), key) = IF HeldIn(l) = <<>> THEN HeldIn(l) ELSE Front(HeldIn(l))
      BY <1>9, AfterDelete
    <3>. HIDE DEF i, r
    <3>2. HeldIn(r) = [j \in 1..r.i |-> r.str[j - 1]]
      BY DEF HeldIn
    <3>3. r.i \in Nat /\ \A j \in 1..r.i : j - 1 \in 0..MaxLength /\ j - 1 # i /\ j \in 1..i
      BY <1>1, <2>1
    <3>4. HeldIn(r) \in Seq(Character) /\ Len(HeldIn(r)) = r.i
      <4>1. HeldIn(r) \in [1..r.i -> Character] /\ DOMAIN HeldIn(r) = 1..r.i
        BY <1>5, <3>2, <3>3
      <4>. QED  BY <3>3, <4>1
    <3>5. \A j \in 1..r.i : HeldIn(r)[j] = HeldIn(l)[j]
      BY <1>5, <1>7, <3>2, <3>3
    <3>6. CASE i = 0
      <4>1. HeldIn(l) = <<>> /\ r.i = 0
        BY <1>6, <2>1, <3>6, EmptySeq
      <4>2. HeldIn(r) = <<>>
        BY <3>4, <4>1, EmptySeq
      <4>. QED  BY <3>1, <4>1, <4>2
    <3>7. CASE i # 0
      <4>1. r.i = i - 1 /\ i - 1 \in Nat
        BY <1>1, <2>1, <3>7
      <4>2. HeldIn(l) # <<>>
        BY <1>6, <3>7, EmptySeq
      <4>3. Front(HeldIn(l)) = SubSeq(HeldIn(l), 1, i - 1)
        BY <1>6 DEF Front
      <4>4. i - 1 \in 0..Len(HeldIn(l))
        BY <1>1, <1>6, <4>1
      <4>5. Front(HeldIn(l)) \in Seq(Character) /\ Len(Front(HeldIn(l))) = i - 1
        BY <1>6, <4>3, <4>4, SplitSeq
      <4>6. \A j \in 1..i - 1 : SubSeq(HeldIn(l), 1, i - 1)[j] = HeldIn(l)[j]
        <5>1. /\ \A j \in 1..i - 1 : HeldIn(l)[j] \in Character /\ 1 + j - 1 = j
              /\ i - 1 \in Int /\ 1 \in Int /\ i - 1 - 1 + 1 = i - 1
          BY <1>1, <1>6, ElementOfSeq
        <5>2. \A j \in 1..i - 1 - 1 + 1 : SubSeq(HeldIn(l), 1, i - 1)[j] = HeldIn(l)[1 + j - 1]
          BY <5>1, SubSeqProperties
        <5>. QED  BY <5>1, <5>2
      <4>7. HeldIn(r) = Front(HeldIn(l))
        BY <3>4, <3>5, <4>1, <4>3, <4>5, <4>6, SeqEqual
      <4>. QED  BY <3>1, <4>2, <4>7
    <3>. QED  BY <3>6, <3>7
  <2>. HIDE DEF r, i, ch
  <2>. QED  BY <1>3, <1>5, <2>3, <2>4, <2>5 DEF Edits, r
<1>10. CASE key # ENTER /\ key # DELETE
  <2>1. r.i = i + 1 /\ ch = key
    BY <1>10 DEF Turned
  <2>2. r = [str |-> r.str, i |-> r.i, left |-> r.left]
    BY DEF Turned
  <2>3. /\ i + 1 \in 0..MaxLength /\ (r.left \/ i + 1 < MaxLength)
        /\ r.left \in BOOLEAN /\ (r.left => i + 1 = MaxLength)
    <3>1. r.left = (key = ENTER \/ i + 1 >= MaxLength)
      BY <1>10 DEF Turned
    <3>. HIDE DEF r, i
    <3>2. CASE i + 1 >= MaxLength
      <4>1. r.left = TRUE
        BY <3>1, <3>2
      <4>2. i + 1 = MaxLength /\ i + 1 \in 0..MaxLength
        BY <1>1, <3>2
      <4>. QED  BY <4>1, <4>2, Zenon
    <3>3. CASE ~(i + 1 >= MaxLength)
      <4>1. r.left = FALSE
        BY <1>10, <3>1, <3>3
      <4>2. i + 1 < MaxLength /\ i + 1 \in 0..MaxLength
        BY <1>1, <3>3
      <4>. QED  BY <4>1, <4>2, Zenon
    <3>. QED  BY <3>2, <3>3
  <2>4. r \in Line
    BY <1>5, <2>1, <2>2, <2>3 DEF Line
  <2>5. After(HeldIn(l), key) = Append(HeldIn(l), key)
    BY <1>10 DEF After
  <2>6. HeldIn(r) = Append(HeldIn(l), key)
    <3>. HIDE DEF i, r
    <3>1. HeldIn(r) = [j \in 1..i + 1 |-> r.str[j - 1]]
      BY <2>1 DEF HeldIn
    <3>2. \A j \in 1..i + 1 : j - 1 \in 0..MaxLength
      BY <1>1
    <3>3. HeldIn(r) \in Seq(Character) /\ Len(HeldIn(r)) = i + 1
      <4>1. HeldIn(r) \in [1..i + 1 -> Character] /\ DOMAIN HeldIn(r) = 1..i + 1
        BY <1>5, <3>1, <3>2
      <4>2. i + 1 \in Nat
        BY <1>1
      <4>. QED  BY <4>1, <4>2
    <3>4. /\ Append(HeldIn(l), key) \in Seq(Character)
          /\ Len(Append(HeldIn(l), key)) = i + 1
          /\ \A j \in 1..i : Append(HeldIn(l), key)[j] = HeldIn(l)[j]
          /\ Append(HeldIn(l), key)[i + 1] = key
      BY <1>2, <1>6, <2>1, AppendProperties
    <3>5. ASSUME NEW j \in 1..i + 1
          PROVE  HeldIn(r)[j] = Append(HeldIn(l), key)[j]
      <4>1. CASE j = i + 1
        <5>1. j - 1 = i
          BY <1>1, <4>1
        <5>. QED  BY <1>5, <2>1, <3>1, <3>4, <4>1, <5>1
      <4>2. CASE j # i + 1
        <5>1. j \in 1..i /\ j - 1 \in 0..MaxLength /\ j - 1 # i
          BY <1>1, <4>2
        <5>. QED  BY <1>5, <1>7, <3>1, <3>4, <5>1
      <4>. QED  BY <4>1, <4>2
    <3>. QED  BY <3>3, <3>4, <3>5, SeqEqual
  <2>. HIDE DEF r, i, ch
  <2>. QED  BY <1>3, <1>5, <2>1, <2>3, <2>4, <2>5, <2>6 DEF Edits, r
<1>. QED  BY <1>8, <1>9, <1>10

LEMMA NextEdit == EditInv /\ [~panicked /\ Moves]_all => EditInv'
<1>. SUFFICES ASSUME EditInv, [~panicked /\ Moves]_all
              PROVE  EditInv'
  OBVIOUS
<1>1. CASE UNCHANGED <<line, typed>>
  BY <1>1 DEF EditInv
<1>2. ASSUME NEW t \in Thread, NEW c \in Calls, Call(t, c)
      PROVE  EditInv'
  <2>. DEFINE left == c[1] # "line" \/ MaxLength = 0
  <2>1. /\ line' = [line EXCEPT ![t] = [NoLine EXCEPT !.left = left]]
        /\ typed' = [typed EXCEPT ![t] = <<>>]
    BY <1>2 DEF Call
  <2>2. left \in BOOLEAN /\ (left \/ MaxLength > 0)
    BY TerminalAssumption
  <2>. HIDE DEF left
  <2>. QED  BY <2>1, <2>2, NewLine DEF EditInv
<1>3. ASSUME NEW t \in Thread, NEW key \in Keys(t), Type(t, key)
      PROVE  EditInv'
  <2>1. /\ line' = [line EXCEPT ![t] = Turned(line[t], key)]
        /\ typed' = [typed EXCEPT ![t] = Append(typed[t], key)]
        /\ ~line[t].left
    BY <1>3 DEF Type, Turned
  <2>2. key \in Key
    BY DEF Keys, Key
  <2>. QED  BY <2>1, <2>2, TurnEdits DEF EditInv
<1>4. ASSUME NEW t \in Thread, Unlocking(t)
      PROVE  EditInv'
  <2>1. line' = [line EXCEPT ![t] = NoLine] /\ typed' = [typed EXCEPT ![t] = <<>>]
    BY <1>4 DEF Unlocking
  <2>. QED  BY <2>1, NoLineEdits DEF EditInv
<1>5. ASSUME NEW sepc, NEW n, NEW k, KernelPanic(sepc, n, k)
      PROVE  EditInv'
  <2>1. line' = [t \in Thread |-> NoLine] /\ typed' = [t \in Thread |-> <<>>]
    BY <1>5 DEF KernelPanic, NoLines, Nothing
  <2>. QED  BY <2>1, NoLineEdits DEF EditInv
<1>6. [~panicked /\ Moves]_all =>
        \/ UNCHANGED <<line, typed>>
        \/ \E t \in Thread : \/ \E c \in Calls : Call(t, c)
                             \/ \E key \in Keys(t) : Type(t, key)
                             \/ Unlocking(t)
        \/ \E sepc \in Numbers, n, k \in 0..IO_BUFFER_SIZE : KernelPanic(sepc, n, k)
  BY DEF Moves, Working, Locking, Putc, PutcUnlocked, Flush, text, all
<1>. QED  BY <1>1, <1>2, <1>3, <1>4, <1>5, <1>6

(* get_string holds what was typed with what was deleted taken out, ends   *)
(* it with a NUL, and never writes past its buffer, for any keys.          *)
THEOREM LineIsEdited == TerminalSpec => []LineEdited
<1>1. Begins => EditInv
  BY NoLineEdits DEF Begins, NoLines, Nothing, EditInv
<1>2. EditInv => LineEdited
  BY DEF EditInv, Edits, HeldIn, LineEdited
<1>. QED  BY <1>1, <1>2, NextEdit, PTL DEF TerminalSpec

-----------------------------------------------------------------------------
(* The line that is seen.                                                  *)

(* The keys that are shown as one character: not the two that move the     *)
(* cursor otherwise.                                                       *)
KeysShow == Letters \cap {"back", "newline"} = {}

Cells == -MaxKeys..MaxKeys + 1

Screen == [at : Int, cells : [Cells -> Character]]

LEMMA NoCellsIs == NoCells \in Screen
<1>1. "blank" \in Character
  BY CharactersAre
<1>. HIDE DEF Character
<1>. QED  BY <1>1 DEF NoCells, Screen, Cells

LEMMA WithBack ==
  ASSUME NEW s \in Screen
  PROVE  With(s, "back") = [at |-> s.at - 1, cells |-> s.cells]
<1>1. s = [at |-> s.at, cells |-> s.cells]
  BY DEF Screen
<1>2. With(s, "back") = [s EXCEPT !.at = @ - 1]
  BY DEF With
<1>. QED  BY <1>1, <1>2

LEMMA WithNewline ==
  ASSUME NEW s
  PROVE  With(s, "newline") = s
BY DEF With

LEMMA WithCharacter ==
  ASSUME NEW s \in Screen, NEW c, c # "back", c # "newline"
  PROVE  With(s, c) = [at |-> s.at + 1, cells |-> [j \in Cells |-> IF j = s.at + 1 THEN c ELSE s.cells[j]]]
<1>1. DOMAIN s.cells = Cells
  BY DEF Screen
<1>2. With(s, c) = [at |-> s.at + 1, cells |-> [j \in DOMAIN s.cells |-> IF j = s.at + 1 THEN c ELSE s.cells[j]]]
  BY DEF With
<1>. QED  BY <1>1, <1>2

LEMMA WithIs ==
  ASSUME NEW s \in Screen, NEW c \in Character
  PROVE  With(s, c) \in Screen
<1>1. s.at \in Int /\ s.cells \in [Cells -> Character]
  BY DEF Screen
<1>. HIDE DEF Character
<1>2. CASE c = "back"
  BY <1>1, <1>2, WithBack DEF Screen
<1>3. CASE c = "newline"
  BY <1>3, WithNewline
<1>4. CASE c # "back" /\ c # "newline"
  <2>. DEFINE cells == [j \in Cells |-> IF j = s.at + 1 THEN c ELSE s.cells[j]]
  <2>1. cells \in [Cells -> Character] /\ s.at + 1 \in Int
    BY <1>1
  <2>2. With(s, c) = [at |-> s.at + 1, cells |-> cells]
    BY <1>4, WithCharacter
  <2>. HIDE DEF cells
  <2>. QED  BY <2>1, <2>2 DEF Screen
<1>. QED  BY <1>2, <1>3, <1>4

IsShown(chars, f) == f = [n \in 0..Len(chars) |-> IF n = 0 THEN NoCells ELSE With(f[n - 1], chars[n])]

LEMMA ShownBy ==
  ASSUME NEW chars \in Seq(Character)
  PROVE  \E f \in [0..Len(chars) -> Screen] : IsShown(chars, f) /\ Shown(chars) = f[Len(chars)]
<1>. DEFINE n    == Len(chars)
            X    == Screen
            step == [i \in 1..n |-> [x \in X |-> With(x, chars[i])]]
<1>1. n \in Nat /\ \A i \in 1..n : chars[i] \in Character
  BY LenProperties, ElementOfSeq
<1>2. NoCells \in X
  BY NoCellsIs
<1>. HIDE DEF X
<1>3. \A i \in 1..n : \A x \in X : With(x, chars[i]) \in X
  BY <1>1, WithIs DEF X
<1>4. step \in [1..n -> [X -> X]]
  BY <1>3
<1>. HIDE DEF n
<1>5. PICK f : IsIterated(f, n, X, NoCells, step)
  <2>. HIDE DEF step
  <2>. QED  BY <1>1, <1>2, <1>4, IterationExists
<1>6. /\ f \in [0..n -> X] /\ f[0] = NoCells
      /\ \A i \in 1..n : f[i] = step[i][f[i - 1]]
  <2>. HIDE DEF step
  <2>. QED  BY <1>5 DEF IsIterated
<1>7. \A i \in 1..n : i - 1 \in 0..n /\ i \in 0..n
  BY <1>1
<1>8. \A i \in 0..n : i = 0 \/ i \in 1..n
  BY <1>1
<1>9. \A i \in 1..n : f[i] = With(f[i - 1], chars[i])
  BY <1>6, <1>7
<1>10. IsShown(chars, f)
  <2>. HIDE DEF step
  <2>1. \A i \in 0..n : f[i] = IF i = 0 THEN NoCells ELSE With(f[i - 1], chars[i])
    BY <1>6, <1>8, <1>9
  <2>. QED  BY <1>6, <2>1 DEF IsShown, n
<1>11. Shown(chars) = (CHOOSE g : IsShown(chars, g))[n]
  BY DEF Shown, IsShown, n
<1>12. IsShown(chars, CHOOSE g : IsShown(chars, g))
  BY <1>10
<1>13. ASSUME NEW g, IsShown(chars, g)
       PROVE  g = f
  <2>1. /\ g = [i \in 0..n |-> g[i]] /\ g[0] = NoCells
        /\ \A i \in 1..n : g[i] = With(g[i - 1], chars[i])
    BY <1>1, <1>7, <1>13 DEF IsShown, n
  <2>2. f = [i \in 0..n |-> f[i]]
    BY <1>6
  <2>3. \A i \in 1..n : g[i - 1] = f[i - 1] => g[i] = f[i]
    BY <1>9, <2>1
  <2>4. OnInterval(g, n) /\ OnInterval(f, n) /\ g[0] = f[0]
    BY <1>6, <2>1, <2>2 DEF OnInterval
  <2>. QED  BY <1>1, <2>3, <2>4, SameIteration
<1>14. Shown(chars) = f[n]
  <2>1. (CHOOSE g : IsShown(chars, g)) = f
    BY <1>12, <1>13
  <2>. QED  BY <1>11, <2>1
<1>. QED  BY <1>6, <1>10, <1>14 DEF n, X

LEMMA NothingShown == Shown(<<>>) = NoCells
<1>1. <<>> \in Seq(Character) /\ Len(<<>>) = 0
  BY EmptySeq
<1>2. PICK f \in [0..0 -> Screen] : IsShown(<<>>, f) /\ Shown(<<>>) = f[0]
  BY <1>1, ShownBy
<1>. QED  BY <1>1, <1>2 DEF IsShown

(* One more character.                                                     *)
LEMMA ShownNext ==
  ASSUME NEW chars \in Seq(Character), NEW c \in Character
  PROVE  /\ Shown(chars) \in Screen
         /\ Append(chars, c) \in Seq(Character)
         /\ Shown(Append(chars, c)) = With(Shown(chars), c)
<1>. DEFINE n    == Len(chars)
            more == Append(chars, c)
<1>1. /\ n \in Nat /\ more \in Seq(Character) /\ Len(more) = n + 1
      /\ \A i \in 1..n : more[i] = chars[i]
      /\ more[n + 1] = c
  BY LenProperties, AppendProperties
<1>. HIDE DEF n, more
<1>2. PICK f \in [0..n -> Screen] : IsShown(chars, f) /\ Shown(chars) = f[n]
  BY ShownBy DEF n
<1>3. PICK g \in [0..n + 1 -> Screen] : IsShown(more, g) /\ Shown(more) = g[n + 1]
  BY <1>1, ShownBy
<1>4. \A i \in 1..n : i - 1 \in 0..n /\ i \in 0..n /\ i # 0 /\ i \in 0..n + 1
  BY <1>1
<1>5. f[0] = NoCells /\ \A i \in 1..n : f[i] = With(f[i - 1], chars[i])
  BY <1>1, <1>2, <1>4 DEF IsShown, n
<1>6. /\ g[0] = NoCells /\ \A i \in 1..n : g[i] = With(g[i - 1], chars[i])
      /\ g[n + 1] = With(g[n], c)
  <2>1. g = [i \in 0..n + 1 |-> IF i = 0 THEN NoCells ELSE With(g[i - 1], more[i])]
    BY <1>1, <1>3 DEF IsShown
  <2>2. 0 \in 0..n + 1 /\ n + 1 \in 0..n + 1 /\ n + 1 # 0 /\ (n + 1) - 1 = n
    BY <1>1
  <2>3. g[0] = NoCells /\ \A i \in 1..n : g[i] = With(g[i - 1], more[i])
    BY <1>4, <2>1, <2>2
  <2>4. g[n + 1] = With(g[n], more[n + 1])
    BY <2>1, <2>2
  <2>. QED  BY <1>1, <2>3, <2>4
<1>. DEFINE S == {i \in 0..n : g[i] = f[i]}
<1>7. 0 \in S
  BY <1>1, <1>5, <1>6
<1>8. ASSUME NEW i \in 0..n - 1, i \in S
      PROVE  i + 1 \in S
  <2>1. i + 1 \in 1..n /\ (i + 1) - 1 = i /\ i + 1 \in 0..n
    BY <1>1
  <2>. QED  BY <1>5, <1>6, <1>8, <2>1
<1>. HIDE DEF S
<1>9. 0..n \subseteq S
  BY <1>1, <1>7, <1>8, IntervalInduction
<1>10. n \in 0..n
  BY <1>1
<1>11. g[n] = f[n]
  BY <1>9, <1>10 DEF S
<1>. QED  BY <1>1, <1>2, <1>3, <1>6, <1>10, <1>11 DEF more

(* The cursor is after the line, and around the line is nothing.           *)
Shows(s, held) ==
  /\ s \in Screen
  /\ s.at = Len(held)
  /\ \A j \in Cells : s.cells[j] = IF j \in 1..Len(held) THEN held[j] ELSE "blank"

LEMMA NothingShows == Shows(NoCells, <<>>)
BY NoCellsIs DEF Shows, NoCells, Cells

LEMMA CharacterShows ==
  ASSUME NEW s, NEW held \in Seq(Character), Shows(s, held), NEW key \in Character,
         key # "back", key # "newline"
  PROVE  Shows(With(s, key), Append(held, key))
<1>. DEFINE r == With(s, key)
            n == Len(held)
            more == Append(held, key)
<1>1. s \in Screen /\ s.at = n /\ n \in Nat
  BY LenProperties DEF Shows
<1>2. r = [at |-> n + 1, cells |-> [j \in Cells |-> IF j = n + 1 THEN key ELSE s.cells[j]]]
  BY <1>1, WithCharacter
<1>3. r \in Screen
  BY <1>1, WithIs
<1>4. r.at = n + 1 /\ \A j \in Cells : r.cells[j] = IF j = n + 1 THEN key ELSE s.cells[j]
  <2>. HIDE DEF r, n
  <2>. QED  BY <1>2
<1>5. /\ Len(more) = n + 1 /\ more[n + 1] = key
      /\ \A j \in 1..n : more[j] = held[j]
  BY AppendProperties
<1>6. \A j \in Cells : s.cells[j] = IF j \in 1..n THEN held[j] ELSE "blank"
  BY DEF Shows
<1>. HIDE DEF r, n, more
<1>7. ASSUME NEW j \in Cells
      PROVE  r.cells[j] = IF j \in 1..n + 1 THEN more[j] ELSE "blank"
  <2>1. j \in Int
    BY TerminalAssumption DEF Cells
  <2>2. j \in 1..n + 1 <=> j = n + 1 \/ j \in 1..n
    BY <1>1, <2>1
  <2>3. n + 1 \notin 1..n
    BY <1>1
  <2>. QED  BY <1>4, <1>5, <1>6, <2>2, <2>3
<1>. QED  BY <1>3, <1>4, <1>5, <1>7 DEF Shows, r, more

LEMMA DeleteShows ==
  ASSUME NEW s, NEW held \in Seq(Character), held # <<>>, Shows(s, held)
  PROVE  Shows(With(With(With(s, "back"), "blank"), "back"), Front(held))
<1>. DEFINE n == Len(held)
            a == With(s, "back")
            b == With(a, "blank")
            c == With(b, "back")
<1>1. s \in Screen /\ s.at = n /\ n \in Nat \ {0}
  BY EmptySeq DEF Shows
<1>2. a = [at |-> n - 1, cells |-> s.cells]
  BY <1>1, WithBack
<1>3. a \in Screen
  BY <1>1, WithIs, CharactersAre
<1>4. a.at = n - 1 /\ a.cells = s.cells
  BY <1>2
<1>. HIDE DEF a, n
<1>5. b = [at |-> n - 1 + 1, cells |-> [j \in Cells |-> IF j = n - 1 + 1 THEN "blank" ELSE s.cells[j]]]
  BY <1>3, <1>4, WithCharacter
<1>6. b \in Screen
  BY <1>3, WithIs, CharactersAre
<1>7. b.at = n - 1 + 1 /\ n - 1 + 1 = n
  BY <1>1, <1>5
<1>8. \A j \in Cells : b.cells[j] = IF j = n THEN "blank" ELSE s.cells[j]
  <2>. HIDE DEF b
  <2>. QED  BY <1>5, <1>7
<1>. HIDE DEF b
<1>9. c = [at |-> n - 1, cells |-> b.cells] /\ c \in Screen
  BY <1>6, <1>7, WithBack, WithIs, CharactersAre
<1>10. c.at = n - 1 /\ c.cells = b.cells
  BY <1>9
<1>. HIDE DEF c
<1>. DEFINE f == Front(held)
<1>11. Len(f) = n - 1 /\ \A j \in 1..n - 1 : f[j] = held[j]
  <2>1. f = SubSeq(held, 1, n - 1)
    BY DEF Front, n
  <2>2. /\ \A j \in 1..n - 1 : held[j] \in Character /\ 1 + j - 1 = j
        /\ n - 1 \in Int /\ 1 \in Int /\ n - 1 - 1 + 1 = n - 1
        /\ (IF 1 <= n - 1 THEN n - 1 - 1 + 1 ELSE 0) = n - 1
    BY SMTT(40), <1>1, ElementOfSeq DEF n
  <2>3. /\ Len(SubSeq(held, 1, n - 1)) = IF 1 <= n - 1 THEN n - 1 - 1 + 1 ELSE 0
        /\ \A j \in 1..n - 1 - 1 + 1 : SubSeq(held, 1, n - 1)[j] = held[1 + j - 1]
    BY <2>2, SubSeqProperties
  <2>. HIDE DEF f
  <2>. QED  BY <2>1, <2>2, <2>3
<1>12. \A j \in Cells : s.cells[j] = IF j \in 1..n THEN held[j] ELSE "blank"
  BY DEF Shows, n
<1>. HIDE DEF f
<1>13. ASSUME NEW j \in Cells
       PROVE  c.cells[j] = IF j \in 1..n - 1 THEN f[j] ELSE "blank"
  <2>1. j \in Int
    BY TerminalAssumption DEF Cells
  <2>2. j \in 1..n - 1 <=> j # n /\ j \in 1..n
    BY <1>1, <2>1
  <2>. QED  BY <1>8, <1>10, <1>11, <1>12, <2>2
<1>. QED  BY <1>9, <1>10, <1>11, <1>13 DEF Shows, a, b, c, f

LEMMA EchoOfDelete ==
  \A i : Echo(i, DELETE) = IF i > 0 THEN <<"back", "blank", "back">> ELSE <<>>
BY DEF Echo, DELETE, ENTER

(* The echo of a key does to what is seen what the key does to the line.   *)
LEMMA EchoShows ==
  ASSUME KeysShow, NEW chars \in Seq(Character), NEW held \in Seq(Character),
         Shows(Shown(chars), held), NEW key \in Key
  PROVE  Shows(Shown(chars \o Echo(Len(held), key)), After(held, key))
<1>1. /\ "back" \in Character /\ "blank" \in Character /\ "newline" \in Character
      /\ key \in Character
  BY CharactersAre DEF Key
<1>. HIDE DEF Character
<1>2. CASE key = DELETE
  <2>1. After(held, key) = IF held = <<>> THEN held ELSE Front(held)
    BY <1>2, AfterDelete
  <2>2. CASE held = <<>>
    <3>1. Len(held) = 0
      BY <2>2
    <3>2. Echo(Len(held), key) = <<>>
      BY <1>2, <3>1, EchoOfDelete
    <3>3. chars \o <<>> = chars
      BY ConcatEmptySeq
    <3>. QED  BY <2>1, <2>2, <3>2, <3>3
  <2>3. CASE held # <<>>
    <3>1. Len(held) > 0
      BY <2>3, EmptySeq
    <3>2. Echo(Len(held), key) = <<"back", "blank", "back">>
      BY <1>2, <3>1, EchoOfDelete
    <3>. DEFINE a == Append(chars, "back")
                b == Append(a, "blank")
                c == Append(b, "back")
    <3>3. a \in Seq(Character) /\ Shown(a) = With(Shown(chars), "back")
      BY <1>1, ShownNext
    <3>. HIDE DEF a
    <3>4. b \in Seq(Character) /\ Shown(b) = With(Shown(a), "blank")
      BY <1>1, <3>3, ShownNext
    <3>. HIDE DEF b
    <3>5. Shown(c) = With(Shown(b), "back")
      BY <1>1, <3>4, ShownNext
    <3>6. c = chars \o <<"back", "blank", "back">>
      BY <1>1, <3>3, <3>4 DEF a, b
    <3>. HIDE DEF c
    <3>7. Shown(c) = With(With(With(Shown(chars), "back"), "blank"), "back")
      BY <3>3, <3>4, <3>5
    <3>8. Shows(Shown(c), Front(held))
      BY <2>3, <3>7, DeleteShows
    <3>. QED  BY <2>1, <2>3, <3>2, <3>6, <3>8
  <2>. QED  BY <2>2, <2>3
<1>3. CASE key = ENTER
  <2>1. Echo(Len(held), key) = <<"newline">> /\ After(held, key) = held
    BY <1>3 DEF Echo, After, DELETE, ENTER
  <2>2. chars \o <<"newline">> = Append(chars, "newline")
    BY <1>1, AppendIsConcat
  <2>3. Shown(Append(chars, "newline")) = Shown(chars)
    BY <1>1, ShownNext, WithNewline
  <2>. QED  BY <2>1, <2>2, <2>3
<1>4. CASE key # DELETE /\ key # ENTER
  <2>1. Echo(Len(held), key) = <<key>> /\ After(held, key) = Append(held, key)
    BY <1>4 DEF Echo, After
  <2>2. chars \o <<key>> = Append(chars, key)
    BY <1>1, AppendIsConcat
  <2>3. key # "back" /\ key # "newline"
    BY <1>4 DEF Key, KeysShow
  <2>4. Shows(With(Shown(chars), key), Append(held, key))
    BY <1>1, <2>3, CharacterShows
  <2>5. Shown(Append(chars, key)) = With(Shown(chars), key)
    BY <1>1, ShownNext
  <2>. QED  BY <2>1, <2>2, <2>4, <2>5
<1>. QED  BY <1>2, <1>3, <1>4

(* The line of a thread that waits is new; at the console it is seen once  *)
(* all of its echo is said.                                                *)
Reads(t) ==
  call[t][1] = "line" =>
    /\ pc[t] \in Lining => out[t] = <<>> /\ typed[t] = <<>>
    /\ pc[t] = "console" => Shows(Shown(said \o out[t]), Edited(typed[t]))

Seen ==
  /\ said \in Seq(Character)
  /\ call \in [Thread -> Calls \cup {<<"none">>}]
  /\ \A t \in Thread : Reads(t)

Seeing(m) == LockInv(m) /\ EditInv /\ RingHolds /\ Seen

SeenInv(m) == Held(m) /\ EditInv /\ RingInv /\ (~panicked => Seen)

LEMMA PutcSeen ==
  ASSUME NEW m \in Thread, Seeing(m), NEW t \in Thread, Putc(t)
  PROVE  Seen'
<1>1. pc[t] = "console" /\ UNCHANGED <<pc, call, typed>>
  BY DEF Putc, vars
<1>2. /\ said' \in Seq(Character)
      /\ said' \o out'[t] = said \o out[t]
      /\ \A u \in Thread \ {t} : out'[u] = out[u]
  BY PutcMoves DEF Seeing, RingHolds, Seen
<1>3. OneAtTheConsole
  BY LockedIs DEF Seeing
<1>4. ASSUME NEW u \in Thread
      PROVE  Reads(u)'
  <2>1. Reads(u)
    BY DEF Seeing, Seen
  <2>2. CASE u = t
    BY <1>1, <1>2, <2>1, <2>2 DEF Reads, Lining
  <2>3. CASE u # t
    <3>1. pc[u] # "console"
      BY <1>1, <1>3, <2>3 DEF OneAtTheConsole
    <3>. QED  BY <1>1, <1>2, <2>1, <2>3, <3>1 DEF Reads
  <2>. QED  BY <2>2, <2>3
<1>. QED  BY <1>1, <1>2, <1>4 DEF Seen, Seeing

LEMMA TypeSeen ==
  ASSUME KeysShow, NEW m \in Thread, Seeing(m),
         NEW t \in Thread, NEW key \in Keys(t), Type(t, key)
  PROVE  Seen'
<1>1. /\ pc[t] = "console" /\ out[t] = <<>>
      /\ out' = [out EXCEPT ![t] = Echo(line[t].i, key)]
      /\ typed' = [typed EXCEPT ![t] = Append(typed[t], key)]
      /\ UNCHANGED <<pc, call, said>>
  BY DEF Type, vars
<1>2. key \in Key
  BY DEF Keys, Key
<1>3. /\ out'[t] = Echo(line[t].i, key) /\ typed'[t] = Append(typed[t], key)
      /\ \A u \in Thread \ {t} : out'[u] = out[u] /\ typed'[u] = typed[u]
  BY <1>1 DEF Seeing, RingHolds, EditInv
<1>4. /\ typed[t] \in Seq(Key) /\ Edited(typed[t]) = HeldIn(line[t]) /\ line[t].i \in Nat
  BY TerminalAssumption DEF Seeing, EditInv, Edits, Line
<1>5. Len(Edited(typed[t])) = line[t].i /\ Edited(typed[t]) \in Seq(Character)
  <2>1. Edited(typed[t]) \in Seq(Character)
    BY <1>2, <1>4, EditedNext
  <2>2. DOMAIN Edited(typed[t]) = 1..line[t].i
    BY <1>4 DEF HeldIn
  <2>3. DOMAIN Edited(typed[t]) = 1..Len(Edited(typed[t])) /\ Len(Edited(typed[t])) \in Nat
    BY <2>1, LenProperties
  <2>. QED  BY <1>4, <2>1, <2>2, <2>3
<1>6. call[t][1] = "line" => Shows(Shown(said \o out'[t]), Edited(typed'[t]))
  <2>. SUFFICES ASSUME call[t][1] = "line" PROVE Shows(Shown(said \o out'[t]), Edited(typed'[t]))
    OBVIOUS
  <2>1. said \in Seq(Character) /\ said \o <<>> = said
    BY ConcatEmptySeq DEF Seeing, Seen
  <2>2. Shows(Shown(said), Edited(typed[t]))
    BY <1>1, <2>1 DEF Seeing, Seen, Reads
  <2>. DEFINE held == Edited(typed[t])
  <2>3. held \in Seq(Character) /\ Len(held) = line[t].i /\ Shows(Shown(said), held)
    BY <1>5, <2>2
  <2>4. Edited(typed'[t]) = After(held, key)
    BY <1>2, <1>3, <1>4, EditedNext
  <2>. HIDE DEF held
  <2>5. Shows(Shown(said \o Echo(Len(held), key)), After(held, key))
    BY <1>2, <2>1, <2>3, EchoShows
  <2>. QED  BY <1>3, <2>3, <2>4, <2>5
<1>7. OneAtTheConsole
  BY LockedIs DEF Seeing
<1>8. ASSUME NEW u \in Thread
      PROVE  Reads(u)'
  <2>1. Reads(u)
    BY DEF Seeing, Seen
  <2>2. CASE u = t
    BY <1>1, <1>6, <2>2 DEF Reads, Lining
  <2>3. CASE u # t
    <3>1. pc[u] # "console"
      BY <1>1, <1>7, <2>3 DEF OneAtTheConsole
    <3>. QED  BY <1>1, <1>3, <2>1, <2>3, <3>1 DEF Reads
  <2>. QED  BY <2>2, <2>3
<1>. QED  BY <1>1, <1>8 DEF Seen, Seeing

LEMMA CallSeen ==
  ASSUME NEW m \in Thread, Seeing(m), NEW t \in Thread, NEW c \in Calls, Call(t, c)
  PROVE  Seen'
<1>1. /\ pc' = [pc EXCEPT ![t] = IF initialized THEN "wait" ELSE "initialize"]
      /\ call' = [call EXCEPT ![t] = c] /\ out' = [out EXCEPT ![t] = Printed(c)]
      /\ typed' = [typed EXCEPT ![t] = <<>>]
      /\ said' = said
  BY DEF Call, Test, Goto, Printed
<1>2. /\ pc'[t] \in Lining
      /\ out'[t] = Printed(c) /\ typed'[t] = <<>>
      /\ call' \in [Thread -> Calls \cup {<<"none">>}] /\ call'[t] = c
  BY <1>1 DEF Seeing, LockInv, RingHolds, Seen, EditInv, Lining
<1>3. \A u \in Thread \ {t} : /\ pc'[u] = pc[u] /\ out'[u] = out[u]
                              /\ call'[u] = call[u] /\ typed'[u] = typed[u]
  BY <1>1 DEF Seeing, LockInv, RingHolds, Seen, EditInv
<1>4. c[1] = "line" => Printed(c) = <<>>
  BY DEF Printed
<1>5. "console" \notin Lining
  BY DEF Lining
<1>6. ASSUME NEW u \in Thread
      PROVE  Reads(u)'
  <2>1. Reads(u)
    BY DEF Seeing, Seen
  <2>2. CASE u = t
    BY <1>2, <1>4, <1>5, <2>2 DEF Reads
  <2>3. CASE u # t
    BY <1>1, <1>3, <2>1, <2>3 DEF Reads
  <2>. QED  BY <2>2, <2>3
<1>. QED  BY <1>1, <1>2, <1>6 DEF Seen, Seeing

(* A thread that is given the console starts a line of its own.            *)
LEMMA FreshLine ==
  ASSUME NEW t \in Thread, Reads(t), pc[t] \in Lining, call[t][1] = "line"
  PROVE  Shows(Shown(<<>> \o out[t]), Edited(typed[t]))
<1>1. out[t] = <<>> /\ typed[t] = <<>>
  BY DEF Reads
<1>2. <<>> \o <<>> = <<>>
  BY ConcatEmptySeq
<1>. QED  BY <1>1, <1>2, NothingShown, NothingEdited, NothingShows

LEMMA LockingSeen ==
  ASSUME NEW m \in Thread, Seeing(m), NEW t \in Thread, Locking(t), LockInv(m)'
  PROVE  Seen'
<1>1. /\ pc[t] = "wait" /\ UNCHANGED <<call, out, typed>>
      /\ said' = IF pc'[t] = "console" THEN <<>> ELSE said
      /\ pc' = [pc EXCEPT ![t] = "blocked"] \/ pc' = [pc EXCEPT ![t] = "console"]
  BY DEF Locking, Lock, Goto
<1>2. /\ pc'[t] \in {"blocked", "console"}
      /\ \A u \in Thread \ {t} : pc'[u] = pc[u]
  BY <1>1 DEF Seeing, LockInv
<1>3. OneAtTheConsole'
  BY DEF LockInv, Alone, Ready, OneAtTheConsole
<1>4. ASSUME NEW u \in Thread
      PROVE  Reads(u)'
  <2>1. Reads(u)
    BY DEF Seeing, Seen
  <2>2. CASE u = t
    BY <1>1, <1>2, <2>1, <2>2, FreshLine DEF Reads, Lining
  <2>3. CASE u # t
    <3>1. pc'[u] = "console" => said' = said
      BY <1>1, <1>2, <1>3, <2>3 DEF OneAtTheConsole
    <3>. QED  BY <1>1, <1>2, <2>1, <2>3, <3>1 DEF Reads
  <2>. QED  BY <2>2, <2>3
<1>5. said' \in Seq(Character)
  BY <1>1 DEF Seeing, Seen
<1>. QED  BY <1>1, <1>4, <1>5 DEF Seen, Seeing

LEMMA UnlockingSeen ==
  ASSUME NEW m \in Thread, Seeing(m), NEW t \in Thread, Unlocking(t)
  PROVE  Seen'
<1>1. /\ Unlock(t) /\ said' = <<>> /\ UNCHANGED out
      /\ call' = [call EXCEPT ![t] = <<"none">>] /\ typed' = [typed EXCEPT ![t] = <<>>]
  BY DEF Unlocking
<1>2. /\ pc'[t] = "enter"
      /\ \A u \in Thread \ {t} : /\ pc[u] # "console"
                                 /\ \/ pc'[u] = pc[u]
                                    \/ pc[u] = "blocked" /\ pc'[u] = "console"
  BY <1>1, UnlockMoves DEF Seeing
<1>3. \A u \in Thread \ {t} : call'[u] = call[u] /\ typed'[u] = typed[u]
  BY <1>1 DEF Seeing, Seen, EditInv
<1>4. ASSUME NEW u \in Thread
      PROVE  Reads(u)'
  <2>1. Reads(u)
    BY DEF Seeing, Seen
  <2>2. CASE u = t
    BY <1>2, <2>2 DEF Reads, Lining
  <2>3. CASE u # t
    BY <1>1, <1>2, <1>3, <2>1, <2>3, FreshLine DEF Reads, Lining
  <2>. QED  BY <2>2, <2>3
<1>5. said' \in Seq(Character) /\ call' \in [Thread -> Calls \cup {<<"none">>}]
  BY <1>1 DEF Seeing, Seen
<1>. QED  BY <1>4, <1>5 DEF Seen

LEMMA OtherSeen ==
  ASSUME NEW m \in Thread, Seeing(m), UNCHANGED text,
         \/ UNCHANGED vars
         \/ \E t \in Thread : Begin(t) \/ Initialize(t) \/ Mark(t)
  PROVE  Seen'
<1>1. \A u \in Thread : \/ pc'[u] = pc[u]
                        \/ pc'[u] \notin Lining \cup {"console"}
                        \/ pc[u] \in Lining /\ pc'[u] \in Lining
  BY OtherMoves DEF Seeing
<1>2. ASSUME NEW u \in Thread
      PROVE  Reads(u)'
  <2>1. Reads(u)
    BY DEF Seeing, Seen
  <2>2. UNCHANGED <<call, out, said, typed>>
    BY DEF text
  <2>. QED  BY <1>1, <2>1, <2>2 DEF Reads, Lining
<1>. QED  BY <1>2 DEF Seen, Seeing, text

LEMMA NextSeen ==
  ASSUME KeysShow, NEW m \in Thread
  PROVE  SeenInv(m) /\ [~panicked /\ Moves]_all => SeenInv(m)'
<1>. SUFFICES ASSUME SeenInv(m), [~panicked /\ Moves]_all
              PROVE  SeenInv(m)'
  OBVIOUS
<1>1. Held(m)' /\ EditInv' /\ RingInv'
  BY NextHeld, NextEdit, NextRing DEF SeenInv
<1>2. ~panicked => Seeing(m)
  BY DEF SeenInv, Held, RingInv, Seeing
<1>3. CASE panicked \/ panicked'
  <2>1. panicked => panicked'
    BY DEF all
  <2>. QED  BY <1>1, <1>3, <2>1 DEF SeenInv
<1>4. CASE ~panicked /\ ~panicked'
  <2>1. Seeing(m) /\ LockInv(m)'
    BY <1>1, <1>2, <1>4 DEF Held
  <2>2. CASE UNCHANGED all
    <3>1. UNCHANGED text /\ UNCHANGED vars
      BY <2>2 DEF all
    <3>. QED  BY <1>1, <2>1, <3>1, OtherSeen DEF SeenInv
  <2>3. ASSUME NEW t \in Thread, Begin(t) \/ Initialize(t) \/ Mark(t), UNCHANGED text
        PROVE  Seen'
    BY <2>1, <2>3, OtherSeen
  <2>4. ASSUME NEW t \in Thread, NEW c \in Calls, Call(t, c)
        PROVE  Seen'
    BY <2>1, <2>4, CallSeen
  <2>5. ASSUME NEW t \in Thread, Locking(t)
        PROVE  Seen'
    BY <2>1, <2>5, LockingSeen
  <2>6. ASSUME NEW t \in Thread, Putc(t)
        PROVE  Seen'
    BY <2>1, <2>6, PutcSeen
  <2>7. ASSUME NEW t \in Thread, NEW key \in Keys(t), Type(t, key)
        PROVE  Seen'
    BY <2>1, <2>7, TypeSeen
  <2>8. ASSUME NEW t \in Thread, Unlocking(t)
        PROVE  Seen'
    BY <2>1, <2>8, UnlockingSeen
  <2>9. ASSUME NEW n, Flush(n)
        PROVE  Seen'
    <3>1. UNCHANGED text /\ UNCHANGED vars
      BY <2>9 DEF Flush
    <3>. QED  BY <2>1, <3>1, OtherSeen
  <2>10. ASSUME NEW sepc, NEW n, NEW k, KernelPanic(sepc, n, k)
         PROVE  FALSE
    BY <1>4, <2>10 DEF KernelPanic
  <2>11. ASSUME NEW t \in Thread, NEW c \in Singles, PutcUnlocked(t, c)
         PROVE  Seen'
    <3>1. UNCHANGED text /\ UNCHANGED vars
      BY <2>11 DEF PutcUnlocked
    <3>. QED  BY <2>1, <3>1, OtherSeen
  <2>12. Moves => Seen'
    BY <2>3, <2>4, <2>5, <2>6, <2>7, <2>8, <2>9, <2>10, <2>11 DEF Moves, Working
  <2>. QED  BY <1>1, <2>2, <2>12 DEF SeenInv
<1>. QED  BY <1>3, <1>4

(* What the user sees of a line is what get_string holds: the echo of each *)
(* key does to the screen what the key does to the line.                   *)
THEOREM LineIsShown ==
  ASSUME KeysShow, NEW m \in Thread, Early = {m}
  PROVE  TerminalSpec => []LineShown
<1>1. Begins => SeenInv(m)
  <2>. SUFFICES ASSUME Begins PROVE SeenInv(m)
    OBVIOUS
  <2>1. Held(m)
    BY InitHasInv DEF Begins, Held
  <2>2. EditInv /\ RingInv
    BY InitRing, NoLineEdits DEF Begins, NoLines, Nothing, EditInv
  <2>3. Seen
    BY DEF Begins, NoCalls, Seen, Reads
  <2>. QED  BY <2>1, <2>2, <2>3 DEF SeenInv
<1>2. SeenInv(m) => LineShown
  <2>. SUFFICES ASSUME SeenInv(m), NEW t \in Thread, pc[t] = "console", call[t][1] = "line",
                       out[t] = <<>>
                PROVE  LET s    == Shown(said)
                           held == Edited(typed[t])
                       IN /\ s.at = Len(held)
                          /\ \A j \in DOMAIN s.cells :
                               s.cells[j] = IF j \in DOMAIN held THEN held[j] ELSE "blank"
    BY DEF LineShown
  <2>1. ~panicked
    BY DEF SeenInv, Held
  <2>2. said \in Seq(Character) /\ Reads(t) /\ Edits(line[t], typed[t])
    BY <2>1 DEF SeenInv, Seen, EditInv
  <2>3. said \o <<>> = said
    BY <2>2, ConcatEmptySeq
  <2>. DEFINE s    == Shown(said)
              held == Edited(typed[t])
  <2>4. Shows(s, held)
    BY <2>2, <2>3 DEF Reads
  <2>5. DOMAIN held = 1..Len(held)
    <3>1. DOMAIN held = 1..line[t].i /\ line[t].i \in Nat
      BY <2>2, TerminalAssumption DEF Edits, HeldIn, Line
    <3>. HIDE DEF held
    <3>. QED  BY <3>1
  <2>. HIDE DEF s, held
  <2>6. DOMAIN s.cells = Cells
    BY <2>4 DEF Shows, Screen
  <2>7. s.at = Len(held) /\ \A j \in DOMAIN s.cells : s.cells[j] = IF j \in DOMAIN held THEN held[j] ELSE "blank"
    BY <2>4, <2>5, <2>6 DEF Shows
  <2>. QED  BY <2>7 DEF s, held
<1>. QED  BY <1>1, <1>2, NextSeen, PTL DEF TerminalSpec
=============================================================================
