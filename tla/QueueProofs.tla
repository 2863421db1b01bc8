---------------------------- MODULE QueueProofs ----------------------------
(***************************************************************************)
(* Proofs about Kernel on top of its inductive invariant.  Sections: the   *)
(* order of the ready queue, what the value of a semaphore counts, the     *)
(* refinement of Semaphores, the console buffers, the results of waits;    *)
(* then the time slice, the relative times of the sleep queue, and that    *)
(* these amount to an alarm clock.                                         *)
(***************************************************************************)
EXTENDS TimeSlice, WaitResults, KernelProofs, Induction

-----------------------------------------------------------------------------
(* The ready queue.                                                        *)

(* The list r begins with the list q.                                      *)
Begins(q, r) ==
  /\ r \in Seq(TCB)
  /\ Len(q) <= Len(r)
  /\ \A i \in 1..Len(q) : r[i] = q[i]

LEMMA BeginsSame == ASSUME NEW q \in Seq(TCB) PROVE Begins(q, q)
  BY DEF Begins

LEMMA BeginsAppend ==
  ASSUME NEW q \in Seq(TCB), NEW r, Begins(q, r), NEW c \in TCB
  PROVE  Begins(q, Append(r, c))
  BY DEF Begins

LEMMA BeginsConcat ==
  ASSUME NEW q \in Seq(TCB), NEW x \in Seq(TCB)
  PROVE  Begins(q, q \o x)
  BY DEF Begins

(* Taking the first thread of a list that begins with q, or none, leaves   *)
(* the threads of q in their order at the front.                           *)
LEMMA BeginsInTurn ==
  ASSUME NEW q \in Seq(TCB), NEW r, Begins(q, r)
  PROVE  /\ InTurn(q, r)
         /\ r # <<>> => InTurn(q, Tail(r))
<1>. DEFINE n == Len(q)
            m == Len(r)
<1>1. n \in Nat /\ m \in Nat /\ n <= m /\ \A i \in 1..n : r[i] = q[i]
  BY DEF Begins
<1>2. InTurn(q, r)
  <2>1. 0 <= n /\ m >= n - 0 /\ \A i \in 0 + 1..n : r[i - 0] = q[i]
    BY <1>1
  <2>. QED  BY <2>1 DEF InTurn
<1>3. ASSUME r # <<>> PROVE InTurn(q, Tail(r))
  <2>1. Len(Tail(r)) = m - 1 /\ m >= 1 /\ \A i \in 1..m - 1 : Tail(r)[i] = r[i + 1]
    BY <1>3 DEF Begins
  <2>2. CASE n = 0
    <3>1. 0 <= n /\ Len(Tail(r)) >= n - 0 /\ \A i \in 0 + 1..n : Tail(r)[i - 0] = q[i]
      BY <1>1, <2>1, <2>2
    <3>. QED  BY <3>1 DEF InTurn
  <2>3. CASE n >= 1
    <3>. HIDE DEF n, m
    <3>1. \A i \in 1 + 1..n : i - 1 \in 1..m - 1 /\ i - 1 + 1 = i /\ i \in 1..n
      BY <1>1
    <3>2. 1 <= n /\ Len(Tail(r)) >= n - 1 /\ \A i \in 1 + 1..n : Tail(r)[i - 1] = q[i]
      BY <1>1, <2>1, <2>3, <3>1
    <3>. QED  BY <3>2 DEF InTurn, n
  <2>. QED  BY <1>1, <2>2, <2>3
<1>. QED  BY <1>2, <1>3

(* A context switch takes the first thread of the queue it is given.       *)
LEMMA SwitchInTurn ==
  ASSUME NEW st, NEW queue, NEW cont, NEW ticks, NEW input,
         ready \in Seq(TCB), Begins(ready, queue),
         Switch(st, queue, cont, ticks, input)
  PROVE  InTurn(ready, ready')
<1>1. ready' = IF queue = <<>> THEN queue ELSE Tail(queue)
  BY DEF Switch
<1>. QED  BY <1>1, BeginsInTurn

LEMMA DispatchInTurn ==
  ASSUME NEW st, NEW queue, NEW ticks, NEW input,
         ready \in Seq(TCB), current \in TCB, Begins(ready, queue),
         Dispatch(st, queue, ticks, input)
  PROVE  InTurn(ready, ready')
  BY BeginsAppend, SwitchInTurn DEF Dispatch

(* Threads taken from the front of another list.                           *)
LEMMA WokenType ==
  ASSUME IInv
  PROVE  /\ \A s \in SemAddr, n \in Nat : Unblocked(s, n) \in Seq(TCB)
         /\ Due \in Seq(TCB)
<1>1. waiting \in [SemAddr -> Seq(TCB)] /\ asleep \in Seq(TCB)
  BY DEF IInv, TypeOK
<1>2. ASSUME NEW s \in SemAddr, NEW n \in Nat
      PROVE  Unblocked(s, n) \in Seq(TCB)
  <2>1. PICK k \in 0..Len(waiting[s]) : Unblocked(s, n) = SubSeq(waiting[s], 1, k)
    BY <1>1, UnblockedPrefix
  <2>. QED  BY <1>1, <2>1, ElementsSplit
<1>3. Due \in Seq(TCB)
  <2>. DEFINE expired == {i \in 1..Len(asleep) : \A j \in 1..i : Ticked[asleep[j]] <= 0}
              k == Cardinality(expired)
  <2>1. expired \in SUBSET (1..Len(asleep))
    OBVIOUS
  <2>2. Due = SubSeq(asleep, 1, k)
    BY DEF Due
  <2>. HIDE DEF expired
  <2>3. k \in 0..Len(asleep)
    BY <1>1, <2>1, CountedPrefix
  <2>. HIDE DEF k
  <2>. QED  BY <1>1, <2>2, <2>3, ElementsSplit
<1>. QED  BY <1>2, <1>3

LEMMA StepInTurn ==
  ASSUME IInv, Next
  PROVE  InTurn(ready, ready')
<1>1. /\ ready \in Seq(TCB) /\ current \in TCB
      /\ waiting \in [SemAddr -> Seq(TCB)]
      /\ PutcSem \in SemAddr /\ GetcSem \in SemAddr /\ Sem \subseteq SemAddr
  BY DEF IInv, TypeOK, SchedulerNeverDry, SemAddr
<1>2. Begins(ready, ready) /\ InTurn(ready, ready)
  BY <1>1, BeginsSame, BeginsInTurn
<1>3. \A x \in Seq(TCB) : Begins(ready, ready \o x) /\ InTurn(ready, ready \o x)
  BY <1>1, BeginsConcat, BeginsInTurn
<1>4. \A t \in TCB : InTurn(ready, Append(ready, t))
  BY <1>1, <1>2, BeginsAppend, BeginsInTurn
<1>5. \A s \in SemAddr : \A cont : Wait(s, cont) => InTurn(ready, ready')
  BY <1>1, <1>2, SwitchInTurn DEF Wait, threadVars
<1>6. CASE ThreadCreate
  BY <1>2, <1>4, <1>6 DEF ThreadCreate, Workers
<1>7. CASE ThreadExit
  <2>1. current \in SemAddr
    BY <1>1 DEF SemAddr
  <2>2. CASE current # MainTcb
    <3>1. waiting[current] \in Seq(TCB)
      BY <1>1, <2>1
    <3>2. Begins(ready, ready \o waiting[current])
      BY <1>3, <3>1
    <3>3. Switch(MakeReady([status EXCEPT ![current] = "FREE"], waiting[current]),
                 ready \o waiting[current], At("start"), timer_ticks, getc_buffer)
      BY <1>7, <2>2 DEF ThreadExit, StatusFreed
    <3>. QED  BY <1>1, <3>2, <3>3, SwitchInTurn
  <2>3. CASE current = MainTcb
    BY <1>2, <1>7, <2>3 DEF ThreadExit, threadVars
  <2>. QED  BY <2>2, <2>3
<1>8. CASE ThreadDispatch
  BY <1>1, <1>2, <1>8, DispatchInTurn DEF ThreadDispatch
<1>9. CASE \E t \in Workers : ThreadJoin(t)
  <2>1. PICK t \in Workers : ThreadJoin(t)
    BY <1>9
  <2>2. t \in SemAddr
    BY DEF Workers, SemAddr
  <2>. QED  BY <1>2, <1>5, <2>1, <2>2 DEF ThreadJoin, threadVars
<1>10. CASE \E s \in Sem, init \in 0..MaxInit : SemOpen(s, init)
  BY <1>2, <1>10 DEF SemOpen, threadVars
<1>11. CASE \E s \in Sem : SemClose(s)
  BY <1>1, <1>3, <1>11 DEF SemClose
<1>12. CASE \E s \in Sem : SemWait(s)
  BY <1>1, <1>5, <1>12 DEF SemWait
<1>13. CASE \E s \in Sem : SemSignal(s)
  BY <1>1, <1>3, <1>13, WokenType DEF SemSignal
<1>14. CASE \E ticks \in 1..MaxSleep : TimeSleep(ticks)
  BY <1>1, <1>2, <1>14, SwitchInTurn DEF TimeSleep
<1>15. CASE Getc
  BY <1>1, <1>5, <1>15 DEF Getc
<1>16. CASE \E c \in Char : Putc(c)
  BY <1>1, <1>5, <1>16 DEF Putc
<1>17. CASE TimerTick
  <2>1. Begins(ready, ready \o Due) /\ InTurn(ready, ready \o Due)
    BY <1>3, WokenType
  <2>. QED  BY <1>1, <1>17, <2>1, DispatchInTurn DEF TimerTick
<1>18. CASE \E c \in Char : ConsoleInterrupt(c)
  <2>1. Begins(ready, ready \o Unblocked(GetcSem, 1))
    BY <1>1, <1>3, WokenType
  <2>. QED  BY <1>1, <1>18, <2>1, DispatchInTurn DEF ConsoleInterrupt
<1>19. CASE \E n \in 0..IO_BUFFER_SIZE : FlushPutc(n)
  <2>1. PICK n \in 0..IO_BUFFER_SIZE : FlushPutc(n)
    BY <1>19
  <2>2. n \in Nat
    BY SizeAssumption
  <2>. QED  BY <1>1, <1>3, <2>1, <2>2, WokenType DEF FlushPutc
<1>20. CASE FlushDispatch
  BY <1>1, <1>2, <1>20, DispatchInTurn DEF FlushDispatch
<1>. QED  BY <1>6, <1>7, <1>8, <1>9, <1>10, <1>11, <1>12, <1>13, <1>14, <1>15,
             <1>16, <1>17, <1>18, <1>19, <1>20 DEF Next

(* The scheduler is a round robin: no handler, whatever it wakes, creates  *)
(* or preempts, lets a thread pass one that was ready before it.           *)
THEOREM RoundRobin == Spec => NoOvertaking
<1>1. IInv /\ [Next]_vars => [InTurn(ready, ready')]_vars
  BY StepInTurn
<1>. QED  BY <1>1, Invariant, PTL DEF Spec, NoOvertaking

-----------------------------------------------------------------------------
(* The value of a semaphore.                                               *)

Owed(v) == IF v < 0 THEN -v ELSE 0

(* How many of n signals find the value at or below zero.                  *)
LEMMA WakingCount ==
  ASSUME NEW v \in Int, NEW n \in Nat
  PROVE  Cardinality({i \in 1..n : v + i <= 0}) =
           IF v >= 0 THEN 0 ELSE IF n <= -v THEN n ELSE -v
<1>. DEFINE W == {i \in 1..n : v + i <= 0}
<1>1. CASE v >= 0
  <2>1. W = {}
    BY <1>1
  <2>. HIDE DEF W
  <2>2. Cardinality(W) = 0
    BY <2>1, FS_EmptySet
  <2>. QED  BY <1>1, <2>2 DEF W
<1>2. CASE v < 0 /\ n <= -v
  <2>1. W = 1..n
    BY <1>2
  <2>. HIDE DEF W
  <2>2. 1 <= n \/ n = 0
    OBVIOUS
  <2>3. Cardinality(W) = n
    BY <2>1, <2>2, FS_Interval
  <2>. QED  BY <1>2, <2>3 DEF W
<1>3. CASE v < 0 /\ ~(n <= -v)
  <2>1. W = 1..-v /\ -v \in Int /\ 1 <= -v
    BY <1>3
  <2>. HIDE DEF W
  <2>2. Cardinality(W) = -v
    BY <2>1, FS_Interval
  <2>. QED  BY <1>3, <2>2 DEF W
<1>. QED  BY <1>1, <1>2, <1>3

(* Sem::signal, n times, pays back what the semaphore owes.                *)
LEMMA SignalCounts ==
  ASSUME IInv, ValueCountsWaiters, NEW s \in SemAddr, s \in open, NEW n \in Nat,
         Signal(s, n)
  PROVE  ValueCountsWaiters'
<1>. DEFINE q == waiting[s]
            v == value[s]
            waking == Cardinality({i \in 1..n : v + i <= 0})
            k == IF waking <= Len(q) THEN waking ELSE Len(q)
<1>1. /\ waiting \in [SemAddr -> Seq(TCB)] /\ q \in Seq(TCB)
      /\ value \in [SemAddr -> Int] /\ v \in Int
      /\ open \subseteq SemAddr
  BY DEF IInv, TypeOK
<1>2. Len(q) = Owed(v)
  BY DEF ValueCountsWaiters, Owed
<1>3. waking = IF v >= 0 THEN 0 ELSE IF n <= -v THEN n ELSE -v
  <2>. HIDE DEF v
  <2>. QED  BY <1>1, WakingCount
<1>4. Unblocked(s, n) = SubSeq(q, 1, k)
  BY DEF Unblocked
<1>. HIDE DEF q, v, waking
<1>5. k \in 0..Len(q) /\ Len(q) - k = Owed(v + n)
  BY <1>1, <1>2, <1>3 DEF Owed
<1>. HIDE DEF k
<1>6. Len(Unblocked(s, n)) = k /\ Len(SubSeq(q, k + 1, Len(q))) = Len(q) - k
  BY <1>1, <1>4, <1>5, ElementsSplit
<1>7. waiting'[s] = SubSeq(q, k + 1, Len(q)) /\ value'[s] = v + n
  BY <1>1, <1>6 DEF Signal, q, v
<1>8. /\ open' = open
      /\ \A r \in SemAddr : r # s => waiting'[r] = waiting[r] /\ value'[r] = value[r]
  BY <1>1 DEF Signal
<1>9. Len(waiting'[s]) = Owed(value'[s])
  BY <1>5, <1>6, <1>7
<1>. QED  BY <1>1, <1>8, <1>9 DEF ValueCountsWaiters, Owed

(* Sem::wait adds to the debt of the semaphore and to its list, or to      *)
(* neither.                                                                *)
LEMMA WaitCounts ==
  ASSUME IInv, ValueCountsWaiters, NEW s \in SemAddr, s \in open, NEW cont, Wait(s, cont)
  PROVE  ValueCountsWaiters'
<1>1. /\ waiting \in [SemAddr -> Seq(TCB)] /\ waiting[s] \in Seq(TCB)
      /\ value \in [SemAddr -> Int] /\ value[s] \in Int
      /\ open \subseteq SemAddr /\ current \in TCB
  BY DEF IInv, TypeOK, SchedulerNeverDry
<1>2. Len(waiting[s]) = Owed(value[s])
  BY DEF ValueCountsWaiters, Owed
<1>3. value'[s] = value[s] - 1 /\ open' = open
        /\ \A r \in SemAddr : r # s => value'[r] = value[r]
  BY <1>1 DEF Wait
<1>4. CASE value[s] - 1 < 0
  <2>1. waiting'[s] = Append(waiting[s], current)
          /\ \A r \in SemAddr : r # s => waiting'[r] = waiting[r]
    BY <1>1, <1>4 DEF Wait
  <2>2. Len(waiting'[s]) = Len(waiting[s]) + 1
    BY <1>1, <2>1
  <2>3. Owed(value[s] - 1) = Owed(value[s]) + 1
    BY <1>1, <1>4 DEF Owed
  <2>4. Len(waiting'[s]) = Owed(value'[s])
    BY <1>2, <1>3, <2>2, <2>3
  <2>. QED  BY <1>1, <1>3, <2>1, <2>4 DEF ValueCountsWaiters, Owed
<1>5. CASE ~(value[s] - 1 < 0)
  <2>1. waiting' = waiting
    BY <1>5 DEF Wait
  <2>2. Owed(value[s] - 1) = 0 /\ Owed(value[s]) = 0
    BY <1>1, <1>5 DEF Owed
  <2>3. Len(waiting'[s]) = Owed(value'[s])
    BY <1>2, <1>3, <2>1, <2>2
  <2>. QED  BY <1>1, <1>3, <2>1, <2>3 DEF ValueCountsWaiters, Owed
<1>. QED  BY <1>4, <1>5

(* A semaphore that is made owes nothing.                                  *)
LEMMA OpenCounts ==
  ASSUME IInv, ValueCountsWaiters, NEW s \in SemAddr, NEW init \in Nat,
         open' = open \cup {s},
         value' = [value EXCEPT ![s] = init],
         waiting' = [waiting EXCEPT ![s] = <<>>]
  PROVE  ValueCountsWaiters'
<1>1. /\ waiting \in [SemAddr -> Seq(TCB)]
      /\ value \in [SemAddr -> Int]
      /\ open \subseteq SemAddr
  BY DEF IInv, TypeOK
<1>2. /\ waiting'[s] = <<>> /\ value'[s] = init
      /\ \A r \in SemAddr : r # s => waiting'[r] = waiting[r] /\ value'[r] = value[r]
  BY <1>1
<1>3. Len(waiting'[s]) = Owed(value'[s])
  <2>1. Len(<<>>) = 0
    OBVIOUS
  <2>. QED  BY <1>2, <2>1 DEF Owed
<1>. QED  BY <1>1, <1>2, <1>3 DEF ValueCountsWaiters, Owed

(* Closing one semaphore leaves the others as they are.                    *)
LEMMA CloseCounts ==
  ASSUME IInv, ValueCountsWaiters, NEW s \in SemAddr, Close(s)
  PROVE  ValueCountsWaiters'
<1>1. /\ waiting \in [SemAddr -> Seq(TCB)]
      /\ value \in [SemAddr -> Int]
      /\ open \subseteq SemAddr
  BY DEF IInv, TypeOK
<1>2. \A r \in SemAddr : r # s => waiting'[r] = waiting[r] /\ value'[r] = value[r]
  BY <1>1 DEF Close
<1>. QED  BY <1>1, <1>2 DEF Close, ValueCountsWaiters

LEMMA StepCounts ==
  ASSUME IInv, ValueCountsWaiters, [Next]_vars
  PROVE  ValueCountsWaiters'
<1>1. /\ TCB \subseteq SemAddr /\ Sem \subseteq SemAddr
      /\ {PutcSem, GetcSem} \subseteq SemAddr
      /\ {PutcSem, GetcSem} \subseteq open
      /\ current \in TCB
  BY DEF SemAddr, IInv, OneListPerThread, SchedulerNeverDry
<1>2. ASSUME UNCHANGED <<open, value, waiting>>
      PROVE  ValueCountsWaiters'
  BY <1>2 DEF ValueCountsWaiters
<1>3. CASE ThreadCreate
  <2>1. CASE \E t \in Workers : status[t] = "FREE"
    <3>1. PICK t \in Workers : /\ open' = open \cup {t}
                               /\ value' = [value EXCEPT ![t] = 0]
                               /\ waiting' = [waiting EXCEPT ![t] = <<>>]
      BY <1>3, <2>1 DEF ThreadCreate
    <3>2. t \in SemAddr /\ 0 \in Nat
      BY <1>1 DEF Workers
    <3>. QED  BY <3>1, <3>2, OpenCounts
  <2>2. CASE ~\E t \in Workers : status[t] = "FREE"
    BY <1>2, <1>3, <2>2 DEF ThreadCreate, semVars
  <2>. QED  BY <2>1, <2>2
<1>4. CASE ThreadExit
  <2>1. CASE current # MainTcb
    BY <1>1, <1>4, <2>1, CloseCounts DEF ThreadExit
  <2>2. CASE current = MainTcb
    BY <1>2, <1>4, <2>2 DEF ThreadExit, semVars
  <2>. QED  BY <2>1, <2>2
<1>5. CASE ThreadDispatch
  BY <1>2, <1>5 DEF ThreadDispatch, semVars
<1>6. CASE \E t \in Workers : ThreadJoin(t)
  <2>1. PICK t \in Workers : ThreadJoin(t)
    BY <1>6
  <2>2. t \in SemAddr
    BY <1>1 DEF Workers
  <2>3. CASE t \in open
    BY <2>1, <2>2, <2>3, WaitCounts DEF ThreadJoin
  <2>4. CASE t \notin open
    BY <1>2, <2>1, <2>4 DEF ThreadJoin, semVars
  <2>. QED  BY <2>3, <2>4
<1>7. CASE \E s \in Sem, init \in 0..MaxInit : SemOpen(s, init)
  <2>1. PICK s \in Sem, init \in 0..MaxInit : SemOpen(s, init)
    BY <1>7
  <2>2. s \in SemAddr /\ init \in Nat
    BY <1>1, SizeAssumption
  <2>. QED  BY <2>1, <2>2, OpenCounts DEF SemOpen
<1>8. CASE \E s \in Sem : SemClose(s)
  BY <1>1, <1>8, CloseCounts DEF SemClose
<1>9. CASE \E s \in Sem : SemWait(s)
  BY <1>1, <1>9, WaitCounts DEF SemWait
<1>10. CASE \E s \in Sem : SemSignal(s)
  BY <1>1, <1>10, SignalCounts DEF SemSignal
<1>11. CASE \E ticks \in 1..MaxSleep : TimeSleep(ticks)
  BY <1>2, <1>11 DEF TimeSleep, semVars
<1>12. CASE Getc
  BY <1>1, <1>12, WaitCounts DEF Getc
<1>13. CASE \E c \in Char : Putc(c)
  BY <1>1, <1>13, WaitCounts DEF Putc
<1>14. CASE TimerTick
  BY <1>2, <1>14 DEF TimerTick, semVars
<1>15. CASE \E c \in Char : ConsoleInterrupt(c)
  BY <1>1, <1>15, SignalCounts DEF ConsoleInterrupt
<1>16. CASE \E n \in 0..IO_BUFFER_SIZE : FlushPutc(n)
  <2>1. PICK n \in 0..IO_BUFFER_SIZE : FlushPutc(n)
    BY <1>16
  <2>2. n \in Nat
    BY SizeAssumption
  <2>. QED  BY <1>1, <2>1, <2>2, SignalCounts DEF FlushPutc
<1>17. CASE FlushDispatch
  BY <1>2, <1>17 DEF FlushDispatch, semVars
<1>18. CASE UNCHANGED vars
  BY <1>2, <1>18 DEF vars, semVars
<1>. QED  BY <1>3, <1>4, <1>5, <1>6, <1>7, <1>8, <1>9, <1>10, <1>11, <1>12, <1>13,
             <1>14, <1>15, <1>16, <1>17, <1>18 DEF Next

(* A semaphore at -n has n threads in its list, and one at or above zero   *)
(* has none: no signal is lost and no wait is forgotten.                   *)
THEOREM SemaphoresCount == Spec => []ValueCountsWaiters
<1>1. Init => ValueCountsWaiters
  <2>. SUFFICES ASSUME Init, NEW s \in open
                PROVE  Len(waiting[s]) = IF value[s] < 0 THEN -value[s] ELSE 0
    BY DEF ValueCountsWaiters
  <2>1. s \in SemAddr
    BY ThreadAssumption DEF Init, SemAddr
  <2>2. waiting[s] = <<>> /\ value[s] \in Nat
    BY <2>1, SizeAssumption DEF Init
  <2>. QED  BY <2>2
<1>2. IInv /\ ValueCountsWaiters /\ [Next]_vars => ValueCountsWaiters'
  BY StepCounts
<1>. QED  BY <1>1, <1>2, Invariant, PTL DEF Spec

-----------------------------------------------------------------------------
(* The semaphores keep the promise of Semaphores.                          *)

(* What Kernel gives for permits and cut.                                  *)
Permits == [s \in SemAddr |-> PositivePart(value[s])]
Cut     == {t \in TCB : interrupted[t]}

(* Sem::signal: Unblocked are the first threads of the list, as many as    *)
(* there are permits for.                                                  *)
LEMMA SignalPromised ==
  ASSUME IInv, ValueCountsWaiters, NEW s \in SemAddr, s \in open, NEW n \in Nat,
         Signal(s, n)
  PROVE  Promised!Signal(s, n)
<1>. DEFINE q == waiting[s]
            v == value[s]
            served == IF n <= Len(q) THEN n ELSE Len(q)
            waking == Cardinality({i \in 1..n : v + i <= 0})
            k == IF waking <= Len(q) THEN waking ELSE Len(q)
<1>1. /\ waiting \in [SemAddr -> Seq(TCB)] /\ q \in Seq(TCB)
      /\ value \in [SemAddr -> Int] /\ v \in Int
      /\ interrupted \in [TCB -> BOOLEAN]
  BY DEF IInv, TypeOK
<1>2. Len(q) = Owed(v)
  BY DEF ValueCountsWaiters, Owed
<1>3. waking = IF v >= 0 THEN 0 ELSE IF n <= -v THEN n ELSE -v
  <2>. HIDE DEF v
  <2>. QED  BY <1>1, WakingCount
<1>4. Unblocked(s, n) = SubSeq(q, 1, k)
  BY DEF Unblocked
<1>. HIDE DEF q, v, waking
<1>5. k = served /\ served \in 0..Len(q)
        /\ PositivePart(v + n) = PositivePart(v) + (n - served)
  BY <1>1, <1>2, <1>3 DEF Owed, PositivePart
<1>. HIDE DEF k, served
<1>6. Len(Unblocked(s, n)) = served
        /\ Elements(Unblocked(s, n)) = {q[i] : i \in 1..served}
  <2>1. LET p == SubSeq(q, 1, served)
        IN p \in Seq(TCB) /\ Len(p) = served /\ \A i \in 1..served : p[i] = q[i]
    BY <1>1, <1>5, SplitPositions
  <2>2. Unblocked(s, n) = SubSeq(q, 1, served)
    BY <1>4, <1>5
  <2>. QED  BY <2>1, <2>2 DEF Elements
<1>7. waiting' = [waiting EXCEPT ![s] = SubSeq(@, served + 1, Len(@))]
  BY <1>6 DEF Signal
<1>8. Permits' = [Permits EXCEPT ![s] = @ + (n - served)]
  <2>1. value' = [value EXCEPT ![s] = v + n]
    BY <1>1 DEF Signal, v
  <2>2. \A r \in SemAddr : value'[r] = IF r = s THEN v + n ELSE value[r]
    BY <1>1, <2>1
  <2>. QED  BY <1>5, <2>2 DEF Permits, v
<1>9. Cut' = Cut \ {q[i] : i \in 1..served}
  BY <1>1, <1>6 DEF Cut, Signal
<1>10. open' = open
  BY DEF Signal
<1>. QED  BY <1>7, <1>8, <1>9, <1>10 DEF Promised!Signal, Permits, Cut, q, served

(* Only a suspended thread is in the queue of a semaphore.                 *)
LEMMA NotQueued ==
  ASSUME IInv, NEW t \in TCB, status[t] # "SUSPENDED"
  PROVE  ~Promised!Queued(t)
<1>1. ASSUME NEW s \in open, NEW i \in DOMAIN waiting[s], waiting[s][i] = t
      PROVE  FALSE
  <2>1. s \in SemAddr /\ t \in Elements(waiting[s])
    BY <1>1 DEF IInv, TypeOK, Elements
  <2>. QED  BY <2>1 DEF IInv, OneListPerThread
<1>. QED  BY <1>1 DEF Promised!Queued

(* Sem::wait takes a permit, or puts the running thread last in the list.  *)
LEMMA WaitPromised ==
  ASSUME IInv, NEW s \in SemAddr, s \in open, NEW cont, Wait(s, cont)
  PROVE  Promised!Wait(current, s)
<1>. DEFINE v == value[s]
<1>1. value \in [SemAddr -> Int] /\ v \in Int
  BY DEF IInv, TypeOK
<1>2. ~Promised!Queued(current)
  BY NotQueued DEF IInv, SchedulerNeverDry
<1>3. \A r \in SemAddr : value'[r] = IF r = s THEN v - 1 ELSE value[r]
  BY <1>1 DEF Wait
<1>4. open' = open /\ Cut' = Cut
  BY DEF Wait, Cut
<1>. HIDE DEF v
<1>5. CASE v - 1 < 0
  <2>1. waiting' = [waiting EXCEPT ![s] = Append(@, current)]
    BY <1>5 DEF Wait, v
  <2>2. PositivePart(v) = 0 /\ PositivePart(v - 1) = 0
    BY <1>1, <1>5 DEF PositivePart
  <2>3. Permits[s] = 0 /\ Permits' = Permits
    BY <1>3, <2>2 DEF Permits, v
  <2>. QED  BY <1>2, <1>4, <2>1, <2>3 DEF Promised!Wait, Permits, Cut
<1>6. CASE ~(v - 1 < 0)
  <2>1. waiting' = waiting
    BY <1>6 DEF Wait, v
  <2>2. PositivePart(v) > 0 /\ PositivePart(v - 1) = PositivePart(v) - 1
    BY <1>1, <1>6 DEF PositivePart
  <2>3. Permits[s] > 0 /\ Permits' = [Permits EXCEPT ![s] = @ - 1]
    BY <1>3, <2>2 DEF Permits, v
  <2>. QED  BY <1>2, <1>4, <2>1, <2>3 DEF Promised!Wait, Permits, Cut
<1>. QED  BY <1>5, <1>6

LEMMA ClosePromised ==
  ASSUME IInv, NEW s \in SemAddr, s \in open, Close(s)
  PROVE  Promised!Close(s)
<1>1. /\ value \in [SemAddr -> Int]
      /\ interrupted \in [TCB -> BOOLEAN]
      /\ waiting[s] \in Seq(TCB)
  BY DEF IInv, TypeOK
<1>2. \A r \in SemAddr : value'[r] = IF r = s THEN 0 ELSE value[r]
  BY <1>1 DEF Close
<1>3. Permits' = [Permits EXCEPT ![s] = 0]
  BY <1>2 DEF Permits, PositivePart
<1>4. Cut' = Cut \cup Elements(waiting[s])
  BY <1>1, ElementsType DEF Cut, Close
<1>. QED  BY <1>3, <1>4 DEF Promised!Close, Close, Permits, Cut, Elements

(* sem_open, and the join_sem of a new thread.                             *)
LEMMA CreatePromised ==
  ASSUME IInv, NEW s \in SemAddr, s \notin open, NEW n \in Nat,
         open' = open \cup {s},
         value' = [value EXCEPT ![s] = n],
         waiting' = [waiting EXCEPT ![s] = <<>>]
  PROVE  Promised!Create(s, n)
<1>1. value \in [SemAddr -> Int]
  BY DEF IInv, TypeOK
<1>2. \A r \in SemAddr : value'[r] = IF r = s THEN n ELSE value[r]
  BY <1>1
<1>3. PositivePart(n) = n
  BY DEF PositivePart
<1>4. Permits' = [Permits EXCEPT ![s] = n]
  <2>1. Permits' = [r \in SemAddr |-> PositivePart(value'[r])]
    BY DEF Permits
  <2>2. \A r \in SemAddr : PositivePart(value'[r]) = IF r = s THEN n ELSE PositivePart(value[r])
    BY <1>2, <1>3
  <2>. QED  BY <2>1, <2>2 DEF Permits
<1>. QED  BY <1>4 DEF Promised!Create, Permits

LEMMA ThreadCreatePromised ==
  ASSUME IInv, NEW t \in Workers, status[t] = "FREE",
         interrupted' = [interrupted EXCEPT ![t] = FALSE],
         open' = open \cup {t},
         value' = [value EXCEPT ![t] = 0],
         waiting' = [waiting EXCEPT ![t] = <<>>]
  PROVE  Promised!Spawn(t, t)
<1>1. t \in TCB /\ t \in SemAddr /\ t \notin open /\ 0 \in Nat
  BY DEF Workers, SemAddr, IInv, OneListPerThread
<1>2. ~Promised!Queued(t)
  BY <1>1, NotQueued
<1>3. Promised!Create(t, 0)
  BY <1>1, CreatePromised
<1>4. Cut' = Cut \ {t}
  BY DEF Cut, IInv, TypeOK
<1>. QED  BY <1>2, <1>3, <1>4 DEF Promised!Spawn, Cut

LEMMA StepPromised ==
  ASSUME IInv, ValueCountsWaiters, [Next]_vars
  PROVE  [Promised!Next]_<<open, Permits, waiting, Cut>>
<1>. DEFINE Step == Promised!Next
            Same == UNCHANGED <<open, Permits, waiting, Cut>>
<1>. SUFFICES Step \/ Same
  OBVIOUS
<1>1. /\ TCB \subseteq SemAddr /\ Sem \subseteq SemAddr
      /\ {PutcSem, GetcSem} \subseteq SemAddr
      /\ {PutcSem, GetcSem} \subseteq open
      /\ current \in TCB /\ status[current] = "RUNNING"
      /\ 0..MaxInit \subseteq 0..IO_BUFFER_SIZE + MaxInit
      /\ 0..IO_BUFFER_SIZE \subseteq 0..IO_BUFFER_SIZE + MaxInit
      /\ 1 \in 0..IO_BUFFER_SIZE + MaxInit
  BY SizeAssumption DEF SemAddr, IInv, OneListPerThread, SchedulerNeverDry
<1>2. ASSUME UNCHANGED semVars PROVE Same
  BY <1>2 DEF semVars, Permits, Cut
<1>3. \A s \in SemAddr, t \in TCB : Promised!Spawn(t, s) \/ Promised!Wait(t, s) => Step
  BY DEF Promised!Next
<1>4. \A s \in SemAddr : Promised!Close(s) => Step
  BY DEF Promised!Next
<1>5. \A s \in SemAddr, n \in 0..IO_BUFFER_SIZE + MaxInit :
        Promised!Open(s, n) \/ Promised!Signal(s, n) => Step
  BY DEF Promised!Next
<1>. HIDE DEF Step, Same
<1>6. \A s \in SemAddr : \A cont : s \in open /\ Wait(s, cont) => Step
  BY <1>1, <1>3, WaitPromised
<1>7. \A s \in SemAddr, n \in 0..IO_BUFFER_SIZE + MaxInit :
        s \in open /\ Signal(s, n) => Step
  BY <1>5, SizeAssumption, SignalPromised
<1>8. CASE ThreadCreate
  <2>1. CASE \E t \in Workers : status[t] = "FREE"
    <3>1. PICK t \in Workers :
            /\ status[t] = "FREE"
            /\ interrupted' = [interrupted EXCEPT ![t] = FALSE]
            /\ open' = open \cup {t}
            /\ value' = [value EXCEPT ![t] = 0]
            /\ waiting' = [waiting EXCEPT ![t] = <<>>]
      BY <1>8, <2>1 DEF ThreadCreate
    <3>2. t \in TCB /\ t \in SemAddr
      BY <1>1 DEF Workers
    <3>. QED  BY <1>3, <3>1, <3>2, ThreadCreatePromised
  <2>2. CASE ~\E t \in Workers : status[t] = "FREE"
    BY <1>2, <1>8, <2>2 DEF ThreadCreate
  <2>. QED  BY <2>1, <2>2
<1>9. CASE ThreadExit
  <2>1. CASE current # MainTcb
    <3>1. current \in open
      BY <1>1, <2>1 DEF IInv, OneListPerThread
    <3>. QED  BY <1>1, <1>4, <1>9, <2>1, <3>1, ClosePromised DEF ThreadExit
  <2>2. CASE current = MainTcb
    BY <1>2, <1>9, <2>2 DEF ThreadExit
  <2>. QED  BY <2>1, <2>2
<1>10. CASE ThreadDispatch
  BY <1>2, <1>10 DEF ThreadDispatch
<1>11. CASE \E t \in Workers : ThreadJoin(t)
  <2>1. PICK t \in Workers : ThreadJoin(t)
    BY <1>11
  <2>2. t \in SemAddr
    BY <1>1 DEF Workers
  <2>3. CASE t \in open
    BY <1>6, <2>1, <2>2, <2>3 DEF ThreadJoin
  <2>4. CASE t \notin open
    BY <1>2, <2>1, <2>4 DEF ThreadJoin
  <2>. QED  BY <2>3, <2>4
<1>12. CASE \E s \in Sem, init \in 0..MaxInit : SemOpen(s, init)
  <2>1. PICK s \in Sem, init \in 0..MaxInit : SemOpen(s, init)
    BY <1>12
  <2>2. s \in SemAddr /\ init \in Nat /\ init \in 0..IO_BUFFER_SIZE + MaxInit
    BY <1>1, SizeAssumption
  <2>3. Promised!Create(s, init)
    BY <2>1, <2>2, CreatePromised DEF SemOpen
  <2>4. Cut' = Cut
    BY <2>1 DEF SemOpen, Cut
  <2>5. Promised!Open(s, init)
    BY <2>3, <2>4 DEF Promised!Open, Cut
  <2>. QED  BY <1>5, <2>2, <2>5
<1>13. CASE \E s \in Sem : SemClose(s)
  BY <1>1, <1>4, <1>13, ClosePromised DEF SemClose
<1>14. CASE \E s \in Sem : SemWait(s)
  BY <1>1, <1>6, <1>14 DEF SemWait
<1>15. CASE \E s \in Sem : SemSignal(s)
  BY <1>1, <1>7, <1>15 DEF SemSignal
<1>16. CASE \E ticks \in 1..MaxSleep : TimeSleep(ticks)
  BY <1>2, <1>16 DEF TimeSleep
<1>17. CASE Getc
  BY <1>1, <1>6, <1>17 DEF Getc
<1>18. CASE \E c \in Char : Putc(c)
  BY <1>1, <1>6, <1>18 DEF Putc
<1>19. CASE TimerTick
  BY <1>2, <1>19 DEF TimerTick
<1>20. CASE \E c \in Char : ConsoleInterrupt(c)
  BY <1>1, <1>7, <1>20 DEF ConsoleInterrupt
<1>21. CASE \E n \in 0..IO_BUFFER_SIZE : FlushPutc(n)
  BY <1>1, <1>7, <1>21 DEF FlushPutc
<1>22. CASE FlushDispatch
  BY <1>2, <1>22 DEF FlushDispatch
<1>23. CASE UNCHANGED vars
  BY <1>2, <1>23 DEF vars
<1>. QED  BY <1>8, <1>9, <1>10, <1>11, <1>12, <1>13, <1>14, <1>15, <1>16, <1>17,
             <1>18, <1>19, <1>20, <1>21, <1>22, <1>23 DEF Next

(* The semaphores of the kernel, with counters that go negative, lists of  *)
(* TCBs, a scheduler and the interrupted flag, do what Semaphores says:    *)
(* permits are given first come, first served, none is lost or given       *)
(* twice, and a thread is told of a closed semaphore if it waited on it.   *)
THEOREM SemaphoresKeepPromise == Spec => SemaphoresImplemented
<1>1. Init => Promised!Init
  <2>. SUFFICES ASSUME Init PROVE Promised!Init
    OBVIOUS
  <2>1. open \subseteq SemAddr
    BY ThreadAssumption DEF Init, SemAddr
  <2>2. Permits \in [SemAddr -> 0..IO_BUFFER_SIZE + MaxInit]
    BY SizeAssumption DEF Init, Permits, PositivePart
  <2>3. Cut = {}
    BY DEF Init, Cut
  <2>. QED  BY <2>1, <2>2, <2>3 DEF Init, Promised!Init, Permits, Cut
<1>2. IInv /\ ValueCountsWaiters /\ [Next]_vars => [Promised!Next]_Promised!semaphores
  BY StepPromised DEF Promised!semaphores, Permits, Cut
<1>. QED  BY <1>1, <1>2, Invariant, SemaphoresCount, PTL
          DEF Spec, SemaphoresImplemented, Promised!Spec

-----------------------------------------------------------------------------
(* The console buffers.  A thread that leaves a list has to be known to    *)
(* go on in the call that put it there: a getc that a signal of getc_sem   *)
(* resumes takes a character, a sem_wait that another signal resumes does  *)
(* not.                                                                    *)

PutConts == {Putting(c) : c \in Char}
GetConts == {At("getc")}

(* Where the threads that wait on s go on.                                 *)
Where(s) ==
  CASE s = PutcSem -> PutConts
    [] s = GetcSem -> GetConts
    [] OTHER       -> {At("wait"), At("join")}

BlockedAt(wt, sl, a) ==
  /\ \A s \in SemAddr : \A t \in Elements(wt[s]) : a[t] \in Where(s)
  /\ \A t \in Elements(sl) : a[t] = At("sleep")

BlockedWhere == BlockedAt(waiting, asleep, at)

ConsoleInv == BlockedWhere /\ NoOutputDropped /\ NoInputInvented

(* Only a getc and a putc do anything to a buffer when they go on.         *)
LEMMA ContinuationsDiffer ==
  /\ \A place \in {"start", "code", "sleep", "wait", "join"} :
       At(place) \notin PutConts /\ At(place) \notin GetConts
  /\ PutConts \cap GetConts = {}
  /\ \A cont \in Continuation :
       /\ cont.place = "putc" <=> cont \in PutConts
       /\ cont.place = "getc" <=> cont \in GetConts
<1>1. /\ \A c : Putting(c).place = "putc"
      /\ \A place : At(place).place = place
  BY DEF At, Putting
<1>2. \A cont \in PutConts : cont.place = "putc"
  BY <1>1 DEF PutConts
<1>3. \A cont \in GetConts : cont.place = "getc"
  BY <1>1 DEF GetConts
<1>4. \A cont \in Continuation :
        \/ cont \in PutConts
        \/ cont \in GetConts
        \/ cont.place \in {"start", "code", "sleep", "wait", "join"}
  <2>. SUFFICES ASSUME NEW place \in {"start", "code", "sleep", "wait", "join", "getc"}
                PROVE  At(place) \in GetConts
                         \/ At(place).place \in {"start", "code", "sleep", "wait", "join"}
    BY DEF Continuation, PutConts
  <2>. QED  BY <1>1 DEF GetConts
<1>. QED  BY <1>1, <1>2, <1>3, <1>4

(* The ready threads that go on at one of the places P.                    *)
ReadyAt(st, a, P) == {t \in TCB : st[t] = "READY" /\ a[t] \in P}

LEMMA ReadyFinite ==
  ASSUME NEW st, NEW a, NEW P, NEW q \in Seq(TCB),
         \A t \in TCB : st[t] = "READY" => t \in Elements(q)
  PROVE  IsFiniteSet(ReadyAt(st, a, P))
<1>1. DOMAIN q = 1..Len(q) /\ Len(q) \in Nat
  OBVIOUS
<1>2. IsFiniteSet(DOMAIN q)
  BY <1>1, FS_Interval
<1>3. IsFiniteSet(Elements(q))
  <2>1. q \in Surjection(DOMAIN q, Elements(q))
    <3>1. q \in [DOMAIN q -> Elements(q)]
      BY <1>1 DEF Elements
    <3>. QED  BY <3>1 DEF Surjection, Elements
  <2>. QED  BY <1>2, <2>1, FS_Surjection
<1>4. ReadyAt(st, a, P) \subseteq Elements(q)
  BY DEF ReadyAt
<1>. QED  BY <1>3, <1>4, FS_Subset

LEMMA GrantedFinite ==
  ASSUME IInv, NEW P
  PROVE  IsFiniteSet(Granted(P)) /\ Cardinality(Granted(P)) \in Nat
<1>1. Granted(P) = ReadyAt(status, at, P)
  BY DEF Granted, ReadyAt
<1>2. ready \in Seq(TCB) /\ \A t \in TCB : status[t] = "READY" => t \in Elements(ready)
  BY DEF IInv, TypeOK, OneListPerThread
<1>. QED  BY <1>1, <1>2, ReadyFinite, FS_CardinalityType

(* Waking the threads W adds those of them that go on at P, which are all  *)
(* or none.                                                                *)
LEMMA ReadyGrows ==
  ASSUME IInv, NEW st, NEW a, NEW P, NEW W \in SUBSET TCB, IsFiniteSet(W),
         \A t \in TCB : st[t] = "READY" /\ a[t] \in P <=>
                        (status[t] = "READY" /\ at[t] \in P) \/ (t \in W /\ at[t] \in P),
         \A t \in W : status[t] # "READY"
  PROVE  /\ (\A t \in W : at[t] \notin P) => ReadyAt(st, a, P) = Granted(P)
         /\ (\A t \in W : at[t] \in P) =>
              Cardinality(ReadyAt(st, a, P)) = Cardinality(Granted(P)) + Cardinality(W)
<1>1. IsFiniteSet(Granted(P)) /\ Cardinality(Granted(P)) \in Nat
  BY GrantedFinite
<1>2. ASSUME \A t \in W : at[t] \notin P
      PROVE  ReadyAt(st, a, P) = Granted(P)
  BY <1>2 DEF ReadyAt, Granted
<1>3. ASSUME \A t \in W : at[t] \in P
      PROVE  Cardinality(ReadyAt(st, a, P)) = Cardinality(Granted(P)) + Cardinality(W)
  <2>. DEFINE G == Granted(P)
  <2>1. ReadyAt(st, a, P) = G \cup W /\ G \cap W = {}
    BY <1>3 DEF ReadyAt, Granted
  <2>2. IsFiniteSet(G) /\ Cardinality(G) \in Nat /\ Cardinality(W) \in Nat
    BY <1>1, FS_CardinalityType
  <2>. HIDE DEF G
  <2>3. Cardinality(G \cup W) = Cardinality(G) + Cardinality(W) - Cardinality(G \cap W)
    BY <2>2, FS_Union
  <2>4. Cardinality(G \cap W) = 0
    BY <2>1, FS_EmptySet
  <2>. QED  BY <2>1, <2>2, <2>3, <2>4 DEF G
<1>. QED  BY <1>2, <1>3

(* What a context switch finds, and what it must find, in the buffers.     *)
OutputBalances(st, a) ==
  Len(putc_buffer) + Cardinality(ReadyAt(st, a, PutConts)) + PositivePart(value'[PutcSem])
    = IO_BUFFER_SIZE

InputBalances(st, a, input) ==
  Len(input) = Cardinality(ReadyAt(st, a, GetConts)) + PositivePart(value'[GetcSem])

(* The thread switched to is no longer among the granted.                  *)
LEMMA SwitchTakes ==
  ASSUME IInv, IInv', NEW st, NEW queue \in Seq(TCB), NEW cont \in Continuation,
         NEW ticks, NEW input,
         st = [t \in TCB |-> st[t]], \A t \in Elements(queue) : st[t] = "READY",
         Switch(st, queue, cont, ticks, input)
  PROVE  LET saved == [at EXCEPT ![current] = cont]
             next  == Head(queue)
         IN /\ next \in TCB
            /\ saved[next] \in Continuation
            /\ Finish(next, saved[next], TRUE, input)
            /\ \A P : At("code") \notin P =>
                 /\ Cardinality(Granted(P)') \in Nat
                 /\ Cardinality(ReadyAt(st, saved, P)) =
                      Cardinality(Granted(P)') + (IF saved[next] \in P THEN 1 ELSE 0)
<1>. DEFINE saved == [at EXCEPT ![current] = cont]
            next  == Head(queue)
<1>1. queue # <<>>
  <2>. SUFFICES ASSUME queue = <<>> PROVE FALSE
    OBVIOUS
  <2>1. current' = NULL
    BY DEF Switch
  <2>. QED  BY <2>1, ThreadAssumption DEF IInv, SchedulerNeverDry
<1>2. /\ status' = [st EXCEPT ![next] = "RUNNING"]
      /\ at' = [saved EXCEPT ![next] = At("code")]
      /\ Finish(next, saved[next], TRUE, input)
  BY <1>1 DEF Switch
<1>3. next \in TCB /\ st[next] = "READY"
  <2>1. next \in TCB /\ next \in Elements(queue)
    BY <1>1, ElementsTail
  <2>. QED  BY <2>1
<1>4. saved \in [TCB -> Continuation]
  BY DEF IInv, TypeOK
<1>. HIDE DEF next, saved
<1>5. \A t \in TCB : /\ status'[t] = IF t = next THEN "RUNNING" ELSE st[t]
                     /\ at'[t] = IF t = next THEN At("code") ELSE saved[t]
  BY <1>2, <1>3, <1>4
<1>6. ASSUME NEW P, At("code") \notin P
      PROVE  /\ Cardinality(Granted(P)') \in Nat
             /\ Cardinality(ReadyAt(st, saved, P)) =
                  Cardinality(Granted(P)') + (IF saved[next] \in P THEN 1 ELSE 0)
  <2>. DEFINE G == {t \in TCB : status'[t] = "READY" /\ at'[t] \in P}
              R == ReadyAt(st, saved, P)
  <2>1. Granted(P)' = G
    BY DEF Granted
  <2>2. IsFiniteSet(G) /\ Cardinality(G) \in Nat
    <3>1. G = ReadyAt(status', at', P)
      BY DEF ReadyAt
    <3>2. ready' \in Seq(TCB) /\ \A t \in TCB : status'[t] = "READY" => t \in Elements(ready')
      BY DEF IInv, TypeOK, OneListPerThread
    <3>. HIDE DEF G
    <3>. QED  BY <3>1, <3>2, ReadyFinite, FS_CardinalityType
  <2>3. next \notin G /\ \A t \in TCB : t # next => (t \in G <=> t \in R)
    BY <1>3, <1>5, <1>6 DEF ReadyAt
  <2>4. next \in R <=> saved[next] \in P
    BY <1>3 DEF ReadyAt
  <2>5. G \subseteq TCB /\ R \subseteq TCB
    BY DEF ReadyAt
  <2>. HIDE DEF G, R
  <2>6. CASE saved[next] \in P
    <3>1. R = G \cup {next}
      BY <1>3, <2>3, <2>4, <2>5, <2>6
    <3>2. Cardinality(R) = Cardinality(G) + 1
      BY <2>2, <2>3, <3>1, FS_AddElement
    <3>. QED  BY <2>1, <2>2, <2>6, <3>2 DEF R
  <2>7. CASE saved[next] \notin P
    <3>1. \A t : t \in R <=> t \in G
      BY <2>3, <2>4, <2>5, <2>7
    <3>2. R = G
      BY <3>1
    <3>. QED  BY <2>1, <2>2, <2>7, <3>2 DEF R
  <2>. QED  BY <2>6, <2>7
<1>7. saved[next] \in Continuation
  BY <1>3, <1>4
<1>. QED  BY <1>2, <1>3, <1>6, <1>7 DEF next, saved

LEMMA SwitchBalances ==
  ASSUME IInv, IInv', NEW st, NEW queue \in Seq(TCB), NEW cont \in Continuation,
         NEW ticks, NEW input \in Seq(Char),
         st = [t \in TCB |-> st[t]], \A t \in Elements(queue) : st[t] = "READY",
         Switch(st, queue, cont, ticks, input),
         OutputBalances(st, [at EXCEPT ![current] = cont]),
         InputBalances(st, [at EXCEPT ![current] = cont], input)
  PROVE  NoOutputDropped' /\ NoInputInvented'
<1>. DEFINE saved == [at EXCEPT ![current] = cont]
            next  == Head(queue)
            place == saved[next]
            out   == Cardinality(Granted(PutConts)')
            in    == Cardinality(Granted(GetConts)')
            more  == PositivePart(value'[PutcSem])
            came  == PositivePart(value'[GetcSem])
<1>1. /\ next \in TCB
      /\ place \in Continuation
      /\ Finish(next, place, TRUE, input)
      /\ out \in Nat /\ in \in Nat
      /\ Cardinality(ReadyAt(st, saved, PutConts)) = out + (IF place \in PutConts THEN 1 ELSE 0)
      /\ Cardinality(ReadyAt(st, saved, GetConts)) = in + (IF place \in GetConts THEN 1 ELSE 0)
  <2>1. At("code") \notin PutConts /\ At("code") \notin GetConts
    BY ContinuationsDiffer
  <2>2. /\ next \in TCB
        /\ place \in Continuation
        /\ Finish(next, place, TRUE, input)
        /\ \A P : At("code") \notin P =>
             /\ Cardinality(Granted(P)') \in Nat
             /\ Cardinality(ReadyAt(st, saved, P)) =
                  Cardinality(Granted(P)') + (IF place \in P THEN 1 ELSE 0)
    BY ZenonT(40), SwitchTakes
  <2>3. /\ out \in Nat
        /\ Cardinality(ReadyAt(st, saved, PutConts)) = out + (IF place \in PutConts THEN 1 ELSE 0)
    BY <2>1, <2>2
  <2>4. /\ in \in Nat
        /\ Cardinality(ReadyAt(st, saved, GetConts)) = in + (IF place \in GetConts THEN 1 ELSE 0)
    BY <2>1, <2>2
  <2>. QED  BY <2>2, <2>3, <2>4
<1>2. more \in Nat /\ came \in Nat
  <2>1. value' \in [SemAddr -> Int] /\ PutcSem \in SemAddr /\ GetcSem \in SemAddr
    BY DEF IInv, TypeOK, SemAddr
  <2>. QED  BY <2>1 DEF PositivePart
<1>3. putc_buffer \in Seq(Char) /\ IO_BUFFER_SIZE \in Nat
  BY SizeAssumption DEF IInv, TypeOK
<1>4. /\ Len(putc_buffer) + (out + (IF place \in PutConts THEN 1 ELSE 0)) + more = IO_BUFFER_SIZE
      /\ Len(input) = in + (IF place \in GetConts THEN 1 ELSE 0) + came
  BY <1>1 DEF OutputBalances, InputBalances
<1>5. /\ getc_buffer' = IF place \in GetConts THEN Get(input) ELSE input
      /\ putc_buffer' = IF place \in PutConts THEN Put(putc_buffer, place.char) ELSE putc_buffer
  BY <1>1, ContinuationsDiffer DEF Finish
<1>. HIDE DEF place, out, in, more, came
<1>6. Len(putc_buffer') + out + more = IO_BUFFER_SIZE
  <2>1. CASE place \in PutConts
    <3>1. Len(putc_buffer) < IO_BUFFER_SIZE
      BY <1>1, <1>2, <1>3, <1>4, <2>1
    <3>2. Len(putc_buffer') = Len(putc_buffer) + 1
      BY <1>3, <1>5, <2>1, <3>1 DEF Put
    <3>. QED  BY <1>1, <1>2, <1>3, <1>4, <2>1, <3>2
  <2>2. CASE place \notin PutConts
    BY <1>1, <1>2, <1>3, <1>4, <1>5, <2>2
  <2>. QED  BY <2>1, <2>2
<1>7. Len(getc_buffer') = in + came
  <2>1. CASE place \in GetConts
    <3>1. Len(input) >= 1
      BY <1>1, <1>2, <1>4, <2>1
    <3>2. Len(getc_buffer') = Len(input) - 1
      BY <1>5, <2>1, <3>1 DEF Get
    <3>. QED  BY <1>1, <1>2, <1>4, <2>1, <3>2
  <2>2. CASE place \notin GetConts
    BY <1>1, <1>2, <1>4, <1>5, <2>2
  <2>. QED  BY <2>1, <2>2
<1>. QED  BY <1>6, <1>7 DEF NoOutputDropped, NoInputInvented, out, in, more, came,
                            PutConts, GetConts

(* No thread that is left in a list is the one switched to.                *)
LEMMA SwitchConsole ==
  ASSUME IInv, IInv', NEW st, NEW queue \in Seq(TCB), NEW cont \in Continuation,
         NEW ticks, NEW input \in Seq(Char),
         st = [t \in TCB |-> st[t]], \A t \in Elements(queue) : st[t] = "READY",
         Switch(st, queue, cont, ticks, input),
         BlockedAt(waiting', asleep', [at EXCEPT ![current] = cont]),
         OutputBalances(st, [at EXCEPT ![current] = cont]),
         InputBalances(st, [at EXCEPT ![current] = cont], input)
  PROVE  ConsoleInv'
<1>. DEFINE saved == [at EXCEPT ![current] = cont]
            next  == Head(queue)
<1>1. NoOutputDropped' /\ NoInputInvented'
  BY SwitchBalances
<1>2. queue # <<>>
  <2>. SUFFICES ASSUME queue = <<>> PROVE FALSE
    OBVIOUS
  <2>1. current' = NULL
    BY DEF Switch
  <2>. QED  BY <2>1, ThreadAssumption DEF IInv, SchedulerNeverDry
<1>3. current' = next /\ at' = [saved EXCEPT ![next] = At("code")]
  BY <1>2 DEF Switch
<1>4. saved \in [TCB -> Continuation]
  BY DEF IInv, TypeOK
<1>5. status'[next] = "RUNNING" /\ next \in TCB
  BY <1>3 DEF IInv, SchedulerNeverDry
<1>. HIDE DEF saved, next
<1>6. \A t \in TCB : t # next => at'[t] = saved[t]
  BY <1>3, <1>4
<1>7. ASSUME NEW s \in SemAddr, NEW t \in Elements(waiting'[s])
      PROVE  at'[t] \in Where(s)
  <2>1. t \in TCB
    BY ElementsType DEF IInv, TypeOK
  <2>2. t # next
    BY <1>5, <2>1 DEF IInv, OneListPerThread
  <2>. QED  BY <1>6, <1>7, <2>1, <2>2 DEF BlockedAt, saved
<1>8. ASSUME NEW t \in Elements(asleep')
      PROVE  at'[t] = At("sleep")
  <2>1. t \in TCB
    BY ElementsType DEF IInv, TypeOK
  <2>2. t # next
    BY <1>5, <2>1 DEF IInv, OneListPerThread
  <2>. QED  BY <1>6, <1>8, <2>1, <2>2 DEF BlockedAt, saved
<1>. QED  BY <1>1, <1>7, <1>8 DEF ConsoleInv, BlockedWhere, BlockedAt

(* Threads that leave their list change nothing for those that stay.       *)
LEMMA BlockedStay ==
  ASSUME IInv, BlockedWhere, NEW a, \A t \in TCB : t # current => a[t] = at[t],
         \A s \in SemAddr : Elements(waiting'[s]) \subseteq Elements(waiting[s]),
         Elements(asleep') \subseteq Elements(asleep)
  PROVE  BlockedAt(waiting', asleep', a)
<1>1. \A s \in SemAddr : \A t \in Elements(waiting[s]) : t \in TCB /\ t # current
  BY ElementsType DEF IInv, TypeOK, SchedulerNeverDry, OneListPerThread
<1>2. \A t \in Elements(asleep) : t \in TCB /\ t # current
  BY ElementsType DEF IInv, TypeOK, SchedulerNeverDry, OneListPerThread
<1>. QED  BY <1>1, <1>2 DEF BlockedWhere, BlockedAt

(* The threads w become ready, and perhaps the running thread too, which   *)
(* then has left the kernel.                                               *)
Wakes(st, a, w) ==
  /\ w \in Seq(TCB)
  /\ Distinct(w)
  /\ \A t \in Elements(w) : status[t] = "SUSPENDED"
  /\ \A t \in TCB \ {current} :
       /\ st[t] = IF t \in Elements(w) THEN "READY" ELSE status[t]
       /\ a[t] = at[t]
  /\ st[current] = "READY" => a[current] = At("code")

(* They are as many as there are positions in w.                           *)
LEMMA WakesCount ==
  ASSUME IInv, NEW st, NEW a, NEW w, Wakes(st, a, w), NEW P, At("code") \notin P
  PROVE  /\ (\A t \in Elements(w) : at[t] \notin P) => ReadyAt(st, a, P) = Granted(P)
         /\ (\A t \in Elements(w) : at[t] \in P) =>
              Cardinality(ReadyAt(st, a, P)) = Cardinality(Granted(P)) + Len(w)
<1>. DEFINE W == Elements(w)
<1>1. w \in Seq(TCB) /\ Distinct(w) /\ DOMAIN w = 1..Len(w) /\ Len(w) \in Nat
  BY DEF Wakes
<1>2. IsFiniteSet(DOMAIN w) /\ Cardinality(DOMAIN w) = Len(w)
  BY <1>1, FS_Interval
<1>3. IsFiniteSet(W) /\ Cardinality(W) = Len(w)
  <2>1. w = [i \in DOMAIN w |-> w[i]] /\ \A i \in DOMAIN w : w[i] \in W
    BY <1>1 DEF Elements
  <2>2. w \in [DOMAIN w -> W]
    BY <2>1
  <2>3. w \in Injection(DOMAIN w, W)
    BY <1>1, <2>2 DEF Injection, IsInjective, Distinct
  <2>4. w \in Surjection(DOMAIN w, W)
    BY <2>2 DEF Surjection, Elements
  <2>. DEFINE D == DOMAIN w
  <2>5. IsFiniteSet(D) /\ w \in Surjection(D, W) /\ w \in Injection(D, W)
    BY <1>2, <2>3, <2>4
  <2>. HIDE DEF W, D
  <2>6. IsFiniteSet(W) /\ Cardinality(W) = Cardinality(D)
    BY <2>5, FS_Surjection
  <2>. QED  BY <1>2, <2>6 DEF D
<1>4. W \in SUBSET TCB
  BY <1>1, ElementsType
<1>5. \A t \in W : status[t] # "READY" /\ t # current
  BY DEF Wakes, IInv, SchedulerNeverDry
<1>. HIDE DEF W
<1>6. ASSUME NEW t \in TCB
      PROVE  st[t] = "READY" /\ a[t] \in P <=>
               (status[t] = "READY" /\ at[t] \in P) \/ (t \in W /\ at[t] \in P)
  <2>1. CASE t = current
    BY <1>5, <2>1 DEF Wakes, IInv, SchedulerNeverDry
  <2>2. CASE t # current
    BY <2>2 DEF Wakes, W
  <2>. QED  BY <2>1, <2>2
<1>7. /\ (\A t \in W : at[t] \notin P) => ReadyAt(st, a, P) = Granted(P)
      /\ (\A t \in W : at[t] \in P) =>
           Cardinality(ReadyAt(st, a, P)) = Cardinality(Granted(P)) + Cardinality(W)
  <2>1. W \in SUBSET TCB /\ IsFiniteSet(W) /\ \A t \in W : status[t] # "READY"
    BY <1>3, <1>4, <1>5
  <2>2. (\A t \in W : at[t] \notin P) => ReadyAt(st, a, P) = Granted(P)
    BY <1>6, <2>1, ReadyGrows
  <2>3. (\A t \in W : at[t] \in P) =>
          Cardinality(ReadyAt(st, a, P)) = Cardinality(Granted(P)) + Cardinality(W)
    BY <1>6, <2>1, ReadyGrows
  <2>. QED  BY <2>2, <2>3
<1>. QED  BY <1>3, <1>7 DEF W

(* Nothing of the buffers changes when those who wake do not care for it.  *)
LEMMA WakesBalance ==
  ASSUME IInv, ConsoleInv, NEW st, NEW a, NEW w, Wakes(st, a, w)
  PROVE  /\ /\ \A t \in Elements(w) : at[t] \notin PutConts
            /\ PositivePart(value'[PutcSem]) = PositivePart(value[PutcSem])
            => OutputBalances(st, a)
         /\ /\ \A t \in Elements(w) : at[t] \notin GetConts
            /\ PositivePart(value'[GetcSem]) = PositivePart(value[GetcSem])
            => InputBalances(st, a, getc_buffer)
<1>1. At("code") \notin PutConts /\ At("code") \notin GetConts
  BY ContinuationsDiffer
<1>2. ASSUME \A t \in Elements(w) : at[t] \notin PutConts,
             PositivePart(value'[PutcSem]) = PositivePart(value[PutcSem])
      PROVE  OutputBalances(st, a)
  <2>1. ReadyAt(st, a, PutConts) = Granted(PutConts)
    BY <1>1, <1>2, WakesCount
  <2>. QED  BY <1>2, <2>1 DEF OutputBalances, ConsoleInv, NoOutputDropped, PutConts
<1>3. ASSUME \A t \in Elements(w) : at[t] \notin GetConts,
             PositivePart(value'[GetcSem]) = PositivePart(value[GetcSem])
      PROVE  InputBalances(st, a, getc_buffer)
  <2>1. ReadyAt(st, a, GetConts) = Granted(GetConts)
    BY <1>1, <1>3, WakesCount
  <2>. QED  BY <1>3, <2>1 DEF InputBalances, ConsoleInv, NoInputInvented, GetConts
<1>. QED  BY <1>2, <1>3

(* The buffers at the end of a step without a context switch.              *)
LEMMA StayBalances ==
  ASSUME OutputBalances(status', at'), InputBalances(status', at', getc_buffer'),
         putc_buffer' = putc_buffer
  PROVE  NoOutputDropped' /\ NoInputInvented'
<1>1. \A P : Granted(P)' = ReadyAt(status', at', P)
  BY DEF Granted, ReadyAt
<1>2. Granted(PutConts)' = ReadyAt(status', at', PutConts)
  BY <1>1
<1>3. Granted(GetConts)' = ReadyAt(status', at', GetConts)
  BY <1>1
<1>. QED  BY <1>2, <1>3 DEF OutputBalances, InputBalances, NoOutputDropped,
                            NoInputInvented, PutConts, GetConts

(* Who waits on a semaphore, or sleeps, goes on at which call.             *)
LEMMA WakingWhere ==
  ASSUME BlockedWhere, NEW w
  PROVE  /\ \A s \in SemAddr : Elements(w) \subseteq Elements(waiting[s]) =>
              \A t \in Elements(w) : /\ s = PutcSem <=> at[t] \in PutConts
                                     /\ s = GetcSem <=> at[t] \in GetConts
         /\ Elements(w) \subseteq Elements(asleep) =>
              \A t \in Elements(w) : at[t] \notin PutConts /\ at[t] \notin GetConts
<1>1. /\ At("wait") \notin PutConts /\ At("wait") \notin GetConts
      /\ At("join") \notin PutConts /\ At("join") \notin GetConts
      /\ At("sleep") \notin PutConts /\ At("sleep") \notin GetConts
      /\ PutConts \cap GetConts = {}
  BY ContinuationsDiffer
<1>2. ASSUME NEW s \in SemAddr, NEW t \in Elements(waiting[s])
      PROVE  /\ s = PutcSem <=> at[t] \in PutConts
             /\ s = GetcSem <=> at[t] \in GetConts
  <2>1. at[t] \in Where(s)
    BY DEF BlockedWhere, BlockedAt
  <2>. QED  BY <1>1, <2>1, SemAssumption DEF Where
<1>3. \A t \in Elements(asleep) : at[t] = At("sleep")
  BY DEF BlockedWhere, BlockedAt
<1>. QED  BY <1>1, <1>2, <1>3

(* A step without a context switch that wakes the threads w.               *)
LEMMA WakingConsole ==
  ASSUME IInv, IInv', ConsoleInv, NEW w, Wakes(status', at', w),
         \A s \in SemAddr : Elements(waiting'[s]) \subseteq Elements(waiting[s]),
         Elements(asleep') \subseteq Elements(asleep),
         \A t \in Elements(w) : at[t] \notin PutConts /\ at[t] \notin GetConts,
         PositivePart(value'[PutcSem]) = PositivePart(value[PutcSem]),
         PositivePart(value'[GetcSem]) = PositivePart(value[GetcSem]),
         UNCHANGED <<putc_buffer, getc_buffer>>
  PROVE  ConsoleInv'
<1>1. OutputBalances(status', at') /\ InputBalances(status', at', getc_buffer)
  BY WakesBalance
<1>2. NoOutputDropped' /\ NoInputInvented'
  BY <1>1, StayBalances
<1>3. \A t \in TCB : t # current => at'[t] = at[t]
  BY DEF Wakes
<1>4. BlockedWhere'
  BY <1>3, BlockedStay DEF ConsoleInv, BlockedWhere
<1>. QED  BY <1>2, <1>4 DEF ConsoleInv

(* dispatch() after the threads w have been made ready.                    *)
LEMMA DispatchConsole ==
  ASSUME IInv, IInv', ConsoleInv, NEW w, NEW ticks, NEW input \in Seq(Char),
         w \in Seq(TCB), Distinct(w), \A t \in Elements(w) : status[t] = "SUSPENDED",
         Dispatch(MakeReady(status, w), ready \o w, ticks, input),
         \A s \in SemAddr : Elements(waiting'[s]) \subseteq Elements(waiting[s]),
         Elements(asleep') \subseteq Elements(asleep),
         \A t \in Elements(w) : at[t] \notin PutConts,
         PositivePart(value'[PutcSem]) = PositivePart(value[PutcSem]),
         \/ /\ input = getc_buffer
            /\ \A t \in Elements(w) : at[t] \notin GetConts
            /\ PositivePart(value'[GetcSem]) = PositivePart(value[GetcSem])
         \/ /\ Len(input) = Len(getc_buffer) + 1
            /\ \A t \in Elements(w) : at[t] \in GetConts
            /\ Len(w) + PositivePart(value'[GetcSem]) = PositivePart(value[GetcSem]) + 1
  PROVE  ConsoleInv'
<1>. DEFINE st    == [MakeReady(status, w) EXCEPT ![current] = "READY"]
            saved == [at EXCEPT ![current] = At("code")]
            woken == ready \o w
            queue == Append(woken, current)
<1>1. Switch(st, queue, At("code"), ticks, input)
  BY DEF Dispatch
<1>2. /\ current \in TCB /\ ready \in Seq(TCB)
      /\ status \in [TCB -> Status] /\ at \in [TCB -> Continuation]
      /\ value \in [SemAddr -> Int] /\ value' \in [SemAddr -> Int]
      /\ PutcSem \in SemAddr /\ GetcSem \in SemAddr
  BY DEF IInv, TypeOK, SchedulerNeverDry, SemAddr
<1>3. \A t \in TCB : st[t] = IF t = current \/ t \in Elements(w) THEN "READY" ELSE status[t]
  BY <1>2 DEF MakeReady
<1>4. \A t \in TCB : saved[t] = IF t = current THEN At("code") ELSE at[t]
  BY <1>2
<1>5. st = [t \in TCB |-> st[t]]
  BY DEF MakeReady
<1>6. At("code") \in Continuation
  BY ContinuationType
<1>. HIDE DEF st
<1>7. Wakes(st, saved, w)
  BY <1>2, <1>3, <1>4 DEF Wakes
<1>8. queue \in Seq(TCB) /\ \A t \in Elements(queue) : st[t] = "READY"
  <2>1. woken \in Seq(TCB) /\ Elements(woken) = Elements(ready) \cup Elements(w)
    BY <1>2, ElementsConcat
  <2>. HIDE DEF woken
  <2>2. queue \in Seq(TCB) /\ Elements(queue) = Elements(woken) \cup {current}
    BY <1>2, <2>1, ElementsAppend
  <2>3. \A t \in Elements(ready) : t \in TCB /\ status[t] = "READY"
    BY <1>2, ElementsType DEF IInv, OneListPerThread
  <2>4. Elements(w) \subseteq TCB
    BY ElementsType
  <2>. QED  BY <1>2, <1>3, <2>1, <2>2, <2>3, <2>4
<1>9. OutputBalances(st, saved)
  BY <1>7, WakesBalance
<1>10. InputBalances(st, saved, input)
  <2>1. CASE /\ input = getc_buffer
             /\ \A t \in Elements(w) : at[t] \notin GetConts
             /\ PositivePart(value'[GetcSem]) = PositivePart(value[GetcSem])
    BY <1>7, <2>1, WakesBalance
  <2>2. CASE /\ Len(input) = Len(getc_buffer) + 1
             /\ \A t \in Elements(w) : at[t] \in GetConts
             /\ Len(w) + PositivePart(value'[GetcSem]) = PositivePart(value[GetcSem]) + 1
    <3>1. /\ Cardinality(Granted(GetConts)) \in Nat
          /\ Cardinality(ReadyAt(st, saved, GetConts)) = Cardinality(Granted(GetConts)) + Len(w)
      <4>1. At("code") \notin GetConts
        BY ContinuationsDiffer
      <4>. QED  BY <1>7, <2>2, <4>1, GrantedFinite, WakesCount
    <3>2. Len(getc_buffer) = Cardinality(Granted(GetConts)) + PositivePart(value[GetcSem])
      BY DEF ConsoleInv, NoInputInvented, GetConts
    <3>3. /\ Len(w) \in Nat
          /\ PositivePart(value[GetcSem]) \in Nat /\ PositivePart(value'[GetcSem]) \in Nat
      <4>1. value[GetcSem] \in Int /\ value'[GetcSem] \in Int
        BY <1>2
      <4>. QED  BY <4>1 DEF PositivePart
    <3>4. Len(input) = Cardinality(Granted(GetConts)) + Len(w) + PositivePart(value'[GetcSem])
      <4>. DEFINE in     == Cardinality(Granted(GetConts))
                  before == PositivePart(value[GetcSem])
                  after  == PositivePart(value'[GetcSem])
      <4>1. in \in Nat /\ before \in Nat /\ after \in Nat /\ Len(w) \in Nat
        BY <3>1, <3>3
      <4>2. /\ Len(input) = Len(getc_buffer) + 1
            /\ Len(w) + after = before + 1
            /\ Len(getc_buffer) = in + before
        BY <2>2, <3>2
      <4>. HIDE DEF in, before, after
      <4>3. Len(input) = in + Len(w) + after
        BY <4>1, <4>2
      <4>. QED  BY <4>3 DEF in, after
    <3>. QED  BY <3>1, <3>4 DEF InputBalances
  <2>. QED  BY <2>1, <2>2
<1>11. BlockedAt(waiting', asleep', saved)
  BY <1>4, BlockedStay DEF ConsoleInv
<1>. HIDE DEF queue
<1>. QED  BY <1>1, <1>5, <1>6, <1>8, <1>9, <1>10, <1>11, SwitchConsole

(* A call that blocks, or ends, the running thread after waking w.         *)
LEMMA BlockConsole ==
  ASSUME IInv, IInv', ConsoleInv, NEW st, NEW queue \in Seq(TCB), NEW w,
         NEW cont \in Continuation, NEW ticks,
         st = [t \in TCB |-> st[t]], \A t \in Elements(queue) : st[t] = "READY",
         st[current] # "READY",
         Wakes(st, [at EXCEPT ![current] = cont], w),
         \A t \in Elements(w) : at[t] \notin PutConts /\ at[t] \notin GetConts,
         PositivePart(value'[PutcSem]) = PositivePart(value[PutcSem]),
         PositivePart(value'[GetcSem]) = PositivePart(value[GetcSem]),
         BlockedAt(waiting', asleep', [at EXCEPT ![current] = cont]),
         Switch(st, queue, cont, ticks, getc_buffer)
  PROVE  ConsoleInv'
<1>1. /\ OutputBalances(st, [at EXCEPT ![current] = cont])
      /\ InputBalances(st, [at EXCEPT ![current] = cont], getc_buffer)
  BY WakesBalance
<1>2. getc_buffer \in Seq(Char)
  BY DEF IInv, TypeOK
<1>. QED  BY <1>1, <1>2, SwitchConsole

(* Nobody is woken.                                                        *)
LEMMA WakesNobody ==
  ASSUME IInv, NEW st, NEW a,
         \A t \in TCB \ {current} : st[t] = status[t] /\ a[t] = at[t],
         st[current] = "READY" => a[current] = At("code")
  PROVE  Wakes(st, a, <<>>) /\ Elements(<<>>) = {}
  BY DEF Wakes, Elements, Distinct

(* Sem::wait, blocking or not.                                             *)
LEMMA WaitConsole ==
  ASSUME IInv, IInv', ConsoleInv, NEW s \in SemAddr, NEW cont \in Where(s),
         s \in open, Wait(s, cont), UNCHANGED sleepVars
  PROVE  ConsoleInv'
<1>1. /\ current \in TCB /\ ready \in Seq(TCB) /\ status[current] = "RUNNING"
      /\ status \in [TCB -> Status] /\ at \in [TCB -> Continuation]
      /\ waiting \in [SemAddr -> Seq(TCB)]
      /\ value \in [SemAddr -> Int] /\ value' \in [SemAddr -> Int]
      /\ putc_buffer \in Seq(Char) /\ getc_buffer \in Seq(Char)
      /\ PutcSem \in SemAddr /\ GetcSem \in SemAddr
  BY DEF IInv, TypeOK, SchedulerNeverDry, SemAddr
<1>2. cont \in Continuation
  BY ContinuationType DEF Where, PutConts, GetConts
<1>3. /\ \A r \in SemAddr : value'[r] = IF r = s THEN value[r] - 1 ELSE value[r]
      /\ asleep' = asleep
  BY <1>1 DEF Wait, sleepVars
<1>4. CASE value[s] - 1 < 0
  <2>. DEFINE st    == [status EXCEPT ![current] = "SUSPENDED"]
              saved == [at EXCEPT ![current] = cont]
  <2>1. /\ waiting' = [waiting EXCEPT ![s] = Append(@, current)]
        /\ Switch(st, ready, cont, timer_ticks, getc_buffer)
    BY <1>4 DEF Wait
  <2>2. /\ \A t \in TCB : st[t] = IF t = current THEN "SUSPENDED" ELSE status[t]
        /\ st = [t \in TCB |-> st[t]]
    BY <1>1
  <2>3. \A t \in TCB : saved[t] = IF t = current THEN cont ELSE at[t]
    BY <1>1
  <2>. HIDE DEF st
  <2>4. Wakes(st, saved, <<>>) /\ Elements(<<>>) = {}
    BY <1>1, <2>2, <2>3, WakesNobody
  <2>5. \A t \in Elements(ready) : st[t] = "READY"
    <3>1. \A t \in Elements(ready) : t \in TCB /\ status[t] = "READY"
      BY <1>1, ElementsType DEF IInv, OneListPerThread
    <3>. QED  BY <1>1, <2>2, <3>1
  <2>6. \A r \in SemAddr :
          PositivePart(value'[r]) = PositivePart(value[r])
    BY <1>1, <1>3, <1>4 DEF PositivePart
  <2>7. BlockedAt(waiting', asleep', saved)
    <3>1. \A r \in SemAddr : Elements(waiting'[r]) =
            IF r = s THEN Elements(waiting[s]) \cup {current} ELSE Elements(waiting[r])
      <4>1. Elements(Append(waiting[s], current)) = Elements(waiting[s]) \cup {current}
        BY <1>1, ElementsAppend
      <4>. QED  BY <1>1, <2>1, <4>1
    <3>2. ASSUME NEW r \in SemAddr, NEW t \in Elements(waiting'[r])
          PROVE  saved[t] \in Where(r)
      <4>1. CASE t = current
        <5>1. t \notin Elements(waiting[r])
          BY <1>1, <4>1 DEF IInv, OneListPerThread
        <5>2. r = s
          BY <3>1, <5>1
        <5>. QED  BY <1>1, <2>3, <4>1, <5>2
      <4>2. CASE t # current
        <5>1. t \in Elements(waiting[r]) /\ t \in TCB
          BY <1>1, <3>1, <4>2, ElementsType
        <5>. QED  BY <2>3, <4>2, <5>1 DEF ConsoleInv, BlockedWhere, BlockedAt
      <4>. QED  BY <4>1, <4>2
    <3>3. ASSUME NEW t \in Elements(asleep')
          PROVE  saved[t] = At("sleep")
      <4>1. t \in Elements(asleep) /\ t \in TCB
        BY <1>3, ElementsType DEF IInv, TypeOK
      <4>2. t # current
        BY <1>1, <4>1 DEF IInv, OneListPerThread
      <4>. QED  BY <2>3, <4>1, <4>2 DEF ConsoleInv, BlockedWhere, BlockedAt
    <3>. QED  BY <3>2, <3>3 DEF BlockedAt
  <2>8. st[current] # "READY"
    BY <1>1, <2>2
  <2>. QED  BY <1>1, <1>2, <2>1, <2>2, <2>4, <2>5, <2>6, <2>7, <2>8, BlockConsole
<1>5. CASE ~(value[s] - 1 < 0)
  <2>1. /\ UNCHANGED <<current, status, at, ready, timer_ticks, waiting>>
        /\ Finish(current, cont, FALSE, getc_buffer)
    BY <1>5 DEF Wait, threadVars
  <2>2. \A P : Granted(P)' = Granted(P)
    BY <2>1 DEF Granted
  <2>3. BlockedWhere'
    BY <1>3, <2>1 DEF ConsoleInv, BlockedWhere
  <2>4. /\ getc_buffer' = IF cont \in GetConts THEN Get(getc_buffer) ELSE getc_buffer
        /\ putc_buffer' = IF cont \in PutConts THEN Put(putc_buffer, cont.char) ELSE putc_buffer
    BY <1>2, <2>1, ContinuationsDiffer DEF Finish
  <2>5. /\ cont \in PutConts <=> s = PutcSem
        /\ cont \in GetConts <=> s = GetcSem
    BY ContinuationsDiffer, SemAssumption DEF Where
  <2>6. NoOutputDropped'
    <3>. DEFINE out == Cardinality(Granted(PutConts))
    <3>1. /\ Len(putc_buffer) + out + PositivePart(value[PutcSem]) = IO_BUFFER_SIZE
          /\ out \in Nat
      BY GrantedFinite DEF ConsoleInv, NoOutputDropped, PutConts
    <3>2. NoOutputDropped' <=>
            Len(putc_buffer') + out + PositivePart(value'[PutcSem]) = IO_BUFFER_SIZE
      BY <2>2 DEF NoOutputDropped, PutConts
    <3>. HIDE DEF out
    <3>3. CASE s = PutcSem
      <4>1. /\ PositivePart(value'[PutcSem]) = PositivePart(value[PutcSem]) - 1
            /\ PositivePart(value[PutcSem]) \in Nat /\ PositivePart(value[PutcSem]) >= 1
        BY <1>1, <1>3, <1>5, <3>3 DEF PositivePart
      <4>2. Len(putc_buffer) < IO_BUFFER_SIZE
        BY <1>1, <3>1, <4>1, SizeAssumption
      <4>3. Len(putc_buffer') = Len(putc_buffer) + 1
        BY <1>1, <2>4, <2>5, <3>3, <4>2 DEF Put
      <4>. QED  BY <1>1, <3>1, <3>2, <4>1, <4>3, SizeAssumption
    <3>4. CASE s # PutcSem
      BY <1>1, <1>3, <2>4, <2>5, <3>1, <3>2, <3>4
    <3>. QED  BY <3>3, <3>4
  <2>7. NoInputInvented'
    <3>. DEFINE in == Cardinality(Granted(GetConts))
    <3>1. /\ Len(getc_buffer) = in + PositivePart(value[GetcSem])
          /\ in \in Nat
      BY GrantedFinite DEF ConsoleInv, NoInputInvented, GetConts
    <3>2. NoInputInvented' <=>
            Len(getc_buffer') = in + PositivePart(value'[GetcSem])
      BY <2>2 DEF NoInputInvented, GetConts
    <3>. HIDE DEF in
    <3>3. CASE s = GetcSem
      <4>1. /\ PositivePart(value'[GetcSem]) = PositivePart(value[GetcSem]) - 1
            /\ PositivePart(value[GetcSem]) \in Nat /\ PositivePart(value[GetcSem]) >= 1
        BY <1>1, <1>3, <1>5, <3>3 DEF PositivePart
      <4>2. Len(getc_buffer) >= 1
        BY <3>1, <4>1
      <4>3. Len(getc_buffer') = Len(getc_buffer) - 1
        BY <1>1, <2>4, <2>5, <3>3, <4>2 DEF Get
      <4>. QED  BY <3>1, <3>2, <4>1, <4>3
    <3>4. CASE s # GetcSem
      BY <1>1, <1>3, <2>4, <2>5, <3>1, <3>2, <3>4
    <3>. QED  BY <3>3, <3>4
  <2>. QED  BY <2>3, <2>6, <2>7 DEF ConsoleInv
<1>. QED  BY <1>4, <1>5

(* A signal either resumes a thread or is kept in the value.               *)
LEMMA SignalResumes ==
  ASSUME IInv, ValueCountsWaiters, NEW s \in SemAddr, s \in open, NEW n \in Nat,
         Signal(s, n)
  PROVE  LET w == Unblocked(s, n)
         IN /\ w \in Seq(TCB) /\ Distinct(w)
            /\ Elements(w) \subseteq Elements(waiting[s])
            /\ \A t \in Elements(w) : status[t] = "SUSPENDED"
            /\ Len(w) + PositivePart(value'[s]) = PositivePart(value[s]) + n
            /\ \A r \in SemAddr : r # s => value'[r] = value[r]
            /\ \A r \in SemAddr : Elements(waiting'[r]) \subseteq Elements(waiting[r])
<1>. DEFINE q == waiting[s]
            v == value[s]
            w == Unblocked(s, n)
            waking == Cardinality({i \in 1..n : v + i <= 0})
            k == IF waking <= Len(q) THEN waking ELSE Len(q)
<1>1. /\ waiting \in [SemAddr -> Seq(TCB)] /\ q \in Seq(TCB) /\ Distinct(q)
      /\ value \in [SemAddr -> Int] /\ v \in Int
  BY DEF IInv, TypeOK, OneListPerThread
<1>2. Len(q) = Owed(v)
  BY DEF ValueCountsWaiters, Owed
<1>3. waking = IF v >= 0 THEN 0 ELSE IF n <= -v THEN n ELSE -v
  <2>. HIDE DEF v
  <2>. QED  BY <1>1, WakingCount
<1>4. w = SubSeq(q, 1, k)
  BY DEF Unblocked
<1>5. value'[s] = v + n /\ \A r \in SemAddr : r # s => value'[r] = value[r]
  BY <1>1 DEF Signal
<1>6. waiting' = [waiting EXCEPT ![s] = SubSeq(q, Len(w) + 1, Len(q))]
  BY DEF Signal
<1>7. \A t \in Elements(q) : t \in TCB /\ status[t] = "SUSPENDED"
  BY <1>1, ElementsType DEF IInv, OneListPerThread
<1>. HIDE DEF q, v, w, waking
<1>8. k \in 0..Len(q) /\ k + PositivePart(v + n) = PositivePart(v) + n
  BY <1>1, <1>2, <1>3 DEF Owed, PositivePart
<1>. HIDE DEF k
<1>9. LET p == SubSeq(q, 1, k)
          r == SubSeq(q, k + 1, Len(q))
      IN /\ p \in Seq(TCB)
         /\ Len(p) = k
         /\ Elements(q) = Elements(p) \cup Elements(r)
         /\ Distinct(p)
  BY <1>1, <1>8, ElementsSplit
<1>10. /\ w \in Seq(TCB) /\ Distinct(w) /\ Len(w) = k
       /\ Elements(w) \subseteq Elements(q)
       /\ Elements(SubSeq(q, Len(w) + 1, Len(q))) \subseteq Elements(q)
  BY <1>4, <1>9
<1>11. \A r \in SemAddr : Elements(waiting'[r]) \subseteq Elements(waiting[r])
  BY <1>1, <1>6, <1>10 DEF q
<1>12. Len(w) + PositivePart(value'[s]) = PositivePart(value[s]) + n
  BY <1>5, <1>8, <1>10 DEF v
<1>. QED  BY <1>5, <1>7, <1>10, <1>11, <1>12 DEF q, v, w

(* k_handle_console: the character is put before a getc is resumed.        *)
LEMMA ConsoleInterruptConsole ==
  ASSUME IInv, IInv', ValueCountsWaiters, ConsoleInv, NEW c \in Char, ConsoleInterrupt(c)
  PROVE  ConsoleInv'
<1>. DEFINE w     == Unblocked(GetcSem, 1)
            input == Put(getc_buffer, c)
<1>1. GetcSem \in SemAddr /\ PutcSem \in SemAddr /\ GetcSem \in open /\ 1 \in Nat
  BY DEF SemAddr, IInv, OneListPerThread
<1>2. /\ Signal(GetcSem, 1)
      /\ Dispatch(MakeReady(status, w), ready \o w, timer_ticks, input)
      /\ asleep' = asleep
      /\ Len(getc_buffer) < IO_BUFFER_SIZE
  BY DEF ConsoleInterrupt, sleepVars
<1>3. /\ w \in Seq(TCB) /\ Distinct(w)
      /\ Elements(w) \subseteq Elements(waiting[GetcSem])
      /\ \A t \in Elements(w) : status[t] = "SUSPENDED"
      /\ Len(w) + PositivePart(value'[GetcSem]) = PositivePart(value[GetcSem]) + 1
      /\ \A r \in SemAddr : r # GetcSem => value'[r] = value[r]
      /\ \A r \in SemAddr : Elements(waiting'[r]) \subseteq Elements(waiting[r])
  BY <1>1, <1>2, SignalResumes
<1>4. input \in Seq(Char) /\ Len(input) = Len(getc_buffer) + 1
  BY <1>2 DEF Put, IInv, TypeOK
<1>. HIDE DEF w, input
<1>5. \A t \in Elements(w) : at[t] \in GetConts /\ at[t] \notin PutConts
  BY <1>1, <1>3, WakingWhere, SemAssumption DEF ConsoleInv
<1>6. value'[PutcSem] = value[PutcSem]
  BY <1>1, <1>3, SemAssumption
<1>. QED  BY <1>2, <1>3, <1>4, <1>5, <1>6, DispatchConsole

(* flush_putc_buffer: a place is promised for each character sent.         *)
LEMMA FlushPutcConsole ==
  ASSUME IInv, IInv', ValueCountsWaiters, ConsoleInv,
         NEW n \in 0..IO_BUFFER_SIZE, FlushPutc(n)
  PROVE  ConsoleInv'
<1>. DEFINE w == Unblocked(PutcSem, n)
            out == Cardinality(Granted(PutConts))
<1>1. /\ GetcSem \in SemAddr /\ PutcSem \in SemAddr /\ PutcSem \in open /\ n \in Nat
      /\ status \in [TCB -> Status] /\ at \in [TCB -> Continuation]
      /\ putc_buffer \in Seq(Char)
      /\ value \in [SemAddr -> Int] /\ value' \in [SemAddr -> Int]
      /\ current \in TCB /\ status[current] = "RUNNING"
  <2>1. n \in Nat
    BY SizeAssumption
  <2>. QED  BY <2>1 DEF SemAddr, IInv, TypeOK, OneListPerThread, SchedulerNeverDry
<1>2. /\ Signal(PutcSem, n)
      /\ status' = MakeReady(status, w)
      /\ at' = at /\ asleep' = asleep /\ getc_buffer' = getc_buffer
      /\ n \in 0..Len(putc_buffer)
      /\ putc_buffer' = SubSeq(putc_buffer, n + 1, Len(putc_buffer))
  BY <1>1 DEF FlushPutc, sleepVars
<1>3. /\ w \in Seq(TCB) /\ Distinct(w)
      /\ Elements(w) \subseteq Elements(waiting[PutcSem])
      /\ \A t \in Elements(w) : status[t] = "SUSPENDED"
      /\ Len(w) + PositivePart(value'[PutcSem]) = PositivePart(value[PutcSem]) + n
      /\ \A r \in SemAddr : r # PutcSem => value'[r] = value[r]
      /\ \A r \in SemAddr : Elements(waiting'[r]) \subseteq Elements(waiting[r])
  BY <1>1, <1>2, SignalResumes
<1>4. Len(putc_buffer') = Len(putc_buffer) - n
  BY <1>1, <1>2, ElementsSplit
<1>. HIDE DEF w
<1>5. \A t \in Elements(w) : at[t] \in PutConts /\ at[t] \notin GetConts
  BY <1>1, <1>3, WakingWhere, SemAssumption DEF ConsoleInv
<1>6. value'[GetcSem] = value[GetcSem]
  BY <1>1, <1>3, SemAssumption
<1>7. Wakes(status', at', w)
  <2>1. \A t \in TCB : status'[t] = IF t \in Elements(w) THEN "READY" ELSE status[t]
    BY <1>2 DEF MakeReady
  <2>2. status'[current] # "READY"
    BY <1>1, <1>3, <2>1
  <2>. QED  BY <1>2, <1>3, <2>1, <2>2 DEF Wakes
<1>8. InputBalances(status', at', getc_buffer')
  BY <1>2, <1>5, <1>6, <1>7, WakesBalance
<1>9. NoInputInvented'
  <2>1. Granted(GetConts)' = ReadyAt(status', at', GetConts)
    BY DEF Granted, ReadyAt
  <2>. QED  BY <1>8, <2>1 DEF InputBalances, NoInputInvented, GetConts
<1>10. NoOutputDropped'
  <2>1. /\ out \in Nat
        /\ Cardinality(ReadyAt(status', at', PutConts)) = out + Len(w)
    <3>1. At("code") \notin PutConts
      BY ContinuationsDiffer
    <3>. QED  BY <1>5, <1>7, <3>1, GrantedFinite, WakesCount
  <2>2. Granted(PutConts)' = ReadyAt(status', at', PutConts)
    BY DEF Granted, ReadyAt
  <2>3. Len(putc_buffer) + out + PositivePart(value[PutcSem]) = IO_BUFFER_SIZE
    BY DEF ConsoleInv, NoOutputDropped, PutConts
  <2>4. NoOutputDropped' <=>
          Len(putc_buffer') + (out + Len(w)) + PositivePart(value'[PutcSem]) = IO_BUFFER_SIZE
    BY <2>1, <2>2 DEF NoOutputDropped, PutConts
  <2>5. /\ Len(w) \in Nat /\ Len(putc_buffer) \in Nat
        /\ PositivePart(value[PutcSem]) \in Nat /\ PositivePart(value'[PutcSem]) \in Nat
    <3>1. value[PutcSem] \in Int /\ value'[PutcSem] \in Int
      BY <1>1
    <3>. QED  BY <1>1, <1>3, <3>1 DEF PositivePart
  <2>. HIDE DEF out
  <2>6. Len(putc_buffer') + (out + Len(w)) + PositivePart(value'[PutcSem]) = IO_BUFFER_SIZE
    <3>. DEFINE before == PositivePart(value[PutcSem])
                after  == PositivePart(value'[PutcSem])
    <3>1. /\ n \in Nat /\ out \in Nat /\ before \in Nat /\ after \in Nat
          /\ Len(w) \in Nat /\ Len(putc_buffer) \in Nat
      BY <1>1, <2>1, <2>5
    <3>2. /\ Len(w) + after = before + n
          /\ Len(putc_buffer') = Len(putc_buffer) - n
          /\ Len(putc_buffer) + out + before = IO_BUFFER_SIZE
      BY <1>3, <1>4, <2>3
    <3>. HIDE DEF before, after
    <3>3. Len(putc_buffer') + (out + Len(w)) + after = IO_BUFFER_SIZE
      BY <3>1, <3>2
    <3>. QED  BY <3>3 DEF after
  <2>. QED  BY <2>4, <2>6
<1>11. BlockedWhere'
  <2>1. \A t \in TCB : t # current => at'[t] = at[t]
    BY <1>2
  <2>. QED  BY <1>2, <1>3, <2>1, BlockedStay DEF ConsoleInv, BlockedWhere
<1>. QED  BY <1>9, <1>10, <1>11 DEF ConsoleInv

(* The semaphores the clients and the joiners use are not the console's.   *)
LEMMA OtherSem ==
  ASSUME NEW s \in Sem \cup TCB
  PROVE  /\ s \in SemAddr /\ s # PutcSem /\ s # GetcSem
         /\ PutcSem \in SemAddr /\ GetcSem \in SemAddr
         /\ Where(s) = {At("wait"), At("join")}
  BY SemAssumption DEF SemAddr, Where

(* A step that wakes w and returns to the running thread.                  *)
LEMMA ResumeConsole ==
  ASSUME IInv, IInv', ConsoleInv, NEW w \in Seq(TCB), Distinct(w),
         \A t \in Elements(w) : status[t] = "SUSPENDED",
         status' = MakeReady(status, w), at' = at,
         \A s \in SemAddr : Elements(waiting'[s]) \subseteq Elements(waiting[s]),
         Elements(asleep') \subseteq Elements(asleep),
         \A t \in Elements(w) : at[t] \notin PutConts /\ at[t] \notin GetConts,
         value'[PutcSem] = value[PutcSem], value'[GetcSem] = value[GetcSem],
         UNCHANGED <<putc_buffer, getc_buffer>>
  PROVE  ConsoleInv'
<1>1. \A t \in TCB : status'[t] = IF t \in Elements(w) THEN "READY" ELSE status[t]
  BY DEF MakeReady
<1>2. current \in TCB /\ status[current] = "RUNNING"
  BY DEF IInv, SchedulerNeverDry
<1>3. Wakes(status', at', w)
  BY <1>1, <1>2 DEF Wakes
<1>. QED  BY <1>3, WakingConsole

LEMMA ThreadCreateConsole ==
  ASSUME IInv, IInv', ConsoleInv, ThreadCreate
  PROVE  ConsoleInv'
<1>1. /\ current \in TCB /\ status[current] = "RUNNING"
      /\ status \in [TCB -> Status] /\ at \in [TCB -> Continuation]
      /\ waiting \in [SemAddr -> Seq(TCB)] /\ value \in [SemAddr -> Int]
      /\ asleep \in Seq(TCB)
  BY DEF IInv, TypeOK, SchedulerNeverDry
<1>2. UNCHANGED <<current, asleep, putc_buffer, getc_buffer>>
  BY DEF ThreadCreate, consoleVars
<1>3. CASE \E t \in Workers : status[t] = "FREE"
  <2>1. PICK t \in Workers :
          /\ status[t] = "FREE"
          /\ status' = [status EXCEPT ![t] = "READY"]
          /\ at' = [at EXCEPT ![t] = At("start")]
          /\ value' = [value EXCEPT ![t] = 0]
          /\ waiting' = [waiting EXCEPT ![t] = <<>>]
    BY <1>3 DEF ThreadCreate
  <2>2. t \in TCB /\ t \in SemAddr /\ t # PutcSem /\ t # GetcSem
          /\ PutcSem \in SemAddr /\ GetcSem \in SemAddr
    BY OtherSem DEF Workers
  <2>3. /\ \A u \in TCB : u # t => status'[u] = status[u] /\ at'[u] = at[u]
        /\ status'[t] = "READY" /\ at'[t] = At("start")
    BY <1>1, <2>1, <2>2
  <2>4. At("start") \notin PutConts /\ At("start") \notin GetConts
    BY ContinuationsDiffer
  <2>5. \A P : At("start") \notin P => Granted(P)' = Granted(P)
    BY <2>1, <2>3 DEF Granted
  <2>6. Granted(PutConts)' = Granted(PutConts) /\ Granted(GetConts)' = Granted(GetConts)
    BY <2>4, <2>5
  <2>7. value'[PutcSem] = value[PutcSem] /\ value'[GetcSem] = value[GetcSem]
    BY <1>1, <2>1, <2>2
  <2>8. NoOutputDropped' /\ NoInputInvented'
    BY <1>2, <2>6, <2>7 DEF ConsoleInv, NoOutputDropped, NoInputInvented, PutConts, GetConts
  <2>9. \A s \in SemAddr : Elements(waiting'[s]) \subseteq Elements(waiting[s])
    BY <1>1, <2>1, <2>2 DEF Elements
  <2>10. ASSUME NEW u \in TCB,
                u \in Elements(asleep) \/ \E s \in SemAddr : u \in Elements(waiting[s])
         PROVE  at'[u] = at[u]
    <3>1. status[u] = "SUSPENDED"
      BY <2>10 DEF IInv, OneListPerThread
    <3>. QED  BY <2>1, <2>3, <3>1
  <2>11. BlockedWhere'
    <3>1. ASSUME NEW s \in SemAddr, NEW u \in Elements(waiting'[s])
          PROVE  at'[u] \in Where(s)
      <4>1. u \in Elements(waiting[s]) /\ u \in TCB
        BY <1>1, <2>9, ElementsType
      <4>. QED  BY <2>10, <4>1 DEF ConsoleInv, BlockedWhere, BlockedAt
    <3>2. ASSUME NEW u \in Elements(asleep')
          PROVE  at'[u] = At("sleep")
      <4>1. u \in Elements(asleep) /\ u \in TCB
        BY <1>1, <1>2, ElementsType
      <4>. QED  BY <2>10, <4>1 DEF ConsoleInv, BlockedWhere, BlockedAt
    <3>. QED  BY <3>1, <3>2 DEF BlockedWhere, BlockedAt
  <2>. QED  BY <2>8, <2>11 DEF ConsoleInv
<1>4. CASE ~\E t \in Workers : status[t] = "FREE"
  <2>1. UNCHANGED <<status, at, value, waiting>>
    BY <1>4 DEF ThreadCreate, semVars
  <2>2. \A P : Granted(P)' = Granted(P)
    BY <2>1 DEF Granted
  <2>. QED  BY <1>2, <2>1, <2>2
            DEF ConsoleInv, BlockedWhere, NoOutputDropped, NoInputInvented
<1>. QED  BY <1>3, <1>4

LEMMA ThreadExitConsole ==
  ASSUME IInv, IInv', ConsoleInv, ThreadExit, current # MainTcb
  PROVE  ConsoleInv'
<1>. DEFINE w     == waiting[current]
            freed == [status EXCEPT ![current] = "FREE"]
            st    == MakeReady(freed, w)
            queue == ready \o w
            saved == [at EXCEPT ![current] = At("start")]
<1>1. /\ current \in TCB /\ status[current] = "RUNNING" /\ ready \in Seq(TCB)
      /\ status \in [TCB -> Status] /\ at \in [TCB -> Continuation]
      /\ waiting \in [SemAddr -> Seq(TCB)] /\ value \in [SemAddr -> Int]
  BY DEF IInv, TypeOK, SchedulerNeverDry
<1>2. /\ Close(current)
      /\ Switch(st, queue, At("start"), timer_ticks, getc_buffer)
      /\ asleep' = asleep
  BY DEF ThreadExit, StatusFreed, sleepVars
<1>3. /\ current \in SemAddr /\ current # PutcSem /\ current # GetcSem
      /\ PutcSem \in SemAddr /\ GetcSem \in SemAddr
  BY <1>1, OtherSem
<1>4. /\ w \in Seq(TCB) /\ Distinct(w)
      /\ \A t \in Elements(w) : t \in TCB /\ status[t] = "SUSPENDED"
  BY <1>1, <1>3, ElementsType DEF IInv, OneListPerThread
<1>5. \A t \in Elements(w) : at[t] \notin PutConts /\ at[t] \notin GetConts
  BY <1>3, WakingWhere DEF ConsoleInv
<1>6. /\ \A r \in SemAddr : Elements(waiting'[r]) \subseteq Elements(waiting[r])
      /\ \A r \in SemAddr : r # current => value'[r] = value[r]
  BY <1>1, <1>2, <1>3 DEF Close, Elements
<1>. HIDE DEF w
<1>7. /\ \A t \in TCB : st[t] = IF t \in Elements(w) THEN "READY"
                                ELSE IF t = current THEN "FREE" ELSE status[t]
      /\ st = [t \in TCB |-> st[t]]
  BY <1>1 DEF MakeReady
<1>8. \A t \in TCB : saved[t] = IF t = current THEN At("start") ELSE at[t]
  BY <1>1
<1>9. queue \in Seq(TCB) /\ Elements(queue) = Elements(ready) \cup Elements(w)
  BY <1>1, <1>4, ElementsConcat
<1>. HIDE DEF st, queue
<1>10. st[current] # "READY"
  BY <1>1, <1>4, <1>7
<1>11. Wakes(st, saved, w)
  BY <1>4, <1>7, <1>8, <1>10 DEF Wakes
<1>12. \A t \in Elements(queue) : st[t] = "READY"
  <2>1. \A t \in Elements(ready) : t \in TCB /\ status[t] = "READY"
    BY <1>1, ElementsType DEF IInv, OneListPerThread
  <2>. QED  BY <1>1, <1>4, <1>7, <1>9, <2>1
<1>13. BlockedAt(waiting', asleep', saved)
  BY <1>2, <1>6, <1>8, BlockedStay DEF ConsoleInv
<1>14. At("start") \in Continuation
  BY ContinuationType
<1>. QED  BY <1>2, <1>3, <1>5, <1>6, <1>7, <1>9, <1>10, <1>11, <1>12, <1>13, <1>14, BlockConsole

LEMMA TimeSleepConsole ==
  ASSUME IInv, IInv', ConsoleInv, NEW ticks \in 1..MaxSleep, TimeSleep(ticks)
  PROVE  ConsoleInv'
<1>. DEFINE st    == [status EXCEPT ![current] = "SUSPENDED"]
            saved == [at EXCEPT ![current] = At("sleep")]
            k     == Cardinality({i \in 1..Len(asleep) : \A j \in 1..i : ticks >= Until[j]})
            p     == SubSeq(asleep, 1, k)
            r     == SubSeq(asleep, k + 1, Len(asleep))
<1>1. /\ current \in TCB /\ status[current] = "RUNNING" /\ ready \in Seq(TCB)
      /\ status \in [TCB -> Status] /\ at \in [TCB -> Continuation]
      /\ asleep \in Seq(TCB) /\ waiting \in [SemAddr -> Seq(TCB)]
  BY DEF IInv, TypeOK, SchedulerNeverDry
<1>2. /\ Switch(st, ready, At("sleep"), timer_ticks, getc_buffer)
      /\ UNCHANGED <<value, waiting>>
  BY DEF TimeSleep, semVars
<1>3. asleep' = p \o <<current>> \o r
  BY DEF TimeSleep, PutToSleep
<1>4. k \in 0..Len(asleep)
  <2>. DEFINE before == {i \in 1..Len(asleep) : \A j \in 1..i : ticks >= Until[j]}
  <2>1. before \in SUBSET (1..Len(asleep))
    OBVIOUS
  <2>. HIDE DEF before
  <2>2. Cardinality(before) \in 0..Len(asleep)
    BY <1>1, <2>1, CountedPrefix
  <2>. QED  BY <2>2 DEF before
<1>. HIDE DEF k
<1>5. Elements(asleep') = Elements(asleep) \cup {current}
  <2>1. /\ p \in Seq(TCB) /\ r \in Seq(TCB)
        /\ Elements(asleep) = Elements(p) \cup Elements(r)
    BY <1>1, <1>4, ElementsSplit
  <2>. HIDE DEF p, r
  <2>. DEFINE u  == <<current>>
              pu == p \o u
  <2>2. u \in Seq(TCB) /\ Elements(u) = {current}
    BY <1>1 DEF Elements
  <2>. HIDE DEF u
  <2>3. pu \in Seq(TCB) /\ Elements(pu) = Elements(p) \cup {current}
    BY <2>1, <2>2, ElementsConcat
  <2>. HIDE DEF pu
  <2>4. Elements(pu \o r) = Elements(pu) \cup Elements(r)
    BY <2>1, <2>3, ElementsConcat
  <2>5. asleep' = pu \o r
    BY <1>3 DEF u, pu
  <2>. QED  BY <2>1, <2>3, <2>4, <2>5
<1>6. /\ \A t \in TCB : st[t] = IF t = current THEN "SUSPENDED" ELSE status[t]
      /\ st = [t \in TCB |-> st[t]]
  BY <1>1
<1>7. \A t \in TCB : saved[t] = IF t = current THEN At("sleep") ELSE at[t]
  BY <1>1
<1>. HIDE DEF st
<1>8. st[current] # "READY"
  BY <1>1, <1>6
<1>9. Wakes(st, saved, <<>>) /\ Elements(<<>>) = {}
  BY <1>6, <1>7, <1>8, WakesNobody
<1>10. \A t \in Elements(ready) : st[t] = "READY"
  <2>1. \A t \in Elements(ready) : t \in TCB /\ status[t] = "READY"
    BY <1>1, ElementsType DEF IInv, OneListPerThread
  <2>. QED  BY <1>1, <1>6, <2>1
<1>11. BlockedAt(waiting', asleep', saved)
  <2>1. ASSUME NEW s \in SemAddr, NEW t \in Elements(waiting[s])
        PROVE  saved[t] \in Where(s)
    <3>1. t \in TCB /\ t # current
      BY <1>1, ElementsType DEF IInv, OneListPerThread
    <3>. QED  BY <1>7, <3>1 DEF ConsoleInv, BlockedWhere, BlockedAt
  <2>2. ASSUME NEW t \in Elements(asleep'), t # current
        PROVE  saved[t] = At("sleep")
    <3>1. t \in TCB /\ t \in Elements(asleep)
      BY <1>1, <1>5, <2>2, ElementsType
    <3>. QED  BY <1>7, <2>2, <3>1 DEF ConsoleInv, BlockedWhere, BlockedAt
  <2>3. saved[current] = At("sleep")
    BY <1>1, <1>7
  <2>. QED  BY <1>2, <2>1, <2>2, <2>3 DEF BlockedAt
<1>12. At("sleep") \in Continuation
  BY ContinuationType
<1>. QED  BY <1>1, <1>2, <1>6, <1>8, <1>9, <1>10, <1>11, <1>12, BlockConsole

(* A dispatch that wakes nobody.                                           *)
LEMMA YieldConsole ==
  ASSUME IInv, IInv', ConsoleInv, NEW ticks,
         Dispatch(status, ready, ticks, getc_buffer),
         UNCHANGED <<waiting, asleep, value>>
  PROVE  ConsoleInv'
<1>. DEFINE w == <<>>
<1>1. ready \in Seq(TCB) /\ status \in [TCB -> Status] /\ getc_buffer \in Seq(Char)
  BY DEF IInv, TypeOK
<1>2. w \in Seq(TCB) /\ Distinct(w) /\ Elements(w) = {}
  BY DEF Distinct, Elements
<1>3. ready \o w = ready
  BY <1>1
<1>. HIDE DEF w
<1>4. MakeReady(status, w) = status
  BY <1>1, <1>2 DEF MakeReady
<1>5. Dispatch(MakeReady(status, w), ready \o w, ticks, getc_buffer)
  BY <1>3, <1>4
<1>. QED  BY <1>1, <1>2, <1>5, DispatchConsole

LEMMA TimerTickConsole ==
  ASSUME IInv, IInv', ConsoleInv, TimerTick
  PROVE  ConsoleInv'
<1>. DEFINE w == Due
<1>1. /\ asleep \in Seq(TCB) /\ getc_buffer \in Seq(Char)
      /\ current \in TCB
  BY DEF IInv, TypeOK, SchedulerNeverDry
<1>2. /\ asleep' = SubSeq(asleep, Len(w) + 1, Len(asleep))
      /\ UNCHANGED <<value, waiting>>
      /\ IF SliceOver(timer_ticks + 1)
           THEN Dispatch(MakeReady(status, w), ready \o w, timer_ticks + 1, getc_buffer)
           ELSE /\ status' = MakeReady(status, w)
                /\ UNCHANGED <<at, putc_buffer, getc_buffer>>
  BY DEF TimerTick, semVars, consoleVars
<1>3. PICK k \in 0..Len(asleep) : w = SubSeq(asleep, 1, k)
  <2>. DEFINE expired == {i \in 1..Len(asleep) : \A j \in 1..i : Ticked[asleep[j]] <= 0}
  <2>1. expired \in SUBSET (1..Len(asleep))
    OBVIOUS
  <2>2. Due = SubSeq(asleep, 1, Cardinality(expired))
    BY DEF Due
  <2>. HIDE DEF expired
  <2>. QED  BY <1>1, <2>1, <2>2, CountedPrefix
<1>. HIDE DEF w
<1>4. /\ w \in Seq(TCB) /\ Distinct(w)
      /\ Elements(w) \subseteq Elements(asleep)
      /\ Elements(asleep') \subseteq Elements(asleep)
  <2>. DEFINE p == SubSeq(asleep, 1, k)
              r == SubSeq(asleep, k + 1, Len(asleep))
  <2>1. Distinct(asleep)
    BY DEF IInv, OneListPerThread
  <2>2. /\ p \in Seq(TCB) /\ Len(p) = k /\ Distinct(p)
        /\ Elements(asleep) = Elements(p) \cup Elements(r)
    BY <1>1, <2>1, ElementsSplit
  <2>. QED  BY <1>2, <1>3, <2>2
<1>5. \A t \in Elements(w) : status[t] = "SUSPENDED"
  <2>1. \A t \in Elements(asleep) : t \in TCB /\ status[t] = "SUSPENDED"
    BY <1>1, ElementsType DEF IInv, OneListPerThread
  <2>. QED  BY <1>4, <2>1
<1>6. \A t \in Elements(w) : at[t] \notin PutConts /\ at[t] \notin GetConts
  BY <1>4, WakingWhere DEF ConsoleInv
<1>7. CASE SliceOver(timer_ticks + 1)
  BY <1>1, <1>2, <1>4, <1>5, <1>6, <1>7, DispatchConsole
<1>8. CASE ~SliceOver(timer_ticks + 1)
  BY <1>2, <1>4, <1>5, <1>6, <1>8, ResumeConsole
<1>. QED  BY <1>7, <1>8

LEMMA StepConsole ==
  ASSUME IInv, IInv', ValueCountsWaiters, ConsoleInv, [Next]_vars
  PROVE  ConsoleInv'
<1>1. /\ TCB \subseteq SemAddr /\ Sem \subseteq SemAddr
      /\ PutcSem \in SemAddr /\ GetcSem \in SemAddr
      /\ {PutcSem, GetcSem} \subseteq open
      /\ waiting \in [SemAddr -> Seq(TCB)] /\ value \in [SemAddr -> Int]
      /\ status \in [TCB -> Status]
  BY DEF SemAddr, IInv, TypeOK, OneListPerThread
<1>2. ASSUME UNCHANGED <<status, at, value, waiting, asleep, putc_buffer, getc_buffer>>
      PROVE  ConsoleInv'
  <2>1. \A P : Granted(P)' = Granted(P)
    BY <1>2 DEF Granted
  <2>. QED  BY <1>2, <2>1 DEF ConsoleInv, BlockedWhere, NoOutputDropped, NoInputInvented
<1>3. CASE ThreadCreate
  BY <1>3, ThreadCreateConsole
<1>4. CASE ThreadExit
  <2>1. CASE current # MainTcb
    BY <1>4, <2>1, ThreadExitConsole
  <2>2. CASE current = MainTcb
    BY <1>2, <1>4, <2>2 DEF ThreadExit, threadVars, semVars, sleepVars, consoleVars
  <2>. QED  BY <2>1, <2>2
<1>5. CASE ThreadDispatch
  BY <1>5, YieldConsole DEF ThreadDispatch, semVars, sleepVars
<1>6. CASE \E t \in Workers : ThreadJoin(t)
  <2>1. PICK t \in Workers : ThreadJoin(t)
    BY <1>6
  <2>2. t \in SemAddr /\ At("join") \in Where(t)
    BY OtherSem DEF Workers
  <2>3. CASE t \in open
    BY <2>1, <2>2, <2>3, WaitConsole DEF ThreadJoin
  <2>4. CASE t \notin open
    BY <1>2, <2>1, <2>4 DEF ThreadJoin, threadVars, semVars, sleepVars, consoleVars
  <2>. QED  BY <2>3, <2>4
<1>7. CASE \E s \in Sem, init \in 0..MaxInit : SemOpen(s, init)
  <2>1. PICK s \in Sem, init \in 0..MaxInit : SemOpen(s, init)
    BY <1>7
  <2>2. /\ value' = [value EXCEPT ![s] = init]
        /\ waiting' = [waiting EXCEPT ![s] = <<>>]
        /\ UNCHANGED <<status, at, asleep, putc_buffer, getc_buffer>>
    BY <2>1 DEF SemOpen, threadVars, sleepVars, consoleVars
  <2>3. value'[PutcSem] = value[PutcSem] /\ value'[GetcSem] = value[GetcSem]
    BY <1>1, <2>2, OtherSem
  <2>4. \A P : Granted(P)' = Granted(P)
    BY <2>2 DEF Granted
  <2>5. NoOutputDropped' /\ NoInputInvented'
    BY <2>2, <2>3, <2>4 DEF ConsoleInv, NoOutputDropped, NoInputInvented
  <2>6. \A r \in SemAddr : Elements(waiting'[r]) \subseteq Elements(waiting[r])
    BY <1>1, <2>2 DEF Elements
  <2>7. BlockedWhere'
    BY <2>2, <2>6, BlockedStay DEF ConsoleInv, BlockedWhere
  <2>. QED  BY <2>5, <2>7 DEF ConsoleInv
<1>8. CASE \E s \in Sem : SemClose(s)
  <2>1. PICK s \in Sem : SemClose(s)
    BY <1>8
  <2>. DEFINE w == waiting[s]
  <2>2. s \in SemAddr /\ s # PutcSem /\ s # GetcSem
    BY OtherSem
  <2>3. /\ w \in Seq(TCB) /\ Distinct(w)
        /\ \A t \in Elements(w) : status[t] = "SUSPENDED"
    BY <1>1, <2>2, ElementsType DEF IInv, OneListPerThread
  <2>4. \A t \in Elements(w) : at[t] \notin PutConts /\ at[t] \notin GetConts
    BY <2>2, WakingWhere DEF ConsoleInv
  <2>5. /\ status' = MakeReady(status, w)
        /\ UNCHANGED <<at, asleep, putc_buffer, getc_buffer>>
        /\ waiting' = [waiting EXCEPT ![s] = <<>>]
        /\ value' = [value EXCEPT ![s] = 0]
    BY <2>1 DEF SemClose, Close, sleepVars, consoleVars
  <2>6. value'[PutcSem] = value[PutcSem] /\ value'[GetcSem] = value[GetcSem]
    BY <1>1, <2>2, <2>5
  <2>7. \A r \in SemAddr : Elements(waiting'[r]) \subseteq Elements(waiting[r])
    BY <1>1, <2>5 DEF Elements
  <2>. HIDE DEF w
  <2>. QED  BY <2>3, <2>4, <2>5, <2>6, <2>7, ResumeConsole
<1>9. CASE \E s \in Sem : SemWait(s)
  <2>1. PICK s \in Sem : SemWait(s)
    BY <1>9
  <2>2. s \in SemAddr /\ At("wait") \in Where(s)
    BY OtherSem
  <2>. QED  BY <2>1, <2>2, WaitConsole DEF SemWait
<1>10. CASE \E s \in Sem : SemSignal(s)
  <2>1. PICK s \in Sem : SemSignal(s)
    BY <1>10
  <2>. DEFINE w == Unblocked(s, 1)
  <2>2. s \in SemAddr /\ s # PutcSem /\ s # GetcSem /\ s \in open /\ 1 \in Nat
    BY <2>1, OtherSem DEF SemSignal
  <2>3. /\ Signal(s, 1)
        /\ status' = MakeReady(status, w)
        /\ UNCHANGED <<at, asleep, putc_buffer, getc_buffer>>
    BY <2>1 DEF SemSignal, sleepVars, consoleVars
  <2>4. /\ w \in Seq(TCB) /\ Distinct(w)
        /\ Elements(w) \subseteq Elements(waiting[s])
        /\ \A t \in Elements(w) : status[t] = "SUSPENDED"
        /\ \A r \in SemAddr : r # s => value'[r] = value[r]
        /\ \A r \in SemAddr : Elements(waiting'[r]) \subseteq Elements(waiting[r])
    BY <2>2, <2>3, SignalResumes
  <2>. HIDE DEF w
  <2>5. \A t \in Elements(w) : at[t] \notin PutConts /\ at[t] \notin GetConts
    BY <2>2, <2>4, WakingWhere DEF ConsoleInv
  <2>6. value'[PutcSem] = value[PutcSem] /\ value'[GetcSem] = value[GetcSem]
    BY <1>1, <2>2, <2>4
  <2>. QED  BY <2>3, <2>4, <2>5, <2>6, ResumeConsole
<1>11. CASE \E ticks \in 1..MaxSleep : TimeSleep(ticks)
  BY <1>11, TimeSleepConsole
<1>12. CASE Getc
  <2>1. At("getc") \in Where(GetcSem)
    BY SemAssumption DEF Where, GetConts
  <2>. QED  BY <1>1, <1>12, <2>1, WaitConsole DEF Getc
<1>13. CASE \E c \in Char : Putc(c)
  <2>1. PICK c \in Char : Putc(c)
    BY <1>13
  <2>2. Putting(c) \in PutConts
    BY DEF PutConts
  <2>3. Putting(c) \in Where(PutcSem)
    BY <2>2, SemAssumption DEF Where
  <2>. QED  BY <1>1, <2>1, <2>3, WaitConsole DEF Putc
<1>14. CASE TimerTick
  BY <1>14, TimerTickConsole
<1>15. CASE \E c \in Char : ConsoleInterrupt(c)
  BY <1>15, ConsoleInterruptConsole
<1>16. CASE \E n \in 0..IO_BUFFER_SIZE : FlushPutc(n)
  BY <1>16, FlushPutcConsole
<1>17. CASE FlushDispatch
  BY <1>17, YieldConsole DEF FlushDispatch, semVars, sleepVars
<1>18. CASE UNCHANGED vars
  BY <1>2, <1>18 DEF vars, threadVars, semVars, sleepVars, consoleVars
<1>. QED  BY <1>3, <1>4, <1>5, <1>6, <1>7, <1>8, <1>9, <1>10, <1>11, <1>12, <1>13,
             <1>14, <1>15, <1>16, <1>17, <1>18 DEF Next

LEMMA InitConsole == Init => ConsoleInv
<1>. SUFFICES ASSUME Init PROVE ConsoleInv
  OBVIOUS
<1>1. Elements(<<>>) = {} /\ Len(<<>>) = 0
  BY DEF Elements
<1>2. BlockedWhere
  BY <1>1 DEF Init, BlockedWhere, BlockedAt
<1>3. \A t \in TCB : status[t] = "READY" => at[t] = At("start")
  BY ThreadAssumption DEF Init
<1>4. Granted(PutConts) = {} /\ Granted(GetConts) = {}
  <2>1. At("start") \notin PutConts /\ At("start") \notin GetConts
    BY ContinuationsDiffer
  <2>. QED  BY <1>3, <2>1 DEF Granted
<1>5. Cardinality({}) = 0
  BY FS_EmptySet
<1>6. /\ PositivePart(value[PutcSem]) = IO_BUFFER_SIZE
      /\ PositivePart(value[GetcSem]) = 0
  BY SemAssumption, SizeAssumption DEF Init, SemAddr, PositivePart
<1>7. NoOutputDropped
  <2>1. Len(putc_buffer) = 0 /\ Cardinality(Granted(PutConts)) = 0 /\ IO_BUFFER_SIZE \in Nat
    BY <1>1, <1>4, <1>5, SizeAssumption DEF Init
  <2>. QED  BY <1>6, <2>1 DEF NoOutputDropped, PutConts
<1>8. NoInputInvented
  <2>1. Len(getc_buffer) = 0 /\ Cardinality(Granted(GetConts)) = 0
    BY <1>1, <1>4, <1>5 DEF Init
  <2>. QED  BY <1>6, <2>1 DEF NoInputInvented, GetConts
<1>. QED  BY <1>2, <1>7, <1>8 DEF ConsoleInv

LEMMA ConsoleInvariant == Spec => []ConsoleInv
<1>1. IInv /\ IInv' /\ ValueCountsWaiters /\ ConsoleInv /\ [Next]_vars => ConsoleInv'
  BY StepConsole
<1>. QED  BY <1>1, InitConsole, Invariant, SemaphoresCount, PTL DEF Spec

(* putc_sem counts the free places of putc_buffer exactly, those promised  *)
(* to a putc that is on its way included: Queue::put never finds the       *)
(* buffer full and no character is dropped.                                *)
THEOREM OutputNeverDropped == Spec => []NoOutputDropped
<1>1. ConsoleInv => NoOutputDropped
  BY DEF ConsoleInv
<1>. QED  BY <1>1, ConsoleInvariant, PTL

(* getc_sem counts the characters of getc_buffer that no getc was promised *)
(* yet: Queue::get never finds the buffer empty and no character is made   *)
(* up.                                                                     *)
THEOREM InputNeverInvented == Spec => []NoInputInvented
<1>1. ConsoleInv => NoInputInvented
  BY DEF ConsoleInv
<1>. QED  BY <1>1, ConsoleInvariant, PTL

-----------------------------------------------------------------------------
(* The results of waits.                                                   *)

(* A thread that is to go on in sem_wait is in a list of TCBs.             *)
WaitersListed(st, a) == \A t \in TCB : a[t] = At("wait") => st[t] \in {"READY", "SUSPENDED"}

LEMMA SwitchAnswers ==
  ASSUME IInv, IInv', WaitersListed(status, at),
         NEW st \in [TCB -> Status], NEW queue \in Seq(TCB), NEW cont, NEW ticks, NEW input,
         Switch(st, queue, cont, ticks, input),
         WaitersListed(st, [at EXCEPT ![current] = cont])
  PROVE  /\ WaitersListed(status, at)'
         /\ \A t \in TCB : at[t] = At("wait") /\ at'[t] # At("wait") =>
              /\ t # current /\ t = Head(queue) /\ queue # <<>>
              /\ current' = t
              /\ a0' = IF interrupted[t] THEN FAILED ELSE SUCCESS
<1>. DEFINE next  == Head(queue)
            saved == [at EXCEPT ![current] = cont]
<1>1. /\ current \in TCB /\ NULL \notin TCB /\ at \in [TCB -> Continuation]
      /\ status[current] = "RUNNING" /\ current' \in TCB
  BY ThreadAssumption DEF IInv, TypeOK, SchedulerNeverDry
<1>2. queue # <<>>
  BY <1>1 DEF Switch
<1>3. /\ current' = next
      /\ status' = [st EXCEPT ![next] = "RUNNING"]
      /\ at' = [saved EXCEPT ![next] = At("code")]
      /\ Finish(next, saved[next], TRUE, input)
  BY <1>2 DEF Switch
<1>4. next \in TCB
  BY <1>2
<1>5. /\ At("code") # At("wait") /\ At("wait").place = "wait"
  BY DEF At
<1>6. at[current] # At("wait")
  BY <1>1 DEF WaitersListed
<1>7. WaitersListed(status', at')
  BY <1>1, <1>3, <1>4, <1>5 DEF WaitersListed
<1>8. ASSUME NEW t \in TCB, at[t] = At("wait"), at'[t] # At("wait")
      PROVE  /\ t # current /\ t = next /\ current' = t
             /\ a0' = IF interrupted[t] THEN FAILED ELSE SUCCESS
  <2>1. t # current /\ saved[t] = At("wait")
    BY <1>1, <1>6, <1>8
  <2>2. t = next
    BY <1>1, <1>3, <1>4, <1>8, <2>1
  <2>. QED  BY <1>3, <1>5, <2>1, <2>2 DEF Finish
<1>. QED  BY <1>2, <1>7, <1>8 DEF WaitersListed

(* What sem_wait returns when the thread goes on.                          *)
Answered ==
  \A t \in TCB : at[t] = At("wait") /\ at'[t] # At("wait") =>
    /\ current' = t
    /\ a0' = IF interrupted'[t] THEN FAILED ELSE SUCCESS

LEMMA DispatchAnswers ==
  ASSUME IInv, IInv', WaitersListed(status, at), NEW q \in Seq(TCB),
         \A t \in TCB : at[t] = At("wait") => interrupted'[t] = interrupted[t],
         NEW ticks, NEW input,
         Dispatch(MakeReady(status, q), ready \o q, ticks, input)
  PROVE  WaitersListed(status, at)' /\ Answered
<1>. DEFINE st    == [MakeReady(status, q) EXCEPT ![current] = "READY"]
            queue == Append(ready \o q, current)
<1>1. /\ current \in TCB /\ status \in [TCB -> Status] /\ ready \in Seq(TCB)
      /\ at \in [TCB -> Continuation]
  BY DEF IInv, TypeOK, SchedulerNeverDry
<1>2. /\ st \in [TCB -> Status] /\ queue \in Seq(TCB)
      /\ \A t \in TCB : st[t] = IF t = current \/ t \in Elements(q) THEN "READY" ELSE status[t]
  BY <1>1 DEF MakeReady, Status
<1>3. Switch(st, queue, At("code"), ticks, input)
  BY DEF Dispatch
<1>4. WaitersListed(st, [at EXCEPT ![current] = At("code")])
  <2>1. At("code") # At("wait")
    BY DEF At
  <2>. HIDE DEF st
  <2>. QED  BY <1>1, <1>2, <2>1 DEF WaitersListed
<1>. HIDE DEF st, queue
<1>. QED  BY <1>2, <1>3, <1>4, SwitchAnswers DEF Answered

LEMMA WaitAnswers ==
  ASSUME IInv, IInv', WaitersListed(status, at), NEW s \in SemAddr, NEW cont, Wait(s, cont)
  PROVE  WaitersListed(status, at)' /\ Answered
<1>. DEFINE st == [status EXCEPT ![current] = "SUSPENDED"]
<1>1. /\ current \in TCB /\ status \in [TCB -> Status] /\ ready \in Seq(TCB)
      /\ at \in [TCB -> Continuation]
  BY DEF IInv, TypeOK, SchedulerNeverDry
<1>2. CASE value[s] - 1 < 0
  <2>1. Switch(st, ready, cont, timer_ticks, getc_buffer) /\ interrupted' = interrupted
    BY <1>2 DEF Wait
  <2>2. st \in [TCB -> Status] /\ WaitersListed(st, [at EXCEPT ![current] = cont])
    BY <1>1 DEF WaitersListed, Status
  <2>. HIDE DEF st
  <2>. QED  BY <1>1, <2>1, <2>2, SwitchAnswers DEF Answered
<1>3. CASE ~(value[s] - 1 < 0)
  BY <1>3 DEF Wait, threadVars, WaitersListed, Answered
<1>. QED  BY <1>2, <1>3

(* The threads an exit, a close or a signal makes ready go on where they   *)
(* were, and a switch in the same step is to none that waited.             *)
LEMMA StepAnswers ==
  ASSUME IInv, IInv', BlockedWhere, WaitersListed(status, at), Next
  PROVE  WaitersListed(status, at)' /\ Answered
<1>1. /\ current \in TCB /\ status \in [TCB -> Status] /\ ready \in Seq(TCB)
      /\ at \in [TCB -> Continuation] /\ waiting \in [SemAddr -> Seq(TCB)]
      /\ interrupted \in [TCB -> BOOLEAN] /\ status[current] = "RUNNING"
      /\ GetcSem \in SemAddr /\ PutcSem \in SemAddr /\ Sem \subseteq SemAddr
      /\ TCB \subseteq SemAddr
  BY DEF IInv, TypeOK, SchedulerNeverDry, SemAddr
<1>2. At("code") # At("wait") /\ At("start") # At("wait") /\ At("sleep") # At("wait")
        /\ At("getc") # At("wait")
  BY DEF At
<1>3. ASSUME at' = at, \A t \in TCB : status'[t] = status[t] \/ status'[t] = "READY"
      PROVE  WaitersListed(status, at)' /\ Answered
  BY <1>3 DEF WaitersListed, Answered
<1>4. ASSUME NEW q, status' = MakeReady(status, q), at' = at
      PROVE  WaitersListed(status, at)' /\ Answered
  BY <1>1, <1>3, <1>4 DEF MakeReady
<1>5. ASSUME NEW ticks, NEW input, Dispatch(status, ready, ticks, input), interrupted' = interrupted
      PROVE  WaitersListed(status, at)' /\ Answered
  <2>1. Elements(<<>>) = {} /\ <<>> \in Seq(TCB) /\ ready \o <<>> = ready
    BY <1>1 DEF Elements
  <2>2. MakeReady(status, <<>>) = status
    BY <1>1, <2>1 DEF MakeReady
  <2>. QED  BY <1>5, <2>1, <2>2, DispatchAnswers
<1>6. CASE ThreadCreate
  <2>1. CASE \E t \in Workers : status[t] = "FREE"
    <3>1. PICK t \in Workers : /\ status[t] = "FREE"
                               /\ status' = [status EXCEPT ![t] = "READY"]
                               /\ at' = [at EXCEPT ![t] = At("start")]
      BY <1>6, <2>1 DEF ThreadCreate
    <3>2. t \in TCB /\ at[t] # At("wait")
      BY <3>1 DEF Workers, WaitersListed
    <3>. QED  BY <1>1, <1>2, <3>1, <3>2 DEF WaitersListed, Answered
  <2>2. CASE ~\E t \in Workers : status[t] = "FREE"
    BY <1>3, <1>6, <2>2 DEF ThreadCreate
  <2>. QED  BY <2>1, <2>2
<1>7. CASE ThreadExit
  <2>1. CASE current # MainTcb
    <3>. DEFINE w     == waiting[current]
                st    == MakeReady(StatusFreed(status, current), w)
                queue == ready \o w
    <3>1. Close(current) /\ Switch(st, queue, At("start"), timer_ticks, getc_buffer)
            /\ current # FlushTcb
      BY <1>7, <2>1 DEF ThreadExit, Calling
    <3>2. w \in Seq(TCB) /\ queue \in Seq(TCB)
      BY <1>1, ElementsConcat
    <3>3. ready # <<>> /\ Head(queue) = Head(ready) /\ Head(ready) \in Elements(ready)
      <4>1. FlushTcb \in Elements(ready)
        BY <3>1, ThreadAssumption DEF IInv, SchedulerNeverDry, OneListPerThread
      <4>2. ready # <<>>
        BY <4>1 DEF Elements
      <4>. QED  BY <1>1, <3>2, <4>2 DEF Elements
    <3>4. Head(ready) \notin Elements(w)
      <4>1. \A t \in TCB : t \in Elements(w) => status[t] = "SUSPENDED"
        BY <1>1 DEF IInv, OneListPerThread
      <4>2. status[Head(ready)] = "READY" /\ Head(ready) \in TCB
        BY <1>1, <3>3 DEF IInv, OneListPerThread
      <4>. QED  BY <4>1, <4>2
    <3>5. st \in [TCB -> Status]
            /\ \A t \in TCB \ {current} : st[t] = status[t] \/ st[t] = "READY"
      BY <1>1 DEF MakeReady, StatusFreed, Status
    <3>6. \A t \in TCB : t \notin Elements(w) => interrupted'[t] = interrupted[t]
      BY <1>1, <3>1 DEF Close
    <3>. HIDE DEF st, queue, w
    <3>7. WaitersListed(st, [at EXCEPT ![current] = At("start")])
      BY <1>1, <1>2, <3>5 DEF WaitersListed
    <3>. QED  BY <3>1, <3>2, <3>3, <3>4, <3>5, <3>6, <3>7, SwitchAnswers DEF Answered
  <2>2. CASE current = MainTcb
    BY <1>3, <1>7, <2>2 DEF ThreadExit, threadVars
  <2>. QED  BY <2>1, <2>2
<1>8. CASE ThreadDispatch \/ FlushDispatch
  BY <1>5, <1>8 DEF ThreadDispatch, FlushDispatch, semVars
<1>9. CASE \E t \in Workers : ThreadJoin(t)
  <2>1. PICK t \in Workers : ThreadJoin(t)
    BY <1>9
  <2>2. t \in SemAddr
    BY <1>1 DEF Workers
  <2>. QED  BY <1>3, <2>1, <2>2, WaitAnswers DEF ThreadJoin, threadVars
<1>10. CASE \E s \in Sem, init \in 0..MaxInit : SemOpen(s, init)
  BY <1>3, <1>10 DEF SemOpen, threadVars
<1>11. CASE \E s \in Sem : SemClose(s) \/ SemSignal(s)
  BY <1>4, <1>11 DEF SemClose, SemSignal
<1>12. CASE (\E s \in Sem : SemWait(s)) \/ Getc \/ \E c \in Char : Putc(c)
  BY <1>1, <1>12, WaitAnswers DEF SemWait, Getc, Putc
<1>13. CASE \E ticks \in 1..MaxSleep : TimeSleep(ticks)
  <2>. DEFINE st == [status EXCEPT ![current] = "SUSPENDED"]
  <2>1. Switch(st, ready, At("sleep"), timer_ticks, getc_buffer) /\ interrupted' = interrupted
    BY <1>13 DEF TimeSleep, semVars
  <2>2. st \in [TCB -> Status] /\ WaitersListed(st, [at EXCEPT ![current] = At("sleep")])
    BY <1>1, <1>2 DEF WaitersListed, Status
  <2>. HIDE DEF st
  <2>. QED  BY <1>1, <2>1, <2>2, SwitchAnswers DEF Answered
<1>14. CASE TimerTick
  <2>1. Due \in Seq(TCB) /\ interrupted' = interrupted
    BY <1>14, WokenType DEF TimerTick, semVars
  <2>2. CASE SliceOver(timer_ticks + 1)
    <3>1. Dispatch(MakeReady(status, Due), ready \o Due, timer_ticks + 1, getc_buffer)
      BY <1>14, <2>2 DEF TimerTick
    <3>. QED  BY <2>1, <3>1, DispatchAnswers
  <2>3. CASE ~(SliceOver(timer_ticks + 1))
    BY <1>4, <1>14, <2>3 DEF TimerTick
  <2>. QED  BY <2>2, <2>3
<1>15. CASE \E c \in Char : ConsoleInterrupt(c)
  <2>. DEFINE q == Unblocked(GetcSem, 1)
  <2>1. PICK c \in Char : ConsoleInterrupt(c)
    BY <1>15
  <2>2. /\ Dispatch(MakeReady(status, q), ready \o q, timer_ticks, Put(getc_buffer, c))
        /\ interrupted' = [t \in TCB |-> IF t \in Elements(q) THEN FALSE ELSE interrupted[t]]
    BY <2>1 DEF ConsoleInterrupt, Signal
  <2>3. q \in Seq(TCB)
    BY <1>1, WokenType
  <2>4. \A t \in Elements(q) : at[t] # At("wait")
    <3>1. PICK k \in 0..Len(waiting[GetcSem]) : q = SubSeq(waiting[GetcSem], 1, k)
      BY <1>1, UnblockedPrefix
    <3>2. Elements(q) \subseteq Elements(waiting[GetcSem])
      <4>1. waiting[GetcSem] \in Seq(TCB)
        BY <1>1
      <4>. HIDE DEF q
      <4>. QED  BY <3>1, <4>1, ElementsSplit
    <3>3. \A t \in Elements(waiting[GetcSem]) : at[t] \in Where(GetcSem)
      BY <1>1 DEF BlockedWhere, BlockedAt
    <3>4. Where(GetcSem) = {At("getc")}
      BY SemAssumption DEF Where, GetConts
    <3>. QED  BY <1>2, <3>2, <3>3, <3>4
  <2>. HIDE DEF q
  <2>. QED  BY <1>1, <2>2, <2>3, <2>4, DispatchAnswers
<1>16. CASE \E n \in 0..IO_BUFFER_SIZE : FlushPutc(n)
  BY <1>4, <1>16 DEF FlushPutc
<1>. QED  BY <1>6, <1>7, <1>8, <1>9, <1>10, <1>11, <1>12, <1>13, <1>14, <1>15, <1>16 DEF Next

(* cutOff, which follows the lists, is what the interrupted flags say.     *)
LEMMA SameCuts ==
  ASSUME UNCHANGED <<open, waiting, interrupted>>
  PROVE  Served = {} /\ CutNow = {} /\ open' \ open = {} /\ Cut' = Cut
  BY DEF Served, CutNow, Cut

LEMMA WaitCuts ==
  ASSUME IInv, NEW s \in SemAddr, NEW cont, Wait(s, cont)
  PROVE  Cut' = (Cut \ (Served \cup (open' \ open))) \cup CutNow
<1>1. /\ waiting \in [SemAddr -> Seq(TCB)] /\ current \in TCB
      /\ open' = open /\ interrupted' = interrupted /\ open \subseteq SemAddr
  BY DEF IInv, TypeOK, SchedulerNeverDry, Wait
<1>2. waiting' = waiting \/ waiting' = [waiting EXCEPT ![s] = Append(@, current)]
  BY DEF Wait
<1>3. \A r \in SemAddr : Elements(waiting[r]) \subseteq Elements(waiting'[r])
  <2>1. Elements(waiting[s]) \subseteq Elements(Append(waiting[s], current))
    BY <1>1, ElementsAppend
  <2>. QED  BY <1>1, <1>2, <2>1
<1>4. Served = {} /\ CutNow = {}
  BY <1>1, <1>3 DEF Served, CutNow
<1>. QED  BY <1>1, <1>4 DEF Cut

LEMMA SignalCuts ==
  ASSUME IInv, NEW s \in SemAddr, s \in open, NEW n \in Nat, Signal(s, n)
  PROVE  Cut' = (Cut \ (Served \cup (open' \ open))) \cup CutNow
<1>. DEFINE q == waiting[s]
            u == Unblocked(s, n)
<1>1. /\ waiting \in [SemAddr -> Seq(TCB)] /\ q \in Seq(TCB) /\ Distinct(q)
      /\ open \subseteq SemAddr /\ interrupted \in [TCB -> BOOLEAN]
  BY DEF IInv, TypeOK, OneListPerThread
<1>2. /\ waiting' = [waiting EXCEPT ![s] = SubSeq(q, Len(u) + 1, Len(q))]
      /\ interrupted' = [t \in TCB |-> IF t \in Elements(u) THEN FALSE ELSE interrupted[t]]
      /\ open' = open
  BY <1>1 DEF Signal
<1>3. PICK k \in 0..Len(q) : u = SubSeq(q, 1, k)
  BY <1>1, UnblockedPrefix
<1>. HIDE DEF q, u
<1>4. /\ Len(u) = k
      /\ Elements(q) = Elements(u) \cup Elements(SubSeq(q, k + 1, Len(q)))
      /\ Elements(u) \cap Elements(SubSeq(q, k + 1, Len(q))) = {}
  BY <1>1, <1>3, ElementsSplit
<1>5. Elements(waiting[s]) \ Elements(waiting'[s]) = Elements(u)
  BY <1>1, <1>2, <1>4 DEF q
<1>6. \A r \in SemAddr \ {s} : waiting'[r] = waiting[r]
  BY <1>1, <1>2
<1>7. Served = Elements(u) /\ CutNow = {}
  BY <1>1, <1>2, <1>5, <1>6 DEF Served, CutNow
<1>8. Cut' = Cut \ Elements(u)
  BY <1>1, <1>2 DEF Cut
<1>. QED  BY <1>2, <1>7, <1>8

LEMMA CloseCuts ==
  ASSUME IInv, NEW s \in SemAddr, s \in open, Close(s)
  PROVE  Cut' = (Cut \ (Served \cup (open' \ open))) \cup CutNow
<1>1. /\ waiting \in [SemAddr -> Seq(TCB)] /\ waiting[s] \in Seq(TCB)
      /\ open \subseteq SemAddr /\ interrupted \in [TCB -> BOOLEAN]
  BY DEF IInv, TypeOK
<1>2. \A r \in SemAddr \ {s} : waiting'[r] = waiting[r]
  BY <1>1 DEF Close
<1>3. open' = open \ {s}
  BY DEF Close
<1>4. Served = {} /\ CutNow = Elements(waiting[s])
  BY <1>1, <1>2, <1>3 DEF Served, CutNow
<1>5. Cut' = Cut \cup Elements(waiting[s])
  BY <1>1, ElementsType DEF Cut, Close
<1>. QED  BY <1>3, <1>4, <1>5

LEMMA CreateCuts ==
  ASSUME IInv, NEW s \in SemAddr, s \notin open, open' = open \cup {s},
         waiting' = [waiting EXCEPT ![s] = <<>>], Cut' = Cut \ {s}
  PROVE  Cut' = (Cut \ (Served \cup (open' \ open))) \cup CutNow
<1>1. waiting \in [SemAddr -> Seq(TCB)] /\ open \subseteq SemAddr
  BY DEF IInv, TypeOK
<1>2. \A r \in open : waiting'[r] = waiting[r]
  BY <1>1
<1>3. Served = {} /\ CutNow = {} /\ open' \ open = {s}
  BY <1>2 DEF Served, CutNow
<1>. QED  BY <1>3

LEMMA StepCuts ==
  ASSUME IInv, Next
  PROVE  Cut' = (Cut \ (Served \cup (open' \ open))) \cup CutNow
<1>. DEFINE Follows == Cut' = (Cut \ (Served \cup (open' \ open))) \cup CutNow
<1>1. /\ TCB \subseteq SemAddr /\ Sem \subseteq SemAddr /\ Sem \cap TCB = {}
      /\ {PutcSem, GetcSem} \subseteq SemAddr /\ {PutcSem, GetcSem} \subseteq open
      /\ current \in TCB /\ status[current] = "RUNNING"
      /\ 0..IO_BUFFER_SIZE \subseteq Nat /\ interrupted \in [TCB -> BOOLEAN]
  BY SizeAssumption, SemAssumption DEF SemAddr, IInv, TypeOK, OneListPerThread, SchedulerNeverDry
<1>2. ASSUME UNCHANGED semVars PROVE Follows
  BY <1>2, SameCuts DEF semVars
<1>3. \A s \in SemAddr : \A cont : Wait(s, cont) => Follows
  BY WaitCuts
<1>4. \A s \in SemAddr, n \in Nat : s \in open /\ Signal(s, n) => Follows
  BY SignalCuts
<1>5. \A s \in SemAddr : s \in open /\ Close(s) => Follows
  BY CloseCuts
<1>6. CASE ThreadCreate
  <2>1. CASE \E t \in Workers : status[t] = "FREE"
    <3>1. PICK t \in Workers :
            /\ status[t] = "FREE"
            /\ interrupted' = [interrupted EXCEPT ![t] = FALSE]
            /\ open' = open \cup {t}
            /\ waiting' = [waiting EXCEPT ![t] = <<>>]
      BY <1>6, <2>1 DEF ThreadCreate
    <3>2. t \in TCB /\ t \in SemAddr /\ t \notin open
      BY <1>1, <3>1 DEF Workers, IInv, OneListPerThread
    <3>3. Cut' = Cut \ {t}
      BY <1>1, <3>1, <3>2 DEF Cut
    <3>. QED  BY <3>1, <3>2, <3>3, CreateCuts
  <2>2. CASE ~\E t \in Workers : status[t] = "FREE"
    BY <1>2, <1>6, <2>2 DEF ThreadCreate
  <2>. QED  BY <2>1, <2>2
<1>7. CASE ThreadExit
  <2>1. CASE current # MainTcb
    <3>1. current \in open
      BY <1>1, <2>1 DEF IInv, OneListPerThread
    <3>. QED  BY <1>1, <1>5, <1>7, <2>1, <3>1 DEF ThreadExit
  <2>2. CASE current = MainTcb
    BY <1>2, <1>7, <2>2 DEF ThreadExit
  <2>. QED  BY <2>1, <2>2
<1>8. CASE ThreadDispatch \/ FlushDispatch \/ TimerTick
             \/ \E ticks \in 1..MaxSleep : TimeSleep(ticks)
  BY <1>2, <1>8 DEF ThreadDispatch, FlushDispatch, TimerTick, TimeSleep
<1>9. CASE \E t \in Workers : ThreadJoin(t)
  <2>1. PICK t \in Workers : ThreadJoin(t)
    BY <1>9
  <2>2. t \in SemAddr
    BY <1>1 DEF Workers
  <2>. QED  BY <1>2, <1>3, <2>1, <2>2 DEF ThreadJoin
<1>10. CASE \E s \in Sem, init \in 0..MaxInit : SemOpen(s, init)
  <2>1. PICK s \in Sem, init \in 0..MaxInit : SemOpen(s, init)
    BY <1>10
  <2>2. Cut' = Cut /\ s \notin Cut
    BY <1>1, <2>1 DEF SemOpen, Cut
  <2>. QED  BY <1>1, <2>1, <2>2, CreateCuts DEF SemOpen
<1>11. CASE \E s \in Sem : SemClose(s)
  BY <1>1, <1>5, <1>11 DEF SemClose
<1>12. CASE (\E s \in Sem : SemWait(s)) \/ Getc \/ \E c \in Char : Putc(c)
  BY <1>1, <1>3, <1>12 DEF SemWait, Getc, Putc
<1>13. CASE (\E s \in Sem : SemSignal(s)) \/ \E c \in Char : ConsoleInterrupt(c)
  BY <1>1, <1>4, <1>13 DEF SemSignal, ConsoleInterrupt
<1>14. CASE \E n \in 0..IO_BUFFER_SIZE : FlushPutc(n)
  BY <1>1, <1>4, <1>14 DEF FlushPutc
<1>. QED  BY <1>6, <1>7, <1>8, <1>9, <1>10, <1>11, <1>12, <1>13, <1>14 DEF Next

(* A permit is only taken by a sem_wait that returns at once.              *)
PermitTaken ==
  \A s \in Sem \cap open \cap open' :
    value[s] > 0 /\ value'[s] < value[s] => a0' = SUCCESS

LEMMA StepTakes == ASSUME IInv, Next PROVE PermitTaken
<1>1. /\ value \in [SemAddr -> Int] /\ current \in TCB
      /\ TCB \subseteq SemAddr /\ Sem \subseteq SemAddr /\ Sem \cap TCB = {}
      /\ PutcSem \in SemAddr \ Sem /\ GetcSem \in SemAddr \ Sem
  BY SemAssumption DEF IInv, TypeOK, SchedulerNeverDry, SemAddr
<1>2. ASSUME \A s \in Sem \cap open \cap open' : value'[s] = value[s]
      PROVE  PermitTaken
  BY <1>1, <1>2 DEF PermitTaken
<1>3. ASSUME NEW r \in SemAddr \ Sem, NEW v, value' = [value EXCEPT ![r] = v]
      PROVE  PermitTaken
  BY <1>1, <1>2, <1>3
<1>4. \A r \in SemAddr \ Sem : \A cont : Wait(r, cont) => PermitTaken
  BY <1>3 DEF Wait
<1>5. CASE ThreadCreate
  BY <1>1, <1>2, <1>3, <1>5 DEF ThreadCreate, semVars, Workers
<1>6. CASE ThreadExit
  BY <1>1, <1>2, <1>3, <1>6 DEF ThreadExit, Close, semVars
<1>7. CASE ThreadDispatch \/ FlushDispatch \/ TimerTick
             \/ \E ticks \in 1..MaxSleep : TimeSleep(ticks)
  BY <1>2, <1>7 DEF ThreadDispatch, FlushDispatch, TimerTick, TimeSleep, semVars
<1>8. CASE \E t \in Workers : ThreadJoin(t)
  BY <1>1, <1>2, <1>4, <1>8 DEF ThreadJoin, semVars, Workers
<1>9. CASE \E s \in Sem, init \in 0..MaxInit : SemOpen(s, init)
  BY <1>1, <1>2, <1>9 DEF SemOpen
<1>10. CASE \E s \in Sem : SemClose(s)
  BY <1>1, <1>2, <1>10 DEF SemClose, Close
<1>11. CASE \E s \in Sem : SemSignal(s)
  BY <1>1, <1>11 DEF SemSignal, Signal, PermitTaken
<1>12. CASE \E s \in Sem : SemWait(s)
  <2>1. PICK s \in Sem : SemWait(s)
    BY <1>12
  <2>2. Wait(s, At("wait")) /\ value[s] \in Int
    BY <1>1, <2>1 DEF SemWait
  <2>3. \A r \in SemAddr \ {s} : value'[r] = value[r]
    BY <1>1, <2>2 DEF Wait
  <2>4. ASSUME value[s] > 0 PROVE a0' = SUCCESS
    <3>1. ~(value[s] - 1 < 0)
      BY <2>2, <2>4
    <3>2. Finish(current, At("wait"), FALSE, getc_buffer)
      BY <2>2, <3>1, Zenon DEF Wait
    <3>. QED  BY <3>2 DEF Finish, At
  <2>5. \A r \in Sem : r # s => ~(value'[r] < value[r])
    BY <1>1, <2>3
  <2>. QED  BY <2>4, <2>5 DEF PermitTaken
<1>13. CASE Getc \/ \E c \in Char : Putc(c)
  BY <1>1, <1>4, <1>13 DEF Getc, Putc
<1>14. CASE \E c \in Char : ConsoleInterrupt(c)
  BY <1>1, <1>3, <1>14 DEF ConsoleInterrupt, Signal
<1>15. CASE \E n \in 0..IO_BUFFER_SIZE : FlushPutc(n)
  BY <1>1, <1>3, <1>15 DEF FlushPutc, Signal
<1>. QED  BY <1>5, <1>6, <1>7, <1>8, <1>9, <1>10, <1>11, <1>12, <1>13, <1>14, <1>15 DEF Next

WaitInv == cutOff = Cut /\ WaitersListed(status, at)

(* A wait fails if and only if its semaphore was closed under it, though   *)
(* the flag that tells so outlives the wait.                               *)
THEOREM WaitsHaveResults == WaitSpec => WaitsAnswered
<1>. DEFINE Results ==
       /\ \A t \in TCB : at[t] = At("wait") /\ at'[t] # At("wait") =>
            /\ current' = t
            /\ a0' = IF t \in cutOff' THEN FAILED ELSE SUCCESS
       /\ \A s \in Sem \cap open \cap open' :
            value[s] > 0 /\ value'[s] < value[s] => a0' = SUCCESS
<1>1. WaitInit => WaitInv
  <2>. SUFFICES ASSUME WaitInit PROVE WaitInv
    OBVIOUS
  <2>1. At("code") # At("wait") /\ At("start") # At("wait")
    BY DEF At
  <2>. QED  BY <2>1 DEF WaitInit, Init, WaitInv, Cut, WaitersListed
<1>2. IInv /\ IInv' /\ ConsoleInv /\ WaitInv /\ [WaitNext]_<<vars, cutOff>> =>
        WaitInv' /\ [Results]_<<vars, cutOff>>
  <2>. SUFFICES ASSUME IInv, IInv', ConsoleInv, WaitInv, [WaitNext]_<<vars, cutOff>>
                PROVE  WaitInv' /\ [Results]_<<vars, cutOff>>
    OBVIOUS
  <2>1. CASE UNCHANGED <<vars, cutOff>>
    BY <2>1 DEF WaitInv, WaitersListed, Cut, vars, threadVars, semVars
  <2>2. CASE WaitNext
    <3>1. cutOff' = Cut'
      BY <2>2, StepCuts DEF WaitNext, WaitInv
    <3>2. WaitersListed(status, at)' /\ Answered
      BY <2>2, StepAnswers DEF WaitNext, WaitInv, ConsoleInv
    <3>3. PermitTaken
      BY <2>2, StepTakes DEF WaitNext
    <3>. QED  BY <3>1, <3>2, <3>3 DEF WaitInv, Answered, PermitTaken, Cut, Results
  <2>. QED  BY <2>1, <2>2
<1>3. WaitSpec => Spec
  <2>1. WaitInit => Init
    BY DEF WaitInit
  <2>2. [WaitNext]_<<vars, cutOff>> => [Next]_vars
    BY DEF WaitNext
  <2>. QED  BY <2>1, <2>2, PTL DEF WaitSpec, Spec
<1>. QED  BY <1>1, <1>2, <1>3, Invariant, ConsoleInvariant, PTL DEF WaitSpec, WaitsAnswered

-----------------------------------------------------------------------------
(* The time slice.                                                         *)

(* The thread that runs after a context switch starts its time slice, or   *)
(* it is another one; it is the same one when no other is ready.           *)
Restarted == current' # current \/ (ready = <<>> /\ timer_ticks' = 0)

(* The first of the ready queue, with whatever is put behind it.           *)
LEMMA FirstIsOther ==
  ASSUME IInv, NEW q \in Seq(TCB), ready # <<>>
  PROVE  /\ ready \o q # <<>> /\ Head(ready \o q) # current
         /\ Head(Append(ready \o q, current)) # current
<1>1. /\ ready \in Seq(TCB) /\ current \in TCB /\ status[current] = "RUNNING"
      /\ current \notin Elements(ready)
  BY DEF IInv, TypeOK, SchedulerNeverDry, OneListPerThread
<1>2. Head(ready) # current
  BY <1>1 DEF Elements
<1>3. ready \o q # <<>> /\ Head(ready \o q) = Head(ready) /\ ready \o q \in Seq(TCB)
  BY <1>1
<1>4. Head(Append(ready \o q, current)) = Head(ready \o q)
  <2>. DEFINE r == ready \o q
  <2>1. r \in Seq(TCB) /\ r # <<>>
    BY <1>3
  <2>. HIDE DEF r
  <2>2. Head(Append(r, current)) = Head(r)
    BY <1>1, <2>1
  <2>. QED  BY <2>2 DEF r
<1>. QED  BY <1>2, <1>3, <1>4

LEMMA SwitchRestarts ==
  ASSUME IInv, NEW st, NEW queue, NEW cont, NEW ticks, NEW input,
         Switch(st, queue, cont, ticks, input),
         ready # <<>> => queue # <<>> /\ Head(queue) # current,
         cont # At("start") \/ ready # <<>>
  PROVE  Restarted
<1>. DEFINE next  == Head(queue)
            saved == [at EXCEPT ![current] = cont]
<1>1. current \in TCB /\ NULL \notin TCB /\ at \in [TCB -> Continuation]
  BY ThreadAssumption DEF IInv, TypeOK, SchedulerNeverDry
<1>2. CASE queue = <<>>
  BY <1>1, <1>2 DEF Switch, Restarted
<1>3. CASE queue # <<>>
  <2>1. /\ current' = next
        /\ timer_ticks' = IF saved[next] = At("start") THEN ticks ELSE 0
    BY <1>3 DEF Switch
  <2>2. CASE ready # <<>>
    BY <2>1, <2>2 DEF Restarted
  <2>3. CASE ready = <<>>
    <3>1. next = current => saved[next] = cont
      BY <1>1
    <3>. HIDE DEF next, saved
    <3>. QED  BY <2>1, <2>3, <3>1 DEF Restarted
  <2>. QED  BY <2>2, <2>3
<1>. QED  BY <1>2, <1>3

LEMMA DispatchRestarts ==
  ASSUME IInv, NEW st, NEW q \in Seq(TCB), NEW ticks, NEW input,
         Dispatch(st, ready \o q, ticks, input)
  PROVE  Restarted
<1>1. At("code") # At("start")
  BY DEF At
<1>. DEFINE queue == Append(ready \o q, current)
<1>2. queue # <<>> /\ (ready # <<>> => Head(queue) # current)
  <2>1. ready \o q \in Seq(TCB) /\ current \in TCB
    BY DEF IInv, TypeOK, SchedulerNeverDry
  <2>2. queue # <<>>
    BY <2>1
  <2>. QED  BY <2>2, FirstIsOther
<1>. HIDE DEF queue
<1>. QED  BY <1>1, <1>2, SwitchRestarts DEF Dispatch, queue

(* With nothing put behind it.                                             *)
LEMMA ReadyAlone ==
  ASSUME IInv
  PROVE  /\ ready = ready \o <<>> /\ <<>> \in Seq(TCB)
         /\ ready # <<>> => Head(ready) # current
<1>1. ready \in Seq(TCB)
  BY DEF IInv, TypeOK
<1>2. ready = ready \o <<>> /\ <<>> \in Seq(TCB)
  BY <1>1
<1>3. ASSUME ready # <<>> PROVE Head(ready) # current
  BY <1>2, <1>3, FirstIsOther
<1>. QED  BY <1>2, <1>3

LEMMA WaitRestarts ==
  ASSUME IInv, NEW s, NEW cont, cont # At("start"), Wait(s, cont)
  PROVE  Restarted \/ timer_ticks' = timer_ticks
  BY SwitchRestarts, ReadyAlone DEF Wait, threadVars

(* A tick that switches nothing is within the slice.                       *)
LEMMA TickTicks ==
  ASSUME IInv, TimerTick
  PROVE  Restarted \/ (timer_ticks' = timer_ticks + 1 /\ timer_ticks + 1 < DEFAULT_TIME_SLICE)
<1>1. CASE SliceOver(timer_ticks + 1)
  BY <1>1, DispatchRestarts, WokenType DEF TimerTick
<1>2. CASE ~(SliceOver(timer_ticks + 1))
  <2>1. timer_ticks' = timer_ticks + 1
    BY <1>2 DEF TimerTick
  <2>2. timer_ticks + 1 < DEFAULT_TIME_SLICE
    BY <1>2, SizeAssumption DEF SliceOver, IInv, TypeOK
  <2>. QED  BY <2>1, <2>2
<1>. QED  BY <1>1, <1>2

(* Nothing but a tick or a switch changes timer_ticks.                     *)
LEMMA TicksOfAStep ==
  ASSUME IInv, [Next]_vars, ~TimerTick
  PROVE  Restarted \/ timer_ticks' = timer_ticks
<1>1. /\ At("wait") # At("start") /\ At("join") # At("start")
      /\ At("getc") # At("start") /\ At("sleep") # At("start")
      /\ \A c \in Char : Putting(c) # At("start")
  BY DEF At, Putting
<1>2. CASE ThreadExit
  <2>1. CASE current # MainTcb
    <3>. DEFINE st    == MakeReady(StatusFreed(status, current), waiting[current])
                queue == ready \o waiting[current]
    <3>1. Switch(st, queue, At("start"), timer_ticks, getc_buffer)
      BY <1>2, <2>1 DEF ThreadExit
    <3>2. /\ current \in SemAddr /\ ready \in Seq(TCB) /\ waiting[current] \in Seq(TCB)
          /\ status[current] = "RUNNING" /\ current \in TCB
      BY DEF IInv, TypeOK, SchedulerNeverDry, SemAddr
    <3>3. ready # <<>>
      <4>1. FlushTcb \in Elements(ready)
        BY <1>2, ThreadAssumption
        DEF ThreadExit, Calling, IInv, SchedulerNeverDry, OneListPerThread
      <4>. QED  BY <4>1 DEF Elements
    <3>4. queue # <<>> /\ Head(queue) # current
      BY <3>2, <3>3, FirstIsOther
    <3>. HIDE DEF st, queue
    <3>. QED  BY <3>1, <3>3, <3>4, SwitchRestarts
  <2>. QED  BY <1>2, <2>1 DEF ThreadExit, threadVars
<1>3. CASE ThreadCreate
  BY <1>3 DEF ThreadCreate
<1>4. CASE ThreadDispatch \/ FlushDispatch \/ \E c \in Char : ConsoleInterrupt(c)
  <2>1. CASE ThreadDispatch \/ FlushDispatch
    <3>1. Dispatch(status, ready \o <<>>, timer_ticks, getc_buffer)
      BY <2>1, ReadyAlone DEF ThreadDispatch, FlushDispatch
    <3>. QED  BY <3>1, DispatchRestarts, ReadyAlone
  <2>2. CASE \E c \in Char : ConsoleInterrupt(c)
    <3>1. Unblocked(GetcSem, 1) \in Seq(TCB)
      BY WokenType DEF SemAddr
    <3>. QED  BY <2>2, <3>1, DispatchRestarts DEF ConsoleInterrupt
  <2>. QED  BY <1>4, <2>1, <2>2
<1>5. CASE \E t \in Workers : ThreadJoin(t)
  BY <1>1, <1>5, WaitRestarts DEF ThreadJoin, threadVars
<1>6. CASE (\E s \in Sem : SemWait(s)) \/ Getc \/ \E c \in Char : Putc(c)
  BY <1>1, <1>6, WaitRestarts DEF SemWait, Getc, Putc
<1>7. CASE \E ticks \in 1..MaxSleep : TimeSleep(ticks)
  BY <1>1, <1>7, SwitchRestarts, ReadyAlone DEF TimeSleep
<1>8. CASE \/ \E s \in Sem, init \in 0..MaxInit : SemOpen(s, init)
           \/ \E s \in Sem : SemClose(s) \/ SemSignal(s)
           \/ \E n \in 0..IO_BUFFER_SIZE : FlushPutc(n)
           \/ UNCHANGED vars
  BY <1>8 DEF SemOpen, SemClose, SemSignal, FlushPutc, vars, threadVars
<1>. QED  BY <1>2, <1>3, <1>4, <1>5, <1>6, <1>7, <1>8 DEF Next

SliceInv ==
  /\ since \in Nat
  /\ since <= timer_ticks
  /\ since < DEFAULT_TIME_SLICE

(* A thread never has the CPU for longer than its time slice, whatever is  *)
(* woken, created or switched to in between, and though timer_ticks starts *)
(* for a new thread where the thread before it has left it.                *)
THEOREM SliceHolds == TimedSpec => []SliceNotExceeded
<1>1. TimedInit => IInv /\ SliceInv
  BY InitIInv, SizeAssumption DEF TimedInit, Init, SliceInv
<1>2. IInv /\ SliceInv /\ [TimedNext]_<<vars, since>> => IInv' /\ SliceInv'
  <2>. SUFFICES ASSUME IInv, SliceInv, [TimedNext]_<<vars, since>>
                PROVE  IInv' /\ SliceInv'
    OBVIOUS
  <2>1. [Next]_vars
    BY DEF TimedNext
  <2>2. IInv'
    BY <2>1, NextKeeps
  <2>3. timer_ticks \in Nat /\ timer_ticks' \in Nat
    BY <2>2 DEF IInv, TypeOK
  <2>4. CASE UNCHANGED <<vars, since>>
    BY <2>2, <2>4 DEF SliceInv, vars, threadVars
  <2>5. CASE TimedNext
    <3>1. since' = IF Restarted THEN 0
                   ELSE IF TimerTick THEN since + 1 ELSE since
      BY <2>5 DEF TimedNext, Restarted
    <3>2. since \in Nat /\ since <= timer_ticks /\ since < DEFAULT_TIME_SLICE
            /\ DEFAULT_TIME_SLICE \in Nat \ {0}
      BY SizeAssumption DEF SliceInv
    <3>3. SliceInv'
      <4>1. CASE Restarted
        BY <2>3, <3>1, <3>2, <4>1 DEF SliceInv
      <4>2. CASE ~Restarted /\ TimerTick
        <5>1. /\ timer_ticks' = timer_ticks + 1 /\ timer_ticks + 1 < DEFAULT_TIME_SLICE
              /\ since' = since + 1
          BY <3>1, <4>2, TickTicks
        <5>. QED  BY <2>3, <3>2, <5>1 DEF SliceInv
      <4>3. CASE ~Restarted /\ ~TimerTick
        <5>1. timer_ticks' = timer_ticks /\ since' = since
          BY <2>1, <3>1, <4>3, TicksOfAStep
        <5>. QED  BY <3>2, <5>1 DEF SliceInv
      <4>. QED  BY <4>1, <4>2, <4>3
    <3>. QED  BY <2>2, <3>3
  <2>. QED  BY <2>2, <2>4, <2>5
<1>3. SliceInv => SliceNotExceeded
  BY DEF SliceInv, SliceNotExceeded
<1>. QED  BY <1>1, <1>2, <1>3, PTL DEF TimedSpec

-----------------------------------------------------------------------------
(* The sleep queue.                                                        *)

(* Until is the sum of the relative times.                                 *)
UntilAddsUp ==
  /\ Until \in [0..Len(asleep) -> Nat]
  /\ Until[0] = 0
  /\ \A i \in 1..Len(asleep) : Until[i] = Until[i-1] + sleep_for[asleep[i]]

LEMMA UntilSums == TypeOK /\ NoSleepUnderflow => UntilAddsUp
<1>. SUFFICES ASSUME TypeOK, NoSleepUnderflow
              PROVE  UntilAddsUp
  OBVIOUS
<1>. DEFINE n    == Len(asleep)
            Adds(f) == f = [i \in 0..n |-> IF i = 0 THEN 0 ELSE f[i-1] + sleep_for[asleep[i]]]
            step == [i \in 1..n |-> [x \in Nat |-> x + sleep_for[asleep[i]]]]
<1>1. n \in Nat /\ \A i \in 1..n : sleep_for[asleep[i]] \in Nat
  BY SizeAssumption DEF TypeOK, NoSleepUnderflow
<1>2. step \in [1..n -> [Nat -> Nat]]
  BY <1>1
<1>3. PICK f : IsIterated(f, n, Nat, 0, step)
  <2>. HIDE DEF step, n
  <2>. QED  BY <1>1, <1>2, IterationExists
<1>4. /\ f \in [0..n -> Nat] /\ f[0] = 0
      /\ \A i \in 1..n : f[i] = f[i-1] + sleep_for[asleep[i]]
  <2>1. /\ f \in [0..n -> Nat] /\ f[0] = 0
        /\ \A i \in 1..n : f[i] = step[i][f[i-1]]
    BY <1>3 DEF IsIterated
  <2>2. \A i \in 1..n : i - 1 \in 0..n
    <3>. HIDE DEF n
    <3>. QED  BY <1>1
  <2>3. \A i \in 1..n : f[i-1] \in Nat
    <3>. HIDE DEF n
    <3>. QED  BY <2>1, <2>2
  <2>. QED  BY <1>1, <2>1, <2>3
<1>5. Adds(f)
  <2>1. \A i \in 0..n : f[i] = IF i = 0 THEN 0 ELSE f[i-1] + sleep_for[asleep[i]]
    BY <1>1, <1>4
  <2>. QED  BY <1>4, <2>1
<1>6. Until = CHOOSE g : Adds(g)
  BY DEF Until
<1>7. Adds(Until)
  BY <1>5, <1>6
<1>8. /\ Until[0] = 0
      /\ \A i \in 1..n : Until[i] = Until[i-1] + sleep_for[asleep[i]]
      /\ Until = [i \in 0..n |-> Until[i]]
  BY <1>1, <1>7
<1>9. Until \in [0..n -> Nat]
  <2>. DEFINE S == {i \in 0..n : Until[i] \in Nat}
  <2>1. 0 \in S
    BY <1>1, <1>8
  <2>2. ASSUME NEW i \in 0..n - 1, i \in S
        PROVE  i + 1 \in S
    <3>1. i + 1 \in 1..n /\ i + 1 \in 0..n
      BY <1>1
    <3>2. Until[i + 1] = Until[i + 1 - 1] + sleep_for[asleep[i + 1]]
      BY <1>8, <3>1
    <3>3. i + 1 - 1 = i
      BY <1>1
    <3>4. Until[i + 1 - 1] \in Nat /\ sleep_for[asleep[i + 1]] \in Nat
      BY <1>1, <2>2, <3>1, <3>3
    <3>. HIDE DEF n
    <3>. QED  BY <3>1, <3>2, <3>4
  <2>. HIDE DEF S
  <2>3. 0..n \subseteq S
    BY <1>1, <2>1, <2>2, IntervalInduction
  <2>4. \A i \in 0..n : Until[i] \in Nat
    BY <2>3 DEF S
  <2>. QED  BY <1>8, <2>4
<1>. QED  BY <1>8, <1>9 DEF UntilAddsUp

(* put_to_sleep: the place k of the new sleeper, its delta, and that of    *)
(* the sleeper it comes before.                                            *)
SleepsAt(k, ticks) ==
  /\ k \in 0..Len(asleep)
  /\ ticks \in Nat
  /\ ticks >= Until[k]
  /\ k < Len(asleep) => ticks < Until[k + 1]
  /\ k >= 1 \/ ticks > 0
  /\ asleep' = SubSeq(asleep, 1, k) \o <<current>> \o SubSeq(asleep, k + 1, Len(asleep))
  /\ sleep_for' = [u \in TCB |->
       IF u = current THEN ticks - Until[k]
       ELSE IF k < Len(asleep) /\ u = asleep[k + 1]
              THEN sleep_for[u] - (ticks - Until[k])
       ELSE sleep_for[u]]

LEMMA SleepPlace ==
  ASSUME IInv, NoSleepUnderflow, NEW ticks \in 1..MaxSleep, TimeSleep(ticks)
  PROVE  \E k : SleepsAt(k, ticks)
<1>. DEFINE n      == Len(asleep)
            before == {i \in 1..n : \A j \in 1..i : ticks >= Until[j]}
            k      == Cardinality(before)
<1>1. n \in Nat /\ ticks \in Nat /\ UntilAddsUp
  BY UntilSums, SizeAssumption DEF IInv, TypeOK
<1>2. k \in 0..n /\ before = 1..k
  <2>1. before \in SUBSET (1..n) /\ \A i \in before : \A j \in 1..i : j \in before
    OBVIOUS
  <2>. HIDE DEF before, n
  <2>. QED  BY <1>1, <2>1, InitialPositions
<1>3. /\ asleep' = SubSeq(asleep, 1, k) \o <<current>> \o SubSeq(asleep, k + 1, n)
      /\ sleep_for' = [u \in TCB |->
           IF u = current THEN ticks - Until[k]
           ELSE IF k < n /\ u = asleep[k + 1] THEN sleep_for[u] - (ticks - Until[k])
           ELSE sleep_for[u]]
  BY DEF TimeSleep, PutToSleep, TimeAfter
<1>. HIDE DEF k
<1>4. ticks >= Until[k]
  <2>1. CASE k = 0
    BY <1>1, <2>1 DEF UntilAddsUp
  <2>2. CASE k # 0
    <3>1. k \in before /\ k \in 1..k
      BY <1>1, <1>2, <2>2
    <3>. QED  BY <3>1
  <2>. QED  BY <2>1, <2>2
<1>5. k < n => ticks < Until[k + 1]
  <2>. SUFFICES ASSUME k < n PROVE ticks < Until[k + 1]
    OBVIOUS
  <2>1. k + 1 \in 1..n /\ k + 1 \notin before
    <3>. HIDE DEF n, before
    <3>. QED  BY <1>1, <1>2
  <2>2. PICK j \in 1..k + 1 : ~(ticks >= Until[j])
    BY <2>1
  <2>3. j = k + 1
    <3>. SUFFICES ASSUME j # k + 1 PROVE FALSE
      OBVIOUS
    <3>1. j \in before /\ j \in 1..j
      BY <1>1, <1>2
    <3>. QED  BY <2>2, <3>1
  <2>4. Until[k + 1] \in Nat
    BY <1>1, <2>1 DEF UntilAddsUp
  <2>. QED  BY <1>1, <2>2, <2>3, <2>4
<1>. HIDE DEF before, n
<1>6. k \in 0..Len(asleep)
  BY <1>2 DEF n
<1>7. (k >= 1 \/ ticks > 0) /\ n = Len(asleep)
  BY <1>1 DEF n
<1>8. SleepsAt(k, ticks)
  BY <1>1, <1>3, <1>4, <1>5, <1>6, <1>7 DEF SleepsAt
<1>. QED  BY <1>8

(* A list with x put behind its first k elements.                          *)
Inserted(q, k, x) == SubSeq(q, 1, k) \o <<x>> \o SubSeq(q, k + 1, Len(q))

LEMMA InsertedBehind ==
  ASSUME NEW S, NEW q \in Seq(S), NEW k \in 0..Len(q), NEW x \in S
  PROVE  /\ Inserted(q, k, x) \in Seq(S)
         /\ Len(Inserted(q, k, x)) = Len(q) + 1
         /\ \A i \in 1..k : Inserted(q, k, x)[i] = q[i]
         /\ Inserted(q, k, x)[k + 1] = x
         /\ \A i \in k + 1..Len(q) : Inserted(q, k, x)[i + 1] = q[i]
<1>. DEFINE a == SubSeq(q, 1, k)
            b == <<x>>
            c == SubSeq(q, k + 1, Len(q))
            n == Len(q)
<1>1. /\ n \in Nat /\ k \in Nat /\ k <= n
      /\ a \in Seq(S) /\ Len(a) = k /\ \A i \in 1..k : a[i] = q[i]
      /\ c \in Seq(S) /\ Len(c) = n - k /\ \A i \in 1..n - k : c[i] = q[i + k]
  BY SplitPositions
<1>2. b \in Seq(S) /\ Len(b) = 1 /\ b[1] = x
  OBVIOUS
<1>. HIDE DEF a, b, c, n
<1>3. /\ a \o b \in Seq(S) /\ Len(a \o b) = k + 1
      /\ \A i \in 1..k : (a \o b)[i] = q[i]
      /\ (a \o b)[k + 1] = x
  <2>0. a \in Seq(S) /\ b \in Seq(S)
    BY <1>1, <1>2
  <2>1. /\ a \o b \in Seq(S)
        /\ Len(a \o b) = Len(a) + Len(b)
        /\ \A i \in 1..Len(a) + Len(b) :
             (a \o b)[i] = IF i <= Len(a) THEN a[i] ELSE b[i - Len(a)]
    BY <2>0, ConcatProperties
  <2>2. (a \o b)[k + 1] = b[1]
    <3>1. k + 1 \in 1..k + 1 /\ ~(k + 1 <= k) /\ k + 1 - k = 1
      BY <1>1
    <3>. QED  BY <1>1, <1>2, <2>1, <3>1
  <2>3. \A i \in 1..k : (a \o b)[i] = a[i]
    BY <1>1, <1>2, <2>1
  <2>. QED  BY <1>1, <1>2, <2>1, <2>2, <2>3
<1>. DEFINE ab == a \o b
<1>. HIDE DEF ab
<1>4. /\ ab \o c \in Seq(S) /\ Len(ab \o c) = n + 1
      /\ \A i \in 1..k + 1 : (ab \o c)[i] = ab[i]
      /\ \A i \in 1..n - k : (ab \o c)[k + 1 + i] = c[i]
  BY SMTT(40), <1>1, <1>3 DEF ab
<1>5. \A i \in 1..k : (ab \o c)[i] = q[i]
  BY <1>1, <1>3, <1>4 DEF ab
<1>6. (ab \o c)[k + 1] = x
  BY <1>1, <1>3, <1>4 DEF ab
<1>7. ASSUME NEW i \in k + 1..n
      PROVE  (ab \o c)[i + 1] = q[i]
  <2>1. i - k \in 1..n - k /\ k + 1 + (i - k) = i + 1 /\ i - k + k = i
    BY <1>1
  <2>2. (ab \o c)[k + 1 + (i - k)] = c[i - k] /\ c[i - k] = q[i - k + k]
    BY <1>1, <1>4, <2>1
  <2>. QED  BY <2>1, <2>2
<1>. QED  BY <1>4, <1>5, <1>6, <1>7 DEF a, b, c, ab, n, Inserted

(* The sleepers and their times, position by position, after put_to_sleep. *)
LEMMA SleepPositions ==
  ASSUME IInv, NoSleepUnderflow, NEW ticks \in 1..MaxSleep, TimeSleep(ticks),
         NEW k, SleepsAt(k, ticks)
  PROVE  /\ Len(asleep') = Len(asleep) + 1
         /\ \A i \in 1..k : asleep'[i] = asleep[i] /\ sleep_for'[asleep'[i]] = sleep_for[asleep[i]]
         /\ asleep'[k + 1] = current /\ sleep_for'[asleep'[k + 1]] = ticks - Until[k]
         /\ \A i \in k + 1..Len(asleep) :
              /\ asleep'[i + 1] = asleep[i]
              /\ sleep_for'[asleep'[i + 1]] =
                   IF i = k + 1 THEN Until[k + 1] - ticks ELSE sleep_for[asleep[i]]
         /\ NoSleepUnderflow'
<1>. DEFINE n == Len(asleep)
<1>0. asleep \in Seq(TCB) /\ current \in TCB /\ k \in 0..Len(asleep)
  BY DEF IInv, TypeOK, SchedulerNeverDry, SleepsAt
<1>1. /\ asleep \in Seq(TCB) /\ Distinct(asleep) /\ n \in Nat
      /\ current \in TCB /\ current \notin Elements(asleep)
      /\ \A t \in TCB : sleep_for[t] \in 0..MaxSleep
      /\ MaxSleep \in Nat
  BY <1>0, SizeAssumption DEF IInv, OneListPerThread, SchedulerNeverDry, NoSleepUnderflow
<1>2. UntilAddsUp
  BY UntilSums DEF IInv
<1>3. /\ Len(asleep') = n + 1
      /\ asleep' \in Seq(TCB)
      /\ \A i \in 1..k : asleep'[i] = asleep[i]
      /\ asleep'[k + 1] = current
      /\ \A i \in k + 1..n : asleep'[i + 1] = asleep[i]
  <2>1. asleep' = Inserted(asleep, k, current)
    BY DEF SleepsAt, Inserted
  <2>2. /\ Len(asleep') = Len(asleep) + 1
        /\ asleep' \in Seq(TCB)
        /\ \A i \in 1..k : asleep'[i] = asleep[i]
        /\ asleep'[k + 1] = current
        /\ \A i \in k + 1..Len(asleep) : asleep'[i + 1] = asleep[i]
    <3>. DEFINE r == Inserted(asleep, k, current)
    <3>1. r \in Seq(TCB) /\ Len(r) = Len(asleep) + 1 /\ r[k + 1] = current
      BY <1>0, InsertedBehind
    <3>2. \A i \in 1..k : r[i] = asleep[i]
      BY <1>0, InsertedBehind
    <3>3. \A i \in k + 1..Len(asleep) : r[i + 1] = asleep[i]
      BY <1>0, InsertedBehind
    <3>4. asleep' = r
      BY <2>1
    <3>. HIDE DEF r
    <3>. QED  BY <3>1, <3>2, <3>3, <3>4
  <2>. QED  BY <2>2
<1>4. \A i \in 1..n : asleep[i] \in TCB /\ asleep[i] # current
  BY <1>1 DEF Elements
<1>5. \A i, j \in 1..n : i # j => asleep[i] # asleep[j]
  BY <1>1 DEF Distinct
<1>6. \A u \in TCB : sleep_for'[u] =
        IF u = current THEN ticks - Until[k]
        ELSE IF k < n /\ u = asleep[k + 1] THEN sleep_for[u] - (ticks - Until[k])
        ELSE sleep_for[u]
  BY DEF SleepsAt
<1>7. /\ Until[k] \in Nat /\ ticks - Until[k] \in 0..MaxSleep
      /\ k \in Nat /\ k <= n
  BY <1>1, <1>2 DEF UntilAddsUp, SleepsAt
<1>8. k < n => /\ k + 1 \in 1..n
               /\ Until[k + 1] = Until[k] + sleep_for[asleep[k + 1]]
               /\ Until[k + 1] \in Nat
               /\ Until[k + 1] > ticks
  <2>. SUFFICES ASSUME k < n
                PROVE  /\ k + 1 \in 1..n
                       /\ Until[k + 1] = Until[k] + sleep_for[asleep[k + 1]]
                       /\ Until[k + 1] \in Nat
                       /\ Until[k + 1] > ticks
    OBVIOUS
  <2>1. k + 1 \in 1..n /\ k + 1 - 1 = k /\ k + 1 \in 0..n
    BY <1>1, <1>7
  <2>2. Until[k + 1] = Until[k + 1 - 1] + sleep_for[asleep[k + 1]] /\ Until[k + 1] \in Nat
    <3>1. \A i \in 1..n : Until[i] = Until[i - 1] + sleep_for[asleep[i]]
      BY <1>2 DEF UntilAddsUp
    <3>2. Until \in [0..n -> Nat]
      BY <1>2 DEF UntilAddsUp
    <3>3. PICK j \in 1..n : j = k + 1
      BY <2>1
    <3>4. Until[j] = Until[j - 1] + sleep_for[asleep[j]] /\ Until[j] \in Nat
      BY <1>1, <3>1, <3>2
    <3>. QED  BY <1>0, <3>3, <3>4
  <2>3. ticks < Until[k + 1]
    BY DEF SleepsAt
  <2>. QED  BY <2>1, <2>2, <2>3
<1>. HIDE DEF n
<1>9. \A i \in 1..k : sleep_for'[asleep'[i]] = sleep_for[asleep[i]]
  <2>. SUFFICES ASSUME NEW i \in 1..k
                PROVE  sleep_for'[asleep'[i]] = sleep_for[asleep[i]]
    OBVIOUS
  <2>1. i \in 1..n /\ i # k + 1 /\ (k < n => k + 1 \in 1..n)
    BY <1>1, <1>7
  <2>2. asleep[i] \in TCB /\ asleep[i] # current /\ (k < n => asleep[i] # asleep[k + 1])
    BY <1>4, <1>5, <2>1
  <2>. QED  BY <1>3, <1>6, <2>2
<1>10. sleep_for'[asleep'[k + 1]] = ticks - Until[k]
  BY <1>1, <1>3, <1>6
<1>11. ASSUME NEW i \in k + 1..n
       PROVE  sleep_for'[asleep'[i + 1]] =
                IF i = k + 1 THEN Until[k + 1] - ticks ELSE sleep_for[asleep[i]]
  <2>1. i \in 1..n /\ k < n
    BY <1>1, <1>7
  <2>2. asleep'[i + 1] = asleep[i] /\ asleep[i] \in TCB /\ asleep[i] # current
    BY <1>3, <1>4, <2>1
  <2>3. CASE i = k + 1
    <3>1. sleep_for'[asleep[i]] = sleep_for[asleep[k + 1]] - (ticks - Until[k])
      BY <1>6, <2>1, <2>2, <2>3
    <3>2. sleep_for[asleep[k + 1]] \in 0..MaxSleep
      BY <1>1, <2>2, <2>3
    <3>3. sleep_for[asleep[k + 1]] - (ticks - Until[k]) = Until[k + 1] - ticks
      BY <1>7, <1>8, <2>1, <3>2
    <3>. QED  BY <2>2, <2>3, <3>1, <3>3
  <2>4. CASE i # k + 1
    <3>1. asleep[i] # asleep[k + 1]
      BY <1>5, <1>8, <2>1, <2>4
    <3>. QED  BY <1>6, <2>2, <2>4, <3>1
  <2>. QED  BY <2>3, <2>4
<1>12. NoSleepUnderflow'
  <2>1. ASSUME NEW u \in TCB
        PROVE  sleep_for'[u] \in 0..MaxSleep
    <3>1. CASE u = current
      BY <1>6, <1>7, <3>1
    <3>2. CASE u # current /\ k < n /\ u = asleep[k + 1]
      <4>1. sleep_for'[u] = sleep_for[u] - (ticks - Until[k])
        BY <1>6, <3>2
      <4>. QED  BY SMTT(40), <1>1, <1>7, <1>8, <3>2, <4>1
    <3>3. CASE u # current /\ ~(k < n /\ u = asleep[k + 1])
      BY <1>1, <1>6, <3>3
    <3>. QED  BY <3>1, <3>2, <3>3
  <2>2. sleep_for'[asleep'[1]] > 0
    <3>1. CASE k = 0
      <4>1. asleep'[1] = current /\ Until[k] = 0
        BY <1>2, <1>3, <3>1 DEF UntilAddsUp
      <4>. QED  BY <1>1, <1>6, <1>7, <4>1
    <3>2. CASE k >= 1
      <4>1. 1 \in 1..k /\ 1 \in 1..n /\ asleep # <<>>
        BY <1>1, <1>7, <3>2 DEF n
      <4>2. sleep_for'[asleep'[1]] = sleep_for[asleep[1]]
        BY <1>9, <4>1
      <4>3. Head(asleep) = asleep[1] /\ sleep_for[asleep[1]] > 0
        BY <1>1, <4>1 DEF NoSleepUnderflow
      <4>. QED  BY <4>2, <4>3
    <3>. QED  BY <1>7, <3>1, <3>2
  <2>3. Head(asleep') = asleep'[1]
    BY <1>3
  <2>. QED  BY <2>1, <2>2, <2>3 DEF NoSleepUnderflow
<1>. QED  BY <1>3, <1>9, <1>10, <1>11, <1>12 DEF n

(* timer_tick: the first k sleepers have no time left and wake; the next   *)
(* one, if there is one, has.                                              *)
TicksAt(k) ==
  /\ k \in 0..Len(asleep)
  /\ Len(asleep') = Len(asleep) - k
  /\ \A i \in 1..Len(asleep) - k : asleep'[i] = asleep[i + k]
  /\ \A t \in TCB : sleep_for'[t] \in 0..MaxSleep
  /\ \A i \in 1..Len(asleep) :
       sleep_for'[asleep[i]] = sleep_for[asleep[i]] - (IF i = 1 THEN 1 ELSE 0)
  /\ \A i \in 1..k : sleep_for'[asleep[i]] = 0
  /\ k < Len(asleep) => sleep_for'[asleep[k + 1]] > 0

LEMMA TickPlace ==
  ASSUME IInv, NoSleepUnderflow, TimerTick
  PROVE  \E k : TicksAt(k)
<1>. DEFINE n       == Len(asleep)
            expired == {i \in 1..n : \A j \in 1..i : Ticked[asleep[j]] <= 0}
            k       == Cardinality(expired)
<1>1. /\ asleep \in Seq(TCB) /\ Distinct(asleep) /\ n \in Nat
      /\ sleep_for = [t \in TCB |-> sleep_for[t]]
      /\ \A t \in TCB : sleep_for[t] \in 0..MaxSleep
      /\ MaxSleep \in Nat
  BY SizeAssumption DEF IInv, TypeOK, OneListPerThread, NoSleepUnderflow
<1>2. /\ sleep_for' = Ticked
      /\ asleep' = SubSeq(asleep, Len(Due) + 1, n)
  BY DEF TimerTick
<1>3. \A i \in 1..n : asleep[i] \in TCB
  BY <1>1
<1>4. /\ \A t \in TCB : Ticked[t] \in 0..MaxSleep
      /\ \A i \in 1..n : Ticked[asleep[i]] = sleep_for[asleep[i]] - (IF i = 1 THEN 1 ELSE 0)
  <2>1. CASE n = 0
    <3>1. asleep = <<>>
      BY <1>1, <2>1
    <3>. QED  BY <1>1, <2>1, <3>1 DEF Ticked
  <2>2. CASE n # 0
    <3>1. asleep # <<>> /\ Head(asleep) = asleep[1] /\ 1 \in 1..n
      BY <1>1, <2>2
    <3>2. \A t \in TCB : Ticked[t] = IF t = asleep[1] THEN sleep_for[t] - 1 ELSE sleep_for[t]
      BY <1>1, <3>1 DEF Ticked
    <3>3. sleep_for[asleep[1]] > 0
      BY <3>1 DEF NoSleepUnderflow
    <3>4. \A t \in TCB : Ticked[t] \in 0..MaxSleep
      BY <1>1, <3>2, <3>3
    <3>5. \A i \in 1..n : asleep[i] = asleep[1] => i = 1
      BY <1>1, <3>1 DEF Distinct
    <3>6. \A i \in 1..n : Ticked[asleep[i]] = sleep_for[asleep[i]] - (IF i = 1 THEN 1 ELSE 0)
      <4>. SUFFICES ASSUME NEW i \in 1..n
                    PROVE  Ticked[asleep[i]] = sleep_for[asleep[i]] - (IF i = 1 THEN 1 ELSE 0)
        OBVIOUS
      <4>1. asleep[i] \in TCB /\ sleep_for[asleep[i]] \in Int
        BY <1>1, <1>3
      <4>. QED  BY <3>2, <3>5, <4>1
    <3>. QED  BY <3>4, <3>6
  <2>. QED  BY <2>1, <2>2
<1>5. Due = SubSeq(asleep, 1, k)
  BY DEF Due
<1>6. k \in 0..n /\ expired = 1..k
  <2>1. expired \in SUBSET (1..n) /\ \A i \in expired : \A j \in 1..i : j \in expired
    OBVIOUS
  <2>. HIDE DEF expired, n
  <2>. QED  BY <1>1, <2>1, InitialPositions
<1>7. \A i \in expired : \A j \in 1..i : Ticked[asleep[j]] <= 0
  OBVIOUS
<1>8. \A i \in 1..n : i \notin expired => \E j \in 1..i : ~(Ticked[asleep[j]] <= 0)
  OBVIOUS
<1>. HIDE DEF k, expired
<1>9. \A i \in 1..k : Ticked[asleep[i]] = 0
  <2>. SUFFICES ASSUME NEW i \in 1..k PROVE Ticked[asleep[i]] = 0
    OBVIOUS
  <2>1. i \in 1..n /\ i \in expired /\ i \in 1..i
    BY <1>1, <1>6
  <2>2. Ticked[asleep[i]] <= 0
    BY <1>7, <2>1
  <2>3. Ticked[asleep[i]] \in 0..MaxSleep
    BY <1>3, <1>4, <2>1
  <2>. QED  BY <2>2, <2>3
<1>10. k < n => Ticked[asleep[k + 1]] > 0
  <2>. SUFFICES ASSUME k < n PROVE Ticked[asleep[k + 1]] > 0
    OBVIOUS
  <2>1. k + 1 \in 1..n /\ k + 1 \notin expired
    BY <1>1, <1>6
  <2>2. PICK j \in 1..k + 1 : ~(Ticked[asleep[j]] <= 0)
    BY <1>8, <2>1
  <2>3. j = k + 1
    <3>. SUFFICES ASSUME j # k + 1 PROVE FALSE
      OBVIOUS
    <3>1. j \in 1..k
      BY <1>1, <1>6
    <3>2. Ticked[asleep[j]] = 0
      BY <1>9, <3>1
    <3>. QED  BY <2>2, <3>2
  <2>4. Ticked[asleep[k + 1]] \in 0..MaxSleep
    BY <1>3, <1>4, <2>1
  <2>. QED  BY <2>2, <2>3, <2>4
<1>11. Len(Due) = k
  BY <1>1, <1>5, <1>6, SplitPositions
<1>12. Len(asleep') = n - k /\ \A i \in 1..n - k : asleep'[i] = asleep[i + k]
  BY <1>1, <1>2, <1>6, <1>11, SplitPositions
<1>. HIDE DEF n
<1>13. TicksAt(k)
  BY <1>2, <1>4, <1>6, <1>9, <1>10, <1>12 DEF TicksAt, n
<1>. QED  BY <1>13

LEMMA TickTimes ==
  ASSUME asleep \in Seq(TCB), asleep' \in Seq(TCB), NEW k, TicksAt(k)
  PROVE  NoSleepUnderflow'
<1>1. ASSUME asleep' # <<>> PROVE sleep_for'[Head(asleep')] > 0
  <2>1. Head(asleep') = asleep'[1] /\ Len(asleep') >= 1
    BY <1>1
  <2>2. k < Len(asleep) /\ 1 \in 1..Len(asleep) - k /\ 1 + k = k + 1
    BY <2>1 DEF TicksAt
  <2>3. asleep'[1] = asleep[1 + k]
    BY <2>2 DEF TicksAt
  <2>. QED  BY <2>1, <2>2, <2>3 DEF TicksAt
<1>. QED  BY <1>1 DEF TicksAt, NoSleepUnderflow

(* A step that leaves the sleep queue as it is.                            *)
LEMMA OtherTimes ==
  ASSUME IInv, NoSleepUnderflow, [Next]_vars, ~TimerTick,
         ~\E ticks \in 1..MaxSleep : TimeSleep(ticks)
  PROVE  /\ asleep' = asleep
         /\ \A t \in TCB : sleep_for'[t] \in {sleep_for[t], 0}
         /\ \A t \in Elements(asleep) : sleep_for'[t] = sleep_for[t]
<1>1. ASSUME UNCHANGED sleepVars
      PROVE  /\ asleep' = asleep
             /\ \A t \in TCB : sleep_for'[t] \in {sleep_for[t], 0}
             /\ \A t \in Elements(asleep) : sleep_for'[t] = sleep_for[t]
  BY <1>1 DEF sleepVars
<1>2. CASE ThreadCreate
  <2>1. CASE \E t \in Workers : status[t] = "FREE"
    <3>1. PICK t \in Workers : status[t] = "FREE" /\ sleep_for' = [sleep_for EXCEPT ![t] = 0]
                               /\ asleep' = asleep
      BY <1>2, <2>1 DEF ThreadCreate
    <3>2. t \in TCB /\ t \notin Elements(asleep)
      BY <3>1 DEF IInv, OneListPerThread, Workers
    <3>3. Elements(asleep) \subseteq TCB /\ sleep_for = [u \in TCB |-> sleep_for[u]]
      BY ElementsType DEF IInv, TypeOK
    <3>4. \A u \in TCB : sleep_for'[u] = IF u = t THEN 0 ELSE sleep_for[u]
      BY <3>1, <3>3
    <3>. QED  BY <3>1, <3>2, <3>3, <3>4
  <2>2. CASE ~\E t \in Workers : status[t] = "FREE"
    <3>1. UNCHANGED sleepVars
      BY <1>2, <2>2 DEF ThreadCreate, sleepVars
    <3>. QED  BY <1>1, <3>1
  <2>. QED  BY <2>1, <2>2
<1>3. CASE ~ThreadCreate
  <2>1. UNCHANGED sleepVars
    BY <1>3
    DEF Next, vars, ThreadExit, ThreadDispatch, ThreadJoin, SemOpen, SemClose, SemWait,
        SemSignal, Getc, Putc, ConsoleInterrupt, FlushPutc, FlushDispatch
  <2>. QED  BY <1>1, <2>1
<1>. QED  BY <1>2, <1>3

LEMMA StepTimes ==
  ASSUME IInv, NoSleepUnderflow, [Next]_vars
  PROVE  NoSleepUnderflow'
<1>1. CASE \E ticks \in 1..MaxSleep : TimeSleep(ticks)
  <2>1. PICK ticks \in 1..MaxSleep : TimeSleep(ticks)
    BY <1>1
  <2>2. PICK k : SleepsAt(k, ticks)
    BY <2>1, SleepPlace
  <2>. QED  BY <2>1, <2>2, SleepPositions
<1>2. CASE TimerTick
  <2>1. asleep \in Seq(TCB) /\ asleep' \in Seq(TCB)
    BY NextKeeps DEF IInv, TypeOK
  <2>. QED  BY <1>2, <2>1, TickPlace, TickTimes
<1>3. CASE ~TimerTick /\ ~\E ticks \in 1..MaxSleep : TimeSleep(ticks)
  <2>1. /\ asleep' = asleep
        /\ \A t \in TCB : sleep_for'[t] \in {sleep_for[t], 0}
        /\ \A t \in Elements(asleep) : sleep_for'[t] = sleep_for[t]
    BY <1>3, OtherTimes
  <2>2. asleep # <<>> => Head(asleep) \in Elements(asleep)
    BY ElementsTail DEF IInv, TypeOK
  <2>. QED  BY <2>1, <2>2, SizeAssumption DEF NoSleepUnderflow
<1>. QED  BY <1>1, <1>2, <1>3

(* No relative time of the sleep queue, which the code keeps unsigned, is  *)
(* ever taken below zero, and the first sleeper always has time left.      *)
THEOREM SleepTimesSound == Spec => []NoSleepUnderflow
<1>1. Init => NoSleepUnderflow
  BY SizeAssumption DEF Init, NoSleepUnderflow
<1>2. IInv /\ NoSleepUnderflow /\ [Next]_vars => NoSleepUnderflow'
  BY StepTimes
<1>. QED  BY <1>1, <1>2, Invariant, PTL DEF Spec

-----------------------------------------------------------------------------
(* The sleep queue is an alarm clock.                                      *)

(* The ticks each thread still sleeps: what Kernel gives for left.         *)
Left == [t \in TCB |->
           IF \E i \in DOMAIN asleep : asleep[i] = t
             THEN Until[CHOOSE i \in DOMAIN asleep : asleep[i] = t]
             ELSE 0]

LeftIs ==
  /\ Left = [t \in TCB |-> Left[t]]
  /\ \A i \in 1..Len(asleep) : Left[asleep[i]] = Until[i] /\ Until[i] > 0
  /\ \A t \in TCB : t \notin Elements(asleep) => Left[t] = 0

LEMMA LeftValues == IInv /\ NoSleepUnderflow => LeftIs
<1>. SUFFICES ASSUME IInv, NoSleepUnderflow
              PROVE  LeftIs
  OBVIOUS
<1>. DEFINE n == Len(asleep)
<1>1. /\ asleep \in Seq(TCB) /\ Distinct(asleep) /\ n \in Nat
      /\ UntilAddsUp /\ DOMAIN asleep = 1..n
      /\ \A i \in 1..n : asleep[i] \in TCB /\ sleep_for[asleep[i]] \in Nat
  BY SMTT(40), UntilSums, SizeAssumption DEF IInv, TypeOK, OneListPerThread, NoSleepUnderflow
<1>2. /\ Until \in [0..n -> Nat] /\ Until[0] = 0
      /\ \A i \in 1..n : Until[i] = Until[i-1] + sleep_for[asleep[i]]
  BY <1>1 DEF UntilAddsUp
<1>3. \A i \in 1..n : Until[i] > 0
  <2>. DEFINE S == {i \in 0..n : i >= 1 => Until[i] > 0}
  <2>1. 0 \in S
    BY <1>1
  <2>2. ASSUME NEW i \in 0..n - 1, i \in S
        PROVE  i + 1 \in S
    <3>1. PICK j \in 1..n : j = i + 1
      BY <1>1
    <3>2. Until[j] = Until[j - 1] + sleep_for[asleep[j]] /\ j - 1 = i
      BY <1>1, <1>2, <3>1
    <3>3. Until[i] \in Nat /\ sleep_for[asleep[j]] \in Nat
      BY <1>1, <1>2
    <3>4. CASE i = 0
      <4>1. asleep # <<>> /\ Head(asleep) = asleep[1] /\ j = 1
        BY <1>1, <3>1, <3>4
      <4>2. sleep_for[asleep[j]] > 0
        BY <4>1 DEF NoSleepUnderflow
      <4>. QED  BY <3>1, <3>2, <3>3, <4>2
    <3>5. CASE i # 0
      <4>1. Until[i] > 0
        BY <2>2, <3>5
      <4>. QED  BY <3>1, <3>2, <3>3, <4>1
    <3>. QED  BY <3>4, <3>5
  <2>. HIDE DEF S
  <2>3. 0..n \subseteq S
    BY <1>1, <2>1, <2>2, IntervalInduction
  <2>4. \A i \in 1..n : i \in S
    BY <1>1, <2>3
  <2>. QED  BY <2>4 DEF S
<1>4. ASSUME NEW i \in 1..n
      PROVE  Left[asleep[i]] = Until[i]
  <2>. DEFINE c == CHOOSE j \in DOMAIN asleep : asleep[j] = asleep[i]
  <2>1. c \in DOMAIN asleep /\ asleep[c] = asleep[i]
    BY <1>1
  <2>2. c = i
    BY <1>1, <2>1 DEF Distinct
  <2>3. Left[asleep[i]] = Until[c]
    BY <1>1 DEF Left
  <2>. QED  BY <2>2, <2>3
<1>5. ASSUME NEW t \in TCB, t \notin Elements(asleep)
      PROVE  Left[t] = 0
  BY <1>5 DEF Left, Elements
<1>6. Left = [t \in TCB |-> Left[t]]
  BY DEF Left
<1>. QED  BY <1>3, <1>4, <1>5, <1>6 DEF LeftIs

(* The facts about times that the steps below start from.                  *)
LEMMA TimesNow ==
  ASSUME IInv, NoSleepUnderflow
  PROVE  /\ asleep \in Seq(TCB) /\ Len(asleep) \in Nat
         /\ \A i \in 1..Len(asleep) : asleep[i] \in TCB /\ sleep_for[asleep[i]] \in Nat
         /\ Until[0] = 0
         /\ \A i \in 0..Len(asleep) : Until[i] \in Nat
         /\ \A i \in 1..Len(asleep) : Until[i] = Until[i-1] + sleep_for[asleep[i]]
         /\ LeftIs
<1>1. asleep \in Seq(TCB) /\ Len(asleep) \in Nat /\ UntilAddsUp /\ LeftIs
  BY UntilSums, LeftValues DEF IInv, TypeOK
<1>2. \A i \in 1..Len(asleep) : asleep[i] \in TCB /\ sleep_for[asleep[i]] \in Nat
  BY <1>1, SizeAssumption DEF NoSleepUnderflow
<1>. QED  BY <1>1, <1>2 DEF UntilAddsUp

LEMMA TimesNext ==
  ASSUME IInv, NoSleepUnderflow, [Next]_vars
  PROVE  /\ Until'[0] = 0
         /\ \A i \in 0..Len(asleep') : Until'[i] \in Nat
         /\ \A i \in 1..Len(asleep') : Until'[i] = Until'[i-1] + sleep_for'[asleep'[i]]
         /\ LeftIs'
<1>1. (TypeOK /\ NoSleepUnderflow => UntilAddsUp)' /\ (IInv /\ NoSleepUnderflow => LeftIs)'
  BY UntilSums, LeftValues, PTL
<1>2. IInv' /\ NoSleepUnderflow'
  BY NextKeeps, StepTimes
<1>3. UntilAddsUp' /\ LeftIs'
  BY <1>1, <1>2 DEF IInv
<1>. QED  BY <1>3 DEF UntilAddsUp

(* Times that add up in the same way are the same.                         *)
AddUpAlike(n, f, g) ==
  /\ f[0] = g[0]
  /\ \A i \in 0..n : f[i] \in Int /\ g[i] \in Int
  /\ \A i \in 1..n : f[i] - f[i - 1] = g[i] - g[i - 1]

LEMMA SameSums ==
  ASSUME NEW n \in Nat, NEW f, NEW g, AddUpAlike(n, f, g)
  PROVE  \A i \in 0..n : f[i] = g[i]
<1>. USE DEF AddUpAlike
<1>. DEFINE S == {i \in 0..n : f[i] = g[i]}
<1>1. 0 \in S
  OBVIOUS
<1>2. ASSUME NEW i \in 0..n - 1, i \in S
      PROVE  i + 1 \in S
  <2>1. PICK j \in 1..n : j = i + 1
    OBVIOUS
  <2>2. f[j] - f[j - 1] = g[j] - g[j - 1] /\ j - 1 = i
    BY <2>1
  <2>3. f[i] \in Int /\ f[j] \in Int /\ g[j] \in Int /\ f[i] = g[i]
    BY <1>2, <2>1
  <2>4. f[j] - f[i] = g[j] - f[i]
    BY <2>2, <2>3
  <2>. HIDE DEF S
  <2>5. f[j] = g[j]
    BY <2>3, <2>4
  <2>. QED  BY <2>1, <2>5 DEF S
<1>. HIDE DEF S
<1>3. 0..n \subseteq S
  BY <1>1, <1>2, IntervalInduction
<1>. QED  BY <1>3 DEF S

(* put_to_sleep leaves the time of every other sleeper as it was.          *)
LEMMA SleepUntil ==
  ASSUME IInv, NoSleepUnderflow, NEW ticks \in 1..MaxSleep, TimeSleep(ticks),
         NEW k, SleepsAt(k, ticks)
  PROVE  /\ \A i \in 0..k : Until'[i] = Until[i]
         /\ Until'[k + 1] = ticks
         /\ \A i \in k + 1..Len(asleep) : Until'[i + 1] = Until[i]
<1>. DEFINE n == Len(asleep)
<1>1. /\ Until[0] = 0
      /\ \A i \in 0..n : Until[i] \in Nat
      /\ \A i \in 1..n : Until[i] = Until[i-1] + sleep_for[asleep[i]]
      /\ \A i \in 1..n : sleep_for[asleep[i]] \in Nat
      /\ n \in Nat
  BY TimesNow
<1>2. [Next]_vars
  BY DEF Next
<1>3. /\ Until'[0] = 0
      /\ \A i \in 0..n + 1 : Until'[i] \in Nat
      /\ \A i \in 1..n + 1 : Until'[i] = Until'[i-1] + sleep_for'[asleep'[i]]
  BY <1>2, TimesNext, SleepPositions
<1>4. /\ \A i \in 1..k : sleep_for'[asleep'[i]] = sleep_for[asleep[i]]
      /\ sleep_for'[asleep'[k + 1]] = ticks - Until[k]
      /\ \A i \in k + 1..n : sleep_for'[asleep'[i + 1]] =
           IF i = k + 1 THEN Until[k + 1] - ticks ELSE sleep_for[asleep[i]]
  BY SleepPositions
<1>5. k \in Nat /\ k <= n /\ ticks \in Nat
  BY <1>1 DEF SleepsAt
<1>. HIDE DEF n
<1>6. \A i \in 0..k : Until'[i] = Until[i]
  <2>1. \A i \in 0..k : Until'[i] \in Int /\ Until[i] \in Int
    BY <1>1, <1>3, <1>5
  <2>2. \A i \in 1..k : Until'[i] - Until'[i - 1] = Until[i] - Until[i - 1]
    <3>. SUFFICES ASSUME NEW i \in 1..k
                  PROVE  Until'[i] - Until'[i - 1] = Until[i] - Until[i - 1]
      OBVIOUS
    <3>1. i \in 1..n /\ i \in 1..n + 1 /\ i - 1 \in 0..n /\ i - 1 \in 0..n + 1
      BY <1>1, <1>5
    <3>2. /\ Until'[i] = Until'[i - 1] + sleep_for[asleep[i]] /\ Until'[i - 1] \in Nat
          /\ Until[i] = Until[i - 1] + sleep_for[asleep[i]] /\ Until[i - 1] \in Nat
          /\ sleep_for[asleep[i]] \in Nat
      BY <1>1, <1>3, <1>4, <3>1
    <3>. QED  BY <3>2
  <2>3. AddUpAlike(k, Until', Until)
    BY <1>1, <1>3, <2>1, <2>2 DEF AddUpAlike
  <2>. QED  BY <1>5, <2>3, SameSums
<1>7. Until'[k + 1] = ticks
  <2>1. PICK j \in 1..n + 1 : j = k + 1
    BY <1>1, <1>5
  <2>2. Until'[j] = Until'[j - 1] + (ticks - Until[k]) /\ j - 1 = k
    BY <1>3, <1>4, <1>5, <2>1
  <2>3. Until'[k] = Until[k] /\ Until[k] \in Nat
    BY <1>1, <1>5, <1>6
  <2>. QED  BY <1>5, <2>1, <2>2, <2>3
<1>8. \A i \in k + 1..n : Until'[i + 1] = Until[i]
  <2>. DEFINE S == {m \in 0..n - k : m >= 1 => Until'[k + m + 1] = Until[k + m]}
  <2>1. 0 \in S
    BY <1>1, <1>5
  <2>2. ASSUME NEW m \in 0..n - k - 1, m \in S
        PROVE  m + 1 \in S
    <3>1. PICK i \in k + 1..n : i = k + m + 1
      BY <1>1, <1>5
    <3>2. PICK j \in 1..n + 1 : j = i + 1
      BY <1>1, <1>5
    <3>3. Until'[j] = Until'[j - 1] + sleep_for'[asleep'[i + 1]] /\ j - 1 = i
      BY <1>3, <3>2
    <3>4. i \in 1..n /\ i - 1 \in 0..n /\ i - 1 = k + m
      BY <1>1, <1>5, <3>1
    <3>5. /\ Until[i] = Until[i - 1] + sleep_for[asleep[i]]
          /\ Until[i - 1] \in Nat /\ Until[i] \in Nat /\ sleep_for[asleep[i]] \in Nat
      BY <1>1, <3>4
    <3>6. Until'[j] = Until[i]
      <4>1. CASE m = 0
        <5>1. i = k + 1
          BY <1>5, <3>1, <4>1
        <5>2. sleep_for'[asleep'[i + 1]] = Until[i] - ticks /\ Until'[i] = ticks
          BY <1>4, <1>7, <5>1
        <5>. QED  BY <1>5, <3>3, <3>5, <5>2
      <4>2. CASE m # 0
        <5>1. i # k + 1 /\ m >= 1
          BY <1>5, <3>1, <4>2
        <5>2. sleep_for'[asleep'[i + 1]] = sleep_for[asleep[i]]
          BY <1>4, <5>1
        <5>3. Until'[i] = Until[i - 1]
          BY <2>2, <3>1, <3>4, <5>1
        <5>. QED  BY <3>3, <3>5, <5>2, <5>3
      <4>. QED  BY <4>1, <4>2
    <3>7. j = k + (m + 1) + 1 /\ i = k + (m + 1) /\ m + 1 \in 0..n - k
      BY <1>1, <1>5, <3>1, <3>2
    <3>. QED  BY <3>6, <3>7
  <2>. HIDE DEF S
  <2>3. n - k \in Nat
    BY <1>1, <1>5
  <2>4. 0..n - k \subseteq S
    BY <2>1, <2>2, <2>3, IntervalInduction
  <2>5. ASSUME NEW i \in k + 1..n
        PROVE  Until'[i + 1] = Until[i]
    <3>1. i - k \in S /\ i - k >= 1 /\ k + (i - k) = i
      BY <1>1, <1>5, <2>4
    <3>. QED  BY <3>1 DEF S
  <2>. QED  BY <2>5
<1>. QED  BY <1>6, <1>7, <1>8 DEF n

(* timer_tick takes a tick off the time of every sleeper.                  *)
LEMMA TickUntil ==
  ASSUME IInv, NoSleepUnderflow, TimerTick, NEW k, TicksAt(k)
  PROVE  /\ \A i \in 1..k : Until[i] = 1
         /\ \A i \in 1..Len(asleep) - k : Until'[i] = Until[i + k] - 1
<1>. DEFINE n == Len(asleep)
<1>1. /\ Until[0] = 0
      /\ \A i \in 0..n : Until[i] \in Nat
      /\ \A i \in 1..n : Until[i] = Until[i-1] + sleep_for[asleep[i]]
      /\ \A i \in 1..n : sleep_for[asleep[i]] \in Nat
      /\ n \in Nat
  BY TimesNow
<1>2. [Next]_vars
  BY DEF Next
<1>3. /\ Until'[0] = 0
      /\ \A i \in 0..n - k : Until'[i] \in Nat
      /\ \A i \in 1..n - k : Until'[i] = Until'[i-1] + sleep_for'[asleep'[i]]
  BY <1>2, TimesNext DEF TicksAt
<1>4. /\ \A i \in 1..n : sleep_for'[asleep[i]] = sleep_for[asleep[i]] - (IF i = 1 THEN 1 ELSE 0)
      /\ \A i \in 1..k : sleep_for'[asleep[i]] = 0
      /\ \A i \in 1..n - k : asleep'[i] = asleep[i + k]
      /\ k \in Nat /\ k <= n
  BY <1>1 DEF TicksAt
<1>. HIDE DEF n
<1>5. \A i \in 1..k : Until[i] = 1
  <2>. DEFINE S == {i \in 0..k : i >= 1 => Until[i] = 1}
  <2>1. 0 \in S
    BY <1>4
  <2>2. ASSUME NEW i \in 0..k - 1, i \in S
        PROVE  i + 1 \in S
    <3>1. PICK j \in 1..k : j = i + 1
      BY <1>4
    <3>2. j \in 1..n /\ j - 1 = i /\ i \in 0..n
      BY <1>1, <1>4, <3>1
    <3>3. /\ Until[j] = Until[j - 1] + sleep_for[asleep[j]]
          /\ 0 = sleep_for[asleep[j]] - (IF j = 1 THEN 1 ELSE 0)
          /\ Until[i] \in Nat /\ sleep_for[asleep[j]] \in Nat
      BY <1>1, <1>4, <3>2
    <3>4. CASE i = 0
      BY <1>1, <3>1, <3>2, <3>3, <3>4
    <3>5. CASE i # 0
      <4>1. Until[i] = 1 /\ j # 1
        BY <2>2, <3>1, <3>5
      <4>. QED  BY <3>1, <3>2, <3>3, <4>1
    <3>. QED  BY <3>4, <3>5
  <2>. HIDE DEF S
  <2>3. 0..k \subseteq S
    BY <1>4, <2>1, <2>2, IntervalInduction
  <2>4. \A i \in 1..k : i \in S
    BY <1>4, <2>3
  <2>. QED  BY <2>4 DEF S
<1>6. \A i \in 1..n - k : Until'[i] = Until[i + k] - 1
  <2>. DEFINE S == {i \in 0..n - k : i >= 1 => Until'[i] = Until[i + k] - 1}
  <2>1. 0 \in S
    BY <1>1, <1>4
  <2>2. ASSUME NEW i \in 0..n - k - 1, i \in S
        PROVE  i + 1 \in S
    <3>1. PICK j \in 1..n - k : j = i + 1
      BY <1>1, <1>4
    <3>2. PICK m \in 1..n : m = j + k
      BY <1>1, <1>4
    <3>3. j - 1 = i /\ m - 1 = i + k /\ i \in 0..n - k /\ i + k \in 0..n
      BY <1>1, <1>4, <3>1, <3>2
    <3>4. /\ Until'[j] = Until'[i] + sleep_for'[asleep[m]]
          /\ Until[m] = Until[i + k] + sleep_for[asleep[m]]
          /\ sleep_for'[asleep[m]] = sleep_for[asleep[m]] - (IF m = 1 THEN 1 ELSE 0)
          /\ Until'[i] \in Nat /\ Until[i + k] \in Nat /\ sleep_for[asleep[m]] \in Nat
      BY <1>1, <1>3, <1>4, <3>1, <3>2, <3>3
    <3>5. Until'[j] = Until[m] - 1
      <4>1. CASE i = 0 /\ k = 0
        <5>1. m = 1 /\ Until'[i] = 0 /\ Until[i + k] = 0
          BY <1>1, <1>3, <3>1, <3>2, <4>1
        <5>. QED  BY <3>4, <5>1
      <4>2. CASE i = 0 /\ k # 0
        <5>1. m # 1 /\ Until'[i] = 0 /\ i + k \in 1..k
          BY <1>3, <1>4, <3>1, <3>2, <4>2
        <5>2. Until[i + k] = 1
          BY <1>5, <5>1
        <5>. QED  BY <3>4, <5>1, <5>2
      <4>3. CASE i # 0
        <5>1. m # 1 /\ Until'[i] = Until[i + k] - 1
          BY <1>4, <2>2, <3>1, <3>2, <4>3
        <5>. QED  BY <3>4, <5>1
      <4>. QED  BY <4>1, <4>2, <4>3
    <3>. QED  BY <3>1, <3>2, <3>5
  <2>. HIDE DEF S
  <2>3. n - k \in Nat
    BY <1>1, <1>4
  <2>4. 0..n - k \subseteq S
    BY <2>1, <2>2, <2>3, IntervalInduction
  <2>5. \A i \in 1..n - k : i \in S
    BY <1>1, <1>4, <2>4
  <2>. QED  BY <2>5 DEF S
<1>. QED  BY <1>5, <1>6 DEF n

(* Every other step leaves the times as they are.                          *)
LEMMA OtherUntil ==
  ASSUME IInv, NoSleepUnderflow, [Next]_vars, ~TimerTick,
         ~\E ticks \in 1..MaxSleep : TimeSleep(ticks)
  PROVE  \A i \in 0..Len(asleep) : Until'[i] = Until[i]
<1>. DEFINE n == Len(asleep)
<1>1. /\ Until[0] = 0
      /\ \A i \in 0..n : Until[i] \in Nat
      /\ \A i \in 1..n : Until[i] = Until[i-1] + sleep_for[asleep[i]]
      /\ \A i \in 1..n : sleep_for[asleep[i]] \in Nat
      /\ n \in Nat /\ asleep \in Seq(TCB)
  BY TimesNow
<1>2. asleep' = asleep /\ \A t \in Elements(asleep) : sleep_for'[t] = sleep_for[t]
  BY OtherTimes
<1>3. /\ Until'[0] = 0
      /\ \A i \in 0..n : Until'[i] \in Nat
      /\ \A i \in 1..n : Until'[i] = Until'[i-1] + sleep_for[asleep[i]]
  BY <1>1, <1>2, TimesNext DEF Elements
<1>. HIDE DEF n
<1>4. \A i \in 1..n : Until'[i] - Until'[i - 1] = Until[i] - Until[i - 1]
  <2>. SUFFICES ASSUME NEW i \in 1..n
                PROVE  Until'[i] - Until'[i - 1] = Until[i] - Until[i - 1]
    OBVIOUS
  <2>1. /\ Until'[i] = Until'[i - 1] + sleep_for[asleep[i]] /\ Until'[i - 1] \in Nat
        /\ Until[i] = Until[i - 1] + sleep_for[asleep[i]] /\ Until[i - 1] \in Nat
        /\ sleep_for[asleep[i]] \in Nat
    BY <1>1, <1>3
  <2>. QED  BY <2>1
<1>5. AddUpAlike(n, Until', Until)
  BY <1>1, <1>3, <1>4 DEF AddUpAlike
<1>6. \A i \in 0..n : Until'[i] = Until[i]
  BY ZenonT(40), <1>1, <1>5, SameSums
<1>. QED  BY <1>6 DEF n

LEMMA SleepLeft ==
  ASSUME IInv, NoSleepUnderflow, NEW ticks \in 1..MaxSleep, TimeSleep(ticks)
  PROVE  Left[current] = 0 /\ Left' = [Left EXCEPT ![current] = ticks]
<1>. DEFINE n == Len(asleep)
<1>1. PICK k : SleepsAt(k, ticks)
  BY SleepPlace
<1>2. [Next]_vars
  BY DEF Next
<1>3. /\ \A i \in 1..n : Left[asleep[i]] = Until[i]
      /\ \A t \in TCB : t \notin Elements(asleep) => Left[t] = 0
      /\ Left = [t \in TCB |-> Left[t]]
      /\ asleep \in Seq(TCB) /\ n \in Nat /\ DOMAIN asleep = 1..n
  BY TimesNow DEF LeftIs
<1>4. /\ \A i \in 1..n + 1 : Left'[asleep'[i]] = Until'[i]
      /\ \A t \in TCB : t \notin Elements(asleep') => Left'[t] = 0
      /\ Left' = [t \in TCB |-> Left'[t]]
      /\ Len(asleep') = n + 1 /\ asleep' \in Seq(TCB) /\ DOMAIN asleep' = 1..n + 1
  <2>1. LeftIs' /\ Len(asleep') = n + 1 /\ asleep' \in Seq(TCB)
    BY <1>1, <1>2, TimesNext, SleepPositions, NextKeeps DEF IInv, TypeOK
  <2>. QED  BY <2>1 DEF LeftIs
<1>5. k \in Nat /\ k <= n
  BY <1>1, <1>3 DEF SleepsAt
<1>6. /\ \A i \in 1..k : asleep'[i] = asleep[i] /\ Until'[i] = Until[i]
      /\ asleep'[k + 1] = current /\ Until'[k + 1] = ticks
      /\ \A i \in k + 1..n : asleep'[i + 1] = asleep[i] /\ Until'[i + 1] = Until[i]
  <2>1. /\ \A i \in 1..k : asleep'[i] = asleep[i]
        /\ asleep'[k + 1] = current
        /\ \A i \in k + 1..n : asleep'[i + 1] = asleep[i]
    BY <1>1, SleepPositions
  <2>2. /\ \A i \in 0..k : Until'[i] = Until[i]
        /\ Until'[k + 1] = ticks
        /\ \A i \in k + 1..n : Until'[i + 1] = Until[i]
    BY <1>1, SleepUntil
  <2>3. \A i \in 1..k : i \in 0..k
    BY <1>5
  <2>. QED  BY <2>1, <2>2, <2>3
<1>7. current \in TCB /\ current \notin Elements(asleep)
  BY DEF IInv, OneListPerThread, SchedulerNeverDry
<1>. HIDE DEF n
<1>8. Left'[current] = ticks
  <2>1. k + 1 \in 1..n + 1
    BY <1>3, <1>5
  <2>2. Left'[asleep'[k + 1]] = Until'[k + 1]
    BY <1>4, <2>1
  <2>. QED  BY <1>6, <2>2
<1>9. ASSUME NEW t \in TCB, t # current
      PROVE  Left'[t] = Left[t]
  <2>1. CASE t \in Elements(asleep)
    <3>1. PICK i \in 1..n : asleep[i] = t
      BY <1>3, <2>1 DEF Elements
    <3>2. CASE i \in 1..k
      <4>1. i \in 1..n + 1 /\ asleep'[i] = t /\ Until'[i] = Until[i]
        BY <1>3, <1>6, <3>1, <3>2
      <4>. QED  BY <1>3, <1>4, <3>1, <4>1
    <3>3. CASE i \notin 1..k
      <4>1. i \in k + 1..n /\ i + 1 \in 1..n + 1
        BY <1>3, <1>5, <3>3
      <4>2. asleep'[i + 1] = t /\ Until'[i + 1] = Until[i]
        BY <1>6, <3>1, <4>1
      <4>3. Left'[asleep'[i + 1]] = Until'[i + 1]
        BY <1>4, <4>1
      <4>. QED  BY <1>3, <3>1, <4>2, <4>3
    <3>. QED  BY <3>2, <3>3
  <2>2. CASE t \notin Elements(asleep)
    <3>1. t \notin Elements(asleep')
      <4>. SUFFICES ASSUME NEW i \in 1..n + 1, asleep'[i] = t
                    PROVE  FALSE
        BY <1>4 DEF Elements
      <4>1. CASE i \in 1..k
        <5>1. i \in 1..n /\ asleep[i] = t
          BY <1>3, <1>5, <1>6, <4>1
        <5>. QED  BY <1>3, <2>2, <5>1 DEF Elements
      <4>2. CASE i = k + 1
        BY <1>6, <1>9, <4>2
      <4>3. CASE i \notin 1..k /\ i # k + 1
        <5>1. PICK j \in k + 1..n : i = j + 1
          <6>1. i - 1 \in k + 1..n /\ i = i - 1 + 1
            BY <1>3, <1>5, <4>3
          <6>. QED  BY <6>1
        <5>2. j \in 1..n /\ asleep[j] = t
          BY <1>3, <1>5, <1>6, <5>1
        <5>. QED  BY <1>3, <2>2, <5>2 DEF Elements
      <4>. QED  BY <4>1, <4>2, <4>3
    <3>. QED  BY <1>3, <1>4, <2>2, <3>1
  <2>. QED  BY <2>1, <2>2
<1>. HIDE DEF Left
<1>10. Left' = [Left EXCEPT ![current] = ticks]
  BY <1>3, <1>4, <1>7, <1>8, <1>9
<1>. QED  BY <1>3, <1>7, <1>10

LEMMA TickLeft ==
  ASSUME IInv, NoSleepUnderflow, TimerTick
  PROVE  Left' = [t \in TCB |-> IF Left[t] = 0 THEN 0 ELSE Left[t] - 1]
<1>. DEFINE n == Len(asleep)
<1>1. PICK k : TicksAt(k)
  BY TickPlace
<1>2. [Next]_vars
  BY DEF Next
<1>3. /\ \A i \in 1..n : Left[asleep[i]] = Until[i] /\ Until[i] > 0
      /\ \A t \in TCB : t \notin Elements(asleep) => Left[t] = 0
      /\ asleep \in Seq(TCB) /\ n \in Nat /\ DOMAIN asleep = 1..n
      /\ \A i \in 0..n : Until[i] \in Nat
  BY TimesNow DEF LeftIs
<1>4. /\ \A i \in 1..n - k : Left'[asleep'[i]] = Until'[i]
      /\ \A t \in TCB : t \notin Elements(asleep') => Left'[t] = 0
      /\ Left' = [t \in TCB |-> Left'[t]]
      /\ Len(asleep') = n - k /\ asleep' \in Seq(TCB) /\ DOMAIN asleep' = 1..n - k
  <2>1. LeftIs' /\ Len(asleep') = n - k /\ asleep' \in Seq(TCB)
    BY <1>1, <1>2, TimesNext, NextKeeps DEF IInv, TypeOK, TicksAt
  <2>. QED  BY <2>1 DEF LeftIs
<1>5. /\ \A i \in 1..n - k : asleep'[i] = asleep[i + k] /\ Until'[i] = Until[i + k] - 1
      /\ \A i \in 1..k : Until[i] = 1
      /\ k \in Nat /\ k <= n
  BY <1>1, <1>3, TickUntil DEF TicksAt
<1>6. \A i, j \in 1..n : asleep[i] = asleep[j] => i = j
  BY <1>3 DEF IInv, OneListPerThread, Distinct
<1>. HIDE DEF n
<1>7. ASSUME NEW t \in TCB
      PROVE  Left'[t] = IF Left[t] = 0 THEN 0 ELSE Left[t] - 1
  <2>1. CASE t \in Elements(asleep)
    <3>1. PICK i \in 1..n : asleep[i] = t
      BY <1>3, <2>1 DEF Elements
    <3>2. Left[t] = Until[i] /\ Until[i] > 0 /\ Until[i] \in Nat
      BY <1>3, <3>1
    <3>3. CASE i \in 1..k
      <4>1. t \notin Elements(asleep')
        <5>. SUFFICES ASSUME NEW j \in 1..n - k, asleep'[j] = t
                      PROVE  FALSE
          BY <1>4 DEF Elements
        <5>1. j + k \in 1..n /\ asleep[j + k] = t
          BY <1>3, <1>5
        <5>2. j + k = i
          BY <1>6, <3>1, <5>1
        <5>. QED  BY <1>3, <1>5, <3>3, <5>2
      <4>. QED  BY <1>4, <1>5, <3>2, <3>3, <4>1
    <3>4. CASE i \notin 1..k
      <4>1. PICK j \in 1..n - k : i = j + k
        <5>1. i - k \in 1..n - k /\ i = i - k + k
          BY <1>3, <1>5, <3>4
        <5>. QED  BY <5>1
      <4>2. asleep'[j] = t /\ Until'[j] = Until[i] - 1
        BY <1>5, <3>1, <4>1
      <4>3. Left'[t] = Until[i] - 1
        BY <1>4, <4>1, <4>2
      <4>. QED  BY <3>2, <4>3
    <3>. QED  BY <3>3, <3>4
  <2>2. CASE t \notin Elements(asleep)
    <3>1. t \notin Elements(asleep')
      <4>. SUFFICES ASSUME NEW j \in 1..n - k, asleep'[j] = t
                    PROVE  FALSE
        BY <1>4 DEF Elements
      <4>1. j + k \in 1..n /\ asleep[j + k] = t
        BY <1>3, <1>5
      <4>. QED  BY <1>3, <2>2, <4>1 DEF Elements
    <3>. QED  BY <1>3, <1>4, <2>2, <3>1
  <2>. QED  BY <2>1, <2>2
<1>. HIDE DEF Left
<1>. QED  BY <1>4, <1>7

LEMMA OtherLeft ==
  ASSUME IInv, NoSleepUnderflow, [Next]_vars, ~TimerTick,
         ~\E ticks \in 1..MaxSleep : TimeSleep(ticks)
  PROVE  Left' = Left
<1>. DEFINE n == Len(asleep)
<1>1. asleep' = asleep /\ \A i \in 0..n : Until'[i] = Until[i]
  BY OtherTimes, OtherUntil
<1>2. /\ \A i \in 1..n : Left[asleep[i]] = Until[i]
      /\ \A t \in TCB : t \notin Elements(asleep) => Left[t] = 0
      /\ Left = [t \in TCB |-> Left[t]]
      /\ asleep \in Seq(TCB) /\ n \in Nat /\ DOMAIN asleep = 1..n
  BY TimesNow DEF LeftIs
<1>3. /\ \A i \in 1..n : Left'[asleep[i]] = Until'[i]
      /\ \A t \in TCB : t \notin Elements(asleep) => Left'[t] = 0
      /\ Left' = [t \in TCB |-> Left'[t]]
  BY <1>1, TimesNext DEF LeftIs
<1>. HIDE DEF n, Left
<1>4. ASSUME NEW t \in TCB
      PROVE  Left'[t] = Left[t]
  <2>1. CASE t \in Elements(asleep)
    <3>1. PICK i \in 1..n : asleep[i] = t
      BY <1>2, <2>1 DEF Elements
    <3>2. i \in 0..n
      BY <1>2
    <3>. QED  BY <1>1, <1>2, <1>3, <3>1, <3>2
  <2>2. CASE t \notin Elements(asleep)
    BY <1>2, <1>3, <2>2
  <2>. QED  BY <2>1, <2>2
<1>. QED  BY <1>2, <1>3, <1>4

LEMMA StepLeft ==
  ASSUME IInv, NoSleepUnderflow, [Next]_vars
  PROVE  [Alarm!Next]_Left
<1>. USE DEF Alarm!Next, Alarm!Tick, Alarm!Sleep
<1>1. CASE \E ticks \in 1..MaxSleep : TimeSleep(ticks)
  <2>1. PICK ticks \in 1..MaxSleep : TimeSleep(ticks)
    BY <1>1
  <2>2. Left[current] = 0 /\ Left' = [Left EXCEPT ![current] = ticks] /\ current \in TCB
    BY <2>1, SleepLeft DEF IInv, SchedulerNeverDry
  <2>3. Alarm!Sleep(current, ticks)
    BY <2>2 DEF Left
  <2>. QED  BY <2>2, <2>3
<1>2. CASE TimerTick
  <2>1. Left' = [t \in TCB |-> IF Left[t] = 0 THEN 0 ELSE Left[t] - 1]
    BY <1>2, TickLeft
  <2>2. Alarm!Tick
    BY <2>1 DEF Left
  <2>. QED  BY <2>2
<1>3. CASE ~TimerTick /\ ~\E ticks \in 1..MaxSleep : TimeSleep(ticks)
  BY <1>3, OtherLeft
<1>. QED  BY <1>1, <1>2, <1>3

(* The sleep queue, with its list and its relative times, is an alarm      *)
(* clock: a time_sleep sets the caller's own count and touches no other,   *)
(* every timer tick takes one off every count, and no other handler        *)
(* changes one.  This is SleepImplemented without the liveness of          *)
(* Alarm!Spec.                                                             *)
THEOREM SleepIsAlarmClock == Spec => Alarm!Init /\ [][Alarm!Next]_Left
<1>1. Init => Alarm!Init
  <2>. SUFFICES ASSUME Init PROVE Left = [t \in TCB |-> 0]
    BY DEF Alarm!Init, Left
  <2>1. DOMAIN asleep = {}
    BY DEF Init
  <2>. QED  BY <2>1 DEF Left
<1>2. IInv /\ NoSleepUnderflow /\ [Next]_vars => [Alarm!Next]_Left
  BY StepLeft
<1>. QED  BY <1>1, <1>2, Invariant, SleepTimesSound, PTL DEF Spec
=============================================================================
