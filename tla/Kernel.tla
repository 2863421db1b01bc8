------------------------------- MODULE Kernel -------------------------------
(***************************************************************************)
(* Threads, scheduler, semaphores, sleep queue, timer and console buffers  *)
(* of the kernel: k_trap_handlers.cpp, k_tcb.cpp, k_scheduler.cpp,         *)
(* k_sem.cpp and k_tcb_sleep_queue.cpp.                                    *)
(*                                                                         *)
(* The machine has one core and a trap handler runs with interrupts off,   *)
(* so a trap is one step: the handler, the context switch it may perform,  *)
(* and what the handler of the thread switched to still has to do before   *)
(* its sret.  Steps of different threads interleave between traps.         *)
(*                                                                         *)
(* Threads are the most general clients: in any order, the running thread  *)
(* makes any system call of Calls whose arguments are legal (a semaphore   *)
(* that is open, a thread handle that was once returned).  Memory is a     *)
(* fixed number of TCB and Sem slots; a freed slot is reused, as the       *)
(* best-fit allocator reuses a freed block of the same size.               *)
(*                                                                         *)
(* A definition called faulty is no part of the specification: it is a     *)
(* variant of the next one with a slip in it, kept to see that a property  *)
(* finds the slip.                                                         *)
(***************************************************************************)
EXTENDS Integers, Sequences, FiniteSets

CONSTANTS
  TCB,                 (* addresses at which a TCB can be                  *)
  MainTcb, FlushTcb,   (* main_tcb, and the flush_tcb made at boot         *)
  Sem,                 (* addresses at which sem_open can put a semaphore  *)
  PutcSem, GetcSem,    (* putc_sem and getc_sem                            *)
  Char,                (* characters                                       *)
  NULL,
  DEFAULT_TIME_SLICE,
  IO_BUFFER_SIZE,
  Calls,               (* the system calls the clients make                *)
  MaxInit,             (* bound: initial value given to sem_open           *)
  MaxValue,            (* bound: clients do not signal a semaphore past it *)
  MaxSleep             (* bound: ticks given to time_sleep                 *)

ASSUME ThreadAssumption ==
  /\ MainTcb \in TCB
  /\ FlushTcb \in TCB \ {MainTcb}
  /\ NULL \notin TCB
  /\ NULL \notin Char

ASSUME SemAssumption ==
  /\ PutcSem # GetcSem
  /\ {PutcSem, GetcSem} \cap Sem = {}
  /\ TCB \cap (Sem \cup {PutcSem, GetcSem}) = {}

ASSUME SizeAssumption ==
  /\ DEFAULT_TIME_SLICE \in Nat \ {0}
  /\ IO_BUFFER_SIZE \in Nat \ {0}
  /\ MaxInit \in Nat
  /\ MaxValue \in Nat
  /\ MaxSleep \in Nat

-----------------------------------------------------------------------------
(* Threads that thread_create makes; only they exit and can be joined.     *)
Workers == TCB \ {MainTcb, FlushTcb}

(* Every semaphore.  The join_sem of the TCB t is named t.                 *)
SemAddr == Sem \cup {PutcSem, GetcSem} \cup TCB

(* TCBStatus.  A slot that holds no TCB is FREE; INITIALIZING and          *)
(* TERMINATING exist only inside a trap.                                   *)
Status == {"FREE", "READY", "RUNNING", "SUSPENDED"}

(* Where the code of a thread goes on when its context is restored: at     *)
(* k_tcb_start, in its own code after a dispatch, or in the handler of the *)
(* call that blocked it, which for a putc still has the character to put.  *)
(* A running thread is in its own code.                                    *)
At(place) == [place |-> place, char |-> NULL]
Putting(c) == [place |-> "putc", char |-> c]

Continuation ==
  {At(place) : place \in {"start", "code", "sleep", "wait", "join", "getc"}}
    \cup {Putting(c) : c \in Char}

VARIABLES
  current,      \* current_tcb
  status,       \* status of each TCB
  at,           \* the continuation saved in each context
  interrupted,  \* "interrupted" of each TCB: its last blocking wait was cut
  sleep_for,    \* "sleep_for" of each TCB: ticks after its predecessor
  ready,        \* Scheduler::queue
  asleep,       \* sleep_queue
  open,         \* the semaphores that exist
  value,        \* Sem::value
  waiting,      \* Sem::suspended_tcbs
  timer_ticks,
  putc_buffer,
  getc_buffer,
  flushed,      \* the flush loop is between flush_putc_buffer and dispatch
  a0            \* what the last trap returned to the thread that runs now

SUCCESS == 0
FAILED  == -1

threadVars  == <<current, status, at, ready, timer_ticks>>
semVars     == <<open, value, waiting, interrupted>>
sleepVars   == <<asleep, sleep_for>>
consoleVars == <<putc_buffer, getc_buffer>>
vars == <<threadVars, semVars, sleepVars, consoleVars, flushed, a0>>

(* The state main() leaves once interrupts are on: the flush thread is     *)
(* created and waits for its first turn, main runs.                        *)
Init ==
  /\ current = MainTcb
  /\ status = [t \in TCB |-> CASE t = MainTcb  -> "RUNNING"
                               [] t = FlushTcb -> "READY"
                               [] OTHER        -> "FREE"]
  /\ at = [t \in TCB |-> IF t = MainTcb THEN At("code") ELSE At("start")]
  /\ interrupted = [t \in TCB |-> FALSE]
  /\ sleep_for = [t \in TCB |-> 0]
  /\ ready = <<FlushTcb>>
  /\ asleep = <<>>
  /\ open = {PutcSem, GetcSem, FlushTcb}
  /\ value = [s \in SemAddr |-> IF s = PutcSem THEN IO_BUFFER_SIZE ELSE 0]
  /\ waiting = [s \in SemAddr |-> <<>>]
  /\ timer_ticks = 0
  /\ putc_buffer = <<>>
  /\ getc_buffer = <<>>
  /\ flushed = FALSE
  /\ a0 = NULL

-----------------------------------------------------------------------------
(* Queue<char, IO_BUFFER_SIZE>: put drops what does not fit, and get       *)
(* leaves an empty queue empty (its answer is then a default character).   *)

Put(buffer, c) ==
  IF Len(buffer) < IO_BUFFER_SIZE THEN Append(buffer, c) ELSE buffer

(* Faulty: the character read stays in the queue.                          *)
GetKeeping(buffer) == buffer

Get(buffer) == IF buffer = <<>> THEN <<>> ELSE Tail(buffer)

First(buffer) == IF buffer = <<>> THEN NULL ELSE Head(buffer)

-----------------------------------------------------------------------------
(* Scheduler::put_tcb of the threads of a sequence, one after the other.   *)

Elements(q) == {q[i] : i \in DOMAIN q}

(* Faulty: the status of the threads is left as it was.                    *)
MakeReadyUnmarked(st, q) == st

MakeReady(st, q) == [t \in TCB |-> IF t \in Elements(q) THEN "READY" ELSE st[t]]

(* Faulty: every wait looks at the interrupted flag.                       *)
FinishAnyWait(t, cont, blocked, input) ==
  /\ getc_buffer' = IF cont.place = "getc" THEN Get(input) ELSE input
  /\ putc_buffer' = IF cont.place = "putc" THEN Put(putc_buffer, cont.char) ELSE putc_buffer
  /\ a0' = CASE cont.place = "getc" -> First(input)
             [] cont.place = "wait" -> IF interrupted[t] THEN FAILED ELSE SUCCESS
             [] cont.place = "sleep" -> SUCCESS
             [] cont.place \in {"join", "putc"} -> FAILED
             [] OTHER -> NULL

(* The rest of the call that thread t made, from the return of Sem::wait   *)
(* or of dispatch to the sret.  Only a wait that blocked looks at the      *)
(* interrupted flag; getc and putc ignore what wait returned.              *)
Finish(t, cont, blocked, input) ==
  /\ getc_buffer' = IF cont.place = "getc" THEN Get(input) ELSE input
  /\ putc_buffer' = IF cont.place = "putc" THEN Put(putc_buffer, cont.char) ELSE putc_buffer
  /\ a0' = CASE cont.place = "getc" -> First(input)
             [] cont.place = "wait" -> IF blocked /\ interrupted[t] THEN FAILED ELSE SUCCESS
             [] cont.place = "sleep" -> SUCCESS
             [] cont.place \in {"join", "putc"} -> FAILED
             [] OTHER -> NULL

(* current_tcb = next_tcb(); yield(old, current_tcb).  st, queue, ticks and *)
(* input are the statuses, ready queue, timer_ticks and getc_buffer as the *)
(* handler has made them, cont what the old thread still has to do.  A     *)
(* thread whose context was saved returns a second time from               *)
(* k_save_context and resets timer_ticks, a new one does not.  With        *)
(* nothing to run, current_tcb is null and the old thread goes on.         *)
Switch(st, queue, cont, ticks, input) ==
  LET saved == [at EXCEPT ![current] = cont]
      next  == Head(queue)
  IN IF queue = <<>>
       THEN /\ current' = NULL
            /\ status' = st
            /\ at' = saved
            /\ ready' = queue
            /\ timer_ticks' = ticks
            /\ getc_buffer' = input
            /\ UNCHANGED <<putc_buffer, a0>>
       ELSE /\ current' = next
            /\ status' = [st EXCEPT ![next] = "RUNNING"]
            /\ at' = [saved EXCEPT ![next] = At("code")]
            /\ ready' = Tail(queue)
            /\ timer_ticks' = IF saved[next] = At("start") THEN ticks ELSE 0
            /\ Finish(next, saved[next], TRUE, input)

(* Faulty dispatches: one that forgets to put the old thread in the queue, *)
(* and one that puts it behind the first thread.                           *)
DispatchNotPut(st, queue, ticks, input) ==
  Switch([st EXCEPT ![current] = "READY"], queue, At("code"), ticks, input)

DispatchSecond(st, queue, ticks, input) ==
  LET k == IF queue = <<>> THEN 0 ELSE 1
  IN Switch([st EXCEPT ![current] = "READY"],
            SubSeq(queue, 1, k) \o <<current>> \o SubSeq(queue, k + 1, Len(queue)),
            At("code"), ticks, input)

(* dispatch() of a thread that runs: it goes to the end of the queue.      *)
Dispatch(st, queue, ticks, input) ==
  Switch([st EXCEPT ![current] = "READY"], Append(queue, current),
         At("code"), ticks, input)

-----------------------------------------------------------------------------
(* Semaphores.                                                             *)

(* Faulty: a signal resumes nobody when it brings the value to zero.       *)
UnblockedBelowZero(s, n) ==
  LET waking == Cardinality({i \in 1..n : value[s] + i < 0})
  IN SubSeq(waiting[s], 1, IF waking <= Len(waiting[s]) THEN waking
                                                        ELSE Len(waiting[s]))

(* The threads that n signals of s resume: a signal that leaves the value  *)
(* at or below zero takes one thread from the list, if there is one.       *)
Unblocked(s, n) ==
  LET waking == Cardinality({i \in 1..n : value[s] + i <= 0})
  IN SubSeq(waiting[s], 1, IF waking <= Len(waiting[s]) THEN waking
                                                        ELSE Len(waiting[s]))

(* n calls of Sem::signal; the caller makes Unblocked(s, n) ready.         *)
Signal(s, n) ==
  /\ value' = [value EXCEPT ![s] = @ + n]
  /\ waiting' = [waiting EXCEPT ![s] = SubSeq(@, Len(Unblocked(s, n)) + 1, Len(@))]
  /\ interrupted' = [t \in TCB |-> IF t \in Elements(Unblocked(s, n)) THEN FALSE
                                                                      ELSE interrupted[t]]
  /\ UNCHANGED open

(* Sem::wait by the running thread, whose handler goes on at cont.         *)
Wait(s, cont) ==
  /\ value' = [value EXCEPT ![s] = @ - 1]
  /\ UNCHANGED <<open, interrupted>>
  /\ IF value[s] - 1 < 0
       THEN /\ waiting' = [waiting EXCEPT ![s] = Append(@, current)]
            /\ Switch([status EXCEPT ![current] = "SUSPENDED"], ready, cont,
                      timer_ticks, getc_buffer)
       ELSE /\ UNCHANGED <<threadVars, waiting>>
            /\ Finish(current, cont, FALSE, getc_buffer)

(* Sem::close and free_sem: every waiting thread is cut from its wait; the *)
(* caller makes waiting[s] ready.                                          *)
Close(s) ==
  /\ interrupted' = [t \in TCB |-> IF t \in Elements(waiting[s]) THEN TRUE
                                                                 ELSE interrupted[t]]
  /\ waiting' = [waiting EXCEPT ![s] = <<>>]
  /\ value' = [value EXCEPT ![s] = 0]
  /\ open' = open \ {s}

-----------------------------------------------------------------------------
(* TCBSleepQueue.  Until[i] is the time at which the i-th sleeper wakes.   *)

Until[i \in 0..Len(asleep)] ==
  IF i = 0 THEN 0 ELSE Until[i-1] + sleep_for[asleep[i]]

(* Faulty: the successor of a new sleeper keeps its time; or the operands  *)
(* of its subtraction are swapped.                                         *)
TimeAfterKept(u, delta) == sleep_for[u]

TimeAfterSwapped(u, delta) == delta - sleep_for[u]

(* The time of sleeper u relative to a new predecessor.                    *)
TimeAfter(u, delta) == sleep_for[u] - delta

(* put_to_sleep: behind every thread that wakes no later; its delta is     *)
(* taken off the delta of its successor.                                   *)
PutToSleep(t, ticks) ==
  LET before == {i \in 1..Len(asleep) : \A j \in 1..i : ticks >= Until[j]}
      k      == Cardinality(before)
      delta  == ticks - Until[k]
  IN /\ asleep' = SubSeq(asleep, 1, k) \o <<t>> \o SubSeq(asleep, k + 1, Len(asleep))
     /\ sleep_for' = [u \in TCB |->
          IF u = t THEN delta
          ELSE IF k < Len(asleep) /\ u = asleep[k + 1] THEN TimeAfter(u, delta)
          ELSE sleep_for[u]]

(* sleep_for after the head of the queue has lost a tick.                  *)
Ticked == IF asleep = <<>> THEN sleep_for
                           ELSE [sleep_for EXCEPT ![Head(asleep)] = @ - 1]

(* The threads TCBSleepQueue::timer_tick takes off the queue.              *)
Due ==
  LET expired == {i \in 1..Len(asleep) : \A j \in 1..i : Ticked[asleep[j]] <= 0}
  IN SubSeq(asleep, 1, Cardinality(expired))

-----------------------------------------------------------------------------
(* System calls of the clients.                                            *)

Calling(call) == call \in Calls /\ current \in TCB \ {FlushTcb}

(* CREATE_THREAD_CODE.  It fails when there is no room for another TCB.    *)
ThreadCreate ==
  /\ Calling("thread_create")
  /\ IF \E t \in Workers : status[t] = "FREE"
       THEN /\ \E t \in Workers :
                 /\ status[t] = "FREE"
                 /\ status' = [status EXCEPT ![t] = "READY"]
                 /\ at' = [at EXCEPT ![t] = At("start")]
                 /\ interrupted' = [interrupted EXCEPT ![t] = FALSE]
                 /\ sleep_for' = [sleep_for EXCEPT ![t] = 0]
                 /\ open' = open \cup {t}
                 /\ value' = [value EXCEPT ![t] = 0]
                 /\ waiting' = [waiting EXCEPT ![t] = <<>>]
                 /\ ready' = Append(ready, t)
            /\ a0' = SUCCESS
       ELSE /\ a0' = FAILED
            /\ UNCHANGED <<status, at, sleep_for, ready, semVars>>
  /\ UNCHANGED <<current, timer_ticks, asleep, consoleVars, flushed>>

(* Faulty: free_tcb is forgotten.                                          *)
StatusNotFreed(st, t) == [st EXCEPT ![t] = "TERMINATING"]

(* free_tcb: the slot can be given to another thread.                      *)
StatusFreed(st, t) == [st EXCEPT ![t] = "FREE"]

(* THREAD_EXIT_CODE.  main_tcb cannot exit.  The TCB and its join_sem are  *)
(* freed, the threads that joined it are made ready.                       *)
ThreadExit ==
  /\ Calling("thread_exit")
  /\ IF current # MainTcb
       THEN /\ Close(current)
            /\ Switch(MakeReady(StatusFreed(status, current), waiting[current]),
                      ready \o waiting[current], At("start"), timer_ticks, getc_buffer)
       ELSE /\ a0' = FAILED
            /\ UNCHANGED <<threadVars, semVars, consoleVars>>
  /\ UNCHANGED <<sleepVars, flushed>>

(* THREAD_DISPATCH_CODE.                                                   *)
ThreadDispatch ==
  /\ Calling("thread_dispatch")
  /\ Dispatch(status, ready, timer_ticks, getc_buffer)
  /\ UNCHANGED <<semVars, sleepVars, flushed>>

(* THREAD_JOIN_CODE.  t is any handle; free_tcb left no join_sem behind.   *)
ThreadJoin(t) ==
  /\ Calling("thread_join")
  /\ IF t \in open
       THEN Wait(t, At("join"))
       ELSE /\ a0' = FAILED
            /\ UNCHANGED <<threadVars, semVars, consoleVars>>
  /\ UNCHANGED <<sleepVars, flushed>>

(* SEM_OPEN_CODE, with room for the semaphore.                             *)
SemOpen(s, init) ==
  /\ Calling("sem_open")
  /\ s \notin open
  /\ open' = open \cup {s}
  /\ value' = [value EXCEPT ![s] = init]
  /\ waiting' = [waiting EXCEPT ![s] = <<>>]
  /\ a0' = SUCCESS
  /\ UNCHANGED <<threadVars, interrupted, sleepVars, consoleVars, flushed>>

(* SEM_CLOSE_CODE.                                                         *)
SemClose(s) ==
  /\ Calling("sem_close")
  /\ s \in open
  /\ Close(s)
  /\ status' = MakeReady(status, waiting[s])
  /\ ready' = ready \o waiting[s]
  /\ a0' = SUCCESS
  /\ UNCHANGED <<current, at, timer_ticks, sleepVars, consoleVars, flushed>>

(* SEM_WAIT_CODE.                                                          *)
SemWait(s) ==
  /\ Calling("sem_wait")
  /\ s \in open
  /\ Wait(s, At("wait"))
  /\ UNCHANGED <<sleepVars, flushed>>

(* SEM_SIGNAL_CODE.                                                        *)
SemSignal(s) ==
  /\ Calling("sem_signal")
  /\ s \in open
  /\ value[s] < MaxValue
  /\ Signal(s, 1)
  /\ status' = MakeReady(status, Unblocked(s, 1))
  /\ ready' = ready \o Unblocked(s, 1)
  /\ a0' = SUCCESS
  /\ UNCHANGED <<current, at, timer_ticks, sleepVars, consoleVars, flushed>>

(* TIME_SLEEP_CODE.                                                        *)
TimeSleep(ticks) ==
  /\ Calling("time_sleep")
  /\ PutToSleep(current, ticks)
  /\ Switch([status EXCEPT ![current] = "SUSPENDED"], ready, At("sleep"),
            timer_ticks, getc_buffer)
  /\ UNCHANGED <<semVars, flushed>>

(* GET_C_CODE.                                                             *)
Getc ==
  /\ Calling("getc")
  /\ Wait(GetcSem, At("getc"))
  /\ UNCHANGED <<sleepVars, flushed>>

(* PUT_C_CODE.                                                             *)
Putc(c) ==
  /\ Calling("putc")
  /\ Wait(PutcSem, Putting(c))
  /\ UNCHANGED <<sleepVars, flushed>>

-----------------------------------------------------------------------------
(* Interrupts, and the flush thread.                                       *)

(* Faulty: preempts a tick late.                                           *)
SliceOverLate(ticks) == ticks > DEFAULT_TIME_SLICE

(* The time slice of the running thread is used up after ticks.            *)
SliceOver(ticks) == ticks >= DEFAULT_TIME_SLICE

(* k_handle_timer: sleepers wake first, then the time slice is looked at.  *)
TimerTick ==
  /\ current \in TCB
  /\ asleep' = SubSeq(asleep, Len(Due) + 1, Len(asleep))
  /\ sleep_for' = Ticked
  /\ IF SliceOver(timer_ticks + 1)
       THEN Dispatch(MakeReady(status, Due), ready \o Due, timer_ticks + 1, getc_buffer)
       ELSE /\ status' = MakeReady(status, Due)
            /\ ready' = ready \o Due
            /\ timer_ticks' = timer_ticks + 1
            /\ a0' = NULL
            /\ UNCHANGED <<current, at, consoleVars>>
  /\ UNCHANGED <<semVars, flushed>>

(* k_handle_console with a character c received.  With getc_buffer full    *)
(* the character is dropped, and nothing here changes.                     *)
ConsoleInterrupt(c) ==
  /\ current \in TCB
  /\ Len(getc_buffer) < IO_BUFFER_SIZE
  /\ Signal(GetcSem, 1)
  /\ Dispatch(MakeReady(status, Unblocked(GetcSem, 1)),
              ready \o Unblocked(GetcSem, 1), timer_ticks, Put(getc_buffer, c))
  /\ UNCHANGED <<sleepVars, flushed>>

(* flush_putc_buffer in the flush thread, interrupts masked: the console   *)
(* takes n characters before it is not ready or the buffer is empty.       *)
FlushPutc(n) ==
  /\ current = FlushTcb
  /\ ~flushed
  /\ n <= Len(putc_buffer)
  /\ putc_buffer' = SubSeq(putc_buffer, n + 1, Len(putc_buffer))
  /\ Signal(PutcSem, n)
  /\ status' = MakeReady(status, Unblocked(PutcSem, n))
  /\ ready' = ready \o Unblocked(PutcSem, n)
  /\ flushed' = TRUE
  /\ a0' = NULL
  /\ UNCHANGED <<current, at, timer_ticks, sleepVars, getc_buffer>>

(* thread_dispatch in the flush thread, which then loops.                  *)
FlushDispatch ==
  /\ current = FlushTcb
  /\ flushed
  /\ flushed' = FALSE
  /\ Dispatch(status, ready, timer_ticks, getc_buffer)
  /\ UNCHANGED <<semVars, sleepVars>>

-----------------------------------------------------------------------------
Next ==
  \/ ThreadCreate
  \/ ThreadExit
  \/ ThreadDispatch
  \/ \E t \in Workers : ThreadJoin(t)
  \/ \E s \in Sem, init \in 0..MaxInit : SemOpen(s, init)
  \/ \E s \in Sem : SemClose(s)
  \/ \E s \in Sem : SemWait(s)
  \/ \E s \in Sem : SemSignal(s)
  \/ \E ticks \in 1..MaxSleep : TimeSleep(ticks)
  \/ Getc
  \/ \E c \in Char : Putc(c)
  \/ TimerTick
  \/ \E c \in Char : ConsoleInterrupt(c)
  \/ \E n \in 0..IO_BUFFER_SIZE : FlushPutc(n)
  \/ FlushDispatch

Spec == Init /\ [][Next]_vars

-----------------------------------------------------------------------------
(* What has a type has that type.                                          *)
TypeOK ==
  /\ current \in TCB \cup {NULL}
  /\ status \in [TCB -> Status]
  /\ at \in [TCB -> Continuation]
  /\ interrupted \in [TCB -> BOOLEAN]
  /\ sleep_for = [t \in TCB |-> sleep_for[t]]
  /\ ready \in Seq(TCB)
  /\ asleep \in Seq(TCB)
  /\ open \subseteq SemAddr
  /\ value \in [SemAddr -> Int]
  /\ waiting \in [SemAddr -> Seq(TCB)]
  /\ timer_ticks \in Nat
  /\ putc_buffer \in Seq(Char)
  /\ getc_buffer \in Seq(Char)
  /\ flushed \in BOOLEAN
  /\ a0 \in {SUCCESS, FAILED, NULL} \cup Char

-----------------------------------------------------------------------------
(* Safety.                                                                 *)

(* One thread runs at every moment and it is current_tcb: the flush thread *)
(* is never suspended and never exits, so next_tcb always finds a thread   *)
(* and no handler dereferences a null current_tcb.                         *)
SchedulerNeverDry ==
  /\ current \in TCB
  /\ \A t \in TCB : status[t] = "RUNNING" <=> t = current
  /\ status[FlushTcb] \in {"READY", "RUNNING"}

(* The next and prev pointers of a TCB serve every list of the kernel, so  *)
(* a TCB may be in one list at a time, once.  A ready thread is in the     *)
(* ready queue; a suspended one is in the sleep queue or waits on a        *)
(* semaphore, from where a tick, a signal or a close will bring it back;   *)
(* a running or freed TCB is in no list.  A semaphore that is closed has   *)
(* left no thread behind; the join_sem of a thread exists while its TCB    *)
(* does, and the console semaphores always.                                *)
Distinct(q) == \A i, j \in DOMAIN q : q[i] = q[j] => i = j

OneListPerThread ==
  /\ Distinct(ready)
  /\ Distinct(asleep)
  /\ \A s \in SemAddr : Distinct(waiting[s])
  /\ \A s \in SemAddr : Elements(waiting[s]) \cap Elements(asleep) = {}
  /\ \A r, s \in SemAddr : r # s => Elements(waiting[r]) \cap Elements(waiting[s]) = {}
  /\ \A t \in TCB :
       /\ status[t] = "READY" <=> t \in Elements(ready)
       /\ status[t] = "SUSPENDED" <=>
            t \in Elements(asleep) \/ \E s \in SemAddr : t \in Elements(waiting[s])
       /\ t \in open <=> status[t] # "FREE" /\ t # MainTcb
  /\ \A s \in SemAddr \ open : waiting[s] = <<>>
  /\ {PutcSem, GetcSem} \subseteq open

(* A semaphore that is negative owes its deficit to exactly that many      *)
(* threads, and one that is not has no thread waiting.                     *)
ValueCountsWaiters ==
  \A s \in open : Len(waiting[s]) = IF value[s] < 0 THEN -value[s] ELSE 0

(* Threads that were given their permit and have not yet resumed.          *)
Granted(s) == {t \in TCB : status[t] = "READY" /\ at[t] \in s}
PositivePart(v) == IF v > 0 THEN v ELSE 0

(* Every place of putc_buffer is free for a putc to come, promised to a    *)
(* putc already resumed, or holds a character: a putc finds room, and no   *)
(* character is dropped by Queue::put.                                     *)
NoOutputDropped ==
  Len(putc_buffer) + Cardinality(Granted({Putting(c) : c \in Char}))
    + PositivePart(value[PutcSem]) = IO_BUFFER_SIZE

(* Every character of getc_buffer is for a getc to come or is promised to  *)
(* one already resumed: a getc finds a character, never an empty queue.    *)
NoInputInvented ==
  Len(getc_buffer) =
    Cardinality(Granted({At("getc")})) + PositivePart(value[GetcSem])

(* The relative times are unsigned: one taken below zero would be a sleep  *)
(* of nearly 2^64 ticks.  None is, and after a tick the first sleeper has  *)
(* time left, or it would have been woken.                                 *)
NoSleepUnderflow ==
  /\ \A t \in TCB : sleep_for[t] \in 0..MaxSleep
  /\ asleep # <<>> => sleep_for[Head(asleep)] > 0

(* Round robin: a step takes at most the first thread off the ready queue  *)
(* and adds at its end, whatever it wakes, preempts or creates.            *)
InTurn(before, after) ==
  \E k \in 0..1 :
    /\ k <= Len(before)
    /\ Len(after) >= Len(before) - k
    /\ \A i \in k + 1..Len(before) : after[i - k] = before[i]

NoOvertaking == [][InTurn(ready, ready')]_vars

-----------------------------------------------------------------------------
(* Refinement.                                                             *)

(* The semaphores keep the promise of Semaphores: counters that go         *)
(* negative, threads resumed through the ready queue and the interrupted   *)
(* flag amount to permits given first come, first served.                  *)
Promised == INSTANCE Semaphores WITH
  Thread     <- TCB,
  Semaphore  <- SemAddr,
  MaxPermits <- IO_BUFFER_SIZE + MaxInit,
  exists     <- open,
  permits    <- [s \in SemAddr |-> PositivePart(value[s])],
  queue      <- waiting,
  cut        <- {t \in TCB : interrupted[t]}

SemaphoresImplemented == Promised!Spec

(* The relative times of the sleep queue add up to the ticks each sleeper  *)
(* asked for: inserting one disturbs no other, and all who are due wake at *)
(* their tick.                                                             *)
Alarm == INSTANCE AlarmClock WITH
  Thread   <- TCB,
  MaxTicks <- MaxSleep,
  left     <- [t \in TCB |->
                 IF \E i \in DOMAIN asleep : asleep[i] = t
                   THEN Until[CHOOSE i \in DOMAIN asleep : asleep[i] = t]
                   ELSE 0]

SleepImplemented == Alarm!Spec

-----------------------------------------------------------------------------
(* Fairness and liveness.                                                  *)

(* The timer goes on interrupting; nothing is assumed of the clients.      *)
TimerFairness == WF_vars(TimerTick)

(* A flush thread that gets the CPU again and again goes on in its loop,   *)
(* however many characters the console takes in a turn; and a console that *)
(* is offered characters again and again takes some, perhaps all of them   *)
(* each time.                                                              *)
FlushFairness ==
  /\ SF_vars(FlushDispatch)
  /\ SF_vars(\E n \in 0..IO_BUFFER_SIZE : FlushPutc(n))
  /\ SF_vars(\E n \in 1..IO_BUFFER_SIZE : FlushPutc(n))

(* Every ready thread gets the CPU, though no thread ever gives it up of   *)
(* its own accord.                                                         *)
ReadyRuns == \A t \in TCB : status[t] = "READY" ~> current = t

(* A thread that asked to print is not kept blocked: its character goes    *)
(* into the buffer, though other threads go on printing.                   *)
PutcReturns ==
  \A t \in TCB : (\E c \in Char : at[t] = Putting(c)) ~> at[t] = At("code")
=============================================================================
