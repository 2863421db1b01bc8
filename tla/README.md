# A TLA+ verification of the RISC-V OS1 kernel

The program is a teaching kernel for one RV64 core (`src/project`): threads
with preemptive round robin, semaphores, sleeping, a best-fit allocator, and a
console whose input and output are buffered by the kernel.  This directory
holds TLA+ modules that model it, TLC configurations that check them on small
instances, and proofs that TLAPS checks for every instance.  Paths below are
relative to `src/project`.

## 1. The system

The kernel runs in traps.  A system call (`ecall`), a timer tick and a console
interrupt enter through `src/k_traps.S`, run a handler of
`src/k_trap_handlers.cpp` on the kernel stack of the running thread with
interrupts off, and leave with `sret`.  A handler may switch threads: `yield`
saves the context of the old thread like `setjmp` and resumes the new one in
the middle of the handler *it* was in.  The only kernel code outside a trap is
the loop of the flush thread, which masks interrupts itself, and the library
(`src/syscall_c.cpp`, `src/console.cpp`, the C++ classes), which does not.

| component | state | operations | correct when |
|---|---|---|---|
| threads (`k_tcb`) | TCB: status, saved context, `interrupted`, `join_sem`, list pointers; `current_tcb`, `timer_ticks` | `create_tcb`, `free_tcb`, `yield`, `dispatch`, exit, join | one thread runs and is `current_tcb`; every other is where something will find it; a freed TCB is nowhere |
| scheduler (`k_scheduler`) | FIFO of ready TCBs, the flush thread | `put_tcb`, `next_tcb` | never empty when asked; first come, first served; nobody starves |
| semaphores (`k_sem`) | `value`, FIFO of suspended TCBs | open, wait, signal, close | permits in order of arrival; a wait fails exactly when the semaphore was closed under it |
| sleep queue (`k_tcb_sleep_queue`) | list of TCBs with ticks relative to the predecessor | `put_to_sleep`, `timer_tick` | each sleeper wakes at its own tick |
| console buffers (`k_trap_handlers`, `queue.hpp`) | two ring buffers, two semaphores that count places and characters | getc, putc, console interrupt, flush | nothing dropped, nothing invented, a blocked putc returns |
| allocator (`k_memory`) | list of free runs kept in the free memory, table of sizes given out | `alloc`, `free`, `merge_blocks` | every block free or given once; free runs sorted and maximal; refuses only when it must |
| lists (`list.hpp`) | head and tail of each list, `next` and `prev` of each TCB | add and take at both ends | each list reads the same from both ends; no TCB in two |
| console (`console.cpp`) | a static flag and a semaphore; the string and index of the line editor | `print_string`, `print_uint64`, `get_string` | one thread at a time, everybody gets a turn; lines whole; what is held is what is shown |
| trap entry, context save (`*.S`) | registers, two stacks per thread | save, restore, switch stacks | a context resumes where it was saved, as if the thread had a CPU of its own |
| C++ API (`thread.cpp`, `semaphore.cpp`, `periodic_thread.cpp`, `cpp_allocators.cpp`) | handles, `period` | wrappers of the C API, constructors and destructors | a thread that is terminated ends and lets go who waits for it, and none outlives its object |
| boot (`main.cpp`), tests, binary libraries | | | |

The components share one structure: the pointers `next` and `prev` of a TCB,
used by the ready queue, every semaphore and the sleep queue alike.  All of
them call `Scheduler::put_tcb`; the console is built on semaphores, join on a
semaphore of the TCB, and thread and semaphore memory on the allocator.

What is hard here: preemption between any two traps; a resumed thread that
finishes a handler it began long ago, when flags, values and buffers were
different; handles that are addresses of memory that may have been given away;
unsigned relative times; counters that go negative by design; a data structure
in the memory it manages; and library code that is preempted though it was
written as if it were not.  `PROJECT.json` lists each hazard at its line, with
the properties aimed at it.

## 2. The modules

| module | models | role |
|---|---|---|
| `Kernel` | threads, scheduler, semaphores, sleep queue, system calls, timer, console buffers, flush thread | the core |
| `Semaphores` | – | what semaphores promise; `Kernel` implements it |
| `AlarmClock` | – | what `time_sleep` promises; `Kernel` implements it |
| `TimeSlice` | `Kernel` + ticks since the running thread got the CPU | judges preemption |
| `WaitResults` | `Kernel` + which threads a close took off a list | judges what `sem_wait` returns |
| `JoinHandles` | `Kernel` + which thread a handle was returned for | judges `thread_join` |
| `Lists` | `list.hpp` and `k_tcb_sleep_queue.cpp` on pointers | below the sequences of `Kernel` |
| `Queues` | – | what the lists promise; `Lists` implements it |
| `ContextSwitch` | `*.S`, `yield`, `create_tcb`, `prepare_user_mode`: registers, stacks, contexts | below the continuations of `Kernel` |
| `PrivateCPU` | – | registers for each thread; `ContextSwitch` implements it |
| `ConsoleLock` | `console_lock`, `console_unlock` at statement level | library code outside the kernel |
| `Terminal` | `ConsoleLock` + `print_string`, `print_uint64`, `get_string`, `putc`, the ring of `queue.hpp`, the panic | what is said under the lock, and past it |
| `ThreadObjects` | `PeriodicThread` and `Semaphore` objects, TCB addresses, memory that runs out | the C++ API above the kernel |
| `Memory` | `alloc`, `free`, `merge_blocks`, `to_blocks`, with the list as pointers | the allocator |
| `Heap` | – | what a heap promises, in bytes; `MemoryRequests` shows that `Memory` implements it |
| `MemoryRequests` | `Memory` + what clients asked for and hold | judges `mem_alloc` |
| `HeapLayout` | the constructor of the allocator | functions; the theorem about them is in `MemoryProofs` |
| `MCKernel`, `MCContext`, `MCTerminal` | – | symmetry and messages, for TLC |
| `KernelProofs` | – | types, statuses and lists of `Kernel` |
| `QueueProofs` | – | order, semaphores, results of waits, console buffers, time slice and sleep queue of `Kernel` |
| `ListProofs` | – | theorems about `Lists` |
| `ContextProofs` | – | theorems about `ContextSwitch` |
| `MemoryProofs` | – | theorems about `Memory`, `MemoryRequests` and `HeapLayout` |
| `ConsoleProofs` | – | theorems about `ConsoleLock` and `Terminal` |
| `ObjectProofs` | – | theorem about `ThreadObjects` |
| `Induction` | – | induction over numbers, for the proofs |

A definition called faulty is a slip a programmer could have made; it is used by
no specification and shows that a property sees the slip.

### Kernel

A trap is one action.  This is exact, not an abstraction: interrupts are off in
a handler, there is one core, and nothing else can run before the `sret`.  An
action that switches threads therefore also performs what the thread switched
*to* still had to do in the handler it was in.  That is what `at` is for: where
the saved context of a thread goes on – `start` (at `k_tcb_start`), `code`
(after a `dispatch`), or inside `sleep`, `wait`, `join`, `getc` or a `putc`
with its character.  `Finish` is the rest of the call from there: it takes the
character out of `getc_buffer`, puts the one into `putc_buffer`, reads
`interrupted`, and sets `a0`.

| TLA+ | code |
|---|---|
| `current`, `status`, `ready`, `timer_ticks` | `current_tcb`, `TCB::status`, `Scheduler::queue`, `timer_ticks` |
| `at` | the continuation in `TCB::context` and on the kernel stack |
| `open`, `value`, `waiting`, `interrupted` | the `Sem`s that exist, `Sem::value`, `Sem::suspended_tcbs`, `TCB::interrupted` |
| `asleep`, `sleep_for` | `sleep_queue`, `TCB::sleep_for` |
| `putc_buffer`, `getc_buffer` | the two `Queue`s |
| `flushed` | the flush thread is between its two calls |
| `a0` | the result the running thread has just got |
| `Switch`, `Dispatch` | `yield`, `dispatch` |
| `Wait`, `Signal`, `Close` | `Sem::wait` with `block`, `Sem::signal` and `Sem::close` with `unblock` |
| `PutToSleep`, `Ticked`, `Due` | `put_to_sleep`, `timer_tick` |
| `ThreadCreate` … `Putc` | the cases of `k_handle_ecall` |
| `TimerTick`, `ConsoleInterrupt`, `FlushPutc`, `FlushDispatch` | `k_handle_timer`, `k_handle_console`, `flush_putc_buffer`, `thread_dispatch` in the loop |

The clients are arbitrary: the running thread makes any call of `Calls` with a
legal argument, at any time, for ever.  The console takes any number of
characters each time the flush thread offers them and sends a character at any
time; when `getc_buffer` is full, `fill_getc_buffer` reads the character and
ignores it, which changes none of the state, so that case is no step.  The
`join_sem` of a TCB is named after the TCB.  A new TCB takes any free slot:
that freed memory comes back as another TCB is what makes stale handles
interesting.

Abstractions: a list is a sequence, so a TCB that is in two lists shows as
such instead of corrupting one; a character is a model value; creating a
thread takes one trap, though `thread_create` allocates the stack in an
earlier one; a freed TCB keeps a null `join_sem` until its slot is a TCB again
(in the code another kind of data can come to lie there); integers are
unbounded.

### ConsoleLock

Each statement of `console_lock` is a step, since the thread can be preempted
after it; `sem_wait` and `sem_signal` are traps and thus single steps.  `Early`
is the set of threads that exist before the console has been used: `{main}`
when the kernel's tests run first (`RUN_KERNEL_TESTS 1`), more when they do
not.

### Terminal

`Terminal` extends `ConsoleLock` with what happens at the console.  A call
leaves in `out` the characters its next `putc`s will put; each `Putc` is a trap.
`Type` is one turn of the loop of `get_string`, with the key `getc` returned:
it stores the key at `i`, moves `i` the way the code does (two back, or to -1,
and one on), and puts the echo in `out`.  Numbers become digits by
`GetDecimalWeight` and the loop of divisions, in a width of `NUMBER_MOD`: with
32 the number 31 makes `weight * 10` overflow, as numbers near 2^64 do.

| TLA+ | code |
|---|---|
| `putc_buffer` with `head`, `tail`, `count`, `buffer` | `Queue<char, IO_BUFFER_SIZE>` |
| `line[t].str`, `line[t].i` | `str`, `i` of `get_string`; `left` when its loop is over |
| `Call`, `Locking`, `Putc`, `Type`, `Unlocking` | the bodies of the three functions |
| `KernelPanic` | the second half of `k_handle_ecall`: flush, message, flush, `while (true)` |

`said`, `typed`, `inflight` and `shown` are history, read by properties only.
A message is short, and stands for a panic's as well.  `PutcUnlocked` is
`Console::putc`, which takes no lock: a thread outside the three functions may
put one of `Singles` at any moment, between two characters of whoever has the
console.  A `getc` without the lock may take a key as well; the keys of `Type`
are those that are left.  A `putc` waits for room
in the buffer as such, not on `putc_sem`: `NoOutputDropped` of `Kernel` is the
reason that this is the same.

### Lists

The pointers of all lists are one record, and each operation a function on it,
so that operations compose as calls do (`TimerTick` takes and adds in a loop).
The clients keep to what the kernel does: only a TCB that is in no list is
added to one.  `Walk` follows `next`, as the code does.

### ContextSwitch

One register `s` stands for the registers that are saved and restored alike;
`a0`, `sp`, the program counter, `sepc` and the bits of `sstatus` are kept
apart.  A trap is one step, composed of the pieces in the order in which the
code runs them: `Enter` (hardware, switch of stacks, frame), the handler,
`Yield` (save, restore) and `Leave` (frame, switch of stacks, `sret`).  What is
freed, restored or never set is `JUNK`, so a value that is read after it is
dead shows.  `Yield` to any live thread stands for whatever the scheduler
picks; which one it picks is in `Kernel`.

### ThreadObjects

Each object has an owner that builds, starts, terminates and deletes it; the
loop of its thread is taken step by step, with the argument of `time_sleep`
read before the trap.  A thread holds the address of its TCB until it exits,
and the address is then free for another, while handles stay.  Memory is a
count of units: a stack, a TCB and a `Sem` take one each.  An allocation fails
when none is left; what the free of a `join_sem` that was never set does is
anything from nothing to a corrupt heap.

### Memory

Addresses are numbers of blocks.  `header` holds what lies in a block where a
`FreeBlocks` would be; memory that has been given out holds `DATA`, so an
allocator that followed a pointer into it would stop TLC with an error.  `alloc`
and `free` run in a trap and are one step each.  `to_blocks` keeps its
widths: the sum is modulo `SIZE_MOD` (2^64) and the result modulo `BLOCKS_MOD`
(2^32), scaled down to 64 and 8 in the runs.  `mem_free` is also called with
null, with an unaligned address, and with addresses nobody holds.

The constructor is in `HeapLayout`, with the real sizes and arbitrary addresses.

## 3. The runs

| run | properties | shows |
|---|---|---|
| `Sync` | `TypeOK`, `SchedulerNeverDry`, `OneListPerThread`, `ValueCountsWaiters`, `NoOvertaking`, `SemaphoresImplemented`, `WaitsAnswered` | main, flush and two workers that create, exit, join, dispatch, open, close, wait, signal, getc and putc |
| `Devices` | `OneListPerThread`, `NoSleepUnderflow`, `SliceNotExceeded`, `NoOutputDropped`, `NoInputInvented`, `SemaphoresImplemented`, `SleepImplemented`, `ReadyRuns`, `PutcReturns` | sleepers, putc and getc on buffers of two places, creation and exit, all mixed, under a timer that preempts |
| `Context` | `KernelStackReady`, `Preemptible`, `PrivateCPUImplemented` | three threads that compute, call, are interrupted, switch, are created, exit and change mode |
| `Lists` | `WellLinked`, `QueuesImplemented` | four threads through the ready queue, a semaphore's list and the sleep queue |
| `Terminal` | `OneAtTheConsole`, `BlockedAreListed`, `RingIsQueue`, `LinesWhole`, `LineEdited`, `LineShown`, `PanicInOrder` | two threads that print and read lines, and put characters without the lock, over a buffer of three places, and a panic at any moment |
| `Turns` | `ConsoleIsGranted` | three threads that come back to the console at will, while characters are put without the lock |
| `Objects` | `ThreadOnlyWithObject`, `JoinReturns` | three periodic threads on two TCB addresses, and a semaphore that competes for memory |
| `Memory` | `FreeListSound`, `EveryBlockOnce`, `AtLeastSize`, `HeapImplemented` | every state of a heap of five blocks |
| `StaleHandle` | `JoinSuspendsUntilDone` | **violated**: join on a reused address waits for another thread |
| `ConsoleFirstUse` | `OneAtTheConsole` | **violated**: two threads initialize the lock |
| `HugeRequest` | `AtLeastSize` | **violated**: a request of 2^32 blocks or more is cut |
| `NoMemory` | `KernelIntact` | **violated**: `sem_open` without memory writes through null |

The four violated runs each check one sentence of the manual or of a comment;
`PROJECT.json` quotes it under "findings".  Two need a word.  `ConsoleFirstUse`
cannot happen in the build as it is configured, because `main` prints alone
before it creates a thread; it can when `RUN_KERNEL_TESTS` is set to 0, as the
note beside it invites.  `StaleHandle` needs a client that joins a handle after
the thread may have exited, which is what a join is for.  The library is
such a client itself: in `PeriodicThread::terminate` the thread may leave between
the assignment to `period` and the join, and its address become the TCB of
another object's thread; and `~Thread` joins once more in any case.

Observed on the way, and no run of its own: `timer_ticks` is not reset for a
thread that runs for the first time (`k_tcb_start` does not pass where `yield`
resets it), so its first slice can be short; `SliceNotExceeded` shows that no
slice is ever too long.  `PeriodicThread` reads `period` before the trap of
`time_sleep`, so a `terminate` that comes between them waits out one old
period; `JoinReturns` shows that the thread ends then.  When the console is not ready, a
panic message is cut at its end, never in the middle (`PanicInOrder`).
`mem_alloc(0)` returns the header of the smallest free run, which stays free: the
next call may return the same address, and `mem_free` refuses it until then.

### What the properties say

* `OneListPerThread` is the central one.  Ready means once in the ready queue,
  suspended means in exactly one other list, running or freed means in none;
  closed semaphores have no waiting threads; a `join_sem` lives as long as its
  TCB.  Together with `SchedulerNeverDry` it says no thread is lost and no list
  is corrupted by a TCB that was linked twice.  `Lists` shows, given that, that
  pointers and sequences are the same: `QueuesImplemented` is the step from the
  one module to the other, and `WellLinked` the invariant that carries it.
* `SemaphoresImplemented`: the counter that goes negative, the list, and the
  `interrupted` flag that outlives a wait amount to plain permits and a queue.
  Its `cut` says whose wait a close ended.
* `WaitsAnswered` reads what the program reads, `a0`: a wait that a close ended
  fails and any other succeeds, however late the thread resumes.  It judges by
  `cutOff`, which `WaitResults` reads off the lists, so a flag left over from an
  earlier wait would show.
* `NoOutputDropped`, `NoInputInvented`: each place of `putc_buffer` is free,
  taken, or promised to a putc that has been resumed and not yet run; each
  character of `getc_buffer` is free or promised.  A putc that runs late
  therefore finds room.
* `NoOvertaking` is an action property: a step takes at most the first thread
  of the ready queue and adds at its end.
* `SleepImplemented` compares the relative times with one count per thread that
  every tick decrements.
* `PrivateCPUImplemented` maps the saved context, the frame on the kernel stack
  and the registers of the hart to what each thread will go on with.  No trap
  may change it but by the answer of the thread's own call.  `KernelStackReady`
  says why no frame is left on a kernel stack, and `Preemptible` that no path
  out of a trap leaves interrupts off.
* `LinesWhole` compares what was put with the lock held, until its unlock, with the message,
  or with the decimal digits defined the way one learns them.  `LineEdited` is
  about the string, `LineShown` about the screen: the echoed characters, drawn
  with a cursor, show the string.
* `ThreadOnlyWithObject`: the loop of a thread uses its object, so the object
  must not be past its `terminate` while the thread is there.  `JoinReturns` is
  the other half: who is suspended on a thread that is terminated goes on.  It
  does not say that every join returns.  An address may have passed to the thread
  of another object (as in `StaleHandle`), which lives as long as it likes; one owner of
  two objects can even wait so for the thread that it has yet to terminate.
* `HeapImplemented`: an allocation of some bytes gives exactly the blocks that
  hold them and is refused only when no free run is long enough, which is where
  a missed merge shows.  The size last asked for is in the state (`asked`), so
  that a refusal is judged against the request it answers.

### Bounds

Two workers beside main and the flush thread give a semaphore with two threads
waiting and one to close it, a sleep queue with a middle (main sleeps as well),
and a ready queue that is not trivial.  `MaxInit`, `MaxValue`, `MaxSleep` bound
the arguments of the clients, `MaxThreads` the threads made at an address in
`JoinHandles`.  A time slice of two ticks is the real one.  A buffer of two or
three places reaches full, empty, the states between and each position of the
wrap-around; the real one has 2048.  Five blocks are enough for three runs given
with free ones between them and for each of the ways to merge; sizes include
multiples of the block, one more, and more than the heap.

`Lists`: four threads put an insertion at the head, in the middle and at the
end of the sleep queue, with equal and different times (`MaxSleep` 4).
`Terminal`: three keys before the enter and a line of at most three characters
reach deletes at the start, in the middle and at the maximal length; `MaxKeys`
bounds how long a user types, nothing in the code.
`Turns`: with three threads two can wait for the console at once, so that the
order in which `unlock` wakes them matters; lines and messages are one character
long, since what matters is how often the lock changes hands.  `Context`: three threads
are one that runs, one preempted or in a call, one new or freed; a frame and one
unit of the thread's own on each stack are the least that tell depths apart.
`Objects`: two addresses for three objects make reuse certain, and room for ten
units, two and a half threads, makes creations fail at each allocation; `NoMemory`
takes five, for short counterexamples.

`SYMMETRY` (workers in `Sync`, threads in `Context`) is used for safety and
refinement only, not for liveness.  `Terminal`, `Objects` and `NoMemory` turn
the deadlock check off: the machine stops after a panic, and a corrupt kernel is
not followed further.

### Fairness

* `TimerFairness`, weak: the timer goes on ticking.  Nothing is assumed of the
  clients, who may compute for ever.  In traps interrupts are off, but every
  handler ends, so weak fairness is justified.
* `FlushFairness`, strong: the flush thread, whenever it keeps getting the CPU,
  goes on in its two-call loop.  It is strong because a tick can preempt the
  thread each time before the next instruction that matters; a slice of 2 ticks
  is long enough on any real machine.  How many characters a turn takes is left
  open (`\E n \in 0..IO_BUFFER_SIZE : FlushPutc(n)`): a console that is always
  ready takes all of them each time, and one that is slow may often take none.  The last
  conjunct (`n` from 1) assumes that it does not refuse characters for ever.
* `Terminal!FairSpec`: round robin runs each thread that is not blocked, the
  flush thread flushes (`ReadyRuns` and `PutcReturns` are the reasons), and a
  user who is asked for a line finishes it.  `Putc` is strongly fair, since
  characters put without the lock may fill the buffer again and again before
  the thread's turn; in the code it waits on `putc_sem`, which serves in order of
  arrival, so its turn comes.  No thread is assumed to call again.
* `ThreadObjects!FairSpec`: the loop of a thread goes on, `periodicActivation`
  returns, and sleeps end.  Nothing is assumed of owners: none has to terminate
  what it started.

## 4. What is proved

| theorem | module | says |
|---|---|---|
| `TypeCorrect` | `KernelProofs` | `Spec => []TypeOK` |
| `SchedulerNeverRunsDry` | `KernelProofs` | `Spec => []SchedulerNeverDry` |
| `ThreadsInOneList` | `KernelProofs` | `Spec => []OneListPerThread` |
| `RoundRobin` | `QueueProofs` | `Spec => NoOvertaking` |
| `SemaphoresCount` | `QueueProofs` | `Spec => []ValueCountsWaiters` |
| `SemaphoresKeepPromise` | `QueueProofs` | `Spec => SemaphoresImplemented`: every step is a step of `Semaphores` or a stutter |
| `WaitsHaveResults` | `QueueProofs` | `WaitSpec => WaitsAnswered` |
| `OutputNeverDropped`, `InputNeverInvented` | `QueueProofs` | `Spec => []NoOutputDropped`, `Spec => []NoInputInvented` |
| `SliceHolds` | `QueueProofs` | `TimedSpec => []SliceNotExceeded` |
| `SleepTimesSound` | `QueueProofs` | `Spec => []NoSleepUnderflow` |
| `SleepIsAlarmClock` | `QueueProofs` | every step is a step of `AlarmClock` or a stutter |
| `ListsWellLinked` | `ListProofs` | `Spec => []WellLinked` |
| `ListsAreQueues` | `ListProofs` | `Spec => QueuesImplemented`: every step is a step of `Queues` or a stutter |
| `NextTrapIsReady`, `StaysPreemptible` | `ContextProofs` | `Spec => []KernelStackReady`, `Spec => []Preemptible` |
| `ThreadsHavePrivateCPU` | `ContextProofs` | `Spec => PrivateCPUImplemented` |
| `ToBlocksHold` | `MemoryProofs` | `to_blocks` returns the least number of blocks that hold the bytes, as long as no width cuts it |
| `FreeListStaysSound` | `MemoryProofs` | `Spec => []FreeListSound` |
| `BlocksGivenOnce` | `MemoryProofs` | `Spec => []EveryBlockOnce` |
| `RequestsAreMet` | `MemoryProofs` | `RequestsSpec => []AtLeastSize`, if `NothingCut` |
| `HeapKeepsPromise` | `MemoryProofs` | `RequestsSpec => HeapImplemented`, if `NothingCut` |
| `LockExcludes` | `ConsoleProofs` | `Spec => []OneAtTheConsole`, if one thread uses the console first |
| `NobodyForgotten` | `ConsoleProofs` | `Spec => []BlockedAreListed`, under the same condition |
| `TerminalKeepsLock` | `ConsoleProofs` | `TerminalSpec` keeps both, under the same condition |
| `PutcBufferIsQueue` | `ConsoleProofs` | `TerminalSpec => []RingIsQueue` |
| `NumbersInDecimal` | `ConsoleProofs` | `DigitsOf(n) = Decimal(n)` for every 64 bit number |
| `PanicIsShown` | `ConsoleProofs` | `TerminalSpec => []PanicInOrder`, if `OverflowShows` |
| `LinesAreWhole` | `ConsoleProofs` | `TerminalSpec => []LinesWhole`, if `OverflowShows` and one thread uses the console first |
| `LineIsEdited` | `ConsoleProofs` | `TerminalSpec => []LineEdited` |
| `LineIsShown` | `ConsoleProofs` | `TerminalSpec => []LineShown`, if `KeysShow` and one thread uses the console first |
| `LayoutFits` | `MemoryProofs` | table, padding and blocks fit in the heap, the first block aligned, for all addresses |
| `ThreadHasObject` | `ObjectProofs` | `Spec => []ThreadOnlyWithObject` |

They hold for every set of threads, lists, semaphores, objects and characters,
every buffer size, time slice, heap, block size and width.  The assumptions are named where
the constants are declared, and TLC evaluates them in the runs:
`ThreadAssumption`, `SemAssumption` and `SizeAssumption` of `Kernel` (main and
the flush thread differ, null is no TCB and no character, semaphores are told
apart, buffer and slice have at least one place and one tick),
`ContextAssumption` of `ContextSwitch` (main exists, `JUNK` is no value of a
register), `MemoryAssumption` and `AddressAssumption` of `Memory` (the heap has
at least one block and fewer than its type counts, sizes are of the width of a
`size_t`, null and the unaligned address are not blocks), `TerminalAssumption`
of `Terminal` (a buffer of at least one place, numbers below `NUMBER_MOD`,
messages that are sequences), `ListAssumption` of `Lists` (null is no TCB, the
ready queue and the sleep queue are two lists and neither is a semaphore's, and
there are finitely many TCBs), and `ObjectAssumption` of `ThreadObjects` (null is
no address, counts are natural numbers).

### Threads and scheduling

The first three are not inductive one by one.  That the running thread can be
linked into a list needs that it is in no other, which needs that statuses and
lists agree; that `Switch` finds a thread needs that the ready queue holds the
flush thread whenever it does not run, which again is the agreement of
statuses and lists.  Types need it too: `current` could become null.  So
`IInv == TypeOK /\ SchedulerNeverDry /\ OneListPerThread` is proved inductive
as a whole.

`KernelProofs` goes up in layers: facts about sequences as sets of elements
(append, tail, concatenation, splitting); `Lists(st, rq, wt, sl)`, the
agreement of a status function with a ready queue, waiting lists and a sleep
queue, and one lemma per primitive that moves threads (`ListsSwitch`,
`ListsPut`, `ListsBlock`, `ListsResume`, `ListsClose`, `ListsWake`,
`ListsFree`, `ListsSleep`); what `Switch`, `Dispatch`, `Wait` and `Signal`
preserve; then one lemma per action.  A trap composes several primitives – an
exit closes a semaphore, frees a TCB and switches – so the lemmas are stated
about arbitrary arguments, not about the variables.  The other proofs about
`Kernel` build on `IInv` and on the shape these lemmas give to each action.

### Semaphores and console buffers

`SemaphoresKeepPromise` maps each action of `Kernel` to the step of
`Semaphores` it implements; most stutter, and those that signal, wait or close
a semaphore – an exit, a getc, a console interrupt and a flush among them – are
one abstract step each.

`WaitsHaveResults` needs that `cutOff` and the interrupted flags agree, though
one follows the lists and the others are set and cleared by `unblock` and by
the creation of a thread; `StepCuts` shows it step by step.  It also needs that a
thread that goes on in `sem_wait` is ready or suspended (`WaitersListed`), so
that no other call but its own wait reads its flag, and, for a console
interrupt, which clears a flag and switches in one trap, that the thread it
wakes goes on in `getc` (`BlockedWhere`, below).

`NoOutputDropped` bounds buffer, permits and granted putcs by the size of the
buffer.  It is an equation between a length, a value and the cardinality of the
set of threads that have been resumed and not run.  For it to be kept, a thread
that is resumed must have been waiting for the semaphore that resumed it:
`BlockedWhere` says that who is in the list of `putc_sem` goes on in `putc`, who
is in that of `getc_sem` in `getc`, and nobody in another list in either of the
two.  `ConsoleInv` is `BlockedWhere` with the two
properties, and is inductive next to `IInv`.

### Time

`SliceInv`: the ticks since the thread got the CPU are at most `timer_ticks`,
which is below the slice.  It is what the missing reset for a new thread leaves
true.  The ticks are counted from a switch that shows in `current`, or in the
reset of `timer_ticks` when no other thread is ready, so a reset in any other
place would break the invariant.  `SleepIsAlarmClock` is about sums of relative times: what a sleeper has
left is the sum up to its place (`UntilSums`; `SplitPositions` says what an
insertion or a removal does to places), a tick takes one from the first summand
and hence one from each, and an insertion takes from the successor what it puts
before it.  `NoSleepUnderflow` is the invariant it needs.

### Lists and relative times

`WellLinked` is not inductive in a form one can work with, since it speaks of
walks.  `ListInv` says instead that there are sequences `W`, one for each list,
such that no thread is in two places (`OnceEach`), the pointers are those of
neighbours in `W` and of its ends (`Linked`), and the sleepers have times that
are not negative, the first at least one (`Timely`).  `W` is no variable: each
operation of `list.hpp`, and the insertion in the middle of the sleep queue,
puts a thread into one sequence at one place or takes it out of one, so two
lemmas, `InsertKeeps` and `RemoveKeeps`, carry all of them, at any place and
with neighbours on both sides, on one, or on none.  `WalkIs` proves by
induction that a walk passes exactly `W[l]`; the walk is bounded by the number
of TCBs, and `ListBounded` says why this cuts nothing.  `WellLinked` follows
(`ShapeLinked`), and so does the refinement mapping: the queues of `Queues` are
`W`, and the ticks left are the sums of the relative times (`LeftIs`).

For the refinement, `put_to_sleep` must choose the place that `Queues` does:
behind all who wake no later.  The sums grow along the queue (`SumsGrow`), so
the first sum above the ticks asked for is that place; the time of the new
sleeper is its distance from the one before, and its successor's time is
reduced by as much, which leaves all other sums as they were (`SleepTimes`).  A
tick lowers every sum by one (`TickTimes`).  The loop of `timer_tick` looks at
relative times only; those of threads that expire together are 0, so it stops
at the first sum that is still positive (`TickWakes`).  `WakingKeeps` is the
induction over the threads woken, each taken from one list and added to
another.

### Contexts

`KernelStackReady` and `Preemptible` are about the running thread; they hold
after the next switch only if every other thread has been left in a way that
works.  `Settled` says so: the running thread is outside a trap with an empty
kernel stack, and every other live thread is `New` (its context leads to
`k_tcb_start`, on both empty stacks) or `Saved` (its context leads into `yield`,
its frame is on the kernel stack and says what it was trapped for), with
interrupts on in the mode it returns to.  `New` and `Saved` are stated for
`JUNK` in each register that need not be kept, so the theorem also says which
registers the context can leave out.  There is one lemma per piece of the
assembly code and each trap is a composition of them.  The refinement compares,
register by register, what each thread will go on with before and after.

### Memory

`FreeListSound` follows the list from its head, and `EveryBlockOnce` the runs it
passes; neither is inductive.  `IInv` says instead that there is a set `F` of
blocks, the headers, such that each points to its neighbours in `F` (`IsList`),
runs do not touch (`Apart`), and the table gives exactly what the runs leave
(`IsTable`).  `F` is a parameter of the invariant and no variable: an allocation
or a free changes it in one of three ways – one header moves, is removed, or is
added (`NeighboursOfMoved`, `NeighboursOfRemoved`, `NeighboursOfAdded`) – and
`merge_blocks`, which `free` calls twice, removes at most one.  `ChainWalks`
proves by induction that following `next` from the head passes exactly the
elements of `F`, which makes the two properties consequences of `IInv`.

`ToBlocksHold` has two hypotheses, that neither the sum nor the result
overflows.  `NothingCut` asks them of all requests, and that none is of no
bytes: `HugeRequest` is the counterexample to the one, and to the other that
`mem_alloc(0)` returns a run that stays free.
`FreeListStaysSound` and `BlocksGivenOnce` need none of this, so requests of no
bytes or cut sizes do not harm the allocator, only the client.

`LayoutFits` assumes only that the heap has room for one block with its entry.
It splits on whether the table ends at a block boundary; when it does not, one
block is given up, and the argument is that the padding, at most one block, and
the entry saved fit in the room of that block.

### Console

`LockExcludes` and `NobodyForgotten` are about `Spec` of `ConsoleLock` with
`Early = {m}`: `ConsoleFirstUse` is the counterexample for two early threads.
Neither property is inductive, because the semaphore does not exist before it
is initialized.  `LockInv` says that until `initialized` is set, thread `m` is
alone and nobody waits; and that afterwards no thread is between the test and
the assignment, and the semaphore is either one permit with an empty list, or a
holder, a list without repetitions of exactly the threads that are blocked, and
minus its length as the value.  Every step of `Terminal` before a panic is a
step of `ConsoleLock` or leaves it alone, so `LockInv` holds there too.

For the ring the strengthening is that its tail follows from head and count
(`Rings`).  Then a put changes no cell that is in use (`WrapPut`) and a get moves
every other character one place forward (`WrapGet`); `FlushedTakes` and
`PutAllAppends` say the same of several, by induction.

`get_decimal_weight` multiplies by ten until the product is above the number or
no longer above the weight, which is how it notices that the product wrapped
around.  That this is noticed is no law: with 5 bits ten times 10 is 4, but with
6 it is 36, which is not noticed.  `OverflowShows` asks for the powers of ten up
to one whose product wraps around to less; `OverflowShowsIn64Bits` shows it for
the width the program has (`NumbersInDecimal`), and it holds for the 32 values
of the run.
`DigitsAreDecimal` proves by descent on the weight that the digits still to be
written, after those of the quotient, are the digits of the number.

A panic flushes, puts and flushes again; `FlushPutFlush` says what was shown and
what is left is one after the other.  `LineInv` says of each thread what is left
to print while it waits and that, at the console, what was said and what is left
make the whole.  It needs `OneAtTheConsole`: two threads at the console would mix
what is said.  `EditInv` says that up to the index the string is what was typed,
that the index is below the last place until the loop is left, and that the last
place is never written.  `SeenInv` adds that the cursor is after the line and
around it there are blanks, once the echo that is left is said; a delete at the
start of a line must not be echoed for that.  `KeysShow` keeps line feed and
backspace out of the keys of characters, since both move the cursor otherwise;
the code echoes them like a letter.

### Objects

`ThreadOnlyWithObject` would break if the exit of a thread resumed the owner of
another object, whose own thread is still there.  This needs an argument,
because handles outlive threads: two owners may be suspended at one address,
one for the thread that is there and one, in the join of its destructor, for a
thread that has long been gone.  `JoinsOwnHandle` says that an owner is
suspended only at the address of its own handle, and with its object terminating
or past that.  Every exit then resumes owners whose own thread is at that address
or nowhere.

### Induction

The induction theorems of the library take an operator, which the provers do not
instantiate.  `Induction` states them with a set (`NumberInduction`,
`IntervalInduction`) and shows that a function defined by recursion over an
interval exists (`IterationExists`), also one that descends to any smaller number
(`DescentExists`); with that the walk along the free list, the sums of relative
times, the ring, the digits and the line that is edited are proved.

### Only model-checked

Liveness (`ReadyRuns`, `PutcReturns`, `ConsoleIsGranted`, `JoinReturns`, and the
liveness in `AlarmClock`, which keeps `SleepImplemented` from being proved as a
whole), which with ENABLED is out of the prover's reach.  Every invariant and
every other action property or refinement of the passing runs is a theorem.  The violated
properties are refuted by counterexamples and need no proof.

## 5. What is not modelled

* The order in which the parts of a C++ object are destroyed.  `~Thread` joins
  when the derived part is gone already; a program that deletes a derived
  `Thread` without having joined it can run a virtual method of a dead object.
  In `ThreadObjects` an owner calls `terminate` first.
* `Thread` with a `run` of its own: it is a `PeriodicThread` without the loop.
  The remaining wrappers (`Semaphore::wait`, `Thread::sleep`, `new`, …) add
  nothing to their system calls.
* The conversion of `sem_open`'s unsigned initial value to `int`; integers of
  `Kernel` are unbounded.
* That `get_string` writes `str[max_length]` before it tests `str`, when there
  is no memory for the string.
* Null arguments of the C API, except to `mem_free`; the tests, which are
  clients; the binary libraries, the PLIC and the build.
* That `alloc` takes the smallest run that fits: `Heap` promises room, not which.
* Addresses outside the heap given to `mem_free`: `free` looks them up past the
  end of its table (`src/k_memory.cpp:112`), in memory no module has.
* Memory exhaustion in `Kernel`: `ThreadCreate` fails only as a whole and
  `SemOpen` finds room.  `ThreadObjects` has the rest, with memory as a count.

## 6. Plan

Threads and scheduling, semaphores, sleeping, lists, contexts, allocator,
console and C++ objects are modelled, and their safety is proved.  What could
come next, in order of worth:

1. The allocation inside `ThreadCreate` and `SemOpen` in `Kernel` itself, so that
   memory exhaustion meets preemption in one module and not in two.
2. The destruction of derived `Thread` objects (section 5), with the parts of an
   object destroyed one after the other.
3. A composition of `Lists` with `Kernel`, to replace the argument that the
   clients of `Lists` do what `Kernel` does with its sequences.
