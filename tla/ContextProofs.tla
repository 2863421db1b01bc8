--------------------------- MODULE ContextProofs ----------------------------
(***************************************************************************)
(* Proofs about ContextSwitch: that the next trap always finds its context *)
(* and an empty kernel stack, that interrupts stay enabled, and that the   *)
(* threads have registers of their own, as PrivateCPU says.  Each piece of *)
(* k_traps.S and of the context switch has a lemma that says what it does  *)
(* to the machine; the steps compose them.                                 *)
(***************************************************************************)
EXTENDS ContextSwitch, TLAPS

-----------------------------------------------------------------------------
(* What the machine holds.                                                 *)

Code    == PC \cup {Start, "k_tcb_start", "yield", JUNK}
Word    == Value \cup {JUNK}
Mode    == {"S", "U"}
Privilege == Mode \cup {JUNK}
Flag    == BOOLEAN \cup {JUNK}
Result  == Word \cup {FAILED}
Pointer == Stack \cup {Sys(t, d) : t \in TCB, d \in 0..1} \cup {JUNK}

Context ==
  [ra : Code, usr_sp : Pointer, sys_sp : Pointer, s : Word, a0 : Result,
   sepc : Code, spp : Privilege, spie : Flag]

TrapKind == {"ecall", "interrupt"}

Frame == [s : Word, a0 : Word, trap : TrapKind]

Machine ==
  [pc : Code, sp : Pointer, s : Word, a0 : Result, mode : Mode, sie : BOOLEAN,
   sepc : Code, spp : Privilege, spie : Flag,
   current_tcb : TCB, k_current_context : TCB, live : SUBSET TCB,
   context : [TCB -> Context], frame : [TCB -> Frame \cup {JUNK}]]

UsrStack(t) == {Usr(t, 0), Usr(t, 1)}

(* t runs, outside a trap.                                                 *)
Running(m, t) ==
  /\ m.current_tcb = t
  /\ m.k_current_context = t
  /\ t \in m.live
  /\ m.pc \in PC \cup {Start}
  /\ m.sp \in UsrStack(t)
  /\ m.a0 \in Word
  /\ m.context[t].sys_sp = Sys(t, 0)

(* The frame of a trap, and where that trap returns to: a call is made in  *)
(* the body of a thread, and answered.                                     *)
Trap(f, pc, s) ==
  /\ f \in Frame
  /\ pc \in PC \cup {Start}
  /\ f.trap = "ecall" => pc \in PC /\ s \in Value

(* t is in the handler of its trap.                                        *)
Handling(m, t) ==
  /\ m.current_tcb = t
  /\ m.k_current_context = t
  /\ t \in TCB
  /\ m.sp = Sys(t, 1)
  /\ m.mode = "S"
  /\ m.a0 \in Word
  /\ m.context[t].usr_sp \in UsrStack(t)
  /\ Trap(m.frame[t], m.sepc, m.s)
  /\ m.spp \in Mode
  /\ m.spie \in BOOLEAN

(* u has been created and has not run, or has called yield.                *)
New(m, u) ==
  /\ m.context[u].ra = "k_tcb_start"
  /\ m.context[u].sys_sp = Sys(u, 0)
  /\ m.context[u].usr_sp = Usr(u, 0)

Saved(m, u) ==
  /\ m.context[u].ra = "yield"
  /\ m.context[u].sys_sp = Sys(u, 1)
  /\ m.context[u].usr_sp \in UsrStack(u)
  /\ Trap(m.frame[u], m.context[u].sepc, m.context[u].s)

Waiting(m, u) ==
  /\ New(m, u) \/ Saved(m, u)
  /\ m.context[u].spp \in Mode
  /\ m.context[u].spie = TRUE

OthersWait(m, t) == \A u \in m.live \ {t} : Waiting(m, u)

Settled(m, t) == m \in Machine /\ Running(m, t) /\ OthersWait(m, t)

(* Strengthens KernelStackReady with what a context and the frame on a     *)
(* kernel stack must be for its thread to go on.                           *)
IInv == Settled(machine, machine.current_tcb)

-----------------------------------------------------------------------------
(* The pieces.                                                             *)

LEMMA JunkAnywhere ==
  /\ JUNK \in Code /\ JUNK \in Word /\ JUNK \in Result /\ JUNK \in Privilege
  /\ JUNK \in Flag /\ JUNK \in Pointer
  /\ "yield" \in Code /\ Mode \subseteq Privilege /\ BOOLEAN \subseteq Flag
  /\ Word \subseteq Result /\ FAILED \in Result
  BY DEF Code, Word, Result, Privilege, Flag, Pointer

(* The fields that traps and switches leave alone.                         *)
SameThreads(m, n) ==
  /\ n.current_tcb = m.current_tcb
  /\ n.k_current_context = m.k_current_context
  /\ n.live = m.live

SameOthers(m, n, t) ==
  \A u \in TCB \ {t} : n.context[u] = m.context[u] /\ n.frame[u] = m.frame[u]

LEMMA TrappedIs ==
  ASSUME NEW m \in Machine
  PROVE  LET n == Trapped(m)
         IN /\ n \in Machine
            /\ SameThreads(m, n)
            /\ n.pc = m.pc /\ n.sp = m.sp /\ n.s = m.s /\ n.a0 = m.a0
            /\ n.sepc = m.pc /\ n.spp = m.mode /\ n.spie = m.sie /\ n.mode = "S"
            /\ n.context = m.context /\ n.frame = m.frame
  BY DEF Trapped, Machine, SameThreads, Mode, Privilege, Flag

LEMMA SwitchToKernelStackIs ==
  ASSUME NEW m \in Machine, NEW t \in TCB, m.k_current_context = t
  PROVE  LET n == SwitchToKernelStack(m)
         IN /\ n \in Machine
            /\ SameThreads(m, n)
            /\ n.pc = m.pc /\ n.s = m.s /\ n.a0 = m.a0 /\ n.mode = m.mode
            /\ n.sepc = m.sepc /\ n.spp = m.spp /\ n.spie = m.spie
            /\ n.sp = m.context[t].sys_sp
            /\ n.context = [m.context EXCEPT ![t].usr_sp = m.sp]
            /\ n.frame = m.frame
<1>. DEFINE c == [m.context EXCEPT ![t].usr_sp = m.sp]
<1>1. c \in [TCB -> Context]
  BY DEF Machine, Context
<1>2. m.context[t].sys_sp \in Pointer
  BY DEF Machine, Context
<1>3. SwitchToKernelStack(m) = [m EXCEPT !.context = c, !.sp = m.context[t].sys_sp]
  BY DEF SwitchToKernelStack, Machine
<1>. HIDE DEF c
<1>. QED  BY <1>1, <1>2, <1>3 DEF Machine, SameThreads, c

LEMMA SwitchToUserStackIs ==
  ASSUME NEW m \in Machine, NEW t \in TCB, m.k_current_context = t
  PROVE  LET n == SwitchToUserStack(m)
         IN /\ n \in Machine
            /\ SameThreads(m, n)
            /\ n.pc = m.pc /\ n.s = m.s /\ n.a0 = m.a0 /\ n.mode = m.mode
            /\ n.sepc = m.sepc /\ n.spp = m.spp /\ n.spie = m.spie
            /\ n.sp = m.context[t].usr_sp
            /\ n.context = [m.context EXCEPT ![t].sys_sp = m.sp, ![t].usr_sp = JUNK]
            /\ n.frame = m.frame
<1>. DEFINE c == [m.context EXCEPT ![t].sys_sp = m.sp, ![t].usr_sp = JUNK]
<1>1. c \in [TCB -> Context]
  BY JunkAnywhere DEF Machine, Context
<1>2. m.context[t].usr_sp \in Pointer
  BY DEF Machine, Context
<1>3. SwitchToUserStack(m) = [m EXCEPT !.context = c, !.sp = m.context[t].usr_sp]
  BY DEF SwitchToUserStack, Machine
<1>. HIDE DEF c
<1>. QED  BY <1>1, <1>2, <1>3 DEF Machine, SameThreads, c

LEMMA SaveRegistriesIs ==
  ASSUME NEW m \in Machine, NEW t \in TCB, NEW trap \in TrapKind,
         m.sp = Sys(t, 0), m.a0 \in Word
  PROVE  LET n == SaveRegistries(m, trap)
         IN /\ n \in Machine
            /\ SameThreads(m, n)
            /\ n.pc = m.pc /\ n.s = m.s /\ n.a0 = m.a0 /\ n.mode = m.mode
            /\ n.sepc = m.sepc /\ n.spp = m.spp /\ n.spie = m.spie
            /\ n.sp = Sys(t, 1)
            /\ n.context = m.context
            /\ n.frame = [m.frame EXCEPT ![t] = [s |-> m.s, a0 |-> m.a0, trap |-> trap]]
<1>. DEFINE f == [m.frame EXCEPT ![t] = [s |-> m.s, a0 |-> m.a0, trap |-> trap]]
<1>1. f \in [TCB -> Frame \cup {JUNK}]
  BY DEF Machine, Frame
<1>2. Sys(t, 1) \in Pointer
  BY DEF Pointer
<1>3. SaveRegistries(m, trap) = [m EXCEPT !.frame = f, !.sp = Sys(t, 1)]
  BY DEF SaveRegistries, Machine, Sys
<1>. HIDE DEF f
<1>. QED  BY <1>1, <1>2, <1>3 DEF Machine, SameThreads, f

LEMMA RestoreRegistriesIs ==
  ASSUME NEW m \in Machine, NEW t \in TCB, m.sp = Sys(t, 1), m.frame[t] \in Frame
  PROVE  LET n == RestoreRegistries(m)
         IN /\ n \in Machine
            /\ SameThreads(m, n)
            /\ n.pc = m.pc /\ n.mode = m.mode
            /\ n.sepc = m.sepc /\ n.spp = m.spp /\ n.spie = m.spie
            /\ n.sp = Sys(t, 0) /\ n.s = m.frame[t].s /\ n.a0 = m.frame[t].a0
            /\ n.context = m.context
            /\ n.frame = [m.frame EXCEPT ![t] = JUNK]
<1>. DEFINE f == [m.frame EXCEPT ![t] = JUNK]
<1>1. f \in [TCB -> Frame \cup {JUNK}]
  BY DEF Machine
<1>2. Sys(t, 0) \in Pointer
  BY DEF Pointer
<1>3. RestoreRegistries(m)
        = [m EXCEPT !.s = m.frame[t].s, !.a0 = m.frame[t].a0, !.frame = f, !.sp = Sys(t, 0)]
  BY DEF RestoreRegistries, Machine, Sys
<1>. HIDE DEF f
<1>4. m.frame[t].s \in Word /\ m.frame[t].a0 \in Result
  BY JunkAnywhere DEF Frame
<1>. QED  BY <1>1, <1>2, <1>3, <1>4 DEF Machine, SameThreads, f

LEMMA SretIs ==
  ASSUME NEW m \in Machine, m.spp \in Mode, m.spie \in BOOLEAN
  PROVE  LET n == Sret(m)
         IN /\ n \in Machine
            /\ SameThreads(m, n)
            /\ n.pc = m.sepc /\ n.sp = m.sp /\ n.s = m.s /\ n.a0 = m.a0
            /\ n.mode = m.spp /\ n.sie = m.spie
            /\ n.context = m.context /\ n.frame = m.frame
  BY DEF Sret, Machine, SameThreads, Mode, Privilege, Flag, Code

LEMMA SwitchToUserStackEcallIs ==
  ASSUME NEW m \in Machine, NEW t \in TCB, m.k_current_context = t
  PROVE  LET n == SwitchToUserStackEcall(m)
         IN /\ n \in Machine
            /\ SameThreads(m, n)
            /\ n.pc = m.pc /\ n.s = m.s /\ n.mode = m.mode
            /\ n.sepc = m.sepc /\ n.spp = m.spp /\ n.spie = m.spie
            /\ n.sp = m.context[t].usr_sp /\ n.a0 = m.context[t].a0
            /\ n.context[t].sys_sp = m.sp
            /\ \A u \in TCB \ {t} : n.context[u] = m.context[u]
            /\ n.frame = m.frame
<1>. DEFINE k == SwitchToUserStack(m)
            c == [k.context EXCEPT ![t].a0 = JUNK]
<1>1. /\ k \in Machine
      /\ SameThreads(m, k)
      /\ k.pc = m.pc /\ k.s = m.s /\ k.mode = m.mode
      /\ k.sepc = m.sepc /\ k.spp = m.spp /\ k.spie = m.spie
      /\ k.sp = m.context[t].usr_sp
      /\ k.context = [m.context EXCEPT ![t].sys_sp = m.sp, ![t].usr_sp = JUNK]
      /\ k.frame = m.frame
  BY SwitchToUserStackIs
<1>2. SwitchToUserStackEcall(m) = [k EXCEPT !.a0 = m.context[t].a0, !.context = c]
  BY <1>1 DEF SwitchToUserStackEcall, Machine
<1>. HIDE DEF k
<1>3. c \in [TCB -> Context]
  <2>1. k.context \in [TCB -> Context]
    BY <1>1 DEF Machine
  <2>. QED  BY <2>1, JunkAnywhere DEF Context
<1>4. m.context[t].a0 \in Result
  BY DEF Machine, Context
<1>5. /\ c[t].sys_sp = m.sp
      /\ \A u \in TCB \ {t} : c[u] = m.context[u]
  BY <1>1 DEF Machine, Context
<1>. HIDE DEF c
<1>. DEFINE n == SwitchToUserStackEcall(m)
<1>6. /\ n \in Machine
      /\ SameThreads(k, n)
      /\ n.pc = k.pc /\ n.s = k.s /\ n.mode = k.mode
      /\ n.sepc = k.sepc /\ n.spp = k.spp /\ n.spie = k.spie
      /\ n.sp = k.sp /\ n.a0 = m.context[t].a0 /\ n.context = c /\ n.frame = k.frame
  <2>1. k \in Machine
    BY <1>1
  <2>. QED  BY ONLY <2>1, <1>2, <1>3, <1>4 DEF Machine, SameThreads
<1>. HIDE DEF n
<1>7. SameThreads(m, n)
  BY <1>1, <1>6 DEF SameThreads
<1>. QED  BY <1>1, <1>5, <1>6, <1>7 DEF n

(* What the context of a thread is saved as.                               *)
SavedContext(m, t) ==
  [m.context[t] EXCEPT !.ra = "yield", !.sys_sp = m.sp, !.s = m.s, !.sepc = m.sepc,
                       !.spp = m.spp, !.spie = m.spie]

LEMMA SaveContextIs ==
  ASSUME NEW m \in Machine, NEW t \in TCB
  PROVE  LET n == SaveContext(m, t)
         IN /\ n \in Machine
            /\ SameThreads(m, n)
            /\ n.a0 = m.a0 /\ n.mode = m.mode
            /\ n.context = [m.context EXCEPT ![t] = SavedContext(m, t)]
            /\ n.frame = m.frame
<1>. DEFINE c == [m.context EXCEPT ![t] = SavedContext(m, t)]
<1>1. SavedContext(m, t) \in Context
  BY ZenonT(40), JunkAnywhere DEF SavedContext, Machine, Context
<1>2. c \in [TCB -> Context]
  BY <1>1 DEF Machine
<1>3. SaveContext(m, t) = [m EXCEPT !.context = c]
  <2>. DEFINE d == [m.context EXCEPT ![t].ra = "yield", ![t].sys_sp = m.sp, ![t].s = m.s,
                                     ![t].sepc = m.sepc, ![t].spp = m.spp,
                                     ![t].spie = m.spie]
  <2>1. SaveContext(m, t) = [m EXCEPT !.context = d]
    BY ZenonT(40) DEF SaveContext, Machine
  <2>2. d = c
    BY DEF SavedContext, Machine, Context
  <2>. QED  BY <2>1, <2>2
<1>. HIDE DEF c
<1>. QED  BY <1>2, <1>3 DEF Machine, SameThreads, c

LEMMA RestoreContextIs ==
  ASSUME NEW m \in Machine, NEW t \in TCB
  PROVE  LET n == RestoreContext(m, t)
             c == m.context[t]
         IN /\ n \in Machine
            /\ SameThreads(m, n)
            /\ n.pc = c.ra /\ n.sp = c.sys_sp /\ n.s = c.s /\ n.a0 = m.a0
            /\ n.mode = m.mode /\ n.sepc = c.sepc /\ n.spp = c.spp /\ n.spie = c.spie
            /\ n.context[t].usr_sp = c.usr_sp
            /\ n.frame = m.frame
            /\ SameOthers(m, n, t)
<1>. DEFINE c == m.context[t]
            d == [m.context EXCEPT ![t] =
                    [NoContext EXCEPT !.usr_sp = c.usr_sp, !.a0 = c.a0]]
<1>1. c \in Context
  BY DEF Machine
<1>2. d \in [TCB -> Context]
  <2>1. [NoContext EXCEPT !.usr_sp = c.usr_sp, !.a0 = c.a0] \in Context
    BY <1>1, JunkAnywhere DEF Context, NoContext
  <2>. QED  BY <2>1 DEF Machine
<1>3. RestoreContext(m, t)
        = [m EXCEPT !.pc = c.ra, !.sp = c.sys_sp, !.s = c.s, !.sepc = c.sepc,
                    !.spp = c.spp, !.spie = c.spie, !.context = d]
  BY DEF RestoreContext, Machine
<1>. HIDE DEF d
<1>4. /\ RestoreContext(m, t) \in Machine
      /\ SameThreads(m, RestoreContext(m, t))
      /\ RestoreContext(m, t).context = d
  BY ZenonT(40), <1>1, <1>2, <1>3 DEF Machine, Context, SameThreads
<1>5. d[t].usr_sp = c.usr_sp /\ \A u \in TCB \ {t} : d[u] = m.context[u]
  BY DEF Machine, d, NoContext
<1>6. RestoreContext(m, t).frame = m.frame
  BY <1>3 DEF Machine
<1>7. SameOthers(m, RestoreContext(m, t), t)
  BY <1>4, <1>5, <1>6 DEF SameOthers
<1>. QED  BY <1>3, <1>4, <1>5, <1>7 DEF Machine

-----------------------------------------------------------------------------
(* Traps.                                                                  *)

(* What the thread in a handler goes on with.                              *)
Kept(m, t) == Going(m.sepc, m.context[t].usr_sp, m.spp, m.frame[t], m.s)

LEMMA EnterIs ==
  ASSUME NEW m \in Machine, NEW t \in TCB, Running(m, t),
         NEW trap \in TrapKind
  PROVE  LET n == Enter(m, trap)
         IN /\ n \in Machine
            /\ SameThreads(m, n)
            /\ n.sepc = m.pc /\ n.spp = m.mode /\ n.spie = m.sie
            /\ n.mode = "S" /\ n.s = m.s /\ n.a0 = m.a0 /\ n.sp = Sys(t, 1)
            /\ n.context = [m.context EXCEPT ![t].usr_sp = m.sp]
            /\ n.frame = [m.frame EXCEPT ![t] = [s |-> m.s, a0 |-> m.a0, trap |-> trap]]
<1>. DEFINE i == Trapped(m)
            j == SwitchToKernelStack(i)
            k == SaveRegistries(j, trap)
<1>1. /\ i \in Machine
      /\ SameThreads(m, i)
      /\ i.sp = m.sp /\ i.s = m.s /\ i.a0 = m.a0
      /\ i.sepc = m.pc /\ i.spp = m.mode /\ i.spie = m.sie /\ i.mode = "S"
      /\ i.context = m.context /\ i.frame = m.frame
  BY TrappedIs
<1>. HIDE DEF i
<1>2. m.context[t].sys_sp = Sys(t, 0) /\ m.k_current_context = t /\ m.a0 \in Word
  BY DEF Running
<1>3. i.k_current_context = t
  BY <1>1, <1>2 DEF SameThreads
<1>4. /\ j \in Machine
      /\ SameThreads(i, j)
      /\ j.s = i.s /\ j.a0 = i.a0 /\ j.mode = i.mode
      /\ j.sepc = i.sepc /\ j.spp = i.spp /\ j.spie = i.spie
      /\ j.sp = i.context[t].sys_sp
      /\ j.context = [i.context EXCEPT ![t].usr_sp = i.sp]
      /\ j.frame = i.frame
  BY <1>1, <1>3, SwitchToKernelStackIs
<1>. HIDE DEF j
<1>5. j.sp = Sys(t, 0) /\ j.a0 \in Word
  BY <1>1, <1>2, <1>4
<1>6. /\ k \in Machine
      /\ SameThreads(j, k)
      /\ k.s = j.s /\ k.a0 = j.a0 /\ k.mode = j.mode
      /\ k.sepc = j.sepc /\ k.spp = j.spp /\ k.spie = j.spie
      /\ k.sp = Sys(t, 1)
      /\ k.context = j.context
      /\ k.frame = [j.frame EXCEPT ![t] = [s |-> j.s, a0 |-> j.a0, trap |-> trap]]
  BY <1>4, <1>5, SaveRegistriesIs
<1>7. Enter(m, trap) = k
  BY DEF Enter, i, j
<1>. HIDE DEF k
<1>8. SameThreads(m, k)
  BY <1>1, <1>4, <1>6 DEF SameThreads
<1>. QED  BY <1>1, <1>4, <1>6, <1>7, <1>8

(* A tick or a console interrupt.                                          *)
LEMMA EnterHandles ==
  ASSUME NEW m \in Machine, NEW t \in TCB, Running(m, t)
  PROVE  LET n == Enter(m, "interrupt")
         IN /\ n \in Machine
            /\ SameThreads(m, n)
            /\ Handling(n, t)
            /\ n.spie = m.sie
            /\ Kept(n, t) = RunningRegisters(m)
            /\ SameOthers(m, n, t)
<1>. DEFINE n == Enter(m, "interrupt")
            f == [s |-> m.s, a0 |-> m.a0, trap |-> "interrupt"]
<1>0. "interrupt" \in TrapKind
  BY DEF TrapKind
<1>1. /\ n \in Machine
      /\ SameThreads(m, n)
      /\ n.sepc = m.pc /\ n.spp = m.mode /\ n.spie = m.sie
      /\ n.mode = "S" /\ n.s = m.s /\ n.a0 = m.a0 /\ n.sp = Sys(t, 1)
      /\ n.context = [m.context EXCEPT ![t].usr_sp = m.sp]
      /\ n.frame = [m.frame EXCEPT ![t] = f]
  BY <1>0, EnterIs
<1>. HIDE DEF n
<1>2. m.context \in [TCB -> Context] /\ m.frame \in [TCB -> Frame \cup {JUNK}]
  BY DEF Machine
<1>3. n.context[t].usr_sp = m.sp /\ n.frame[t] = f
  BY <1>1, <1>2 DEF Context
<1>4. f \in Frame
  BY DEF Running, Machine, Frame, TrapKind
<1>. HIDE DEF f
<1>5. Trap(f, n.sepc, n.s)
  BY <1>1, <1>4 DEF Trap, Running, f
<1>6. n.spp \in Mode /\ n.spie \in BOOLEAN
  BY <1>1 DEF Machine
<1>7. Handling(n, t)
  BY <1>1, <1>3, <1>5, <1>6 DEF Handling, Running, SameThreads
<1>8. Kept(n, t) = RunningRegisters(m)
  BY <1>1, <1>3 DEF Kept, RunningRegisters, f
<1>9. SameOthers(m, n, t)
  BY <1>1, <1>2 DEF SameOthers
<1>. QED  BY <1>1, <1>7, <1>8, <1>9 DEF n

(* The registers of a thread after its ecall.                              *)
Called(r, answer) == [r EXCEPT !.pc = After(@), !.a0 = JUNK, !.answer = answer]

LEMMA CalledRegistry ==
  ASSUME NEW pc, NEW sp, NEW s, NEW a0, NEW mode, NEW answer
  PROVE  Called(Registry(pc, sp, s, a0, mode, JUNK), answer)
           = Registry(After(pc), sp, s, JUNK, mode, answer)
<1>. DEFINE r    == Registry(pc, sp, s, a0, mode, JUNK)
            next == After(pc)
            r1 == [pc |-> next, sp |-> sp, s |-> s, a0 |-> a0, mode |-> mode,
                   answer |-> JUNK]
            r2 == [pc |-> next, sp |-> sp, s |-> s, a0 |-> JUNK, mode |-> mode,
                   answer |-> JUNK]
<1>1. r.pc = pc
  BY DEF Registry
<1>. HIDE DEF next
<1>2. [r EXCEPT !.pc = next] = r1
  BY DEF Registry
<1>3. [r1 EXCEPT !.a0 = JUNK] = r2
  OBVIOUS
<1>4. [r2 EXCEPT !.answer = answer]
        = [pc |-> next, sp |-> sp, s |-> s, a0 |-> JUNK, mode |-> mode, answer |-> answer]
  OBVIOUS
<1>5. [r EXCEPT !.pc = next, !.a0 = JUNK, !.answer = answer]
        = [[[r EXCEPT !.pc = next] EXCEPT !.a0 = JUNK] EXCEPT !.answer = answer]
  OBVIOUS
<1>. HIDE DEF r, r1, r2
<1>. QED  BY <1>1, <1>2, <1>3, <1>4, <1>5 DEF next, r, Called, Registry

(* An ecall in the body of a thread.                                       *)
LEMMA EnterCallHandles ==
  ASSUME NEW m \in Machine, NEW t \in TCB, Running(m, t), m.pc \in PC, NEW answer \in Value
  PROVE  LET n == EnterCall(m, answer)
         IN /\ n \in Machine
            /\ SameThreads(m, n)
            /\ Handling(n, t)
            /\ n.spp = m.mode /\ n.spie = m.sie
            /\ Kept(n, t) = Called(RunningRegisters(m), answer)
            /\ SameOthers(m, n, t)
<1>. DEFINE e == Enter(m, "ecall")
            n == EnterCall(m, answer)
            f == [s |-> m.s, a0 |-> m.a0, trap |-> "ecall"]
            c == [e.context EXCEPT ![t].a0 = FAILED]
<1>0. "ecall" \in TrapKind
  BY DEF TrapKind
<1>1. /\ e \in Machine
      /\ SameThreads(m, e)
      /\ e.sepc = m.pc /\ e.spp = m.mode /\ e.spie = m.sie
      /\ e.mode = "S" /\ e.s = m.s /\ e.a0 = m.a0 /\ e.sp = Sys(t, 1)
      /\ e.context = [m.context EXCEPT ![t].usr_sp = m.sp]
      /\ e.frame = [m.frame EXCEPT ![t] = f]
  BY <1>0, EnterIs
<1>2. e.k_current_context = t
  BY <1>1 DEF Running, SameThreads
<1>3. n = [e EXCEPT !.sepc = After(m.pc), !.context = c, !.s = answer]
  BY <1>1, <1>2 DEF EnterCall, Machine
<1>. HIDE DEF e, n
<1>4. After(m.pc) \in PC /\ After(m.pc) \in Code
  BY DEF After, PC, Code
<1>5. answer \in Word
  BY DEF Word
<1>6. c \in [TCB -> Context]
  <2>1. e.context \in [TCB -> Context]
    BY <1>1 DEF Machine
  <2>. QED  BY <2>1, JunkAnywhere DEF Context
<1>7. /\ c[t].usr_sp = m.sp
      /\ \A u \in TCB \ {t} : c[u] = m.context[u]
  BY <1>1 DEF Machine, Context
<1>. HIDE DEF c
<1>8. /\ n \in Machine
      /\ SameThreads(e, n)
      /\ n.sepc = After(m.pc) /\ n.spp = e.spp /\ n.spie = e.spie /\ n.mode = e.mode
      /\ n.s = answer /\ n.a0 = e.a0 /\ n.sp = e.sp /\ n.context = c /\ n.frame = e.frame
  BY <1>1, <1>3, <1>4, <1>5, <1>6 DEF Machine, SameThreads
<1>9. SameThreads(m, n)
  BY <1>1, <1>8 DEF SameThreads
<1>10. m.frame \in [TCB -> Frame \cup {JUNK}]
  BY DEF Machine
<1>11. f \in Frame
  BY DEF Running, Machine, Frame, TrapKind
<1>12. n.frame[t] = f
  BY <1>1, <1>8, <1>10
<1>13. Trap(f, n.sepc, n.s)
  BY <1>4, <1>8, <1>11 DEF Trap
<1>14. n.spp = m.mode /\ n.spp \in Mode /\ n.spie = m.sie /\ n.spie \in BOOLEAN
  BY <1>1, <1>8 DEF Machine
<1>15. Handling(n, t)
  BY <1>1, <1>7, <1>8, <1>9, <1>12, <1>13, <1>14 DEF Handling, Running, SameThreads
<1>16. Kept(n, t) = Called(RunningRegisters(m), answer)
  <2>1. m.pc # Start /\ After(m.pc) # Start
    BY DEF After, PC, Start
  <2>2. Kept(n, t) = Registry(After(m.pc), m.sp, m.s, JUNK, m.mode, answer)
    BY <1>1, <1>7, <1>8, <1>12, <2>1 DEF Kept, Going
  <2>3. RunningRegisters(m) = Registry(m.pc, m.sp, m.s, m.a0, m.mode, JUNK)
    BY <2>1 DEF RunningRegisters, Going
  <2>. QED  BY <2>2, <2>3, CalledRegistry
<1>17. SameOthers(m, n, t)
  BY <1>1, <1>7, <1>8, <1>10 DEF SameOthers
<1>. QED  BY <1>8, <1>9, <1>14, <1>15, <1>16, <1>17 DEF n

(* A thread that has the answer to its call in a0.                         *)
Answered(r) == IF r.answer = JUNK THEN r ELSE [r EXCEPT !.a0 = r.answer, !.answer = JUNK]

(* The end of an interrupt, and of a call.                                 *)
LEMMA LeaveInterrupt ==
  ASSUME NEW m \in Machine, NEW t \in TCB, Handling(m, t), m.frame[t].trap # "ecall"
  PROVE  LET n == Leave(m)
         IN /\ n \in Machine
            /\ SameThreads(m, n)
            /\ n.sie = m.spie
            /\ n.pc = m.sepc /\ n.sp = m.context[t].usr_sp /\ n.mode = m.spp
            /\ n.s = m.frame[t].s /\ n.a0 = m.frame[t].a0
            /\ n.context[t].sys_sp = Sys(t, 0)
            /\ SameOthers(m, n, t)
<1>. DEFINE i == RestoreRegistries(m)
            j == SwitchToUserStack(i)
            k == Sret(j)
<1>1. m.sp = Sys(t, 1) /\ m.k_current_context = t /\ m.frame[t] \in Frame
  BY DEF Handling, Trap
<1>2. /\ i \in Machine
      /\ SameThreads(m, i)
      /\ i.sepc = m.sepc /\ i.spp = m.spp /\ i.spie = m.spie
      /\ i.sp = Sys(t, 0) /\ i.s = m.frame[t].s /\ i.a0 = m.frame[t].a0
      /\ i.context = m.context
      /\ i.frame = [m.frame EXCEPT ![t] = JUNK]
  BY <1>1, RestoreRegistriesIs
<1>3. i.k_current_context = t
  BY <1>1, <1>2 DEF SameThreads
<1>. HIDE DEF i
<1>4. /\ j \in Machine
      /\ SameThreads(i, j)
      /\ j.s = i.s /\ j.a0 = i.a0
      /\ j.sepc = i.sepc /\ j.spp = i.spp /\ j.spie = i.spie
      /\ j.sp = i.context[t].usr_sp
      /\ j.context = [i.context EXCEPT ![t].sys_sp = i.sp, ![t].usr_sp = JUNK]
      /\ j.frame = i.frame
  BY <1>2, <1>3, SwitchToUserStackIs
<1>. HIDE DEF j
<1>5. j.spp \in Mode /\ j.spie \in BOOLEAN
  BY <1>2, <1>4 DEF Handling
<1>6. /\ k \in Machine
      /\ SameThreads(j, k)
      /\ k.pc = j.sepc /\ k.sp = j.sp /\ k.s = j.s /\ k.a0 = j.a0
      /\ k.mode = j.spp /\ k.sie = j.spie
      /\ k.context = j.context /\ k.frame = j.frame
  BY <1>4, <1>5, SretIs
<1>. HIDE DEF k
<1>7. Leave(m) = k
  <2>1. m.frame[m.sp[2]].trap # "ecall"
    BY <1>1 DEF Sys
  <2>. QED  BY <2>1 DEF Leave, i, j, k
<1>8. SameThreads(m, k)
  BY <1>2, <1>4, <1>6 DEF SameThreads
<1>9. m.context \in [TCB -> Context] /\ m.frame \in [TCB -> Frame \cup {JUNK}]
  BY DEF Machine
<1>10. k.context[t].sys_sp = Sys(t, 0)
  BY <1>2, <1>4, <1>6, <1>9 DEF Context
<1>11. SameOthers(m, k, t)
  BY <1>2, <1>4, <1>6, <1>9 DEF SameOthers
<1>. QED  BY <1>2, <1>4, <1>6, <1>7, <1>8, <1>10, <1>11

LEMMA LeaveCall ==
  ASSUME NEW m \in Machine, NEW t \in TCB, Handling(m, t), m.frame[t].trap = "ecall"
  PROVE  LET n == Leave(m)
         IN /\ n \in Machine
            /\ SameThreads(m, n)
            /\ n.sie = m.spie
            /\ n.pc = m.sepc /\ n.sp = m.context[t].usr_sp /\ n.mode = m.spp
            /\ n.s = m.frame[t].s /\ n.a0 = m.s
            /\ n.context[t].sys_sp = Sys(t, 0)
            /\ SameOthers(m, n, t)
<1>. DEFINE c == [m.context EXCEPT ![t].a0 = m.s]
            h == [m EXCEPT !.context = c]
            i == RestoreRegistries(h)
            j == SwitchToUserStackEcall(i)
            k == Sret(j)
<1>1. m.sp = Sys(t, 1) /\ m.k_current_context = t /\ m.frame[t] \in Frame
  BY DEF Handling, Trap
<1>2. /\ m.context \in [TCB -> Context] /\ m.frame \in [TCB -> Frame \cup {JUNK}]
      /\ m.s \in Word
  BY DEF Machine
<1>3. c \in [TCB -> Context]
  BY <1>2, JunkAnywhere DEF Context
<1>4. /\ c[t].a0 = m.s /\ c[t].usr_sp = m.context[t].usr_sp
      /\ \A u \in TCB \ {t} : c[u] = m.context[u]
  BY <1>2 DEF Context
<1>. HIDE DEF c
<1>5. /\ h \in Machine
      /\ SameThreads(m, h)
      /\ h.sepc = m.sepc /\ h.spp = m.spp /\ h.spie = m.spie
      /\ h.sp = m.sp /\ h.context = c /\ h.frame = m.frame
  BY <1>3 DEF Machine, SameThreads
<1>. HIDE DEF h
<1>6. /\ i \in Machine
      /\ SameThreads(h, i)
      /\ i.sepc = h.sepc /\ i.spp = h.spp /\ i.spie = h.spie
      /\ i.sp = Sys(t, 0) /\ i.s = h.frame[t].s
      /\ i.context = h.context
      /\ i.frame = [h.frame EXCEPT ![t] = JUNK]
  BY <1>1, <1>5, RestoreRegistriesIs
<1>7. i.k_current_context = t
  BY <1>1, <1>5, <1>6 DEF SameThreads
<1>. HIDE DEF i
<1>8. /\ j \in Machine
      /\ SameThreads(i, j)
      /\ j.s = i.s /\ j.a0 = i.context[t].a0
      /\ j.sepc = i.sepc /\ j.spp = i.spp /\ j.spie = i.spie
      /\ j.sp = i.context[t].usr_sp
      /\ j.context[t].sys_sp = i.sp
      /\ \A u \in TCB \ {t} : j.context[u] = i.context[u]
      /\ j.frame = i.frame
  BY <1>6, <1>7, SwitchToUserStackEcallIs
<1>. HIDE DEF j
<1>9. j.spp \in Mode /\ j.spie \in BOOLEAN
  BY <1>5, <1>6, <1>8 DEF Handling
<1>10. /\ k \in Machine
       /\ SameThreads(j, k)
       /\ k.pc = j.sepc /\ k.sp = j.sp /\ k.s = j.s /\ k.a0 = j.a0
       /\ k.mode = j.spp /\ k.sie = j.spie
       /\ k.context = j.context /\ k.frame = j.frame
  BY <1>8, <1>9, SretIs
<1>. HIDE DEF k
<1>11. Leave(m) = k
  <2>1. m.frame[m.sp[2]].trap = "ecall"
    BY <1>1 DEF Sys
  <2>2. h = [m EXCEPT !.context[m.k_current_context].a0 = m.s]
    BY <1>1 DEF h, c, Machine
  <2>. QED  BY <2>1, <2>2 DEF Leave, i, j, k
<1>12. SameThreads(m, k)
  BY <1>5, <1>6, <1>8, <1>10 DEF SameThreads
<1>13. k.context[t].sys_sp = Sys(t, 0)
  BY <1>3, <1>5, <1>6, <1>8, <1>10 DEF Context
<1>14. SameOthers(m, k, t)
  <2>. SUFFICES ASSUME NEW u \in TCB \ {t}
                PROVE  k.context[u] = m.context[u] /\ k.frame[u] = m.frame[u]
    BY DEF SameOthers
  <2>1. k.context[u] = m.context[u]
    BY <1>4, <1>5, <1>6, <1>8, <1>10
  <2>2. k.frame = [m.frame EXCEPT ![t] = JUNK]
    BY <1>5, <1>6, <1>8, <1>10
  <2>. QED  BY <1>2, <2>1, <2>2
<1>. QED  BY <1>4, <1>5, <1>6, <1>8, <1>10, <1>11, <1>12, <1>13, <1>14

LEMMA AnsweredRegistry ==
  ASSUME NEW pc, NEW sp, NEW s, NEW a0, NEW mode, NEW answer
  PROVE  /\ Answered(Registry(pc, sp, s, a0, mode, JUNK))
              = Registry(pc, sp, s, a0, mode, JUNK)
         /\ answer # JUNK => Answered(Registry(pc, sp, s, a0, mode, answer))
                               = Registry(pc, sp, s, answer, mode, JUNK)
<1>1. Answered(Registry(pc, sp, s, a0, mode, JUNK)) = Registry(pc, sp, s, a0, mode, JUNK)
  BY DEF Answered, Registry
<1>2. ASSUME answer # JUNK
      PROVE  Answered(Registry(pc, sp, s, a0, mode, answer))
               = Registry(pc, sp, s, answer, mode, JUNK)
  <2>. DEFINE r  == Registry(pc, sp, s, a0, mode, answer)
              r1 == Registry(pc, sp, s, answer, mode, answer)
  <2>1. r.answer = answer
    BY DEF Registry
  <2>2. [r EXCEPT !.a0 = answer] = r1
    BY DEF Registry
  <2>3. [r1 EXCEPT !.answer = JUNK] = Registry(pc, sp, s, answer, mode, JUNK)
    BY DEF Registry
  <2>4. [r EXCEPT !.a0 = answer, !.answer = JUNK]
          = [[r EXCEPT !.a0 = answer] EXCEPT !.answer = JUNK]
    OBVIOUS
  <2>. HIDE DEF r, r1
  <2>. QED  BY <1>2, <2>1, <2>2, <2>3, <2>4 DEF Answered, r
<1>. QED  BY <1>1, <1>2

(* The end of a trap.                                                      *)
LEMMA LeaveRuns ==
  ASSUME NEW m \in Machine, NEW t \in TCB, Handling(m, t), t \in m.live
  PROVE  LET n == Leave(m)
         IN /\ n \in Machine
            /\ SameThreads(m, n)
            /\ Running(n, t)
            /\ n.sie = m.spie
            /\ RunningRegisters(n) = Answered(Kept(m, t))
            /\ SameOthers(m, n, t)
<1>. DEFINE n == Leave(m)
            f == m.frame[t]
<1>1. f \in Frame /\ m.sepc \in PC \cup {Start} /\ m.context[t].usr_sp \in UsrStack(t)
  BY DEF Handling, Trap
<1>2. CASE f.trap # "ecall"
  <2>1. /\ n \in Machine
        /\ SameThreads(m, n)
        /\ n.sie = m.spie
        /\ n.pc = m.sepc /\ n.sp = m.context[t].usr_sp /\ n.mode = m.spp
        /\ n.s = f.s /\ n.a0 = f.a0
        /\ n.context[t].sys_sp = Sys(t, 0)
        /\ SameOthers(m, n, t)
    BY <1>2, LeaveInterrupt
  <2>. HIDE DEF n
  <2>2. f.a0 \in Word
    BY <1>1 DEF Frame
  <2>3. Running(n, t)
    BY <1>1, <2>1, <2>2 DEF Running, Handling, SameThreads
  <2>4. Kept(m, t) = IF m.sepc = Start
                       THEN Registry(Start, n.sp, JUNK, JUNK, n.mode, JUNK)
                       ELSE Registry(n.pc, n.sp, n.s, n.a0, n.mode, JUNK)
    BY <1>2, <2>1 DEF Kept, Going
  <2>5. RunningRegisters(n) = Kept(m, t)
    BY <2>1, <2>4 DEF RunningRegisters, Going
  <2>6. Answered(Kept(m, t)) = Kept(m, t)
    BY <2>4, AnsweredRegistry
  <2>. QED  BY <2>1, <2>3, <2>5, <2>6 DEF n
<1>3. CASE f.trap = "ecall"
  <2>1. /\ n \in Machine
        /\ SameThreads(m, n)
        /\ n.sie = m.spie
        /\ n.pc = m.sepc /\ n.sp = m.context[t].usr_sp /\ n.mode = m.spp
        /\ n.s = f.s /\ n.a0 = m.s
        /\ n.context[t].sys_sp = Sys(t, 0)
        /\ SameOthers(m, n, t)
    BY <1>3, LeaveCall
  <2>. HIDE DEF n
  <2>2. m.s \in Value /\ m.sepc \in PC
    BY <1>3 DEF Handling, Trap
  <2>3. m.s \in Word /\ m.s # JUNK /\ m.sepc # Start
    BY <2>2, ContextAssumption DEF Word, PC, Start
  <2>4. Running(n, t)
    BY <1>1, <2>1, <2>3 DEF Running, Handling, SameThreads
  <2>5. Kept(m, t) = Registry(m.sepc, n.sp, n.s, JUNK, n.mode, m.s)
    BY <1>3, <2>1, <2>3 DEF Kept, Going
  <2>6. RunningRegisters(n) = Registry(m.sepc, n.sp, n.s, m.s, n.mode, JUNK)
    BY <2>1, <2>3 DEF RunningRegisters, Going
  <2>7. RunningRegisters(n) = Answered(Kept(m, t))
    BY <2>3, <2>5, <2>6, AnsweredRegistry
  <2>. QED  BY <2>1, <2>4, <2>7 DEF n
<1>. QED  BY <1>2, <1>3

-----------------------------------------------------------------------------
(* The switch of contexts.                                                 *)

LEMMA SaveWaits ==
  ASSUME NEW m \in Machine, NEW t \in TCB, Handling(m, t)
  PROVE  LET n == SaveContext(m, t)
         IN /\ n \in Machine
            /\ SameThreads(m, n)
            /\ n.a0 = m.a0 /\ n.mode = m.mode
            /\ Saved(n, t)
            /\ n.context[t].spp \in Mode
            /\ n.context[t].spie = m.spie
            /\ WaitingRegisters(n, t) = Kept(m, t)
            /\ SameOthers(m, n, t)
<1>. DEFINE n == SaveContext(m, t)
            c == SavedContext(m, t)
<1>1. /\ n \in Machine
      /\ SameThreads(m, n)
      /\ n.a0 = m.a0 /\ n.mode = m.mode
      /\ n.context = [m.context EXCEPT ![t] = c]
      /\ n.frame = m.frame
  BY SaveContextIs
<1>. HIDE DEF n
<1>2. m.context \in [TCB -> Context]
  BY DEF Machine
<1>3. /\ c.ra = "yield" /\ c.sys_sp = m.sp /\ c.s = m.s /\ c.sepc = m.sepc
      /\ c.spp = m.spp /\ c.spie = m.spie /\ c.usr_sp = m.context[t].usr_sp
  <2>1. m.context[t] \in Context
    BY <1>2
  <2>. QED  BY <2>1 DEF SavedContext, Context
<1>. HIDE DEF c
<1>4. n.context[t] = c /\ SameOthers(m, n, t)
  BY <1>1, <1>2 DEF SameOthers
<1>5. Saved(n, t)
  BY <1>1, <1>3, <1>4 DEF Saved, Handling
<1>6. WaitingRegisters(n, t) = Kept(m, t)
  BY <1>1, <1>3, <1>4 DEF WaitingRegisters, Kept
<1>7. n.context[t].spp \in Mode /\ n.context[t].spie = m.spie
  BY <1>3, <1>4 DEF Handling
<1>. QED  BY <1>1, <1>4, <1>5, <1>6, <1>7 DEF n

(* The second half of yield.                                               *)
Given(m, u) == RestoreContext([m EXCEPT !.current_tcb = u, !.k_current_context = u], u)

Resuming(m, u) ==
  LET other == Given(m, u)
  IN IF other.pc = "k_tcb_start" THEN Sret([SwitchToUserStack(other) EXCEPT !.sepc = Start])
                                 ELSE Leave(other)

LEMMA GivenIs ==
  ASSUME NEW m \in Machine, NEW u \in m.live
  PROVE  LET n == Given(m, u)
             c == m.context[u]
         IN /\ n \in Machine
            /\ n.current_tcb = u /\ n.k_current_context = u /\ n.live = m.live
            /\ n.pc = c.ra /\ n.sp = c.sys_sp /\ n.s = c.s /\ n.a0 = m.a0
            /\ n.mode = m.mode /\ n.sepc = c.sepc /\ n.spp = c.spp /\ n.spie = c.spie
            /\ n.context[u].usr_sp = c.usr_sp
            /\ n.frame = m.frame
            /\ SameOthers(m, n, u)
<1>. DEFINE q == [m EXCEPT !.current_tcb = u, !.k_current_context = u]
            n == RestoreContext(q, u)
            c == m.context[u]
<1>1. u \in TCB /\ m.context \in [TCB -> Context]
  BY DEF Machine
<1>2. /\ q \in Machine
      /\ q.current_tcb = u /\ q.k_current_context = u /\ q.live = m.live
      /\ q.a0 = m.a0 /\ q.mode = m.mode /\ q.context = m.context /\ q.frame = m.frame
  BY <1>1 DEF Machine
<1>. HIDE DEF q
<1>3. /\ n \in Machine
      /\ SameThreads(q, n)
      /\ n.pc = c.ra /\ n.sp = c.sys_sp /\ n.s = c.s /\ n.a0 = q.a0
      /\ n.mode = q.mode /\ n.sepc = c.sepc /\ n.spp = c.spp /\ n.spie = c.spie
      /\ n.context[u].usr_sp = c.usr_sp
      /\ n.frame = q.frame
      /\ SameOthers(q, n, u)
  BY <1>1, <1>2, RestoreContextIs
<1>. HIDE DEF n
<1>4. SameOthers(m, n, u)
  BY <1>2, <1>3 DEF SameOthers
<1>. QED  BY <1>2, <1>3, <1>4 DEF Given, SameThreads, n, q

(* A thread whose context was saved goes on in its handler.                *)
LEMMA SavedResumes ==
  ASSUME NEW m \in Machine, NEW u \in m.live, m.mode = "S", m.a0 \in Word,
         Saved(m, u), Waiting(m, u)
  PROVE  LET n == Resuming(m, u)
         IN /\ n \in Machine
            /\ n.live = m.live
            /\ Running(n, u)
            /\ n.sie = TRUE
            /\ RunningRegisters(n) = Answered(WaitingRegisters(m, u))
            /\ SameOthers(m, n, u)
<1>. DEFINE g == Given(m, u)
            c == m.context[u]
            n == Leave(g)
<1>1. u \in TCB
  BY DEF Machine
<1>2. /\ g \in Machine
      /\ g.current_tcb = u /\ g.k_current_context = u /\ g.live = m.live
      /\ g.pc = c.ra /\ g.sp = c.sys_sp /\ g.s = c.s /\ g.a0 = m.a0
      /\ g.mode = m.mode /\ g.sepc = c.sepc /\ g.spp = c.spp /\ g.spie = c.spie
      /\ g.context[u].usr_sp = c.usr_sp
      /\ g.frame = m.frame
      /\ SameOthers(m, g, u)
  BY GivenIs
<1>. HIDE DEF g
<1>3. c.ra = "yield" /\ c.spp \in Mode /\ c.spie = TRUE
  BY DEF Saved, Waiting
<1>4. Handling(g, u)
  BY <1>1, <1>2, <1>3 DEF Handling, Saved
<1>5. Kept(g, u) = WaitingRegisters(m, u)
  BY <1>2, <1>3 DEF Kept, WaitingRegisters
<1>6. /\ n \in Machine
      /\ SameThreads(g, n)
      /\ Running(n, u)
      /\ n.sie = g.spie
      /\ RunningRegisters(n) = Answered(Kept(g, u))
      /\ SameOthers(g, n, u)
  BY <1>1, <1>2, <1>4, LeaveRuns
<1>7. Resuming(m, u) = n
  BY <1>2, <1>3 DEF Resuming, g
<1>. HIDE DEF n
<1>8. SameOthers(m, n, u)
  BY <1>2, <1>6 DEF SameOthers
<1>. QED  BY <1>2, <1>3, <1>5, <1>6, <1>7, <1>8 DEF SameThreads

(* A new thread starts in k_tcb_start.                                     *)
LEMMA NewStarts ==
  ASSUME NEW m \in Machine, NEW u \in m.live, m.mode = "S", m.a0 \in Word,
         New(m, u), Waiting(m, u)
  PROVE  LET n == Resuming(m, u)
         IN /\ n \in Machine
            /\ n.live = m.live
            /\ Running(n, u)
            /\ n.sie = TRUE
            /\ RunningRegisters(n) = Answered(WaitingRegisters(m, u))
            /\ SameOthers(m, n, u)
<1>. DEFINE g == Given(m, u)
            c == m.context[u]
            j == SwitchToUserStack(g)
            k == [j EXCEPT !.sepc = Start]
            n == Sret(k)
<1>1. u \in TCB
  BY DEF Machine
<1>2. /\ g \in Machine
      /\ g.current_tcb = u /\ g.k_current_context = u /\ g.live = m.live
      /\ g.pc = c.ra /\ g.sp = c.sys_sp /\ g.s = c.s /\ g.a0 = m.a0
      /\ g.mode = m.mode /\ g.sepc = c.sepc /\ g.spp = c.spp /\ g.spie = c.spie
      /\ g.context[u].usr_sp = c.usr_sp
      /\ g.frame = m.frame
      /\ SameOthers(m, g, u)
  BY GivenIs
<1>3. /\ c.ra = "k_tcb_start" /\ c.sys_sp = Sys(u, 0) /\ c.usr_sp = Usr(u, 0)
      /\ c.spp \in Mode /\ c.spie = TRUE
  BY DEF New, Waiting
<1>4. Resuming(m, u) = n
  BY <1>2, <1>3 DEF Resuming
<1>. HIDE DEF g
<1>5. /\ j \in Machine
      /\ SameThreads(g, j)
      /\ j.a0 = g.a0 /\ j.spp = g.spp /\ j.spie = g.spie
      /\ j.sp = g.context[u].usr_sp
      /\ j.context = [g.context EXCEPT ![u].sys_sp = g.sp, ![u].usr_sp = JUNK]
      /\ j.frame = g.frame
  BY <1>1, <1>2, SwitchToUserStackIs
<1>. HIDE DEF j
<1>6. g.context \in [TCB -> Context]
  BY <1>2 DEF Machine
<1>7. j.context[u].sys_sp = Sys(u, 0) /\ SameOthers(g, j, u)
  BY <1>1, <1>2, <1>3, <1>5, <1>6 DEF SameOthers, Context
<1>8. /\ k \in Machine
      /\ SameThreads(j, k)
      /\ k.sepc = Start /\ k.a0 = j.a0 /\ k.spp = j.spp /\ k.spie = j.spie /\ k.sp = j.sp
      /\ k.context = j.context /\ k.frame = j.frame
  BY <1>5 DEF Machine, SameThreads, Code
<1>. HIDE DEF k
<1>9. k.spp \in Mode /\ k.spie \in BOOLEAN
  BY <1>2, <1>3, <1>5, <1>8
<1>10. /\ n \in Machine
       /\ SameThreads(k, n)
       /\ n.pc = Start /\ n.sp = Usr(u, 0) /\ n.a0 = k.a0
       /\ n.mode = c.spp /\ n.sie = TRUE
       /\ n.context = k.context /\ n.frame = k.frame
  BY <1>2, <1>3, <1>5, <1>8, <1>9, SretIs
<1>. HIDE DEF n
<1>11. Running(n, u)
  BY <1>2, <1>5, <1>7, <1>8, <1>10 DEF Running, SameThreads, UsrStack
<1>12. RunningRegisters(n) = Registry(Start, Usr(u, 0), JUNK, JUNK, c.spp, JUNK)
  BY <1>10 DEF RunningRegisters, Going
<1>13. WaitingRegisters(m, u) = Registry(Start, Usr(u, 0), JUNK, JUNK, c.spp, JUNK)
  BY <1>3 DEF WaitingRegisters, Going
<1>14. RunningRegisters(n) = Answered(WaitingRegisters(m, u))
  BY <1>12, <1>13, AnsweredRegistry
<1>15. SameOthers(m, n, u)
  <2>1. n.context = j.context /\ n.frame = j.frame
    BY <1>8, <1>10
  <2>2. SameOthers(m, g, u)
    BY <1>2
  <2>. QED  BY ONLY <1>7, <2>1, <2>2 DEF SameOthers
<1>16. n.live = m.live
  BY <1>2, <1>5, <1>8, <1>10 DEF SameThreads
<1>. QED  BY <1>4, <1>10, <1>11, <1>14, <1>15, <1>16

LEMMA Resumes ==
  ASSUME NEW m \in Machine, NEW u \in m.live, m.mode = "S", m.a0 \in Word, Waiting(m, u)
  PROVE  LET n == Resuming(m, u)
         IN /\ n \in Machine
            /\ n.live = m.live
            /\ Running(n, u)
            /\ n.sie = TRUE
            /\ RunningRegisters(n) = Answered(WaitingRegisters(m, u))
            /\ SameOthers(m, n, u)
<1>1. New(m, u) \/ Saved(m, u)
  BY DEF Waiting
<1>2. CASE New(m, u)
  BY <1>2, NewStarts
<1>3. CASE Saved(m, u)
  BY <1>3, SavedResumes
<1>. QED  BY <1>1, <1>2, <1>3

-----------------------------------------------------------------------------
(* What all threads go on with when t is in a handler.                     *)

AllKept(m, t) ==
  [u \in TCB |-> IF u \notin m.live THEN JUNK
                 ELSE IF u = t THEN Kept(m, t)
                 ELSE WaitingRegisters(m, u)]

AllResumed(m, u) ==
  [v \in TCB |-> IF v \notin m.live THEN JUNK
                 ELSE IF v = u THEN Answered(WaitingRegisters(m, u))
                 ELSE WaitingRegisters(m, v)]

GivenAnswer(r, u) == [r EXCEPT ![u] = Answered(@)]

(* Those of thread u do not change when another runs or is saved.          *)
LEMMA OthersKeep ==
  ASSUME NEW m, NEW n, NEW t, NEW u \in TCB, u # t, SameOthers(m, n, t)
  PROVE  /\ Waiting(m, u) => Waiting(n, u)
         /\ WaitingRegisters(n, u) = WaitingRegisters(m, u)
<1>1. n.context[u] = m.context[u] /\ n.frame[u] = m.frame[u]
  BY DEF SameOthers
<1>2. Waiting(m, u) => Waiting(n, u)
  BY <1>1 DEF Waiting, New, Saved
<1>3. WaitingRegisters(n, u) = WaitingRegisters(m, u)
  BY <1>1 DEF WaitingRegisters
<1>. QED  BY <1>2, <1>3

(* The thread in the handler goes on.                                      *)
LEMMA LeaveSettles ==
  ASSUME NEW m \in Machine, NEW t \in m.live, Handling(m, t), OthersWait(m, t)
  PROVE  LET n == Leave(m)
         IN /\ Settled(n, t)
            /\ n.current_tcb = t
            /\ n.sie = m.spie
            /\ AllRegisters(n) = GivenAnswer(AllKept(m, t), t)
<1>. DEFINE n == Leave(m)
<1>1. t \in TCB /\ m.live \subseteq TCB
  BY DEF Machine
<1>2. /\ n \in Machine
      /\ SameThreads(m, n)
      /\ Running(n, t)
      /\ n.sie = m.spie
      /\ RunningRegisters(n) = Answered(Kept(m, t))
      /\ SameOthers(m, n, t)
  BY <1>1, LeaveRuns
<1>. HIDE DEF n
<1>3. n.live = m.live /\ n.current_tcb = t
  BY <1>2 DEF SameThreads, Handling
<1>4. OthersWait(n, t)
  BY <1>1, <1>2, <1>3, OthersKeep DEF OthersWait
<1>5. \A u \in TCB : u # t => WaitingRegisters(n, u) = WaitingRegisters(m, u)
  BY <1>2, OthersKeep
<1>6. AllRegisters(n) = GivenAnswer(AllKept(m, t), t)
  BY <1>1, <1>2, <1>3, <1>5 DEF AllRegisters, AllKept, GivenAnswer
<1>. QED  BY <1>2, <1>3, <1>4, <1>6 DEF Settled, n

(* Another thread, or the same, gets the CPU.                              *)
LEMMA ResumeSettles ==
  ASSUME NEW m \in Machine, NEW u \in m.live, m.mode = "S", m.a0 \in Word,
         \A v \in m.live : Waiting(m, v)
  PROVE  LET n == Resuming(m, u)
         IN /\ Settled(n, u)
            /\ n.current_tcb = u
            /\ n.sie = TRUE
            /\ AllRegisters(n) = AllResumed(m, u)
<1>. DEFINE n == Resuming(m, u)
<1>1. u \in TCB /\ m.live \subseteq TCB
  BY DEF Machine
<1>2. Waiting(m, u)
  OBVIOUS
<1>3. /\ n \in Machine
      /\ n.live = m.live
      /\ Running(n, u)
      /\ n.sie = TRUE
      /\ RunningRegisters(n) = Answered(WaitingRegisters(m, u))
      /\ SameOthers(m, n, u)
  BY <1>2, Resumes
<1>. HIDE DEF n
<1>4. n.current_tcb = u
  BY <1>3 DEF Running
<1>5. OthersWait(n, u)
  BY <1>1, <1>3, OthersKeep DEF OthersWait
<1>6. \A v \in TCB : v # u => WaitingRegisters(n, v) = WaitingRegisters(m, v)
  BY <1>3, OthersKeep
<1>7. AllRegisters(n) = AllResumed(m, u)
  BY <1>1, <1>3, <1>4, <1>6 DEF AllRegisters, AllResumed
<1>. QED  BY <1>3, <1>4, <1>5, <1>7 DEF Settled, n

(* t calls yield, or has been freed and calls it.                          *)
Yielding(m, t) ==
  /\ m.current_tcb = t
  /\ m.mode = "S"
  /\ m.a0 \in Word
  /\ OthersWait(m, t)
  /\ t \in m.live => Handling(m, t) /\ m.spie = TRUE

(* yield: the context of the thread in the handler is saved when that      *)
(* thread still exists.                                                    *)
LEMMA YieldSettles ==
  ASSUME NEW m \in Machine, NEW t \in TCB, NEW u \in m.live,
         Yielding(m, t)
  PROVE  LET n == Yield(m, u)
         IN /\ Settled(n, u)
            /\ n.current_tcb = u
            /\ n.sie = TRUE
            /\ AllRegisters(n) = GivenAnswer(AllKept(m, t), u)
<1>. DEFINE k == IF t \in m.live THEN SaveContext(m, t) ELSE m
            n == Resuming(k, u)
<1>1. u \in TCB /\ m.live \subseteq TCB
  BY DEF Machine
<1>2. /\ m.current_tcb = t /\ m.mode = "S" /\ m.a0 \in Word /\ OthersWait(m, t)
      /\ t \in m.live => Handling(m, t) /\ m.spie = TRUE
  BY DEF Yielding
<1>3. Yield(m, u) = n
  BY <1>2 DEF Yield, Resuming, Given
<1>4. /\ k \in Machine
      /\ k.live = m.live /\ k.a0 = m.a0 /\ k.mode = m.mode
      /\ SameOthers(m, k, t)
      /\ t \in m.live => Waiting(k, t) /\ WaitingRegisters(k, t) = Kept(m, t)
  <2>1. CASE t \in m.live
    <3>1. /\ k \in Machine
          /\ SameThreads(m, k)
          /\ k.a0 = m.a0 /\ k.mode = m.mode
          /\ Saved(k, t)
          /\ k.context[t].spp \in Mode
          /\ k.context[t].spie = m.spie
          /\ WaitingRegisters(k, t) = Kept(m, t)
          /\ SameOthers(m, k, t)
      BY <1>2, <2>1, SaveWaits
    <3>. HIDE DEF k
    <3>. QED  BY <1>2, <2>1, <3>1 DEF Waiting, SameThreads
  <2>2. CASE t \notin m.live
    BY <2>2 DEF SameOthers
  <2>. QED  BY <2>1, <2>2
<1>. HIDE DEF k
<1>5. \A v \in k.live : Waiting(k, v)
  BY <1>1, <1>2, <1>4, OthersKeep DEF OthersWait
<1>6. \A v \in TCB : v # t => WaitingRegisters(k, v) = WaitingRegisters(m, v)
  BY <1>4, OthersKeep
<1>7. /\ Settled(n, u)
      /\ n.current_tcb = u
      /\ n.sie = TRUE
      /\ AllRegisters(n) = AllResumed(k, u)
  BY ZenonT(40), <1>2, <1>4, <1>5, ResumeSettles
<1>. HIDE DEF n
<1>8. \A v \in m.live : WaitingRegisters(k, v) = AllKept(m, t)[v]
  BY <1>1, <1>4, <1>6 DEF AllKept
<1>9. AllRegisters(n) = GivenAnswer(AllKept(m, t), u)
  <2>1. AllKept(m, t) = [v \in TCB |-> AllKept(m, t)[v]]
    BY DEF AllKept
  <2>2. \A v \in TCB \ m.live : AllKept(m, t)[v] = JUNK
    BY DEF AllKept
  <2>3. AllRegisters(n) = AllResumed(k, u)
    BY <1>7
  <2>. QED  BY ONLY <1>1, <1>4, <1>8, <2>1, <2>2, <2>3, u \in m.live
    DEF AllResumed, GivenAnswer
<1>. QED  BY <1>3, <1>7, <1>9

(* They are registers, and not JUNK.                                       *)
LEMMA GoingIsRegisters ==
  ASSUME NEW pc \in PC \cup {Start}, NEW t \in TCB, NEW sp \in UsrStack(t), NEW mode \in Mode,
         NEW f \in Frame, NEW s, f.trap = "ecall" => s \in Value
  PROVE  Going(pc, sp, mode, f, s) \in RegisterFile
<1>1. sp \in Stack
  BY DEF UsrStack, Stack
<1>2. f.s \in Value \cup {JUNK} /\ f.a0 \in Value \cup {JUNK}
  BY DEF Frame, Word
<1>. QED  BY <1>1, <1>2 DEF Going, Registry, RegisterFile, Mode

LEMMA KeptNotJunk ==
  ASSUME NEW m \in Machine, NEW t, OthersWait(m, t), t \in m.live => Handling(m, t),
         NEW u \in m.live
  PROVE  AllKept(m, t)[u] # JUNK
<1>1. u \in TCB /\ JUNK \notin RegisterFile
  BY ContextAssumption DEF Machine
<1>2. CASE u = t
  <2>1. Kept(m, t) \in RegisterFile
    BY <1>1, <1>2, GoingIsRegisters DEF Handling, Trap, Kept
  <2>. QED  BY <1>1, <1>2, <2>1 DEF AllKept
<1>3. CASE u # t
  <2>. DEFINE c == m.context[u]
              pc == IF c.ra = "k_tcb_start" THEN Start ELSE c.sepc
  <2>1. New(m, u) \/ Saved(m, u)
    BY <1>3 DEF OthersWait, Waiting
  <2>2. c.spp \in Mode /\ c.usr_sp \in UsrStack(u)
    BY <1>3 DEF OthersWait, Waiting, New, Saved, UsrStack
  <2>3. WaitingRegisters(m, u) \in RegisterFile
    <3>1. CASE New(m, u)
      <4>1. WaitingRegisters(m, u) = Registry(Start, c.usr_sp, JUNK, JUNK, c.spp, JUNK)
        BY <3>1 DEF WaitingRegisters, Going, New
      <4>2. c.usr_sp \in Stack
        BY <1>1, <2>2 DEF UsrStack, Stack
      <4>. QED  BY <2>2, <4>1, <4>2 DEF Registry, RegisterFile, Mode
    <3>2. CASE Saved(m, u)
      <4>1. Trap(m.frame[u], c.sepc, c.s) /\ c.ra # "k_tcb_start"
        BY <3>2 DEF Saved
      <4>2. WaitingRegisters(m, u) = Going(c.sepc, c.usr_sp, c.spp, m.frame[u], c.s)
        BY <4>1 DEF WaitingRegisters
      <4>. QED  BY <1>1, <2>2, <4>1, <4>2, GoingIsRegisters DEF Trap
    <3>. QED  BY <2>1, <3>1, <3>2
  <2>. QED  BY <1>1, <1>3, <2>3 DEF AllKept
<1>. QED  BY <1>2, <1>3

(* Entering a handler changes what the thread in it goes on with.          *)
LEMMA KeptOnEntry ==
  ASSUME NEW m \in Machine, NEW n, NEW t \in m.live, m.current_tcb = t,
         SameThreads(m, n), SameOthers(m, n, t)
  PROVE  AllKept(n, t) = [AllRegisters(m) EXCEPT ![t] = Kept(n, t)]
<1>1. t \in TCB /\ n.live = m.live
  BY DEF Machine, SameThreads
<1>2. \A u \in TCB : u # t => WaitingRegisters(n, u) = WaitingRegisters(m, u)
  BY OthersKeep
<1>. QED  BY <1>1, <1>2 DEF AllKept, AllRegisters

LEMMA OthersWaitOnEntry ==
  ASSUME NEW m \in Machine, NEW n, NEW t, OthersWait(m, t),
         SameThreads(m, n), SameOthers(m, n, t)
  PROVE  OthersWait(n, t)
<1>1. n.live = m.live /\ m.live \subseteq TCB
  BY DEF SameThreads, Machine
<1>. QED  BY <1>1, OthersKeep DEF OthersWait

-----------------------------------------------------------------------------
(* The steps.                                                              *)

(* A step keeps the invariant, and interrupts enabled; and it is a step of *)
(* PrivateCPU that goes on with what r says.                               *)
GoesOn(u, r) ==
  /\ IInv'
  /\ machine.sie => machine'.sie
  /\ Private!Resume(u, r)

LEMMA LeaveGoesOn ==
  ASSUME NEW m \in Machine, NEW t \in m.live, Handling(m, t), OthersWait(m, t),
         machine' = Leave(m), machine.sie => m.spie
  PROVE  GoesOn(t, AllKept(m, t))
<1>1. /\ Settled(machine', t)
      /\ machine'.current_tcb = t
      /\ machine'.sie = m.spie
      /\ AllRegisters(machine') = GivenAnswer(AllKept(m, t), t)
  BY LeaveSettles
<1>2. AllKept(m, t)[t] # JUNK
  BY KeptNotJunk
<1>3. IInv'
  BY <1>1 DEF IInv
<1>. QED  BY <1>1, <1>2, <1>3 DEF GoesOn, Private!Resume, Private!Resumed, Answered,
                                      GivenAnswer

LEMMA YieldGoesOn ==
  ASSUME NEW m \in Machine, NEW t \in TCB, NEW u \in m.live,
         Yielding(m, t),
         machine' = Yield(m, u)
  PROVE  GoesOn(u, AllKept(m, t))
<1>1. /\ Settled(machine', u)
      /\ machine'.current_tcb = u
      /\ machine'.sie = TRUE
      /\ AllRegisters(machine') = GivenAnswer(AllKept(m, t), u)
  BY YieldSettles
<1>2. AllKept(m, t)[u] # JUNK
  BY KeptNotJunk DEF Yielding
<1>3. IInv'
  BY <1>1 DEF IInv
<1>. QED  BY <1>1, <1>2, <1>3 DEF GoesOn, Private!Resume, Private!Resumed, Answered,
                                      GivenAnswer

LEMMA InterruptStep ==
  ASSUME IInv, Interrupt
  PROVE  GoesOn(machine.current_tcb, AllRegisters(machine))
<1>. DEFINE t == machine.current_tcb
            h == Enter(machine, "interrupt")
<1>1. machine \in Machine /\ Running(machine, t) /\ OthersWait(machine, t)
  BY DEF IInv, Settled
<1>2. t \in TCB /\ t \in machine.live
  BY <1>1 DEF Machine, Running
<1>3. /\ h \in Machine
      /\ SameThreads(machine, h)
      /\ Handling(h, t)
      /\ h.spie = machine.sie
      /\ Kept(h, t) = RunningRegisters(machine)
      /\ SameOthers(machine, h, t)
  BY <1>1, <1>2, EnterHandles
<1>4. machine' = Leave(h)
  BY DEF Interrupt
<1>. HIDE DEF h
<1>5. OthersWait(h, t) /\ h.live = machine.live
  BY <1>1, <1>3, OthersWaitOnEntry DEF SameThreads
<1>6. AllKept(h, t) = AllRegisters(machine)
  <2>1. AllKept(h, t) = [AllRegisters(machine) EXCEPT ![t] = Kept(h, t)]
    BY <1>1, <1>2, <1>3, KeptOnEntry
  <2>. QED  BY <1>2, <1>3, <2>1 DEF AllRegisters
<1>. QED  BY <1>2, <1>3, <1>4, <1>5, <1>6, LeaveGoesOn

LEMMA InterruptAndSwitchStep ==
  ASSUME IInv, NEW u, InterruptAndSwitch(u)
  PROVE  GoesOn(u, AllRegisters(machine))
<1>. DEFINE t == machine.current_tcb
            h == Enter(machine, "interrupt")
<1>1. machine \in Machine /\ Running(machine, t) /\ OthersWait(machine, t)
  BY DEF IInv, Settled
<1>2. t \in TCB /\ t \in machine.live
  BY <1>1 DEF Machine, Running
<1>3. /\ h \in Machine
      /\ SameThreads(machine, h)
      /\ Handling(h, t)
      /\ h.spie = machine.sie
      /\ Kept(h, t) = RunningRegisters(machine)
      /\ SameOthers(machine, h, t)
  BY <1>1, <1>2, EnterHandles
<1>4. machine' = Yield(h, u) /\ u \in machine.live /\ machine.sie = TRUE
  BY <1>1 DEF InterruptAndSwitch, Machine
<1>. HIDE DEF h
<1>5. OthersWait(h, t) /\ h.live = machine.live
  BY <1>1, <1>3, OthersWaitOnEntry DEF SameThreads
<1>6. AllKept(h, t) = AllRegisters(machine)
  <2>1. AllKept(h, t) = [AllRegisters(machine) EXCEPT ![t] = Kept(h, t)]
    BY <1>1, <1>2, <1>3, KeptOnEntry
  <2>. QED  BY <1>2, <1>3, <2>1 DEF AllRegisters
<1>7. Yielding(h, t)
  BY <1>3, <1>4, <1>5 DEF Yielding, Handling
<1>. QED  BY <1>2, <1>3, <1>4, <1>5, <1>6, <1>7, YieldGoesOn

(* Any call begins so.                                                     *)
LEMMA CallBegins ==
  ASSUME IInv, InBody, NEW answer \in Value
  PROVE  LET t == machine.current_tcb
             h == EnterCall(machine, answer)
         IN /\ t \in TCB /\ t \in h.live
            /\ h \in Machine
            /\ SameThreads(machine, h)
            /\ Handling(h, t)
            /\ OthersWait(h, t)
            /\ h.spp = machine.mode /\ h.spie = machine.sie
            /\ AllKept(h, t) = Private!Calling(answer)
            /\ Private!InBody
            /\ AllRegisters(machine)[t] = RunningRegisters(machine)
            /\ RunningRegisters(machine).mode = machine.mode
<1>. DEFINE t == machine.current_tcb
            h == EnterCall(machine, answer)
            r == RunningRegisters(machine)
<1>1. machine \in Machine /\ Running(machine, t) /\ OthersWait(machine, t)
  BY DEF IInv, Settled
<1>2. t \in TCB /\ t \in machine.live
  BY <1>1 DEF Machine, Running
<1>3. machine.pc \in PC /\ machine.pc # Start
  BY DEF InBody, PC, Start
<1>4. /\ h \in Machine
      /\ SameThreads(machine, h)
      /\ Handling(h, t)
      /\ h.spp = machine.mode /\ h.spie = machine.sie
      /\ Kept(h, t) = Called(r, answer)
      /\ SameOthers(machine, h, t)
  BY <1>1, <1>2, <1>3, EnterCallHandles
<1>. HIDE DEF h
<1>5. OthersWait(h, t) /\ h.live = machine.live
  BY <1>1, <1>4, OthersWaitOnEntry DEF SameThreads
<1>6. AllKept(h, t) = [AllRegisters(machine) EXCEPT ![t] = Called(r, answer)]
  BY <1>1, <1>2, <1>4, KeptOnEntry
<1>7. AllRegisters(machine)[t] = r
  BY <1>2 DEF AllRegisters
<1>8. r.pc = machine.pc /\ r.mode = machine.mode
  BY <1>3 DEF RunningRegisters, Going, Registry
<1>. HIDE DEF r
<1>9. [pc \in PC |-> After(pc)][r.pc] = After(r.pc)
  BY <1>3, <1>8
<1>10. Called(r, answer) = [r EXCEPT !.pc = [pc \in PC |-> After(pc)][@], !.a0 = JUNK,
                                     !.answer = answer]
  BY <1>9 DEF Called
<1>11. AllKept(h, t) = Private!Calling(answer)
  BY <1>6, <1>7, <1>10 DEF Private!Calling
<1>12. Private!InBody
  BY <1>3, <1>7, <1>8 DEF Private!InBody
<1>. QED  BY <1>2, <1>4, <1>5, <1>7, <1>8, <1>11, <1>12 DEF h, r

LEMMA CallStep ==
  ASSUME IInv, NEW answer \in Value, Call(answer)
  PROVE  /\ GoesOn(machine.current_tcb, Private!Calling(answer))
         /\ Private!InBody
<1>. DEFINE t == machine.current_tcb
            h == EnterCall(machine, answer)
<1>1. InBody /\ machine' = Leave(h)
  BY DEF Call
<1>2. /\ t \in TCB /\ t \in h.live
      /\ h \in Machine
      /\ Handling(h, t)
      /\ OthersWait(h, t)
      /\ h.spie = machine.sie
      /\ AllKept(h, t) = Private!Calling(answer)
      /\ Private!InBody
  BY <1>1, CallBegins
<1>. HIDE DEF h
<1>3. GoesOn(t, AllKept(h, t))
  BY <1>1, <1>2, LeaveGoesOn
<1>. QED  BY <1>2, <1>3

LEMMA CallAndSwitchStep ==
  ASSUME IInv, NEW answer \in Value, NEW u, CallAndSwitch(answer, u)
  PROVE  GoesOn(u, Private!Calling(answer)) /\ Private!InBody
<1>. DEFINE t == machine.current_tcb
            h == EnterCall(machine, answer)
<1>1. InBody /\ machine.sie /\ u \in machine.live /\ machine' = Yield(h, u)
  BY DEF CallAndSwitch
<1>2. /\ t \in TCB /\ t \in h.live
      /\ h \in Machine
      /\ SameThreads(machine, h)
      /\ Handling(h, t)
      /\ OthersWait(h, t)
      /\ h.spie = machine.sie
      /\ AllKept(h, t) = Private!Calling(answer)
      /\ Private!InBody
  BY <1>1, CallBegins
<1>3. machine.sie = TRUE
  BY <1>1 DEF IInv, Settled, Machine
<1>. HIDE DEF h
<1>4. Yielding(h, t)
  BY <1>2, <1>3 DEF Yielding, Handling
<1>5. u \in h.live
  BY <1>1, <1>2 DEF SameThreads
<1>6. GoesOn(u, AllKept(h, t))
  BY <1>1, <1>2, <1>4, <1>5, YieldGoesOn
<1>. QED  BY <1>2, <1>6

(* prepare_user_mode changes the mode that sret will return to.            *)
LEMMA SetUserModeStep ==
  ASSUME IInv, SetUserMode
  PROVE  /\ GoesOn(machine.current_tcb,
                   [Private!Calling(SUCCESS) EXCEPT ![machine.current_tcb].mode = "U"])
         /\ Private!InBody
<1>. DEFINE t == machine.current_tcb
            e == EnterCall(machine, SUCCESS)
            h == [e EXCEPT !.spp = "U"]
<1>1. InBody /\ machine' = Leave(h) /\ SUCCESS \in Value
  BY DEF SetUserMode, SUCCESS, Value
<1>2. /\ t \in TCB /\ t \in e.live
      /\ e \in Machine
      /\ Handling(e, t)
      /\ OthersWait(e, t)
      /\ e.spie = machine.sie
      /\ AllKept(e, t) = Private!Calling(SUCCESS)
      /\ Private!InBody
  BY <1>1, CallBegins
<1>. HIDE DEF e
<1>3. "U" \in Mode /\ Mode \subseteq Privilege
  BY DEF Mode, Privilege
<1>4. /\ h \in Machine
      /\ SameThreads(e, h)
      /\ h.spp = "U" /\ h.spie = e.spie /\ h.sepc = e.sepc /\ h.s = e.s /\ h.a0 = e.a0
      /\ h.sp = e.sp /\ h.mode = e.mode
      /\ h.context = e.context /\ h.frame = e.frame
  BY <1>2, <1>3 DEF Machine, SameThreads
<1>. HIDE DEF h
<1>5. Handling(h, t)
  BY <1>2, <1>3, <1>4 DEF Handling, SameThreads
<1>6. OthersWait(h, t) /\ h.live = e.live
  BY <1>2, <1>4 DEF OthersWait, Waiting, New, Saved, SameThreads
<1>7. Kept(h, t) = [Kept(e, t) EXCEPT !.mode = "U"]
  BY <1>4 DEF Kept, Going, Registry
<1>8. \A u \in TCB : WaitingRegisters(h, u) = WaitingRegisters(e, u)
  BY <1>4 DEF WaitingRegisters
<1>9. AllKept(h, t) = [AllKept(e, t) EXCEPT ![t].mode = "U"]
  BY <1>2, <1>6, <1>7, <1>8 DEF AllKept
<1>10. GoesOn(t, AllKept(h, t))
  BY <1>1, <1>2, <1>4, <1>5, <1>6, LeaveGoesOn
<1>. QED  BY <1>2, <1>9, <1>10

LEMMA ThreadCreateStep ==
  ASSUME IInv, NEW x \in TCB, ThreadCreate(x)
  PROVE  IInv' /\ (machine.sie => machine'.sie) /\ Private!Create(x)
<1>. DEFINE t == machine.current_tcb
            e == EnterCall(machine, SUCCESS)
            c == NewContext(e, x)
            h == [e EXCEPT !.live = @ \cup {x}, !.context[x] = c]
            fresh == Private!Fresh(x, machine.mode)
<1>1. /\ InBody /\ x \notin machine.live /\ machine' = Leave(h)
      /\ SUCCESS \in Value
  BY DEF ThreadCreate, SUCCESS, Value
<1>2. /\ t \in TCB /\ t \in e.live
      /\ e \in Machine
      /\ SameThreads(machine, e)
      /\ Handling(e, t)
      /\ OthersWait(e, t)
      /\ e.spp = machine.mode /\ e.spie = machine.sie
      /\ AllKept(e, t) = Private!Calling(SUCCESS)
      /\ Private!InBody
      /\ AllRegisters(machine)[t] = RunningRegisters(machine)
      /\ RunningRegisters(machine).mode = machine.mode
  BY <1>1, CallBegins
<1>. HIDE DEF e
<1>3. e.live = machine.live /\ x # t /\ x \notin e.live
  BY <1>1, <1>2 DEF SameThreads
<1>4. /\ c \in Context
      /\ c.ra = "k_tcb_start" /\ c.sys_sp = Sys(x, 0) /\ c.usr_sp = Usr(x, 0)
      /\ c.spp = e.spp /\ c.spie = TRUE
  <2>1. /\ "k_tcb_start" \in Code /\ Usr(x, 0) \in Pointer /\ Sys(x, 0) \in Pointer
        /\ e.spp \in Privilege /\ TRUE \in Flag
    BY <1>2 DEF Code, Pointer, Stack, Machine, Flag
  <2>. QED  BY <2>1, JunkAnywhere DEF NewContext, NoContext, Context
<1>. HIDE DEF c
<1>5. /\ h \in Machine
      /\ h.live = e.live \cup {x}
      /\ h.current_tcb = e.current_tcb /\ h.k_current_context = e.k_current_context
      /\ h.spp = e.spp /\ h.spie = e.spie /\ h.sepc = e.sepc /\ h.s = e.s /\ h.a0 = e.a0
      /\ h.sp = e.sp /\ h.mode = e.mode
      /\ h.context = [e.context EXCEPT ![x] = c] /\ h.frame = e.frame
  BY <1>2, <1>4 DEF Machine
<1>. HIDE DEF h
<1>6. /\ h.context[x] = c
      /\ \A u \in TCB \ {x} : h.context[u] = e.context[u]
  BY <1>2, <1>5 DEF Machine
<1>7. SameOthers(e, h, x)
  BY <1>5, <1>6 DEF SameOthers
<1>8. Handling(h, t)
  BY <1>2, <1>3, <1>5, <1>6 DEF Handling
<1>9. OthersWait(h, t)
  <2>1. Waiting(h, x)
    BY <1>2, <1>4, <1>5, <1>6 DEF Waiting, New, Handling
  <2>2. \A u \in e.live : u \in TCB /\ u # x
    BY <1>2, <1>3 DEF Machine
  <2>3. ASSUME NEW u \in h.live \ {t}, u # x
        PROVE  Waiting(h, u)
    <3>1. u \in e.live \ {t} /\ u \in TCB
      BY <1>5, <2>2, <2>3
    <3>2. Waiting(e, u)
      BY <1>2, <3>1 DEF OthersWait
    <3>. QED  BY <1>7, <2>3, <3>1, <3>2, OthersKeep
  <2>. QED  BY <2>1, <2>3 DEF OthersWait
<1>10. AllKept(h, t) = [AllKept(e, t) EXCEPT ![x] = fresh]
  <2>1. Kept(h, t) = Kept(e, t)
    BY <1>2, <1>3, <1>5, <1>6 DEF Kept
  <2>2. \A u \in TCB : u # x => WaitingRegisters(h, u) = WaitingRegisters(e, u)
    BY <1>7, OthersKeep
  <2>3. WaitingRegisters(h, x) = fresh
    BY <1>2, <1>4, <1>6 DEF WaitingRegisters, Going, Registry, Private!Fresh
  <2>. HIDE DEF fresh
  <2>. QED  BY <1>2, <1>3, <1>5, <2>1, <2>2, <2>3 DEF AllKept
<1>11. GoesOn(t, AllKept(h, t))
  <2>1. t \in h.live
    BY <1>2, <1>5
  <2>. QED  BY <1>1, <1>2, <1>5, <1>8, <1>9, <2>1, LeaveGoesOn
<1>12. AllRegisters(machine)[x] = JUNK
  BY <1>1 DEF AllRegisters
<1>. QED  BY <1>2, <1>10, <1>11, <1>12 DEF GoesOn, Private!Create

(* thread_exit frees the TCB before it calls yield.                        *)
LEMMA ThreadExitStep ==
  ASSUME IInv, NEW u, ThreadExit(u)
  PROVE  IInv' /\ (machine.sie => machine'.sie) /\ Private!Exit(u)
<1>. DEFINE t == machine.current_tcb
            e == EnterCall(machine, SUCCESS)
            h == Freed(e, t)
<1>1. /\ InBody /\ u \in machine.live \ {t} /\ machine' = Yield(h, u)
      /\ SUCCESS \in Value
  BY DEF ThreadExit, SUCCESS, Value
<1>2. /\ t \in TCB /\ t \in e.live
      /\ e \in Machine
      /\ SameThreads(machine, e)
      /\ Handling(e, t)
      /\ OthersWait(e, t)
      /\ AllKept(e, t) = Private!Calling(SUCCESS)
      /\ Private!InBody
  BY <1>1, CallBegins
<1>3. e.live = machine.live /\ u # t /\ u \in e.live
  BY <1>1, <1>2 DEF SameThreads
<1>. HIDE DEF e
<1>4. NoContext \in Context
  BY JunkAnywhere DEF NoContext, Context
<1>5. /\ h \in Machine
      /\ h.live = e.live \ {t}
      /\ h.current_tcb = e.current_tcb
      /\ h.a0 = e.a0 /\ h.mode = e.mode
      /\ h.context = [e.context EXCEPT ![t] = NoContext]
      /\ h.frame = [e.frame EXCEPT ![t] = JUNK]
  BY <1>2, <1>4 DEF Freed, Machine
<1>. HIDE DEF h
<1>6. SameOthers(e, h, t)
  BY <1>2, <1>5 DEF SameOthers, Machine
<1>7. OthersWait(h, t)
  <2>1. e.live \subseteq TCB
    BY <1>2 DEF Machine
  <2>. QED  BY <1>2, <1>5, <1>6, <2>1, OthersKeep DEF OthersWait
<1>8. Yielding(h, t)
  BY <1>2, <1>5, <1>7 DEF Yielding, Handling
<1>9. AllKept(h, t) = [AllRegisters(machine) EXCEPT ![t] = JUNK]
  <2>1. \A v \in TCB : v # t => AllKept(e, t)[v] = AllRegisters(machine)[v]
    BY <1>2 DEF Private!Calling, AllRegisters
  <2>2. \A v \in TCB : v # t => WaitingRegisters(h, v) = WaitingRegisters(e, v)
    BY <1>6, OthersKeep
  <2>3. \A v \in TCB : v # t => AllKept(h, t)[v] = AllKept(e, t)[v]
    BY <1>5, <2>2 DEF AllKept
  <2>4. AllKept(h, t)[t] = JUNK
    BY <1>2, <1>5 DEF AllKept
  <2>5. /\ AllKept(h, t) = [v \in TCB |-> AllKept(h, t)[v]]
        /\ AllRegisters(machine) = [v \in TCB |-> AllRegisters(machine)[v]]
    BY DEF AllKept, AllRegisters
  <2>. QED  BY <1>2, <2>1, <2>3, <2>4, <2>5
<1>10. GoesOn(u, AllKept(h, t))
  <2>1. u \in h.live
    BY <1>3, <1>5
  <2>. QED  BY <1>1, <1>2, <1>5, <1>8, <2>1, YieldGoesOn
<1>. QED  BY <1>2, <1>3, <1>9, <1>10 DEF GoesOn, Private!Exit

LEMMA ComputeStep ==
  ASSUME IInv, Compute
  PROVE  IInv' /\ (machine.sie => machine'.sie) /\ Private!Compute
<1>. DEFINE t == machine.current_tcb
            r == RunningRegisters(machine)
<1>1. machine \in Machine /\ Running(machine, t) /\ OthersWait(machine, t)
  BY DEF IInv, Settled
<1>2. t \in TCB /\ t \in machine.live /\ machine.live \subseteq TCB
  BY <1>1 DEF Machine, Running
<1>3. PICK pc \in PC, v \in Value :
        machine' = [machine EXCEPT !.pc = pc, !.sp = Usr(machine.sp[2], v), !.s = v, !.a0 = v]
  BY DEF Compute
<1>4. Usr(machine.sp[2], v) = Usr(t, v) /\ Usr(t, v) \in UsrStack(t) /\ Usr(t, v) \in Stack
  BY <1>1, <1>2 DEF Running, UsrStack, Usr, Value, Stack
<1>5. Usr(t, v) \in Pointer /\ pc \in Code /\ v \in Word /\ v \in Result /\ pc # Start
  BY <1>4 DEF Pointer, Code, Word, Result, PC, Start
<1>6. /\ machine' \in Machine
      /\ SameThreads(machine, machine')
      /\ machine'.pc = pc /\ machine'.sp = Usr(t, v) /\ machine'.s = v /\ machine'.a0 = v
      /\ machine'.mode = machine.mode /\ machine'.sie = machine.sie
      /\ machine'.context = machine.context /\ machine'.frame = machine.frame
  BY <1>1, <1>3, <1>4, <1>5 DEF Machine, SameThreads
<1>7. Running(machine', t) /\ machine'.current_tcb = t
  BY <1>1, <1>4, <1>5, <1>6 DEF Running, SameThreads
<1>8. SameOthers(machine, machine', t)
  BY <1>6 DEF SameOthers
<1>9. OthersWait(machine', t)
  BY <1>1, <1>6, <1>8, OthersWaitOnEntry
<1>10. RunningRegisters(machine') = Registry(pc, Usr(t, v), v, v, machine.mode, JUNK)
  BY <1>5, <1>6 DEF RunningRegisters, Going
<1>11. \E pc0, sp0, s0, a00 : r = Registry(pc0, sp0, s0, a00, machine.mode, JUNK)
  BY DEF RunningRegisters, Going
<1>12. [r EXCEPT !.pc = pc, !.sp = Usr(t, v), !.s = v, !.a0 = v]
         = Registry(pc, Usr(t, v), v, v, machine.mode, JUNK)
  <2>1. PICK pc0, sp0, s0, a00 : r = Registry(pc0, sp0, s0, a00, machine.mode, JUNK)
    BY <1>11
  <2>. DEFINE sp == Usr(t, v)
              mode == machine.mode
              r1 == Registry(pc, sp0, s0, a00, mode, JUNK)
              r2 == Registry(pc, sp, s0, a00, mode, JUNK)
              r3 == Registry(pc, sp, v, a00, mode, JUNK)
              r4 == Registry(pc, sp, v, v, mode, JUNK)
  <2>. HIDE DEF r, sp, mode
  <2>2. [r EXCEPT !.pc = pc] = r1
    BY <2>1 DEF Registry, mode
  <2>3. [r1 EXCEPT !.sp = sp] = r2
    BY DEF Registry
  <2>4. [r2 EXCEPT !.s = v] = r3
    BY DEF Registry
  <2>5. [r3 EXCEPT !.a0 = v] = r4
    BY DEF Registry
  <2>6. [r EXCEPT !.pc = pc, !.sp = sp, !.s = v, !.a0 = v]
          = [[[[r EXCEPT !.pc = pc] EXCEPT !.sp = sp] EXCEPT !.s = v] EXCEPT !.a0 = v]
    OBVIOUS
  <2>. HIDE DEF r1, r2, r3
  <2>. QED  BY <2>2, <2>3, <2>4, <2>5, <2>6 DEF sp, mode
<1>13. AllRegisters(machine')
         = [AllRegisters(machine) EXCEPT ![t] = RunningRegisters(machine')]
  <2>1. \A u \in TCB : u # t => WaitingRegisters(machine', u) = WaitingRegisters(machine, u)
    BY <1>8, OthersKeep
  <2>. QED  BY <1>2, <1>6, <1>7, <2>1 DEF AllRegisters, SameThreads
<1>14. AllRegisters(machine)[t] = r
  BY <1>2 DEF AllRegisters
<1>. HIDE DEF r
<1>15. AllRegisters(machine')
         = [AllRegisters(machine) EXCEPT ![t] =
              [@ EXCEPT !.pc = pc, !.sp = Usr(t, v), !.s = v, !.a0 = v]]
  BY <1>10, <1>12, <1>13, <1>14
<1>16. IInv'
  BY <1>6, <1>7, <1>9 DEF IInv, Settled
<1>17. Private!Compute
  BY <1>4, <1>7, <1>15 DEF Private!Compute
<1>. QED  BY <1>6, <1>16, <1>17

LEMMA EnableInterruptsStep ==
  ASSUME IInv, EnableInterrupts
  PROVE  /\ IInv'
         /\ machine.sie => machine'.sie
         /\ machine'.current_tcb = machine.current_tcb
         /\ AllRegisters(machine') = AllRegisters(machine)
<1>. DEFINE t == machine.current_tcb
<1>1. machine \in Machine /\ Running(machine, t) /\ OthersWait(machine, t)
  BY DEF IInv, Settled
<1>2. /\ machine' \in Machine
      /\ SameThreads(machine, machine')
      /\ machine'.pc = machine.pc /\ machine'.sp = machine.sp /\ machine'.s = machine.s
      /\ machine'.a0 = machine.a0 /\ machine'.mode = machine.mode /\ machine'.sie = TRUE
      /\ machine'.context = machine.context /\ machine'.frame = machine.frame
  BY <1>1 DEF EnableInterrupts, Machine, SameThreads
<1>3. Running(machine', t) /\ machine'.current_tcb = t
  BY <1>1, <1>2 DEF Running, SameThreads
<1>4. OthersWait(machine', t)
  BY <1>1, <1>2, OthersWaitOnEntry DEF SameOthers
<1>5. RunningRegisters(machine') = RunningRegisters(machine)
  BY <1>2 DEF RunningRegisters
<1>6. \A u : WaitingRegisters(machine', u) = WaitingRegisters(machine, u)
  BY <1>2 DEF WaitingRegisters
<1>7. AllRegisters(machine') = AllRegisters(machine)
  BY <1>2, <1>5, <1>6 DEF AllRegisters, SameThreads
<1>. QED  BY <1>2, <1>3, <1>4, <1>7 DEF IInv, Settled

LEMMA InitSettles ==
  ASSUME Init
  PROVE  IInv /\ Private!Init
<1>. DEFINE t == MainTcb
            c == [NoContext EXCEPT !.sys_sp = Sys(t, 0)]
            r == Registry("p", Usr(t, 0), 0, 0, "S", JUNK)
<1>1. t \in TCB
  BY ContextAssumption
<1>2. NoContext \in Context /\ c \in Context /\ c.sys_sp = Sys(t, 0)
  <2>1. Sys(t, 0) \in Pointer
    BY <1>1 DEF Pointer
  <2>. QED  BY <2>1, JunkAnywhere DEF NoContext, Context
<1>. HIDE DEF c
<1>3. /\ Usr(t, 0) \in Pointer /\ Usr(t, 0) \in UsrStack(t)
      /\ "p" \in PC /\ "p" \in Code /\ "p" # Start
      /\ 0 \in Value /\ 0 \in Word /\ 0 \in Result /\ "S" \in Mode /\ "S" \in Privilege
      /\ FALSE \in Flag /\ JUNK \in Code
  BY <1>1 DEF Pointer, Stack, UsrStack, PC, Code, Start, Value, Word, Result, Mode,
              Privilege, Flag
<1>4. /\ machine.pc = "p" /\ machine.sp = Usr(t, 0) /\ machine.s = 0 /\ machine.a0 = 0
      /\ machine.mode = "S"
      /\ machine.current_tcb = t /\ machine.k_current_context = t /\ machine.live = {t}
      /\ machine.context = [u \in TCB |-> IF u = t THEN c ELSE NoContext]
  BY DEF Init, c
<1>5. machine \in Machine
  BY <1>1, <1>2, <1>3 DEF Init, Machine, c
<1>6. Running(machine, t) /\ OthersWait(machine, t)
  BY <1>1, <1>2, <1>3, <1>4 DEF Running, OthersWait
<1>7. IInv
  BY <1>4, <1>5, <1>6 DEF IInv, Settled
<1>8. RunningRegisters(machine) = r
  BY <1>3, <1>4 DEF RunningRegisters, Going
<1>9. AllRegisters(machine) = [u \in TCB |-> IF u = t THEN r ELSE JUNK]
  BY <1>1, <1>4, <1>8 DEF AllRegisters
<1>10. r = [Private!Fresh(t, "S") EXCEPT !.pc = "p", !.s = 0, !.a0 = 0]
  <2>. DEFINE f  == Registry(Start, Usr(t, 0), JUNK, JUNK, "S", JUNK)
              f1 == Registry("p", Usr(t, 0), JUNK, JUNK, "S", JUNK)
              f2 == Registry("p", Usr(t, 0), 0, JUNK, "S", JUNK)
  <2>1. Private!Fresh(t, "S") = f
    BY <1>1 DEF Private!Fresh, Registry
  <2>2. [f EXCEPT !.pc = "p"] = f1
    BY DEF Registry
  <2>3. [f1 EXCEPT !.s = 0] = f2
    BY DEF Registry
  <2>4. [f2 EXCEPT !.a0 = 0] = r
    BY DEF Registry
  <2>5. [f EXCEPT !.pc = "p", !.s = 0, !.a0 = 0]
          = [[[f EXCEPT !.pc = "p"] EXCEPT !.s = 0] EXCEPT !.a0 = 0]
    OBVIOUS
  <2>. HIDE DEF f, f1, f2, r
  <2>. QED  BY <2>1, <2>2, <2>3, <2>4, <2>5
<1>. HIDE DEF r
<1>11. Private!Init
  <2>1. AllRegisters(machine)
          = [u \in TCB |-> IF u = MainTcb
                             THEN [Private!Fresh(u, "S") EXCEPT !.pc = "p", !.s = 0, !.a0 = 0]
                             ELSE JUNK]
    BY <1>9, <1>10, Zenon
  <2>2. \E pc \in PC, v \in Value :
          AllRegisters(machine)
            = [u \in TCB |-> IF u = MainTcb
                               THEN [Private!Fresh(u, "S") EXCEPT !.pc = pc, !.s = v, !.a0 = v]
                               ELSE JUNK]
    BY <1>3, <2>1, Zenon
  <2>. QED  BY <1>4, <2>2 DEF Private!Init
<1>. QED  BY <1>7, <1>11

AbstractVars == <<machine.current_tcb, AllRegisters(machine)>>

LEMMA StepKeeps ==
  ASSUME IInv, [Next]_machine
  PROVE  /\ IInv'
         /\ machine.sie => machine'.sie
         /\ [Private!Next]_AbstractVars
<1>. DEFINE t == machine.current_tcb
            Kept3 == /\ IInv'
                     /\ machine.sie => machine'.sie
                     /\ [Private!Next]_AbstractVars
<1>1. t \in TCB
  BY DEF IInv, Settled, Machine
<1>2. CASE Compute
  <2>1. IInv' /\ (machine.sie => machine'.sie) /\ Private!Compute
    BY <1>2, ComputeStep
  <2>. QED  BY <2>1 DEF Private!Next
<1>3. ASSUME NEW answer \in Value, Call(answer)
      PROVE  Kept3
  <2>1. GoesOn(t, Private!Calling(answer)) /\ Private!InBody
    BY <1>3, CallStep
  <2>2. Private!Call(answer, t)
    BY <2>1 DEF Private!Call, GoesOn
  <2>. QED  BY <1>1, <2>1, <2>2 DEF Private!Next, GoesOn
<1>4. ASSUME NEW answer \in Value, NEW u \in TCB, CallAndSwitch(answer, u)
      PROVE  Kept3
  <2>1. GoesOn(u, Private!Calling(answer)) /\ Private!InBody
    BY <1>4, CallAndSwitchStep
  <2>2. Private!Call(answer, u)
    BY <2>1 DEF Private!Call, GoesOn
  <2>. QED  BY <2>1, <2>2 DEF Private!Next, GoesOn
<1>5. CASE Interrupt
  <2>1. GoesOn(t, AllRegisters(machine))
    BY <1>5, InterruptStep
  <2>2. Private!Interrupt(t)
    BY <2>1 DEF Private!Interrupt, GoesOn
  <2>. QED  BY <1>1, <2>1, <2>2 DEF Private!Next, GoesOn
<1>6. ASSUME NEW u \in TCB, InterruptAndSwitch(u)
      PROVE  Kept3
  <2>1. GoesOn(u, AllRegisters(machine))
    BY <1>6, InterruptAndSwitchStep
  <2>2. Private!Interrupt(u)
    BY <2>1 DEF Private!Interrupt, GoesOn
  <2>. QED  BY <2>1, <2>2 DEF Private!Next, GoesOn
<1>7. ASSUME NEW u \in TCB, ThreadCreate(u)
      PROVE  Kept3
  <2>1. IInv' /\ (machine.sie => machine'.sie) /\ Private!Create(u)
    BY <1>7, ThreadCreateStep
  <2>. QED  BY <2>1 DEF Private!Next
<1>8. ASSUME NEW u \in TCB, ThreadExit(u)
      PROVE  Kept3
  <2>1. IInv' /\ (machine.sie => machine'.sie) /\ Private!Exit(u)
    BY <1>8, ThreadExitStep
  <2>. QED  BY <2>1 DEF Private!Next
<1>9. CASE SetUserMode
  <2>1. /\ GoesOn(t, [Private!Calling(SUCCESS) EXCEPT ![t].mode = "U"])
        /\ Private!InBody
    BY <1>9, SetUserModeStep
  <2>2. Private!SetUserMode
    BY <2>1 DEF Private!SetUserMode, GoesOn
  <2>. QED  BY <2>1, <2>2 DEF Private!Next, GoesOn
<1>10. CASE EnableInterrupts
  BY <1>10, EnableInterruptsStep DEF AbstractVars
<1>11. CASE UNCHANGED machine
  BY <1>11 DEF IInv, AbstractVars
<1>. HIDE DEF Kept3
<1>12. Kept3
  <2>1. CASE \E answer \in Value : Call(answer) \/ \E u \in TCB : CallAndSwitch(answer, u)
    BY <1>3, <1>4, <2>1, Zenon
  <2>2. CASE \E u \in TCB : InterruptAndSwitch(u) \/ ThreadCreate(u) \/ ThreadExit(u)
    BY <1>6, <1>7, <1>8, <2>2, Zenon
  <2>. QED  BY <1>2, <1>5, <1>9, <1>10, <1>11, <2>1, <2>2, Zenon DEF Next, Kept3
<1>. QED  BY <1>12 DEF Kept3

LEMMA ContextInvariant == Spec => []IInv
<1>1. Init => IInv
  BY InitSettles
<1>2. IInv /\ [Next]_machine => IInv'
  BY StepKeeps
<1>. QED  BY <1>1, <1>2, PTL DEF Spec

(* The next trap finds the context of the running thread behind            *)
(* k_current_context, with an empty kernel stack, whatever was switched,   *)
(* created or freed before: switch_to_kernel_stack takes both from there.  *)
THEOREM NextTrapIsReady == Spec => []KernelStackReady
<1>1. IInv => KernelStackReady
  <2>. SUFFICES ASSUME IInv PROVE KernelStackReady
    OBVIOUS
  <2>. DEFINE t == machine.current_tcb
  <2>1. Running(machine, t) /\ OthersWait(machine, t)
    BY DEF IInv, Settled
  <2>2. ASSUME NEW u \in machine.live \ {t}
        PROVE  /\ machine.context[u].sys_sp \in {Sys(u, 0), Sys(u, 1)}
               /\ machine.context[u].usr_sp \in {Usr(u, 0), Usr(u, 1)}
    BY <2>1 DEF OthersWait, Waiting, New, Saved, UsrStack
  <2>. QED  BY <2>1, <2>2 DEF KernelStackReady, Running, UsrStack
<1>. QED  BY <1>1, ContextInvariant, PTL

(* Every handler, yield and k_tcb_start ends with an sret that leaves      *)
(* interrupts as they were for its thread: enabled, once main has done so. *)
THEOREM StaysPreemptible == Spec => Preemptible
<1>1. IInv /\ [Next]_machine => [machine.sie => machine'.sie]_machine
  BY StepKeeps
<1>. QED  BY <1>1, ContextInvariant, PTL DEF Spec, Preemptible

(* The entry and exit of a trap, k_save_context, k_restore_context, yield, *)
(* create_tcb and free_tcb together give every thread registers, a stack,  *)
(* a mode and an answer of its own: they implement PrivateCPU.             *)
THEOREM ThreadsHavePrivateCPU == Spec => PrivateCPUImplemented
<1>1. Init => Private!Init
  BY InitSettles
<1>2. IInv /\ [Next]_machine => [Private!Next]_AbstractVars
  BY StepKeeps
<1>. QED  BY <1>1, <1>2, ContextInvariant, PTL
          DEF Spec, PrivateCPUImplemented, Private!Spec, AbstractVars
=============================================================================
