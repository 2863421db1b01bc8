---------------------------- MODULE ContextSwitch ---------------------------
(***************************************************************************)
(* The registers of the one hart, the two stacks of a thread and its saved *)
(* context, as the trap entries of k_traps.S, k_save_context,              *)
(* k_restore_context, k_tcb_start, yield, create_tcb and prepare_user_mode *)
(* move them.  The pieces of code are functions on a record of the         *)
(* machine; a trap composes them, with interrupts off, and is one step.    *)
(* Any live thread may be the one that next_tcb returns.  s stands for the *)
(* registers that are saved with no other meaning, a program counter in a  *)
(* handler only for where yield or k_tcb_start goes on.  What has been     *)
(* restored is not read again, and is JUNK from then on.                   *)
(* The definitions called faulty are no part of the specification.         *)
(***************************************************************************)
EXTENDS Integers

CONSTANTS
  TCB, MainTcb,
  FAILED,     (* a call has failed                                         *)
  JUNK        (* what memory and registers hold that nobody has set        *)

SUCCESS   == 0
Value     == 0..1                \* of registers, and of what calls return
PC        == {"p", "q"}
After(pc) == IF pc = "p" THEN "q" ELSE "p"     \* the instruction after an ecall
Start     == "k_tcb_run_wrapper"

(* [pc, sp, s, a0, mode, sie, sepc, spp, spie : registers and bits of      *)
(* sstatus, current_tcb, k_current_context, live,                          *)
(* context : the Context of each TCB, frame : the registers on its kernel  *)
(* stack and the trap that put them there]                                 *)
VARIABLE machine

(* Stacks grow by the frame of a trap, or by what a thread pushes.         *)
Usr(t, depth) == <<"usr_stack", t, depth>>
Sys(t, depth) == <<"sys_stack", t, depth>>
Stack         == {Usr(t, d) : t \in TCB, d \in 0..1}

(* What a thread has of the hart: see AllRegisters.                        *)
RegisterFile ==
  [pc : PC \cup {Start}, sp : Stack, s : Value \cup {JUNK}, a0 : Value \cup {JUNK},
   mode : {"S", "U"}, answer : Value \cup {JUNK}]

ASSUME ContextAssumption ==
  /\ MainTcb \in TCB
  /\ JUNK \notin Value
  /\ JUNK \notin RegisterFile

NoContext == [ra |-> JUNK, usr_sp |-> JUNK, sys_sp |-> JUNK, s |-> JUNK, a0 |-> JUNK,
              sepc |-> JUNK, spp |-> JUNK, spie |-> JUNK]

(* main, before it enables interrupts.                                     *)
Init ==
  machine =
    [pc |-> "p", sp |-> Usr(MainTcb, 0), s |-> 0, a0 |-> 0,
     mode |-> "S", sie |-> FALSE, sepc |-> JUNK, spp |-> "S", spie |-> FALSE,
     current_tcb |-> MainTcb, k_current_context |-> MainTcb, live |-> {MainTcb},
     context |-> [t \in TCB |-> IF t = MainTcb THEN [NoContext EXCEPT !.sys_sp = Sys(t, 0)]
                                              ELSE NoContext],
     frame |-> [t \in TCB |-> JUNK]]

-----------------------------------------------------------------------------
(* The hart.                                                               *)

Trapped(m) ==
  [m EXCEPT !.sepc = m.pc, !.spp = m.mode, !.spie = m.sie, !.mode = "S", !.sie = FALSE]

Sret(m) ==
  [m EXCEPT !.pc = m.sepc, !.mode = m.spp, !.sie = m.spie, !.spp = "U", !.spie = TRUE,
            !.sepc = JUNK]

-----------------------------------------------------------------------------
(* k_traps.S.                                                              *)

SwitchToKernelStack(m) ==
  [m EXCEPT !.context[m.k_current_context].usr_sp = m.sp,
            !.sp = m.context[m.k_current_context].sys_sp]

(* Faulty: the kernel stack is left where the context was saved on it.     *)
SwitchToUserStackForgetful(m) ==
  [m EXCEPT !.context[m.k_current_context].usr_sp = JUNK,
            !.sp = m.context[m.k_current_context].usr_sp]

SwitchToUserStack(m) ==
  [m EXCEPT !.context[m.k_current_context].sys_sp = m.sp,
            !.context[m.k_current_context].usr_sp = JUNK,
            !.sp = m.context[m.k_current_context].usr_sp]

SwitchToUserStackEcall(m) ==
  [SwitchToUserStack(m) EXCEPT !.a0 = m.context[m.k_current_context].a0,
                               !.context[m.k_current_context].a0 = JUNK]

SaveRegistries(m, trap) ==
  [m EXCEPT !.frame[m.sp[2]] = [s |-> m.s, a0 |-> m.a0, trap |-> trap],
            !.sp = Sys(@[2], @[3] + 1)]

RestoreRegistries(m) ==
  [m EXCEPT !.s = m.frame[m.sp[2]].s, !.a0 = m.frame[m.sp[2]].a0,
            !.frame[m.sp[2]] = JUNK, !.sp = Sys(@[2], @[3] - 1)]

Enter(m, trap) == SaveRegistries(SwitchToKernelStack(Trapped(m)), trap)

(* k_handle_ecall up to the switch; s holds what the call will answer.     *)
EnterCall(m, answer) ==
  LET e == Enter(m, "ecall")
  IN [e EXCEPT !.sepc = After(@), !.context[e.k_current_context].a0 = FAILED, !.s = answer]

(* The rest of the handler whose frame is on the stack, and of its trap.   *)
Leave(m) ==
  IF m.frame[m.sp[2]].trap = "ecall"
    THEN Sret(SwitchToUserStackEcall(RestoreRegistries(
           [m EXCEPT !.context[m.k_current_context].a0 = m.s])))
    ELSE Sret(SwitchToUserStack(RestoreRegistries(m)))

-----------------------------------------------------------------------------
(* Contexts.                                                               *)

(* Faulty: sepc is left to the next trap.                                  *)
SaveContextNoSepc(m, t) ==
  [m EXCEPT !.context[t].ra = "yield", !.context[t].sys_sp = m.sp, !.context[t].s = m.s,
            !.context[t].spp = m.spp, !.context[t].spie = m.spie]

SaveContext(m, t) ==
  [m EXCEPT !.context[t].ra = "yield", !.context[t].sys_sp = m.sp, !.context[t].s = m.s,
            !.context[t].sepc = m.sepc,
            !.context[t].spp = m.spp, !.context[t].spie = m.spie]

RestoreContext(m, t) ==
  LET c == m.context[t]
  IN [m EXCEPT !.pc = c.ra, !.sp = c.sys_sp, !.s = c.s, !.sepc = c.sepc,
               !.spp = c.spp, !.spie = c.spie,
               !.context[t] = [NoContext EXCEPT !.usr_sp = c.usr_sp, !.a0 = c.a0]]

(* yield to u, whose handler or k_tcb_start goes on; the context of a      *)
(* thread that exits has been freed and is not saved.                      *)
Yield(m, u) ==
  LET saved == IF m.current_tcb \in m.live THEN SaveContext(m, m.current_tcb) ELSE m
      other == RestoreContext([saved EXCEPT !.current_tcb = u, !.k_current_context = u], u)
  IN IF other.pc = "k_tcb_start" THEN Sret([SwitchToUserStack(other) EXCEPT !.sepc = Start])
                                 ELSE Leave(other)

(* Faulty: the state of interrupts is inherited as well.                   *)
NewContextInheriting(m, t) ==
  [NoContext EXCEPT !.usr_sp = Usr(t, 0), !.sys_sp = Sys(t, 0), !.ra = "k_tcb_start",
                    !.spp = m.spp, !.spie = m.spie]

(* create_tcb: the mode is inherited, interrupts will be enabled.          *)
NewContext(m, t) ==
  [NoContext EXCEPT !.usr_sp = Usr(t, 0), !.sys_sp = Sys(t, 0), !.ra = "k_tcb_start",
                    !.spp = m.spp, !.spie = TRUE]

-----------------------------------------------------------------------------
(* Any code that runs outside a trap; v is its effect on the registers and *)
(* how much is on its stack.                                               *)
Compute ==
  \E pc \in PC, v \in Value :
    machine' = [machine EXCEPT !.pc = pc, !.sp = Usr(@[2], v), !.s = v, !.a0 = v]

(* k_tcb_run_wrapper calls the body of a new thread before anything else.  *)
InBody == machine.pc \in PC

(* A call that returns at once, and one in which u gets the CPU; main      *)
(* makes none of these before it has enabled interrupts.                   *)
Call(answer) ==
  /\ InBody
  /\ machine' = Leave(EnterCall(machine, answer))

CallAndSwitch(answer, u) ==
  /\ InBody
  /\ machine.sie
  /\ u \in machine.live
  /\ machine' = Yield(EnterCall(machine, answer), u)

(* A timer tick or console interrupt.                                      *)
Interrupt ==
  /\ machine.sie
  /\ machine' = Leave(Enter(machine, "interrupt"))

InterruptAndSwitch(u) ==
  /\ machine.sie
  /\ u \in machine.live
  /\ machine' = Yield(Enter(machine, "interrupt"), u)

ThreadCreate(t) ==
  /\ InBody
  /\ t \notin machine.live
  /\ LET e == EnterCall(machine, SUCCESS)
     IN machine' = Leave([e EXCEPT !.live = @ \cup {t}, !.context[t] = NewContext(e, t)])

(* Nothing in the TCB or on its kernel stack can be relied on any more.    *)
Freed(m, t) ==
  [m EXCEPT !.live = @ \ {t}, !.frame[t] = JUNK, !.context[t] = NoContext]

ThreadExit(u) ==
  /\ InBody
  /\ machine.sie
  /\ machine.current_tcb # MainTcb
  /\ u \in machine.live \ {machine.current_tcb}
  /\ machine' = Yield(Freed(EnterCall(machine, SUCCESS), machine.current_tcb), u)

(* prepare_user_mode.                                                      *)
SetUserMode ==
  /\ InBody
  /\ machine' = Leave([EnterCall(machine, SUCCESS) EXCEPT !.spp = "U"])

(* The end of the boot.                                                    *)
EnableInterrupts ==
  /\ ~machine.sie
  /\ machine' = [machine EXCEPT !.sie = TRUE]

Next ==
  \/ Compute
  \/ \E answer \in Value : Call(answer) \/ \E u \in TCB : CallAndSwitch(answer, u)
  \/ Interrupt
  \/ \E u \in TCB : InterruptAndSwitch(u) \/ ThreadCreate(u) \/ ThreadExit(u)
  \/ SetUserMode
  \/ EnableInterrupts

Spec == Init /\ [][Next]_machine

-----------------------------------------------------------------------------
(* Where the next trap goes is ready for it: the context that              *)
(* k_current_context points to is that of the running thread, its kernel   *)
(* stack is empty, and no thread runs or waits on the stack of another.    *)
KernelStackReady ==
  LET t == machine.current_tcb
  IN /\ t \in machine.live
     /\ machine.k_current_context = t
     /\ machine.context[t].sys_sp = Sys(t, 0)
     /\ machine.sp \in {Usr(t, 0), Usr(t, 1)}
     /\ \A u \in machine.live \ {t} :
          /\ machine.context[u].sys_sp \in {Sys(u, 0), Sys(u, 1)}
          /\ machine.context[u].usr_sp \in {Usr(u, 0), Usr(u, 1)}

(* Once main has enabled interrupts, no call, switch or new thread leaves  *)
(* the CPU where a timer tick cannot take it back.                         *)
Preemptible == [][machine.sie => machine'.sie]_machine

-----------------------------------------------------------------------------
(* What a thread goes on with at pc, f being the frame of its trap: the    *)
(* answer to its call is in s.                                             *)
Registry(pc, sp, s, a0, mode, answer) ==
  [pc |-> pc, sp |-> sp, s |-> s, a0 |-> a0, mode |-> mode, answer |-> answer]

Going(pc, sp, mode, f, s) ==
  IF pc = Start
    THEN Registry(Start, sp, JUNK, JUNK, mode, JUNK)
  ELSE IF f.trap = "ecall"
    THEN Registry(pc, sp, f.s, JUNK, mode, s)
    ELSE Registry(pc, sp, f.s, f.a0, mode, JUNK)

(* The running thread has the registers of the hart, as if a tick were to  *)
(* save them; what another one has is in its context and the frame on its  *)
(* kernel stack.                                                           *)
RunningRegisters(m) ==
  Going(m.pc, m.sp, m.mode, [s |-> m.s, a0 |-> m.a0, trap |-> "interrupt"], m.s)

WaitingRegisters(m, u) ==
  LET c == m.context[u]
  IN Going(IF c.ra = "k_tcb_start" THEN Start ELSE c.sepc, c.usr_sp, c.spp, m.frame[u], c.s)

AllRegisters(m) ==
  [u \in TCB |-> IF u \notin m.live THEN JUNK
                 ELSE IF u = m.current_tcb THEN RunningRegisters(m)
                 ELSE WaitingRegisters(m, u)]

(* Switching stacks, saving and restoring amount to a CPU for each thread: *)
(* none sees the registers, the answer or the privilege of another.        *)
Private == INSTANCE PrivateCPU WITH
  Thread <- TCB, First <- MainTcb, Own <- [t \in TCB |-> Usr(t, 0)],
  Following <- [pc \in PC |-> After(pc)],
  Done <- SUCCESS, NONE <- JUNK, running <- machine.current_tcb,
  reg <- AllRegisters(machine)

PrivateCPUImplemented == Private!Spec
=============================================================================
