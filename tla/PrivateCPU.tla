----------------------------- MODULE PrivateCPU -----------------------------
(***************************************************************************)
(* What the entry to a trap, the two stacks of a thread and the saved      *)
(* contexts promise together: every thread has registers of its own.  A    *)
(* thread that is interrupted, or waits in a call, for however long, goes  *)
(* on with the registers it had, after its ecall and with the answer to    *)
(* its own call in a0; a call changes nothing else, for it or another.     *)
(***************************************************************************)
CONSTANTS
  Thread, First,
  PC, Stack, Value,      (* of a program counter, a stack, other registers *)
  Following,             (* the instruction after an ecall                 *)
  Start,                 (* the first instruction of a new thread          *)
  Own,                   (* the empty stack of a thread                    *)
  Done,                  (* the answer of a call that answers nothing else *)
  NONE

VARIABLES running, reg

(* answer: what a call in progress will return in a0.                      *)
Fresh(t, mode) == [pc |-> Start, sp |-> Own[t], s |-> NONE, a0 |-> NONE,
                   mode |-> mode, answer |-> NONE]

Init ==
  /\ running = First
  /\ \E pc \in PC, v \in Value : reg = [t \in Thread |->
       IF t = First THEN [Fresh(t, "S") EXCEPT !.pc = pc, !.s = v, !.a0 = v] ELSE NONE]

(* The running thread computes, on its registers and its stack.            *)
Compute ==
  /\ \E pc \in PC, sp \in Stack, s, a0 \in Value :
       reg' = [reg EXCEPT ![running] = [@ EXCEPT !.pc = pc, !.sp = sp, !.s = s, !.a0 = a0]]
  /\ UNCHANGED running

(* A thread that gets the CPU in a call gets the answer with it.           *)
Resumed(r) == IF r.answer = NONE THEN r ELSE [r EXCEPT !.a0 = r.answer, !.answer = NONE]

Resume(u, r) ==
  /\ r[u] # NONE
  /\ running' = u
  /\ reg' = [r EXCEPT ![u] = Resumed(@)]

Calling(answer) ==
  LET r == reg[running]
  IN [reg EXCEPT ![running] =
        [r EXCEPT !.pc = Following[r.pc], !.a0 = NONE, !.answer = answer]]

(* A new thread makes no call before it is in its body.                    *)
InBody == reg[running].pc \in PC

Call(answer, u) == InBody /\ Resume(u, Calling(answer))

Interrupt(u) == Resume(u, reg)

Create(t) ==
  /\ InBody
  /\ reg[t] = NONE
  /\ Resume(running, [Calling(Done) EXCEPT ![t] = Fresh(t, reg[running].mode)])

Exit(u) ==
  /\ InBody
  /\ u # running
  /\ Resume(u, [reg EXCEPT ![running] = NONE])

SetUserMode ==
  /\ InBody
  /\ Resume(running, [Calling(Done) EXCEPT ![running].mode = "U"])

Next ==
  \/ Compute
  \/ \E u \in Thread : Interrupt(u) \/ Exit(u) \/ Create(u)
                        \/ \E answer \in Value : Call(answer, u)
  \/ SetUserMode

Spec == Init /\ [][Next]_<<running, reg>>
=============================================================================
