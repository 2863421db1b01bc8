----------------------------- MODULE TimeSlice ------------------------------
(***************************************************************************)
(* Kernel with a history variable: the timer ticks since the running       *)
(* thread got the CPU, against which the code's own count, timer_ticks,    *)
(* is judged.                                                              *)
(***************************************************************************)
EXTENDS Kernel

VARIABLE since   \* timer ticks since the last context switch

TimedInit == Init /\ since = 0

(* A switch is to another thread, or to the same one when no other is      *)
(* ready, which shows in the reset of timer_ticks only.                    *)
TimedNext ==
  /\ Next
  /\ since' = CASE current' # current \/ (ready = <<>> /\ timer_ticks' = 0) -> 0
               [] OTHER -> IF TimerTick THEN since + 1 ELSE since

TimedSpec == TimedInit /\ [][TimedNext]_<<vars, since>>

FairTimedSpec == TimedSpec /\ TimerFairness /\ FlushFairness

(* A thread never has the CPU for more ticks than its time slice: at the   *)
(* tick that completes the slice it is preempted.                          *)
SliceNotExceeded == since < DEFAULT_TIME_SLICE
=============================================================================
