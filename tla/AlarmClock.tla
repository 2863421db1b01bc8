----------------------------- MODULE AlarmClock -----------------------------
(***************************************************************************)
(* What time_sleep promises, with no list and no relative times: each      *)
(* sleeper has its own count of ticks left, every timer tick takes one off *)
(* every count, and a thread sleeps while its count is not zero.           *)
(***************************************************************************)
EXTENDS Naturals

CONSTANTS Thread, MaxTicks

VARIABLE left   \* ticks each thread still sleeps, 0 when it does not

Init == left = [t \in Thread |-> 0]

Sleep(t, n) == left[t] = 0 /\ left' = [left EXCEPT ![t] = n]

Tick == left' = [t \in Thread |-> IF left[t] = 0 THEN 0 ELSE left[t] - 1]

Next == Tick \/ \E t \in Thread, n \in 1..MaxTicks : Sleep(t, n)

(* The clock goes on ticking, so every sleeper wakes.                      *)
Spec == Init /\ [][Next]_left /\ WF_left(Tick)
=============================================================================
