----------------------------- MODULE MCContext ------------------------------
(* Small instances of ContextSwitch for TLC.                               *)
EXTENDS ContextSwitch, TLC

(* The threads but main are alike.                                         *)
ThreadSymmetry == Permutations(TCB \ {MainTcb})
=============================================================================
