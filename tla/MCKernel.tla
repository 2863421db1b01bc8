------------------------------ MODULE MCKernel ------------------------------
(* Small instances of Kernel, with the results of waits, for TLC.          *)
EXTENDS WaitResults, TLC

(* The worker slots are alike.                                             *)
WorkerSymmetry == Permutations(Workers)
=============================================================================
