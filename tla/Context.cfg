SPECIFICATION Spec
CONSTANTS
  TCB = {main, a, b}
  MainTcb = main
  FAILED = FAILED
  JUNK = JUNK
SYMMETRY ThreadSymmetry
INVARIANTS KernelStackReady
PROPERTIES Preemptible PrivateCPUImplemented
