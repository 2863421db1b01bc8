SPECIFICATION WaitSpec
CONSTANTS
  TCB = {main, flush, t1, t2}
  MainTcb = main
  FlushTcb = flush
  Sem = {s1}
  PutcSem = putc_sem
  GetcSem = getc_sem
  Char = {a}
  NULL = NULL
  DEFAULT_TIME_SLICE = 2
  IO_BUFFER_SIZE = 1
  Calls = {"thread_create", "thread_exit", "thread_dispatch", "thread_join", "sem_open", "sem_close", "sem_wait", "sem_signal", "getc", "putc"}
  MaxInit = 1
  MaxValue = 2
  MaxSleep = 0
SYMMETRY WorkerSymmetry
INVARIANTS TypeOK SchedulerNeverDry OneListPerThread ValueCountsWaiters
PROPERTIES NoOvertaking SemaphoresImplemented WaitsAnswered
