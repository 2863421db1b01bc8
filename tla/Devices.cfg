SPECIFICATION FairTimedSpec
CONSTANTS
  TCB = {main, flush, t1, t2}
  MainTcb = main
  FlushTcb = flush
  Sem = {}
  PutcSem = putc_sem
  GetcSem = getc_sem
  Char = {a}
  NULL = NULL
  DEFAULT_TIME_SLICE = 2
  IO_BUFFER_SIZE = 2
  Calls = {"thread_create", "thread_exit", "time_sleep", "putc", "getc"}
  MaxInit = 0
  MaxValue = 2
  MaxSleep = 3
INVARIANTS OneListPerThread NoSleepUnderflow SliceNotExceeded NoOutputDropped NoInputInvented
PROPERTIES SemaphoresImplemented SleepImplemented ReadyRuns PutcReturns
