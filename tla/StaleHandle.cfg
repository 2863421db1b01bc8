SPECIFICATION HistorySpec
CONSTANTS
  TCB = {main, flush, t1}
  MainTcb = main
  FlushTcb = flush
  Sem = {}
  PutcSem = putc_sem
  GetcSem = getc_sem
  Char = {a}
  NULL = NULL
  DEFAULT_TIME_SLICE = 2
  IO_BUFFER_SIZE = 1
  Calls = {"thread_create", "thread_exit", "thread_join"}
  MaxThreads = 2
  MaxInit = 1
  MaxValue = 2
  MaxSleep = 0
INVARIANTS JoinSuspendsUntilDone
