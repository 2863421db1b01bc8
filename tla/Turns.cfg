SPECIFICATION FairSpec
CONSTANTS
  Thread = {t1, t2, t3}
  Early = {t1}
  Messages <- MCMessages
  Numbers = {10}
  NUMBER_MOD = 32
  Letters = {"a"}
  Singles = {"x"}
  MaxLength = 1
  MaxKeys = 1
  IO_BUFFER_SIZE = 1
CHECK_DEADLOCK FALSE
PROPERTIES ConsoleIsGranted
