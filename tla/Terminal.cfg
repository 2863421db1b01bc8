SPECIFICATION TerminalSpec
CONSTANTS
  Thread = {t1, t2}
  Early = {t1}
  Messages <- MCMessages
  Numbers = {10, 31}
  NUMBER_MOD = 32
  Letters = {"a", "b"}
  Singles = {"x"}
  MaxLength = 3
  MaxKeys = 3
  IO_BUFFER_SIZE = 3
CHECK_DEADLOCK FALSE
INVARIANTS OneAtTheConsole BlockedAreListed RingIsQueue LinesWhole LineEdited LineShown PanicInOrder
