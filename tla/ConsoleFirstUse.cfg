SPECIFICATION Spec
CONSTANTS
  Thread = {t1, t2}
  Early = {t1, t2}
INVARIANTS OneAtTheConsole
