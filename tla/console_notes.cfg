\* A task is notified twice before it waits: one wait returns, and clears, both.
CONSTANTS
  t1 = t1
  t2 = t2
  Tasks = {t1, t2}
  Programs <- MCPrograms
  Capacity = 2
  Slots = 2
  Null = Null
SPECIFICATION Spec
INVARIANT TypeOK
PROPERTY OneNotePerWait
CHECK_DEADLOCK FALSE
