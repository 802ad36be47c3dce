\* Two tasks, short lines; tables of two slots, so that shapes compete for them;
\* a queue of two messages, so that it fills.
CONSTANTS
  t1 = t1
  t2 = t2
  Tasks = {t1, t2}
  Programs <- MCPrograms
  Capacity = 2
  Slots = 2
  Null = Null
SPECIFICATION Spec
INVARIANTS ConsoleSound CountsKept ResultsTrue
PROPERTY CallsReturn
CHECK_DEADLOCK FALSE
