\* A report reads the key of a slot before a putchar claims it, and its count after.
CONSTANTS
  t1 = t1
  t2 = t2
  Tasks = {t1, t2}
  Programs <- MCPrograms
  Capacity = 2
  Slots = 2
  Null = Null
SPECIFICATION Spec
INVARIANT ShownClaimed
CHECK_DEADLOCK FALSE
