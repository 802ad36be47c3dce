\* usize wraps at a value that is no multiple of the ring, as 2^32 is none of 12.
CONSTANTS
  Ring = 3
  Width = 4
  MaxInput = 6
  Ifaces = {sta}
  Station = sta
  Bogus = Bogus
SPECIFICATION Spec
INVARIANT OldestFirst
CHECK_DEADLOCK FALSE
