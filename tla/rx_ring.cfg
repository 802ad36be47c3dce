\* A ring of two slots; the indices wrap at a multiple of it, between its slots.
CONSTANTS
  Ring = 2
  Width = 4
  MaxInput = 4
  Ifaces = {sta, ap}
  Station = sta
  Bogus = Bogus
SPECIFICATION Spec
INVARIANT RingSound
PROPERTY Implements
CHECK_DEADLOCK FALSE
