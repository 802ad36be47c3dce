\* A ring of two frames and one transmit buffer, so that both run out; timers
\* shorter and longer than the backstop, and an executor held up for up to two
\* ticks before it sleeps.
CONSTANTS
  Depth = 2
  MaxArrivals = 3
  Buffers = 1
  MaxSend = 2
  MaxDelay = 3
  Backstop = 2
  MaxHeld = 2
  Never = Never
SPECIFICATION EmbassySpec
INVARIANTS SleepsInTime NoFrameForgotten
PROPERTY WorkEnds
CHECK_DEADLOCK FALSE
