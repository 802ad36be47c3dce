\* A receive ring of two bytes and a transmit ring of one, three bytes in and two
\* out: both rings fill, and the receive ring overruns; a second task opens the
\* port when the first has dropped it.
CONSTANTS
  Tasks = {t1, t2}
  Users = {t1}
  None = None
  RxRing = 2
  TxRing = 1
  Fifo = 2
  Threshold = 1
  MaxIn = 3
  MaxOut = 2
  MaxCall = 2
SPECIFICATION Spec
INVARIANTS BytesKept PortLive
PROPERTIES SleepersWake OutputEnds
CHECK_DEADLOCK FALSE
