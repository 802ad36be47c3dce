\* A pool that the server's own address lies in.
CONSTANTS
  Clients = {c1, c2}
  Slots = 2
  Configs <- OwnPool
  LastHost = 4
  ServerHost = 3
  MaxSent = 1
  Nobody = Nobody
SPECIFICATION Spec
INVARIANT OwnAddressKept
CHECK_DEADLOCK FALSE
