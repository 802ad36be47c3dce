\* Three frames compete for three buffers; chains of up to three segments.
CONSTANTS
  Clients = {c1, c2, c3}
  PoolSize = 3
  Null = Null
  Foreign = Foreign
SPECIFICATION FairSpec
INVARIANTS Accounted Exclusive WholeFrame
PROPERTY WalksEnd
