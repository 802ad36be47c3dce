SPECIFICATION Spec
CONSTANTS
  Senders = {s1, s2}
  Buffers = {b1, b2}
  Retries = 2
  Late = TRUE
  Nobody = Nobody
SYMMETRY Symmetry
INVARIANT AckIsOwn
