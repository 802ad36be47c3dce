\* Two senders, a MAC that confirms in time or never.
SPECIFICATION FairSpec
CONSTANTS
  Senders = {s1, s2}
  Buffers = {b1, b2}
  Retries = 2
  Late = FALSE
  Nobody = Nobody
INVARIANT AcksSound
PROPERTIES RetriesAreUnheard SendReturns
