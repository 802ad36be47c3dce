\* Three stations and a table of two slots, with pools smaller than it, as large and,
\* as the shipped one is, larger.
CONSTANTS
  Clients = {c1, c2, c3}
  Slots = 2
  Configs <- Pools
  LastHost = 4
  ServerHost = 1
  MaxSent = 2
  Nobody = Nobody
SPECIFICATION Spec
SYMMETRY ClientSymmetry
INVARIANTS LeasesSound RequestsGranted
PROPERTY LeasesPrivate
CHECK_DEADLOCK FALSE
