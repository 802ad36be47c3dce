\* One updating task; every flash call may fail and the power may be cut anywhere.
CONSTANTS
  Updaters = {u1}
  Confirmers = {}
  Images = {factory, blue}
  Factory = factory
  Start <- MCStart
  MaxLen <- MCMaxLen
  SectorSize = 2
  FlashLen = 6
  MaxAge = 2
  Faults = TRUE
  ConfirmDuring = FALSE
  Zero = Zero
  One = One
  Blank = Blank
  Junk = Junk
  None = None
SPECIFICATION Spec
INVARIANTS Bootable OtaInv
PROPERTIES CommitLands OtherSlotSpared Implements
