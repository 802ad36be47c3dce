\* confirm_boot interrupted between its erase and its write.
CONSTANTS
  Updaters = {u1}
  Confirmers = {c1}
  Images = {factory, blue}
  Factory = factory
  Start <- MCStart
  MaxLen <- MCMaxLen
  SectorSize = 2
  FlashLen = 6
  MaxAge = 2
  Faults = TRUE
  ConfirmDuring = FALSE
  Zero = Zero
  One = One
  Blank = Blank
  Junk = Junk
  None = None
SPECIFICATION Spec
INVARIANT Bootable
