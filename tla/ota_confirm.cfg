\* Updates and confirm_boot, never overlapping and never failing.
CONSTANTS
  Updaters = {u1}
  Confirmers = {c1}
  Images = {factory, blue}
  Factory = factory
  Start <- MCStart
  MaxLen <- MCMaxLen
  SectorSize = 2
  FlashLen = 6
  MaxAge = 3
  Faults = FALSE
  ConfirmDuring = FALSE
  Zero = Zero
  One = One
  Blank = Blank
  Junk = Junk
  None = None
SPECIFICATION Spec
INVARIANT QuietBootable
PROPERTY ConfirmSticks
