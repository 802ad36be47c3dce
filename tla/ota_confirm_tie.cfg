\* confirm_boot while an update is being written: the two tables tie.
CONSTANTS
  Updaters = {u1}
  Confirmers = {c1}
  Images = {factory, blue}
  Factory = factory
  Start <- MCStart
  MaxLen <- MCMaxLen
  SectorSize = 2
  FlashLen = 6
  MaxAge = 2
  Faults = FALSE
  ConfirmDuring = TRUE
  Zero = Zero
  One = One
  Blank = Blank
  Junk = Junk
  None = None
SPECIFICATION Spec
PROPERTY CommitLands
