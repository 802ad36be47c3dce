\* Slots that are not whole numbers of sectors.
CONSTANTS
  Updaters = {u1}
  Confirmers = {}
  Images = {factory, blue}
  Factory = factory
  Start <- MCStartUnaligned
  MaxLen <- MCMaxLenUnaligned
  SectorSize = 2
  FlashLen = 6
  MaxAge = 2
  Faults = FALSE
  ConfirmDuring = FALSE
  Zero = Zero
  One = One
  Blank = Blank
  Junk = Junk
  None = None
SPECIFICATION Spec
PROPERTY OtherSlotSpared
