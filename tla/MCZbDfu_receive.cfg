SPECIFICATION Spec
CONSTANTS
  areaA = areaA
  areaB = areaB
  imgA = imgA
  imgB = imgB
  alien = alien
  None = None
  Areas = {areaA, areaB}
  InPlace = {areaB}
  Images = {imgA, imgB, alien}
  Target <- TargetOf
  HdrLen = 2
  Buf = 2
  Sector = 4
  SlotSize <- SlotSizes
  Lens = {0, 1, 2}
  Sizes = {0, 1, 5, 8}
  W = 13
INVARIANTS TypeOK NothingSkipped Installed
PROPERTY OnlyTheSlotNamed
