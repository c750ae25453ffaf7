SPECIFICATION Spec
CONSTANTS
  NSectors = 2
  SectorSize = 6
  SecIdMod = 4
  idA = idA
  idB = idB
  v1 = v1
  v2 = v2
  Ids = {idA, idB}
  Values = {v1, v2}
  Lens = {1}
  HasCompress = TRUE
  KeepIds = {idA, idB}
  TornCrc = {"above", "below"}
  PartialErases <- LowHalf
  IoErrors = {}
  AnyFormat = FALSE
  NoReq = NoReq
  Missing = Missing
SYMMETRY Symmetry
PROPERTY PowerFailSafe
