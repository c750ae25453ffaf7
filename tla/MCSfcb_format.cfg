SPECIFICATION FairSpec
CONSTANTS
  NSectors = 2
  SectorSize = 5
  SecIdMod = 4
  idA = idA
  idB = idB
  v1 = v1
  v2 = v2
  Ids = {idA, idB}
  Values = {v1}
  Lens = {1}
  HasCompress = TRUE
  KeepIds = {idA}
  TornCrc = {"above", "below"}
  PartialErases <- HighHalf
  IoErrors = {"erase", "program"}
  AnyFormat = TRUE
  NoReq = NoReq
  Missing = Missing
PROPERTIES FormatEmpties CallsReturn
