SPECIFICATION Spec
CONSTANTS
  NSectors = 2
  PerSector = 2
  nameA = nameA
  nameB = nameB
  v1 = v1
  v2 = v2
  Names = {nameA, nameB}
  Values = {v1, v2}
  HandlersSave = FALSE
  WriteErrors = {}
  Missing = Missing
  Unreadable = Unreadable
  Garbage = Garbage
  NoReq = NoReq
SYMMETRY Symmetry
PROPERTY NothingLost
