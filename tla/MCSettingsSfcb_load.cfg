SPECIFICATION Spec
CONSTANTS
  NSectors = 2
  PerSector = 2
  nameA = nameA
  nameB = nameB
  v1 = v1
  v2 = v2
  Names = {nameA, nameB}
  Values = {v1, v2}
  HandlersSave = TRUE
  WriteErrors = {"name"}
  Missing = Missing
  Unreadable = Unreadable
  Garbage = Garbage
  NoReq = NoReq
SYMMETRY Symmetry
INVARIANTS TypeOK LoadIsCurrent
PROPERTY NeverBack
