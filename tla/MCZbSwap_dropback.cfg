SPECIFICATION Spec
CONSTANTS
  N = 3
  Layouts = {FALSE}
  Images <- Plains
  Factory <- JustOldPlain
  Uploads <- OnlyPlainTest
  LogSize = 13
  MaxLosses = 1
  LossAt <- AnyPlace
  TornLogErase = TRUE
  OtherDeps = {TRUE, FALSE}
  None = None
  NoCrypt = NoCrypt
PROPERTY OldImageBack
