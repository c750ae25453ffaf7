SPECIFICATION Spec
CONSTANTS
  N = 3
  Layouts = {FALSE}
  Images <- OldNew
  Factory <- JustOld
  Uploads <- OnlyNew
  LogSize = 16
  MaxLosses = 1
  LossAt = {"cmd"}
  TornLogErase = FALSE
  OtherDeps = {TRUE}
  None = None
  NoCrypt = NoCrypt
INVARIANT RunsWhole
