SPECIFICATION FairSpec
CONSTANTS
  N = 3
  Layouts = {TRUE, FALSE}
  Images <- EncSmall
  Factory <- JustOld
  Uploads <- ByLayout
  LogSize = 27
  MaxLosses = 2
  LossAt <- AnyPlace
  TornLogErase = FALSE
  OtherDeps = {TRUE}
  None = None
  NoCrypt = NoCrypt
INVARIANTS TypeOK LengthKnown RunsWhole SignsWhole
PROPERTIES AtomicSwap OldImageKept StaysAlive SwapEnds
