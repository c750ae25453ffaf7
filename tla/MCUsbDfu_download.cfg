SPECIFICATION Spec
CONSTANTS
  AreaSize <- Areas
  BufBlocks = 2
  Downloads = {1, 2}
  Lens = {0, 1}
  Errors = {"erase", "write", "request", "read"}
  Manners = {"busy", "flush", "interface"}
  MaxTicks = 2
INVARIANTS TypeOK UpgradeWhole Acknowledged UploadWhole
PROPERTY BusyEnds
