SPECIFICATION Spec
CONSTANTS
  Parts = 2
  Layouts = {TRUE, FALSE}
  Images <- All
  Delivered <- First
  Uploads <- Sent
  MaxLosses = 1
  None = None
INVARIANT StartsWhole
PROPERTIES Installs Recovers
