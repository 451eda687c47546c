SPECIFICATION Spec
CONSTANTS
  Harts = {h1, h2, h3}
  Addr <- MCAddr
  Link = 30
  Loads <- AcceptedLoads
  NoSpins = {TRUE, FALSE}
  NextRun = 1
  NextFdt = 3
  BssLen = 2
  PayLen = 2
  Size = 19
  Blobs <- MCBlobs
  Args = {75, 0}
  FdtSrc = 75
  FdtLen = 2
PROPERTIES
  LosersWait
