SPECIFICATION FairSpec
CONSTANTS
  Harts = {h1, h2}
  Addr <- MCAddr
  Link = 30
  Loads = {1}
  NoSpins = {TRUE}
  NextRun = 1
  NextFdt = 70
  BssLen = 1
  PayLen = 9
  Size = 24
  Blobs <- NoBlobs
  Args = {75}
  FdtSrc = 75
  FdtLen = 2
PROPERTIES
  EveryHartJoins
