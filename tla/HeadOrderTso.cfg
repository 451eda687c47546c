SPECIFICATION FairSpec
CONSTANTS
  Secondaries = {s1, s2, s3}
  Code = {c1, c2}
  Payload = {p1, p2}
  Spin = spin
  Status = status
  InOrder = TRUE
CHECK_DEADLOCK FALSE
INVARIANTS
  TypeOK
  FlagMeansCopied
  SpinMeansPlaced
PROPERTIES
  EverySecondaryJoins
