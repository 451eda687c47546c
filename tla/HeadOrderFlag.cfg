SPECIFICATION Spec
CONSTANTS
  Secondaries = {s1, s2}
  Code = {c1, c2}
  Payload = {p1, p2}
  Spin = spin
  Status = status
  InOrder = FALSE
CHECK_DEADLOCK FALSE
INVARIANTS
  FlagMeansCopied
