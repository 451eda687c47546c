SPECIFICATION FairSpec
CONSTANTS
  Boots <- MCBoots
  PRINT_TBUF_MAX = 6
  UInt = 16
  ULong = 256
  U8 = 4
  Depth = 2
CHECK_DEADLOCK FALSE
INVARIANTS
  BufferBound
  
  TextShown
PROPERTIES
  OnlyTextSent
  WirePromise
  CallsEnd
