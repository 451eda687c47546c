SPECIFICATION Spec
CONSTANT Setups <- LongSetups
INVARIANT StringsCounted
CHECK_DEADLOCK FALSE
