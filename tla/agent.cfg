\* Buffers of two rows, requests of two bytes, patience of three intervals.
CONSTANTS
  Marks = {1, 2, 3}
  StreamOf <- MCStreamOf
  Weight <- MCWeight
  MAX_BUFFERED = 2
  MAX_BATCH = 2
  AFTER = 3
  REPEAT = 2
  LOOK = 2
  MaxFaults = 2
SPECIFICATION FairSpec
INVARIANTS Accounted
PROPERTIES ShoutsAreTrue GoesOnTrying
