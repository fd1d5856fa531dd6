CONSTANTS
  Runs = {r1, r2}
  MaxSecond = 1
  MaxFaults = 0
  NoRow = NoRow
  NoObject = NoObject
SPECIFICATION Spec
INVARIANTS SeesLastFinished
