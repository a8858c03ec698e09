SPECIFICATION Spec
CONSTANTS
  Lines = 3
  Scenarios <- Files
  Limits = {1, 4}
  XaddBatch = 2
  Worker = {w1, w2}
  BatchSize = 2
  Attempts = 2
  MaxRuns = 2
  MaxFaults = 1
INVARIANTS TypeOK AckedLanded ReplayLeavesNoGap DeadForAReason
PROPERTIES EveryMessageLands
