SPECIFICATION Spec
SYMMETRY Interchangeable
CONSTANTS
  host = host
  lan = lan
  Entity <- MCEntity
  External <- MCExternal
  MinRiskFloor = 50
  Orch = Orch
  Nobody = Nobody
  NoKey = NoKey
  PlaybookDef <- MCAllHigh
  Profile <- MCFlood
  User = {ann}
  Approver = {ann}
  Key = {k}
  Request = {r1, r2}
  BatchSize = 1
  MaxIncidents = 1
  MaxOpen = 2
  MaxCrashes = 0
INVARIANTS
  AnswersOnRecord
