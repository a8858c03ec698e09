SPECIFICATION Spec
CONSTANTS
  Caller = {correlator, evaluation}
  Question = {q1}
  Chains <- Keys
  Attempts = 2
  Budget = 1
  MaxAnalyses = 2
  MaxEvents = 1
INVARIANTS TypeOK BudgetHolds AskedOnce
PROPERTIES ChainWalked AnalysesEnd
