SPECIFICATION Spec
CONSTANTS
  Window = 1
  Entity = {h1, h2}
  Detector = {rate}
  Score = {60}
  AgentRisk = {50}
  BatchSize = 2
  Forced = {FALSE, TRUE}
  MaxTime = 3
  MaxDetections = 3
  MaxCrashes = 1
INVARIANTS
  TypeOK
  EvidenceOnce
  ClustersRight
  HeldBackInOrder
PROPERTIES
  AllCorrelated
