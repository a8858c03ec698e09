SPECIFICATION Spec
CONSTANTS
  Window = 1
  Entity = {h1, h2}
  Detector = {rate}
  Score = {60}
  AgentRisk = {50}
  BatchSize = 3
  Forced = {FALSE}
  MaxTime = 3
  MaxDetections = 3
  MaxCrashes = 0
INVARIANT HeldBackNotLost
