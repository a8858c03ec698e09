SPECIFICATION Spec
CONSTANTS
  Window = 2
  ZTrigger = 1
  MinHistory = 1
  Threshold = 1
  Writer = {n1, n2}
  EventKind <- Flows
  BatchSize = 2
  MaxEvents = 3
  MaxFailures = 1
  MaxCrashes = 1
INVARIANTS
  TypeOK
  MetricsTellEvents
  DetectionsExact
  CursorPassesSeen
PROPERTIES
  EventsReached
