SPECIFICATION FairFleetSpec
CONSTANTS
  NActive = 3
  NTotal = 5
  Stagger = 1
  DieselStart = 3
  DieselMinRun = 4
  DieselMinDown = 3
  Debounce = 2
  RestoreHold = 3
INVARIANTS FleetWithinTarget EveryFailureReplaced ReadyWhenIdle
PROPERTIES FleetFollowsGap
