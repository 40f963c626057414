SPECIFICATION FairSpec
CONSTANTS
  NUnits = 3
  Rated <- MCRated
  HotStandby <- MCStandby
  Spinning <- MCSpinning
  Initial <- MCInitial
  StartTime <- MCStartTime
  HotUntil = 1
  WarmUntil = 2
  MinRun = 2
  MinDown = 2
  UnloadTail = 1
  Descent = 1
  CommitConfirm = 2
  DecommitConfirm = 2
  ReleaseConfirm = 2
  CommitPct = 80
  DecommitPct = 50
  RemovalPct = 70
  Cascading = TRUE
  Demands = {10, 20}
  MaxInputs = 2
INVARIANTS SequentialStarts AcceptedCommandsAct
PROPERTIES SequencesEnd FleetSettles
