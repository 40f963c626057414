SPECIFICATION Spec
CONSTANTS
  AgentCount = 2
  Floor <- MCFloor
  MinTicks = 1
  Lifetime = 1
  EndTick = 3
  WallSteps = {1}
  MaxProposals = 3
CHECK_DEADLOCK FALSE
INVARIANTS OutOfBoundsNotOffered OneReadinessPending DeadlineKept
PROPERTIES DecidedOnce
