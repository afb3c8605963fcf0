SPECIFICATION LiveSpec
CONSTANTS
  m1 = m1
  m2 = m2
  b1 = b1
  b2 = b2
  None = None
  Machines <- TwoMachines
  Browsers <- TwoBrowsers
  Options <- LearnedModel
  FirstStep = "popular_learning"
  Placeholders = {}
  RunAuto = "int"
  Faults = {"error"}
  ClientMoves = {}
  JobBound = 5
INVARIANTS TriggeredOnce JobsAreKnown
PROPERTIES OnlyForward Settles
CHECK_DEADLOCK FALSE
