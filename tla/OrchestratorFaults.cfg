SPECIFICATION Spec
CONSTANTS
  m1 = m1
  m2 = m2
  b1 = b1
  b2 = b2
  None = None
  Machines <- OneMachine
  Browsers <- Nobody
  Options <- LearnedModel
  FirstStep = "popular_learning"
  Placeholders = {}
  RunAuto = "int"
  Faults = {"crash", "error", "timeout"}
  ClientMoves = {"pause", "resume", "manual", "retry"}
  JobBound = 6
INVARIANT StepsInOrder
INVARIANT CompletedMeansDone
PROPERTY VerdictFitsRow
CHECK_DEADLOCK FALSE
