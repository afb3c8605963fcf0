SPECIFICATION Spec
CONSTANTS
  m1 = m1
  m2 = m2
  b1 = b1
  b2 = b2
  None = None
  Machines <- OneMachine
  Browsers <- Nobody
  Options <- ExistingModel
  FirstStep = "generate_writing"
  Placeholders = {"clip_data"}
  RunAuto = "int"
  Faults = {}
  ClientMoves = {}
  JobBound = 4
INVARIANT RefundMeansNoWork
CHECK_DEADLOCK FALSE
