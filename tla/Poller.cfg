SPECIFICATION LiveSpec
CONSTANTS
  m1 = m1 m2 = m2
  t1 = t1 t2 = t2 t3 = t3
  None = None
  Machines <- TwoMachines
  Pool = 2
  Lent = 1
  Tasks <- ThreeTasks
  Stuck <- OneStuck
  Length = 1
  BatchSize = 2
  Flag = "true"
  MaxFaults = 1
INVARIANTS LockDiscipline
PROPERTIES EveryTaskIsDriven
