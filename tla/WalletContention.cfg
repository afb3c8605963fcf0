SPECIFICATION Spec
CONSTANTS
  w1 = w1 w2 = w2 o1 = o1 o2 = o2 u1 = u1 u2 = u2 k1 = k1 k2 = k2
  i1 = i1 i2 = i2 m1 = m1 m2 = m2 c1 = c1 c2 = c2 e1 = e1 e2 = e2
  None = None
  Workers <- TwoWorkers
  Orders <- TwoOrders
  Users <- TwoUsers
  Keys = {k1, k2}
  Bodies <- ContentionBodies
  Price <- ContentionPrice
  Opening <- ContentionOpening
  QuoteTTL = 1
  IdempotencyTTL = 1
  BatchSize = 1
  MaxTime = 0
SYMMETRY Symmetry
INVARIANTS BooksAreSound
PROPERTIES ImplementsBilling MovementIsRecorded
