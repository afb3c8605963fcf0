SPECIFICATION ReadSpec
CONSTANTS
  u1 = u1 u2 = u2
  Orders = {o1, o2, o3}
  Users = {u1, u2}
  Readers = {r1}
  Amounts <- BillingAmounts
  Opening <- BillingOpening
INVARIANTS FrozenIsHeld PointsConserved
PROPERTIES ShownIsCurrent
