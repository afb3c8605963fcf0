SPECIFICATION FairSpec
CONSTANTS
  w1 = w1 w2 = w2 t1 = t1 t2 = t2 q1 = q1 u1 = u1 u2 = u2 c1 = c1 c2 = c2
  None = None
  Workers <- TwoWorkers
  Tasks <- TwoTasks
  Minted = {t2}
  Quotes = {q1}
  Users <- TwoUsers
  Bodies <- BillingBodies
  Price <- BillingPrice
  Opening <- BillingOpening
  Funding = {0}
  QuoteTTL = 2
  DriftAge = 1
  AutoRefund = TRUE
  MaxTime = 2
INVARIANTS PointsAccounted AcceptedHolds ChargeHonoursQuote
PROPERTIES RefundedWithFailure RetryAccepted RequestsAreAnswered
