------------------------------ MODULE WalletMC ------------------------------
(* Values for the constants of Wallet shared by its model-checking
   runs. *)
EXTENDS WalletReports, TLC

CONSTANTS w1, w2, o1, o2, u1, u2, k1, k2, i1, i2, m1, m2, c1, c2, e1, e2

TwoWorkers == {w1, w2}
Symmetry == Permutations(Workers)

Request(op, order, user, ref, detail, amount) ==
  [op |-> op, order |-> order, user |-> user, ref |-> ref, detail |-> detail,
   amount |-> amount]

Correlation(task, call, legacy) == [task |-> task, call |-> call, legacy |-> legacy]

QuoteBody(o, u, item) == Request("quote", o, u, None, item, 0)
FreezeBody(o, u, ref, task) ==
  Request("freeze", o, u, ref, Correlation(task, None, FALSE), 0)
ConfirmBody(o, u, ref, task, call, legacy) ==
  Request("confirm", o, u, ref, Correlation(task, call, legacy), 0)
RefundBody(o, u, ref, evidence) == Request("refund", o, u, ref, evidence, 0)
OverbillBody(o, u, ref, evidence, amount) ==
  Request("overbill", o, u, ref, evidence, amount)

-----------------------------------------------------------------------------

\* One order through its whole life, with retries, disagreeing retries and
\* rival settlements.
OneUser == {u1}
OneOrder == {o1}
LifeBodies ==
  { QuoteBody(o1, u1, i1), FreezeBody(o1, u1, o1, m1),
    ConfirmBody(o1, u1, o1, m1, c1, FALSE), ConfirmBody(o1, u1, o1, m2, c1, FALSE),
    RefundBody(o1, u1, o1, e1) }
LifePrice == i1 :> {2}
LifeOpening == u1 :> 3

\* Two orders of one account, a second user who quotes or freezes the same
\* order, a transaction id of another order, and keys reused for either order.
TwoOrders == {o1, o2}
TwoUsers == {u1, u2}
ContentionBodies ==
  { QuoteBody(o1, u1, i1), QuoteBody(o2, u1, i1), QuoteBody(o1, u2, i1),
    FreezeBody(o1, u1, o1, None), FreezeBody(o2, u1, o2, None),
    FreezeBody(o1, u2, o1, None),
    ConfirmBody(o1, u1, o1, m1, c1, FALSE), ConfirmBody(o2, u1, o1, m1, c1, FALSE),
    RefundBody(o1, u1, o1, e1) }
ContentionPrice == i1 :> {2}
ContentionOpening == u1 :> 4 @@ u2 :> 0

\* Time passes: quotes expire, records are cleaned up in batches, and requests
\* are sent again afterwards, also for a charge that is kept and partly given
\* back; the account covers only one of the two prices the
\* item may have, another item has none.
RetentionBodies ==
  { QuoteBody(o1, u1, i1), QuoteBody(o1, u1, i2),
    FreezeBody(o1, u1, o1, m1), FreezeBody(o1, u1, None, m1),
    ConfirmBody(o1, u1, o1, m1, c1, FALSE), ConfirmBody(o1, u1, o1, m1, c1, TRUE),
    RefundBody(o1, u1, o1, e1), OverbillBody(o1, u1, o1, e1, 1), OverbillBody(o1, u1, o1, e1, 3) }
RetentionPrice == i1 :> {2, 3} @@ i2 :> {}
RetentionOpening == u1 :> 2

=============================================================================
