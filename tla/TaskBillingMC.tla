--------------------------- MODULE TaskBillingMC ---------------------------
(* Values for the constants of TaskBilling. *)
EXTENDS TaskBilling, TLC

CONSTANTS w1, w2, t1, t2, q1, u1, u2, c1, c2

Request(op, user, t, q, combo, status, expected) ==
  [op |-> op, user |-> user, task |-> t, quote |-> q, combo |-> combo,
   status |-> status, expected |-> expected]

Post(u, t, q) == Request("post", u, t, q, c1, "open", None)
PostOther(u, t, q) == Request("post", u, t, q, c2, "open", None)
Fail(u, t, expected) == Request("put", u, t, None, None, "failed", expected)
Reopen(u, t) == Request("put", u, t, None, None, "open", "failed")

\* A quote submitted for a task of the client's and for one the server
\* generates (t2), for what it was made for and for something else; a second
\* user who claims the client's task; failures reported twice, a failed task
\* reopened.
TwoWorkers == {w1, w2}
TwoUsers == {u1, u2}
TwoTasks == {t1, t2}
BillingBodies ==
  { Post(u1, t1, q1), PostOther(u1, t1, q1), Post(u1, None, q1), Post(u2, t1, None),
    Fail(u1, t1, None), Fail(u1, t2, "open"), Reopen(u1, t1) }

\* The price goes up from nothing and down to nothing; the user can pay it once.
BillingPrice == c1 :> {0, 2}
BillingOpening == u1 :> 2 @@ u2 :> 0
=============================================================================
