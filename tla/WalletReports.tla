--------------------------- MODULE WalletReports ---------------------------
(***************************************************************************)
(* The two reports over the wallet's tables: the quota board of the admins *)
(* and the monthly reconciliation of finance.  Each is ONE statement, so   *)
(* each shows a single committed state: here, a function of the tables.    *)
(* They sum different columns: the board counts transactions by state and  *)
(* ledger refunds by account, the reconciliation counts ledger entries by  *)
(* transaction and compares them with the row they belong to.              *)
(***************************************************************************)
EXTENDS Wallet

\* Request validation: a confirm names the api_task_id it was billed for, and a
\* refund gives a reason code, neither of them empty (models.py).
ASSUME DetailsAssumption ==
  \A b \in Bodies :
    /\ b.op = "confirm" => b.detail.call # None
    /\ b.op \in {"refund", "overbill"} => b.detail # None

Billed(u, states) ==
  {o \in Orders : transaction[o] # NoRow /\ transaction[o].user = u /\ transaction[o].state \in states}
Settled == {"CONFIRMED", "REFUNDED"}
Sum(f(_), S) == SumFunctionOnSet([x \in S |-> f(x)], S)

\* SUM of the entries of one type of order o.
LedgerTotal(o, type) ==
  LET entries == ledger[transaction[o].user] IN
  Sum(LAMBDA i : entries[i].amount,
      {i \in DOMAIN entries : entries[i].order = o /\ entries[i].type = type})

AmountOf(o) == transaction[o].amount
AccountRefunds(u) ==
  Sum(LAMBDA i : ledger[u][i].amount, {i \in DOMAIN ledger[u] : ledger[u][i].type = "REFUND"})

\* A row of the quota board: refunds of confirmed orders are taken off what was
\* confirmed, those of orders that never were are not.
Board(u) ==
  [available |-> account[u].available, frozen |-> account[u].frozen,
   open |-> Sum(AmountOf, Billed(u, {"FROZEN"})),
   refunded |-> AccountRefunds(u),
   net |-> Sum(AmountOf, Billed(u, {"CONFIRMED"}))
           - Sum(RefundTotal, Billed(u, {"CONFIRMED"}))]

\* Mutant: a credit of a confirmed order is not taken off.
NetOfChargesOnly(o) ==
  IF transaction[o].state = "CONFIRMED" THEN LedgerTotal(o, "CONFIRM") ELSE 0

\* A row of the reconciliation.
NetConfirmed(o) ==
  IF transaction[o].state = "CONFIRMED"
    THEN LedgerTotal(o, "CONFIRM") - LedgerTotal(o, "REFUND") ELSE 0

\* The entry that must match the amount of an order in this state.
SettledBy == [FROZEN |-> "FREEZE", CONFIRMED |-> "CONFIRM", REFUNDED |-> "REFUND"]
LedgerDelta(o) == transaction[o].amount - LedgerTotal(o, SettledBy[transaction[o].state])

\* classify_reconciliation_risk, apart from the reasons that only look at the
\* times of a settlement: those are written with its state.
Reasons(o) ==
  LET t == transaction[o] IN
     (IF quote[o].amount # t.amount THEN {"QUOTE_TRANSACTION_AMOUNT_MISMATCH"} ELSE {})
  \union (IF LedgerDelta(o) # 0 THEN {"TRANSACTION_LEDGER_AMOUNT_MISMATCH"} ELSE {})
  \union (IF t.state = "CONFIRMED" /\ t.correlation.call = None
          THEN {"CONFIRMED_WITHOUT_API_TASK_ID"} ELSE {})
  \union (IF t.state = "REFUNDED" /\ t.refund = None THEN {"REFUNDED_WITHOUT_REASON_CODE"} ELSE {})
  \union (IF t.state = "FROZEN" THEN {"FROZEN_OPEN_AT_PERIOD_CLOSE"} ELSE {})
  \union (IF \A type \in Range(SettledBy) : LedgerTotal(o, type) = 0
          THEN {"MISSING_LEDGER_ENTRIES"} ELSE {})

\* Totals of the reconciliation's summary, restricted to one account.
Summary(u) ==
  [open |-> Sum(LAMBDA o : LedgerTotal(o, "FREEZE"), Billed(u, {"FROZEN"})),
   refunded |-> Sum(LAMBDA o : LedgerTotal(o, "REFUND"), Billed(u, Settled)),
   net |-> Sum(NetConfirmed, Billed(u, Settled))]

-----------------------------------------------------------------------------

\* The board balances at every moment: the frozen points of an account are its
\* open orders, and with what is available and what was kept they are what the
\* account was seeded with, also after a credit on a confirmed order.
BoardBalances ==
  \A u \in Users :
    /\ Board(u).frozen = Board(u).open
    /\ Board(u).available + Board(u).frozen + Board(u).net = Opening[u]

\* Finance and the board agree, although neither reads the columns the other
\* sums.
ReportAgreesWithBoard ==
  \A u \in Users :
    /\ Summary(u).open = Board(u).open
    /\ Summary(u).refunded = Board(u).refunded
    /\ Summary(u).net = Board(u).net

\* Whenever the report is run, an order carries no risk but that of still being
\* open: no request, however interrupted, leaves rows that disagree.
ReportIsClean ==
  \A o \in Orders : transaction[o] # NoRow => Reasons(o) \subseteq {"FROZEN_OPEN_AT_PERIOD_CLOSE"}

\* Whenever they are run, the two reports balance, agree and accuse no order
\* that was billed as it should be.
ReportsAgree == BoardBalances /\ ReportAgreesWithBoard /\ ReportIsClean
=============================================================================
