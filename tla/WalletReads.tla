---------------------------- MODULE WalletReads ----------------------------
(***************************************************************************)
(* Requests that show the bill of an order: GET of the transaction, of the *)
(* step state and of the subtask mapping.  Each reads two tables with      *)
(* plain SELECTs of one READ COMMITTED transaction, so that the billing of *)
(* the order can take any number of steps between the two.  Billing itself *)
(* is atomic here: module Wallet is proved to take no other steps.         *)
(***************************************************************************)
EXTENDS OrderBilling, Sequences

CONSTANTS Readers  \* requests that read

VARIABLES
  reader,  \* reader -> what it reads and the rows it has
  answer   \* reader -> what its client was last shown

readVars == <<balance, bill, reader, answer>>

NoRow == "no row"
AtRest == [op |-> "none"]

\* The rows as the tables hold them: a quote is consumed by the freeze, which
\* inserts the transaction, and refunds are entries of the ledger.
Fetched(table, o) ==
  CASE table = "quote" /\ bill[o].phase = "none" -> NoRow
    [] table = "quote" /\ bill[o].phase = "quoted" -> "ACTIVE"
    [] table = "quote" /\ bill[o].phase \notin {"none", "quoted"} -> "CONSUMED"
    [] table = "transaction" /\ bill[o].phase \in {"none", "quoted"} -> NoRow
    [] table = "transaction" /\ bill[o].phase \notin {"none", "quoted"} -> bill[o].phase
    [] table = "refunds" /\ bill[o].phase = "refunded" -> bill[o].amount
    [] table = "refunds" /\ bill[o].phase = "confirmed" -> bill[o].credit
    [] table = "refunds" /\ bill[o].phase \notin {"refunded", "confirmed"} -> 0

\* Mutant: the table whose rows are derived from the other is read first.
StatementsSwapped(op) ==
  IF op = "transaction" THEN <<"refunds", "transaction">> ELSE <<"transaction", "quote">>

\* What a request reads, in this order.  The step state and the subtask mapping
\* read the same two rows.
Statements(op) ==
  IF op = "transaction" THEN <<"transaction", "refunds">> ELSE <<"quote", "transaction">>

\* The billing summary: a net consumption only once the order is settled.
Summary(order, state, refunded) ==
  [op |-> "transaction", order |-> order, state |-> state, refunded |-> refunded,
   net |-> CASE state = "refunded"  -> 0
             [] state = "confirmed" -> bill[order].amount - refunded
             [] state = "frozen"    -> -1]

\* The three steps of the order: quoted, frozen, settled.
StepState(order, status, state) ==
  [op |-> "steps", order |-> order, quote |-> status,
   freeze |-> IF state = NoRow THEN "pending" ELSE "completed",
   deduction |-> CASE state = NoRow       -> "not_started"
                   [] state = "frozen"    -> "frozen"
                   [] state = "confirmed" -> "deducted"
                   [] state = "refunded"  -> "released"]

Shown(op, order, rows) ==
  CASE op = "transaction" /\ rows["transaction"] = NoRow -> [op |-> "missing"]
    [] op = "transaction" /\ rows["transaction"] # NoRow ->
         Summary(order, rows["transaction"], rows["refunds"])
    [] op = "steps" /\ rows["quote"] = NoRow -> [op |-> "missing"]
    [] op = "steps" /\ rows["quote"] # NoRow ->
         StepState(order, rows["quote"], rows["transaction"])

ReadFirst(r, op, o) ==
  /\ reader[r] = AtRest
  /\ reader' = [reader EXCEPT ![r] = [op |-> op, order |-> o, first |-> Fetched(Statements(op)[1], o)]]
  /\ answer' = [answer EXCEPT ![r] = AtRest]
  /\ UNCHANGED vars

ReadSecond(r) ==
  LET op == reader[r].op
      o == reader[r].order
      rows == [t \in {Statements(op)[1], Statements(op)[2]} |->
                 IF t = Statements(op)[1] THEN reader[r].first ELSE Fetched(t, o)]
  IN /\ reader[r] # AtRest
     /\ answer' = [answer EXCEPT ![r] = Shown(op, o, rows)]
     /\ reader' = [reader EXCEPT ![r] = AtRest]
     /\ UNCHANGED vars

ReadInit ==
  /\ Init
  /\ reader = [r \in Readers |-> AtRest]
  /\ answer = [r \in Readers |-> AtRest]

ReadNext ==
  \/ Next /\ UNCHANGED <<reader, answer>>
  \/ \E r \in Readers :
       (\E op \in {"transaction", "steps"}, o \in Orders : ReadFirst(r, op, o)) \/ ReadSecond(r)

ReadSpec == ReadInit /\ [][ReadNext]_readVars

-----------------------------------------------------------------------------

\* Although two statements see two moments, no mixture misleads: the net
\* consumption a client is shown is what the order has cost its user by then,
\* also when the order was credited between the transaction and its ledger
\* (_query_response); and a quote shown as consumed is shown with the freeze that
\* consumed it, never paid for by nothing (_hard_price_step_state_response).
ShownIsCurrent ==
  [][\A r \in Readers :
       answer'[r] # answer[r] =>
         LET shown == answer'[r] IN
         /\ shown.op = "transaction" /\ shown.net >= 0 =>
              LET b == bill[shown.order] IN
              shown.net = IF b.phase = "confirmed" THEN b.amount - b.credit ELSE 0
         /\ shown.op = "steps" /\ shown.quote = "CONSUMED" =>
              shown.freeze = "completed"]_readVars
=============================================================================
