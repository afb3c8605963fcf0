------------------------------- MODULE Wallet -------------------------------
(***************************************************************************)
(* The hard-price wallet (src/wallet/service.py over src/wallet/postgres.py)*)
(* with several requests in flight, on one or several server instances.     *)
(*                                                                         *)
(* A worker serves one request in one READ COMMITTED database transaction. *)
(* It takes its locks one statement at a time, reads rows under them, and  *)
(* writes the literal values it computed from those rows.  The variables   *)
(* below hold COMMITTED data: what a worker writes becomes visible, and its *)
(* locks are released, in the one step that commits.  A worker that fails   *)
(* at any point (timeout, lost connection, crash) leaves no trace, and the  *)
(* client, which cannot tell a failure before the commit from a response    *)
(* lost after it, may send the same body again under any key.              *)
(***************************************************************************)
EXTENDS Integers, Sequences, FiniteSets, Functions

CONSTANTS
  Workers,         \* requests that can be in flight together
  Orders,          \* web_order_id values
  Users,           \* (web_tenant_id, web_user_id) pairs
  Keys,            \* values of the Idempotency-Key header
  Bodies,          \* validated request bodies that clients may send
  Price,           \* item -> the hard prices its row can hold over time
  Opening,         \* available points of each account at the start
  QuoteTTL,        \* quote_ttl_seconds
  IdempotencyTTL,  \* idempotency_ttl_hours, in the same unit
  BatchSize,       \* batch_size of the cleanup job
  MaxTime,         \* bound on the clock
  None             \* an absent value

Ops == {"quote", "freeze", "confirm", "refund", "overbill"}
Amounts == UNION {Price[item] : item \in DOMAIN Price}

ASSUME PriceAssumption ==
  \A item \in DOMAIN Price : Price[item] \subseteq Nat \ {0}
ASSUME WalletOpeningAssumption == Opening \in [Users -> Nat]
ASSUME TimesAssumption ==
  /\ {QuoteTTL, IdempotencyTTL, MaxTime} \subseteq Nat
  /\ BatchSize \in Nat \ {0}
ASSUME NoneAssumption == None \notin Orders

\* A body names the quote (freeze) or the transaction (confirm, refund,
\* overbill) it acts on by a server-generated id.  An order has at most one of
\* each, so the id is the order it belongs to, or None for an id nobody was
\* given.  "detail" is what a repeated request is compared by: the item of a
\* quote, the correlation of a freeze or confirm, the evidence of a refund.
ASSUME BodiesAssumption ==
  \A b \in Bodies :
    /\ {"op", "order", "user", "ref", "detail", "amount"} \subseteq DOMAIN b
    /\ b.op \in Ops /\ b.order \in Orders /\ b.user \in Users
    /\ b.ref \in Orders \union {None}
    /\ b.op = "quote" => b.detail \in DOMAIN Price
    /\ b.op = "overbill" => b.amount \in Nat \ {0}

VARIABLES
  account,      \* wallet_accounts: user -> balances
  quote,        \* wallet_quotes: order -> row, UNIQUE (web_order_id)
  transaction,  \* wallet_transactions: order -> row, UNIQUE (web_order_id)
  ledger,       \* wallet_ledger_entries: user -> entries, oldest first
  idempotency,  \* wallet_idempotency_records: <<operation, key>> -> row
  clock,        \* the time "now" reads
  cleaner,      \* None, or the cutoff of the cleanup job that is running
  pc,           \* worker -> the statement it runs next, or its last answer
  req,          \* worker -> the request it serves
  seen,         \* worker -> the rows it has read (or built) so far
  held,         \* worker -> the locks its database transaction holds
  accepted      \* history: the bodies that were answered with success

tables  == <<account, quote, transaction, ledger, idempotency>>
workers == <<pc, req, seen, held>>
vars    == <<tables, clock, cleaner, workers, accepted>>

NoRow == [state |-> "NONE"]
NoRequest == [body |-> None, key |-> None, now |-> 0]
NothingSeen == [quote |-> NoRow, transaction |-> NoRow, account |-> None]

\* "conflict": the key belongs to another request; "rejected": any other 4xx;
\* "failed": rolled back, answered 5xx or not at all.
Answers == {"ok", "rejected", "conflict", "failed"}
Idle == Answers \union {"idle"}
Stages == {"idempotency", "order", "price", "quote", "transaction", "account",
           "commit", "existing"}

Init ==
  /\ account = [u \in Users |-> [available |-> Opening[u], frozen |-> 0]]
  /\ quote = [o \in Orders |-> NoRow]
  /\ transaction = [o \in Orders |-> NoRow]
  /\ ledger = [u \in Users |-> <<>>]
  /\ idempotency = [k \in Ops \X Keys |-> None]
  /\ clock = 0
  /\ cleaner = None
  /\ pc = [w \in Workers |-> "idle"]
  /\ req = [w \in Workers |-> NoRequest]
  /\ seen = [w \in Workers |-> NothingSeen]
  /\ held = [w \in Workers |-> {}]
  /\ accepted = {}

-----------------------------------------------------------------------------

Body(w) == req[w].body
Op(w) == Body(w).op
Order(w) == Body(w).order
Record(w) == <<Op(w), req[w].key>>

\* The account a worker works on belongs to the owner of the row it read.
Payer(w) == IF Op(w) = "freeze" THEN seen[w].quote.user
                                ELSE seen[w].transaction.user

\* Mutant: refund takes the account before the transaction.
LockAtSwapped(w) ==
  CASE pc[w] = "idempotency" -> <<"idempotency", Record(w)>>
    [] pc[w] = "order"       -> <<"order", Order(w)>>
    [] pc[w] = "quote"       -> <<"quote", Body(w).ref>>
    [] pc[w] = "transaction" -> IF Op(w) = "refund" THEN <<"account", Body(w).user>>
                                ELSE <<"transaction", Body(w).ref>>
    [] pc[w] = "account"     -> IF Op(w) = "refund" THEN <<"transaction", Body(w).ref>>
                                ELSE <<"account", Payer(w)>>

\* The lock the next statement of a worker asks for: the two advisory locks,
\* then SELECT ... FOR UPDATE on the rows.
LockAt(w) ==
  CASE pc[w] = "idempotency" -> <<"idempotency", Record(w)>>
    [] pc[w] = "order"       -> <<"order", Order(w)>>
    [] pc[w] = "quote"       -> <<"quote", Body(w).ref>>
    [] pc[w] = "transaction" -> <<"transaction", Body(w).ref>>
    [] pc[w] = "account"     -> <<"account", Payer(w)>>

LockStages == {"idempotency", "order", "quote", "transaction", "account"}

Free(lock) == \A v \in Workers : lock \notin held[v]

Take(w) ==
  /\ Free(LockAt(w))
  /\ held' = [held EXCEPT ![w] = @ \union {LockAt(w)}]

\* Ends the database transaction (commit or rollback) and answers.
Answer(w, answer) ==
  /\ pc' = [pc EXCEPT ![w] = answer]
  /\ req' = [req EXCEPT ![w] = NoRequest]
  /\ seen' = [seen EXCEPT ![w] = NothingSeen]
  /\ held' = [held EXCEPT ![w] = {}]
  /\ accepted' = IF answer = "ok" THEN accepted \union {Body(w)} ELSE accepted

AnswerNoWrite(w, answer) == Answer(w, answer) /\ UNCHANGED tables

\* Goes on, in the same database transaction, having read more rows.
Proceed(w, stage, rows) ==
  /\ pc' = [pc EXCEPT ![w] = stage]
  /\ seen' = [seen EXCEPT ![w] = rows]
  /\ UNCHANGED <<tables, req, accepted>>

\* Looks the key up: an earlier success with this body is answered again, any
\* other use of the key is refused.
CheckIdempotency(w, stage) ==
  LET record == idempotency[Record(w)] IN
  \/ /\ record = None
     /\ Take(w)
     /\ Proceed(w, stage, seen[w])
  \/ /\ record # None
     /\ Free(LockAt(w))
     /\ AnswerNoWrite(w, IF record.body = Body(w) THEN "ok" ELSE "conflict")

\* INSERT ... ON CONFLICT DO NOTHING
SaveIdempotency(w) ==
  idempotency' = IF idempotency[Record(w)] # None THEN idempotency
                 ELSE [idempotency EXCEPT ![Record(w)] =
                         [body |-> Body(w), first_seen_at |-> clock]]

-----------------------------------------------------------------------------

\* The ids a client can name are those of rows it has been told about.
Receive(w) ==
  /\ pc[w] \in Idle
  /\ \E body \in Bodies, key \in Keys :
       /\ body.ref # None =>
            /\ body.op = "freeze" => quote[body.ref] # NoRow
            /\ body.op \in {"confirm", "refund", "overbill"} =>
                 transaction[body.ref] # NoRow
       /\ req' = [req EXCEPT ![w] = [body |-> body, key |-> key, now |-> clock]]
  /\ pc' = [pc EXCEPT ![w] = "idempotency"]
  /\ UNCHANGED <<tables, seen, held, accepted>>

\* Mutant: the key is looked up without the advisory lock.
LockIdempotencyUnlocked(w) ==
  /\ pc[w] = "idempotency"
  /\ \/ /\ idempotency[Record(w)] = None
        /\ Proceed(w, IF Op(w) \in {"quote", "freeze"} THEN "order"
                                                       ELSE "transaction", seen[w])
        /\ UNCHANGED held
     \/ /\ idempotency[Record(w)] # None
        /\ AnswerNoWrite(w, IF idempotency[Record(w)].body = Body(w)
                            THEN "ok" ELSE "conflict")

LockIdempotency(w) ==
  /\ pc[w] = "idempotency"
  /\ CheckIdempotency(w, IF Op(w) \in {"quote", "freeze"} THEN "order"
                                                          ELSE "transaction")

\* The key is looked up a second time under the lock of the order.
LockOrder(w) ==
  /\ pc[w] = "order"
  /\ CheckIdempotency(w, IF Op(w) = "quote" THEN "price" ELSE "quote")

\* create_quote: plain reads of the order's quote and of the price.
PriceQuote(w) ==
  LET old == quote[Order(w)] IN
  /\ pc[w] = "price"
  /\ UNCHANGED held
  /\ \/ /\ old = NoRow
        /\ \E amount \in Price[Body(w).detail] :
             Proceed(w, "commit",
               [seen[w] EXCEPT !.quote =
                  [state |-> "ACTIVE", user |-> Body(w).user,
                   item |-> Body(w).detail, amount |-> amount,
                   expires_at |-> req[w].now + QuoteTTL]])
     \/ /\ old # NoRow
        /\ old.user = Body(w).user /\ old.item = Body(w).detail
        /\ Proceed(w, "existing", seen[w])

RefuseQuote(w) ==
  LET old == quote[Order(w)] IN
  /\ pc[w] = "price"
  /\ \/ old = NoRow /\ Price[Body(w).detail] = {}
     \/ old # NoRow /\ (old.user # Body(w).user \/ old.item # Body(w).detail)
  /\ AnswerNoWrite(w, "rejected")

\* Owner check of a row read by id: tenant, user and order must all match.
Owns(w, table) ==
  /\ Body(w).ref = Order(w)
  /\ table[Order(w)] # NoRow
  /\ table[Order(w)].user = Body(w).user

\* A freeze may leave the master task out; a stored one must be repeated.
FreezeCorrelationMatches(stored, detail) ==
  stored.task # None => stored.task = detail.task

\* Mutant: a quote can still be frozen at the instant it expires.
FreezeVerdictLate(w) ==
  LET q == quote[Order(w)]
      t == transaction[Order(w)]
  IN IF ~Owns(w, quote) THEN "rejected"
     ELSE IF t # NoRow /\ t.user = Body(w).user
     THEN IF FreezeCorrelationMatches(t.correlation, Body(w).detail)
          THEN "existing" ELSE "rejected"
     ELSE IF q.expires_at < req[w].now THEN "rejected" ELSE "account"

\* Mutant: the expiry is tested before the existing transaction is looked up.
FreezeVerdictExpiryFirst(w) ==
  LET q == quote[Order(w)]
      t == transaction[Order(w)]
  IN IF ~Owns(w, quote) \/ q.expires_at <= req[w].now THEN "rejected"
     ELSE IF t # NoRow /\ t.user = Body(w).user
     THEN IF FreezeCorrelationMatches(t.correlation, Body(w).detail)
          THEN "existing" ELSE "rejected"
     ELSE "account"

\* What freeze decides after it has read the quote and the order's transaction.
FreezeVerdict(w) ==
  LET q == quote[Order(w)]
      t == transaction[Order(w)]
  IN IF ~Owns(w, quote) THEN "rejected"
     ELSE IF t # NoRow /\ t.user = Body(w).user
     THEN IF FreezeCorrelationMatches(t.correlation, Body(w).detail)
          THEN "existing" ELSE "rejected"
     ELSE IF q.expires_at <= req[w].now THEN "rejected" ELSE "account"

ConfirmVerdict(w) ==
  LET t == transaction[Order(w)] IN
  CASE t.state = "REFUNDED"     -> "rejected"
    [] t.state # "REFUNDED" /\ Body(w).detail.legacy -> "rejected"
    [] t.state = "CONFIRMED" /\ ~Body(w).detail.legacy ->
         IF t.correlation = Body(w).detail THEN "existing" ELSE "rejected"
    [] t.state = "FROZEN" /\ ~Body(w).detail.legacy -> "account"

\* Mutant: a refund of a refunded transaction is carried out again.
RefundVerdictRepeats(w) ==
  IF transaction[Order(w)].state = "CONFIRMED" THEN "rejected" ELSE "account"

RefundVerdict(w) ==
  LET t == transaction[Order(w)] IN
  CASE t.state = "CONFIRMED" -> "rejected"
    [] t.state = "REFUNDED"  ->
         IF t.refund = Body(w).detail THEN "existing" ELSE "rejected"
    [] t.state = "FROZEN"    -> "account"

\* get_refund_ledger_total: SUM over the REFUND entries of a transaction.
RefundTotal(o) ==
  LET entries == ledger[transaction[o].user]
  IN SumFunction([i \in DOMAIN entries |->
       IF entries[i].order = o /\ entries[i].type = "REFUND"
       THEN entries[i].amount ELSE 0])

\* Mutant: earlier REFUND entries are not looked for.
OverbillVerdictRepeats(w) ==
  LET t == transaction[Order(w)]
  IN IF t.state = "CONFIRMED" /\ Body(w).amount <= t.amount
     THEN "account" ELSE "rejected"

OverbillVerdict(w) ==
  LET t == transaction[Order(w)] IN
  IF /\ t.state = "CONFIRMED"
     /\ RefundTotal(Order(w)) = 0
     /\ Body(w).amount <= t.amount
  THEN "account" ELSE "rejected"

SettleVerdict(w) ==
  IF ~Owns(w, transaction) THEN "rejected"
  ELSE CASE Op(w) = "confirm"  -> ConfirmVerdict(w)
         [] Op(w) = "refund"   -> RefundVerdict(w)
         [] Op(w) = "overbill" -> OverbillVerdict(w)

\* SELECT ... FOR UPDATE of the row a request names, and the verdict on it.  An
\* id nobody was given finds no row, hence locks none.
LockRow(w, verdict, rows) ==
  \/ verdict = "rejected" /\ (Body(w).ref # None => Free(LockAt(w)))
                          /\ AnswerNoWrite(w, "rejected")
  \/ verdict # "rejected" /\ Take(w) /\ Proceed(w, verdict, rows)

\* freeze also reads the order's transaction, without a lock.
LockQuote(w) ==
  /\ pc[w] = "quote"
  /\ LockRow(w, FreezeVerdict(w), [seen[w] EXCEPT !.quote = quote[Order(w)]])

LockTransaction(w) ==
  /\ pc[w] = "transaction"
  /\ LockRow(w, SettleVerdict(w),
             [seen[w] EXCEPT !.transaction = transaction[Order(w)]])

\* Mutant: the account is read without FOR UPDATE.
LockAccountUnlocked(w) ==
  LET a == account[Payer(w)]
      short == Op(w) = "freeze" /\ a.available < seen[w].quote.amount
  IN /\ pc[w] = "account"
     /\ \/ short /\ AnswerNoWrite(w, "rejected")
        \/ /\ ~short
           /\ Proceed(w, "commit", [seen[w] EXCEPT !.account = a])
           /\ UNCHANGED held

\* Every account exists: a missing one is inserted with no points, which only
\* ever leads to INSUFFICIENT_BALANCE and the rollback of the insert.
LockAccount(w) ==
  LET a == account[Payer(w)]
      short == Op(w) = "freeze" /\ a.available < seen[w].quote.amount
  IN /\ pc[w] = "account"
     /\ \/ /\ short
           /\ Free(LockAt(w))
           /\ AnswerNoWrite(w, "rejected")
        \/ /\ ~short
           /\ Take(w)
           /\ Proceed(w, "commit", [seen[w] EXCEPT !.account = a])

\* The request was served before under another key: only the key is recorded.
CommitExisting(w) ==
  /\ pc[w] = "existing"
  /\ SaveIdempotency(w)
  /\ Answer(w, "ok")
  /\ UNCHANGED <<account, quote, transaction, ledger>>

CommitQuote(w) ==
  /\ pc[w] = "commit" /\ Op(w) = "quote"
  /\ quote[Order(w)] = NoRow  \* UNIQUE (web_order_id)
  /\ quote' = [quote EXCEPT ![Order(w)] = seen[w].quote]
  /\ SaveIdempotency(w)
  /\ Answer(w, "ok")
  /\ UNCHANGED <<account, transaction, ledger>>

\* The writes of a transaction that moves points: the account row and the
\* transaction row, from the values computed by the worker, and a ledger entry
\* holding the resulting balances.  The CHECK constraints forbid negative ones.
Write(w, type, amount, available, frozen, row) ==
  LET u == Payer(w)
      o == Order(w)
      a == [available |-> seen[w].account.available + available,
            frozen |-> seen[w].account.frozen + frozen]
  IN /\ a.available >= 0 /\ a.frozen >= 0
     /\ account' = [account EXCEPT ![u] = a]
     /\ transaction' = [transaction EXCEPT ![o] = row]
     /\ ledger' = [ledger EXCEPT ![u] =
          Append(@, [type |-> type, order |-> o, amount |-> amount,
                     available |-> a.available, frozen |-> a.frozen])]
     /\ SaveIdempotency(w)
     /\ Answer(w, "ok")

CommitFreeze(w) ==
  LET q == seen[w].quote IN
  /\ pc[w] = "commit" /\ Op(w) = "freeze"
  /\ transaction[Order(w)] = NoRow  \* UNIQUE (web_order_id)
  /\ quote' = [quote EXCEPT ![Order(w)].state = "CONSUMED"]
  /\ Write(w, "FREEZE", q.amount, - q.amount, q.amount,
           [state |-> "FROZEN", user |-> q.user, amount |-> q.amount,
            frozen_at |-> req[w].now, correlation |-> Body(w).detail,
            refund |-> None])

CommitConfirm(w) ==
  LET t == seen[w].transaction IN
  /\ pc[w] = "commit" /\ Op(w) = "confirm"
  /\ Write(w, "CONFIRM", t.amount, 0, - t.amount,
           [t EXCEPT !.state = "CONFIRMED", !.correlation = Body(w).detail])
  /\ UNCHANGED quote

CommitRefund(w) ==
  LET t == seen[w].transaction IN
  /\ pc[w] = "commit" /\ Op(w) = "refund"
  /\ Write(w, "REFUND", t.amount, t.amount, - t.amount,
           [t EXCEPT !.state = "REFUNDED", !.refund = Body(w).detail])
  /\ UNCHANGED quote

\* The account is credited; the transaction stays CONFIRMED.
CommitOverbill(w) ==
  LET t == seen[w].transaction IN
  /\ pc[w] = "commit" /\ Op(w) = "overbill"
  /\ Write(w, "REFUND", Body(w).amount, Body(w).amount, 0,
           [t EXCEPT !.refund = Body(w).detail])
  /\ UNCHANGED quote

\* Statement or lock timeout, lost connection, crash of the instance: the
\* database rolls back and frees the locks.
Abort(w) ==
  /\ pc[w] \in Stages
  /\ AnswerNoWrite(w, "failed")

-----------------------------------------------------------------------------

\* The cleanup job fixes its cutoff once, then deletes expired records in
\* batches, oldest first, one database transaction per batch.
StartCleanup ==
  /\ cleaner = None
  /\ cleaner' = clock - IdempotencyTTL

Expired(cutoff) ==
  {k \in Ops \X Keys : /\ idempotency[k] # None
                       /\ idempotency[k].first_seen_at < cutoff}

\* Mutant: a full batch is taken for the last one.
DeleteBatchOnce ==
  LET expired == Expired(cleaner) IN
  /\ cleaner # None
  /\ \E batch \in SUBSET expired :
       /\ Cardinality(batch) <= BatchSize
       /\ Cardinality(batch) < BatchSize => batch = expired
       /\ idempotency' = [k \in Ops \X Keys |->
                            IF k \in batch THEN None ELSE idempotency[k]]
  /\ cleaner' = None

DeleteBatch ==
  LET expired == Expired(cleaner) IN
  /\ cleaner # None
  /\ \E batch \in SUBSET expired :
       /\ Cardinality(batch) <= BatchSize
       /\ Cardinality(batch) < BatchSize => batch = expired
       /\ \A k \in batch, other \in expired \ batch :
            idempotency[k].first_seen_at <= idempotency[other].first_seen_at
       /\ idempotency' = [k \in Ops \X Keys |->
                            IF k \in batch THEN None ELSE idempotency[k]]
       /\ cleaner' = IF Cardinality(batch) < BatchSize THEN None ELSE cleaner

Tick ==
  /\ clock < MaxTime
  /\ clock' = clock + 1

\* The statements that go on with a request, up to its answer.
Advance(w) ==
  \/ LockIdempotency(w) \/ LockOrder(w)
  \/ PriceQuote(w) \/ RefuseQuote(w)
  \/ LockQuote(w) \/ LockTransaction(w) \/ LockAccount(w)
  \/ CommitExisting(w) \/ CommitQuote(w) \/ CommitFreeze(w)
  \/ CommitConfirm(w) \/ CommitRefund(w) \/ CommitOverbill(w)

Serve(w) == (Receive(w) \/ Advance(w) \/ Abort(w)) /\ UNCHANGED <<clock, cleaner>>

Next ==
  \/ \E w \in Workers : Serve(w)
  \/ StartCleanup /\ UNCHANGED <<tables, clock, workers, accepted>>
  \/ DeleteBatch /\ UNCHANGED <<account, quote, transaction, ledger,
                                clock, workers, accepted>>
  \/ Tick /\ UNCHANGED <<tables, cleaner, workers, accepted>>

Spec == Init /\ [][Next]_vars

\* The database grants a lock in the order it was asked for, so a worker is not
\* passed over for ever: strong fairness.  Nothing need ever be received.
FairSpec ==
  Spec /\ \A w \in Workers : SF_vars(Advance(w) /\ UNCHANGED <<clock, cleaner>>)

-----------------------------------------------------------------------------

Balance == [available : Nat, frozen : Nat]
QuoteRow == [state : {"ACTIVE", "CONSUMED"}, user : Users, item : DOMAIN Price,
             amount : Amounts, expires_at : Nat]
Details == {b.detail : b \in Bodies}
TransactionRow == [state : {"FROZEN", "CONFIRMED", "REFUNDED"}, user : Users,
                   amount : Amounts, frozen_at : Nat, correlation : Details,
                   refund : Details \union {None}]
Entry == [type : {"FREEZE", "CONFIRM", "REFUND"}, order : Orders,
          amount : Nat \ {0}, available : Nat, frozen : Nat]
Locks == ({"idempotency"} \X (Ops \X Keys))
         \union ({"order", "quote", "transaction"} \X Orders)
         \union ({"account"} \X Users)

\* Rows keep the shape their tables declare; no balance is ever negative.
TypeOK ==
  /\ account \in [Users -> Balance]
  /\ quote \in [Orders -> QuoteRow \union {NoRow}]
  /\ transaction \in [Orders -> TransactionRow \union {NoRow}]
  /\ ledger \in [Users -> Seq(Entry)]
  /\ idempotency \in [Ops \X Keys ->
       [body : Bodies, first_seen_at : Nat] \union {None}]
  /\ clock \in Nat
  /\ cleaner \in Int \union {None}
  /\ pc \in [Workers -> Idle \union Stages]
  /\ req \in [Workers -> [body : Bodies, key : Keys, now : Nat] \union {NoRequest}]
  /\ seen \in [Workers -> [quote : QuoteRow \union {NoRow},
                           transaction : TransactionRow \union {NoRow},
                           account : Balance \union {None}]]
  /\ held \in [Workers -> SUBSET Locks]
  /\ accepted \subseteq Bodies

\* What the committed rows say of an order, in the terms of OrderBilling.
PhaseOf == [NONE |-> "quoted", FROZEN |-> "frozen", CONFIRMED |-> "confirmed",
            REFUNDED |-> "refunded"]

BillOf(o) ==
  LET t == transaction[o] IN
  IF quote[o] = NoRow THEN [phase |-> "none"]
  ELSE [phase |-> PhaseOf[t.state], user |-> quote[o].user, amount |-> quote[o].amount,
        credit |-> IF t.state = "CONFIRMED" THEN RefundTotal(o) ELSE 0]

Billing == INSTANCE OrderBilling
             WITH balance <- account, bill <- [o \in Orders |-> BillOf(o)]

\* However requests interleave, fail and are retried, the committed tables
\* only ever take the steps of OrderBilling: one price per order, one freeze,
\* then one confirm or one refund, and at most one overbill credit.
ImplementsBilling == Billing!Spec

\* A freeze is paid at the quoted price, from the quoted owner's account and
\* before the quote expires, and it is what consumes the quote.
FreezeHonoursQuote ==
  \A o \in Orders :
    /\ transaction[o] # NoRow <=> quote[o].state = "CONSUMED"
    /\ transaction[o] # NoRow =>
         /\ transaction[o].user = quote[o].user
         /\ transaction[o].amount = quote[o].amount
         /\ transaction[o].frozen_at < quote[o].expires_at

\* The balances an entry moves, given those it found.
After(entry, settled, before) ==
  CASE entry.type = "FREEZE"  -> [available |-> before.available - entry.amount,
                                  frozen |-> before.frozen + entry.amount]
    [] entry.type = "CONFIRM" -> [available |-> before.available,
                                  frozen |-> before.frozen - entry.amount]
    [] entry.type = "REFUND"  -> [available |-> before.available + entry.amount,
                                  frozen |-> IF settled THEN before.frozen
                                             ELSE before.frozen - entry.amount]

\* The ledger replays: every entry carries the balances its predecessor left,
\* moved by its own amount, and the account row is where the last one left it.
\* No concurrent request slips a movement in between unrecorded.
LedgerReplays ==
  \A u \in Users :
    LET n == Len(ledger[u])
        Balances(i) == IF i = 0 THEN [available |-> Opening[u], frozen |-> 0]
                       ELSE [available |-> ledger[u][i].available,
                             frozen |-> ledger[u][i].frozen]
        Settled(i) == \E j \in 1 .. i - 1 : /\ ledger[u][j].order = ledger[u][i].order
                                            /\ ledger[u][j].type = "CONFIRM"
    IN /\ account[u] = Balances(n)
       /\ \A i \in 1 .. n :
            Balances(i) = After(ledger[u][i], Settled(i), Balances(i - 1))

\* What a client was told stays true: an accepted confirm was charged and not
\* given back whole, an accepted refund was given back and never charged, and
\* an overbill credit of the accepted amount is in the ledger.
AcceptedHolds ==
  \A b \in accepted :
    CASE b.op = "quote"    -> quote[b.order] # NoRow /\ quote[b.order].user = b.user
      [] b.op = "freeze"   -> transaction[b.order] # NoRow
      [] b.op = "confirm"  -> transaction[b.order].state = "CONFIRMED"
      [] b.op = "refund"   -> transaction[b.order].state = "REFUNDED"
      [] b.op = "overbill" -> /\ transaction[b.order].state = "CONFIRMED"
                              /\ RefundTotal(b.order) = b.amount

\* The wallet's books: rows of the right shape, a ledger that replays, and
\* entries for what clients were told.
BooksAreSound == TypeOK /\ LedgerReplays /\ AcceptedHolds

Answered(w, answers) == pc[w] \in Stages /\ pc'[w] \in answers

\* Retrying what succeeded never yields a business refusal, whatever key it is
\* sent under, however many retries race, and also after its record has been
\* cleaned up or its quote has expired.  (An overbill credit is refused a second
\* time under a new key, and a freeze whose correlation a confirm replaced may be.)
\* Under its own key, as long as the record is kept, it is not refused at all,
\* even when both copies were under way at once.
RetryAccepted ==
  [][\A w \in Workers :
       /\ Answered(w, {"rejected"}) /\ Body(w) \in accepted =>
            \/ Op(w) = "overbill"
            \/ Op(w) = "freeze" /\ transaction[Order(w)].state = "CONFIRMED"
       /\ Answered(w, {"rejected", "conflict"}) =>
            \/ idempotency[Record(w)] = None
            \/ idempotency[Record(w)].body # Body(w)]_vars

\* A movement of points leaves its request's record behind in the same commit:
\* one key never pays for two bodies.
MovementIsRecorded ==
  [][\A w \in Workers :
       ledger' # ledger /\ Answered(w, {"ok"}) =>
         /\ idempotency[Record(w)] = None
         /\ idempotency'[Record(w)].body = Body(w)]_vars

\* When the cleanup ends, nothing older than its cutoff is left, although
\* requests kept recording their keys between its batches.
CleanupIsComplete ==
  [][cleaner # None /\ cleaner' = None =>
       \A k \in Ops \X Keys :
         \/ idempotency'[k] = None
         \/ idempotency'[k].first_seen_at >= cleaner]_vars

\* Every request received is eventually answered: every operation takes its row
\* locks in one order, so that requests never wait for each other in a circle,
\* and gives them back with its answer.
RequestsAreAnswered ==
  \A w \in Workers : pc[w] \in Stages ~> pc[w] \in Answers
=============================================================================
