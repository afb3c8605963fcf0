---------------------------- MODULE WalletProofs ----------------------------
(***************************************************************************)
(* The books of the wallet are sound, its commits implement OrderBilling   *)
(* and a retry of what succeeded is never refused, for any number of       *)
(* workers, orders, users, keys, bodies, prices and times. The two reports *)
(* over its tables balance, agree and accuse no order.                     *)
(*                                                                         *)
(* The argument is the one the code relies on: what a worker read under    *)
(* its locks is still true when it commits.  Knows(w) says, for each place *)
(* of a request, which locks w holds and what the committed rows therefore *)
(* keep on saying; Apart shows that two workers about to move points work  *)
(* on different orders and accounts.                                       *)
(***************************************************************************)
EXTENDS WalletReports, SumLemmas

Requests == [body : Bodies, key : Keys, now : Nat]
Settling == {"confirm", "refund", "overbill"}

SeenRows == [quote : QuoteRow \union {NoRow}, transaction : TransactionRow \union {NoRow},
             account : Balance \union {None}]

\* What get_refund_ledger_total finds in the entries of an account.
RefundsIn(entries, o) ==
  SumFunction([i \in DOMAIN entries |->
    IF entries[i].order = o /\ entries[i].type = "REFUND" THEN entries[i].amount ELSE 0])

\* A request reaches only the statements of its operation.
OnRoute(w) ==
  /\ pc[w] = "order" => Op(w) \in {"quote", "freeze"}
  /\ pc[w] = "price" => Op(w) = "quote"
  /\ pc[w] = "quote" => Op(w) = "freeze"
  /\ pc[w] = "transaction" => Op(w) \in Settling
  /\ pc[w] = "account" => Op(w) # "quote"
  /\ pc[w] = "existing" => Op(w) # "overbill"

HoldsLocks(w) ==
  /\ pc[w] # "idempotency" => <<"idempotency", Record(w)>> \in held[w]
  /\ Op(w) = "freeze" /\ pc[w] \in {"quote", "account", "commit"} =>
       <<"order", Order(w)>> \in held[w]
  /\ Op(w) \in Settling /\ pc[w] \in {"account", "commit"} =>
       <<"transaction", Order(w)>> \in held[w]
  /\ Op(w) # "quote" /\ pc[w] = "commit" => <<"account", Payer(w)>> \in held[w]

\* A freeze that found nothing against it still has nothing against it.
MayFreeze(w) ==
  LET q == quote[Order(w)] IN
  /\ Body(w).ref = Order(w)
  /\ q # NoRow /\ q.user = Body(w).user
  /\ seen[w].quote = q
  /\ transaction[Order(w)] = NoRow
  /\ req[w].now < q.expires_at

\* A confirm, refund or overbill credit that may be carried out still may.
MaySettle(w) ==
  LET t == transaction[Order(w)] IN
  /\ Body(w).ref = Order(w)
  /\ t # NoRow /\ t.user = Body(w).user
  /\ seen[w].transaction = t
  /\ Op(w) \in {"confirm", "refund"} => t.state = "FROZEN"
  /\ Op(w) = "confirm" => ~Body(w).detail.legacy
  /\ Op(w) = "overbill" => /\ t.state = "CONFIRMED"
                           /\ RefundsIn(ledger[t.user], Order(w)) = 0
                           /\ Body(w).amount <= t.amount

MayQuote(w) ==
  /\ seen[w].quote \in QuoteRow
  /\ seen[w].quote.state = "ACTIVE"
  /\ seen[w].quote.user = Body(w).user /\ seen[w].quote.item = Body(w).detail

\* The rows show that body b was carried out.
Done(b) ==
  LET q == quote[b.order]
      t == transaction[b.order]
  IN /\ b.op = "quote" => q # NoRow /\ q.user = b.user /\ q.item = b.detail
     /\ b.op = "freeze" =>
          /\ b.ref = b.order /\ t # NoRow /\ t.user = b.user
          /\ t.state # "CONFIRMED" => FreezeCorrelationMatches(t.correlation, b.detail)
     /\ b.op = "confirm" =>
          /\ b.ref = b.order /\ t.state = "CONFIRMED" /\ t.user = b.user
          /\ t.correlation = b.detail /\ ~b.detail.legacy
     /\ b.op = "refund" =>
          /\ b.ref = b.order /\ t.state = "REFUNDED" /\ t.user = b.user
          /\ t.refund = b.detail
     /\ b.op = "overbill" =>
          t.state = "CONFIRMED" /\ RefundsIn(ledger[t.user], b.order) = b.amount

\* What holds for a worker at the statement it runs next.
Knows(w) ==
  pc[w] \in Stages =>
    /\ req[w] \in Requests
    /\ OnRoute(w) /\ HoldsLocks(w)
    /\ pc[w] # "idempotency" => idempotency[Record(w)] = None
    /\ Op(w) = "freeze" /\ pc[w] \in {"account", "commit"} => MayFreeze(w)
    /\ Op(w) \in Settling /\ pc[w] \in {"account", "commit"} => MaySettle(w)
    /\ Op(w) # "quote" /\ pc[w] = "commit" => seen[w].account = account[Payer(w)]
    /\ Op(w) = "quote" /\ pc[w] = "commit" => MayQuote(w)
    /\ pc[w] = "existing" => Done(Body(w))

\* FOR UPDATE and the advisory locks exclude each other.
Exclusion == \A v, w \in Workers : v # w => held[v] \cap held[w] = {}

\* An entry belongs to the order's payer, an open order has only its FREEZE
\* entry, and a confirmed one has its CONFIRM entry.
EntryFits(u, e) ==
  /\ transaction[e.order] # NoRow /\ transaction[e.order].user = u
  /\ transaction[e.order].state = "FROZEN" => e.type = "FREEZE"
ConfirmedIn(entries, o) ==
  \E i \in DOMAIN entries : entries[i].order = o /\ entries[i].type = "CONFIRM"
LedgerMatches ==
  /\ \A u \in Users : \A i \in DOMAIN ledger[u] : EntryFits(u, ledger[u][i])
  /\ \A o \in Orders : transaction[o].state = "CONFIRMED" =>
                         ConfirmedIn(ledger[transaction[o].user], o)

\* Every accepted body is still done, and so is every recorded one.
AcceptedDone ==
  /\ \A b \in accepted : Done(b)
  /\ \A k \in Ops \X Keys : idempotency[k] # None => idempotency[k].body \in accepted

\* The ledger of one account replays: LedgerReplays by account.
Left(entries, opening, i) ==
  IF i = 0 THEN [available |-> opening, frozen |-> 0]
           ELSE [available |-> entries[i].available, frozen |-> entries[i].frozen]
SettledBefore(entries, i) ==
  \E j \in 1 .. i - 1 : entries[j].order = entries[i].order /\ entries[j].type = "CONFIRM"
Replays(entries, opening, balance) ==
  /\ balance = Left(entries, opening, Len(entries))
  /\ \A i \in 1 .. Len(entries) :
       Left(entries, opening, i) =
         After(entries[i], SettledBefore(entries, i), Left(entries, opening, i - 1))
Replay == \A u \in Users : Replays(ledger[u], Opening[u], account[u])

Books == FreezeHonoursQuote /\ LedgerMatches /\ Replay

IInv == /\ TypeOK /\ Books /\ AcceptedDone /\ Exclusion
        /\ \A w \in Workers : Knows(w)

-----------------------------------------------------------------------------

\* One more entry adds its amount if it is a refund of the order.
LEMMA RefundsInAppend ==
  ASSUME NEW s \in Seq(Entry), NEW e \in Entry, NEW o
  PROVE  /\ RefundsIn(s, o) \in Nat
         /\ RefundsIn(Append(s, e), o) = RefundsIn(s, o) +
              (IF e.order = o /\ e.type = "REFUND" THEN e.amount ELSE 0)
PROOF
  <1> DEFINE n == Len(s)
             r == Append(s, e)
             Refund(x) == IF x.order = o /\ x.type = "REFUND" THEN x.amount ELSE 0
             f == [i \in 1 .. n |-> Refund(s[i])]
             g == [i \in 1 .. n + 1 |-> Refund(r[i])]
  <1>1. n \in Nat /\ DOMAIN s = 1 .. n /\ DOMAIN r = 1 .. n + 1
    OBVIOUS
  <1>2. \A i \in 1 .. n : r[i] = s[i] /\ s[i] \in Entry
    OBVIOUS
  <1>3. r[n + 1] = e
    OBVIOUS
  <1>4. \A x \in Entry : Refund(x) \in Nat
    BY DEF Entry
  <1>5. RefundsIn(s, o) = SumFunctionOnSet(f, 1 .. n)
    BY <1>1 DEF RefundsIn, SumFunction
  <1>6. RefundsIn(r, o) = SumFunctionOnSet(g, 1 .. n + 1)
    BY <1>1 DEF RefundsIn, SumFunction
  <1> HIDE DEF r, Refund
  <1>7. \A i \in 1 .. n : f[i] \in Nat /\ g[i] = f[i]
    BY <1>1, <1>2, <1>4
  <1>8. g[n + 1] = Refund(e) /\ Refund(e) \in Nat
    BY <1>1, <1>3, <1>4
  <1> HIDE DEF f, g, n
  <1>9. \A i \in 1 .. n + 1 : g[i] \in Nat
    BY <1>1, <1>7, <1>8
  <1>10. IsFiniteSet(1 .. n) /\ IsFiniteSet(1 .. n + 1)
    BY <1>1, FS_Interval
  <1>11. (1 .. n + 1) \ {n + 1} = 1 .. n /\ n + 1 \in 1 .. n + 1
    BY <1>1
  <1>12. SumFunctionOnSet(f, 1 .. n) = UnitCount(f, 1 .. n)
    BY <1>7, <1>10, SumIsUnitCount
  <1>13. SumFunctionOnSet(g, 1 .. n + 1) = g[n + 1] + UnitCount(g, 1 .. n)
    <2>1. SumFunctionOnSet(g, 1 .. n + 1) = UnitCount(g, 1 .. n + 1)
      BY <1>9, <1>10, SumIsUnitCount
    <2>2. UnitCount(g, 1 .. n + 1) = g[n + 1] + UnitCount(g, (1 .. n + 1) \ {n + 1})
      BY <1>9, <1>10, <1>11, UnitCountRemove
    <2> QED BY <1>11, <2>1, <2>2
  <1>14. UnitCount(g, 1 .. n) = UnitCount(f, 1 .. n)
    <2>1. Units(g, 1 .. n) = Units(f, 1 .. n)
      BY <1>7 DEF Units, UnitsOf
    <2> QED BY <2>1 DEF UnitCount
  <1>15. UnitCount(f, 1 .. n) \in Nat
    BY <1>7, <1>10, FiniteUnits, FS_CardinalityType DEF UnitCount
  <1>16. RefundsIn(r, o) = RefundsIn(s, o) + Refund(e)
    BY <1>5, <1>6, <1>8, <1>12, <1>13, <1>14, <1>15
  <1> QED BY <1>5, <1>12, <1>15, <1>16 DEF r, Refund

\* The total of an order without refund entries is zero.
LEMMA NoRefundsIn ==
  ASSUME NEW s \in Seq(Entry), NEW o,
         \A i \in DOMAIN s : s[i].order = o => s[i].type # "REFUND"
  PROVE  RefundsIn(s, o) = 0
PROOF
  <1> DEFINE f == [i \in DOMAIN s |-> IF s[i].order = o /\ s[i].type = "REFUND"
                                      THEN s[i].amount ELSE 0]
  <1>1. \A i \in DOMAIN s : f[i] = 0
    OBVIOUS
  <1>2. DOMAIN f = DOMAIN s
    OBVIOUS
  <1>3. IsFiniteSet(DOMAIN s)
    BY FS_Interval
  <1>4. RefundsIn(s, o) = SumFunctionOnSet(f, DOMAIN s)
    BY <1>2 DEF RefundsIn, SumFunction
  <1> HIDE DEF f
  <1> QED BY <1>1, <1>3, <1>4, SumOfZeroes

-----------------------------------------------------------------------------

\* The parts of a request that is being served are of the declared kinds.
LEMMA Serving ==
  ASSUME TypeOK, NEW w \in Workers, req[w] \in Requests
  PROVE  /\ Body(w) \in Bodies /\ Op(w) \in Ops /\ Order(w) \in Orders
         /\ Body(w).user \in Users /\ Body(w).detail \in Details
         /\ req[w].key \in Keys /\ req[w].now \in Nat /\ Record(w) \in Ops \X Keys
         /\ Op(w) = "quote" => Body(w).detail \in DOMAIN Price
         /\ Op(w) = "overbill" => Body(w).amount \in Nat \ {0}
PROOF
  <1>1. Body(w) \in Bodies /\ req[w].key \in Keys /\ req[w].now \in Nat
    BY DEF Requests, Body
  <1>2. Op(w) \in Ops /\ Order(w) \in Orders /\ Body(w).user \in Users
        /\ (Op(w) = "quote" => Body(w).detail \in DOMAIN Price)
        /\ (Op(w) = "overbill" => Body(w).amount \in Nat \ {0})
    BY <1>1, BodiesAssumption DEF Op, Order
  <1> QED BY <1>1, <1>2 DEF Record, Details

\* Prices are positive.
LEMMA AmountsPositive == Amounts \subseteq Nat \ {0}
PROOF
  BY PriceAssumption DEF Amounts

\* The committed rows of an order and of an account.
LEMMA RowTypes ==
  ASSUME TypeOK, NEW o \in Orders, NEW u \in Users
  PROVE  /\ quote[o] # NoRow => quote[o] \in QuoteRow
         /\ transaction[o] # NoRow => transaction[o] \in TransactionRow
         /\ transaction[o] # NoRow <=> transaction[o].state # "NONE"
         /\ account[u] \in Balance /\ ledger[u] \in Seq(Entry)
PROOF
  BY DEF TypeOK, NoRow, TransactionRow

\* Nobody else's lock, request or reading changes in a step of w.
Alone(w) == \A v \in Workers \ {w} :
              pc'[v] = pc[v] /\ req'[v] = req[v] /\ seen'[v] = seen[v] /\ held'[v] = held[v]

\* A worker that answers is done with its request, and with its locks.
LEMMA AnswerAlone ==
  ASSUME TypeOK, NEW w \in Workers, NEW answer \in Answers, Answer(w, answer)
  PROVE  /\ Alone(w) /\ pc'[w] = answer /\ held'[w] = {}
         /\ req'[w] = NoRequest /\ seen'[w] = NothingSeen
PROOF
  BY DEF TypeOK, Answer, Alone

\* A worker that goes on changes no table and no request.
LEMMA ProceedAlone ==
  ASSUME TypeOK, NEW w \in Workers, NEW stage, NEW rows, Proceed(w, stage, rows),
         held' = held \/ Take(w)
  PROVE  /\ Alone(w) /\ pc'[w] = stage /\ seen'[w] = rows /\ req'[w] = req[w]
         /\ UNCHANGED <<tables, accepted>>
         /\ held' = held => held'[w] = held[w]
         /\ Take(w) => held'[w] = held[w] \union {LockAt(w)}
PROOF
  BY DEF TypeOK, Proceed, Take, Alone

\* The request of a worker that is not touched.
Same(v) == pc'[v] = pc[v] /\ req'[v] = req[v] /\ seen'[v] = seen[v] /\ held'[v] = held[v]

\* Then its parts are the same, too.
LEMMA SameParts ==
  ASSUME NEW v \in Workers, req'[v] = req[v], seen'[v] = seen[v]
  PROVE  /\ Body(v)' = Body(v) /\ Op(v)' = Op(v) /\ Order(v)' = Order(v)
         /\ Record(v)' = Record(v) /\ Payer(v)' = Payer(v)
PROOF
  BY DEF Body, Op, Order, Record, Payer

\* What a worker knows depends on its locks, its order's rows and its payer's
\* account, and on nothing else that other workers write.
LEMMA KnowsFrame ==
  ASSUME NEW v \in Workers, Knows(v), Same(v),
         pc[v] # "idempotency" /\ idempotency[Record(v)] = None => idempotency'[Record(v)] = None,
         pc[v] \in {"account", "commit"} /\ Op(v) # "quote" =>
           /\ quote'[Order(v)] = quote[Order(v)]
           /\ transaction'[Order(v)] = transaction[Order(v)]
           /\ Op(v) = "overbill" => RefundsIn(ledger[transaction[Order(v)].user], Order(v))' =
                                    RefundsIn(ledger[transaction[Order(v)].user], Order(v)),
         pc[v] = "commit" /\ Op(v) # "quote" => account'[Payer(v)] = account[Payer(v)],
         pc[v] = "existing" => Done(Body(v))'
  PROVE  Knows(v)'
PROOF
  <1> SUFFICES ASSUME pc[v] \in Stages PROVE Knows(v)'
    BY DEF Knows, Same
  <1>1. /\ Body(v)' = Body(v) /\ Op(v)' = Op(v) /\ Order(v)' = Order(v)
        /\ Record(v)' = Record(v) /\ Payer(v)' = Payer(v)
    BY SameParts DEF Same
  <1>2. OnRoute(v)' /\ HoldsLocks(v)'
    BY <1>1 DEF Knows, Same, OnRoute, HoldsLocks
  <1>3. req'[v] \in Requests
    BY DEF Knows, Same
  <1>4. ASSUME Op(v) = "freeze", pc[v] \in {"account", "commit"} PROVE MayFreeze(v)'
    BY <1>1, <1>4 DEF Knows, Same, MayFreeze
  <1>5. ASSUME Op(v) \in Settling, pc[v] \in {"account", "commit"} PROVE MaySettle(v)'
    <2>1. transaction'[Order(v)] = transaction[Order(v)]
      BY <1>5 DEF Settling
    <2> QED BY <1>1, <1>5, <2>1 DEF Knows, Same, MaySettle, Settling
  <1>6. ASSUME Op(v) = "quote", pc[v] = "commit" PROVE MayQuote(v)'
    BY <1>1, <1>6 DEF Knows, Same, MayQuote
  <1> QED BY <1>1, <1>2, <1>3, <1>4, <1>5, <1>6 DEF Knows, Same

\* Steps that move no points and quote nothing leave what others know.
LEMMA OthersUndisturbed ==
  ASSUME IInv, NEW v \in Workers, Same(v), UNCHANGED <<account, quote, transaction, ledger>>,
         pc[v] \in Stages \ {"idempotency"} /\ idempotency[Record(v)] = None => idempotency'[Record(v)] = None
  PROVE  Knows(v)'
PROOF
  <1>1. Knows(v)
    BY DEF IInv
  <1>2. \A b : Done(b) => Done(b)'
    BY DEF Done, FreezeCorrelationMatches
  <1>3. CASE pc[v] \in Stages
    BY <1>1, <1>2, <1>3, KnowsFrame, SameParts DEF Knows, Same
  <1> QED BY <1>3 DEF Knows, Same

-----------------------------------------------------------------------------

\* Replay is LedgerReplays.
LEMMA ReplayIsLedgerReplays == Replay <=> LedgerReplays
PROOF
  <1>1. ASSUME NEW u \in Users
        PROVE  Replays(ledger[u], Opening[u], account[u]) <=>
                 LET n == Len(ledger[u])
                     Balances(i) == IF i = 0 THEN [available |-> Opening[u], frozen |-> 0]
                                    ELSE [available |-> ledger[u][i].available,
                                          frozen |-> ledger[u][i].frozen]
                     Paid(i)    == \E j \in 1 .. i - 1 : /\ ledger[u][j].order = ledger[u][i].order
                                                         /\ ledger[u][j].type = "CONFIRM"
                 IN /\ account[u] = Balances(n)
                    /\ \A i \in 1 .. n :
                         Balances(i) = After(ledger[u][i], Paid(i), Balances(i - 1))
    BY Zenon DEF Replays, Left, SettledBefore
  <1> QED BY <1>1, Zenon DEF Replay, LedgerReplays

\* A lock is granted only when nobody holds it, and an answer gives all back.
LEMMA LocksExclude ==
  ASSUME Exclusion, NEW w \in Workers, Alone(w),
         \/ held'[w] = held[w]
         \/ held'[w] = {}
         \/ Free(LockAt(w)) /\ held'[w] = held[w] \union {LockAt(w)}
  PROVE  Exclusion'
PROOF
  <1>1. \A v \in Workers \ {w} : held'[v] = held[v] /\ held'[w] \cap held[v] = {}
    BY DEF Exclusion, Alone, Free
  <1> QED BY <1>1 DEF Exclusion

\* The books are functions of four tables.
LEMMA BooksUnchanged ==
  ASSUME Books, UNCHANGED <<account, quote, transaction, ledger>>
  PROVE  Books'
PROOF
  <1>1. FreezeHonoursQuote'
    BY DEF Books, FreezeHonoursQuote
  <1>2. LedgerMatches'
    BY DEF Books, LedgerMatches, EntryFits
  <1>3. Replay'
    BY DEF Books, Replay
  <1> QED BY <1>1, <1>2, <1>3 DEF Books

\* What is done stays done when those tables do not change.
LEMMA DoneUnchanged ==
  ASSUME NEW b, Done(b), UNCHANGED <<account, quote, transaction, ledger>>
  PROVE  Done(b)'
PROOF
  BY DEF Done, FreezeCorrelationMatches

\* A step of w that writes none of them is right if it is right for w itself.
LEMMA QuietStep ==
  ASSUME IInv, NEW w \in Workers, Alone(w), UNCHANGED <<account, quote, transaction, ledger>>,
         \A v \in Workers \ {w} :
           pc[v] \in Stages \ {"idempotency"} /\ idempotency[Record(v)] = None =>
             idempotency'[Record(v)] = None,
         TypeOK', Exclusion', AcceptedDone', Knows(w)'
  PROVE  IInv'
PROOF
  <1>1. ASSUME NEW v \in Workers \ {w} PROVE Knows(v)'
    BY OthersUndisturbed DEF Alone, Same
  <1>2. Books'
    BY BooksUnchanged DEF IInv
  <1> QED BY <1>1, <1>2 DEF IInv

\* An answer without a write: a refusal, a failure, or a success repeated.
LEMMA AnswerNoWriteInv ==
  ASSUME IInv, NEW w \in Workers, NEW answer \in Answers,
         answer = "ok" => Body(w) \in accepted,
         AnswerNoWrite(w, answer), UNCHANGED <<clock, cleaner>>
  PROVE  IInv'
PROOF
  <1>1. TypeOK /\ Exclusion /\ AcceptedDone
    BY DEF IInv
  <1>2. /\ Alone(w) /\ pc'[w] = answer /\ held'[w] = {} /\ UNCHANGED tables
        /\ accepted' = accepted
    <2>1. accepted' = accepted
      BY DEF AnswerNoWrite, Answer
    <2> QED BY <1>1, <2>1, AnswerAlone DEF AnswerNoWrite
  <1>3. UNCHANGED <<account, quote, transaction, ledger, idempotency>>
    BY <1>2 DEF tables
  <1>4. TypeOK'
    <2>1. /\ pc' = [pc EXCEPT ![w] = answer] /\ req' = [req EXCEPT ![w] = NoRequest]
          /\ seen' = [seen EXCEPT ![w] = NothingSeen] /\ held' = [held EXCEPT ![w] = {}]
      BY DEF AnswerNoWrite, Answer
    <2> QED BY <1>1, <1>2, <1>3, <2>1 DEF TypeOK, NothingSeen, Idle
  <1>5. Exclusion'
    BY <1>1, <1>2, LocksExclude
  <1>6. AcceptedDone'
    BY <1>1, <1>2, <1>3, DoneUnchanged DEF AcceptedDone
  <1>7. Knows(w)'
    BY <1>2 DEF Knows, Answers, Stages
  <1> QED BY <1>2, <1>3, <1>4, <1>5, <1>6, <1>7, QuietStep

\* A request goes on without a write, and knows enough for its next statement.
LEMMA ProceedInv ==
  ASSUME IInv, NEW w \in Workers, NEW stage \in Stages, NEW rows \in SeenRows,
         Proceed(w, stage, rows), UNCHANGED <<clock, cleaner>>,
         held' = held \/ (Take(w) /\ LockAt(w) \in Locks),
         Knows(w)'
  PROVE  IInv'
PROOF
  <1>1. TypeOK /\ Exclusion /\ AcceptedDone
    BY DEF IInv
  <1>2. /\ Alone(w) /\ UNCHANGED <<tables, accepted>>
        /\ (held' = held => held'[w] = held[w])
        /\ (Take(w) => held'[w] = held[w] \union {LockAt(w)})
    BY <1>1, ProceedAlone
  <1>3. UNCHANGED <<account, quote, transaction, ledger, idempotency, accepted>>
    BY <1>2 DEF tables
  <1>4. TypeOK'
    <2>1. pc' = [pc EXCEPT ![w] = stage] /\ seen' = [seen EXCEPT ![w] = rows] /\ req' = req
      BY DEF Proceed
    <2>2. held' \in [Workers -> SUBSET Locks]
      BY <1>1 DEF TypeOK, Take
    <2> QED BY <1>1, <1>3, <2>1, <2>2 DEF TypeOK, SeenRows
  <1>5. Exclusion'
    BY <1>1, <1>2, LocksExclude DEF Take
  <1>6. AcceptedDone'
    BY <1>1, <1>3, DoneUnchanged DEF AcceptedDone
  <1> QED BY <1>2, <1>3, <1>4, <1>5, <1>6, QuietStep

-----------------------------------------------------------------------------

\* The facts every step of a request in service starts from.
LEMMA InService ==
  ASSUME IInv, NEW w \in Workers, pc[w] \in Stages
  PROVE  /\ TypeOK /\ Exclusion /\ AcceptedDone /\ FreezeHonoursQuote /\ LedgerMatches
         /\ req[w] \in Requests /\ OnRoute(w) /\ HoldsLocks(w)
         /\ seen[w] \in SeenRows
         /\ pc[w] # "idempotency" => idempotency[Record(w)] = None
PROOF
  BY DEF IInv, Books, Knows, TypeOK, SeenRows

\* A request is received: nothing is known of it yet.
LEMMA ReceiveInv ==
  ASSUME IInv, NEW w \in Workers, Receive(w), UNCHANGED <<clock, cleaner>>
  PROVE  IInv'
PROOF
  <1>1. TypeOK /\ Exclusion /\ AcceptedDone
    BY DEF IInv
  <1>2. PICK body \in Bodies, key \in Keys :
          req' = [req EXCEPT ![w] = [body |-> body, key |-> key, now |-> clock]]
    BY DEF Receive
  <1>3. /\ pc' = [pc EXCEPT ![w] = "idempotency"]
        /\ UNCHANGED <<account, quote, transaction, ledger, idempotency, seen, held, accepted>>
    BY DEF Receive, tables
  <1>4. [body |-> body, key |-> key, now |-> clock] \in Requests
    BY <1>1 DEF TypeOK, Requests
  <1>5. TypeOK'
    BY <1>1, <1>2, <1>3, <1>4 DEF TypeOK, Requests, Stages
  <1>6. Alone(w) /\ pc'[w] = "idempotency" /\ req'[w] \in Requests /\ held'[w] = held[w]
    BY <1>1, <1>2, <1>3, <1>4 DEF TypeOK, Alone
  <1>7. Exclusion'
    BY <1>1, <1>3 DEF Exclusion
  <1>8. AcceptedDone'
    BY <1>1, <1>3, DoneUnchanged DEF AcceptedDone
  <1>9. Knows(w)'
    BY <1>6 DEF Knows, OnRoute, HoldsLocks
  <1> QED BY <1>3, <1>5, <1>6, <1>7, <1>8, <1>9, QuietStep

\* The parts of a request do not depend on what has been read for it.
LEMMA SameRequest ==
  ASSUME NEW w \in Workers, req'[w] = req[w]
  PROVE  Body(w)' = Body(w) /\ Op(w)' = Op(w) /\ Order(w)' = Order(w) /\ Record(w)' = Record(w)
PROOF
  BY DEF Body, Op, Order, Record

\* The idempotency look-up, without and with the lock of the order.
LEMMA LockIdempotencyInv ==
  ASSUME IInv, NEW w \in Workers, LockIdempotency(w), UNCHANGED <<clock, cleaner>>
  PROVE  IInv'
PROOF
  <1> DEFINE stage == IF Op(w) \in {"quote", "freeze"} THEN "order" ELSE "transaction"
             record == idempotency[Record(w)]
  <1>1. pc[w] = "idempotency" /\ pc[w] \in Stages
    BY DEF LockIdempotency, Stages
  <1>2. /\ TypeOK /\ Exclusion /\ AcceptedDone /\ req[w] \in Requests /\ seen[w] \in SeenRows
        /\ OnRoute(w) /\ HoldsLocks(w)
    BY <1>1, InService
  <1>3. Op(w) \in Ops /\ Record(w) \in Ops \X Keys
    BY <1>2, Serving
  <1>4. CASE record = None /\ Take(w) /\ Proceed(w, stage, seen[w])
    <2>1. LockAt(w) = <<"idempotency", Record(w)>>
      BY <1>1 DEF LockAt
    <2>2. LockAt(w) \in Locks
      BY <1>3, <2>1 DEF Locks
    <2>3. stage \in Stages \ {"idempotency"} /\ stage \in {"order", "transaction"}
      BY DEF Stages
    <2>4. /\ pc'[w] = stage /\ req'[w] = req[w] /\ UNCHANGED tables
          /\ held'[w] = held[w] \union {LockAt(w)}
      BY <1>2, <1>4, ProceedAlone
    <2>5. Body(w)' = Body(w) /\ Op(w)' = Op(w) /\ Record(w)' = Record(w)
      BY <2>4, SameRequest
    <2>6. OnRoute(w)'
      BY <1>3, <2>4, <2>5 DEF OnRoute, Settling, Ops
    <2>7. HoldsLocks(w)'
      BY <2>1, <2>3, <2>4, <2>5 DEF HoldsLocks
    <2>8. Knows(w)'
      BY <1>2, <1>4, <2>3, <2>4, <2>5, <2>6, <2>7 DEF Knows, tables
    <2> QED BY <1>2, <1>4, <2>2, <2>3, <2>8, ProceedInv
  <1>5. CASE record # None /\ AnswerNoWrite(w, IF record.body = Body(w) THEN "ok" ELSE "conflict")
    <2>1. record.body \in accepted
      BY <1>2, <1>3, <1>5 DEF AcceptedDone
    <2>2. (IF record.body = Body(w) THEN "ok" ELSE "conflict") \in Answers
      BY DEF Answers
    <2> QED BY <1>5, <2>1, <2>2, AnswerNoWriteInv
  <1> QED BY <1>4, <1>5 DEF LockIdempotency, CheckIdempotency

\* The second look finds nothing: only the holder of its lock records the key.
LEMMA LockOrderInv ==
  ASSUME IInv, NEW w \in Workers, LockOrder(w), UNCHANGED <<clock, cleaner>>
  PROVE  IInv'
PROOF
  <1> DEFINE stage == IF Op(w) = "quote" THEN "price" ELSE "quote"
  <1>1. pc[w] = "order" /\ pc[w] \in Stages
    BY DEF LockOrder, Stages
  <1>2. /\ TypeOK /\ Exclusion /\ AcceptedDone /\ req[w] \in Requests /\ seen[w] \in SeenRows
        /\ OnRoute(w) /\ HoldsLocks(w) /\ idempotency[Record(w)] = None
    BY <1>1, InService
  <1>3. Op(w) \in Ops /\ Record(w) \in Ops \X Keys /\ Order(w) \in Orders
    BY <1>2, Serving
  <1>4. Take(w) /\ Proceed(w, stage, seen[w])
    BY <1>2 DEF LockOrder, CheckIdempotency
  <1>5. LockAt(w) = <<"order", Order(w)>>
    BY <1>1 DEF LockAt
  <1>6. LockAt(w) \in Locks
    BY <1>3, <1>5 DEF Locks
  <1>7. stage \in Stages \ {"idempotency"} /\ stage \in {"price", "quote"}
    BY DEF Stages
  <1>8. /\ pc'[w] = stage /\ req'[w] = req[w] /\ UNCHANGED tables
        /\ held'[w] = held[w] \union {LockAt(w)}
    BY <1>2, <1>4, ProceedAlone
  <1>9. Body(w)' = Body(w) /\ Op(w)' = Op(w) /\ Record(w)' = Record(w) /\ Order(w)' = Order(w)
    BY <1>8, SameRequest
  <1>10. OnRoute(w)'
    BY <1>1, <1>2, <1>8, <1>9 DEF OnRoute
  <1>11. HoldsLocks(w)'
    BY <1>1, <1>2, <1>5, <1>7, <1>8, <1>9 DEF HoldsLocks
  <1>12. Knows(w)'
    BY <1>2, <1>7, <1>8, <1>9, <1>10, <1>11 DEF Knows, tables
  <1> QED BY <1>2, <1>4, <1>6, <1>7, <1>12, ProceedInv

\* A new quote is priced with the owner and item of its request; an existing
\* one is the request's own.
LEMMA PriceQuoteInv ==
  ASSUME IInv, NEW w \in Workers, PriceQuote(w), UNCHANGED <<clock, cleaner>>
  PROVE  IInv'
PROOF
  <1> DEFINE old == quote[Order(w)]
  <1>1. pc[w] = "price" /\ pc[w] \in Stages
    BY DEF PriceQuote, Stages
  <1>2. /\ TypeOK /\ req[w] \in Requests /\ seen[w] \in SeenRows
        /\ OnRoute(w) /\ HoldsLocks(w) /\ idempotency[Record(w)] = None
    BY <1>1, InService
  <1>3. /\ Order(w) \in Orders /\ Body(w).user \in Users /\ req[w].now \in Nat
        /\ Op(w) = "quote" /\ Body(w).detail \in DOMAIN Price
    BY <1>1, <1>2, Serving DEF OnRoute
  <1>4. ASSUME NEW rows, NEW stage \in {"commit", "existing"}, Proceed(w, stage, rows), held' = held
        PROVE  /\ pc'[w] = stage /\ seen'[w] = rows /\ req'[w] = req[w] /\ UNCHANGED tables
               /\ OnRoute(w)' /\ HoldsLocks(w)' /\ Body(w)' = Body(w) /\ Op(w)' = "quote"
               /\ Record(w)' = Record(w) /\ Order(w)' = Order(w)
    <2>1. /\ pc'[w] = stage /\ seen'[w] = rows /\ req'[w] = req[w] /\ UNCHANGED tables
          /\ held'[w] = held[w]
      BY <1>2, <1>4, ProceedAlone
    <2>2. Body(w)' = Body(w) /\ Op(w)' = "quote" /\ Record(w)' = Record(w) /\ Order(w)' = Order(w)
      BY <1>3, <2>1, SameRequest
    <2> QED BY <1>1, <1>2, <2>1, <2>2 DEF OnRoute, HoldsLocks, Settling
  <1>7. "commit" \in Stages /\ "existing" \in Stages
    BY DEF Stages
  <1>5. CASE old = NoRow /\ \E amount \in Price[Body(w).detail] :
               Proceed(w, "commit",
                 [seen[w] EXCEPT !.quote =
                    [state |-> "ACTIVE", user |-> Body(w).user, item |-> Body(w).detail,
                     amount |-> amount, expires_at |-> req[w].now + QuoteTTL]])
    <2>1. PICK amount \in Price[Body(w).detail] :
            Proceed(w, "commit",
              [seen[w] EXCEPT !.quote =
                 [state |-> "ACTIVE", user |-> Body(w).user, item |-> Body(w).detail,
                  amount |-> amount, expires_at |-> req[w].now + QuoteTTL]])
      BY <1>5
    <2> DEFINE q == [state |-> "ACTIVE", user |-> Body(w).user, item |-> Body(w).detail,
                     amount |-> amount, expires_at |-> req[w].now + QuoteTTL]
               rows == [seen[w] EXCEPT !.quote = q]
    <2>2. amount \in Amounts
      BY <1>3, <2>1 DEF Amounts
    <2>3. req[w].now + QuoteTTL \in Nat
      BY <1>3, TimesAssumption
    <2>4. /\ q \in QuoteRow /\ q.state = "ACTIVE" /\ q.user = Body(w).user
          /\ q.item = Body(w).detail
      BY <1>3, <2>2, <2>3 DEF QuoteRow
    <2>5. Proceed(w, "commit", rows)
      BY <2>1
    <2> HIDE DEF q
    <2>6. rows \in SeenRows /\ rows.quote = q
      BY <1>2, <2>4 DEF SeenRows
    <2> HIDE DEF rows
    <2>7. held' = held
      BY DEF PriceQuote
    <2>8. /\ pc'[w] = "commit" /\ seen'[w] = rows /\ req'[w] = req[w] /\ UNCHANGED tables
          /\ OnRoute(w)' /\ HoldsLocks(w)' /\ Body(w)' = Body(w) /\ Op(w)' = "quote"
          /\ Record(w)' = Record(w)
      BY <1>4, <2>5, <2>7
    <2>9. MayQuote(w)'
      BY <2>4, <2>6, <2>8 DEF MayQuote
    <2>10. Knows(w)'
      BY <1>2, <2>8, <2>9 DEF Knows, Settling, tables
    <2>11. held' = held \/ (Take(w) /\ LockAt(w) \in Locks)
      BY <2>7
    <2> QED BY <1>7, <2>5, <2>6, <2>11, <2>10, ProceedInv
  <1>6. CASE /\ old # NoRow /\ old.user = Body(w).user /\ old.item = Body(w).detail
             /\ Proceed(w, "existing", seen[w])
    <2>1. held' = held
      BY DEF PriceQuote
    <2>2. /\ pc'[w] = "existing" /\ req'[w] = req[w] /\ UNCHANGED tables
          /\ OnRoute(w)' /\ HoldsLocks(w)' /\ Body(w)' = Body(w) /\ Op(w)' = "quote"
          /\ Record(w)' = Record(w) /\ Order(w)' = Order(w)
      BY <1>4, <1>6, <2>1
    <2>3. Done(Body(w))'
      BY <1>3, <1>6, <2>2 DEF Done, Op, Order, tables
    <2>4. Knows(w)'
      BY <1>2, <2>2, <2>3 DEF Knows, Settling, tables
    <2>5. held' = held \/ (Take(w) /\ LockAt(w) \in Locks)
      BY <2>1
    <2> QED BY <1>2, <1>6, <1>7, <2>5, <2>4, ProceedInv
  <1> QED BY <1>5, <1>6 DEF PriceQuote

\* Refusals and failures write nothing.
LEMMA RefusalInv ==
  ASSUME IInv, NEW w \in Workers, RefuseQuote(w) \/ Abort(w), UNCHANGED <<clock, cleaner>>
  PROVE  IInv'
PROOF
  <1>1. PICK answer \in {"rejected", "failed"} : AnswerNoWrite(w, answer)
    BY DEF RefuseQuote, Abort
  <1>2. answer \in Answers /\ answer # "ok"
    BY DEF Answers
  <1> QED BY <1>1, <1>2, AnswerNoWriteInv

\* freeze has read its quote under the quote's lock and its transaction under
\* the lock of the order.
LEMMA LockQuoteInv ==
  ASSUME IInv, NEW w \in Workers, LockQuote(w), UNCHANGED <<clock, cleaner>>
  PROVE  IInv'
PROOF
  <1> DEFINE q == quote[Order(w)]
             t == transaction[Order(w)]
             verdict == FreezeVerdict(w)
             rows == [seen[w] EXCEPT !.quote = q]
  <1>1. pc[w] = "quote" /\ pc[w] \in Stages
    BY DEF LockQuote, Stages
  <1>2. /\ TypeOK /\ req[w] \in Requests /\ seen[w] \in SeenRows /\ FreezeHonoursQuote
        /\ OnRoute(w) /\ HoldsLocks(w) /\ idempotency[Record(w)] = None
    BY <1>1, InService
  <1>3. Order(w) \in Orders /\ Op(w) = "freeze"
    BY <1>1, <1>2, Serving DEF OnRoute
  <1>4. q \in QuoteRow \union {NoRow}
    BY <1>2, <1>3 DEF TypeOK
  <1>5. rows \in SeenRows /\ rows.quote = q
    BY <1>2, <1>4 DEF SeenRows
  <1>6. CASE verdict = "rejected" /\ AnswerNoWrite(w, "rejected")
    BY <1>6, AnswerNoWriteInv DEF Answers
  <1>7. CASE verdict # "rejected" /\ Take(w) /\ Proceed(w, verdict, rows)
    <2>1. /\ Body(w).ref = Order(w) /\ q # NoRow /\ q.user = Body(w).user
          /\ \/ /\ verdict = "existing" /\ t # NoRow /\ t.user = Body(w).user
                /\ FreezeCorrelationMatches(t.correlation, Body(w).detail)
             \/ /\ verdict = "account" /\ ~(t # NoRow /\ t.user = Body(w).user)
                /\ ~(q.expires_at <= req[w].now)
      BY <1>7 DEF FreezeVerdict, Owns
    <2>2. LockAt(w) = <<"quote", Order(w)>>
      BY <1>1, <2>1 DEF LockAt
    <2>3. LockAt(w) \in Locks
      BY <1>3, <2>2 DEF Locks
    <2> HIDE DEF verdict, rows
    <2>4. /\ pc'[w] = verdict /\ seen'[w] = rows /\ req'[w] = req[w] /\ UNCHANGED tables
          /\ held'[w] = held[w] \union {LockAt(w)}
      BY <1>2, <1>7, ProceedAlone
    <2>5. Body(w)' = Body(w) /\ Op(w)' = "freeze" /\ Record(w)' = Record(w) /\ Order(w)' = Order(w)
      BY <1>3, <2>4, SameRequest
    <2>6. verdict \in {"existing", "account"}
      BY <2>1
    <2>7. OnRoute(w)' /\ HoldsLocks(w)'
      BY <1>1, <1>2, <1>3, <2>4, <2>5, <2>6 DEF OnRoute, HoldsLocks, Settling
    <2>8. ASSUME verdict = "existing" PROVE Done(Body(w))'
      BY <1>3, <2>1, <2>4, <2>5, <2>8 DEF Done, Op, Order, tables
    <2>9. ASSUME verdict = "account" PROVE MayFreeze(w)'
      <3>1. t = NoRow
        BY <1>2, <1>3, <2>1, <2>9 DEF FreezeHonoursQuote
      <3>2. q.expires_at \in Nat /\ req[w].now \in Nat
        BY <1>2, <1>4, <2>1, Serving DEF QuoteRow
      <3>3. req[w].now < q.expires_at
        BY <2>1, <2>9, <3>2
      <3> QED BY <1>5, <2>1, <2>4, <2>5, <3>1, <3>3 DEF MayFreeze, tables
    <2>10. Knows(w)'
      BY <1>2, <2>4, <2>5, <2>6, <2>7, <2>8, <2>9 DEF Knows, Settling, tables
    <2>11. verdict \in Stages
      BY <2>6 DEF Stages
    <2>12. held' = held \/ (Take(w) /\ LockAt(w) \in Locks)
      BY <1>7, <2>3
    <2> QED BY <1>5, <1>7, <2>10, <2>11, <2>12, ProceedInv
  <1> HIDE DEF verdict, rows
  <1>8. \/ verdict = "rejected" /\ AnswerNoWrite(w, "rejected")
        \/ verdict # "rejected" /\ Take(w) /\ Proceed(w, verdict, rows)
    BY DEF LockQuote, LockRow, verdict, rows
  <1> QED BY <1>6, <1>7, <1>8

\* What the verdict on a settlement says of the transaction it read.
LEMMA SettleVerdictMeans ==
  ASSUME TypeOK, NEW w \in Workers, req[w] \in Requests, Op(w) \in Settling,
         SettleVerdict(w) # "rejected"
  PROVE  LET t == transaction[Order(w)] IN
         /\ Body(w).ref = Order(w) /\ t # NoRow /\ t.user = Body(w).user
         /\ \/ /\ SettleVerdict(w) = "existing"
               /\ \/ /\ Op(w) = "confirm" /\ t.state = "CONFIRMED" /\ ~Body(w).detail.legacy
                     /\ t.correlation = Body(w).detail
                  \/ Op(w) = "refund" /\ t.state = "REFUNDED" /\ t.refund = Body(w).detail
            \/ /\ SettleVerdict(w) = "account"
               /\ \/ Op(w) = "confirm" /\ t.state = "FROZEN" /\ ~Body(w).detail.legacy
                  \/ Op(w) = "refund" /\ t.state = "FROZEN"
                  \/ /\ Op(w) = "overbill" /\ t.state = "CONFIRMED"
                     /\ RefundsIn(ledger[t.user], Order(w)) = 0 /\ Body(w).amount <= t.amount
PROOF
  <1> DEFINE t == transaction[Order(w)]
  <1>1. Owns(w, transaction)
    BY DEF SettleVerdict
  <1>2. Body(w).ref = Order(w) /\ t # NoRow /\ t.user = Body(w).user
    BY <1>1 DEF Owns
  <1>3. t.state \in {"FROZEN", "CONFIRMED", "REFUNDED"}
    <2>1. Order(w) \in Orders
      BY Serving
    <2>2. t \in TransactionRow
      BY <1>2, <2>1 DEF TypeOK
    <2> QED BY <2>2 DEF TransactionRow
  <1>4. CASE Op(w) = "confirm"
    <2>1. SettleVerdict(w) = ConfirmVerdict(w)
      BY <1>1, <1>4 DEF SettleVerdict
    <2>2. t.state # "REFUNDED" /\ ~Body(w).detail.legacy
      BY <1>3, <2>1 DEF ConfirmVerdict
    <2>3. CASE t.state = "CONFIRMED"
      BY <1>2, <1>4, <2>1, <2>2, <2>3 DEF ConfirmVerdict
    <2>4. CASE t.state = "FROZEN"
      BY <1>2, <1>4, <2>1, <2>2, <2>4 DEF ConfirmVerdict
    <2> QED BY <1>3, <2>2, <2>3, <2>4
  <1>5. CASE Op(w) = "refund"
    <2>1. SettleVerdict(w) = RefundVerdict(w)
      BY <1>1, <1>5 DEF SettleVerdict
    <2>2. CASE t.state = "REFUNDED"
      BY <1>2, <1>5, <2>1, <2>2 DEF RefundVerdict
    <2>3. CASE t.state = "FROZEN"
      BY <1>2, <1>5, <2>1, <2>3 DEF RefundVerdict
    <2>4. t.state # "CONFIRMED"
      BY <2>1 DEF RefundVerdict
    <2> QED BY <1>3, <2>2, <2>3, <2>4
  <1>6. CASE Op(w) = "overbill"
    <2>1. SettleVerdict(w) = OverbillVerdict(w)
      BY <1>1, <1>6 DEF SettleVerdict
    <2>2. RefundTotal(Order(w)) = RefundsIn(ledger[t.user], Order(w))
      BY DEF RefundTotal, RefundsIn
    <2> QED BY <1>2, <1>6, <2>1, <2>2 DEF OverbillVerdict
  <1> QED BY <1>4, <1>5, <1>6 DEF Settling

\* confirm, refund and overbill have read their transaction FOR UPDATE.
LEMMA LockTransactionInv ==
  ASSUME IInv, NEW w \in Workers, LockTransaction(w), UNCHANGED <<clock, cleaner>>
  PROVE  IInv'
PROOF
  <1> DEFINE t == transaction[Order(w)]
             verdict == SettleVerdict(w)
             rows == [seen[w] EXCEPT !.transaction = t]
  <1>1. pc[w] = "transaction" /\ pc[w] \in Stages
    BY DEF LockTransaction, Stages
  <1>2. /\ TypeOK /\ req[w] \in Requests /\ seen[w] \in SeenRows
        /\ OnRoute(w) /\ HoldsLocks(w) /\ idempotency[Record(w)] = None
    BY <1>1, InService
  <1>3. Order(w) \in Orders /\ Op(w) \in Settling
    BY <1>1, <1>2, Serving DEF OnRoute
  <1>4. t \in TransactionRow \union {NoRow}
    BY <1>2, <1>3 DEF TypeOK
  <1>5. rows \in SeenRows /\ rows.transaction = t
    BY <1>2, <1>4 DEF SeenRows
  <1>6. CASE verdict = "rejected" /\ AnswerNoWrite(w, "rejected")
    BY <1>6, AnswerNoWriteInv DEF Answers
  <1>7. CASE verdict # "rejected" /\ Take(w) /\ Proceed(w, verdict, rows)
    <2>1. /\ Body(w).ref = Order(w) /\ t # NoRow /\ t.user = Body(w).user
          /\ \/ /\ verdict = "existing"
                /\ \/ /\ Op(w) = "confirm" /\ t.state = "CONFIRMED" /\ ~Body(w).detail.legacy
                      /\ t.correlation = Body(w).detail
                   \/ Op(w) = "refund" /\ t.state = "REFUNDED" /\ t.refund = Body(w).detail
             \/ /\ verdict = "account"
                /\ \/ Op(w) = "confirm" /\ t.state = "FROZEN" /\ ~Body(w).detail.legacy
                   \/ Op(w) = "refund" /\ t.state = "FROZEN"
                   \/ /\ Op(w) = "overbill" /\ t.state = "CONFIRMED"
                      /\ RefundsIn(ledger[t.user], Order(w)) = 0 /\ Body(w).amount <= t.amount
      BY <1>2, <1>3, <1>7, SettleVerdictMeans
    <2>2. LockAt(w) = <<"transaction", Order(w)>>
      BY <1>1, <2>1 DEF LockAt
    <2>3. LockAt(w) \in Locks
      BY <1>3, <2>2 DEF Locks
    <2> HIDE DEF verdict, rows
    <2>4. /\ pc'[w] = verdict /\ seen'[w] = rows /\ req'[w] = req[w] /\ UNCHANGED tables
          /\ held'[w] = held[w] \union {LockAt(w)}
      BY <1>2, <1>7, ProceedAlone
    <2>5. Body(w)' = Body(w) /\ Op(w)' = Op(w) /\ Record(w)' = Record(w) /\ Order(w)' = Order(w)
      BY <1>3, <2>4, SameRequest
    <2>6. verdict \in {"existing", "account"}
      BY <2>1
    <2>7. OnRoute(w)' /\ HoldsLocks(w)'
      BY <1>1, <1>2, <1>3, <2>1, <2>2, <2>4, <2>5, <2>6 DEF OnRoute, HoldsLocks, Settling
    <2>8. ASSUME verdict = "existing" PROVE Done(Body(w))'
      BY <1>3, <2>1, <2>4, <2>5, <2>8 DEF Done, Op, Order, tables
    <2>9. ASSUME verdict = "account" PROVE MaySettle(w)'
      BY <1>5, <2>1, <2>4, <2>5, <2>9 DEF MaySettle, tables
    <2>10. Knows(w)'
      BY <1>2, <1>3, <2>4, <2>5, <2>6, <2>7, <2>8, <2>9 DEF Knows, Settling, tables
    <2>11. verdict \in Stages
      BY <2>6 DEF Stages
    <2>12. held' = held \/ (Take(w) /\ LockAt(w) \in Locks)
      BY <1>7, <2>3
    <2> QED BY <1>5, <1>7, <2>10, <2>11, <2>12, ProceedInv
  <1> HIDE DEF verdict, rows
  <1>8. \/ verdict = "rejected" /\ AnswerNoWrite(w, "rejected")
        \/ verdict # "rejected" /\ Take(w) /\ Proceed(w, verdict, rows)
    BY DEF LockTransaction, LockRow, verdict, rows
  <1> QED BY <1>6, <1>7, <1>8

\* The payer is a user, and the owner of the request.
LEMMA PayerOwns ==
  ASSUME IInv, NEW w \in Workers, pc[w] \in {"account", "commit"}, Op(w) # "quote"
  PROVE  Payer(w) \in Users /\ Payer(w) = Body(w).user
PROOF
  <1>1. /\ TypeOK /\ req[w] \in Requests
        /\ Op(w) = "freeze" => MayFreeze(w)
        /\ Op(w) \in Settling => MaySettle(w)
    BY DEF IInv, Knows, Stages
  <1>2. Op(w) \in Ops /\ Body(w).user \in Users
    BY <1>1, Serving
  <1>3. CASE Op(w) = "freeze"
    BY <1>1, <1>2, <1>3 DEF MayFreeze, Payer
  <1>4. CASE Op(w) \in Settling
    BY <1>1, <1>2, <1>4 DEF MaySettle, Payer, Settling
  <1> QED BY <1>2, <1>3, <1>4 DEF Ops, Settling

\* The account is read FOR UPDATE, after all other rows.
LEMMA LockAccountInv ==
  ASSUME IInv, NEW w \in Workers, LockAccount(w), UNCHANGED <<clock, cleaner>>
  PROVE  IInv'
PROOF
  <1> DEFINE a == account[Payer(w)]
             rows == [seen[w] EXCEPT !.account = a]
  <1>1. pc[w] = "account" /\ pc[w] \in Stages
    BY DEF LockAccount, Stages
  <1>2. /\ TypeOK /\ req[w] \in Requests /\ seen[w] \in SeenRows
        /\ OnRoute(w) /\ HoldsLocks(w) /\ idempotency[Record(w)] = None
    BY <1>1, InService
  <1>3. /\ Order(w) \in Orders /\ Op(w) # "quote" /\ Op(w) \in Ops
        /\ Op(w) = "freeze" => MayFreeze(w)
        /\ Op(w) \in Settling => MaySettle(w)
    BY <1>1, <1>2, Serving DEF OnRoute, IInv, Knows
  <1>4. Payer(w) \in Users
    BY <1>1, <1>3, PayerOwns
  <1>5. a \in Balance
    BY <1>2, <1>4 DEF TypeOK
  <1>6. /\ rows \in SeenRows /\ rows.account = a
        /\ rows.quote = seen[w].quote /\ rows.transaction = seen[w].transaction
    BY <1>2, <1>5 DEF SeenRows
  <1>7. CASE AnswerNoWrite(w, "rejected")
    BY <1>7, AnswerNoWriteInv DEF Answers
  <1>8. CASE Take(w) /\ Proceed(w, "commit", rows)
    <2>1. LockAt(w) = <<"account", Payer(w)>>
      BY <1>1 DEF LockAt
    <2>2. LockAt(w) \in Locks
      BY <1>4, <2>1 DEF Locks
    <2> HIDE DEF rows
    <2>3. /\ pc'[w] = "commit" /\ seen'[w] = rows /\ req'[w] = req[w] /\ UNCHANGED tables
          /\ held'[w] = held[w] \union {LockAt(w)}
      BY <1>2, <1>8, ProceedAlone
    <2>4. /\ Body(w)' = Body(w) /\ Op(w)' = Op(w) /\ Record(w)' = Record(w)
          /\ Order(w)' = Order(w)
      BY <2>3, SameRequest
    <2>5. Payer(w)' = Payer(w)
      BY <1>6, <2>3, <2>4 DEF Payer
    <2>6. OnRoute(w)'
      BY <2>3 DEF OnRoute
    <2>7. HoldsLocks(w)'
      BY <1>1, <1>2, <2>1, <2>3, <2>4, <2>5 DEF HoldsLocks
    <2>8. Op(w) = "freeze" => MayFreeze(w)'
      BY <1>3, <1>6, <2>3, <2>4 DEF MayFreeze, tables
    <2>9. Op(w) \in Settling => MaySettle(w)'
      BY <1>3, <1>6, <2>3, <2>4 DEF MaySettle, tables
    <2>10. seen'[w].account = account'[Payer(w)']
      BY <1>6, <2>3, <2>5 DEF tables
    <2>11. idempotency'[Record(w)'] = None
      BY <1>2, <2>3, <2>4 DEF tables
    <2>12. Knows(w)'
      BY <1>2, <1>3, <2>3, <2>4, <2>6, <2>7, <2>8, <2>9, <2>10, <2>11 DEF Knows
    <2>13. held' = held \/ (Take(w) /\ LockAt(w) \in Locks)
      BY <1>8, <2>2
    <2>14. "commit" \in Stages
      BY DEF Stages
    <2> QED BY <1>6, <1>8, <2>12, <2>13, <2>14, ProceedInv
  <1> QED BY <1>7, <1>8 DEF LockAccount

\* Time, and a cleanup that only removes records, leave the books alone.
LEMMA HousekeepingInv ==
  ASSUME IInv, UNCHANGED <<account, quote, transaction, ledger, workers, accepted>>,
         clock' \in Nat, cleaner' \in Int \union {None},
         DOMAIN idempotency' = Ops \X Keys, idempotency' = [k \in Ops \X Keys |-> idempotency'[k]],
         \A k \in Ops \X Keys : idempotency'[k] = idempotency[k] \/ idempotency'[k] = None
  PROVE  IInv'
PROOF
  <1>1. TypeOK /\ Books /\ AcceptedDone /\ Exclusion /\ \A w \in Workers : Knows(w)
    BY DEF IInv
  <1>2. UNCHANGED <<account, quote, transaction, ledger, pc, req, seen, held, accepted>>
    BY DEF workers
  <1>3. idempotency' \in [Ops \X Keys -> [body : Bodies, first_seen_at : Nat] \union {None}]
    <2>1. \A k \in Ops \X Keys :
            idempotency'[k] \in [body : Bodies, first_seen_at : Nat] \union {None}
      BY <1>1 DEF TypeOK
    <2> QED BY <2>1
  <1>4. TypeOK'
    BY <1>1, <1>2, <1>3 DEF TypeOK
  <1>5. Books'
    BY <1>1, <1>2, BooksUnchanged
  <1>6. AcceptedDone'
    BY <1>1, <1>2, DoneUnchanged DEF AcceptedDone
  <1>7. Exclusion'
    BY <1>1, <1>2 DEF Exclusion
  <1>8. ASSUME NEW v \in Workers PROVE Knows(v)'
    <2>1. Same(v)
      BY <1>2 DEF Same
    <2>2. ASSUME pc[v] \in Stages PROVE Record(v) \in Ops \X Keys
      BY <1>1, <2>2, Serving DEF Knows
    <2> QED BY <1>2, <2>1, <2>2, OthersUndisturbed
  <1> QED BY <1>4, <1>5, <1>6, <1>7, <1>8 DEF IInv

\* The three housekeeping steps.
LEMMA HousekeepingSteps ==
  ASSUME IInv,
         \/ StartCleanup /\ UNCHANGED <<tables, clock, workers, accepted>>
         \/ DeleteBatch /\ UNCHANGED <<account, quote, transaction, ledger, clock, workers, accepted>>
         \/ Tick /\ UNCHANGED <<tables, cleaner, workers, accepted>>
  PROVE  IInv'
PROOF
  <1>1. TypeOK
    BY DEF IInv
  <1>2. CASE StartCleanup /\ UNCHANGED <<tables, clock, workers, accepted>>
    <2>1. cleaner' \in Int
      BY <1>1, <1>2, TimesAssumption DEF StartCleanup, TypeOK
    <2> QED BY <1>1, <1>2, <2>1, HousekeepingInv DEF TypeOK, tables
  <1>3. CASE DeleteBatch /\ UNCHANGED <<account, quote, transaction, ledger, clock, workers, accepted>>
    <2>1. PICK batch \in SUBSET Expired(cleaner) :
            /\ idempotency' = [k \in Ops \X Keys |-> IF k \in batch THEN None ELSE idempotency[k]]
            /\ cleaner' = IF Cardinality(batch) < BatchSize THEN None ELSE cleaner
      BY <1>3 DEF DeleteBatch
    <2>2. cleaner' \in Int \union {None}
      BY <1>1, <2>1 DEF TypeOK
    <2>3. /\ DOMAIN idempotency' = Ops \X Keys
          /\ idempotency' = [k \in Ops \X Keys |-> idempotency'[k]]
          /\ \A k \in Ops \X Keys : idempotency'[k] = idempotency[k] \/ idempotency'[k] = None
      BY <2>1
    <2> QED BY <1>1, <1>3, <2>2, <2>3, HousekeepingInv DEF TypeOK
  <1>4. CASE Tick /\ UNCHANGED <<tables, cleaner, workers, accepted>>
    <2>1. clock' \in Nat
      BY <1>1, <1>4 DEF Tick, TypeOK
    <2> QED BY <1>1, <1>4, <2>1, HousekeepingInv DEF TypeOK, tables
  <1> QED BY <1>2, <1>3, <1>4

-----------------------------------------------------------------------------

\* Two workers never serve the same key past the look-up.
LEMMA RecordsApart ==
  ASSUME IInv, NEW v \in Workers, NEW w \in Workers, v # w,
         pc[v] \in Stages \ {"idempotency"}, pc[w] \in Stages \ {"idempotency"}
  PROVE  Record(v) # Record(w)
PROOF
  <1>1. <<"idempotency", Record(v)>> \in held[v] /\ <<"idempotency", Record(w)>> \in held[w]
    BY DEF IInv, Knows, HoldsLocks
  <1> QED BY <1>1 DEF IInv, Exclusion

\* Two workers about to move points do so for different orders and accounts.
LEMMA Apart ==
  ASSUME IInv, NEW v \in Workers, NEW w \in Workers, v # w,
         pc[v] \in {"account", "commit"}, Op(v) # "quote",
         pc[w] = "commit", Op(w) # "quote"
  PROVE  /\ Order(v) # Order(w)
         /\ pc[v] = "commit" => Payer(v) # Payer(w)
PROOF
  <1>1. /\ req[v] \in Requests /\ req[w] \in Requests /\ HoldsLocks(v) /\ HoldsLocks(w)
        /\ Op(v) = "freeze" => MayFreeze(v)
        /\ Op(w) = "freeze" => MayFreeze(w)
        /\ Op(v) \in Settling => MaySettle(v)
        /\ Op(w) \in Settling => MaySettle(w)
    BY DEF IInv, Knows, Stages
  <1>2. /\ Op(v) \in Settling \union {"freeze"}
        /\ Op(w) \in Settling \union {"freeze"}
    BY <1>1, Serving DEF IInv, Ops, Settling
  <1>3. Order(v) # Order(w)
    <2> SUFFICES ASSUME Order(v) = Order(w) PROVE FALSE
      OBVIOUS
    <2>1. CASE Op(v) = "freeze" /\ Op(w) = "freeze"
      BY <1>1, <2>1 DEF HoldsLocks, IInv, Exclusion
    <2>2. CASE Op(v) \in Settling /\ Op(w) \in Settling
      BY <1>1, <2>2 DEF HoldsLocks, IInv, Exclusion
    <2>3. CASE Op(v) = "freeze" /\ Op(w) \in Settling
      BY <1>1, <2>3 DEF MayFreeze, MaySettle
    <2>4. CASE Op(v) \in Settling /\ Op(w) = "freeze"
      BY <1>1, <2>4 DEF MayFreeze, MaySettle
    <2> QED BY <1>2, <2>1, <2>2, <2>3, <2>4
  <1>4. ASSUME pc[v] = "commit" PROVE Payer(v) # Payer(w)
    BY <1>1, <1>4 DEF HoldsLocks, IInv, Exclusion
  <1> QED BY <1>3, <1>4

\* The part of TypeOK that is not about rows of orders and accounts.
RestTyped ==
  /\ idempotency \in [Ops \X Keys -> [body : Bodies, first_seen_at : Nat] \union {None}]
  /\ clock \in Nat /\ cleaner \in Int \union {None}
  /\ pc \in [Workers -> Idle \union Stages]
  /\ req \in [Workers -> [body : Bodies, key : Keys, now : Nat] \union {NoRequest}]
  /\ seen \in [Workers -> SeenRows]
  /\ held \in [Workers -> SUBSET Locks]
  /\ accepted \subseteq Bodies

\* What every commit does besides its writes: it records the key, accepts the
\* body and ends the request.
LEMMA CommitAnswers ==
  ASSUME IInv, NEW w \in Workers, pc[w] \in {"commit", "existing"},
         SaveIdempotency(w), Answer(w, "ok"), UNCHANGED <<clock, cleaner>>
  PROVE  /\ Alone(w) /\ Exclusion' /\ Knows(w)' /\ RestTyped'
         /\ accepted' = accepted \union {Body(w)}
         /\ idempotency[Record(w)] = None /\ idempotency'[Record(w)].body = Body(w)
         /\ \A k \in Ops \X Keys : idempotency'[k] # None => idempotency'[k].body \in accepted'
         /\ \A v \in Workers \ {w} : pc[v] \in Stages \ {"idempotency"} =>
              idempotency'[Record(v)] = idempotency[Record(v)]
PROOF
  <1>1. pc[w] \in Stages \ {"idempotency"} /\ "ok" \in Answers
    BY DEF Stages, Answers
  <1>2. /\ TypeOK /\ Exclusion /\ AcceptedDone /\ req[w] \in Requests
        /\ idempotency[Record(w)] = None
    BY <1>1, InService
  <1>3. Body(w) \in Bodies /\ Record(w) \in Ops \X Keys
    BY <1>2, Serving
  <1>4. /\ Alone(w) /\ pc'[w] = "ok" /\ held'[w] = {}
    BY <1>1, <1>2, AnswerAlone
  <1>5. Exclusion'
    BY <1>2, <1>4, LocksExclude
  <1>6. Knows(w)'
    BY <1>4 DEF Knows, Stages
  <1>7. accepted' = accepted \union {Body(w)}
    BY DEF Answer
  <1>8. idempotency' = [idempotency EXCEPT ![Record(w)] = [body |-> Body(w), first_seen_at |-> clock]]
    BY <1>2 DEF SaveIdempotency
  <1>9. idempotency \in [Ops \X Keys -> [body : Bodies, first_seen_at : Nat] \union {None}]
        /\ clock \in Nat
    BY <1>2 DEF TypeOK
  <1>10. idempotency'[Record(w)] = [body |-> Body(w), first_seen_at |-> clock]
    BY <1>3, <1>8, <1>9
  <1>11. \A k \in (Ops \X Keys) \ {Record(w)} : idempotency'[k] = idempotency[k]
    BY <1>8, <1>9
  <1>12. \A k \in Ops \X Keys : idempotency'[k] # None => idempotency'[k].body \in accepted'
    BY <1>2, <1>7, <1>10, <1>11 DEF AcceptedDone
  <1>13. ASSUME NEW v \in Workers \ {w}, pc[v] \in Stages \ {"idempotency"}
         PROVE  idempotency'[Record(v)] = idempotency[Record(v)]
    <2>1. Record(v) # Record(w)
      BY <1>1, <1>13, RecordsApart
    <2>2. Record(v) \in Ops \X Keys
      BY <1>2, <1>13, Serving, InService
    <2> QED BY <1>11, <2>1, <2>2
  <1>14. RestTyped'
    <2>1. [body |-> Body(w), first_seen_at |-> clock] \in [body : Bodies, first_seen_at : Nat]
      BY <1>3, <1>9
    <2>2. idempotency' \in [Ops \X Keys -> [body : Bodies, first_seen_at : Nat] \union {None}]
      BY <1>3, <1>8, <1>9, <2>1
    <2>3. /\ pc' = [pc EXCEPT ![w] = "ok"] /\ req' = [req EXCEPT ![w] = NoRequest]
          /\ seen' = [seen EXCEPT ![w] = NothingSeen] /\ held' = [held EXCEPT ![w] = {}]
      BY DEF Answer
    <2>4. NothingSeen \in SeenRows
      BY DEF NothingSeen, SeenRows
    <2> QED BY <1>2, <1>3, <1>7, <2>2, <2>3, <2>4 DEF RestTyped, TypeOK, SeenRows, Idle, Answers
  <1> QED BY <1>2, <1>4, <1>5, <1>6, <1>7, <1>10, <1>12, <1>13, <1>14

-----------------------------------------------------------------------------

\* How an entry e takes an order from the row t to the next row: the charge is
\* frozen once and settled once, and credited at most once after a confirm.
Settles(t, row, e, entries) ==
  \/ t = NoRow /\ e.type = "FREEZE" /\ row.state = "FROZEN" /\ e.amount = row.amount
  \/ /\ t # NoRow
     /\ row.user = t.user /\ row.amount = t.amount /\ row.frozen_at = t.frozen_at
     /\ \/ /\ t.state = "FROZEN" /\ e.type = "CONFIRM" /\ row.state = "CONFIRMED"
           /\ e.amount = t.amount
        \/ /\ t.state = "FROZEN" /\ e.type = "REFUND" /\ row.state = "REFUNDED"
           /\ e.amount = t.amount /\ row.correlation = t.correlation
        \/ /\ t.state = "CONFIRMED" /\ e.type = "REFUND" /\ row.state = "CONFIRMED"
           /\ e.amount <= t.amount /\ row.correlation = t.correlation
           /\ RefundsIn(entries, e.order) = 0

\* The balances e leaves, given those it finds.
MovesBalances(t, e, before) ==
  /\ e.type = "FREEZE"  => /\ e.available = before.available - e.amount
                           /\ e.frozen = before.frozen + e.amount
  /\ e.type = "CONFIRM" => /\ e.available = before.available
                           /\ e.frozen = before.frozen - e.amount
  /\ e.type = "REFUND"  => /\ e.available = before.available + e.amount
                           /\ e.frozen = IF t.state = "CONFIRMED" THEN before.frozen
                                         ELSE before.frozen - e.amount

\* What the four commits that move points have in common: worker w writes
\* entry e and row for its order, and the account its entry says.
Moves(w, e, row) ==
  LET o == Order(w)
      u == Payer(w)
      t == transaction[o]
  IN /\ pc[w] = "commit" /\ Op(w) # "quote"
     /\ o \in Orders /\ u \in Users
     /\ e \in Entry /\ e.order = o
     /\ row \in TransactionRow /\ row.user = u
     /\ Settles(t, row, e, ledger[u])
     /\ MovesBalances(t, e, account[u])
     /\ account' = [account EXCEPT ![u] = [available |-> e.available, frozen |-> e.frozen]]
     /\ transaction' = [transaction EXCEPT ![o] = row]
     /\ ledger' = [ledger EXCEPT ![u] = Append(@, e)]
     /\ quote' \in [Orders -> QuoteRow \union {NoRow}]
     /\ \A p \in Orders \ {o} : quote'[p] = quote[p]
     /\ quote[o] # NoRow /\ quote'[o] # NoRow
     /\ quote'[o].state = "CONSUMED" /\ quote'[o].user = quote[o].user
     /\ quote'[o].item = quote[o].item /\ quote'[o].amount = quote[o].amount
     /\ quote'[o].expires_at = quote[o].expires_at
     /\ row.user = quote[o].user /\ row.amount = quote[o].amount
     /\ row.frozen_at < quote[o].expires_at
     /\ SaveIdempotency(w) /\ Answer(w, "ok")

\* The entry of Write.
EntryOf(w, type, amount, available, frozen) ==
  [type |-> type, order |-> Order(w), amount |-> amount,
   available |-> account[Payer(w)].available + available,
   frozen |-> account[Payer(w)].frozen + frozen]

\* Write computes from the account as it is.
LEMMA WriteEffect ==
  ASSUME IInv, NEW w \in Workers, pc[w] = "commit", Op(w) # "quote",
         NEW type \in {"FREEZE", "CONFIRM", "REFUND"}, NEW amount \in Nat \ {0},
         NEW available \in Int, NEW frozen \in Int, NEW row,
         Write(w, type, amount, available, frozen, row)
  PROVE  LET e == EntryOf(w, type, amount, available, frozen)
             u == Payer(w)
         IN /\ Order(w) \in Orders /\ u \in Users
            /\ e \in Entry
            /\ e.available = account[u].available + available
            /\ e.frozen = account[u].frozen + frozen
            /\ e.order = Order(w) /\ e.type = type /\ e.amount = amount
            /\ account' = [account EXCEPT ![u] = [available |-> e.available, frozen |-> e.frozen]]
            /\ transaction' = [transaction EXCEPT ![Order(w)] = row]
            /\ ledger' = [ledger EXCEPT ![u] = Append(@, e)]
            /\ SaveIdempotency(w) /\ Answer(w, "ok")
PROOF
  <1> DEFINE u == Payer(w)
             b == [available |-> account[u].available + available,
                   frozen |-> account[u].frozen + frozen]
             e == EntryOf(w, type, amount, available, frozen)
  <1>1. pc[w] \in Stages /\ pc[w] \in {"account", "commit"}
    BY DEF Stages
  <1>2. TypeOK /\ req[w] \in Requests /\ seen[w].account = account[u]
    BY <1>1 DEF IInv, Knows
  <1>3. Order(w) \in Orders /\ u \in Users
    BY <1>1, <1>2, Serving, PayerOwns
  <1>4. account[u].available \in Nat /\ account[u].frozen \in Nat
    BY <1>2, <1>3 DEF TypeOK, Balance
  <1>5. /\ b.available >= 0 /\ b.frozen >= 0
        /\ account' = [account EXCEPT ![u] = b]
        /\ transaction' = [transaction EXCEPT ![Order(w)] = row]
        /\ ledger' = [ledger EXCEPT ![u] =
             Append(@, [type |-> type, order |-> Order(w), amount |-> amount,
                        available |-> b.available, frozen |-> b.frozen])]
        /\ SaveIdempotency(w) /\ Answer(w, "ok")
    BY <1>2 DEF Write
  <1>6. /\ e = [type |-> type, order |-> Order(w), amount |-> amount,
                available |-> b.available, frozen |-> b.frozen]
        /\ e.available = account[u].available + available
        /\ e.frozen = account[u].frozen + frozen
        /\ e.order = Order(w) /\ e.type = type /\ e.amount = amount
        /\ b = [available |-> e.available, frozen |-> e.frozen]
    BY DEF EntryOf
  <1>7. b.available \in Nat /\ b.frozen \in Nat
    BY <1>4, <1>5
  <1>8. e \in Entry
    BY <1>3, <1>6, <1>7 DEF Entry
  <1> HIDE DEF b, e
  <1> QED BY <1>3, <1>5, <1>6, <1>8 DEF e

\* How the entry and the row answer to the body.
Fulfils(b, row, e) ==
  /\ b.op \in {"freeze"} \union Settling
  /\ b.ref = b.order /\ row.user = b.user
  /\ b.op = "freeze" => e.type = "FREEZE" /\ row.state = "FROZEN" /\ row.correlation = b.detail
  /\ b.op = "confirm" =>
       /\ e.type = "CONFIRM" /\ row.state = "CONFIRMED"
       /\ row.correlation = b.detail /\ ~b.detail.legacy
  /\ b.op = "refund" => e.type = "REFUND" /\ row.state = "REFUNDED" /\ row.refund = b.detail
  /\ b.op = "overbill" => e.type = "REFUND" /\ row.state = "CONFIRMED" /\ e.amount = b.amount

\* What a worker about to commit a movement holds true.
LEMMA AtCommit ==
  ASSUME IInv, NEW w \in Workers, pc[w] = "commit"
  PROVE  /\ TypeOK /\ FreezeHonoursQuote /\ req[w] \in Requests
         /\ Order(w) \in Orders /\ Body(w).user \in Users /\ Body(w).detail \in Details
         /\ req[w].now \in Nat
         /\ Op(w) = "freeze" => MayFreeze(w) /\ Payer(w) = Body(w).user /\ Payer(w) \in Users
         /\ Op(w) \in Settling => MaySettle(w) /\ Payer(w) = Body(w).user /\ Payer(w) \in Users
         /\ Op(w) = "quote" => MayQuote(w)
         /\ Op(w) = "overbill" => Body(w).amount \in Nat \ {0}
PROOF
  <1>1. pc[w] \in Stages /\ pc[w] \in {"account", "commit"}
    BY DEF Stages
  <1>2. TypeOK /\ FreezeHonoursQuote /\ req[w] \in Requests
    BY <1>1, InService
  <1>3. Op(w) # "quote" => Payer(w) = Body(w).user /\ Payer(w) \in Users
    BY <1>1, PayerOwns
  <1> QED BY <1>1, <1>2, <1>3, Serving DEF IInv, Knows, Settling

\* freeze moves the quoted price of a quote that has not expired.
LEMMA CommitFreezeMoves ==
  ASSUME IInv, NEW w \in Workers, CommitFreeze(w)
  PROVE  \E e, row : Moves(w, e, row) /\ Fulfils(Body(w), row, e)
PROOF
  <1> DEFINE q == seen[w].quote
             o == Order(w)
             row == [state |-> "FROZEN", user |-> q.user, amount |-> q.amount,
                     frozen_at |-> req[w].now, correlation |-> Body(w).detail, refund |-> None]
             e == EntryOf(w, "FREEZE", q.amount, - q.amount, q.amount)
  <1>1. /\ pc[w] = "commit" /\ Op(w) = "freeze"
        /\ quote' = [quote EXCEPT ![o].state = "CONSUMED"]
        /\ Write(w, "FREEZE", q.amount, - q.amount, q.amount, row)
    BY DEF CommitFreeze
  <1>2. /\ TypeOK /\ o \in Orders /\ Body(w).user \in Users /\ Body(w).detail \in Details
        /\ req[w].now \in Nat /\ MayFreeze(w) /\ Payer(w) = Body(w).user
    BY <1>1, AtCommit
  <1>3. /\ q = quote[o] /\ q # NoRow /\ q.user = Body(w).user /\ Body(w).ref = o
        /\ transaction[o] = NoRow /\ req[w].now < q.expires_at
    BY <1>2 DEF MayFreeze
  <1>4. q \in QuoteRow
    BY <1>2, <1>3 DEF TypeOK
  <1>5. q.amount \in Amounts /\ q.amount \in Nat \ {0} /\ - q.amount \in Int
    <2>1. q.amount \in Amounts
      BY <1>4 DEF QuoteRow
    <2>2. q.amount \in Nat \ {0}
      BY <2>1, AmountsPositive
    <2> QED BY <2>1, <2>2
  <1>6. row \in TransactionRow
    BY <1>2, <1>3, <1>5 DEF TransactionRow
  <1>7. /\ row.state = "FROZEN" /\ row.user = q.user /\ row.amount = q.amount
        /\ row.frozen_at = req[w].now /\ row.correlation = Body(w).detail
    OBVIOUS
  <1> HIDE DEF row
  <1>8. /\ Payer(w) \in Users /\ e \in Entry
        /\ e.available = account[Payer(w)].available + (- q.amount)
        /\ e.frozen = account[Payer(w)].frozen + q.amount
        /\ e.order = o /\ e.type = "FREEZE" /\ e.amount = q.amount
        /\ account' = [account EXCEPT ![Payer(w)] = [available |-> e.available, frozen |-> e.frozen]]
        /\ transaction' = [transaction EXCEPT ![o] = row]
        /\ ledger' = [ledger EXCEPT ![Payer(w)] = Append(@, e)]
        /\ SaveIdempotency(w) /\ Answer(w, "ok")
    BY <1>1, <1>5, WriteEffect
  <1> HIDE DEF e
  <1>9. account[Payer(w)].available \in Nat /\ account[Payer(w)].frozen \in Nat
    BY <1>2, <1>8 DEF TypeOK, Balance
  <1>10. MovesBalances(transaction[o], e, account[Payer(w)])
    BY <1>5, <1>8, <1>9 DEF MovesBalances
  <1>11. Settles(transaction[o], row, e, ledger[Payer(w)])
    BY <1>3, <1>7, <1>8 DEF Settles
  <1>12. /\ quote' \in [Orders -> QuoteRow \union {NoRow}]
         /\ \A p \in Orders \ {o} : quote'[p] = quote[p]
         /\ quote'[o].state = "CONSUMED" /\ quote'[o].user = q.user
         /\ quote'[o].item = q.item /\ quote'[o].amount = q.amount
         /\ quote'[o].expires_at = q.expires_at
    <2>1. quote \in [Orders -> QuoteRow \union {NoRow}]
      BY <1>2 DEF TypeOK
    <2> DEFINE r == [quote[o] EXCEPT !.state = "CONSUMED"]
    <2>2. /\ r \in QuoteRow /\ r.state = "CONSUMED" /\ r.user = q.user
          /\ r.item = q.item /\ r.amount = q.amount /\ r.expires_at = q.expires_at
      BY <1>3, <1>4 DEF QuoteRow
    <2>3. quote' = [quote EXCEPT ![o] = r]
      BY <1>1
    <2> HIDE DEF r
    <2> QED BY <1>2, <2>1, <2>2, <2>3
  <1>13. quote'[o] # NoRow
    BY <1>12 DEF NoRow
  <1>14. Moves(w, e, row)
    BY <1>1, <1>2, <1>3, <1>6, <1>7, <1>8, <1>10, <1>11, <1>12, <1>13 DEF Moves
  <1>15. Fulfils(Body(w), row, e)
    BY <1>1, <1>3, <1>7, <1>8 DEF Fulfils, Op, Order
  <1> QED BY <1>14, <1>15

\* The three settlements share what they find: a frozen or confirmed row of the
\* quote, and a consumed quote.
LEMMA SettlementFinds ==
  ASSUME IInv, NEW w \in Workers, pc[w] = "commit", Op(w) \in Settling
  PROVE  LET t == seen[w].transaction
             o == Order(w)
         IN /\ t = transaction[o] /\ t # NoRow /\ t \in TransactionRow
            /\ t.user = Body(w).user /\ t.user = Payer(w) /\ Body(w).ref = o
            /\ t.amount \in Nat \ {0} /\ - t.amount \in Int
            /\ quote \in [Orders -> QuoteRow \union {NoRow}]
            /\ quote[o] # NoRow /\ quote[o].state = "CONSUMED"
            /\ t.user = quote[o].user /\ t.amount = quote[o].amount
            /\ t.frozen_at < quote[o].expires_at
            /\ account[Payer(w)].available \in Nat /\ account[Payer(w)].frozen \in Nat
PROOF
  <1> DEFINE t == seen[w].transaction
             o == Order(w)
  <1>1. /\ TypeOK /\ FreezeHonoursQuote /\ o \in Orders /\ Body(w).detail \in Details
        /\ MaySettle(w) /\ Payer(w) = Body(w).user /\ Payer(w) \in Users
    BY AtCommit
  <1>2. t = transaction[o] /\ t # NoRow /\ t.user = Body(w).user /\ Body(w).ref = o
    BY <1>1 DEF MaySettle
  <1>3. t \in TransactionRow
    BY <1>1, <1>2 DEF TypeOK
  <1>4. t.amount \in Nat \ {0} /\ - t.amount \in Int
    <2>1. t.amount \in Amounts
      BY <1>3 DEF TransactionRow
    <2>2. t.amount \in Nat \ {0}
      BY <2>1, AmountsPositive
    <2> QED BY <2>2
  <1>5. /\ quote[o].state = "CONSUMED" /\ t.user = quote[o].user /\ t.amount = quote[o].amount
        /\ t.frozen_at < quote[o].expires_at
    BY <1>1, <1>2 DEF FreezeHonoursQuote
  <1>6. quote[o] # NoRow
    BY <1>5 DEF NoRow
  <1>7. account[Payer(w)].available \in Nat /\ account[Payer(w)].frozen \in Nat
    BY <1>1 DEF TypeOK, Balance
  <1> QED BY <1>1, <1>2, <1>3, <1>4, <1>5, <1>6, <1>7 DEF TypeOK

\* What is left to show of a settlement once its entry and row are known.
LEMMA SettlementMoves ==
  ASSUME IInv, NEW w \in Workers, pc[w] = "commit", Op(w) \in Settling,
         UNCHANGED quote,
         NEW type \in {"CONFIRM", "REFUND"}, NEW amount \in Nat \ {0},
         NEW available \in Int, NEW frozen \in Int, NEW row \in TransactionRow,
         Write(w, type, amount, available, frozen, row),
         row.user = seen[w].transaction.user,
         row.amount = seen[w].transaction.amount,
         row.frozen_at = seen[w].transaction.frozen_at,
         ASSUME NEW e, e.order = Order(w), e.type = type, e.amount = amount,
                e.available = account[Payer(w)].available + available,
                e.frozen = account[Payer(w)].frozen + frozen
         PROVE  /\ Settles(transaction[Order(w)], row, e, ledger[Payer(w)])
                /\ MovesBalances(transaction[Order(w)], e, account[Payer(w)])
                /\ Fulfils(Body(w), row, e)
  PROVE  \E e, r : Moves(w, e, r) /\ Fulfils(Body(w), r, e)
PROOF
  <1> DEFINE t == seen[w].transaction
             o == Order(w)
             e == EntryOf(w, type, amount, available, frozen)
  <1>1. /\ t = transaction[o] /\ t # NoRow
        /\ t.user = Body(w).user /\ t.user = Payer(w) /\ Body(w).ref = o
        /\ quote \in [Orders -> QuoteRow \union {NoRow}]
        /\ quote[o] # NoRow /\ quote[o].state = "CONSUMED"
        /\ t.user = quote[o].user /\ t.amount = quote[o].amount
        /\ t.frozen_at < quote[o].expires_at
    BY SettlementFinds
  <1>2. /\ o \in Orders /\ Payer(w) \in Users /\ e \in Entry
        /\ e.available = account[Payer(w)].available + available
        /\ e.frozen = account[Payer(w)].frozen + frozen
        /\ e.order = o /\ e.type = type /\ e.amount = amount
        /\ account' = [account EXCEPT ![Payer(w)] = [available |-> e.available, frozen |-> e.frozen]]
        /\ transaction' = [transaction EXCEPT ![o] = row]
        /\ ledger' = [ledger EXCEPT ![Payer(w)] = Append(@, e)]
        /\ SaveIdempotency(w) /\ Answer(w, "ok")
    BY WriteEffect DEF Settling
  <1> HIDE DEF e
  <1>3. /\ Settles(transaction[o], row, e, ledger[Payer(w)])
        /\ MovesBalances(transaction[o], e, account[Payer(w)])
        /\ Fulfils(Body(w), row, e)
    BY <1>2
  <1>4. Moves(w, e, row)
    BY <1>1, <1>2, <1>3 DEF Moves, Settling
  <1> QED BY <1>3, <1>4

\* confirm spends the frozen points.
LEMMA CommitConfirmMoves ==
  ASSUME IInv, NEW w \in Workers, CommitConfirm(w)
  PROVE  \E e, row : Moves(w, e, row) /\ Fulfils(Body(w), row, e)
PROOF
  <1> DEFINE t == seen[w].transaction
             row == [t EXCEPT !.state = "CONFIRMED", !.correlation = Body(w).detail]
  <1>1. /\ pc[w] = "commit" /\ Op(w) = "confirm" /\ Op(w) \in Settling /\ UNCHANGED quote
        /\ Write(w, "CONFIRM", t.amount, 0, - t.amount, row)
    BY DEF CommitConfirm, Settling
  <1>2. /\ t = transaction[Order(w)] /\ t # NoRow /\ t \in TransactionRow
        /\ t.user = Body(w).user /\ t.amount \in Nat \ {0} /\ - t.amount \in Int
        /\ account[Payer(w)].available \in Nat /\ account[Payer(w)].frozen \in Nat
    BY <1>1, SettlementFinds
  <1>3. MaySettle(w) /\ Body(w).detail \in Details
    BY <1>1, AtCommit
  <1>4. /\ Body(w).ref = Order(w) /\ t.state = "FROZEN" /\ ~Body(w).detail.legacy
    BY <1>1, <1>2, <1>3 DEF MaySettle
  <1>5. /\ row \in TransactionRow /\ row.user = t.user /\ row.amount = t.amount
        /\ row.frozen_at = t.frozen_at /\ row.state = "CONFIRMED" /\ row.correlation = Body(w).detail
    BY <1>2, <1>3 DEF TransactionRow
  <1> HIDE DEF row
  <1>6. ASSUME NEW e, e.order = Order(w), e.type = "CONFIRM", e.amount = t.amount,
               e.available = account[Payer(w)].available + 0,
               e.frozen = account[Payer(w)].frozen + (- t.amount)
        PROVE  /\ Settles(transaction[Order(w)], row, e, ledger[Payer(w)])
               /\ MovesBalances(transaction[Order(w)], e, account[Payer(w)])
               /\ Fulfils(Body(w), row, e)
    <2>1. Settles(transaction[Order(w)], row, e, ledger[Payer(w)])
      BY <1>2, <1>4, <1>5, <1>6 DEF Settles
    <2>2. MovesBalances(transaction[Order(w)], e, account[Payer(w)])
      BY <1>2, <1>6 DEF MovesBalances
    <2>3. Fulfils(Body(w), row, e)
      BY <1>1, <1>2, <1>4, <1>5, <1>6 DEF Fulfils, Op, Order, Settling
    <2> QED BY <2>1, <2>2, <2>3
  <1>7. 0 \in Int /\ "CONFIRM" \in {"CONFIRM", "REFUND"}
    OBVIOUS
  <1> QED BY <1>1, <1>2, <1>5, <1>6, <1>7, SettlementMoves

\* refund gives the frozen points back.
LEMMA CommitRefundMoves ==
  ASSUME IInv, NEW w \in Workers, CommitRefund(w)
  PROVE  \E e, row : Moves(w, e, row) /\ Fulfils(Body(w), row, e)
PROOF
  <1> DEFINE t == seen[w].transaction
             row == [t EXCEPT !.state = "REFUNDED", !.refund = Body(w).detail]
  <1>1. /\ pc[w] = "commit" /\ Op(w) = "refund" /\ Op(w) \in Settling /\ UNCHANGED quote
        /\ Write(w, "REFUND", t.amount, t.amount, - t.amount, row)
    BY DEF CommitRefund, Settling
  <1>2. /\ t = transaction[Order(w)] /\ t # NoRow /\ t \in TransactionRow
        /\ t.user = Body(w).user /\ t.amount \in Nat \ {0} /\ t.amount \in Int /\ - t.amount \in Int
        /\ account[Payer(w)].available \in Nat /\ account[Payer(w)].frozen \in Nat
    BY <1>1, SettlementFinds
  <1>3. MaySettle(w) /\ Body(w).detail \in Details
    BY <1>1, AtCommit
  <1>4. /\ Body(w).ref = Order(w) /\ t.state = "FROZEN"
    BY <1>1, <1>2, <1>3 DEF MaySettle
  <1>5. /\ row \in TransactionRow /\ row.user = t.user /\ row.amount = t.amount
        /\ row.frozen_at = t.frozen_at /\ row.state = "REFUNDED" /\ row.refund = Body(w).detail
        /\ row.correlation = t.correlation
    BY <1>2, <1>3 DEF TransactionRow
  <1> HIDE DEF row
  <1>6. ASSUME NEW e, e.order = Order(w), e.type = "REFUND", e.amount = t.amount,
               e.available = account[Payer(w)].available + t.amount,
               e.frozen = account[Payer(w)].frozen + (- t.amount)
        PROVE  /\ Settles(transaction[Order(w)], row, e, ledger[Payer(w)])
               /\ MovesBalances(transaction[Order(w)], e, account[Payer(w)])
               /\ Fulfils(Body(w), row, e)
    <2>1. Settles(transaction[Order(w)], row, e, ledger[Payer(w)])
      BY <1>2, <1>4, <1>5, <1>6 DEF Settles
    <2>2. MovesBalances(transaction[Order(w)], e, account[Payer(w)])
      BY <1>2, <1>4, <1>6 DEF MovesBalances
    <2>3. Fulfils(Body(w), row, e)
      BY <1>1, <1>2, <1>4, <1>5, <1>6 DEF Fulfils, Op, Order, Settling
    <2> QED BY <2>1, <2>2, <2>3
  <1> QED BY <1>1, <1>2, <1>5, <1>6, SettlementMoves

\* An overbill credit gives points of the charge back, once.
LEMMA CommitOverbillMoves ==
  ASSUME IInv, NEW w \in Workers, CommitOverbill(w)
  PROVE  \E e, row : Moves(w, e, row) /\ Fulfils(Body(w), row, e)
PROOF
  <1> DEFINE t == seen[w].transaction
             row == [t EXCEPT !.refund = Body(w).detail]
             amount == Body(w).amount
  <1>1. /\ pc[w] = "commit" /\ Op(w) = "overbill" /\ Op(w) \in Settling /\ UNCHANGED quote
        /\ Write(w, "REFUND", amount, amount, 0, row)
    BY DEF CommitOverbill, Settling
  <1>2. /\ t = transaction[Order(w)] /\ t # NoRow /\ t \in TransactionRow
        /\ t.user = Body(w).user /\ t.user = Payer(w)
        /\ account[Payer(w)].available \in Nat /\ account[Payer(w)].frozen \in Nat
    BY <1>1, SettlementFinds
  <1>3. MaySettle(w) /\ Body(w).detail \in Details /\ amount \in Nat \ {0} /\ amount \in Int
    BY <1>1, AtCommit
  <1>4. /\ Body(w).ref = Order(w) /\ t.state = "CONFIRMED" /\ amount <= t.amount
        /\ RefundsIn(ledger[Payer(w)], Order(w)) = 0
    BY <1>1, <1>2, <1>3 DEF MaySettle
  <1>5. /\ row \in TransactionRow /\ row.user = t.user /\ row.amount = t.amount
        /\ row.frozen_at = t.frozen_at /\ row.state = "CONFIRMED"
        /\ row.correlation = t.correlation
    BY <1>2, <1>3, <1>4 DEF TransactionRow
  <1> HIDE DEF row
  <1>6. ASSUME NEW e, e.order = Order(w), e.type = "REFUND", e.amount = amount,
               e.available = account[Payer(w)].available + amount,
               e.frozen = account[Payer(w)].frozen + 0
        PROVE  /\ Settles(transaction[Order(w)], row, e, ledger[Payer(w)])
               /\ MovesBalances(transaction[Order(w)], e, account[Payer(w)])
               /\ Fulfils(Body(w), row, e)
    <2>1. Settles(transaction[Order(w)], row, e, ledger[Payer(w)])
      BY <1>2, <1>4, <1>5, <1>6 DEF Settles
    <2>2. MovesBalances(transaction[Order(w)], e, account[Payer(w)])
      BY <1>2, <1>4, <1>6 DEF MovesBalances
    <2>3. Fulfils(Body(w), row, e)
      BY <1>1, <1>2, <1>4, <1>5, <1>6 DEF Fulfils, Op, Order, Settling
    <2> QED BY <2>1, <2>2, <2>3
  <1>7. 0 \in Int /\ "REFUND" \in {"CONFIRM", "REFUND"}
    OBVIOUS
  <1> QED BY <1>1, <1>2, <1>3, <1>5, <1>6, <1>7, SettlementMoves

-----------------------------------------------------------------------------

\* The entries of an account before and after one more.
LEMMA AppendEntry ==
  ASSUME NEW s \in Seq(Entry), NEW e \in Entry
  PROVE  /\ Append(s, e) \in Seq(Entry)
         /\ Len(s) \in Nat /\ DOMAIN s = 1 .. Len(s)
         /\ Len(Append(s, e)) = Len(s) + 1
         /\ DOMAIN Append(s, e) = 1 .. Len(s) + 1
         /\ \A i \in 1 .. Len(s) : Append(s, e)[i] = s[i] /\ s[i] \in Entry
         /\ Append(s, e)[Len(s) + 1] = e
PROOF
  OBVIOUS

\* A CONFIRM entry is not lost, and the new one is found.
LEMMA ConfirmedInAppend ==
  ASSUME NEW s \in Seq(Entry), NEW e \in Entry, NEW o,
         ConfirmedIn(s, o) \/ (e.order = o /\ e.type = "CONFIRM")
  PROVE  ConfirmedIn(Append(s, e), o)
PROOF
  <1>1. CASE ConfirmedIn(s, o)
    BY <1>1, AppendEntry DEF ConfirmedIn
  <1>2. CASE e.order = o /\ e.type = "CONFIRM"
    <2>1. Len(s) + 1 \in DOMAIN Append(s, e) /\ Append(s, e)[Len(s) + 1] = e
      BY AppendEntry
    <2> QED BY <1>2, <2>1 DEF ConfirmedIn
  <1> QED BY <1>1, <1>2

\* The rows of other orders and accounts stay.
MovedRows(o, u, e, row) ==
  /\ TypeOK /\ o \in Orders /\ u \in Users /\ e \in Entry /\ e.order = o
  /\ row \in TransactionRow /\ row # NoRow /\ row.user = u
  /\ transaction'[o] = row
  /\ \A p \in Orders \ {o} : transaction'[p] = transaction[p] /\ quote'[p] = quote[p]
  /\ ledger[u] \in Seq(Entry) /\ ledger'[u] = Append(ledger[u], e)
  /\ \A x \in Users \ {u} : ledger'[x] = ledger[x] /\ account'[x] = account[x]
  /\ account'[u] = [available |-> e.available, frozen |-> e.frozen]
  /\ Settles(transaction[o], row, e, ledger[u])
  /\ MovesBalances(transaction[o], e, account[u])

\* A movement is one of one order and one account.
LEMMA MovesRows ==
  ASSUME IInv, NEW w \in Workers, NEW e, NEW row, Moves(w, e, row)
  PROVE  MovedRows(Order(w), Payer(w), e, row)
PROOF
  <1>1. TypeOK
    BY DEF IInv
  <1>2. row \in TransactionRow => row # NoRow
    BY DEF TransactionRow, NoRow
  <1> QED BY <1>1, <1>2 DEF Moves, TypeOK, MovedRows

\* Entries fit their orders, also the new one.
LEMMA MovesLedgerMatches ==
  ASSUME IInv, NEW w \in Workers, NEW e, NEW row, Moves(w, e, row)
  PROVE  LedgerMatches'
PROOF
  <1>0. PICK o, u, t : o = Order(w) /\ u = Payer(w) /\ t = transaction[o]
    OBVIOUS
  <1> MovedRows(o, u, e, row)
    BY <1>0, MovesRows
  <1>1. /\ TypeOK /\ o \in Orders /\ u \in Users /\ e \in Entry /\ e.order = o
        /\ row \in TransactionRow /\ row # NoRow /\ row.user = u
        /\ transaction'[o] = row
        /\ \A p \in Orders \ {o} : transaction'[p] = transaction[p]
        /\ ledger[u] \in Seq(Entry) /\ ledger'[u] = Append(ledger[u], e)
        /\ \A x \in Users \ {u} : ledger'[x] = ledger[x]
        /\ Settles(t, row, e, ledger[u])
    BY <1>0 DEF MovedRows
  <1>2. LedgerMatches
    BY DEF IInv, Books
  <1>3. ASSUME NEW x \in Users, NEW y \in Entry, EntryFits(x, y)
        PROVE  EntryFits(x, y)'
    <2>1. y.order \in Orders
      BY DEF Entry
    <2>2. CASE y.order = o
      BY <1>0, <1>1, <1>3, <2>2 DEF EntryFits, Settles
    <2>3. CASE y.order # o
      BY <1>1, <1>3, <2>1, <2>3 DEF EntryFits
    <2> QED BY <2>2, <2>3
  <1>4. EntryFits(u, e)'
    BY <1>1 DEF EntryFits, Settles
  <1>5. ASSUME NEW x \in Users, NEW i \in DOMAIN ledger'[x]
        PROVE  EntryFits(x, ledger[x][i])'
    <2>1. ledger[x] \in Seq(Entry) /\ \A j \in DOMAIN ledger[x] : EntryFits(x, ledger[x][j])
      BY <1>1, <1>2 DEF TypeOK, LedgerMatches
    <2>2. CASE x # u
      <3>1. ledger'[x] = ledger[x] /\ i \in DOMAIN ledger[x]
        BY <1>1, <2>2
      <3>2. ledger[x][i] \in Entry
        BY <2>1, <3>1
      <3> QED BY <1>3, <2>1, <3>1, <3>2
    <2>3. CASE x = u
      <3>1. /\ Len(ledger[u]) \in Nat /\ i \in 1 .. Len(ledger[u]) + 1
            /\ DOMAIN ledger[u] = 1 .. Len(ledger[u])
            /\ \A j \in 1 .. Len(ledger[u]) : ledger'[u][j] = ledger[u][j] /\ ledger[u][j] \in Entry
            /\ ledger'[u][Len(ledger[u]) + 1] = e
        BY <1>1, <1>5, <2>3, AppendEntry
      <3>2. CASE i \in 1 .. Len(ledger[u])
        BY <1>3, <2>1, <2>3, <3>1, <3>2
      <3>3. CASE i = Len(ledger[u]) + 1
        BY <1>4, <2>3, <3>1, <3>3
      <3> QED BY <3>1, <3>2, <3>3
    <2> QED BY <2>2, <2>3
  <1>6. ASSUME NEW p \in Orders, transaction'[p].state = "CONFIRMED"
        PROVE  ConfirmedIn(ledger'[transaction'[p].user], p)
    <2>1. CASE p = o
      <3>1. ConfirmedIn(ledger[u], o) \/ e.type = "CONFIRM"
        BY <1>0, <1>1, <1>2, <1>6, <2>1 DEF Settles, LedgerMatches
      <3> QED BY <1>1, <2>1, <3>1, ConfirmedInAppend
    <2>2. CASE p # o
      <3>1. transaction'[p] = transaction[p] /\ ConfirmedIn(ledger[transaction[p].user], p)
        BY <1>1, <1>2, <1>6, <2>2 DEF LedgerMatches
      <3>2. transaction[p].user \in Users
        <4>1. transaction[p] # NoRow
          BY <1>6, <3>1 DEF NoRow
        <4> QED BY <1>1, <4>1 DEF TypeOK, TransactionRow
      <3>3. PICK x \in Users : x = transaction[p].user
        BY <3>2
      <3>4. CASE x = u
        <4>1. ConfirmedIn(ledger[u], p)
          BY <3>1, <3>3, <3>4
        <4>2. ConfirmedIn(Append(ledger[u], e), p)
          BY <1>1, <4>1, ConfirmedInAppend
        <4>3. transaction'[p].user = u
          BY <3>1, <3>3, <3>4
        <4>4. ledger'[u] = Append(ledger[u], e)
          BY <1>1
        <4> QED BY <4>2, <4>3, <4>4, Zenon
      <3>5. CASE x # u
        BY <1>1, <3>1, <3>3, <3>5
      <3> QED BY <3>4, <3>5
    <2> QED BY <2>1, <2>2
  <1> QED BY <1>5, <1>6 DEF LedgerMatches

\* One more entry that moves the balances by its amount replays.
LEMMA ReplaysAppend ==
  ASSUME NEW s \in Seq(Entry), NEW e \in Entry, NEW opening, NEW before,
         Replays(s, opening, before),
         [available |-> e.available, frozen |-> e.frozen] =
           After(e, ConfirmedIn(s, e.order), before)
  PROVE  Replays(Append(s, e), opening, [available |-> e.available, frozen |-> e.frozen])
PROOF
  <1> DEFINE r == Append(s, e)
             n == Len(s)
  <1>1. /\ n \in Nat /\ DOMAIN s = 1 .. n /\ Len(r) = n + 1
        /\ \A i \in 1 .. n : r[i] = s[i]
        /\ r[n + 1] = e
    BY AppendEntry
  <1> HIDE DEF r, n
  <1>2. \A i \in 0 .. n : Left(r, opening, i) = Left(s, opening, i)
    BY <1>1 DEF Left
  <1>3. Left(r, opening, n + 1) = [available |-> e.available, frozen |-> e.frozen]
    BY <1>1 DEF Left
  <1>4. before = Left(s, opening, n)
    BY DEF Replays, n
  <1>5. \A i \in 1 .. n : SettledBefore(r, i) <=> SettledBefore(s, i)
    BY <1>1 DEF SettledBefore
  <1>6. SettledBefore(r, n + 1) <=> ConfirmedIn(s, e.order)
    <2>1. 1 .. (n + 1) - 1 = 1 .. n
      BY <1>1
    <2> QED BY <1>1, <2>1 DEF SettledBefore, ConfirmedIn
  <1>7. ASSUME NEW i \in 1 .. n + 1
        PROVE  Left(r, opening, i) = After(r[i], SettledBefore(r, i), Left(r, opening, i - 1))
    <2>1. CASE i \in 1 .. n
      <3>1. Left(s, opening, i) = After(s[i], SettledBefore(s, i), Left(s, opening, i - 1))
        BY <2>1 DEF Replays, n
      <3>2. i \in 0 .. n /\ i - 1 \in 0 .. n
        BY <1>1, <2>1
      <3>3. Left(r, opening, i) = Left(s, opening, i) /\ Left(r, opening, i - 1) = Left(s, opening, i - 1)
        BY <1>2, <3>2
      <3>4. SettledBefore(r, i) = SettledBefore(s, i)
        BY <1>5, <2>1 DEF SettledBefore
      <3> QED BY <1>1, <2>1, <3>1, <3>3, <3>4
    <2>2. CASE i = n + 1
      <3>1. i - 1 = n /\ n \in 0 .. n
        BY <1>1, <2>2
      <3>2. Left(r, opening, i - 1) = before
        BY <1>2, <1>4, <3>1
      <3>3. SettledBefore(r, i) = ConfirmedIn(s, e.order)
        BY <1>6, <2>2 DEF SettledBefore, ConfirmedIn
      <3> QED BY <1>1, <1>3, <2>2, <3>2, <3>3
    <2> QED BY <1>1, <2>1, <2>2
  <1> QED BY <1>1, <1>3, <1>7 DEF Replays, r

\* What an entry says it leaves is what the ledger's replay expects of it.
LEMMA BalancesAfter ==
  ASSUME NEW t, NEW e \in Entry, NEW before, MovesBalances(t, e, before),
         NEW settled \in BOOLEAN, e.type = "REFUND" => (settled <=> t.state = "CONFIRMED")
  PROVE  [available |-> e.available, frozen |-> e.frozen] = After(e, settled, before)
PROOF
  <1>1. e.type \in {"FREEZE", "CONFIRM", "REFUND"}
    BY DEF Entry
  <1>2. CASE e.type = "FREEZE"
    BY <1>2 DEF After, MovesBalances
  <1>3. CASE e.type = "CONFIRM"
    BY <1>3 DEF After, MovesBalances
  <1>4. CASE e.type = "REFUND"
    BY <1>4 DEF After, MovesBalances
  <1> QED BY <1>1, <1>2, <1>3, <1>4

\* The ledger still replays: the worker computed from the account it locked.
LEMMA MovesReplay ==
  ASSUME IInv, NEW w \in Workers, NEW e, NEW row, Moves(w, e, row)
  PROVE  Replay'
PROOF
  <1>0. PICK o, u : o = Order(w) /\ u = Payer(w)
    OBVIOUS
  <1> MovedRows(o, u, e, row)
    BY <1>0, MovesRows
  <1>1. /\ TypeOK /\ u \in Users /\ e \in Entry /\ e.order = o
        /\ ledger[u] \in Seq(Entry) /\ ledger'[u] = Append(ledger[u], e)
        /\ \A x \in Users \ {u} : ledger'[x] = ledger[x] /\ account'[x] = account[x]
        /\ account'[u] = [available |-> e.available, frozen |-> e.frozen]
    BY DEF MovedRows
  <1>2. Replay /\ LedgerMatches
    BY DEF IInv, Books
  <1>3. e.type = "REFUND" => (ConfirmedIn(ledger[u], o) <=> transaction[o].state = "CONFIRMED")
    <2>1. ASSUME ConfirmedIn(ledger[u], o) PROVE transaction[o] # NoRow /\ transaction[o].state # "FROZEN"
      <3>1. PICK i \in DOMAIN ledger[u] : ledger[u][i].order = o /\ ledger[u][i].type = "CONFIRM"
        BY <2>1 DEF ConfirmedIn
      <3>2. EntryFits(u, ledger[u][i])
        BY <1>1, <1>2 DEF LedgerMatches
      <3> QED BY <3>1, <3>2 DEF EntryFits
    <2>2. ASSUME transaction[o].state = "CONFIRMED" PROVE ConfirmedIn(ledger[u], o)
      <3>1. transaction[o] # NoRow /\ transaction[o].user = u
        BY <2>2 DEF MovedRows, Settles, NoRow
      <3> QED BY <1>2, <2>2, <3>1 DEF MovedRows, LedgerMatches
    <2> QED BY <2>1, <2>2 DEF MovedRows, Settles
  <1>4. [available |-> e.available, frozen |-> e.frozen] =
          After(e, ConfirmedIn(ledger[u], e.order), account[u])
    <2>1. MovesBalances(transaction[o], e, account[u])
      BY DEF MovedRows
    <2>2. ConfirmedIn(ledger[u], e.order) \in BOOLEAN
      BY DEF ConfirmedIn
    <2>3. e.type = "REFUND" => (ConfirmedIn(ledger[u], e.order) <=> transaction[o].state = "CONFIRMED")
      BY <1>1, <1>3
    <2>4. PICK settled \in BOOLEAN : settled = ConfirmedIn(ledger[u], e.order)
      BY <2>2
    <2>5. [available |-> e.available, frozen |-> e.frozen] = After(e, settled, account[u])
      <3>1. e.type = "REFUND" => (settled <=> transaction[o].state = "CONFIRMED")
        BY <2>3, <2>4
      <3>2. e \in Entry
        BY <1>1
      <3> QED BY <2>1, <3>1, <3>2, BalancesAfter
    <2> QED BY <2>4, <2>5
  <1>5. Replays(ledger[u], Opening[u], account[u])
    BY <1>1, <1>2 DEF Replay
  <1>6. Replays(Append(ledger[u], e), Opening[u], [available |-> e.available, frozen |-> e.frozen])
    BY <1>1, <1>4, <1>5, ReplaysAppend
  <1>7. ASSUME NEW x \in Users PROVE Replays(ledger'[x], Opening[x], account'[x])
    <2>1. CASE x = u
      BY <1>1, <1>6, <2>1, Zenon
    <2>2. CASE x # u
      BY <1>1, <1>2, <2>2 DEF Replay
    <2> QED BY <2>1, <2>2
  <1> QED BY <1>7 DEF Replay

\* The refund total of every order but the moved one stays.
LEMMA MovesTotals ==
  ASSUME IInv, NEW w \in Workers, NEW e, NEW row, Moves(w, e, row),
         NEW p \in Orders, p # Order(w), NEW x \in Users
  PROVE  RefundsIn(ledger'[x], p) = RefundsIn(ledger[x], p)
PROOF
  <1>0. PICK o, u : o = Order(w) /\ u = Payer(w)
    OBVIOUS
  <1> MovedRows(o, u, e, row)
    BY <1>0, MovesRows
  <1>1. /\ e \in Entry /\ e.order = o /\ p # o
        /\ ledger[u] \in Seq(Entry) /\ ledger'[u] = Append(ledger[u], e)
        /\ x # u => ledger'[x] = ledger[x]
    BY <1>0 DEF MovedRows
  <1>2. RefundsIn(ledger[u], p) \in Nat /\ RefundsIn(Append(ledger[u], e), p) = RefundsIn(ledger[u], p) + 0
    BY <1>1, RefundsInAppend
  <1>3. RefundsIn(Append(ledger[u], e), p) = RefundsIn(ledger[u], p)
    BY <1>2
  <1>4. CASE x = u
    BY <1>1, <1>3, <1>4, Zenon
  <1>5. CASE x # u
    BY <1>1, <1>5
  <1> QED BY <1>4, <1>5

\* What is done is not undone by a movement, of its own order or another one.
LEMMA MovesDone ==
  ASSUME IInv, NEW w \in Workers, NEW e, NEW row, Moves(w, e, row),
         NEW b \in Bodies, Done(b)
  PROVE  Done(b)'
PROOF
  <1>0. PICK o, u, t : o = Order(w) /\ u = Payer(w) /\ t = transaction[o]
    OBVIOUS
  <1> MovedRows(o, u, e, row)
    BY <1>0, MovesRows
  <1>1. b.op \in Ops /\ b.order \in Orders /\ (b.op = "overbill" => b.amount \in Nat \ {0})
    BY BodiesAssumption
  <1>2. CASE b.order # o
    <2>1. transaction'[b.order] = transaction[b.order] /\ quote'[b.order] = quote[b.order]
      BY <1>1, <1>2 DEF MovedRows
    <2>2. ASSUME transaction[b.order].state = "CONFIRMED"
          PROVE  RefundsIn(ledger[transaction[b.order].user], b.order)' =
                 RefundsIn(ledger[transaction[b.order].user], b.order)
      <3>1. PICK x \in Users : x = transaction[b.order].user
        <4>1. transaction[b.order] \in TransactionRow
          BY <1>1, <2>2 DEF MovedRows, TypeOK, NoRow
        <4> QED BY <4>1 DEF TransactionRow
      <3>2. RefundsIn(ledger'[x], b.order) = RefundsIn(ledger[x], b.order)
        BY <1>0, <1>1, <1>2, MovesTotals
      <3> QED BY <2>1, <3>1, <3>2
    <2> QED BY <2>1, <2>2 DEF Done, FreezeCorrelationMatches
  <1>3. CASE b.order = o
    <2>1. /\ transaction'[o] = row /\ row # NoRow /\ row.user = u
          /\ Settles(t, row, e, ledger[u]) /\ e.order = o
      BY <1>0 DEF MovedRows
    <2>2. CASE b.op = "quote"
      <3>1. quote[o] # NoRow => /\ quote'[o] # NoRow /\ quote'[o].user = quote[o].user
                                /\ quote'[o].item = quote[o].item
        BY <1>0 DEF Moves
      <3> QED BY <1>3, <2>2, <3>1 DEF Done
    <2>3. CASE b.op = "freeze"
      BY <1>0, <1>3, <2>1, <2>3 DEF Done, FreezeCorrelationMatches, Settles
    <2>4. CASE b.op = "confirm"
      BY <1>0, <1>3, <2>1, <2>4 DEF Done, Settles, NoRow
    <2>5. CASE b.op = "refund"
      BY <1>0, <1>3, <2>1, <2>5 DEF Done, Settles, NoRow
    <2>6. CASE b.op = "overbill"
      <3>1. t.state = "CONFIRMED" /\ RefundsIn(ledger[t.user], o) = b.amount /\ b.amount # 0
        BY <1>0, <1>1, <1>3, <2>6 DEF Done
      <3>2. t.user = u /\ RefundsIn(ledger[u], o) = 0
        BY <2>1, <3>1 DEF Settles, NoRow
      <3> QED BY <3>1, <3>2
    <2> QED BY <1>1, <2>2, <2>3, <2>4, <2>5, <2>6 DEF Ops
  <1> QED BY <1>2, <1>3

\* Nor does a movement disturb what any other worker knows.
LEMMA MovesOthersKnow ==
  ASSUME IInv, NEW w \in Workers, NEW e, NEW row, Moves(w, e, row),
         NEW v \in Workers \ {w}, Same(v),
         pc[v] \in Stages \ {"idempotency"} => idempotency'[Record(v)] = idempotency[Record(v)]
  PROVE  Knows(v)'
PROOF
  <1>1. CASE pc[v] \notin Stages
    BY <1>1 DEF Knows, Same
  <1>2. CASE pc[v] \in Stages
    <2>1. Knows(v) /\ req[v] \in Requests /\ TypeOK
      BY <1>2 DEF IInv, Knows
    <2>2. Order(v) \in Orders /\ Op(v) \in Ops /\ Body(v) \in Bodies
      BY <2>1, Serving
    <2>3. pc[w] = "commit" /\ Op(w) # "quote"
      BY DEF Moves
    <2>4. MovedRows(Order(w), Payer(w), e, row)
      BY MovesRows
    <2>5. ASSUME pc[v] \in {"account", "commit"}, Op(v) # "quote"
          PROVE  /\ quote'[Order(v)] = quote[Order(v)]
                 /\ transaction'[Order(v)] = transaction[Order(v)]
                 /\ Op(v) = "overbill" =>
                      RefundsIn(ledger[transaction[Order(v)].user], Order(v))' =
                      RefundsIn(ledger[transaction[Order(v)].user], Order(v))
      <3>1. Order(v) # Order(w)
        BY <2>3, <2>5, Apart
      <3>2. quote'[Order(v)] = quote[Order(v)] /\ transaction'[Order(v)] = transaction[Order(v)]
        BY <2>2, <2>4, <3>1 DEF MovedRows
      <3>3. ASSUME Op(v) = "overbill"
            PROVE  RefundsIn(ledger[transaction[Order(v)].user], Order(v))' =
                   RefundsIn(ledger[transaction[Order(v)].user], Order(v))
        <4>1. MaySettle(v)
          BY <1>2, <2>1, <2>5, <3>3 DEF Knows, Settling
        <4>2. PICK x \in Users : x = transaction[Order(v)].user
          <5>1. transaction[Order(v)] \in TransactionRow
            BY <2>1, <2>2, <4>1 DEF MaySettle, TypeOK
          <5> QED BY <5>1 DEF TransactionRow
        <4>3. PICK p \in Orders : p = Order(v)
          BY <2>2
        <4>4. RefundsIn(ledger'[x], p) = RefundsIn(ledger[x], p)
          BY <3>1, <4>3, MovesTotals
        <4>5. Order(v)' = Order(v)
          BY SameParts DEF Same
        <4> QED BY <3>2, <4>2, <4>3, <4>4, <4>5
      <3> QED BY <3>2, <3>3
    <2>6. ASSUME pc[v] = "commit", Op(v) # "quote" PROVE account'[Payer(v)] = account[Payer(v)]
      <3>1. Payer(v) # Payer(w)
        BY <2>3, <2>6, Apart
      <3>2. Payer(v) \in Users
        BY <2>6, PayerOwns
      <3> QED BY <2>4, <3>1, <3>2 DEF MovedRows
    <2>7. ASSUME pc[v] = "existing" PROVE Done(Body(v))'
      <3>1. PICK b \in Bodies : b = Body(v) /\ Done(b)
        BY <1>2, <2>1, <2>2, <2>7 DEF Knows
      <3>2. Done(b)'
        BY <3>1, MovesDone
      <3>3. Body(v)' = b
        BY <3>1, SameParts DEF Same
      <3> QED BY <3>2, <3>3 DEF Done, FreezeCorrelationMatches
    <2> QED BY <1>2, <2>1, <2>5, <2>6, <2>7, KnowsFrame
  <1> QED BY <1>1, <1>2

\* The freeze still honours the quote of its order, and so do the others.
LEMMA MovesFreezeHonoursQuote ==
  ASSUME IInv, NEW w \in Workers, NEW e, NEW row, Moves(w, e, row)
  PROVE  FreezeHonoursQuote'
PROOF
  <1>0. PICK o : o = Order(w)
    OBVIOUS
  <1>1. /\ \A p \in Orders \ {o} : transaction'[p] = transaction[p] /\ quote'[p] = quote[p]
        /\ transaction'[o] = row /\ row # NoRow
    <2>1. PICK u : u = Payer(w)
      OBVIOUS
    <2>2. MovedRows(o, u, e, row)
      BY <1>0, <2>1, MovesRows
    <2> QED BY <2>2 DEF MovedRows
  <1>2. /\ quote'[o].state = "CONSUMED" /\ row.user = quote'[o].user
        /\ row.amount = quote'[o].amount /\ row.frozen_at < quote'[o].expires_at
    BY <1>0 DEF Moves
  <1>3. FreezeHonoursQuote
    BY DEF IInv, Books
  <1> QED BY <1>1, <1>2, <1>3 DEF FreezeHonoursQuote

\* What was asked for is done.
LEMMA MovesFulfil ==
  ASSUME IInv, NEW w \in Workers, NEW e, NEW row, Moves(w, e, row),
         NEW b \in Bodies, b = Body(w), Fulfils(b, row, e)
  PROVE  Done(b)'
PROOF
  <1>0. PICK u : u = Payer(w)
    OBVIOUS
  <1>1. b.order = Order(w) /\ b.op \in {"freeze", "confirm", "refund", "overbill"} /\ b.ref = b.order
    BY DEF Order, Fulfils, Settling
  <1>2. MovedRows(b.order, u, e, row)
    BY <1>0, <1>1, MovesRows
  <1>3. transaction'[b.order] = row /\ row # NoRow /\ row.user = b.user
    BY <1>2 DEF MovedRows, Fulfils
  <1>4. CASE b.op = "freeze"
    BY <1>1, <1>3, <1>4 DEF Done, Fulfils, FreezeCorrelationMatches
  <1>5. CASE b.op = "confirm"
    BY <1>1, <1>3, <1>5 DEF Done, Fulfils
  <1>6. CASE b.op = "refund"
    BY <1>1, <1>3, <1>6 DEF Done, Fulfils
  <1>7. CASE b.op = "overbill"
    <2>1. e.type = "REFUND" /\ row.state = "CONFIRMED" /\ e.amount = b.amount /\ e.order = b.order
      BY <1>2, <1>7 DEF Fulfils, MovedRows
    <2>2. RefundsIn(ledger[u], b.order) = 0
      BY <1>2, <2>1 DEF MovedRows, Settles
    <2>3. /\ ledger[u] \in Seq(Entry) /\ e \in Entry /\ e.amount \in Nat
          /\ ledger'[u] = Append(ledger[u], e) /\ row.user = u
      BY <1>2 DEF MovedRows, Entry
    <2>4. RefundsIn(Append(ledger[u], e), b.order) = 0 + e.amount
      BY <2>1, <2>2, <2>3, RefundsInAppend
    <2>5. RefundsIn(Append(ledger[u], e), b.order) = b.amount
      BY <2>1, <2>3, <2>4
    <2>6. RefundsIn(ledger'[transaction'[b.order].user], b.order) = b.amount
      BY <1>3, <2>3, <2>5, Zenon
    <2> QED BY <1>1, <1>3, <1>7, <2>1, <2>6 DEF Done
  <1> QED BY <1>1, <1>4, <1>5, <1>6, <1>7

\* The four commits that move points preserve the invariant.
LEMMA MovesInv ==
  ASSUME IInv, NEW w \in Workers, UNCHANGED <<clock, cleaner>>,
         NEW e, NEW row, Moves(w, e, row), Fulfils(Body(w), row, e)
  PROVE  IInv'
PROOF
  <1>1. pc[w] = "commit" /\ SaveIdempotency(w) /\ Answer(w, "ok")
    BY DEF Moves
  <1>2. /\ Alone(w) /\ Exclusion' /\ Knows(w)' /\ RestTyped'
        /\ accepted' = accepted \union {Body(w)}
        /\ \A k \in Ops \X Keys : idempotency'[k] # None => idempotency'[k].body \in accepted'
        /\ \A v \in Workers \ {w} : pc[v] \in Stages \ {"idempotency"} =>
             idempotency'[Record(v)] = idempotency[Record(v)]
    BY <1>1, CommitAnswers
  <1>3. ASSUME NEW v \in Workers PROVE Knows(v)'
    <2>1. CASE v = w
      BY <1>2, <2>1
    <2>2. CASE v # w
      BY <1>2, <2>2, MovesOthersKnow DEF Alone, Same
    <2> QED BY <2>1, <2>2
  <1>4. TypeOK /\ AcceptedDone
    BY DEF IInv
  <1>5. AcceptedDone'
    <2>1. PICK b : b = Body(w)
      OBVIOUS
    <2>2. b \in Bodies
      BY <2>1, <1>1, InService, Serving DEF Stages
    <2>3. \A x \in accepted : Done(x)'
      BY <1>4, MovesDone DEF AcceptedDone, TypeOK
    <2>4. Done(b)'
      BY <2>1, <2>2, MovesFulfil
    <2>5. accepted' = accepted \union {b}
      BY <1>2, <2>1
    <2> QED BY <1>2, <2>3, <2>4, <2>5 DEF AcceptedDone
  <1>6. TypeOK'
    <2>0. PICK o, u : o = Order(w) /\ u = Payer(w)
      OBVIOUS
    <2>1. MovedRows(o, u, e, row)
      BY <2>0, MovesRows
    <2>2. [available |-> e.available, frozen |-> e.frozen] \in Balance
      BY <2>1 DEF MovedRows, Entry, Balance
    <2>3. account' \in [Users -> Balance]
      BY <1>4, <2>0, <2>1, <2>2 DEF Moves, TypeOK, MovedRows
    <2>4. transaction' \in [Orders -> TransactionRow \union {NoRow}]
      BY <1>4, <2>0, <2>1 DEF Moves, TypeOK, MovedRows
    <2>5. Append(ledger[u], e) \in Seq(Entry)
      BY <2>1, AppendEntry DEF MovedRows
    <2>6. ledger' = [ledger EXCEPT ![u] = Append(ledger[u], e)] /\ ledger \in [Users -> Seq(Entry)]
      BY <1>4, <2>0 DEF Moves, TypeOK
    <2>7. ledger' \in [Users -> Seq(Entry)]
      BY <2>5, <2>6
    <2>8. quote' \in [Orders -> QuoteRow \union {NoRow}]
      BY DEF Moves
    <2> QED BY <1>2, <2>3, <2>4, <2>7, <2>8 DEF TypeOK, RestTyped, SeenRows
  <1>7. Books'
    BY MovesFreezeHonoursQuote, MovesLedgerMatches, MovesReplay DEF Books
  <1> QED BY <1>2, <1>3, <1>5, <1>6, <1>7 DEF IInv

-----------------------------------------------------------------------------

\* A request served before under another key is only recorded under this one.
LEMMA CommitExistingInv ==
  ASSUME IInv, NEW w \in Workers, CommitExisting(w), UNCHANGED <<clock, cleaner>>
  PROVE  IInv'
PROOF
  <1>1. /\ pc[w] = "existing" /\ pc[w] \in Stages \ {"idempotency"}
        /\ SaveIdempotency(w) /\ Answer(w, "ok")
        /\ UNCHANGED <<account, quote, transaction, ledger>>
    BY DEF CommitExisting, Stages
  <1>2. /\ Alone(w) /\ Exclusion' /\ Knows(w)' /\ RestTyped'
        /\ accepted' = accepted \union {Body(w)}
        /\ \A k \in Ops \X Keys : idempotency'[k] # None => idempotency'[k].body \in accepted'
        /\ \A v \in Workers \ {w} : pc[v] \in Stages \ {"idempotency"} =>
             idempotency'[Record(v)] = idempotency[Record(v)]
    BY <1>1, CommitAnswers
  <1>3. TypeOK /\ AcceptedDone /\ Done(Body(w))
    BY <1>1 DEF IInv, Knows
  <1>4. TypeOK'
    BY <1>1, <1>2, <1>3 DEF TypeOK, RestTyped, SeenRows
  <1>5. AcceptedDone'
    <2>1. PICK b : b = Body(w)
      OBVIOUS
    <2>2. \A x \in accepted \union {b} : Done(x)'
      BY <1>1, <1>3, <2>1, DoneUnchanged DEF AcceptedDone
    <2> QED BY <1>2, <2>1, <2>2 DEF AcceptedDone
  <1> QED BY <1>1, <1>2, <1>4, <1>5, QuietStep

\* A new quote, on the terms of its request.
LEMMA CommitQuoteInv ==
  ASSUME IInv, NEW w \in Workers, CommitQuote(w), UNCHANGED <<clock, cleaner>>
  PROVE  IInv'
PROOF
  <1>0. PICK o, q, b : o = Order(w) /\ q = seen[w].quote /\ b = Body(w)
    OBVIOUS
  <1>1. /\ pc[w] = "commit" /\ Op(w) = "quote" /\ quote[o] = NoRow
        /\ quote' = [quote EXCEPT ![o] = q]
        /\ SaveIdempotency(w) /\ Answer(w, "ok")
        /\ UNCHANGED <<account, transaction, ledger>>
    BY <1>0 DEF CommitQuote
  <1>2. /\ Alone(w) /\ Exclusion' /\ Knows(w)' /\ RestTyped'
        /\ accepted' = accepted \union {b}
        /\ \A k \in Ops \X Keys : idempotency'[k] # None => idempotency'[k].body \in accepted'
        /\ \A v \in Workers \ {w} : pc[v] \in Stages \ {"idempotency"} =>
             idempotency'[Record(v)] = idempotency[Record(v)]
    BY <1>0, <1>1, CommitAnswers
  <1>3. TypeOK /\ AcceptedDone /\ Books
    BY DEF IInv
  <1>4. o \in Orders /\ MayQuote(w) /\ req[w] \in Requests
    BY <1>0, <1>1, AtCommit
  <1>5. /\ b \in Bodies /\ b.order = o /\ b.op = "quote"
    BY <1>0, <1>1, <1>3, <1>4, Serving DEF Order, Op
  <1>6. /\ q \in QuoteRow /\ q.state = "ACTIVE" /\ q.user = b.user /\ q.item = b.detail
        /\ q # NoRow
    BY <1>0, <1>4 DEF MayQuote, NoRow
  <1>7. quote'[o] = q /\ \A p \in Orders \ {o} : quote'[p] = quote[p]
    BY <1>1, <1>3, <1>4 DEF TypeOK
  <1>8. transaction[o] = NoRow
    BY <1>1, <1>3, <1>4 DEF Books, FreezeHonoursQuote, NoRow
  <1>9. TypeOK'
    <2>1. quote' \in [Orders -> QuoteRow \union {NoRow}]
      BY <1>1, <1>3, <1>6 DEF TypeOK
    <2> QED BY <1>1, <1>2, <1>3, <2>1 DEF TypeOK, RestTyped, SeenRows
  <1>10. Books'
    <2>1. FreezeHonoursQuote'
      BY <1>1, <1>3, <1>6, <1>7, <1>8 DEF Books, FreezeHonoursQuote
    <2>2. LedgerMatches'
      BY <1>1, <1>3 DEF Books, LedgerMatches, EntryFits
    <2>3. Replay'
      BY <1>1, <1>3 DEF Books, Replay
    <2> QED BY <2>1, <2>2, <2>3 DEF Books
  <1>11. ASSUME NEW x \in Bodies, Done(x) PROVE Done(x)'
    <2>1. x.order \in Orders
      BY BodiesAssumption
    <2>2. x.op = "quote" => quote'[x.order] = quote[x.order]
      BY <1>1, <1>7, <1>11, <2>1 DEF Done
    <2> QED BY <1>1, <1>11, <2>2 DEF Done, FreezeCorrelationMatches
  <1>12. Done(b)'
    BY <1>5, <1>6, <1>7 DEF Done
  <1>13. AcceptedDone'
    BY <1>2, <1>3, <1>11, <1>12 DEF AcceptedDone, TypeOK
  <1>14. ASSUME NEW v \in Workers \ {w} PROVE Knows(v)'
    <2>1. Same(v)
      BY <1>2 DEF Alone, Same
    <2>2. CASE pc[v] \notin Stages
      BY <2>1, <2>2 DEF Knows, Same
    <2>3. CASE pc[v] \in Stages
      <3>1. Knows(v) /\ req[v] \in Requests
        BY <2>3 DEF IInv, Knows
      <3>2. Order(v) \in Orders /\ Op(v) \in Ops /\ Body(v) \in Bodies
        BY <1>3, <3>1, Serving
      <3>3. ASSUME pc[v] \in {"account", "commit"}, Op(v) # "quote"
            PROVE  /\ quote'[Order(v)] = quote[Order(v)]
                   /\ transaction'[Order(v)] = transaction[Order(v)]
        <4>1. Op(v) = "freeze" => quote[Order(v)] # NoRow
          BY <2>3, <3>1, <3>3 DEF Knows, MayFreeze
        <4>2. Op(v) # "freeze" => transaction[Order(v)] # NoRow
          BY <2>3, <3>1, <3>2, <3>3 DEF Knows, MaySettle, Settling, Ops
        <4>3. Order(v) # o
          BY <1>1, <1>8, <4>1, <4>2
        <4> QED BY <1>1, <1>7, <3>2, <4>3
      <3>4. ASSUME pc[v] = "existing" PROVE Done(Body(v))'
        <4>1. PICK x \in Bodies : x = Body(v) /\ Done(x)
          BY <2>3, <3>1, <3>2, <3>4 DEF Knows
        <4>2. Body(v)' = x
          BY <2>1, <4>1, SameParts DEF Same
        <4>3. Done(x)'
          BY <1>11, <4>1
        <4> QED BY <4>2, <4>3 DEF Done, FreezeCorrelationMatches
      <3>5. Order(v)' = Order(v)
        BY <2>1, SameParts DEF Same
      <3>6. pc[v] \in {"account", "commit"} /\ Op(v) # "quote" =>
              RefundsIn(ledger[transaction[Order(v)].user], Order(v))' =
              RefundsIn(ledger[transaction[Order(v)].user], Order(v))
        BY <1>1, <3>5
      <3>7. pc[v] # "idempotency" => idempotency'[Record(v)] = idempotency[Record(v)]
        BY <1>2, <2>3
      <3> QED BY <1>1, <2>1, <3>1, <3>3, <3>4, <3>6, <3>7, KnowsFrame
    <2> QED BY <2>2, <2>3
  <1>15. \A v \in Workers : Knows(v)'
    BY <1>2, <1>14
  <1> QED BY <1>2, <1>9, <1>10, <1>13, <1>15 DEF IInv

-----------------------------------------------------------------------------

\* Nothing is quoted, paid, recorded or accepted at the start.
LEMMA InitInv == Init => IInv
PROOF
  <1> SUFFICES ASSUME Init PROVE IInv
    OBVIOUS
  <1>1. TypeOK
    <2>1. \A u \in Users : [available |-> Opening[u], frozen |-> 0] \in Balance
      BY WalletOpeningAssumption DEF Balance
    <2>2. account \in [Users -> Balance]
      BY <2>1 DEF Init
    <2>3. ledger \in [Users -> Seq(Entry)]
      BY DEF Init
    <2> QED BY <2>2, <2>3 DEF Init, TypeOK, NothingSeen, Idle
  <1>2. FreezeHonoursQuote
    BY DEF Init, FreezeHonoursQuote, NoRow
  <1>3. LedgerMatches
    BY DEF Init, LedgerMatches, NoRow
  <1>4. Replay
    <2>1. ASSUME NEW u \in Users PROVE Replays(ledger[u], Opening[u], account[u])
      <3>1. ledger[u] = <<>> /\ account[u] = [available |-> Opening[u], frozen |-> 0]
        BY DEF Init
      <3>2. Len(ledger[u]) = 0 /\ 1 .. 0 = {}
        BY <3>1
      <3> QED BY <3>1, <3>2 DEF Replays, Left
    <2> QED BY <2>1 DEF Replay
  <1>5. AcceptedDone
    BY DEF Init, AcceptedDone
  <1>6. Exclusion
    BY DEF Init, Exclusion
  <1>7. \A w \in Workers : Knows(w)
    BY DEF Init, Knows, Stages
  <1> QED BY <1>1, <1>2, <1>3, <1>4, <1>5, <1>6, <1>7 DEF IInv, Books

\* IInv is inductive: one step per action.
LEMMA NextInv == IInv /\ [Next]_vars => IInv'
PROOF
  <1> SUFFICES ASSUME IInv, [Next]_vars PROVE IInv'
    OBVIOUS
  <1>1. ASSUME NEW w \in Workers, Serve(w) PROVE IInv'
    <2>1. UNCHANGED <<clock, cleaner>> /\ (Receive(w) \/ Advance(w) \/ Abort(w))
      BY <1>1 DEF Serve
    <2>2. CASE Receive(w)
      BY <2>1, <2>2, ReceiveInv
    <2>3. CASE Abort(w) \/ RefuseQuote(w)
      BY <2>1, <2>3, RefusalInv
    <2>4. CASE LockIdempotency(w)
      BY <2>1, <2>4, LockIdempotencyInv
    <2>5. CASE LockOrder(w)
      BY <2>1, <2>5, LockOrderInv
    <2>6. CASE PriceQuote(w)
      BY <2>1, <2>6, PriceQuoteInv
    <2>7. CASE LockQuote(w)
      BY <2>1, <2>7, LockQuoteInv
    <2>8. CASE LockTransaction(w)
      BY <2>1, <2>8, LockTransactionInv
    <2>9. CASE LockAccount(w)
      BY <2>1, <2>9, LockAccountInv
    <2>10. CASE CommitExisting(w)
      BY <2>1, <2>10, CommitExistingInv
    <2>11. CASE CommitQuote(w)
      BY <2>1, <2>11, CommitQuoteInv
    <2>12. CASE CommitFreeze(w)
      BY <2>1, <2>12, CommitFreezeMoves, MovesInv
    <2>13. CASE CommitConfirm(w)
      BY <2>1, <2>13, CommitConfirmMoves, MovesInv
    <2>14. CASE CommitRefund(w)
      BY <2>1, <2>14, CommitRefundMoves, MovesInv
    <2>15. CASE CommitOverbill(w)
      BY <2>1, <2>15, CommitOverbillMoves, MovesInv
    <2> QED BY <2>1, <2>2, <2>3, <2>4, <2>5, <2>6, <2>7, <2>8, <2>9, <2>10, <2>11,
               <2>12, <2>13, <2>14, <2>15 DEF Advance
  <1>2. CASE UNCHANGED vars
    <2>1. UNCHANGED <<account, quote, transaction, ledger, idempotency, workers, clock, cleaner, accepted>>
      BY <1>2 DEF vars, tables
    <2>2. TypeOK
      BY DEF IInv
    <2> QED BY <2>1, <2>2, HousekeepingInv DEF TypeOK
  <1>3. CASE Next
    BY <1>1, <1>3, HousekeepingSteps DEF Next
  <1> QED BY <1>2, <1>3

\* The invariant holds in every reachable state.
LEMMA InvariantHolds == Spec => []IInv
PROOF
  <1>1. Init => IInv
    BY InitInv
  <1>2. IInv /\ [Next]_vars => IInv'
    BY NextInv
  <1> QED BY <1>1, <1>2, PTL DEF Spec

\* However requests of service.py interleave, fail and are retried: rows keep
\* their shape, no balance is negative, the ledger replays to the balances, and
\* what clients were told has been done and stays done.
THEOREM BooksSound == Spec => []BooksAreSound
PROOF
  <1>1. ASSUME IInv PROVE BooksAreSound
    <2>1. TypeOK /\ Replay /\ AcceptedDone /\ FreezeHonoursQuote
      BY <1>1 DEF IInv, Books
    <2>2. LedgerReplays
      BY <2>1, ReplayIsLedgerReplays
    <2>3. ASSUME NEW b \in accepted
          PROVE CASE b.op = "quote"    -> quote[b.order] # NoRow /\ quote[b.order].user = b.user
                  [] b.op = "freeze"   -> transaction[b.order] # NoRow
                  [] b.op = "confirm"  -> transaction[b.order].state = "CONFIRMED"
                  [] b.op = "refund"   -> transaction[b.order].state = "REFUNDED"
                  [] b.op = "overbill" -> /\ transaction[b.order].state = "CONFIRMED"
                                          /\ RefundTotal(b.order) = b.amount
      <3>1. Done(b) /\ b.op \in Ops
        BY <2>1, BodiesAssumption DEF AcceptedDone, TypeOK
      <3>2. RefundTotal(b.order) = RefundsIn(ledger[transaction[b.order].user], b.order)
        BY DEF RefundTotal, RefundsIn
      <3>3. CASE b.op = "quote"
        BY <3>1, <3>3 DEF Done
      <3>4. CASE b.op = "freeze"
        BY <3>1, <3>4 DEF Done
      <3>5. CASE b.op = "confirm"
        BY <3>1, <3>5 DEF Done
      <3>6. CASE b.op = "refund"
        BY <3>1, <3>6 DEF Done
      <3>7. CASE b.op = "overbill"
        BY <3>1, <3>2, <3>7 DEF Done
      <3> QED BY <3>1, <3>3, <3>4, <3>5, <3>6, <3>7 DEF Ops
    <2>4. AcceptedHolds
      BY <2>3 DEF AcceptedHolds
    <2> QED BY <2>1, <2>2, <2>4 DEF BooksAreSound
  <1> QED BY <1>1, InvariantHolds, PTL

\* A freeze is paid at the quoted price, by the quoted owner, in time and once.
THEOREM FreezesHonourQuotes == Spec => []FreezeHonoursQuote
PROOF
  <1>1. IInv => FreezeHonoursQuote
    BY DEF IInv, Books
  <1> QED BY <1>1, InvariantHolds, PTL

-----------------------------------------------------------------------------

\* A step of a worker is no step of another one.
LEMMA ServeAlone ==
  ASSUME IInv, NEW w \in Workers, Serve(w)
  PROVE  Alone(w)
PROOF
  <1>1. TypeOK
    BY DEF IInv
  <1>2. CASE Receive(w)
    BY <1>1, <1>2 DEF Receive, Alone, TypeOK
  <1>3. ASSUME NEW answer, Answer(w, answer) PROVE Alone(w)
    BY <1>1, <1>3 DEF TypeOK, Answer, Alone
  <1>4. ASSUME NEW stage, NEW rows, Proceed(w, stage, rows), held' = held \/ Take(w) PROVE Alone(w)
    BY <1>1, <1>4, ProceedAlone
  <1>5. CASE LockIdempotency(w) \/ LockOrder(w)
    BY <1>3, <1>4, <1>5 DEF LockIdempotency, LockOrder, CheckIdempotency, AnswerNoWrite
  <1>6. CASE PriceQuote(w) \/ RefuseQuote(w)
    BY <1>3, <1>4, <1>6 DEF PriceQuote, RefuseQuote, AnswerNoWrite
  <1>7. CASE LockQuote(w) \/ LockTransaction(w) \/ LockAccount(w)
    BY <1>3, <1>4, <1>7 DEF LockQuote, LockTransaction, LockAccount, LockRow, AnswerNoWrite
  <1>8. CASE CommitExisting(w) \/ CommitQuote(w) \/ Abort(w)
    BY <1>3, <1>8 DEF CommitExisting, CommitQuote, Abort, AnswerNoWrite
  <1>9. CASE CommitFreeze(w) \/ CommitConfirm(w) \/ CommitRefund(w) \/ CommitOverbill(w)
    BY <1>3, <1>9 DEF CommitFreeze, CommitConfirm, CommitRefund, CommitOverbill, Write
  <1> QED BY <1>2, <1>5, <1>6, <1>7, <1>8, <1>9 DEF Serve, Advance

\* A request is refused only where its operation refuses it, and then not when
\* it was accepted before, but for the exceptions RetryAccepted names.
LEMMA RefusalsJustified ==
  ASSUME IInv, NEW w \in Workers, Serve(w), Answered(w, {"rejected", "conflict"})
  PROVE  /\ pc'[w] = "rejected" /\ Body(w) \in accepted =>
              \/ Op(w) = "overbill"
              \/ Op(w) = "freeze" /\ transaction[Order(w)].state = "CONFIRMED"
         /\ \/ idempotency[Record(w)] = None
            \/ idempotency[Record(w)].body # Body(w)
PROOF
  <1>0. pc[w] \in Stages /\ pc'[w] \in {"rejected", "conflict"}
    BY DEF Answered
  <1>1. /\ TypeOK /\ AcceptedDone /\ FreezeHonoursQuote
        /\ req[w] \in Requests /\ OnRoute(w)
        /\ pc[w] # "idempotency" => idempotency[Record(w)] = None
    BY <1>0, InService
  <1>2. /\ Order(w) \in Orders /\ Op(w) \in Ops /\ Body(w) \in Bodies
        /\ Order(w) = Body(w).order /\ Op(w) = Body(w).op
        /\ req[w].now \in Nat
    BY <1>1, Serving DEF Order, Op
  <1>3. Body(w) \in accepted => Done(Body(w))
    BY <1>1 DEF AcceptedDone
  <1>4. ASSUME NEW answer, Answer(w, answer) PROVE pc'[w] = answer
    BY <1>1, <1>4 DEF TypeOK, Answer
  <1>5. ASSUME NEW stage, NEW rows, Proceed(w, stage, rows) PROVE pc'[w] = stage
    BY <1>1, <1>5 DEF TypeOK, Proceed
  <1>6. CASE Receive(w)
    BY <1>0, <1>6 DEF Receive, Idle, Answers, Stages
  <1>7. CASE LockIdempotency(w)
    <2>1. idempotency[Record(w)] # None
      BY <1>0, <1>5, <1>7 DEF LockIdempotency, CheckIdempotency
    <2>2. pc'[w] = IF idempotency[Record(w)].body = Body(w) THEN "ok" ELSE "conflict"
      BY <1>4, <1>7, <2>1 DEF LockIdempotency, CheckIdempotency, AnswerNoWrite
    <2> QED BY <1>0, <2>2
  <1>8. CASE LockOrder(w)
    <2>1. pc'[w] \in {"price", "quote"}
      BY <1>1, <1>5, <1>8 DEF LockOrder, CheckIdempotency
    <2> QED BY <1>0, <2>1
  <1>9. CASE PriceQuote(w)
    <2>1. pc'[w] \in {"commit", "existing"}
      BY <1>5, <1>9 DEF PriceQuote
    <2> QED BY <1>0, <2>1
  <1>10. CASE RefuseQuote(w)
    <2>1. pc[w] = "price" /\ Op(w) = "quote"
      BY <1>1, <1>10 DEF RefuseQuote, OnRoute
    <2>2. ~Done(Body(w))
      BY <1>2, <1>10, <2>1 DEF RefuseQuote, Done
    <2> QED BY <1>1, <1>3, <2>1, <2>2
  <1>11. CASE LockQuote(w)
    <2>1. pc[w] = "quote" /\ Op(w) = "freeze"
      BY <1>1, <1>11 DEF LockQuote, OnRoute
    <2>2. FreezeVerdict(w) \in {"rejected", "existing", "account"}
      BY DEF FreezeVerdict
    <2>3. FreezeVerdict(w) = "rejected"
      BY <1>0, <1>5, <1>11, <2>2 DEF LockQuote, LockRow
    <2>4. ASSUME Done(Body(w)) PROVE transaction[Order(w)].state = "CONFIRMED"
      <3>1. /\ Body(w).ref = Order(w) /\ transaction[Order(w)] # NoRow
            /\ transaction[Order(w)].user = Body(w).user
            /\ transaction[Order(w)].state # "CONFIRMED" =>
                 FreezeCorrelationMatches(transaction[Order(w)].correlation, Body(w).detail)
        BY <1>2, <2>1, <2>4 DEF Done
      <3>2. quote[Order(w)] # NoRow /\ quote[Order(w)].user = Body(w).user
        BY <1>1, <1>2, <3>1 DEF FreezeHonoursQuote, NoRow
      <3> QED BY <2>3, <3>1, <3>2 DEF FreezeVerdict, Owns
    <2> QED BY <1>1, <1>3, <2>1, <2>4
  <1>12. CASE LockTransaction(w)
    <2>1. pc[w] = "transaction" /\ Op(w) \in Settling
      BY <1>1, <1>12 DEF LockTransaction, OnRoute
    <2>2. SettleVerdict(w) = "rejected"
      <3>1. ASSUME SettleVerdict(w) # "rejected" PROVE FALSE
        <4>1. SettleVerdict(w) \in {"existing", "account"}
          BY <1>1, <2>1, <3>1, SettleVerdictMeans
        <4>2. pc'[w] = SettleVerdict(w)
          BY <1>5, <1>12, <3>1 DEF LockTransaction, LockRow
        <4> QED BY <1>0, <4>1, <4>2
      <3> QED BY <3>1
    <2>3. ASSUME Done(Body(w)), Op(w) = "confirm" PROVE FALSE
      <3>1. /\ Owns(w, transaction) /\ transaction[Order(w)].state = "CONFIRMED"
            /\ transaction[Order(w)].correlation = Body(w).detail /\ ~Body(w).detail.legacy
        BY <1>2, <2>3 DEF Done, Owns, NoRow
      <3>2. SettleVerdict(w) = ConfirmVerdict(w)
        BY <2>3, <3>1 DEF SettleVerdict
      <3>3. ConfirmVerdict(w) = "existing"
        BY <3>1 DEF ConfirmVerdict
      <3> QED BY <2>2, <3>2, <3>3
    <2>4. ASSUME Done(Body(w)), Op(w) = "refund" PROVE FALSE
      <3>1. /\ Owns(w, transaction) /\ transaction[Order(w)].state = "REFUNDED"
            /\ transaction[Order(w)].refund = Body(w).detail
        BY <1>2, <2>4 DEF Done, Owns, NoRow
      <3>2. SettleVerdict(w) = RefundVerdict(w)
        BY <2>4, <3>1 DEF SettleVerdict
      <3>3. RefundVerdict(w) = "existing"
        BY <3>1 DEF RefundVerdict
      <3> QED BY <2>2, <3>2, <3>3
    <2> QED BY <1>1, <1>3, <2>1, <2>3, <2>4 DEF Settling
  <1>13. CASE LockAccount(w)
    <2>1. pc[w] = "account" /\ Op(w) = "freeze"
      BY <1>0, <1>5, <1>13 DEF LockAccount
    <2>2. transaction[Order(w)] = NoRow
      BY <1>0, <2>1 DEF IInv, Knows, MayFreeze
    <2>3. ~Done(Body(w))
      BY <1>2, <2>1, <2>2 DEF Done
    <2> QED BY <1>1, <1>3, <2>1, <2>3
  <1>14. CASE CommitExisting(w) \/ CommitQuote(w) \/ CommitFreeze(w) \/ CommitConfirm(w)
              \/ CommitRefund(w) \/ CommitOverbill(w)
    <2>1. Answer(w, "ok")
      BY <1>14 DEF CommitExisting, CommitQuote, CommitFreeze, CommitConfirm, CommitRefund,
                   CommitOverbill, Write
    <2> QED BY <1>0, <1>4, <2>1
  <1>15. CASE Abort(w)
    BY <1>0, <1>4, <1>15 DEF Abort, AnswerNoWrite
  <1> QED BY <1>6, <1>7, <1>8, <1>9, <1>10, <1>11, <1>12, <1>13, <1>14, <1>15 DEF Serve, Advance

-----------------------------------------------------------------------------

\* A step of a worker leaves the billed rows alone, quotes an order, or moves
\* points for one.
LEMMA ServeTables ==
  ASSUME IInv, NEW w \in Workers, Serve(w)
  PROVE  \/ UNCHANGED <<account, quote, transaction, ledger>>
         \/ CommitQuote(w)
         \/ \E e, row : Moves(w, e, row) /\ Fulfils(Body(w), row, e)
PROOF
  <1>1. CASE Receive(w)
    BY <1>1 DEF Receive, tables
  <1>2. CASE LockIdempotency(w) \/ LockOrder(w)
    BY <1>2 DEF LockIdempotency, LockOrder, CheckIdempotency, AnswerNoWrite, Proceed, tables
  <1>3. CASE PriceQuote(w) \/ RefuseQuote(w) \/ Abort(w)
    BY <1>3 DEF PriceQuote, RefuseQuote, Abort, AnswerNoWrite, Proceed, tables
  <1>4. CASE LockQuote(w) \/ LockTransaction(w) \/ LockAccount(w)
    BY <1>4 DEF LockQuote, LockTransaction, LockAccount, LockRow, AnswerNoWrite, Proceed, tables
  <1>5. CASE CommitExisting(w)
    BY <1>5 DEF CommitExisting
  <1>6. CASE CommitFreeze(w) \/ CommitConfirm(w) \/ CommitRefund(w) \/ CommitOverbill(w)
    BY <1>6, CommitFreezeMoves, CommitConfirmMoves, CommitRefundMoves, CommitOverbillMoves
  <1> QED BY <1>1, <1>2, <1>3, <1>4, <1>5, <1>6 DEF Serve, Advance

\* Whoever answers a request in a step is the worker that takes it.
LEMMA AnswererSteps ==
  ASSUME IInv, [Next]_vars, NEW w \in Workers, pc'[w] # pc[w]
  PROVE  Serve(w)
PROOF
  <1>1. PICK v \in Workers : Serve(v)
    BY DEF Next, vars, workers
  <1>2. Alone(v)
    BY <1>1, ServeAlone
  <1> QED BY <1>1, <1>2 DEF Alone

\* A retry of what succeeded is never refused, whatever races with it, whatever
\* has been cleaned up and whatever has expired since.
THEOREM RetriesAccepted == Spec => RetryAccepted
PROOF
  <1>1. ASSUME IInv, [Next]_vars
        PROVE  [\A w \in Workers :
                  /\ Answered(w, {"rejected"}) /\ Body(w) \in accepted =>
                       \/ Op(w) = "overbill"
                       \/ Op(w) = "freeze" /\ transaction[Order(w)].state = "CONFIRMED"
                  /\ Answered(w, {"rejected", "conflict"}) =>
                       \/ idempotency[Record(w)] = None
                       \/ idempotency[Record(w)].body # Body(w)]_vars
    <2>1. ASSUME NEW w \in Workers, Answered(w, {"rejected", "conflict"}) PROVE Serve(w)
      <3>1. pc'[w] # pc[w]
        BY <2>1 DEF Answered, Stages
      <3> QED BY <1>1, <3>1, AnswererSteps
    <2>2. \A w \in Workers : Answered(w, {"rejected"}) => Answered(w, {"rejected", "conflict"})
                                                          /\ pc'[w] = "rejected"
      BY DEF Answered
    <2> QED BY <1>1, <2>1, <2>2, RefusalsJustified
  <1> QED BY <1>1, InvariantHolds, PTL DEF Spec, RetryAccepted

\* A movement of points records its key in the same commit, under a key that
\* was free: one key never pays for two bodies.
THEOREM MovementsRecorded == Spec => MovementIsRecorded
PROOF
  <1>1. ASSUME IInv, [Next]_vars
        PROVE  [\A w \in Workers :
                  ledger' # ledger /\ Answered(w, {"ok"}) =>
                    /\ idempotency[Record(w)] = None
                    /\ idempotency'[Record(w)].body = Body(w)]_vars
    <2>1. ASSUME NEW w \in Workers, ledger' # ledger, Answered(w, {"ok"})
          PROVE  /\ idempotency[Record(w)] = None
                 /\ idempotency'[Record(w)].body = Body(w)
      <3>1. pc'[w] # pc[w]
        BY <2>1 DEF Answered, Stages
      <3>2. Serve(w)
        BY <1>1, <3>1, AnswererSteps
      <3>3. \E e, row : Moves(w, e, row)
        BY <1>1, <2>1, <3>2, ServeTables DEF CommitQuote
      <3>4. pc[w] \in {"commit", "existing"} /\ SaveIdempotency(w) /\ Answer(w, "ok")
        BY <3>3 DEF Moves
      <3> QED BY <1>1, <3>2, <3>4, CommitAnswers DEF Serve
    <2> QED BY <2>1
  <1> QED BY <1>1, InvariantHolds, PTL DEF Spec, MovementIsRecorded

\* The cleanup job ends only when nothing older than its cutoff is left.
THEOREM CleanupCompletes == Spec => CleanupIsComplete
PROOF
  <1>1. ASSUME IInv, [Next]_vars
        PROVE  [cleaner # None /\ cleaner' = None =>
                  \A k \in Ops \X Keys :
                    \/ idempotency'[k] = None
                    \/ idempotency'[k].first_seen_at >= cleaner]_vars
    <2>1. ASSUME cleaner # None, cleaner' = None, NEW k \in Ops \X Keys, idempotency'[k] # None
          PROVE  idempotency'[k].first_seen_at >= cleaner
      <3>1. DeleteBatch
        BY <1>1, <2>1 DEF Next, Serve, StartCleanup, vars
      <3>2. PICK batch \in SUBSET Expired(cleaner) :
              /\ Cardinality(batch) < BatchSize => batch = Expired(cleaner)
              /\ idempotency' = [x \in Ops \X Keys |-> IF x \in batch THEN None ELSE idempotency[x]]
              /\ cleaner' = IF Cardinality(batch) < BatchSize THEN None ELSE cleaner
        BY <3>1 DEF DeleteBatch
      <3>3. batch = Expired(cleaner)
        BY <2>1, <3>2
      <3>4. idempotency'[k] = idempotency[k] /\ k \notin Expired(cleaner)
        BY <2>1, <3>2, <3>3
      <3>5. ~(idempotency[k].first_seen_at < cleaner)
        BY <2>1, <3>4 DEF Expired
      <3>6. idempotency[k].first_seen_at \in Nat /\ cleaner \in Int
        BY <1>1, <2>1, <3>4 DEF IInv, TypeOK
      <3> QED BY <3>4, <3>5, <3>6
    <2> QED BY <2>1
  <1> QED BY <1>1, InvariantHolds, PTL DEF Spec, CleanupIsComplete

-----------------------------------------------------------------------------

\* The bill OrderBilling sees of a billed order.
BillFrom(q, t, entries, o) ==
  [phase |-> PhaseOf[t.state], user |-> q.user, amount |-> q.amount,
   credit |-> IF t.state = "CONFIRMED" THEN RefundsIn(entries, o) ELSE 0]

\* BillOf, by the rows it is made from.
LEMMA BillOfRows ==
  ASSUME NEW o
  PROVE  BillOf(o) = IF quote[o] = NoRow THEN [phase |-> "none"]
                     ELSE BillFrom(quote[o], transaction[o], ledger[transaction[o].user], o)
PROOF
  BY DEF BillOf, BillFrom, RefundTotal, RefundsIn

\* An order that a step does not touch keeps its bill.
LEMMA BillKept ==
  ASSUME TypeOK, NEW p \in Orders, quote'[p] = quote[p], transaction'[p] = transaction[p],
         \A x \in Users : RefundsIn(ledger'[x], p) = RefundsIn(ledger[x], p)
  PROVE  BillOf(p)' = BillOf(p)
PROOF
  <1>1. CASE quote[p] = NoRow
    BY <1>1 DEF BillOf
  <1>2. CASE quote[p] # NoRow
    <2>1. ASSUME transaction[p].state = "CONFIRMED"
          PROVE  RefundsIn(ledger'[transaction[p].user], p) = RefundsIn(ledger[transaction[p].user], p)
      <3>1. transaction[p] \in TransactionRow
        BY <2>1 DEF TypeOK, NoRow
      <3> QED BY <3>1 DEF TransactionRow
    <2>2. /\ BillOf(p)' = BillFrom(quote[p], transaction[p], ledger'[transaction[p].user], p)
          /\ BillOf(p) = BillFrom(quote[p], transaction[p], ledger[transaction[p].user], p)
      BY <1>2, BillOfRows DEF BillOf, BillFrom, RefundTotal, RefundsIn
    <2> QED BY <2>1, <2>2 DEF BillFrom
  <1> QED BY <1>1, <1>2

\* An order that is not settled has no refund entries.
LEMMA OpenOrderHasNoRefunds ==
  ASSUME IInv, NEW o \in Orders, NEW u \in Users, transaction[o].state = "FROZEN"
  PROVE  RefundsIn(ledger[u], o) = 0
PROOF
  <1>1. ledger[u] \in Seq(Entry) /\ LedgerMatches
    BY DEF IInv, Books, TypeOK
  <1>2. \A i \in DOMAIN ledger[u] : ledger[u][i].order = o => ledger[u][i].type # "REFUND"
    BY <1>1 DEF LedgerMatches, EntryFits
  <1> QED BY <1>1, <1>2, NoRefundsIn

\* A first quote is a Quote of OrderBilling.
LEMMA CommitQuoteBills ==
  ASSUME IInv, NEW w \in Workers, CommitQuote(w)
  PROVE  Billing!Next
PROOF
  <1>0. PICK o, q : o = Order(w) /\ q = seen[w].quote
    OBVIOUS
  <1>1. /\ pc[w] = "commit" /\ Op(w) = "quote" /\ quote[o] = NoRow
        /\ quote' = [quote EXCEPT ![o] = q]
        /\ UNCHANGED <<account, transaction, ledger>>
    BY <1>0 DEF CommitQuote
  <1>2. TypeOK /\ FreezeHonoursQuote /\ o \in Orders /\ MayQuote(w)
    BY <1>0, <1>1, AtCommit
  <1>3. q \in QuoteRow /\ q.state = "ACTIVE" /\ q # NoRow
    BY <1>0, <1>2 DEF MayQuote, NoRow
  <1>4. quote'[o] = q /\ \A p \in Orders \ {o} : quote'[p] = quote[p]
    BY <1>1, <1>2 DEF TypeOK
  <1>5. transaction[o] = NoRow /\ transaction'[o] = NoRow
    BY <1>1, <1>2 DEF FreezeHonoursQuote, NoRow
  <1>6. BillOf(o) = [phase |-> "none"]
    BY <1>1 DEF BillOf
  <1>7. BillOf(o)' = [phase |-> "quoted", user |-> q.user, amount |-> q.amount, credit |-> 0]
    BY <1>3, <1>4, <1>5 DEF BillOf, PhaseOf, NoRow
  <1>8. \A p \in Orders \ {o} : BillOf(p)' = BillOf(p)
    BY <1>1, <1>2, <1>4, BillKept
  <1>9. q.user \in Users /\ q.amount \in Amounts
    BY <1>3 DEF QuoteRow
  <1> DEFINE b == [p \in Orders |-> BillOf(p)]
             c == [p \in Orders |-> BillOf(p)']
  <1>10. b[o].phase = "none"
    BY <1>2, <1>6
  <1>11. c = [b EXCEPT ![o] = [phase |-> "quoted", user |-> q.user, amount |-> q.amount, credit |-> 0]]
    BY <1>7, <1>8
  <1>12. Billing!Quote(o, q.user, q.amount)
    BY <1>1, <1>10, <1>11 DEF Billing!Quote
  <1> QED BY <1>2, <1>9, <1>12 DEF Billing!Next

\* The bill of a moved order before and after.
LEMMA MovesBill ==
  ASSUME IInv, NEW w \in Workers, NEW e, NEW row, Moves(w, e, row),
         NEW o, NEW u, NEW q, NEW t,
         o = Order(w), u = Payer(w), q = quote[o], t = transaction[o]
  PROVE  /\ o \in Orders /\ u \in Users /\ q.user = u /\ q.amount = row.amount
         /\ q.amount \in Nat
         /\ BillOf(o) = BillFrom(q, t, ledger[u], o)
         /\ BillOf(o)' = BillFrom(q, row, Append(ledger[u], e), o)
         /\ \A p \in Orders \ {o} : BillOf(p)' = BillOf(p)
PROOF
  <1>1. MovedRows(o, u, e, row)
    BY MovesRows
  <1>2. /\ q # NoRow /\ quote'[o] # NoRow
        /\ quote'[o].user = q.user /\ quote'[o].amount = q.amount
        /\ q.user = u /\ q.amount = row.amount
    BY DEF Moves
  <1>3. /\ transaction'[o] = row /\ row.user = u
        /\ ledger'[u] = Append(ledger[u], e)
        /\ t # NoRow => t.user = u
    BY <1>1 DEF MovedRows, Settles
  <1>4. q.amount \in Nat
    <2>1. row.amount \in Amounts
      BY <1>1 DEF MovedRows, TransactionRow
    <2> QED BY <1>2, <2>1, AmountsPositive
  <1>5. BillOf(o) = BillFrom(q, t, ledger[u], o)
    <2>1. BillOf(o) = BillFrom(q, t, ledger[t.user], o)
      BY <1>2, BillOfRows
    <2>2. t = NoRow => t.state # "CONFIRMED"
      BY DEF NoRow
    <2> QED BY <1>3, <2>1, <2>2 DEF BillFrom
  <1>6. BillOf(o)' = BillFrom(q, row, Append(ledger[u], e), o)
    <2>1. BillOf(o)' = BillFrom(quote'[o], row, ledger'[u], o)
      BY <1>2, <1>3 DEF BillOf, BillFrom, RefundTotal, RefundsIn
    <2>2. BillFrom(quote'[o], row, ledger'[u], o) = BillFrom(q, row, ledger'[u], o)
      BY <1>2 DEF BillFrom
    <2>3. BillFrom(q, row, ledger'[u], o) = BillFrom(q, row, Append(ledger[u], e), o)
      BY <1>3, Zenon
    <2> QED BY <2>1, <2>2, <2>3
  <1>7. ASSUME NEW p \in Orders \ {o} PROVE BillOf(p)' = BillOf(p)
    <2>1. \A x \in Users : RefundsIn(ledger'[x], p) = RefundsIn(ledger[x], p)
      BY MovesTotals
    <2> QED BY <1>1, <2>1, BillKept DEF MovedRows
  <1> QED BY <1>1, <1>2, <1>4, <1>5, <1>6, <1>7 DEF MovedRows

\* A movement is a Freeze, Confirm, Refund or Overbill of OrderBilling.
LEMMA MovesBills ==
  ASSUME IInv, NEW w \in Workers, NEW e, NEW row, Moves(w, e, row)
  PROVE  Billing!Next
PROOF
  <1>0. PICK o, u, q, t : o = Order(w) /\ u = Payer(w) /\ q = quote[o] /\ t = transaction[o]
    OBVIOUS
  <1> DEFINE b == [p \in Orders |-> BillOf(p)]
             c == [p \in Orders |-> BillOf(p)']
             before == BillFrom(q, t, ledger[u], o)
             after == BillFrom(q, row, Append(ledger[u], e), o)
  <1>1. /\ o \in Orders /\ u \in Users /\ q.user = u /\ q.amount = row.amount /\ q.amount \in Nat
        /\ BillOf(o) = before /\ BillOf(o)' = after
        /\ \A p \in Orders \ {o} : BillOf(p)' = BillOf(p)
    BY <1>0, MovesBill
  <1>2. MovedRows(o, u, e, row)
    BY <1>0, MovesRows
  <1>3. /\ e \in Entry /\ e.order = o /\ e.available \in Nat /\ e.frozen \in Nat
        /\ e.amount \in Nat \ {0}
        /\ account[u].available \in Nat /\ account[u].frozen \in Nat
        /\ account[u] = [available |-> account[u].available, frozen |-> account[u].frozen]
        /\ ledger[u] \in Seq(Entry)
    BY <1>2 DEF MovedRows, Entry, TypeOK, Balance
  <1>4. account' = [account EXCEPT ![u] = [available |-> e.available, frozen |-> e.frozen]]
    BY <1>0 DEF Moves
  <1>5. MovesBalances(t, e, account[u]) /\ Settles(t, row, e, ledger[u])
    BY <1>0, <1>2 DEF MovedRows
  <1>6. /\ RefundsIn(ledger[u], o) \in Nat
        /\ RefundsIn(Append(ledger[u], e), o) =
             RefundsIn(ledger[u], o) + (IF e.type = "REFUND" THEN e.amount ELSE 0)
    BY <1>3, RefundsInAppend
  <1>7. b[o] = before /\ c = [b EXCEPT ![o] = after]
    BY <1>1
  <1>8. b[o].user = u /\ b[o].amount = q.amount
    BY <1>1, <1>7 DEF BillFrom
  <1> HIDE DEF b, c, before, after
  <1>9. CASE t = NoRow /\ e.type = "FREEZE" /\ row.state = "FROZEN" /\ e.amount = row.amount
    <2>1. /\ before = [phase |-> "quoted", user |-> u, amount |-> q.amount, credit |-> 0]
          /\ after = [phase |-> "frozen", user |-> u, amount |-> q.amount, credit |-> 0]
      BY <1>1, <1>9 DEF before, after, BillFrom, PhaseOf, NoRow
    <2>a. b[o] = [phase |-> "quoted", user |-> u, amount |-> q.amount, credit |-> 0]
      BY <1>7, <2>1
    <2>b. c = [b EXCEPT ![o] = [phase |-> "frozen", user |-> u, amount |-> q.amount, credit |-> 0]]
      BY <1>7, <2>1
    <2>c. b[o].phase = "quoted"
      BY <2>a
    <2>d. [b[o] EXCEPT !.phase = "frozen"] = [phase |-> "frozen", user |-> u, amount |-> q.amount, credit |-> 0]
      BY <2>a, SMT
    <2>2. b[o].phase = "quoted" /\ c = [b EXCEPT ![o].phase = "frozen"]
      BY <2>b, <2>c, <2>d, Zenon
    <2>3. /\ e.available = account[u].available - q.amount
          /\ e.frozen = account[u].frozen + q.amount
      BY <1>1, <1>5, <1>9 DEF MovesBalances
    <2>4. account[u].available >= q.amount /\ e.available = account[u].available + (- q.amount)
      BY <1>1, <1>3, <2>3
    <2>5. account' = [account EXCEPT ![u] = [available |-> @.available + (- q.amount),
                                             frozen |-> @.frozen + q.amount]]
      BY <1>4, <2>3, <2>4
    <2>6. Billing!Freeze(o)
      BY <1>8, <2>2, <2>4, <2>5 DEF Billing!Freeze, Billing!Move, b, c
    <2> QED BY <1>1, <2>6 DEF Billing!Next
  <1>10. CASE t.state = "FROZEN" /\ e.type = "CONFIRM" /\ row.state = "CONFIRMED" /\ e.amount = t.amount
              /\ row.amount = t.amount
    <2>0. RefundsIn(ledger[u], o) = 0
      BY <1>0, <1>1, <1>10, OpenOrderHasNoRefunds
    <2>1. /\ before = [phase |-> "frozen", user |-> u, amount |-> q.amount, credit |-> 0]
          /\ after = [phase |-> "confirmed", user |-> u, amount |-> q.amount, credit |-> 0]
      BY <1>1, <1>6, <1>10, <2>0 DEF before, after, BillFrom, PhaseOf
    <2>a. b[o] = [phase |-> "frozen", user |-> u, amount |-> q.amount, credit |-> 0]
      BY <1>7, <2>1
    <2>b. c = [b EXCEPT ![o] = [phase |-> "confirmed", user |-> u, amount |-> q.amount, credit |-> 0]]
      BY <1>7, <2>1
    <2>c. b[o].phase = "frozen"
      BY <2>a
    <2>d. [b[o] EXCEPT !.phase = "confirmed"] = [phase |-> "confirmed", user |-> u, amount |-> q.amount, credit |-> 0]
      BY <2>a, SMT
    <2>2. b[o].phase = "frozen" /\ c = [b EXCEPT ![o].phase = "confirmed"]
      BY <2>b, <2>c, <2>d, Zenon
    <2>3. e.available = account[u].available + 0 /\ e.frozen = account[u].frozen + (- q.amount)
      BY <1>1, <1>3, <1>5, <1>10 DEF MovesBalances
    <2>4. account' = [account EXCEPT ![u] = [available |-> @.available + 0,
                                             frozen |-> @.frozen + (- q.amount)]]
      BY <1>4, <2>3
    <2>5. Billing!Confirm(o)
      BY <1>8, <2>2, <2>4 DEF Billing!Confirm, Billing!Move, b, c
    <2> QED BY <1>1, <2>5 DEF Billing!Next
  <1>11. CASE t.state = "FROZEN" /\ e.type = "REFUND" /\ row.state = "REFUNDED" /\ e.amount = t.amount
              /\ row.amount = t.amount
    <2>1. /\ before = [phase |-> "frozen", user |-> u, amount |-> q.amount, credit |-> 0]
          /\ after = [phase |-> "refunded", user |-> u, amount |-> q.amount, credit |-> 0]
      BY <1>1, <1>11 DEF before, after, BillFrom, PhaseOf
    <2>a. b[o] = [phase |-> "frozen", user |-> u, amount |-> q.amount, credit |-> 0]
      BY <1>7, <2>1
    <2>b. c = [b EXCEPT ![o] = [phase |-> "refunded", user |-> u, amount |-> q.amount, credit |-> 0]]
      BY <1>7, <2>1
    <2>c. b[o].phase = "frozen"
      BY <2>a
    <2>d. [b[o] EXCEPT !.phase = "refunded"] = [phase |-> "refunded", user |-> u, amount |-> q.amount, credit |-> 0]
      BY <2>a, SMT
    <2>2. b[o].phase = "frozen" /\ c = [b EXCEPT ![o].phase = "refunded"]
      BY <2>b, <2>c, <2>d, Zenon
    <2>3. e.available = account[u].available + q.amount /\ e.frozen = account[u].frozen + (- q.amount)
      BY <1>1, <1>3, <1>5, <1>11 DEF MovesBalances
    <2>4. account' = [account EXCEPT ![u] = [available |-> @.available + q.amount,
                                             frozen |-> @.frozen + (- q.amount)]]
      BY <1>4, <2>3
    <2>5. Billing!Refund(o)
      BY <1>8, <2>2, <2>4 DEF Billing!Refund, Billing!Move, b, c
    <2> QED BY <1>1, <2>5 DEF Billing!Next
  <1>12. CASE t.state = "CONFIRMED" /\ e.type = "REFUND" /\ row.state = "CONFIRMED" /\ e.amount <= t.amount
              /\ RefundsIn(ledger[u], o) = 0 /\ row.amount = t.amount
    <2>1. /\ before = [phase |-> "confirmed", user |-> u, amount |-> q.amount, credit |-> 0]
          /\ after = [phase |-> "confirmed", user |-> u, amount |-> q.amount, credit |-> e.amount]
      BY <1>1, <1>3, <1>6, <1>12 DEF before, after, BillFrom, PhaseOf
    <2>a. b[o] = [phase |-> "confirmed", user |-> u, amount |-> q.amount, credit |-> 0]
      BY <1>7, <2>1
    <2>b. c = [b EXCEPT ![o] = [phase |-> "confirmed", user |-> u, amount |-> q.amount, credit |-> e.amount]]
      BY <1>7, <2>1
    <2>c. b[o].phase = "confirmed" /\ b[o].credit = 0
      BY <2>a
    <2>d. [b[o] EXCEPT !.credit = e.amount] = [phase |-> "confirmed", user |-> u, amount |-> q.amount, credit |-> e.amount]
      BY <2>a, SMT
    <2>2. b[o].phase = "confirmed" /\ b[o].credit = 0 /\ c = [b EXCEPT ![o].credit = e.amount]
      BY <2>b, <2>c, <2>d, Zenon
    <2>3. e.available = account[u].available + e.amount /\ e.frozen = account[u].frozen
      BY <1>5, <1>12 DEF MovesBalances
    <2>4. account' = [account EXCEPT ![u].available = @ + e.amount]
      BY <1>3, <1>4, <2>3
    <2>5. e.amount \in 1 .. b[o].amount
      BY <1>1, <1>3, <1>8, <1>12
    <2>6. Billing!Overbill(o)
      BY <1>8, <2>2, <2>4, <2>5 DEF Billing!Overbill, b, c
    <2> QED BY <1>1, <2>6 DEF Billing!Next
  <1> QED BY <1>5, <1>9, <1>10, <1>11, <1>12, <1>3 DEF Settles

\* The wallet implements OrderBilling: Init to Init, every step to a step of
\* billing or a stutter.
THEOREM WalletImplementsBilling == Spec => ImplementsBilling
PROOF
  <1>1. Init => Billing!Init
    <2> SUFFICES ASSUME Init PROVE Billing!Init
      OBVIOUS
    <2>1. \A o \in Orders : BillOf(o) = [phase |-> "none"]
      BY DEF Init, BillOf
    <2> QED BY <2>1 DEF Init, Billing!Init, Billing!NoBill
  <1>2. ASSUME IInv, [Next]_vars PROVE [Billing!Next]_(Billing!vars)
    <2>1. CASE UNCHANGED <<account, quote, transaction, ledger>>
      <3>1. \A o \in Orders : BillOf(o)' = BillOf(o)
        BY <2>1 DEF BillOf, RefundTotal
      <3> QED BY <2>1, <3>1 DEF Billing!vars
    <2>2. ASSUME NEW w \in Workers, Serve(w) PROVE [Billing!Next]_(Billing!vars)
      BY <1>2, <2>1, <2>2, ServeTables, CommitQuoteBills, MovesBills
    <2>3. CASE ~ \E w \in Workers : Serve(w)
      BY <1>2, <2>1, <2>3 DEF Next, vars, tables
    <2> QED BY <2>2, <2>3
  <1> QED BY <1>1, <1>2, InvariantHolds, PTL DEF Spec, ImplementsBilling, Billing!Spec

-----------------------------------------------------------------------------

(***************************************************************************)
(* The reports.  The entries of every order add up to what its row says    *)
(* (RowsAddUp), and the sums over the orders and entries of every account  *)
(* fit its balance (SumsFit).  A movement of points changes one row and    *)
(* one account (Moved), hence one term of each sum.                        *)
(***************************************************************************)

\* SUM over the entries at the indices I, over those of one order and type, and
\* over the refunds of an account.
AmountAt(entries, I) == SumFunctionOnSet([i \in I |-> entries[i].amount], I)
EntriesOf(entries, o, type) ==
  {i \in DOMAIN entries : entries[i].order = o /\ entries[i].type = type}
RefundEntries(entries) == {i \in DOMAIN entries : entries[i].type = "REFUND"}
TotalIn(entries, o, type) == AmountAt(entries, EntriesOf(entries, o, type))

\* The sums of the reports, over the transactions tr and the ledgers lg.
Of(tr, u, states) == {o \in Orders : tr[o] # NoRow /\ tr[o].user = u /\ tr[o].state \in states}
Total(tr, lg, o, type) == TotalIn(lg[tr[o].user], o, type)
NetOf(tr, lg, o) ==
  IF tr[o].state = "CONFIRMED" THEN Total(tr, lg, o, "CONFIRM") - Total(tr, lg, o, "REFUND") ELSE 0
Charged(tr, u, states) ==
  SumFunctionOnSet([o \in Of(tr, u, states) |-> tr[o].amount], Of(tr, u, states))
Refunded(tr, lg, u, states) ==
  SumFunctionOnSet([o \in Of(tr, u, states) |-> Total(tr, lg, o, "REFUND")], Of(tr, u, states))
Net(tr, lg, u) ==
  SumFunctionOnSet([o \in Of(tr, u, Settled) |-> NetOf(tr, lg, o)], Of(tr, u, Settled))

\* The entries of an order add up to what its row says.
RowTotals(tr, lg, o) ==
  LET t == tr[o] IN
  /\ Total(tr, lg, o, "FREEZE") = t.amount
  /\ Total(tr, lg, o, "CONFIRM") = IF t.state = "CONFIRMED" THEN t.amount ELSE 0
  /\ t.state = "FROZEN" => Total(tr, lg, o, "REFUND") = 0
  /\ t.state = "REFUNDED" => Total(tr, lg, o, "REFUND") = t.amount /\ t.refund # None
  /\ t.state = "CONFIRMED" => Total(tr, lg, o, "REFUND") <= t.amount /\ t.correlation.call # None

RowsAddUp(tr, lg) ==
  /\ lg \in [Users -> Seq(Entry)]
  /\ \A o \in Orders : tr[o] \in TransactionRow \union {NoRow}
  /\ IsFiniteSet({o \in Orders : tr[o] # NoRow})
  /\ \A u \in Users : \A i \in DOMAIN lg[u] :
       tr[lg[u][i].order] # NoRow /\ tr[lg[u][i].order].user = u
  /\ \A o \in Orders : tr[o] # NoRow => RowTotals(tr, lg, o)

\* The sums of one account fit its balance a.
SumsFit(tr, lg, a, u) ==
  /\ a.frozen = Charged(tr, u, {"FROZEN"})
  /\ a.available + a.frozen + Charged(tr, u, {"CONFIRMED"})
       - Refunded(tr, lg, u, {"CONFIRMED"}) = Opening[u]
  /\ AmountAt(lg[u], RefundEntries(lg[u])) = Refunded(tr, lg, u, Settled)
  /\ Net(tr, lg, u) = Charged(tr, u, {"CONFIRMED"}) - Refunded(tr, lg, u, {"CONFIRMED"})

ReportInv ==
  /\ RowsAddUp(transaction, ledger)
  /\ \A u \in Users : SumsFit(transaction, ledger, account[u], u)

\* One row and one account change, as a movement of points changes them.
Moved(tr, lg, tr2, lg2, o, u, e, row) ==
  /\ o \in Orders /\ u \in Users /\ e \in Entry /\ e.order = o
  /\ row \in TransactionRow /\ row.user = u
  /\ tr2[o] = row /\ \A p \in Orders \ {o} : tr2[p] = tr[p]
  /\ lg2 \in [Users -> Seq(Entry)]
  /\ lg2[u] = Append(lg[u], e) /\ \A x \in Users \ {u} : lg2[x] = lg[x]
  /\ Settles(tr[o], row, e, lg[u])
  /\ row.state = "CONFIRMED" => row.correlation.call # None
  /\ row.state = "REFUNDED" => row.refund # None

-----------------------------------------------------------------------------

\* One more entry adds its amount to a sum that takes it in.
LEMMA AmountAtAppend ==
  ASSUME NEW s \in Seq(Entry), NEW e \in Entry,
         NEW I \in SUBSET DOMAIN s, NEW J \in SUBSET DOMAIN Append(s, e),
         J \ {Len(s) + 1} = I
  PROVE  /\ AmountAt(s, I) \in Nat
         /\ AmountAt(Append(s, e), J) =
              AmountAt(s, I) + (IF Len(s) + 1 \in J THEN e.amount ELSE 0)
PROOF
  <1> DEFINE n == Len(s)
             r == Append(s, e)
             f == [i \in I |-> s[i].amount]
             g == [i \in J |-> r[i].amount]
  <1>1. n \in Nat /\ DOMAIN s = 1 .. n /\ DOMAIN r = 1 .. n + 1
    OBVIOUS
  <1>2. \A i \in 1 .. n : r[i] = s[i] /\ s[i] \in Entry
    OBVIOUS
  <1>3. r[n + 1] = e
    OBVIOUS
  <1>4. IsFiniteSet(I) /\ IsFiniteSet(J)
    <2>1. IsFiniteSet(1 .. n) /\ IsFiniteSet(1 .. n + 1)
      BY <1>1, FS_Interval
    <2>2. I \in SUBSET (1 .. n) /\ J \in SUBSET (1 .. n + 1)
      BY <1>1
    <2> HIDE DEF n, r
    <2> QED BY <2>1, <2>2, FS_Subset
  <1>5. n + 1 \notin I /\ J \ {n + 1} = I \ {n + 1} /\ I \subseteq 1 .. n
    BY <1>1
  <1>6. e.amount \in Nat /\ \A i \in I : f[i] \in Nat
    BY <1>2, <1>5 DEF Entry
  <1> HIDE DEF r
  <1>7. /\ \A i \in I : i \in J /\ g[i] = f[i]
        /\ n + 1 \in J => g[n + 1] = e.amount
    BY <1>2, <1>3, <1>5
  <1>8. \A i \in J : g[i] \in Nat
    BY <1>6, <1>7
  <1> HIDE DEF f, g, n
  <1>9. SumFunctionOnSet(g, J) + (IF n + 1 \in I THEN f[n + 1] ELSE 0) =
          SumFunctionOnSet(f, I) + (IF n + 1 \in J THEN g[n + 1] ELSE 0)
    BY <1>4, <1>5, <1>6, <1>7, <1>8, SumChange
  <1>10. SumFunctionOnSet(f, I) \in Nat /\ SumFunctionOnSet(g, J) \in Nat
    BY <1>4, <1>6, <1>8, SumIsNat
  <1>11. SumFunctionOnSet(g, J) = SumFunctionOnSet(f, I) + (IF n + 1 \in J THEN e.amount ELSE 0)
    BY <1>5, <1>6, <1>7, <1>9, <1>10
  <1> QED BY <1>10, <1>11 DEF AmountAt, f, g, r, n

\* The total of an order and type, and the refunds of an account.
LEMMA TotalsAppend ==
  ASSUME NEW s \in Seq(Entry), NEW e \in Entry, NEW o, NEW type
  PROVE  /\ TotalIn(s, o, type) \in Nat
         /\ TotalIn(Append(s, e), o, type) =
              TotalIn(s, o, type) + (IF e.order = o /\ e.type = type THEN e.amount ELSE 0)
         /\ AmountAt(s, RefundEntries(s)) \in Nat
         /\ AmountAt(Append(s, e), RefundEntries(Append(s, e))) =
              AmountAt(s, RefundEntries(s)) + (IF e.type = "REFUND" THEN e.amount ELSE 0)
PROOF
  <1> DEFINE n == Len(s)
             r == Append(s, e)
  <1>1. n \in Nat /\ DOMAIN s = 1 .. n /\ DOMAIN r = 1 .. n + 1
        /\ (\A i \in 1 .. n : r[i] = s[i]) /\ r[n + 1] = e
    OBVIOUS
  <1> HIDE DEF r
  <1>2. /\ EntriesOf(s, o, type) \in SUBSET DOMAIN s /\ EntriesOf(r, o, type) \in SUBSET DOMAIN r
        /\ EntriesOf(r, o, type) \ {n + 1} = EntriesOf(s, o, type)
        /\ n + 1 \in EntriesOf(r, o, type) <=> e.order = o /\ e.type = type
    BY <1>1 DEF EntriesOf
  <1>3. /\ RefundEntries(s) \in SUBSET DOMAIN s /\ RefundEntries(r) \in SUBSET DOMAIN r
        /\ RefundEntries(r) \ {n + 1} = RefundEntries(s)
        /\ n + 1 \in RefundEntries(r) <=> e.type = "REFUND"
    BY <1>1 DEF RefundEntries
  <1> HIDE DEF n
  <1>4. /\ AmountAt(s, EntriesOf(s, o, type)) \in Nat
        /\ AmountAt(r, EntriesOf(r, o, type)) = AmountAt(s, EntriesOf(s, o, type))
             + (IF n + 1 \in EntriesOf(r, o, type) THEN e.amount ELSE 0)
    BY <1>2, AmountAtAppend DEF r, n
  <1>5. /\ AmountAt(s, RefundEntries(s)) \in Nat
        /\ AmountAt(r, RefundEntries(r)) = AmountAt(s, RefundEntries(s))
             + (IF n + 1 \in RefundEntries(r) THEN e.amount ELSE 0)
    BY <1>3, AmountAtAppend DEF r, n
  <1>6. /\ TotalIn(s, o, type) \in Nat
        /\ TotalIn(r, o, type) = TotalIn(s, o, type)
             + (IF e.order = o /\ e.type = type THEN e.amount ELSE 0)
    BY <1>2, <1>4 DEF TotalIn
  <1> QED BY <1>3, <1>5, <1>6 DEF r

\* An order without entries has no totals.
LEMMA NoTotals ==
  ASSUME NEW s \in Seq(Entry), NEW o, NEW type, \A i \in DOMAIN s : s[i].order # o
  PROVE  TotalIn(s, o, type) = 0
PROOF
  <1>1. EntriesOf(s, o, type) = {}
    BY DEF EntriesOf
  <1>2. IsFiniteSet({})
    BY FS_EmptySet
  <1>3. SumFunctionOnSet([i \in {} |-> s[i].amount], {}) = 0
    BY <1>2, SumOfZeroes
  <1> QED BY <1>1, <1>3 DEF TotalIn, AmountAt

\* The sum get_refund_ledger_total takes is the refund total of the reports.
LEMMA RefundsInIsTotal ==
  ASSUME NEW s \in Seq(Entry), NEW o
  PROVE  RefundsIn(s, o) = TotalIn(s, o, "REFUND")
PROOF
  <1> DEFINE S == DOMAIN s
             T == EntriesOf(s, o, "REFUND")
             f == [i \in S |-> IF s[i].order = o /\ s[i].type = "REFUND" THEN s[i].amount ELSE 0]
             g == [i \in T |-> s[i].amount]
  <1>1. IsFiniteSet(S) /\ T \in SUBSET S
    <2>1. S = 1 .. Len(s) /\ Len(s) \in Nat
      OBVIOUS
    <2>2. IsFiniteSet(1 .. Len(s))
      BY <2>1, FS_Interval
    <2> QED BY <2>1, <2>2 DEF EntriesOf
  <1>2. \A i \in S : f[i] \in Nat
    <2>1. \A i \in S : s[i] \in Entry
      OBVIOUS
    <2>2. \A x \in Entry : x.amount \in Nat
      BY DEF Entry
    <2> QED BY <2>1, <2>2
  <1>3. (\A i \in T : g[i] = f[i]) /\ \A i \in S \ T : f[i] = 0
    BY DEF EntriesOf
  <1>4. DOMAIN f = S
    OBVIOUS
  <1>5. RefundsIn(s, o) = SumFunctionOnSet(f, S)
    BY <1>4 DEF RefundsIn, SumFunction
  <1>6. TotalIn(s, o, "REFUND") = SumFunctionOnSet(g, T)
    BY DEF TotalIn, AmountAt
  <1> HIDE DEF f, g, S, T
  <1>7. SumFunctionOnSet(g, T) = SumFunctionOnSet(f, S)
    BY <1>1, <1>2, <1>3, SumOfSupport
  <1> QED BY <1>5, <1>6, <1>7

-----------------------------------------------------------------------------

\* The rows and entries a movement finds are of the right kinds.
LEMMA MovedTypes ==
  ASSUME NEW tr, NEW lg, NEW tr2, NEW lg2, NEW o, NEW u, NEW e, NEW row,
         RowsAddUp(tr, lg), Moved(tr, lg, tr2, lg2, o, u, e, row)
  PROVE  /\ o \in Orders /\ u \in Users /\ e \in Entry /\ e.order = o /\ e.amount \in Nat \ {0}
         /\ row # NoRow /\ tr2[o] = row /\ row.user = u /\ row.amount \in Nat \ {0}
         /\ row.state \in {"FROZEN", "CONFIRMED", "REFUNDED"}
         /\ lg[u] \in Seq(Entry) /\ lg2[u] = Append(lg[u], e)
         /\ tr[o] # NoRow => tr[o].user = u /\ tr[o].state \in {"FROZEN", "CONFIRMED", "REFUNDED"}
                             /\ tr[o].amount = row.amount
PROOF
  <1>1. row \in TransactionRow /\ (tr[o] # NoRow => tr[o] \in TransactionRow)
    BY DEF Moved, RowsAddUp
  <1>2. row # NoRow /\ row.amount \in Amounts /\ row.state \in {"FROZEN", "CONFIRMED", "REFUNDED"}
        /\ (tr[o] # NoRow => tr[o].state \in {"FROZEN", "CONFIRMED", "REFUNDED"})
    BY <1>1 DEF TransactionRow, NoRow
  <1>3. e.amount \in Nat \ {0}
    BY DEF Moved, Entry
  <1> QED BY <1>2, <1>3, AmountsPositive DEF Moved, RowsAddUp, Settles

\* Totals of other orders stay.
LEMMA OtherTotals ==
  ASSUME NEW tr, NEW lg, NEW tr2, NEW lg2, NEW o, NEW u, NEW e, NEW row,
         RowsAddUp(tr, lg), Moved(tr, lg, tr2, lg2, o, u, e, row),
         NEW p \in Orders, p # o, tr[p] # NoRow, NEW type
  PROVE  tr2[p] = tr[p] /\ Total(tr2, lg2, p, type) = Total(tr, lg, p, type)
PROOF
  <1> DEFINE x == tr[p].user
  <1>1. tr2[p] = tr[p]
    BY DEF Moved
  <1>2. x \in Users /\ lg[x] \in Seq(Entry)
    BY DEF RowsAddUp, TransactionRow
  <1>3. e \in Entry /\ e.order # p /\ lg2[u] = Append(lg[u], e) /\ (x # u => lg2[x] = lg[x])
    BY <1>2 DEF Moved
  <1> HIDE DEF x
  <1>4. TotalIn(Append(lg[x], e), p, type) = TotalIn(lg[x], p, type)
    BY <1>2, <1>3, TotalsAppend
  <1>5. TotalIn(lg2[x], p, type) = TotalIn(lg[x], p, type)
    <2>1. CASE x = u
      <3>1. lg2[x] = Append(lg[x], e)
        BY <1>3, <2>1, Zenon
      <3> QED BY <1>4, <3>1, Zenon
    <2>2. CASE x # u
      BY <1>3, <2>2
    <2> QED BY <2>1, <2>2
  <1> QED BY <1>1, <1>5 DEF Total, x

\* The total of an order that may not have been billed yet.
Before(tr, lg, o, type) == IF tr[o] = NoRow THEN 0 ELSE Total(tr, lg, o, type)

\* Totals of the order that is moved grow by the entry.
LEMMA OwnTotals ==
  ASSUME NEW tr, NEW lg, NEW tr2, NEW lg2, NEW o, NEW u, NEW e, NEW row,
         RowsAddUp(tr, lg), Moved(tr, lg, tr2, lg2, o, u, e, row), NEW type
  PROVE  /\ Before(tr, lg, o, type) \in Nat
         /\ Before(tr, lg, o, type) = TotalIn(lg[u], o, type)
         /\ Total(tr2, lg2, o, type) =
              Before(tr, lg, o, type) + (IF e.type = type THEN e.amount ELSE 0)
PROOF
  <1>1. /\ e \in Entry /\ e.order = o /\ row.user = u /\ tr2[o] = row
        /\ lg[u] \in Seq(Entry) /\ lg2[u] = Append(lg[u], e)
        /\ tr[o] # NoRow => tr[o].user = u
    BY MovedTypes
  <1>2. /\ TotalIn(lg[u], o, type) \in Nat
        /\ TotalIn(Append(lg[u], e), o, type) =
             TotalIn(lg[u], o, type) + (IF e.order = o /\ e.type = type THEN e.amount ELSE 0)
    BY <1>1, TotalsAppend
  <1>3. Total(tr2, lg2, o, type) = TotalIn(Append(lg[u], e), o, type)
    BY <1>1, Zenon DEF Total
  <1>4. Before(tr, lg, o, type) = TotalIn(lg[u], o, type)
    <2>1. CASE tr[o] = NoRow
      <3>1. \A i \in DOMAIN lg[u] : lg[u][i].order # o
        BY <2>1 DEF RowsAddUp, Moved
      <3>2. TotalIn(lg[u], o, type) = 0
        BY <1>1, <3>1, NoTotals
      <3> QED BY <2>1, <3>2 DEF Before
    <2>2. CASE tr[o] # NoRow
      BY <1>1, <2>2 DEF Before, Total
    <2> QED BY <2>1, <2>2
  <1> QED BY <1>1, <1>2, <1>3, <1>4

\* After a movement the entries of every order still add up to its row.
LEMMA RowsMoved ==
  ASSUME NEW tr, NEW lg, NEW tr2, NEW lg2, NEW o, NEW u, NEW e, NEW row,
         RowsAddUp(tr, lg), Moved(tr, lg, tr2, lg2, o, u, e, row)
  PROVE  RowsAddUp(tr2, lg2)
PROOF
  <1>1. /\ o \in Orders /\ u \in Users /\ e \in Entry /\ e.order = o /\ e.amount \in Nat \ {0}
        /\ row # NoRow /\ tr2[o] = row /\ row.user = u /\ row.amount \in Nat \ {0}
        /\ row.state \in {"FROZEN", "CONFIRMED", "REFUNDED"}
        /\ lg[u] \in Seq(Entry) /\ lg2[u] = Append(lg[u], e)
        /\ tr[o] # NoRow => tr[o].user = u /\ tr[o].state \in {"FROZEN", "CONFIRMED", "REFUNDED"}
                            /\ tr[o].amount = row.amount
    BY MovedTypes
  <1>2. \A p \in Orders : tr2[p] \in TransactionRow \union {NoRow}
    BY <1>1 DEF RowsAddUp, Moved
  <1>3. IsFiniteSet({p \in Orders : tr2[p] # NoRow})
    <2>1. IsFiniteSet({p \in Orders : tr[p] # NoRow} \union {o})
      BY FS_AddElement DEF RowsAddUp
    <2>2. {p \in Orders : tr2[p] # NoRow} = {p \in Orders : tr[p] # NoRow} \union {o}
      BY <1>1 DEF Moved
    <2> QED BY <2>1, <2>2
  <1>4. ASSUME NEW x \in Users, NEW i \in DOMAIN lg2[x]
        PROVE  tr2[lg2[x][i].order] # NoRow /\ tr2[lg2[x][i].order].user = x
    <2>1. CASE x # u \/ i \in DOMAIN lg[x]
      <3>1. i \in DOMAIN lg[x] /\ lg2[x][i] = lg[x][i]
        <4>1. CASE x # u
          <5>1. lg2[x] = lg[x]
            BY <4>1 DEF Moved
          <5> QED BY <1>4, <5>1
        <4>2. CASE x = u
          <5>1. i \in DOMAIN lg[u] /\ lg2[u] = Append(lg[u], e) /\ lg[u] \in Seq(Entry)
            BY <1>1, <2>1, <4>2
          <5>2. Append(lg[u], e)[i] = lg[u][i]
            BY <1>1, <5>1, AppendEntry
          <5> QED BY <4>2, <5>1, <5>2, Zenon
        <4> QED BY <4>1, <4>2
      <3>2. lg[x][i] \in Entry /\ lg[x][i].order \in Orders
        <4>1. lg[x] \in Seq(Entry)
          BY DEF RowsAddUp
        <4>2. lg[x][i] \in Entry
          BY <3>1, <4>1
        <4> QED BY <4>2 DEF Entry
      <3>3. tr[lg[x][i].order] # NoRow /\ tr[lg[x][i].order].user = x
        BY <3>1 DEF RowsAddUp
      <3> QED BY <1>1, <3>1, <3>2, <3>3 DEF Moved
    <2>2. CASE x = u /\ i \notin DOMAIN lg[x]
      <3>1. lg2[x][i] = e
        BY <1>1, <1>4, <2>2
      <3> QED BY <1>1, <2>2, <3>1
    <2> QED BY <2>1, <2>2
  <1>5. RowTotals(tr2, lg2, o)
    <2>1. ASSUME NEW type
          PROVE  /\ Before(tr, lg, o, type) \in Nat
                 /\ Total(tr2, lg2, o, type) =
                      Before(tr, lg, o, type) + (IF e.type = type THEN e.amount ELSE 0)
      BY OwnTotals
    <2>a. /\ Total(tr2, lg2, o, "FREEZE") = Before(tr, lg, o, "FREEZE") + (IF e.type = "FREEZE" THEN e.amount ELSE 0)
          /\ Total(tr2, lg2, o, "CONFIRM") = Before(tr, lg, o, "CONFIRM") + (IF e.type = "CONFIRM" THEN e.amount ELSE 0)
          /\ Total(tr2, lg2, o, "REFUND") = Before(tr, lg, o, "REFUND") + (IF e.type = "REFUND" THEN e.amount ELSE 0)
          /\ Before(tr, lg, o, "FREEZE") \in Nat /\ Before(tr, lg, o, "CONFIRM") \in Nat /\ Before(tr, lg, o, "REFUND") \in Nat
      BY <2>1
    <2>2. tr[o] = NoRow => /\ Before(tr, lg, o, "FREEZE") = 0 /\ Before(tr, lg, o, "CONFIRM") = 0
                           /\ Before(tr, lg, o, "REFUND") = 0
      BY DEF Before
    <2>3. tr[o] # NoRow => /\ Before(tr, lg, o, "FREEZE") = Total(tr, lg, o, "FREEZE")
                           /\ Before(tr, lg, o, "CONFIRM") = Total(tr, lg, o, "CONFIRM")
                           /\ Before(tr, lg, o, "REFUND") = Total(tr, lg, o, "REFUND")
                           /\ RowTotals(tr, lg, o)
      BY <1>1 DEF Before, RowsAddUp
    <2>4. Settles(tr[o], row, e, lg[u]) /\ RefundsIn(lg[u], o) = Before(tr, lg, o, "REFUND")
      <3>1. Before(tr, lg, o, "REFUND") = TotalIn(lg[u], o, "REFUND")
        BY OwnTotals
      <3>2. lg[u] \in Seq(Entry)
        BY <1>1
      <3>3. RefundsIn(lg[u], o) = TotalIn(lg[u], o, "REFUND")
        BY <3>2, RefundsInIsTotal
      <3> QED BY <3>1, <3>3, Zenon DEF Moved
    <2>b. e.amount \in Nat /\ row.amount \in Nat
      BY <1>1
    <2>5. CASE tr[o] = NoRow
      <3>1. e.type = "FREEZE" /\ row.state = "FROZEN" /\ e.amount = row.amount
        BY <2>4, <2>5 DEF Settles
      <3>2. /\ Total(tr2, lg2, o, "FREEZE") = row.amount
            /\ Total(tr2, lg2, o, "CONFIRM") = 0 /\ Total(tr2, lg2, o, "REFUND") = 0
        BY <2>b, <2>a, <2>2, <2>5, <3>1
      <3> QED BY <1>1, <3>1, <3>2 DEF RowTotals
    <2>6. CASE tr[o] # NoRow
      <3>1. /\ Total(tr2, lg2, o, "FREEZE") = Total(tr, lg, o, "FREEZE") + (IF e.type = "FREEZE" THEN e.amount ELSE 0)
            /\ Total(tr2, lg2, o, "CONFIRM") = Total(tr, lg, o, "CONFIRM") + (IF e.type = "CONFIRM" THEN e.amount ELSE 0)
            /\ Total(tr2, lg2, o, "REFUND") = Total(tr, lg, o, "REFUND") + (IF e.type = "REFUND" THEN e.amount ELSE 0)
            /\ Total(tr, lg, o, "FREEZE") \in Nat /\ Total(tr, lg, o, "CONFIRM") \in Nat /\ Total(tr, lg, o, "REFUND") \in Nat
            /\ RefundsIn(lg[u], o) = Total(tr, lg, o, "REFUND")
        BY <2>a, <2>3, <2>4, <2>6
      <3>2. /\ row.state = "CONFIRMED" => row.correlation.call # None
            /\ row.state = "REFUNDED" => row.refund # None
        BY DEF Moved
      <3>3. /\ Total(tr, lg, o, "FREEZE") = row.amount
            /\ Total(tr, lg, o, "CONFIRM") = IF tr[o].state = "CONFIRMED" THEN row.amount ELSE 0
            /\ tr[o].state = "FROZEN" => Total(tr, lg, o, "REFUND") = 0
        BY <1>1, <2>3, <2>6 DEF RowTotals
      <3>4. CASE tr[o].state = "FROZEN" /\ e.type = "CONFIRM" /\ row.state = "CONFIRMED" /\ e.amount = row.amount
        <4>1. /\ Total(tr2, lg2, o, "FREEZE") = row.amount /\ Total(tr2, lg2, o, "CONFIRM") = row.amount
              /\ Total(tr2, lg2, o, "REFUND") <= row.amount
          BY <2>b, <3>1, <3>3, <3>4
        <4> QED BY <1>1, <3>2, <3>4, <4>1 DEF RowTotals
      <3>5. CASE tr[o].state = "FROZEN" /\ e.type = "REFUND" /\ row.state = "REFUNDED" /\ e.amount = row.amount
        <4>1. /\ Total(tr2, lg2, o, "FREEZE") = row.amount /\ Total(tr2, lg2, o, "CONFIRM") = 0
              /\ Total(tr2, lg2, o, "REFUND") = row.amount
          BY <2>b, <3>1, <3>3, <3>5
        <4> QED BY <1>1, <3>2, <3>5, <4>1 DEF RowTotals
      <3>6. CASE tr[o].state = "CONFIRMED" /\ e.type = "REFUND" /\ row.state = "CONFIRMED"
                 /\ e.amount <= row.amount /\ RefundsIn(lg[u], o) = 0
        <4>1. /\ Total(tr2, lg2, o, "FREEZE") = row.amount /\ Total(tr2, lg2, o, "CONFIRM") = row.amount
              /\ Total(tr2, lg2, o, "REFUND") <= row.amount
          BY <2>b, <3>1, <3>3, <3>6
        <4> QED BY <1>1, <3>2, <3>6, <4>1 DEF RowTotals
      <3> QED BY <1>1, <2>4, <2>6, <3>4, <3>5, <3>6 DEF Settles
    <2> QED BY <2>5, <2>6
  <1>6. ASSUME NEW p \in Orders, tr2[p] # NoRow PROVE RowTotals(tr2, lg2, p)
    <2>1. CASE p # o
      <3>1. tr[p] # NoRow /\ RowTotals(tr, lg, p)
        BY <1>6, <2>1 DEF Moved, RowsAddUp
      <3>2. tr2[p] = tr[p] /\ \A type : Total(tr2, lg2, p, type) = Total(tr, lg, p, type)
        BY <2>1, <3>1, OtherTotals
      <3> QED BY <3>1, <3>2 DEF RowTotals
    <2> QED BY <1>5, <2>1
  <1> QED BY <1>2, <1>3, <1>4, <1>6 DEF RowsAddUp, Moved

-----------------------------------------------------------------------------

\* Sums over the orders of a user are sums of naturals over a finite set.
LEMMA SumsTyped ==
  ASSUME NEW tr, NEW lg, RowsAddUp(tr, lg), NEW v, NEW states
  PROVE  /\ IsFiniteSet(Of(tr, v, states))
         /\ \A p \in Of(tr, v, states) :
              tr[p].amount \in Nat /\ Total(tr, lg, p, "REFUND") \in Nat /\ NetOf(tr, lg, p) \in Nat
         /\ Charged(tr, v, states) \in Nat /\ Refunded(tr, lg, v, states) \in Nat
         /\ Net(tr, lg, v) \in Nat
PROOF
  <1>1. ASSUME NEW st PROVE IsFiniteSet(Of(tr, v, st))
    <2>1. Of(tr, v, st) \in SUBSET {o \in Orders : tr[o] # NoRow}
      BY DEF Of
    <2> QED BY <2>1, FS_Subset DEF RowsAddUp
  <1>2. ASSUME NEW st, NEW p \in Of(tr, v, st)
        PROVE  /\ tr[p].amount \in Nat /\ Total(tr, lg, p, "REFUND") \in Nat
               /\ NetOf(tr, lg, p) \in Nat
    <2>1. p \in Orders /\ tr[p] \in TransactionRow /\ RowTotals(tr, lg, p)
      BY DEF Of, RowsAddUp
    <2>2. tr[p].amount \in Nat /\ tr[p].user \in Users
          /\ tr[p].state \in {"FROZEN", "CONFIRMED", "REFUNDED"}
      BY <2>1, AmountsPositive DEF TransactionRow
    <2>3. lg[tr[p].user] \in Seq(Entry)
      BY <2>2 DEF RowsAddUp
    <2>4. Total(tr, lg, p, "REFUND") \in Nat
      <3>1. PICK e : e \in Seq(Entry) /\ e = lg[tr[p].user]
        BY <2>3
      <3>2. IsFiniteSet(EntriesOf(e, p, "REFUND"))
        <4>1. EntriesOf(e, p, "REFUND") \in SUBSET (1 .. Len(e)) /\ Len(e) \in Nat
          BY <3>1 DEF EntriesOf
        <4>2. IsFiniteSet(1 .. Len(e))
          BY <4>1, FS_Interval
        <4> QED BY <4>1, <4>2, FS_Subset
      <3>3. \A i \in EntriesOf(e, p, "REFUND") : e[i].amount \in Nat
        <4>1. \A i \in DOMAIN e : e[i] \in Entry
          BY <3>1
        <4>2. \A x \in Entry : x.amount \in Nat
          BY DEF Entry
        <4> QED BY <4>1, <4>2 DEF EntriesOf
      <3> DEFINE f == [i \in EntriesOf(e, p, "REFUND") |-> e[i].amount]
      <3>4. SumFunctionOnSet(f, EntriesOf(e, p, "REFUND")) \in Nat
        BY <3>2, <3>3, SumIsNat
      <3> QED BY <3>1, <3>4 DEF Total, TotalIn, AmountAt
    <2>5. NetOf(tr, lg, p) \in Nat
      BY <2>1, <2>2, <2>4 DEF NetOf, RowTotals
    <2> QED BY <2>2, <2>4, <2>5
  <1>3. Charged(tr, v, states) \in Nat
    <2> DEFINE S == Of(tr, v, states)
               f == [o \in S |-> tr[o].amount]
    <2>1. IsFiniteSet(S) /\ \A p \in S : f[p] \in Nat
      BY <1>1, <1>2
    <2> HIDE DEF f, S
    <2>2. SumFunctionOnSet(f, S) \in Nat
      BY <2>1, SumIsNat
    <2> QED BY <2>2 DEF Charged, f, S
  <1>4. Refunded(tr, lg, v, states) \in Nat
    <2> DEFINE S == Of(tr, v, states)
               f == [o \in S |-> Total(tr, lg, o, "REFUND")]
    <2>1. IsFiniteSet(S) /\ \A p \in S : f[p] \in Nat
      BY <1>1, <1>2
    <2> HIDE DEF f, S
    <2>2. SumFunctionOnSet(f, S) \in Nat
      BY <2>1, SumIsNat
    <2> QED BY <2>2 DEF Refunded, f, S
  <1>5. Net(tr, lg, v) \in Nat
    <2> DEFINE S == Of(tr, v, Settled)
               f == [o \in S |-> NetOf(tr, lg, o)]
    <2>1. IsFiniteSet(S) /\ \A p \in S : f[p] \in Nat
      BY <1>1, <1>2
    <2> HIDE DEF f, S
    <2>2. SumFunctionOnSet(f, S) \in Nat
      BY <2>1, SumIsNat
    <2> QED BY <2>2 DEF Net, f, S
  <1> QED BY <1>1, <1>2, <1>3, <1>4, <1>5

\* A movement takes one order into or out of the sums, and out of nobody else's.
LEMMA OfMoved ==
  ASSUME NEW tr, NEW lg, NEW tr2, NEW lg2, NEW o, NEW u, NEW e, NEW row,
         RowsAddUp(tr, lg), Moved(tr, lg, tr2, lg2, o, u, e, row), NEW v, NEW states
  PROVE  /\ Of(tr2, v, states) \ {o} = Of(tr, v, states) \ {o}
         /\ o \in Of(tr2, v, states) <=> v = u /\ row.state \in states
         /\ o \in Of(tr, v, states) <=> v = u /\ tr[o] # NoRow /\ tr[o].state \in states
         /\ \A p \in Of(tr, v, states) \ {o} : p \in Orders /\ p # o /\ tr[p] # NoRow
PROOF
  <1>1. /\ o \in Orders /\ row # NoRow /\ tr2[o] = row /\ row.user = u
        /\ tr[o] # NoRow => tr[o].user = u
    BY MovedTypes
  <1>2. \A p \in Orders \ {o} : tr2[p] = tr[p]
    BY DEF Moved
  <1> QED BY <1>1, <1>2 DEF Of

\* How the sums of the account change.
LEMMA ChargedMoved ==
  ASSUME NEW tr, NEW lg, NEW tr2, NEW lg2, NEW o, NEW u, NEW e, NEW row,
         RowsAddUp(tr, lg), Moved(tr, lg, tr2, lg2, o, u, e, row), NEW states
  PROVE  Charged(tr2, u, states) + (IF tr[o] # NoRow /\ tr[o].state \in states THEN row.amount ELSE 0)
           = Charged(tr, u, states) + (IF row.state \in states THEN row.amount ELSE 0)
PROOF
  <1> DEFINE S == Of(tr, u, states)
             T == Of(tr2, u, states)
             f == [p \in S |-> tr[p].amount]
             g == [p \in T |-> tr2[p].amount]
  <1>1. RowsAddUp(tr2, lg2)
    BY RowsMoved
  <1>2. /\ IsFiniteSet(S) /\ \A p \in S : f[p] \in Nat
        /\ IsFiniteSet(T) /\ \A p \in T : g[p] \in Nat
    BY <1>1, SumsTyped
  <1>3. /\ T \ {o} = S \ {o}
        /\ o \in T <=> row.state \in states
        /\ o \in S <=> tr[o] # NoRow /\ tr[o].state \in states
        /\ \A p \in S \ {o} : p \in Orders /\ p # o /\ tr[p] # NoRow
    BY OfMoved
  <1>4. \A p \in S \ {o} : g[p] = f[p]
    BY <1>3 DEF Moved
  <1>5. (o \in T => g[o] = row.amount) /\ (o \in S => f[o] = row.amount)
    BY <1>3, MovedTypes
  <1> HIDE DEF f, g, S, T
  <1>6. SumFunctionOnSet(g, T) + (IF o \in S THEN f[o] ELSE 0) =
          SumFunctionOnSet(f, S) + (IF o \in T THEN g[o] ELSE 0)
    BY <1>2, <1>3, <1>4, SumChange
  <1>7. Charged(tr2, u, states) = SumFunctionOnSet(g, T) /\ Charged(tr, u, states) = SumFunctionOnSet(f, S)
    BY DEF Charged, f, g, S, T
  <1> QED BY <1>3, <1>5, <1>6, <1>7

\* The same of the refunds.
LEMMA RefundedMoved ==
  ASSUME NEW tr, NEW lg, NEW tr2, NEW lg2, NEW o, NEW u, NEW e, NEW row,
         RowsAddUp(tr, lg), Moved(tr, lg, tr2, lg2, o, u, e, row), NEW states
  PROVE  Refunded(tr2, lg2, u, states)
             + (IF tr[o] # NoRow /\ tr[o].state \in states THEN Total(tr, lg, o, "REFUND") ELSE 0)
           = Refunded(tr, lg, u, states)
             + (IF row.state \in states THEN Total(tr2, lg2, o, "REFUND") ELSE 0)
PROOF
  <1> DEFINE S == Of(tr, u, states)
             T == Of(tr2, u, states)
             f == [p \in S |-> Total(tr, lg, p, "REFUND")]
             g == [p \in T |-> Total(tr2, lg2, p, "REFUND")]
  <1>1. RowsAddUp(tr2, lg2)
    BY RowsMoved
  <1>2. /\ IsFiniteSet(S) /\ \A p \in S : f[p] \in Nat
        /\ IsFiniteSet(T) /\ \A p \in T : g[p] \in Nat
    BY <1>1, SumsTyped
  <1>3. /\ T \ {o} = S \ {o}
        /\ o \in T <=> row.state \in states
        /\ o \in S <=> tr[o] # NoRow /\ tr[o].state \in states
        /\ \A p \in S \ {o} : p \in Orders /\ p # o /\ tr[p] # NoRow
    BY OfMoved
  <1>4. \A p \in S \ {o} : g[p] = f[p]
    BY <1>3, OtherTotals
  <1>5. (o \in T => g[o] = Total(tr2, lg2, o, "REFUND")) /\ (o \in S => f[o] = Total(tr, lg, o, "REFUND"))
    OBVIOUS
  <1> HIDE DEF f, g, S, T
  <1>6. SumFunctionOnSet(g, T) + (IF o \in S THEN f[o] ELSE 0) =
          SumFunctionOnSet(f, S) + (IF o \in T THEN g[o] ELSE 0)
    BY <1>2, <1>3, <1>4, SumChange
  <1>7. Refunded(tr2, lg2, u, states) = SumFunctionOnSet(g, T) /\ Refunded(tr, lg, u, states) = SumFunctionOnSet(f, S)
    BY DEF Refunded, f, g, S, T
  <1> QED BY <1>3, <1>5, <1>6, <1>7

\* And of what the confirmed orders were charged and kept.
LEMMA NetMoved ==
  ASSUME NEW tr, NEW lg, NEW tr2, NEW lg2, NEW o, NEW u, NEW e, NEW row,
         RowsAddUp(tr, lg), Moved(tr, lg, tr2, lg2, o, u, e, row)
  PROVE  Net(tr2, lg2, u)
             + (IF tr[o] # NoRow /\ tr[o].state \in Settled THEN NetOf(tr, lg, o) ELSE 0)
           = Net(tr, lg, u) + (IF row.state \in Settled THEN NetOf(tr2, lg2, o) ELSE 0)
PROOF
  <1> DEFINE S == Of(tr, u, Settled)
             T == Of(tr2, u, Settled)
             f == [p \in S |-> NetOf(tr, lg, p)]
             g == [p \in T |-> NetOf(tr2, lg2, p)]
  <1>1. RowsAddUp(tr2, lg2)
    BY RowsMoved
  <1>2. /\ IsFiniteSet(S) /\ \A p \in S : f[p] \in Nat
        /\ IsFiniteSet(T) /\ \A p \in T : g[p] \in Nat
    BY <1>1, SumsTyped
  <1>3. /\ T \ {o} = S \ {o}
        /\ o \in T <=> row.state \in Settled
        /\ o \in S <=> tr[o] # NoRow /\ tr[o].state \in Settled
        /\ \A p \in S \ {o} : p \in Orders /\ p # o /\ tr[p] # NoRow
    BY OfMoved
  <1>4. \A p \in S \ {o} : g[p] = f[p]
    BY <1>3, OtherTotals DEF NetOf
  <1>5. (o \in T => g[o] = NetOf(tr2, lg2, o)) /\ (o \in S => f[o] = NetOf(tr, lg, o))
    OBVIOUS
  <1> HIDE DEF f, g, S, T
  <1>6. SumFunctionOnSet(g, T) + (IF o \in S THEN f[o] ELSE 0) =
          SumFunctionOnSet(f, S) + (IF o \in T THEN g[o] ELSE 0)
    BY <1>2, <1>3, <1>4, SumChange
  <1>7. Net(tr2, lg2, u) = SumFunctionOnSet(g, T) /\ Net(tr, lg, u) = SumFunctionOnSet(f, S)
    BY DEF Net, f, g, S, T
  <1> QED BY <1>3, <1>5, <1>6, <1>7

\* The sums of other accounts do not.
LEMMA OthersMoved ==
  ASSUME NEW tr, NEW lg, NEW tr2, NEW lg2, NEW o, NEW u, NEW e, NEW row,
         RowsAddUp(tr, lg), Moved(tr, lg, tr2, lg2, o, u, e, row), NEW v, v # u, NEW states
  PROVE  /\ Charged(tr2, v, states) = Charged(tr, v, states)
         /\ Refunded(tr2, lg2, v, states) = Refunded(tr, lg, v, states)
         /\ Net(tr2, lg2, v) = Net(tr, lg, v)
PROOF
  <1>1. ASSUME NEW st
        PROVE /\ Of(tr2, v, st) = Of(tr, v, st)
              /\ \A p \in Of(tr, v, st) : p \in Orders \ {o} /\ tr[p] # NoRow
    <2>1. /\ Of(tr2, v, st) \ {o} = Of(tr, v, st) \ {o}
          /\ o \notin Of(tr2, v, st) /\ o \notin Of(tr, v, st)
          /\ \A p \in Of(tr, v, st) \ {o} : p \in Orders /\ p # o /\ tr[p] # NoRow
      BY OfMoved
    <2> QED BY <2>1
  <1>2. \A p \in Orders \ {o} : tr[p] # NoRow =>
          /\ tr2[p] = tr[p] /\ Total(tr2, lg2, p, "REFUND") = Total(tr, lg, p, "REFUND")
          /\ NetOf(tr2, lg2, p) = NetOf(tr, lg, p)
    BY OtherTotals DEF NetOf
  <1>3. Charged(tr2, v, states) = Charged(tr, v, states)
    <2>1. [p \in Of(tr2, v, states) |-> tr2[p].amount] = [p \in Of(tr, v, states) |-> tr[p].amount]
      BY <1>1, <1>2
    <2> QED BY <1>1, <2>1 DEF Charged
  <1>4. Refunded(tr2, lg2, v, states) = Refunded(tr, lg, v, states)
    <2>1. [p \in Of(tr2, v, states) |-> Total(tr2, lg2, p, "REFUND")] =
            [p \in Of(tr, v, states) |-> Total(tr, lg, p, "REFUND")]
      BY <1>1, <1>2
    <2> QED BY <1>1, <2>1 DEF Refunded
  <1>5. Net(tr2, lg2, v) = Net(tr, lg, v)
    <2>1. [p \in Of(tr2, v, Settled) |-> NetOf(tr2, lg2, p)] =
            [p \in Of(tr, v, Settled) |-> NetOf(tr, lg, p)]
      BY <1>1, <1>2
    <2> QED BY <1>1, <2>1 DEF Net
  <1> QED BY <1>3, <1>4, <1>5

-----------------------------------------------------------------------------

\* What a movement does to the balance of its account is what it does to the sums.
LEMMA SumsMoved ==
  ASSUME NEW tr, NEW lg, NEW tr2, NEW lg2, NEW o, NEW u, NEW e, NEW row,
         RowsAddUp(tr, lg), Moved(tr, lg, tr2, lg2, o, u, e, row),
         NEW a \in Balance, NEW b \in Balance, SumsFit(tr, lg, a, u),
         MovesBalances(tr[o], e, a), b.available = e.available, b.frozen = e.frozen
  PROVE  SumsFit(tr2, lg2, b, u)
PROOF
  <1> DEFINE F == {"FROZEN"}
             C == {"CONFIRMED"}
             refunds == Total(tr, lg, o, "REFUND")
             refunds2 == Total(tr2, lg2, o, "REFUND")
  <1>1. RowsAddUp(tr2, lg2)
    BY RowsMoved
  <1>2. /\ e.amount \in Nat /\ row.amount \in Nat /\ row # NoRow /\ tr2[o] = row
        /\ tr[o] # NoRow => tr[o].state \in {"FROZEN", "CONFIRMED", "REFUNDED"} /\ tr[o].amount = row.amount
        /\ row.state \in {"FROZEN", "CONFIRMED", "REFUNDED"}
        /\ o \in Orders /\ u \in Users
    BY MovedTypes
  <1>3. /\ Charged(tr, u, F) \in Nat /\ Charged(tr, u, C) \in Nat
        /\ Refunded(tr, lg, u, C) \in Nat /\ Refunded(tr, lg, u, Settled) \in Nat /\ Net(tr, lg, u) \in Nat
    BY SumsTyped
  <1>4. /\ Charged(tr2, u, F) \in Nat /\ Charged(tr2, u, C) \in Nat
        /\ Refunded(tr2, lg2, u, C) \in Nat /\ Refunded(tr2, lg2, u, Settled) \in Nat /\ Net(tr2, lg2, u) \in Nat
    BY <1>1, SumsTyped
  <1>5. /\ Charged(tr2, u, F) + (IF tr[o] # NoRow /\ tr[o].state \in F THEN row.amount ELSE 0)
             = Charged(tr, u, F) + (IF row.state \in F THEN row.amount ELSE 0)
        /\ Charged(tr2, u, C) + (IF tr[o] # NoRow /\ tr[o].state \in C THEN row.amount ELSE 0)
             = Charged(tr, u, C) + (IF row.state \in C THEN row.amount ELSE 0)
    BY ChargedMoved
  <1>6. /\ Refunded(tr2, lg2, u, C) + (IF tr[o] # NoRow /\ tr[o].state \in C THEN refunds ELSE 0)
             = Refunded(tr, lg, u, C) + (IF row.state \in C THEN refunds2 ELSE 0)
        /\ Refunded(tr2, lg2, u, Settled) + (IF tr[o] # NoRow /\ tr[o].state \in Settled THEN refunds ELSE 0)
             = Refunded(tr, lg, u, Settled) + (IF row.state \in Settled THEN refunds2 ELSE 0)
    BY RefundedMoved
  <1>7. Net(tr2, lg2, u) + (IF tr[o] # NoRow /\ tr[o].state \in Settled THEN NetOf(tr, lg, o) ELSE 0)
          = Net(tr, lg, u) + (IF row.state \in Settled THEN NetOf(tr2, lg2, o) ELSE 0)
    BY NetMoved
  <1>8. /\ NetOf(tr, lg, o) = IF tr[o].state = "CONFIRMED" THEN Total(tr, lg, o, "CONFIRM") - refunds ELSE 0
        /\ NetOf(tr2, lg2, o) = IF row.state = "CONFIRMED" THEN Total(tr2, lg2, o, "CONFIRM") - refunds2 ELSE 0
    BY <1>2 DEF NetOf
  <1>9. /\ tr[o] # NoRow => RowTotals(tr, lg, o) /\ RowTotals(tr2, lg2, o)
        /\ RowTotals(tr2, lg2, o)
    BY <1>1, <1>2 DEF RowsAddUp
  <1>10. /\ Before(tr, lg, o, "REFUND") \in Nat
         /\ refunds2 = Before(tr, lg, o, "REFUND") + (IF e.type = "REFUND" THEN e.amount ELSE 0)
         /\ tr[o] # NoRow => Before(tr, lg, o, "REFUND") = refunds
         /\ tr[o] = NoRow => Before(tr, lg, o, "REFUND") = 0
    BY OwnTotals DEF Before
  <1>11. /\ AmountAt(lg[u], RefundEntries(lg[u])) \in Nat
         /\ AmountAt(lg2[u], RefundEntries(lg2[u])) =
              AmountAt(lg[u], RefundEntries(lg[u])) + (IF e.type = "REFUND" THEN e.amount ELSE 0)
    <2>1. lg[u] \in Seq(Entry) /\ e \in Entry /\ lg2[u] = Append(lg[u], e)
      BY MovedTypes
    <2>2. /\ AmountAt(lg[u], RefundEntries(lg[u])) \in Nat
          /\ AmountAt(Append(lg[u], e), RefundEntries(Append(lg[u], e))) =
               AmountAt(lg[u], RefundEntries(lg[u])) + (IF e.type = "REFUND" THEN e.amount ELSE 0)
      BY <2>1, TotalsAppend
    <2> QED BY <2>1, <2>2, Zenon
  <1>12. /\ a.available \in Nat /\ a.frozen \in Nat /\ Opening[u] \in Nat
         /\ a.frozen = Charged(tr, u, F)
         /\ a.available + a.frozen + Charged(tr, u, C) - Refunded(tr, lg, u, C) = Opening[u]
         /\ AmountAt(lg[u], RefundEntries(lg[u])) = Refunded(tr, lg, u, Settled)
         /\ Net(tr, lg, u) = Charged(tr, u, C) - Refunded(tr, lg, u, C)
    BY <1>2, WalletOpeningAssumption DEF SumsFit, Balance
  <1>13. Settles(tr[o], row, e, lg[u]) /\ b.available \in Nat /\ b.frozen \in Nat
    BY DEF Moved, Balance
  <1>a. "FROZEN" \in F /\ "CONFIRMED" \notin F /\ "REFUNDED" \notin F
        /\ "FROZEN" \notin C /\ "CONFIRMED" \in C /\ "REFUNDED" \notin C
        /\ "FROZEN" \notin Settled /\ "CONFIRMED" \in Settled /\ "REFUNDED" \in Settled
    BY DEF Settled
  <1> DEFINE Fits == /\ b.frozen = Charged(tr2, u, F)
                     /\ b.available + b.frozen + Charged(tr2, u, C) - Refunded(tr2, lg2, u, C) = Opening[u]
                     /\ AmountAt(lg2[u], RefundEntries(lg2[u])) = Refunded(tr2, lg2, u, Settled)
                     /\ Net(tr2, lg2, u) = Charged(tr2, u, C) - Refunded(tr2, lg2, u, C)
  <1>14. Fits => SumsFit(tr2, lg2, b, u)
    BY DEF SumsFit
  <1> HIDE DEF F, C, refunds, refunds2
  <1>15. CASE tr[o] = NoRow /\ e.type = "FREEZE" /\ row.state = "FROZEN" /\ e.amount = row.amount
    <2>1. b.available = a.available - row.amount /\ b.frozen = a.frozen + row.amount
      BY <1>15 DEF MovesBalances
    <2>2. /\ Charged(tr2, u, F) = Charged(tr, u, F) + row.amount
          /\ Charged(tr2, u, C) = Charged(tr, u, C) /\ Refunded(tr2, lg2, u, C) = Refunded(tr, lg, u, C)
          /\ Refunded(tr2, lg2, u, Settled) = Refunded(tr, lg, u, Settled) /\ Net(tr2, lg2, u) = Net(tr, lg, u)
          /\ AmountAt(lg2[u], RefundEntries(lg2[u])) = AmountAt(lg[u], RefundEntries(lg[u]))
      BY <1>3, <1>4, <1>5, <1>6, <1>7, <1>11, <1>15, <1>a
    <2> QED BY <1>2, <1>3, <1>12, <1>13, <1>14, <2>1, <2>2
  <1>16. CASE tr[o] # NoRow /\ tr[o].state = "FROZEN" /\ e.type = "CONFIRM" /\ row.state = "CONFIRMED" /\ e.amount = row.amount
    <2>1. b.available = a.available /\ b.frozen = a.frozen - row.amount
      BY <1>16 DEF MovesBalances
    <2>2. refunds = 0 /\ refunds2 = 0 /\ Total(tr2, lg2, o, "CONFIRM") = row.amount
      BY <1>2, <1>9, <1>10, <1>16 DEF RowTotals, refunds
    <2>3. NetOf(tr2, lg2, o) = row.amount
      BY <1>2, <1>8, <1>16, <2>2
    <2>4. /\ Charged(tr2, u, F) = Charged(tr, u, F) - row.amount
          /\ Charged(tr2, u, C) = Charged(tr, u, C) + row.amount
          /\ Refunded(tr2, lg2, u, C) = Refunded(tr, lg, u, C)
          /\ Refunded(tr2, lg2, u, Settled) = Refunded(tr, lg, u, Settled)
          /\ Net(tr2, lg2, u) = Net(tr, lg, u) + row.amount
          /\ AmountAt(lg2[u], RefundEntries(lg2[u])) = AmountAt(lg[u], RefundEntries(lg[u]))
      BY <1>2, <1>3, <1>4, <1>5, <1>6, <1>7, <1>11, <1>16, <1>a, <2>2, <2>3
    <2> QED BY <1>2, <1>3, <1>12, <1>13, <1>14, <2>1, <2>4
  <1>17. CASE tr[o] # NoRow /\ tr[o].state = "FROZEN" /\ e.type = "REFUND" /\ row.state = "REFUNDED" /\ e.amount = row.amount
    <2>1. b.available = a.available + row.amount /\ b.frozen = a.frozen - row.amount
      BY <1>17 DEF MovesBalances
    <2>2. refunds2 = row.amount
      BY <1>2, <1>9, <1>17 DEF RowTotals, refunds2
    <2>3. NetOf(tr2, lg2, o) = 0
      BY <1>8, <1>17
    <2>4. /\ Charged(tr2, u, F) = Charged(tr, u, F) - row.amount
          /\ Charged(tr2, u, C) = Charged(tr, u, C)
          /\ Refunded(tr2, lg2, u, C) = Refunded(tr, lg, u, C)
          /\ Refunded(tr2, lg2, u, Settled) = Refunded(tr, lg, u, Settled) + row.amount
          /\ Net(tr2, lg2, u) = Net(tr, lg, u)
          /\ AmountAt(lg2[u], RefundEntries(lg2[u])) = AmountAt(lg[u], RefundEntries(lg[u])) + row.amount
      BY <1>2, <1>3, <1>4, <1>5, <1>6, <1>7, <1>11, <1>17, <1>a, <2>2, <2>3
    <2> QED BY <1>2, <1>3, <1>12, <1>13, <1>14, <2>1, <2>4
  <1>18. CASE tr[o] # NoRow /\ tr[o].state = "CONFIRMED" /\ e.type = "REFUND" /\ row.state = "CONFIRMED"
    <2>1. b.available = a.available + e.amount /\ b.frozen = a.frozen
      BY <1>18 DEF MovesBalances
    <2>2. refunds \in Nat /\ refunds2 = refunds + e.amount
      BY <1>2, <1>10, <1>18
    <2>3. /\ Total(tr, lg, o, "CONFIRM") = row.amount /\ Total(tr2, lg2, o, "CONFIRM") = row.amount
      BY <1>2, <1>9, <1>18 DEF RowTotals
    <2>4. NetOf(tr, lg, o) = row.amount - refunds /\ NetOf(tr2, lg2, o) = row.amount - refunds2
      BY <1>8, <1>18, <2>3
    <2>5. /\ Charged(tr2, u, F) = Charged(tr, u, F)
          /\ Charged(tr2, u, C) = Charged(tr, u, C)
      BY <1>2, <1>3, <1>4, <1>5, <1>18, <1>a
    <2>6. /\ Refunded(tr2, lg2, u, C) = Refunded(tr, lg, u, C) + e.amount
          /\ Refunded(tr2, lg2, u, Settled) = Refunded(tr, lg, u, Settled) + e.amount
      <3>1. /\ Refunded(tr2, lg2, u, C) + refunds = Refunded(tr, lg, u, C) + refunds2
            /\ Refunded(tr2, lg2, u, Settled) + refunds = Refunded(tr, lg, u, Settled) + refunds2
        BY <1>6, <1>18, <1>a
      <3> QED BY <1>2, <1>3, <1>4, <2>2, <3>1
    <2>7. Net(tr2, lg2, u) = Net(tr, lg, u) - e.amount
      <3>1. Net(tr2, lg2, u) + NetOf(tr, lg, o) = Net(tr, lg, u) + NetOf(tr2, lg2, o)
        BY <1>7, <1>18, <1>a
      <3> QED BY <1>2, <1>3, <1>4, <2>2, <2>4, <3>1
    <2>8. AmountAt(lg2[u], RefundEntries(lg2[u])) = AmountAt(lg[u], RefundEntries(lg[u])) + e.amount
      BY <1>11, <1>18
    <2>9. Fits
      BY <1>2, <1>3, <1>4, <1>12, <1>13, <2>1, <2>5, <2>6, <2>7, <2>8
    <2> QED BY <1>14, <2>9
  <1> QED BY <1>2, <1>13, <1>15, <1>16, <1>17, <1>18 DEF Settles

\* A movement of points changes one row and one account, and what the request
\* had to say about it is in the row.
LEMMA MovesMoved ==
  ASSUME IInv, TypeOK', RowsAddUp(transaction, ledger), NEW w \in Workers, NEW e, NEW row,
         Moves(w, e, row), Fulfils(Body(w), row, e)
  PROVE  Moved(transaction, ledger, transaction', ledger', Order(w), Payer(w), e, row)
PROOF
  <1>0. PICK o, u, b : o = Order(w) /\ u = Payer(w) /\ b = Body(w)
    OBVIOUS
  <1>1. MovedRows(o, u, e, row)
    BY <1>0, MovesRows
  <1>2. pc[w] = "commit" /\ b \in Bodies /\ b.op \in {"freeze", "confirm", "refund", "overbill"}
        /\ b.order = o
    BY <1>0, InService, Serving DEF Moves, Stages, Fulfils, Settling, Order
  <1>3. /\ b.op = "confirm" => b.detail.call # None
        /\ b.op = "refund" => b.detail # None
    BY <1>2, DetailsAssumption
  <1>4. Settles(transaction[o], row, e, ledger[u]) /\ Fulfils(b, row, e)
    BY <1>0, <1>1 DEF MovedRows
  <1>5. transaction[o] # NoRow /\ transaction[o].state = "CONFIRMED" => transaction[o].correlation.call # None
    BY <1>1 DEF MovedRows, RowsAddUp, RowTotals
  <1>6. row.state = "CONFIRMED" => row.correlation.call # None
    <2>1. CASE b.op = "freeze"
      BY <1>4, <2>1 DEF Fulfils
    <2>2. CASE b.op = "confirm"
      BY <1>3, <1>4, <2>2 DEF Fulfils
    <2>3. CASE b.op = "refund"
      BY <1>4, <2>3 DEF Fulfils
    <2>4. CASE b.op = "overbill"
      <3>1. e.type = "REFUND" /\ row.state = "CONFIRMED"
        BY <1>4, <2>4 DEF Fulfils
      <3> QED BY <1>4, <1>5, <3>1 DEF Settles
    <2> QED BY <1>2, <2>1, <2>2, <2>3, <2>4
  <1>7. row.state = "REFUNDED" => row.refund # None
    BY <1>2, <1>3, <1>4 DEF Fulfils
  <1>8. ledger' \in [Users -> Seq(Entry)]
    BY DEF TypeOK
  <1>9. Moved(transaction, ledger, transaction', ledger', o, u, e, row)
    BY <1>1, <1>6, <1>7, <1>8 DEF Moved, MovedRows
  <1> QED BY <1>0, <1>9

\* Nothing is billed at the start.
LEMMA ReportInit ==
  ASSUME Init
  PROVE  ReportInv
PROOF
  <1>1. \A o \in Orders : transaction[o] = NoRow
    BY DEF Init
  <1>2. ASSUME NEW u \in Users
        PROVE  ledger[u] = <<>> /\ DOMAIN ledger[u] = {}
    <2>1. ledger[u] = <<>>
      BY DEF Init
    <2>2. DOMAIN <<>> = {}
      OBVIOUS
    <2> QED BY <2>1, <2>2
  <1>3. IsFiniteSet({})
    BY FS_EmptySet
  <1>4. RowsAddUp(transaction, ledger)
    <2>1. {o \in Orders : transaction[o] # NoRow} = {}
      BY <1>1
    <2>2. ledger \in [Users -> Seq(Entry)]
      BY DEF Init
    <2>3. \A u \in Users : \A i \in DOMAIN ledger[u] : FALSE
      BY <1>2
    <2> QED BY <1>1, <1>3, <2>1, <2>2, <2>3 DEF RowsAddUp
  <1>5. ASSUME NEW u \in Users PROVE SumsFit(transaction, ledger, account[u], u)
    <2>1. \A states : Of(transaction, u, states) = {}
      BY <1>1 DEF Of
    <2>2. RefundEntries(ledger[u]) = {}
      BY <1>2 DEF RefundEntries
    <2>3. /\ SumFunctionOnSet([o \in {} |-> transaction[o].amount], {}) = 0
          /\ SumFunctionOnSet([o \in {} |-> Total(transaction, ledger, o, "REFUND")], {}) = 0
          /\ SumFunctionOnSet([o \in {} |-> NetOf(transaction, ledger, o)], {}) = 0
          /\ SumFunctionOnSet([i \in {} |-> ledger[u][i].amount], {}) = 0
      BY <1>3, SumOfZeroes
    <2>4. /\ Charged(transaction, u, {"FROZEN"}) = 0 /\ Charged(transaction, u, {"CONFIRMED"}) = 0
          /\ Refunded(transaction, ledger, u, {"CONFIRMED"}) = 0
          /\ Refunded(transaction, ledger, u, Settled) = 0
          /\ Net(transaction, ledger, u) = 0
      BY <2>1, <2>3 DEF Charged, Refunded, Net
    <2>5. AmountAt(ledger[u], RefundEntries(ledger[u])) = 0
      BY <2>2, <2>3 DEF AmountAt
    <2>6. account[u].available = Opening[u] /\ account[u].frozen = 0 /\ Opening[u] \in Nat
      <3>1. Opening[u] \in Nat
        BY <1>5, WalletOpeningAssumption
      <3>2. account[u] = [available |-> Opening[u], frozen |-> 0]
        BY <1>5, Zenon DEF Init
      <3> QED BY <3>1, <3>2
    <2> QED BY <2>4, <2>5, <2>6 DEF SumsFit
  <1> QED BY <1>4, <1>5 DEF ReportInv

\* A movement keeps the sums of every account fitting.
LEMMA ReportMoves ==
  ASSUME IInv, IInv', ReportInv, NEW w \in Workers, NEW e, NEW row,
         Moves(w, e, row), Fulfils(Body(w), row, e)
  PROVE  ReportInv'
PROOF
  <1>0. PICK o, u, tr2, lg2, a2 : /\ o = Order(w) /\ u = Payer(w)
                                  /\ tr2 = transaction' /\ lg2 = ledger' /\ a2 = account'
    OBVIOUS
  <1>1. TypeOK /\ TypeOK' /\ RowsAddUp(transaction, ledger)
    BY DEF IInv, ReportInv
  <1>2. Moved(transaction, ledger, tr2, lg2, o, u, e, row)
    BY <1>0, <1>1, MovesMoved
  <1>3. MovedRows(o, u, e, row)
    BY <1>0, MovesRows
  <1>4. RowsAddUp(tr2, lg2)
    BY <1>1, <1>2, RowsMoved
  <1>5. ASSUME NEW v \in Users PROVE SumsFit(tr2, lg2, a2[v], v)
    <2>1. SumsFit(transaction, ledger, account[v], v) /\ account[v] \in Balance /\ a2[v] \in Balance
      BY <1>0, <1>1 DEF ReportInv, TypeOK
    <2>2. CASE v = u
      <3>1. MovesBalances(transaction[o], e, account[u])
            /\ a2[u].available = e.available /\ a2[u].frozen = e.frozen
        BY <1>0, <1>3 DEF MovedRows
      <3>2. SumsFit(tr2, lg2, a2[u], u)
        BY <1>1, <1>2, <2>1, <2>2, <3>1, SumsMoved
      <3> QED BY <2>2, <3>2
    <2>3. CASE v # u
      <3>1. lg2[v] = ledger[v] /\ a2[v] = account[v]
        BY <1>0, <1>3, <2>3 DEF MovedRows
      <3>2. /\ Charged(tr2, v, {"FROZEN"}) = Charged(transaction, v, {"FROZEN"})
            /\ Charged(tr2, v, {"CONFIRMED"}) = Charged(transaction, v, {"CONFIRMED"})
            /\ Refunded(tr2, lg2, v, {"CONFIRMED"}) = Refunded(transaction, ledger, v, {"CONFIRMED"})
            /\ Refunded(tr2, lg2, v, Settled) = Refunded(transaction, ledger, v, Settled)
            /\ Net(tr2, lg2, v) = Net(transaction, ledger, v)
        BY <1>1, <1>2, <2>3, OthersMoved
      <3> QED BY <2>1, <3>1, <3>2 DEF SumsFit
    <2> QED BY <2>2, <2>3
  <1> QED BY <1>0, <1>4, <1>5 DEF ReportInv

\* Every step keeps the entries adding up and the sums fitting.
LEMMA ReportNext ==
  ASSUME IInv, [Next]_vars, ReportInv
  PROVE  ReportInv'
PROOF
  <1>1. CASE UNCHANGED <<account, transaction, ledger>>
    BY <1>1 DEF ReportInv
  <1>2. ASSUME NEW w \in Workers, Serve(w) PROVE ReportInv'
    <2>1. IInv'
      BY NextInv
    <2>2. CASE CommitQuote(w)
      BY <1>1, <2>2 DEF CommitQuote
    <2> QED BY <1>1, <1>2, <2>1, <2>2, ServeTables, ReportMoves
  <1>3. CASE ~ \E w \in Workers : Serve(w)
    BY <1>1, <1>3 DEF Next, vars, tables
  <1> QED BY <1>2, <1>3

\* The entries add up and the sums fit in every reachable state.
LEMMA ReportInvariant == Spec => [](IInv /\ ReportInv)
PROOF
  <1>1. Init => IInv /\ ReportInv
    BY InitInv, ReportInit
  <1>2. IInv /\ ReportInv /\ [Next]_vars => (IInv /\ ReportInv)'
    BY NextInv, ReportNext
  <1> QED BY <1>1, <1>2, PTL DEF Spec

-----------------------------------------------------------------------------

\* The sums of WalletReports are those above.
LEMMA ReportSums ==
  ASSUME NEW u \in Users, TypeOK
  PROVE  /\ \A states : Sum(AmountOf, Billed(u, states)) = Charged(transaction, u, states)
         /\ \A states : Sum(RefundTotal, Billed(u, states)) = Refunded(transaction, ledger, u, states)
         /\ Summary(u).refunded = Refunded(transaction, ledger, u, Settled)
         /\ Summary(u).net = Net(transaction, ledger, u)
         /\ AccountRefunds(u) = AmountAt(ledger[u], RefundEntries(ledger[u]))
         /\ \A o, type : LedgerTotal(o, type) = Total(transaction, ledger, o, type)
PROOF
  <1>1. \A states : Billed(u, states) = Of(transaction, u, states)
    BY DEF Billed, Of
  <1>2. \A o, type : LedgerTotal(o, type) = Total(transaction, ledger, o, type)
    BY DEF LedgerTotal, Total, TotalIn, AmountAt, EntriesOf, Sum
  <1>3. ASSUME NEW states PROVE Sum(AmountOf, Billed(u, states)) = Charged(transaction, u, states)
    BY <1>1 DEF Sum, AmountOf, Charged
  <1>4. ASSUME NEW states PROVE Sum(RefundTotal, Billed(u, states)) = Refunded(transaction, ledger, u, states)
    <2>1. ASSUME NEW o \in Of(transaction, u, states)
          PROVE  RefundTotal(o) = Total(transaction, ledger, o, "REFUND")
      <3>1. ledger[transaction[o].user] \in Seq(Entry)
        BY DEF Of, TypeOK
      <3>2. RefundsIn(ledger[transaction[o].user], o) = TotalIn(ledger[transaction[o].user], o, "REFUND")
        BY <3>1, RefundsInIsTotal
      <3> QED BY <3>2 DEF RefundTotal, RefundsIn, Total
    <2>2. [o \in Of(transaction, u, states) |-> RefundTotal(o)] =
            [o \in Of(transaction, u, states) |-> Total(transaction, ledger, o, "REFUND")]
      BY <2>1
    <2> QED BY <1>1, <2>2 DEF Sum, Refunded
  <1>5. Summary(u).refunded = Refunded(transaction, ledger, u, Settled)
    BY <1>1, <1>2 DEF Summary, Sum, Refunded
  <1>6. Summary(u).net = Net(transaction, ledger, u)
    BY <1>1, <1>2 DEF Summary, Sum, Net, NetConfirmed, NetOf
  <1>7. AccountRefunds(u) = AmountAt(ledger[u], RefundEntries(ledger[u]))
    BY DEF AccountRefunds, Sum, AmountAt, RefundEntries
  <1> QED BY <1>2, <1>3, <1>4, <1>5, <1>6, <1>7

\* Open orders weigh in the reconciliation what they weigh on the board.
LEMMA OpenAgrees ==
  ASSUME NEW u \in Users, RowsAddUp(transaction, ledger), TypeOK
  PROVE  Summary(u).open = Charged(transaction, u, {"FROZEN"})
PROOF
  <1> DEFINE S == Of(transaction, u, {"FROZEN"})
  <1>1. Billed(u, {"FROZEN"}) = S
    BY DEF Billed, Of
  <1>2. \A o \in S : Total(transaction, ledger, o, "FREEZE") = transaction[o].amount
    BY DEF Of, RowsAddUp, RowTotals
  <1>3. \A o, type : LedgerTotal(o, type) = Total(transaction, ledger, o, type)
    BY ReportSums
  <1>4. [o \in S |-> LedgerTotal(o, "FREEZE")] = [o \in S |-> transaction[o].amount]
    BY <1>2, <1>3
  <1> HIDE DEF S
  <1> QED BY <1>1, <1>4 DEF Summary, Sum, Charged, S

\* The two reports of the admins (quota board) and of finance (reconciliation)
\* balance, agree and accuse no order, whatever requests have interleaved,
\* failed and been retried before they are run.
THEOREM ReportsAlwaysAgree == Spec => []ReportsAgree
PROOF
  <1>1. ASSUME IInv, ReportInv PROVE ReportsAgree
    <2>1. TypeOK /\ FreezeHonoursQuote /\ RowsAddUp(transaction, ledger)
      BY <1>1 DEF IInv, Books, ReportInv
    <2>2. ASSUME NEW u \in Users
          PROVE  /\ SumsFit(transaction, ledger, account[u], u)
                 /\ Board(u).frozen = account[u].frozen /\ Board(u).available = account[u].available
                 /\ Board(u).open = Charged(transaction, u, {"FROZEN"})
                 /\ Board(u).refunded = AmountAt(ledger[u], RefundEntries(ledger[u]))
                 /\ Board(u).net = Charged(transaction, u, {"CONFIRMED"})
                                     - Refunded(transaction, ledger, u, {"CONFIRMED"})
      BY <1>1, <2>1, ReportSums DEF ReportInv, Board
    <2>3. BoardBalances
      BY <2>2 DEF BoardBalances, SumsFit
    <2>4. ReportAgreesWithBoard
      BY <2>1, <2>2, ReportSums, OpenAgrees DEF ReportAgreesWithBoard, SumsFit
    <2>5. ASSUME NEW o \in Orders, transaction[o] # NoRow
          PROVE  Reasons(o) \subseteq {"FROZEN_OPEN_AT_PERIOD_CLOSE"}
      <3>1. transaction[o] \in TransactionRow /\ RowTotals(transaction, ledger, o)
        BY <2>1, <2>5 DEF RowsAddUp
      <3>2. /\ transaction[o].state \in {"FROZEN", "CONFIRMED", "REFUNDED"}
            /\ transaction[o].user \in Users /\ transaction[o].amount \in Nat \ {0}
        BY <3>1, AmountsPositive DEF TransactionRow
      <3>3. \A type : LedgerTotal(o, type) = Total(transaction, ledger, o, type)
        BY <2>1, <3>2, ReportSums
      <3>4. quote[o].amount = transaction[o].amount
        BY <2>1, <2>5 DEF FreezeHonoursQuote
      <3>5. LedgerDelta(o) = 0
        BY <3>1, <3>2, <3>3 DEF LedgerDelta, SettledBy, RowTotals
      <3>6. ~ \A type \in Range(SettledBy) : LedgerTotal(o, type) = 0
        <4>1. "FREEZE" \in Range(SettledBy)
          BY DEF SettledBy, Range
        <4> QED BY <3>1, <3>2, <3>3, <4>1 DEF RowTotals
      <3>7. /\ transaction[o].state = "CONFIRMED" => transaction[o].correlation.call # None
            /\ transaction[o].state = "REFUNDED" => transaction[o].refund # None
        BY <3>1 DEF RowTotals
      <3> QED BY <3>4, <3>5, <3>6, <3>7 DEF Reasons
    <2> QED BY <2>3, <2>4, <2>5 DEF ReportsAgree, ReportIsClean
  <1> QED BY <1>1, ReportInvariant, PTL
=============================================================================
