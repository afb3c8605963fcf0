----------------------------- MODULE TaskBilling -----------------------------
(***************************************************************************)
(* Master-task billing: a quote is committed when the task is posted (its  *)
(* price is debited and a snapshot of it linked to the task), and the      *)
(* charge is given back when the task is reported failed before any        *)
(* upstream work was created.                                              *)
(*                                                                         *)
(* A worker serves one POST /narrator/tasks or PUT /narrator/tasks/<id> in  *)
(* one READ COMMITTED transaction: it locks or inserts the task row, then  *)
(* works down snapshot and user row, and all its writes become visible in  *)
(* the step that commits.  The orchestrator's failure reports take the     *)
(* same path as a PUT.  A worker may be cut off at any point.              *)
(***************************************************************************)
EXTENDS Integers, FiniteSets, Functions

CONSTANTS
  Workers,     \* requests that can be in flight together
  Tasks,       \* narrator_task_id values
  Minted,      \* those of them the server generates for a POST without an id
  Quotes,      \* quote_id values; a quote has at most one snapshot
  Users,       \* users.id
  Bodies,      \* request bodies that clients and the orchestrator may send
  Price,       \* combo -> the prices the catalogue can give for it
  Opening,     \* balance_points of each user at the start
  Funding,     \* balances an administrator may set
  QuoteTTL,    \* QUOTE_TTL_SECONDS
  DriftAge,    \* age from which a quote is priced again at commit (60 s)
  AutoRefund,  \* AUTO_REFUND_FAIL_FAST_ENABLED
  MaxTime,     \* bound on the clock
  None         \* an absent value

ASSUME TaskPriceAssumption ==
  \A combo \in DOMAIN Price : Price[combo] # {} /\ Price[combo] \subseteq Nat
ASSUME FundsAssumption == Opening \in [Users -> Nat] /\ Funding \subseteq Nat
ASSUME TasksAssumption == Minted \subseteq Tasks /\ None \notin Tasks
ASSUME QuotesAssumption == IsFiniteSet(Quotes) /\ None \notin Quotes
ASSUME AgesAssumption == {QuoteTTL, DriftAge, MaxTime} \subseteq Nat
ASSUME FlagAssumption == AutoRefund \in BOOLEAN

\* "failed" says that the body reports the failure of a task for which no
\* upstream work was created; "expected" is the status a PUT may require.
Statuses == {"open", "failed"}
ASSUME TaskBodiesAssumption ==
  \A b \in Bodies :
    /\ {"op", "user", "task", "quote", "combo", "status", "expected"} \subseteq DOMAIN b
    /\ b.op \in {"post", "put"} /\ b.user \in Users /\ b.status \in Statuses
    /\ b.op = "post" => b.task \in (Tasks \ Minted) \union {None}
    /\ b.op = "put" => b.task \in Tasks
    /\ b.quote \in Quotes \union {None}
    /\ b.expected \in Statuses \union {None}

VARIABLES
  balance,   \* users.balance_points
  quote,     \* pricing_quotes_v2
  snapshot,  \* pricing_snapshots_v2, by quote: UNIQUE (quote_id)
  task,      \* narrator_tasks
  listed,    \* combo -> its price in the catalogue now
  clock,     \* the time "now" reads
  pc,        \* worker -> the statement it runs next, or its last answer
  req,       \* worker -> the request it serves
  pending,   \* worker -> what its database transaction is about to write
  held,      \* worker -> the row locks of its database transaction
  accepted,  \* history: the bodies answered with success
  funded     \* history: points each user was given by administrators

tables  == <<balance, quote, snapshot, task>>
workers == <<pc, req, pending, held>>
world   == <<listed, clock, funded>>
vars    == <<tables, workers, world, accepted>>

NoRow == [state |-> "missing"]
NoRequest == [body |-> None, task |-> None]
NothingPending == [charge |-> None, refund |-> None, now |-> 0]

\* "conflict" is 409, "rejected" any other 4xx, "unavailable" the 503 of a
\* storage error; "lost": rolled back without an answer.
Answers == {"ok", "rejected", "conflict", "unavailable", "lost"}
Idle == Answers \union {"idle"}
Stages == {"select", "insert", "quote", "snapshot", "debit", "refund", "credit",
           "commit", "aborted"}

Init ==
  /\ balance = Opening
  /\ quote = [q \in Quotes |-> NoRow]
  /\ snapshot = [q \in Quotes |-> NoRow]
  /\ task = [t \in Tasks |-> NoRow]
  /\ listed \in {f \in [DOMAIN Price -> UNION Range(Price)] :
                   \A combo \in DOMAIN Price : f[combo] \in Price[combo]}
  /\ clock = 0
  /\ pc = [w \in Workers |-> "idle"]
  /\ req = [w \in Workers |-> NoRequest]
  /\ pending = [w \in Workers |-> NothingPending]
  /\ held = [w \in Workers |-> {}]
  /\ accepted = {}
  /\ funded = Opening

-----------------------------------------------------------------------------

Body(w) == req[w].body
Task(w) == req[w].task

\* The row a worker's next statement waits for.  An insert waits for an
\* uncommitted insert of the same key, so a key is locked like a row.
LockAt(w) ==
  CASE pc[w] \in {"select", "insert"} -> <<"task", Task(w)>>
    [] pc[w] = "snapshot" -> <<"snapshot", Body(w).quote>>
    [] pc[w] = "refund"   -> <<"snapshot", task[Task(w)].link>>
    [] pc[w] \in {"debit", "credit"} -> <<"user", Body(w).user>>

Free(lock) == \A v \in Workers : lock \notin held[v]

Take(w) ==
  /\ Free(LockAt(w))
  /\ held' = [held EXCEPT ![w] = @ \union {LockAt(w)}]

\* Mutant: a refused request leaves its database transaction open.
AnswerLeaky(w, answer) ==
  /\ pc' = [pc EXCEPT ![w] = answer]
  /\ req' = [req EXCEPT ![w] = NoRequest]
  /\ pending' = [pending EXCEPT ![w] = NothingPending]
  /\ held' = IF answer \in {"rejected", "conflict"} THEN held ELSE [held EXCEPT ![w] = {}]
  /\ accepted' = IF answer = "ok" THEN accepted \union {Body(w)} ELSE accepted

\* Ends the database transaction (commit or rollback) and answers.
Answer(w, answer) ==
  /\ pc' = [pc EXCEPT ![w] = answer]
  /\ req' = [req EXCEPT ![w] = NoRequest]
  /\ pending' = [pending EXCEPT ![w] = NothingPending]
  /\ held' = [held EXCEPT ![w] = {}]
  /\ accepted' = IF answer = "ok" THEN accepted \union {Body(w)} ELSE accepted

AnswerNoWrite(w, answer) == Answer(w, answer) /\ UNCHANGED tables

\* Goes on in the same database transaction.
Proceed(w, stage, writes) ==
  /\ pc' = [pc EXCEPT ![w] = stage]
  /\ pending' = [pending EXCEPT ![w] = writes]
  /\ UNCHANGED <<tables, req, accepted>>

-----------------------------------------------------------------------------

\* A POST without an id creates a task under an id nobody else uses.  A PUT of
\* a generated id comes from a client that was told about it.
Receive(w) ==
  /\ pc[w] \in Idle
  /\ \E body \in Bodies :
       \/ /\ body.task # None
          /\ body.task \in Minted => task[body.task] # NoRow
          /\ req' = [req EXCEPT ![w] = [body |-> body, task |-> body.task]]
          /\ pc' = [pc EXCEPT ![w] = "select"]
       \/ /\ body.task = None
          /\ \E t \in Minted :
               /\ task[t] = NoRow /\ \A v \in Workers : Task(v) # t
               /\ req' = [req EXCEPT ![w] = [body |-> body, task |-> t]]
          /\ pc' = [pc EXCEPT ![w] = "insert"]
  /\ UNCHANGED <<tables, pending, held, accepted>>

\* What a request does once it holds its task row.
Then(w) ==
  IF Body(w).op = "post"
  THEN IF Body(w).quote # None THEN "quote" ELSE "commit"
  ELSE IF AutoRefund /\ Body(w).status = "failed" THEN "refund" ELSE "commit"

\* A row that exists is checked for its owner and, by PUT, for the status the
\* client expects.
LockTask(w) ==
  LET row == task[Task(w)]
      verdict == IF row.owner # Body(w).user THEN "rejected"
                 ELSE IF /\ Body(w).op = "put"
                         /\ Body(w).expected \notin {None, row.status} THEN "conflict"
                 ELSE Then(w)
  IN /\ row # NoRow
     /\ \/ verdict \in Answers /\ Free(LockAt(w)) /\ AnswerNoWrite(w, verdict)
        \/ verdict \notin Answers /\ Take(w) /\ Proceed(w, verdict, pending[w])

\* SELECT ... FOR UPDATE neither sees nor locks a row that is not committed.
SelectTask(w) ==
  /\ pc[w] = "select"
  /\ \/ LockTask(w)
     \/ /\ task[Task(w)] = NoRow
        /\ \/ /\ Body(w).op = "put"
              /\ AnswerNoWrite(w, "rejected")
           \/ /\ Body(w).op = "post"
              /\ Proceed(w, "insert", pending[w])
              /\ UNCHANGED held

\* Mutant: the loser of the insert race does not look at the owner.
InsertTaskBlind(w) ==
  /\ pc[w] = "insert"
  /\ Take(w)
  /\ Proceed(w, Then(w), pending[w])

\* INSERT under a savepoint; the loser of an insert race rolls back to it and
\* goes on with the row of the winner.
InsertTask(w) ==
  /\ pc[w] = "insert"
  /\ \/ LockTask(w)
     \/ task[Task(w)] = NoRow /\ Take(w) /\ Proceed(w, Then(w), pending[w])

\* The quote is the client's and was made for what is submitted.
Bound(w) ==
  LET q == quote[Body(w).quote] IN
  q # NoRow /\ q.user = Body(w).user /\ q.combo = Body(w).combo

\* A quote that was committed before is so for good, for the task linked to it.
CommittedVerdict(w) ==
  IF task[Task(w)] # NoRow /\ task[Task(w)].link = Body(w).quote
  THEN "commit" ELSE "conflict"

Drifted(q) == clock - q.created_at >= DriftAge /\ listed[q.combo] # q.price

\* Mutant: expiry is tested before an existing snapshot is looked for.
QuoteVerdictExpiryFirst(w) ==
  LET q == quote[Body(w).quote] IN
  IF ~Bound(w) \/ clock >= q.expires_at THEN "rejected"
  ELSE IF snapshot[Body(w).quote] # NoRow THEN CommittedVerdict(w)
  ELSE IF Drifted(q) THEN "rejected" ELSE "snapshot"

\* Mutant: a quote can be committed at the instant it expires.
QuoteVerdictLate(w) ==
  LET q == quote[Body(w).quote] IN
  IF ~Bound(w) THEN "rejected"
  ELSE IF snapshot[Body(w).quote] # NoRow THEN CommittedVerdict(w)
  ELSE IF clock > q.expires_at \/ Drifted(q) THEN "rejected" ELSE "snapshot"

\* commit_master_task_snapshot up to the insert: owner and parameters first, so
\* that a retry that drifted is refused; then the snapshot of an earlier commit;
\* then the age of the quote.
QuoteVerdict(w) ==
  LET q == quote[Body(w).quote] IN
  IF ~Bound(w) THEN "rejected"
  ELSE IF snapshot[Body(w).quote] # NoRow THEN CommittedVerdict(w)
  ELSE IF clock >= q.expires_at \/ Drifted(q) THEN "rejected" ELSE "snapshot"

ReadQuote(w) ==
  /\ pc[w] = "quote"
  /\ \/ QuoteVerdict(w) \in Answers /\ AnswerNoWrite(w, QuoteVerdict(w))
     \/ /\ QuoteVerdict(w) \notin Answers
        /\ Proceed(w, QuoteVerdict(w), [pending[w] EXCEPT !.now = clock])
        /\ UNCHANGED held

\* UNIQUE (quote_id): the insert waits for a rival one.  If that commits, the
\* collision aborts the database transaction of the loser, locks and all.
InsertSnapshot(w) ==
  LET q == Body(w).quote IN
  /\ pc[w] = "snapshot"
  /\ \/ /\ snapshot[q] = NoRow
        /\ Take(w)
        /\ Proceed(w, "debit", [pending[w] EXCEPT !.charge = q])
     \/ /\ snapshot[q] # NoRow
        /\ Free(LockAt(w))
        /\ Proceed(w, "aborted", NothingPending)
        /\ held' = [held EXCEPT ![w] = {}]

\* The loser looks the snapshot up again, in the aborted transaction, where
\* every statement fails.
RequeryAborted(w) ==
  /\ pc[w] = "aborted"
  /\ AnswerNoWrite(w, "unavailable")

\* UPDATE ... SET balance = balance - amount WHERE balance >= amount
Debit(w) ==
  LET u == Body(w).user
      amount == quote[Body(w).quote].price
  IN /\ pc[w] = "debit"
     /\ \/ /\ balance[u] < amount
           /\ Free(LockAt(w))
           /\ AnswerNoWrite(w, "rejected")
        \/ /\ balance[u] >= amount /\ amount > 0
           /\ Take(w)
           /\ Proceed(w, "commit", pending[w])
        \/ /\ amount = 0
           /\ Proceed(w, "commit", pending[w])
           /\ UNCHANGED held

\* POST: the task row with its link, the snapshot, the debit, the quote's stamp.
CommitPost(w) ==
  LET t == Task(w)
      q == pending[w].charge
      old == IF task[t] = NoRow THEN [owner |-> Body(w).user, link |-> None] ELSE task[t]
  IN /\ pc[w] = "commit" /\ Body(w).op = "post"
     /\ task' = [task EXCEPT ![t] =
          [owner |-> old.owner, status |-> Body(w).status,
           link |-> IF q = None THEN old.link ELSE q]]
     /\ \/ /\ q = None
           /\ UNCHANGED <<balance, quote, snapshot>>
        \/ /\ q # None
           /\ snapshot' = [snapshot EXCEPT ![q] =
                [user |-> Body(w).user, refund_status |-> "none",
                 amount |-> quote[q].price, committed_at |-> pending[w].now]]
           /\ balance' = [balance EXCEPT ![Body(w).user] = @ - quote[q].price]
           /\ quote' = [quote EXCEPT ![q].committed_at = pending[w].now]
     /\ Answer(w, "ok")

\* Mutant: the refund does not look at refund_status.
RefundAgain(w) ==
  LET link == task[Task(w)].link IN
  /\ pc[w] = "refund"
  /\ \/ /\ link # None
        /\ Take(w)
        /\ Proceed(w, "credit", [pending[w] EXCEPT !.refund = link])
     \/ /\ link = None
        /\ Proceed(w, "commit", pending[w])
        /\ UNCHANGED held

\* apply_auto_refund_if_eligible: the charge linked to the task is turned from
\* "none" to refunded by compare-and-set, by whoever gets there first.
Refund(w) ==
  LET link == task[Task(w)].link
      eligible == /\ link # None
                  /\ snapshot[link].user = Body(w).user
                  /\ snapshot[link].refund_status = "none"
  IN /\ pc[w] = "refund"
     /\ \/ /\ eligible
           /\ Take(w)
           /\ Proceed(w, "credit", [pending[w] EXCEPT !.refund = link])
        \/ /\ ~eligible
           /\ Proceed(w, "commit", pending[w])
           /\ UNCHANGED held

Credit(w) ==
  /\ pc[w] = "credit"
  /\ Proceed(w, "commit", pending[w])
  /\ \/ snapshot[pending[w].refund].amount > 0 /\ Take(w)
     \/ snapshot[pending[w].refund].amount = 0 /\ UNCHANGED held

\* Mutant: the storage error of a refund is swallowed and the task saved alone.
CommitPutSwallows(w) ==
  LET t == Task(w)
      q == pending[w].refund
  IN /\ pc[w] = "commit" /\ Body(w).op = "put"
     /\ task' = [task EXCEPT ![t].status = Body(w).status]
     /\ \/ UNCHANGED <<balance, snapshot>>
        \/ /\ q # None
           /\ snapshot' = [snapshot EXCEPT ![q].refund_status = "auto"]
           /\ balance' = [balance EXCEPT ![Body(w).user] = @ + snapshot[q].amount]
     /\ UNCHANGED quote
     /\ Answer(w, "ok")

\* PUT: the task's new body and, with it, the refund.
CommitPut(w) ==
  LET t == Task(w)
      q == pending[w].refund
  IN /\ pc[w] = "commit" /\ Body(w).op = "put"
     /\ task' = [task EXCEPT ![t].status = Body(w).status]
     /\ \/ q = None /\ UNCHANGED <<balance, snapshot>>
        \/ /\ q # None
           /\ snapshot' = [snapshot EXCEPT ![q].refund_status = "auto"]
           /\ balance' = [balance EXCEPT ![Body(w).user] = @ + snapshot[q].amount]
     /\ UNCHANGED quote
     /\ Answer(w, "ok")

\* Timeout, lost connection or crash before the commit.
Abort(w) ==
  /\ pc[w] \in Stages
  /\ AnswerNoWrite(w, "lost")

-----------------------------------------------------------------------------

\* generate_quote: reads the catalogue and the balance, inserts one row.
GenerateQuote(q, u, combo) ==
  /\ quote[q] = NoRow
  /\ balance[u] >= listed[combo]
  /\ quote' = [quote EXCEPT ![q] =
       [user |-> u, combo |-> combo, price |-> listed[combo], created_at |-> clock,
        expires_at |-> clock + QuoteTTL, committed_at |-> None]]
  /\ UNCHANGED <<balance, snapshot, task>>

\* A new catalogue version, or a new duration of the template.
Reprice(combo) ==
  \E price \in Price[combo] \ {listed[combo]} :
    listed' = [listed EXCEPT ![combo] = price]

\* update_user: an administrator sets the balance outright.
SetBalance(u) ==
  /\ Free(<<"user", u>>)
  /\ \E points \in Funding \ {balance[u]} :
       /\ balance' = [balance EXCEPT ![u] = points]
       /\ funded' = [funded EXCEPT ![u] = @ + points - balance[u]]

Tick ==
  /\ clock < MaxTime
  /\ clock' = clock + 1

\* The statements that go on with a request, up to its answer.
Advance(w) ==
  \/ SelectTask(w) \/ InsertTask(w)
  \/ ReadQuote(w) \/ InsertSnapshot(w) \/ RequeryAborted(w) \/ Debit(w)
  \/ Refund(w) \/ Credit(w)
  \/ CommitPost(w) \/ CommitPut(w)

Serve(w) == (Receive(w) \/ Advance(w) \/ Abort(w)) /\ UNCHANGED world

Next ==
  \/ \E w \in Workers : Serve(w)
  \/ /\ \E q \in Quotes, u \in Users, combo \in DOMAIN Price : GenerateQuote(q, u, combo)
     /\ UNCHANGED <<workers, world, accepted>>
  \/ /\ \E combo \in DOMAIN Price : Reprice(combo)
     /\ UNCHANGED <<tables, workers, clock, funded, accepted>>
  \/ /\ \E u \in Users : SetBalance(u)
     /\ UNCHANGED <<quote, snapshot, task, workers, listed, clock, accepted>>
  \/ Tick /\ UNCHANGED <<tables, workers, listed, funded, accepted>>

Spec == Init /\ [][Next]_vars

\* Postgres grants row locks in the order they were asked for: strong fairness.
FairSpec == Spec /\ \A w \in Workers : SF_vars(Advance(w) /\ UNCHANGED world)

-----------------------------------------------------------------------------

QuoteRow == [user : Users, combo : DOMAIN Price, price : Nat, created_at : Nat,
             expires_at : Nat, committed_at : Nat \union {None}]
SnapshotRow == [user : Users, refund_status : {"none", "auto"}, amount : Nat,
                committed_at : Nat]
TaskRow == [owner : Users, status : Statuses, link : Quotes \union {None}]
Locks == ({"task"} \X Tasks) \union ({"snapshot"} \X Quotes) \union ({"user"} \X Users)

\* Rows keep their shape; in particular no balance is ever negative.
TypeOK ==
  /\ balance \in [Users -> Nat]
  /\ quote \in [Quotes -> QuoteRow \union {NoRow}]
  /\ snapshot \in [Quotes -> SnapshotRow \union {NoRow}]
  /\ task \in [Tasks -> TaskRow \union {NoRow}]
  /\ listed \in [DOMAIN Price -> Nat]
  /\ clock \in Nat
  /\ pc \in [Workers -> Idle \union Stages]
  /\ req \in [Workers -> [body : Bodies, task : Tasks] \union {NoRequest}]
  /\ pending \in [Workers -> [charge : Quotes \union {None},
                              refund : Quotes \union {None}, now : Nat]]
  /\ held \in [Workers -> SUBSET Locks]
  /\ accepted \subseteq Bodies
  /\ funded \in [Users -> Int]

\* The charge each quote stands for, as long as it was not given back.
InForce(s, u) ==
  [q \in Quotes |-> IF s[q] # NoRow /\ s[q].user = u /\ s[q].refund_status = "none"
                    THEN s[q].amount ELSE 0]

\* No point is created or lost: what a user has and what its charges in force
\* amount to is what administrators gave it, however commits, refunds and
\* administrators' updates interleave and fail.
PointsAccounted ==
  \A u \in Users :
    balance[u] + SumFunctionOnSet(InForce(snapshot, u), Quotes) = funded[u]

\* A charge is the quoted price, taken from the user who asked for the quote,
\* before the quote expired; the quote is stamped exactly when it is charged.
ChargeHonoursQuote ==
  \A q \in Quotes :
    IF snapshot[q] = NoRow THEN quote[q] # NoRow => quote[q].committed_at = None
    ELSE /\ snapshot[q].user = quote[q].user
         /\ snapshot[q].amount = quote[q].price
         /\ snapshot[q].committed_at = quote[q].committed_at
         /\ snapshot[q].committed_at < quote[q].expires_at

\* What was answered stays true: an accepted POST owns its task, and its quote
\* has been charged to its user.
AcceptedHolds ==
  \A b \in accepted :
    /\ b.task # None => task[b.task] # NoRow /\ task[b.task].owner = b.user
    /\ b.op = "post" /\ b.quote # None =>
         snapshot[b.quote] # NoRow /\ snapshot[b.quote].user = b.user

Answered(w, answers) == pc[w] \in Stages /\ pc'[w] \in answers

\* An accepted POST sent again is not refused as long as its charge is linked
\* to its task: not after the quote expired, not after the price changed, not
\* after the balance was spent.
RetryAccepted ==
  [][\A w \in Workers :
       /\ Answered(w, {"rejected", "conflict"})
       /\ Body(w) \in accepted /\ Body(w).op = "post" /\ Body(w).task # None
       => Body(w).quote # None /\ task[Task(w)].link # Body(w).quote]_vars

\* A failure that is reported with nothing started gives the linked charge back
\* in the same commit, and nothing else gives a charge back.
RefundedWithFailure ==
  [][/\ \A w \in Workers :
          LET link == task[Task(w)].link IN
          /\ Answered(w, {"ok"}) /\ Body(w).op = "put" /\ Body(w).status = "failed"
          /\ AutoRefund /\ link # None /\ snapshot[link].user = Body(w).user
          => snapshot'[link].refund_status = "auto"
     /\ \A q \in Quotes :
          snapshot[q] # NoRow /\ snapshot'[q] # snapshot[q] =>
            \E t \in Tasks : /\ task[t] # NoRow /\ task[t].link = q
                             /\ task'[t].status = "failed"]_vars

Waits(w, v) ==
  pc[w] \in {"select", "insert", "snapshot", "debit", "refund", "credit"}
  /\ LockAt(w) \in held[v]

\* Row locks are taken in one order: task, snapshot, user.
NoWaitCycle ==
  \A S \in SUBSET Workers :
    S # {} => \E w \in S : \A v \in S : ~Waits(w, v)

\* Every request received is eventually answered.
RequestsAreAnswered ==
  \A w \in Workers : pc[w] \in Stages ~> pc[w] \in Answers
=============================================================================
