------------------------- MODULE TaskBillingProofs -------------------------
(***************************************************************************)
(* Safety of TaskBilling for any number of workers, tasks and users, any   *)
(* finite set of quotes, any prices, balances and bounds.                  *)
(***************************************************************************)
EXTENDS TaskBilling, SumLemmas, TLAPS

Working == {"quote", "snapshot", "debit", "refund", "credit", "commit"}

\* A lock has one holder.
LocksExclude ==
  \A v, w \in Workers : v # w => held[v] \intersect held[w] = {}

\* Snapshots are of quotes, links lead to snapshots.
RowsResolve ==
  /\ \A q \in Quotes : snapshot[q] # NoRow => quote[q] # NoRow
  /\ \A t \in Tasks :
       task[t] # NoRow /\ task[t].link # None => snapshot[task[t].link] # NoRow

\* Which locks a request holds at each statement.
LocksOf(w) ==
  /\ pc[w] \notin Working => held[w] = {}
  /\ pc[w] \in Working => <<"task", Task(w)>> \in held[w]
  /\ pc[w] \in {"quote", "snapshot", "refund"} => held[w] = {<<"task", Task(w)>>}
  /\ pc[w] \in {"debit", "credit"} => \A u \in Users : <<"user", u>> \notin held[w]

\* Which requests get to which statement.
RequestOf(w) ==
  /\ pc[w] \in Stages =>
       /\ req[w] \in [body : Bodies, task : Tasks]
       /\ Body(w).task # None => Task(w) = Body(w).task
  /\ pc[w] = "insert" => Body(w).op = "post"
  /\ pc[w] \in {"quote", "snapshot", "debit"} =>
       Body(w).op = "post" /\ Body(w).quote # None
  /\ pc[w] \in {"refund", "credit"} => Body(w).op = "put"

\* The task row of a request that holds its lock: its user's, if there is one.
RowOf(w) ==
  pc[w] \in Working =>
    \/ task[Task(w)] = NoRow /\ Body(w).op = "post"
    \/ task[Task(w)] # NoRow /\ task[Task(w)].owner = Body(w).user

\* The quote is its user's and had not expired when the request read it.
Chargeable(w) ==
  LET q == Body(w).quote IN
  /\ q \in Quotes
  /\ Bound(w)
  /\ pending[w].now < quote[q].expires_at

\* What is known of the charge a request is about to commit.
ChargeOf(w) ==
  /\ pc[w] = "snapshot" => Chargeable(w)
  /\ pc[w] = "debit" => pending[w].charge # None
  /\ pending[w].charge # None =>
       /\ pc[w] \in {"debit", "commit"}
       /\ Body(w).op = "post" /\ pending[w].charge = Body(w).quote
       /\ Chargeable(w)
       /\ snapshot[Body(w).quote] = NoRow
       /\ <<"snapshot", Body(w).quote>> \in held[w]
  /\ pc[w] = "commit" /\ pending[w].charge # None =>
       LET amount == quote[Body(w).quote].price IN
       /\ balance[Body(w).user] >= amount
       /\ amount > 0 => <<"user", Body(w).user>> \in held[w]
  /\ pc[w] = "commit" /\ Body(w).op = "post" /\ Body(w).quote # None
       /\ pending[w].charge = None =>
       /\ Bound(w)
       /\ snapshot[Body(w).quote] # NoRow
       /\ snapshot[Body(w).quote].user = Body(w).user

\* What is known of the refund a request is about to commit.
RefundOf(w) ==
  /\ pc[w] = "refund" => Body(w).status = "failed"
  /\ pc[w] = "credit" => pending[w].refund # None
  /\ pending[w].refund # None =>
       LET q == pending[w].refund IN
       /\ pc[w] \in {"credit", "commit"}
       /\ Body(w).op = "put" /\ Body(w).status = "failed"
       /\ task[Task(w)].link = q
       /\ snapshot[q] # NoRow
       /\ snapshot[q].user = Body(w).user /\ snapshot[q].refund_status = "none"
       /\ <<"snapshot", q>> \in held[w]
  /\ pc[w] = "commit" /\ Body(w).op = "put" /\ Body(w).status = "failed" /\ AutoRefund
       /\ pending[w].refund = None =>
       LET link == task[Task(w)].link IN
       link # None /\ snapshot[link].user = Body(w).user =>
         snapshot[link].refund_status = "auto"

\* An accepted request submitted what its quote was made for.
AcceptedMatches ==
  \A b \in accepted :
    b.op = "post" /\ b.quote # None =>
      /\ quote[b.quote] # NoRow
      /\ quote[b.quote].user = b.user /\ quote[b.quote].combo = b.combo

WorkerInv(w) ==
  LocksOf(w) /\ RequestOf(w) /\ RowOf(w) /\ ChargeOf(w) /\ RefundOf(w)

Inv ==
  /\ TypeOK
  /\ PointsAccounted /\ ChargeHonoursQuote /\ AcceptedHolds /\ AcceptedMatches
  /\ RowsResolve /\ LocksExclude
  /\ \A w \in Workers : WorkerInv(w)

-----------------------------------------------------------------------------

\* With no quote made every balance is what administrators gave.
LEMMA InitInv == Init => Inv
PROOF
  <1> SUFFICES ASSUME Init PROVE Inv
    OBVIOUS
  <1> USE DEF Init
  <1>1. TypeOK
    <2>1. listed \in [DOMAIN Price -> Nat]
      BY TaskPriceAssumption DEF Range
    <2>2. \A u \in Users : Opening[u] \in Nat
      BY FundsAssumption
    <2> QED BY <2>1, <2>2, FundsAssumption DEF TypeOK, Idle, NothingPending
  <1>2. PointsAccounted
    <2> SUFFICES ASSUME NEW u \in Users
                 PROVE  balance[u] + SumFunctionOnSet(InForce(snapshot, u), Quotes) = funded[u]
      BY DEF PointsAccounted
    <2>1. SumFunctionOnSet(InForce(snapshot, u), Quotes) = 0
      BY SumOfZeroes, QuotesAssumption DEF InForce
    <2> QED BY <2>1, FundsAssumption
  <1>3. ChargeHonoursQuote
    BY DEF ChargeHonoursQuote
  <1>4. AcceptedHolds /\ AcceptedMatches
    BY DEF AcceptedHolds, AcceptedMatches
  <1>5. RowsResolve /\ LocksExclude
    BY DEF RowsResolve, LocksExclude
  <1>6. \A w \in Workers : WorkerInv(w)
    BY DEF WorkerInv, LocksOf, RequestOf, RowOf, ChargeOf, RefundOf, Working, Stages, NothingPending
  <1> QED BY <1>1, <1>2, <1>3, <1>4, <1>5, <1>6 DEF Inv

\* What is known of a request depends on its own variables and on the tables.
LEMMA WorkerFrame ==
  ASSUME NEW w \in Workers, WorkerInv(w), UNCHANGED tables,
         pc'[w] = pc[w], req'[w] = req[w], pending'[w] = pending[w], held'[w] = held[w]
  PROVE  WorkerInv(w)'
PROOF
  <1> USE DEF tables, Body, Task
  <1>1. LocksOf(w)'
    BY DEF WorkerInv, LocksOf
  <1>2. RequestOf(w)'
    BY DEF WorkerInv, RequestOf
  <1>3. RowOf(w)'
    BY DEF WorkerInv, RowOf
  <1>4. ChargeOf(w)'
    BY DEF WorkerInv, ChargeOf, Chargeable, Bound
  <1>5. RefundOf(w)'
    BY DEF WorkerInv, RefundOf
  <1> QED BY <1>1, <1>2, <1>3, <1>4, <1>5 DEF WorkerInv

\* A statement that writes nothing others can see keeps the invariant if it
\* keeps what is known of its own request.
LEMMA ProceedInv ==
  ASSUME Inv, NEW w \in Workers, pc[w] \in Stages, UNCHANGED world,
         NEW stage \in Stages,
         NEW writes \in [charge : Quotes \union {None}, refund : Quotes \union {None}, now : Nat],
         Proceed(w, stage, writes),
         \/ UNCHANGED held
         \/ LockAt(w) \in Locks /\ Take(w)
         \/ held' = [held EXCEPT ![w] = {}],
         WorkerInv(w)'
  PROVE  Inv'
PROOF
  <1>1. /\ UNCHANGED <<tables, world, req, accepted>>
        /\ pc' = [pc EXCEPT ![w] = stage]
        /\ pending' = [pending EXCEPT ![w] = writes]
    BY DEF Proceed
  <1>2. held' \in [Workers -> SUBSET Locks] /\ \A v \in Workers \ {w} : held'[v] = held[v]
    BY DEF Inv, TypeOK, Take
  <1>3. TypeOK'
    BY <1>1, <1>2 DEF Inv, TypeOK, tables, world
  <1>4. LocksExclude'
    <2>1. CASE UNCHANGED held
      BY <2>1 DEF Inv, LocksExclude
    <2>2. CASE LockAt(w) \in Locks /\ Take(w)
      BY <2>2 DEF Inv, TypeOK, LocksExclude, Take, Free
    <2>3. CASE held' = [held EXCEPT ![w] = {}]
      BY <2>3 DEF Inv, TypeOK, LocksExclude
    <2> QED BY <2>1, <2>2, <2>3
  <1>5. ASSUME NEW v \in Workers PROVE WorkerInv(v)'
    <2>1. CASE v = w
      BY <2>1
    <2>2. CASE v # w
      <3>1. WorkerInv(v)
        BY DEF Inv
      <3>2. pc'[v] = pc[v] /\ req'[v] = req[v] /\ pending'[v] = pending[v]
        BY <1>1, <2>2 DEF Inv, TypeOK
      <3> QED BY <3>1, <3>2, <1>1, <1>2, <2>2, WorkerFrame
    <2> QED BY <2>1, <2>2
  <1>6. (PointsAccounted /\ ChargeHonoursQuote /\ AcceptedHolds /\ AcceptedMatches /\ RowsResolve)'
    <2>1. UNCHANGED <<balance, funded, snapshot, quote, task, accepted>>
      BY <1>1 DEF tables, world
    <2> QED BY <2>1 DEF Inv, PointsAccounted, ChargeHonoursQuote, AcceptedHolds, AcceptedMatches, RowsResolve, InForce
  <1> QED BY <1>3, <1>4, <1>5, <1>6 DEF Inv

\* A request that ends frees its locks and leaves the other requests alone.
LEMMA EndOfRequest ==
  ASSUME Inv, NEW w \in Workers, NEW answer \in Answers, Answer(w, answer)
  PROVE  /\ pc' \in [Workers -> Idle \union Stages]
         /\ req' \in [Workers -> [body : Bodies, task : Tasks] \union {NoRequest}]
         /\ pending' \in [Workers -> [charge : Quotes \union {None},
                                      refund : Quotes \union {None}, now : Nat]]
         /\ held' \in [Workers -> SUBSET Locks]
         /\ LocksExclude'
         /\ WorkerInv(w)'
         /\ \A v \in Workers \ {w} :
              pc'[v] = pc[v] /\ req'[v] = req[v] /\ pending'[v] = pending[v] /\ held'[v] = held[v]
PROOF
  <1>1. /\ pc' = [pc EXCEPT ![w] = answer]
        /\ req' = [req EXCEPT ![w] = NoRequest]
        /\ pending' = [pending EXCEPT ![w] = NothingPending]
        /\ held' = [held EXCEPT ![w] = {}]
    BY DEF Answer
  <1>2. LocksExclude'
    BY <1>1 DEF Inv, TypeOK, LocksExclude
  <1>3. WorkerInv(w)'
    <2>1. pc'[w] = answer /\ held'[w] = {} /\ pending'[w] = NothingPending
      BY <1>1 DEF Inv, TypeOK
    <2>2. answer \notin Stages /\ answer \notin Working
      BY DEF Answers, Stages, Working
    <2> QED
      BY <2>1, <2>2 DEF WorkerInv, LocksOf, RequestOf, RowOf, ChargeOf, RefundOf,
                        Answers, NothingPending
  <1> QED BY <1>1, <1>2, <1>3 DEF Inv, TypeOK, Idle, NothingPending

\* A request that ends without having written anything.
LEMMA AnswerInv ==
  ASSUME Inv, NEW w \in Workers, UNCHANGED world,
         NEW answer \in Answers \ {"ok"}, AnswerNoWrite(w, answer)
  PROVE  Inv'
PROOF
  <1>1. UNCHANGED <<balance, funded, snapshot, quote, task, accepted, listed, clock>>
    BY DEF AnswerNoWrite, Answer, tables, world
  <1>2. Answer(w, answer)
    BY DEF AnswerNoWrite
  <1>3. TypeOK' /\ LocksExclude'
    BY <1>1, <1>2, EndOfRequest DEF Inv, TypeOK
  <1>4. ASSUME NEW v \in Workers PROVE WorkerInv(v)'
    <2>1. WorkerInv(v) /\ UNCHANGED tables
      BY <1>1 DEF Inv, tables
    <2> QED BY <1>2, <2>1, EndOfRequest, WorkerFrame
  <1>5. (PointsAccounted /\ ChargeHonoursQuote /\ AcceptedHolds /\ AcceptedMatches /\ RowsResolve)'
    BY <1>1 DEF Inv, PointsAccounted, ChargeHonoursQuote, AcceptedHolds, AcceptedMatches, RowsResolve, InForce
  <1> QED BY <1>3, <1>4, <1>5 DEF Inv

-----------------------------------------------------------------------------

\* What a request does once it holds its task row.
LEMMA ThenStage ==
  ASSUME NEW w
  PROVE  /\ Then(w) \in {"quote", "refund", "commit"}
         /\ Then(w) = "quote" => Body(w).op = "post" /\ Body(w).quote # None
         /\ Body(w).op = "post" /\ Then(w) = "commit" => Body(w).quote = None
         /\ Then(w) = "refund" => Body(w).op # "post" /\ Body(w).status = "failed"
         /\ Body(w).op # "post" /\ AutoRefund /\ Body(w).status = "failed" => Then(w) = "refund"
BY DEF Then

\* Taking the task row, or the key of a new one.
LEMMA TakeTaskInv ==
  ASSUME Inv, NEW w \in Workers, pc[w] \in {"select", "insert"}, UNCHANGED world,
         \/ task[Task(w)] = NoRow /\ Body(w).op = "post"
         \/ task[Task(w)] # NoRow /\ task[Task(w)].owner = Body(w).user,
         Take(w), Proceed(w, Then(w), pending[w])
  PROVE  Inv'
PROOF
  <1>1. req[w] \in [body : Bodies, task : Tasks] /\ (Body(w).task # None => Task(w) = Body(w).task)
    BY DEF Inv, WorkerInv, RequestOf, Stages
  <1>2. LockAt(w) = <<"task", Task(w)>> /\ LockAt(w) \in Locks
    BY <1>1 DEF LockAt, Locks, Task
  <1>3. /\ UNCHANGED <<tables, req>> /\ pending'[w] = pending[w]
        /\ pc'[w] = Then(w) /\ held'[w] = {<<"task", Task(w)>>}
    BY <1>2 DEF Inv, TypeOK, Proceed, Take, WorkerInv, LocksOf, Working
  <1>4. pending[w].charge = None /\ pending[w].refund = None
    BY DEF Inv, WorkerInv, ChargeOf, RefundOf
  <1>5. Body(w).op \in {"post", "put"}
    BY <1>1, TaskBodiesAssumption DEF Body
  <1>6. LocksOf(w)'
    BY <1>3, ThenStage DEF LocksOf, Working, Task
  <1>7. RequestOf(w)'
    BY <1>1, <1>3, <1>5, ThenStage DEF RequestOf, Body, Task
  <1>8. RowOf(w)'
    BY <1>3 DEF RowOf, Body, Task, tables
  <1>9. (ChargeOf(w) /\ RefundOf(w))'
    BY <1>3, <1>4, <1>5, ThenStage DEF ChargeOf, RefundOf, Body
  <1>10. Then(w) \in Stages /\ pc[w] \in Stages
    BY ThenStage DEF Stages
  <1>11. pending[w] \in [charge : Quotes \union {None}, refund : Quotes \union {None}, now : Nat]
    BY DEF Inv, TypeOK
  <1> QED
    BY <1>2, <1>6, <1>7, <1>8, <1>9, <1>10, <1>11, ProceedInv DEF WorkerInv

\* A committed task row is refused, or taken by its owner.
LEMMA LockTaskInv ==
  ASSUME Inv, NEW w \in Workers, pc[w] \in {"select", "insert"}, UNCHANGED world,
         LockTask(w)
  PROVE  Inv'
PROOF
  <1> DEFINE verdict == IF task[Task(w)].owner # Body(w).user THEN "rejected"
                        ELSE IF /\ Body(w).op = "put"
                                /\ Body(w).expected \notin {None, task[Task(w)].status} THEN "conflict"
                        ELSE Then(w)
  <1>1. task[Task(w)] # NoRow
    BY DEF LockTask
  <1>2. CASE verdict \in Answers /\ AnswerNoWrite(w, verdict)
    <2>1. verdict # "ok"
      BY ThenStage
    <2> QED BY <1>2, <2>1, AnswerInv
  <1>3. CASE verdict \notin Answers /\ Take(w) /\ Proceed(w, verdict, pending[w])
    <2>1. verdict = Then(w) /\ task[Task(w)].owner = Body(w).user
      BY <1>3 DEF Answers
    <2> HIDE DEF verdict
    <2> QED BY <1>1, <1>3, <2>1, TakeTaskInv
  <1> QED BY <1>2, <1>3 DEF LockTask

\* The first statement of a request that names its task.
LEMMA SelectTaskInv ==
  ASSUME Inv, NEW w \in Workers, UNCHANGED world, SelectTask(w)
  PROVE  Inv'
PROOF
  <1>1. CASE LockTask(w)
    BY <1>1, LockTaskInv DEF SelectTask
  <1>2. CASE AnswerNoWrite(w, "rejected")
    BY <1>2, AnswerInv DEF Answers
  <1>3. CASE Body(w).op = "post" /\ Proceed(w, "insert", pending[w]) /\ UNCHANGED held
    <2>1. pc[w] = "select"
      BY DEF SelectTask
    <2>2. /\ UNCHANGED <<tables, req, held>> /\ pending'[w] = pending[w] /\ pc'[w] = "insert"
      BY <1>3 DEF Inv, TypeOK, Proceed
    <2>3. WorkerInv(w)
      BY DEF Inv
    <2>4. (LocksOf(w) /\ RequestOf(w) /\ RowOf(w))'
      BY <1>3, <2>1, <2>2, <2>3 DEF WorkerInv, LocksOf, RequestOf, RowOf, Working, Stages, Body, Task
    <2>5. (ChargeOf(w) /\ RefundOf(w))'
      BY <2>1, <2>2, <2>3 DEF WorkerInv, ChargeOf, RefundOf
    <2>6. "insert" \in Stages /\ pc[w] \in Stages
      BY <2>1 DEF Stages
    <2>7. pending[w] \in [charge : Quotes \union {None}, refund : Quotes \union {None}, now : Nat]
      BY DEF Inv, TypeOK
    <2> QED BY <1>3, <2>4, <2>5, <2>6, <2>7, ProceedInv DEF WorkerInv
  <1> QED BY <1>1, <1>2, <1>3 DEF SelectTask

\* The insert of a task row, won or lost.
LEMMA InsertTaskInv ==
  ASSUME Inv, NEW w \in Workers, UNCHANGED world, InsertTask(w)
  PROVE  Inv'
PROOF
  <1>1. pc[w] = "insert" /\ Body(w).op = "post"
    BY DEF InsertTask, Inv, WorkerInv, RequestOf
  <1>2. CASE LockTask(w)
    BY <1>1, <1>2, LockTaskInv
  <1>3. CASE task[Task(w)] = NoRow /\ Take(w) /\ Proceed(w, Then(w), pending[w])
    BY <1>1, <1>3, TakeTaskInv
  <1> QED BY <1>2, <1>3 DEF InsertTask

\* The types of what a request is about to write.
LEMMA PendingType ==
  ASSUME Inv, NEW w \in Workers
  PROVE  /\ pending[w] \in [charge : Quotes \union {None}, refund : Quotes \union {None}, now : Nat]
         /\ WorkerInv(w)
         /\ clock \in Nat
BY DEF Inv, TypeOK

\* What is found of the quote goes into what is known of the request.
LEMMA ReadQuoteInv ==
  ASSUME Inv, NEW w \in Workers, UNCHANGED world, ReadQuote(w)
  PROVE  Inv'
PROOF
  <1> DEFINE verdict == QuoteVerdict(w)
             writes == [pending[w] EXCEPT !.now = clock]
             q == Body(w).quote
  <1>1. pc[w] = "quote"
    BY DEF ReadQuote
  <1>2. verdict \in {"rejected", "conflict", "commit", "snapshot"}
    BY DEF QuoteVerdict, CommittedVerdict
  <1>3. CASE verdict \in Answers /\ AnswerNoWrite(w, verdict)
    <2>1. verdict # "ok"
      BY <1>2
    <2> HIDE DEF verdict
    <2> QED BY <1>3, <2>1, AnswerInv
  <1>4. CASE verdict \notin Answers /\ Proceed(w, verdict, writes) /\ UNCHANGED held
    <2>1. verdict \in {"commit", "snapshot"}
      BY <1>2, <1>4 DEF Answers
    <2>2. writes \in [charge : Quotes \union {None}, refund : Quotes \union {None}, now : Nat]
      BY PendingType
    <2>3. /\ UNCHANGED <<tables, req, held>> /\ pending'[w] = writes /\ pc'[w] = verdict
      BY <1>4 DEF Inv, TypeOK, Proceed
    <2>4. /\ writes.charge = None /\ writes.refund = None /\ writes.now = clock
          /\ Body(w).op = "post" /\ q \in Quotes
          /\ req[w] \in [body : Bodies, task : Tasks]
      <3>1. WorkerInv(w) /\ pending[w].charge = None /\ pending[w].refund = None
        BY <1>1, PendingType DEF WorkerInv, ChargeOf, RefundOf
      <3>2. req[w] \in [body : Bodies, task : Tasks] /\ Body(w).op = "post" /\ q # None
        BY <1>1, <3>1 DEF WorkerInv, RequestOf, Stages
      <3>3. q \in Quotes
        BY <3>2, TaskBodiesAssumption DEF Body
      <3> QED BY <3>1, <3>2, <3>3, PendingType
    <2>5. Bound(w)
      BY <2>1 DEF QuoteVerdict
    <2>6. (LocksOf(w) /\ RequestOf(w) /\ RowOf(w))'
      <3>1. WorkerInv(w)
        BY PendingType
      <3> HIDE DEF verdict, writes
      <3> QED BY <1>1, <2>1, <2>3, <2>4, <3>1
             DEF WorkerInv, LocksOf, RequestOf, RowOf, Working, Stages, Body, Task, tables
    <2>7. RefundOf(w)'
      BY <2>1, <2>3, <2>4 DEF RefundOf, Body
    <2>8. ChargeOf(w)'
      <3>1. CASE verdict = "snapshot"
        <4>1. clock < quote[q].expires_at
          <5>1. ~(clock >= quote[q].expires_at)
            BY <3>1 DEF QuoteVerdict, CommittedVerdict
          <5>2. quote[q].expires_at \in Nat
            BY <2>4, <2>5 DEF Bound, Inv, TypeOK, QuoteRow
          <5> QED BY <5>1, <5>2, PendingType
        <4>2. Chargeable(w)'
          BY <2>3, <2>4, <2>5, <4>1 DEF Chargeable, Bound, Body, tables
        <4> QED BY <2>3, <2>4, <3>1, <4>2 DEF ChargeOf
      <3>2. CASE verdict = "commit"
        <4>1. snapshot[q] # NoRow
          BY <3>2 DEF QuoteVerdict
        <4>2. snapshot[q].user = Body(w).user
          BY <2>4, <2>5, <4>1 DEF Inv, ChargeHonoursQuote, Bound
        <4> QED BY <2>3, <2>4, <2>5, <3>2, <4>1, <4>2 DEF ChargeOf, Bound, Body, tables
      <3> QED BY <2>1, <3>1, <3>2
    <2>9. verdict \in Stages /\ pc[w] \in Stages
      BY <1>1, <2>1 DEF Stages
    <2> HIDE DEF verdict, writes
    <2> QED BY <1>4, <2>2, <2>6, <2>7, <2>8, <2>9, ProceedInv DEF WorkerInv
  <1> QED BY <1>3, <1>4 DEF ReadQuote

\* The insert takes the key of the snapshot, or loses to a committed one.
LEMMA InsertSnapshotInv ==
  ASSUME Inv, NEW w \in Workers, UNCHANGED world, InsertSnapshot(w)
  PROVE  Inv'
PROOF
  <1> DEFINE q == Body(w).quote
             writes == [pending[w] EXCEPT !.charge = q]
  <1>1. pc[w] = "snapshot" /\ pc[w] \in Stages
    BY DEF InsertSnapshot, Stages
  <1>2. /\ WorkerInv(w) /\ Chargeable(w) /\ q \in Quotes
        /\ pending[w].charge = None /\ pending[w].refund = None
    BY <1>1, PendingType DEF WorkerInv, ChargeOf, RefundOf, Chargeable
  <1>3. CASE snapshot[q] = NoRow /\ Take(w) /\ Proceed(w, "debit", writes)
    <2>1. LockAt(w) = <<"snapshot", q>> /\ LockAt(w) \in Locks
      BY <1>1, <1>2 DEF LockAt, Locks
    <2>2. writes \in [charge : Quotes \union {None}, refund : Quotes \union {None}, now : Nat]
      BY <1>2, PendingType
    <2>3. /\ UNCHANGED <<tables, req>> /\ pending'[w] = writes /\ pc'[w] = "debit"
          /\ held'[w] = held[w] \union {<<"snapshot", q>>}
      BY <1>3, <2>1 DEF Inv, TypeOK, Proceed, Take
    <2>4. writes.charge = q /\ writes.refund = None /\ writes.now = pending[w].now
      BY <1>2, PendingType
    <2> HIDE DEF writes
    <2>5. (LocksOf(w) /\ RequestOf(w) /\ RowOf(w))'
      BY <1>1, <1>2, <2>3
         DEF WorkerInv, LocksOf, RequestOf, RowOf, Working, Stages, Body, Task, tables
    <2>6. Chargeable(w)'
      BY <1>2, <2>3, <2>4 DEF Chargeable, Bound, Body, tables
    <2>7. (ChargeOf(w) /\ RefundOf(w))'
      <3>1. Body(w).op = "post" /\ q # None
        BY <1>1, <1>2 DEF WorkerInv, RequestOf
      <3> QED BY <1>3, <2>3, <2>4, <2>6, <3>1 DEF ChargeOf, RefundOf, Body, tables
    <2>8. "debit" \in Stages
      BY DEF Stages
    <2> QED BY <1>1, <1>3, <2>1, <2>2, <2>5, <2>7, <2>8, ProceedInv DEF WorkerInv
  <1>4. CASE Proceed(w, "aborted", NothingPending) /\ held' = [held EXCEPT ![w] = {}]
    <2>1. /\ UNCHANGED <<tables, req>> /\ pending'[w] = NothingPending /\ pc'[w] = "aborted"
          /\ held'[w] = {}
      BY <1>4 DEF Inv, TypeOK, Proceed
    <2>2. (LocksOf(w) /\ RequestOf(w) /\ RowOf(w))'
      BY <1>1, <1>2, <2>1 DEF WorkerInv, LocksOf, RequestOf, RowOf, Working, Stages, Body, Task
    <2>3. (ChargeOf(w) /\ RefundOf(w))'
      BY <2>1 DEF ChargeOf, RefundOf, NothingPending
    <2>4. /\ "aborted" \in Stages
          /\ NothingPending \in [charge : Quotes \union {None}, refund : Quotes \union {None}, now : Nat]
      BY DEF Stages, NothingPending
    <2> QED BY <1>1, <1>4, <2>2, <2>3, <2>4, ProceedInv DEF WorkerInv
  <1> QED BY <1>3, <1>4 DEF InsertSnapshot

\* The debit leaves its row locked and its balance sufficient.
LEMMA DebitInv ==
  ASSUME Inv, NEW w \in Workers, UNCHANGED world, Debit(w)
  PROVE  Inv'
PROOF
  <1> DEFINE u == Body(w).user
             amount == quote[Body(w).quote].price
  <1>1. pc[w] = "debit" /\ pc[w] \in Stages /\ "commit" \in Stages
    BY DEF Debit, Stages
  <1>2. /\ WorkerInv(w) /\ Chargeable(w) /\ pending[w].charge = Body(w).quote
        /\ pending[w].charge # None /\ pending[w].refund = None
        /\ req[w] \in [body : Bodies, task : Tasks]
    BY <1>1, PendingType DEF WorkerInv, RequestOf, ChargeOf, RefundOf
  <1>3. u \in Users /\ balance[u] \in Nat
    BY <1>2, TaskBodiesAssumption DEF Body, Inv, TypeOK
  <1>4. CASE AnswerNoWrite(w, "rejected")
    BY <1>4, AnswerInv DEF Answers
  <1>5. CASE /\ balance[u] >= amount
             /\ Proceed(w, "commit", pending[w])
             /\ \/ amount > 0 /\ Take(w)
                \/ amount = 0 /\ UNCHANGED held
    <2>1. LockAt(w) = <<"user", u>> /\ LockAt(w) \in Locks
      BY <1>1, <1>3 DEF LockAt, Locks
    <2>2. /\ UNCHANGED <<tables, req>> /\ pending'[w] = pending[w] /\ pc'[w] = "commit"
          /\ held[w] \subseteq held'[w]
          /\ amount # 0 => <<"user", u>> \in held'[w]
      BY <1>5, <2>1 DEF Inv, TypeOK, Proceed, Take
    <2>3. (LocksOf(w) /\ RequestOf(w) /\ RowOf(w))'
      BY <1>1, <1>2, <2>2
         DEF WorkerInv, LocksOf, RequestOf, RowOf, Working, Stages, Body, Task, tables
    <2>4. Chargeable(w)'
      BY <1>2, <2>2 DEF Chargeable, Bound, Body, tables
    <2>5. (ChargeOf(w) /\ RefundOf(w))'
      <3>1. amount > 0 => amount # 0
        BY <1>2 DEF Chargeable, Bound, Inv, TypeOK, QuoteRow
      <3>2. /\ Body(w).op = "post" /\ snapshot[Body(w).quote] = NoRow
            /\ <<"snapshot", Body(w).quote>> \in held[w]
        BY <1>1, <1>2 DEF WorkerInv, ChargeOf
      <3> QED BY <1>2, <1>5, <2>2, <2>4, <3>1, <3>2 DEF ChargeOf, RefundOf, Body, tables
    <2> QED BY <1>1, <1>5, <2>1, <2>3, <2>5, PendingType, ProceedInv DEF WorkerInv
  <1>6. amount = 0 => balance[u] >= amount
    BY <1>3
  <1> QED BY <1>4, <1>5, <1>6 DEF Debit

\* The compare-and-set leaves the snapshot locked and in force.
LEMMA RefundInv ==
  ASSUME Inv, NEW w \in Workers, UNCHANGED world, Refund(w)
  PROVE  Inv'
PROOF
  <1> DEFINE link == task[Task(w)].link
             writes == [pending[w] EXCEPT !.refund = link]
  <1>1. pc[w] = "refund" /\ pc[w] \in Stages /\ "credit" \in Stages /\ "commit" \in Stages
    BY DEF Refund, Stages
  <1>2. /\ WorkerInv(w) /\ pending[w].charge = None /\ pending[w].refund = None
        /\ Body(w).op = "put" /\ Body(w).status = "failed"
        /\ req[w] \in [body : Bodies, task : Tasks]
    BY <1>1, PendingType DEF WorkerInv, RequestOf, ChargeOf, RefundOf
  <1>3. Task(w) \in Tasks /\ task[Task(w)] # NoRow
    BY <1>1, <1>2 DEF WorkerInv, RowOf, Working, Task
  <1>4. CASE /\ link # None /\ snapshot[link].user = Body(w).user
             /\ snapshot[link].refund_status = "none"
             /\ Take(w) /\ Proceed(w, "credit", writes)
    <2>1. link \in Quotes /\ snapshot[link] # NoRow
      BY <1>3, <1>4 DEF Inv, TypeOK, TaskRow, RowsResolve
    <2>2. LockAt(w) = <<"snapshot", link>> /\ LockAt(w) \in Locks
      BY <1>1, <2>1 DEF LockAt, Locks
    <2>3. /\ writes \in [charge : Quotes \union {None}, refund : Quotes \union {None}, now : Nat]
          /\ writes.charge = None /\ writes.refund = link
      BY <1>2, <2>1, PendingType
    <2> HIDE DEF writes
    <2>4. /\ UNCHANGED <<tables, req>> /\ pending'[w] = writes /\ pc'[w] = "credit"
          /\ held'[w] = held[w] \union {<<"snapshot", link>>}
      BY <1>4, <2>2 DEF Inv, TypeOK, Proceed, Take
    <2>5. (LocksOf(w) /\ RequestOf(w) /\ RowOf(w))'
      BY <1>1, <1>2, <2>4
         DEF WorkerInv, LocksOf, RequestOf, RowOf, Working, Stages, Body, Task, tables
    <2>6. (ChargeOf(w) /\ RefundOf(w))'
      BY <1>2, <1>4, <2>1, <2>3, <2>4 DEF ChargeOf, RefundOf, Body, Task, tables
    <2> QED BY <1>1, <1>4, <2>2, <2>3, <2>5, <2>6, ProceedInv DEF WorkerInv
  <1>5. CASE /\ ~(/\ link # None /\ snapshot[link].user = Body(w).user
                 /\ snapshot[link].refund_status = "none")
             /\ Proceed(w, "commit", pending[w]) /\ UNCHANGED held
    <2>1. UNCHANGED <<tables, req, held>> /\ pending'[w] = pending[w] /\ pc'[w] = "commit"
      BY <1>5 DEF Inv, TypeOK, Proceed
    <2>2. (LocksOf(w) /\ RequestOf(w) /\ RowOf(w))'
      BY <1>1, <1>2, <2>1
         DEF WorkerInv, LocksOf, RequestOf, RowOf, Working, Stages, Body, Task, tables
    <2>3. (ChargeOf(w) /\ RefundOf(w))'
      <3>1. link # None /\ snapshot[link].user = Body(w).user =>
              snapshot[link].refund_status = "auto"
        <4>1. link # None => link \in Quotes /\ snapshot[link] # NoRow
          BY <1>3 DEF Inv, TypeOK, TaskRow, RowsResolve
        <4> QED BY <1>5, <4>1 DEF Inv, TypeOK, SnapshotRow
      <3> QED BY <1>2, <2>1, <3>1 DEF ChargeOf, RefundOf, Body, Task, tables
    <2> QED BY <1>1, <1>5, <2>2, <2>3, PendingType, ProceedInv DEF WorkerInv
  <1> QED BY <1>4, <1>5 DEF Refund

\* The credit leaves what is known of the refund as it was.
LEMMA CreditInv ==
  ASSUME Inv, NEW w \in Workers, UNCHANGED world, Credit(w)
  PROVE  Inv'
PROOF
  <1>1. pc[w] = "credit" /\ pc[w] \in Stages /\ "commit" \in Stages
    BY DEF Credit, Stages
  <1>2. /\ WorkerInv(w) /\ pending[w].charge = None /\ Body(w).op = "put"
        /\ req[w] \in [body : Bodies, task : Tasks]
    BY <1>1, PendingType DEF WorkerInv, RequestOf, ChargeOf
  <1>3. LockAt(w) = <<"user", Body(w).user>> /\ LockAt(w) \in Locks
    BY <1>1, <1>2, TaskBodiesAssumption DEF LockAt, Locks, Body
  <1>4. /\ UNCHANGED <<tables, req>> /\ pending'[w] = pending[w] /\ pc'[w] = "commit"
        /\ held[w] \subseteq held'[w]
    BY <1>3 DEF Inv, TypeOK, Proceed, Credit, Take
  <1>5. (LocksOf(w) /\ RequestOf(w) /\ RowOf(w))'
    BY <1>1, <1>2, <1>4
       DEF WorkerInv, LocksOf, RequestOf, RowOf, Working, Stages, Body, Task, tables
  <1>6. (ChargeOf(w) /\ RefundOf(w))'
    BY <1>1, <1>2, <1>4 DEF WorkerInv, ChargeOf, RefundOf, Body, Task, tables
  <1>7. Proceed(w, "commit", pending[w]) /\ (Take(w) \/ UNCHANGED held)
    BY DEF Credit
  <1> QED BY <1>1, <1>3, <1>5, <1>6, <1>7, PendingType, ProceedInv DEF WorkerInv

\* Requests that fail write nothing.
LEMMA EndsInv ==
  ASSUME Inv, NEW w \in Workers, UNCHANGED world, RequeryAborted(w) \/ Abort(w)
  PROVE  Inv'
BY AnswerInv DEF RequeryAborted, Abort, Answers

\* A worker that is not serving a request takes one.
LEMMA ReceiveInv ==
  ASSUME Inv, NEW w \in Workers, UNCHANGED world, Receive(w)
  PROVE  Inv'
PROOF
  <1>1. /\ UNCHANGED <<tables, pending, held, accepted>> /\ pc[w] \in Idle
        /\ \E r \in [body : Bodies, task : Tasks], stage \in {"select", "insert"} :
             /\ req' = [req EXCEPT ![w] = r] /\ pc' = [pc EXCEPT ![w] = stage]
             /\ r.body.task # None => r.task = r.body.task
             /\ stage = "insert" => r.body.op = "post"
    <2>1. PICK body \in Bodies :
            \/ /\ body.task # None
               /\ req' = [req EXCEPT ![w] = [body |-> body, task |-> body.task]]
               /\ pc' = [pc EXCEPT ![w] = "select"]
            \/ /\ body.task = None
               /\ \E t \in Minted : req' = [req EXCEPT ![w] = [body |-> body, task |-> t]]
               /\ pc' = [pc EXCEPT ![w] = "insert"]
      BY DEF Receive
    <2>2. CASE body.task # None
      <3>1. body.task \in Tasks
        BY <2>2, TaskBodiesAssumption
      <3>2. [body |-> body, task |-> body.task] \in [body : Bodies, task : Tasks]
        BY <3>1
      <3> QED BY <2>1, <2>2, <3>2 DEF Receive
    <2>3. CASE body.task = None
      <3>1. PICK t \in Minted : req' = [req EXCEPT ![w] = [body |-> body, task |-> t]]
        BY <2>1, <2>3
      <3>2. body.op = "post"
        BY <2>3, TaskBodiesAssumption, TasksAssumption
      <3>3. [body |-> body, task |-> t] \in [body : Bodies, task : Tasks]
        BY TasksAssumption
      <3> QED BY <2>1, <2>3, <3>1, <3>2, <3>3 DEF Receive
    <2> QED BY <2>2, <2>3
  <1>2. PICK r \in [body : Bodies, task : Tasks], stage \in {"select", "insert"} :
             /\ req' = [req EXCEPT ![w] = r] /\ pc' = [pc EXCEPT ![w] = stage]
             /\ r.body.task # None => r.task = r.body.task
             /\ stage = "insert" => r.body.op = "post"
    BY <1>1
  <1>3. UNCHANGED <<balance, funded, snapshot, quote, task, accepted, listed, clock, pending, held>>
    BY <1>1 DEF tables, world
  <1>4. TypeOK'
    BY <1>2, <1>3 DEF Inv, TypeOK, Stages
  <1>5. WorkerInv(w)'
    <2>1. /\ pc'[w] = stage /\ req'[w] = r
          /\ held'[w] = {} /\ pending'[w].charge = None /\ pending'[w].refund = None
      <3>1. pc[w] \notin Working \union {"debit", "commit", "credit"}
        BY <1>1 DEF Idle, Answers, Working
      <3> QED BY <1>2, <1>3, <3>1 DEF Inv, TypeOK, WorkerInv, LocksOf, ChargeOf, RefundOf
    <2> QED BY <1>2, <2>1 DEF WorkerInv, LocksOf, RequestOf, RowOf, ChargeOf, RefundOf,
                              Working, Stages, Body, Task
  <1>6. ASSUME NEW v \in Workers PROVE WorkerInv(v)'
    <2>1. CASE v = w
      BY <1>5, <2>1
    <2>2. CASE v # w
      <3>1. WorkerInv(v) /\ UNCHANGED tables
        BY <1>1 DEF Inv
      <3>2. pc'[v] = pc[v] /\ req'[v] = req[v] /\ pending'[v] = pending[v] /\ held'[v] = held[v]
        BY <1>2, <1>3, <2>2 DEF Inv, TypeOK
      <3> QED BY <3>1, <3>2, WorkerFrame
    <2> QED BY <2>1, <2>2
  <1>7. (PointsAccounted /\ ChargeHonoursQuote /\ AcceptedHolds /\ AcceptedMatches /\ RowsResolve /\ LocksExclude)'
    BY <1>3 DEF Inv, PointsAccounted, ChargeHonoursQuote, AcceptedHolds, AcceptedMatches, RowsResolve,
                InForce, LocksExclude
  <1> QED BY <1>4, <1>6, <1>7 DEF Inv

-----------------------------------------------------------------------------

Snapshots == [Quotes -> SnapshotRow \union {NoRow}]

\* Charges in force are points.
LEMMA InForceType ==
  ASSUME NEW s \in Snapshots, NEW u
  PROVE  InForce(s, u) \in [Quotes -> Nat]
BY DEF Snapshots, SnapshotRow, InForce

\* When one snapshot changes, the charges in force change by its amount.
LEMMA ChangedSnapshot ==
  ASSUME NEW s \in Snapshots, NEW r \in Snapshots, NEW u, NEW q \in Quotes,
         \A p \in Quotes \ {q} : r[p] = s[p]
  PROVE  /\ SumFunctionOnSet(InForce(s, u), Quotes) \in Nat
         /\ SumFunctionOnSet(InForce(r, u), Quotes) =
              SumFunctionOnSet(InForce(s, u), Quotes) - InForce(s, u)[q] + InForce(r, u)[q]
PROOF
  <1> DEFINE f == InForce(s, u)
             g == InForce(r, u)
  <1>1. f \in [Quotes -> Nat] /\ g \in [Quotes -> Nat]
    BY InForceType
  <1>2. \A p \in Quotes \ {q} : f[p] = g[p]
    BY DEF InForce
  <1> HIDE DEF f, g
  <1>3. SumFunctionOnSet(f, Quotes) \in Nat
        /\ SumFunctionOnSet(g, Quotes) = SumFunctionOnSet(f, Quotes) - f[q] + g[q]
    BY <1>1, <1>2, SumUpdate, QuotesAssumption
  <1> QED BY <1>3 DEF f, g

\* A request that commits has its answer recorded, and its row is its user's.
LEMMA CommitFacts ==
  ASSUME Inv, NEW w \in Workers, pc[w] = "commit"
  PROVE  /\ req[w] \in [body : Bodies, task : Tasks]
         /\ Body(w) \in Bodies /\ Body(w).user \in Users /\ Body(w).status \in Statuses
         /\ Task(w) \in Tasks
         /\ Body(w).task # None => Task(w) = Body(w).task
         /\ \/ task[Task(w)] = NoRow /\ Body(w).op = "post"
            \/ task[Task(w)] # NoRow /\ task[Task(w)].owner = Body(w).user
         /\ <<"task", Task(w)>> \in held[w]
         /\ ChargeOf(w) /\ RefundOf(w)
PROOF
  <1>1. WorkerInv(w)
    BY DEF Inv
  <1>2. req[w] \in [body : Bodies, task : Tasks] /\ (Body(w).task # None => Task(w) = Body(w).task)
    BY <1>1 DEF WorkerInv, RequestOf, Stages
  <1> QED
    BY <1>1, <1>2, TaskBodiesAssumption DEF WorkerInv, LocksOf, RowOf, Working, Body, Task

\* What no commit changes of a row that exists.
SameQuote(q) ==
  /\ quote'[q] # NoRow
  /\ quote'[q].user = quote[q].user /\ quote'[q].combo = quote[q].combo
  /\ quote'[q].price = quote[q].price /\ quote'[q].expires_at = quote[q].expires_at
SameCharge(q) ==
  /\ snapshot'[q] # NoRow /\ snapshot'[q].user = snapshot[q].user
  /\ snapshot[q].refund_status = "auto" => snapshot'[q].refund_status = "auto"

\* The other requests when a task row and the row of one snapshot are written
\* by the holder of their locks, and a balance by its holder or upwards.
LEMMA OthersAtCommit ==
  ASSUME Inv, NEW w \in Workers, NEW v \in Workers, v # w,
         NEW t, <<"task", t>> \in held[w], \A x \in Tasks \ {t} : task'[x] = task[x],
         NEW q, q # None => <<"snapshot", q>> \in held[w],
         \A p \in Quotes \ {q} : snapshot'[p] = snapshot[p],
         \A p \in Quotes : snapshot[p] # NoRow => SameCharge(p),
         \A p \in Quotes : quote[p] # NoRow => SameQuote(p),
         \A u \in Users : \/ balance'[u] >= balance[u]
                          \/ <<"user", u>> \in held[w] /\ balance'[u] \in Nat,
         balance' \in [Users -> Nat],
         pc'[v] = pc[v], req'[v] = req[v], pending'[v] = pending[v], held'[v] = held[v]
  PROVE  WorkerInv(v)'
PROOF
  <1>1. WorkerInv(v) /\ held[v] \intersect held[w] = {}
    BY DEF Inv, LocksExclude
  <1>2. (LocksOf(v) /\ RequestOf(v))'
    BY <1>1 DEF WorkerInv, LocksOf, RequestOf, Body, Task
  <1>3. ASSUME pc[v] \in Working
        PROVE  Task(v) \in Tasks /\ task'[Task(v)] = task[Task(v)]
    <2>2. <<"task", Task(v)>> \in held[v] /\ Task(v) \in Tasks
      BY <1>1, <1>3 DEF WorkerInv, LocksOf, RequestOf, Working, Stages, Task
    <2>3. Task(v) # t
      BY <1>1, <2>2
    <2> QED BY <2>2, <2>3
  <1>7. RowOf(v)'
    BY <1>1, <1>3 DEF WorkerInv, RowOf, Body, Task
  <1>4. Chargeable(v) => Chargeable(v)'
    BY DEF Chargeable, Bound, Body, SameQuote
  <1>5. ChargeOf(v)'
    <2>1. ChargeOf(v)
      BY <1>1 DEF WorkerInv
    <2>2. pending[v].charge # None => snapshot'[Body(v).quote] = NoRow
      BY <1>1, <2>1 DEF ChargeOf, Chargeable
    <2>3. ASSUME pc[v] = "commit", pending[v].charge # None
          PROVE  /\ balance'[Body(v).user] >= quote'[Body(v).quote].price
                 /\ quote'[Body(v).quote].price > 0 => <<"user", Body(v).user>> \in held[v]
      <3> DEFINE u == Body(v).user
                 amount == quote[Body(v).quote].price
      <3>1. /\ Chargeable(v) /\ balance[u] >= amount
            /\ amount > 0 => <<"user", u>> \in held[v]
        BY <2>1, <2>3 DEF ChargeOf
      <3>2. quote'[Body(v).quote].price = amount /\ amount \in Nat
        BY <3>1 DEF SameQuote, Chargeable, Bound, Inv, TypeOK, QuoteRow
      <3>3. u \in Users /\ balance[u] \in Nat /\ balance'[u] \in Nat
        BY <2>3, CommitFacts DEF Inv, TypeOK
      <3>4. CASE balance'[u] >= balance[u]
        BY <3>1, <3>2, <3>3, <3>4
      <3>5. CASE <<"user", u>> \in held[w]
        <4>1. ~(amount > 0)
          BY <1>1, <3>1, <3>5
        <4> QED BY <3>2, <3>3, <4>1
      <3> QED BY <3>1, <3>2, <3>3, <3>4, <3>5
    <2>4. ASSUME pc[v] = "commit", Body(v).op = "post", Body(v).quote # None,
                 pending[v].charge = None
          PROVE  /\ Bound(v)'
                 /\ snapshot'[Body(v).quote] # NoRow
                 /\ snapshot'[Body(v).quote].user = Body(v).user
      <3>1. Body(v).quote \in Quotes
        BY <2>4, CommitFacts, TaskBodiesAssumption
      <3>2. /\ Bound(v) /\ snapshot[Body(v).quote] # NoRow
            /\ snapshot[Body(v).quote].user = Body(v).user
        BY <2>1, <2>4 DEF ChargeOf
      <3>3. SameCharge(Body(v).quote) /\ SameQuote(Body(v).quote)
        BY <3>1, <3>2 DEF Bound
      <3> QED BY <3>2, <3>3 DEF Bound, Body, SameQuote, SameCharge
    <2> QED BY <1>4, <2>1, <2>2, <2>3, <2>4 DEF ChargeOf, Body
  <1>6. RefundOf(v)'
    <2>1. RefundOf(v)
      BY <1>1 DEF WorkerInv
    <2>2. ASSUME pending[v].refund # None
          PROVE  /\ snapshot'[pending[v].refund] = snapshot[pending[v].refund]
                 /\ task'[Task(v)] = task[Task(v)]
      <3>1. <<"snapshot", pending[v].refund>> \in held[v] /\ pending[v].refund \in Quotes
        BY <2>1, <2>2 DEF RefundOf, Inv, TypeOK
      <3>2. pending[v].refund # q
        BY <1>1, <2>2, <3>1
      <3>3. pc[v] \in Working
        BY <2>1, <2>2 DEF RefundOf, Working
      <3> QED BY <1>3, <3>1, <3>2, <3>3
    <2>3. ASSUME pc[v] = "commit", Body(v).op = "put", task[Task(v)].link # None,
                 snapshot'[task[Task(v)].link].user = Body(v).user,
                 snapshot[task[Task(v)].link].user = Body(v).user =>
                   snapshot[task[Task(v)].link].refund_status = "auto"
          PROVE  snapshot'[task[Task(v)].link].refund_status = "auto"
      <3> DEFINE link == task[Task(v)].link
      <3>1. Task(v) \in Tasks /\ task[Task(v)] # NoRow
        BY <2>3, CommitFacts
      <3>2. link \in Quotes /\ snapshot[link] # NoRow
        BY <2>3, <3>1 DEF Inv, TypeOK, TaskRow, RowsResolve
      <3> QED BY <2>3, <3>2 DEF SameCharge
    <2>4. pc[v] = "commit" => task'[Task(v)] = task[Task(v)]
      BY <1>3 DEF Working
    <2> QED BY <2>1, <2>2, <2>3, <2>4 DEF RefundOf, Body, Task
  <1> QED BY <1>2, <1>5, <1>6, <1>7 DEF WorkerInv

\* A task row keeps its owner and is not deleted, so that what was answered
\* about it stays true; the commit's own answer is true of what it writes.
LEMMA AcceptedAtCommit ==
  ASSUME Inv, NEW w \in Workers, pc[w] = "commit",
         accepted' = accepted \union {Body(w)},
         \A t \in Tasks : task[t] # NoRow =>
           task'[t] # NoRow /\ task'[t].owner = task[t].owner,
         task'[Task(w)] # NoRow /\ task'[Task(w)].owner = Body(w).user,
         \A q \in Quotes : snapshot[q] # NoRow =>
           snapshot'[q] # NoRow /\ snapshot'[q].user = snapshot[q].user,
         \A q \in Quotes : quote[q] # NoRow =>
           /\ quote'[q] # NoRow
           /\ quote'[q].user = quote[q].user /\ quote'[q].combo = quote[q].combo,
         Body(w).op = "post" /\ pending[w].charge # None =>
           LET q == pending[w].charge IN
           snapshot'[q] # NoRow /\ snapshot'[q].user = Body(w).user
  PROVE  AcceptedHolds' /\ AcceptedMatches'
PROOF
  <1> SUFFICES ASSUME NEW b \in accepted'
               PROVE  /\ b.task # None => task'[b.task] # NoRow /\ task'[b.task].owner = b.user
                      /\ b.op = "post" /\ b.quote # None =>
                           /\ snapshot'[b.quote] # NoRow /\ snapshot'[b.quote].user = b.user
                           /\ quote'[b.quote] # NoRow
                           /\ quote'[b.quote].user = b.user /\ quote'[b.quote].combo = b.combo
    BY DEF AcceptedHolds, AcceptedMatches
  <1>1. CASE b \in accepted
    <2>1. b \in Bodies
      BY <1>1 DEF Inv, TypeOK
    <2>2. (b.task # None => b.task \in Tasks) /\ (b.quote # None => b.quote \in Quotes)
      BY <2>1, TaskBodiesAssumption
    <2> QED BY <1>1, <2>2 DEF Inv, AcceptedHolds, AcceptedMatches
  <1>2. CASE b = Body(w)
    <2>1. b.quote # None => b.quote \in Quotes
      BY <1>2, CommitFacts, TaskBodiesAssumption
    <2>2. b.task # None => task'[b.task] # NoRow /\ task'[b.task].owner = b.user
      BY <1>2, CommitFacts
    <2>3. ASSUME b.op = "post", b.quote # None
          PROVE  /\ snapshot'[b.quote] # NoRow /\ snapshot'[b.quote].user = b.user
                 /\ quote'[b.quote] # NoRow
                 /\ quote'[b.quote].user = b.user /\ quote'[b.quote].combo = b.combo
      <3>1. ChargeOf(w)
        BY CommitFacts
      <3>2. CASE pending[w].charge = None
        BY <1>2, <2>1, <2>3, <3>1, <3>2 DEF ChargeOf, Bound
      <3>3. CASE pending[w].charge # None
        BY <1>2, <2>1, <2>3, <3>1, <3>3 DEF ChargeOf, Chargeable, Bound
      <3> QED BY <3>2, <3>3
    <2> QED BY <2>2, <2>3
  <1> QED BY <1>1, <1>2

\* The parts of a commit that do not depend on what it writes.
LEMMA EndOfCommit ==
  ASSUME Inv, NEW w \in Workers, UNCHANGED world, Answer(w, "ok"),
         /\ balance' \in [Users -> Nat]
         /\ quote' \in [Quotes -> QuoteRow \union {NoRow}]
         /\ snapshot' \in [Quotes -> SnapshotRow \union {NoRow}]
         /\ task' \in [Tasks -> TaskRow \union {NoRow}],
         pc[w] = "commit"
  PROVE  /\ TypeOK' /\ LocksExclude' /\ WorkerInv(w)'
         /\ accepted' = accepted \union {Body(w)}
PROOF
  <1>1. accepted' = accepted \union {Body(w)} /\ "ok" \in Answers
    BY DEF Answer, Answers
  <1>2. accepted' \subseteq Bodies
    BY <1>1, CommitFacts DEF Inv, TypeOK
  <1>3. listed' \in [DOMAIN Price -> Nat] /\ clock' \in Nat /\ funded' \in [Users -> Int]
    BY DEF Inv, TypeOK, world
  <1> QED BY <1>1, <1>2, <1>3, EndOfRequest DEF TypeOK

\* A commit without a quote, or of a quote committed before: the task alone.
LEMMA CommitTaskInv ==
  ASSUME Inv, NEW w \in Workers, UNCHANGED world, pc[w] = "commit", Answer(w, "ok"),
         UNCHANGED <<balance, quote, snapshot>>,
         NEW row \in TaskRow, row.owner = Body(w).user,
         row.link # None => snapshot[row.link] # NoRow,
         task' = [task EXCEPT ![Task(w)] = row],
         Body(w).op = "post" => pending[w].charge = None
  PROVE  Inv'
PROOF
  <1>1. task' \in [Tasks -> TaskRow \union {NoRow}] /\ Task(w) \in Tasks
    BY CommitFacts DEF Inv, TypeOK
  <1>2. task'[Task(w)] = row /\ row # NoRow /\ \A t \in Tasks \ {Task(w)} : task'[t] = task[t]
    <2>1. row # NoRow
      BY DEF TaskRow, NoRow
    <2> QED BY <1>1, <2>1 DEF Inv, TypeOK
  <1>3. TypeOK' /\ LocksExclude' /\ WorkerInv(w)' /\ accepted' = accepted \union {Body(w)}
    BY <1>1, EndOfCommit DEF Inv, TypeOK
  <1>4. ASSUME NEW v \in Workers \ {w} PROVE WorkerInv(v)'
    <2>1. pc'[v] = pc[v] /\ req'[v] = req[v] /\ pending'[v] = pending[v] /\ held'[v] = held[v]
      BY EndOfRequest DEF Answers
    <2>2. \A u \in Users : balance'[u] >= balance[u]
      BY DEF Inv, TypeOK
    <2>3. balance' \in [Users -> Nat] /\ <<"task", Task(w)>> \in held[w] /\ None \notin Quotes
      BY CommitFacts, QuotesAssumption DEF Inv, TypeOK
    <2>4. /\ \A p \in Quotes : snapshot[p] # NoRow => SameCharge(p)
          /\ \A p \in Quotes : quote[p] # NoRow => SameQuote(p)
      BY DEF SameCharge, SameQuote
    <2> QED BY <1>2, <2>1, <2>2, <2>3, <2>4, OthersAtCommit
  <1>5. AcceptedHolds' /\ AcceptedMatches'
    <2>1. \A t \in Tasks : task[t] # NoRow => task'[t] # NoRow /\ task'[t].owner = task[t].owner
      BY <1>1, <1>2, CommitFacts
    <2> QED BY <1>2, <1>3, <2>1, AcceptedAtCommit
  <1>6. RowsResolve'
    BY <1>1, <1>2 DEF Inv, RowsResolve
  <1>7. (PointsAccounted /\ ChargeHonoursQuote)'
    BY DEF Inv, PointsAccounted, ChargeHonoursQuote, InForce, world
  <1> QED BY <1>3, <1>4, <1>5, <1>6, <1>7 DEF Inv

\* The row POST writes.
OldRow(w) ==
  IF task[Task(w)] = NoRow THEN [owner |-> Body(w).user, link |-> None] ELSE task[Task(w)]
PostedRow(w) ==
  LET q == pending[w].charge IN
  [owner |-> OldRow(w).owner, status |-> Body(w).status,
   link |-> IF q = None THEN OldRow(w).link ELSE q]

\* That row is its user's, and what it links to has a snapshot or is charged now.
LEMMA PostedRowType ==
  ASSUME Inv, NEW w \in Workers, pc[w] = "commit"
  PROVE  LET q == pending[w].charge
             row == PostedRow(w)
         IN /\ row \in TaskRow /\ row.owner = Body(w).user
            /\ q # None => row.link = q
            /\ q = None /\ row.link # None => snapshot[row.link] # NoRow
PROOF
  <1>1. /\ Task(w) \in Tasks /\ Body(w).user \in Users /\ Body(w).status \in Statuses
        /\ task[Task(w)] # NoRow => task[Task(w)].owner = Body(w).user
    BY CommitFacts
  <1>2. pending[w].charge \in Quotes \union {None}
    BY DEF Inv, TypeOK
  <1>3. /\ OldRow(w).owner = Body(w).user /\ OldRow(w).link \in Quotes \union {None}
        /\ OldRow(w).link # None => snapshot[OldRow(w).link] # NoRow
    <2>1. CASE task[Task(w)] = NoRow
      BY <2>1 DEF OldRow
    <2>2. CASE task[Task(w)] # NoRow
      BY <1>1, <2>2 DEF Inv, TypeOK, TaskRow, RowsResolve, OldRow
    <2> QED BY <2>1, <2>2
  <1> QED BY <1>1, <1>2, <1>3 DEF TaskRow, PostedRow

\* POST debits exactly what it puts in force.
LEMMA CommitPostInv ==
  ASSUME Inv, NEW w \in Workers, UNCHANGED world, CommitPost(w)
  PROVE  Inv'
PROOF
  <1> DEFINE t == Task(w)
             q == pending[w].charge
             u == Body(w).user
             amount == quote[q].price
             row == PostedRow(w)
             charge == [user |-> u, refund_status |-> "none",
                        amount |-> amount, committed_at |-> pending[w].now]
  <1>1. /\ pc[w] = "commit" /\ Body(w).op = "post" /\ Answer(w, "ok")
        /\ task' = [task EXCEPT ![t] = row]
    BY DEF CommitPost, PostedRow, OldRow
  <1>2. q \in Quotes \union {None} /\ pending[w].now \in Nat
    BY DEF Inv, TypeOK
  <1>3. /\ row \in TaskRow /\ row.owner = u
        /\ q # None => row.link = q
        /\ q = None /\ row.link # None => snapshot[row.link] # NoRow
    BY <1>1, PostedRowType
  <1>4. CASE q = None
    <2>1. UNCHANGED <<balance, quote, snapshot>>
      BY <1>4 DEF CommitPost
    <2> HIDE DEF row
    <2> QED BY <1>1, <1>3, <1>4, <2>1, CommitTaskInv
  <1>5. CASE q # None
    <2>1. /\ snapshot' = [snapshot EXCEPT ![q] = charge]
          /\ balance' = [balance EXCEPT ![u] = @ - amount]
          /\ quote' = [quote EXCEPT ![q].committed_at = pending[w].now]
      BY <1>5 DEF CommitPost
    <2>2. /\ q \in Quotes /\ q = Body(w).quote /\ snapshot[q] = NoRow
          /\ <<"snapshot", q>> \in held[w] /\ Chargeable(w)
          /\ balance[u] >= amount /\ (amount > 0 => <<"user", u>> \in held[w])
      BY <1>1, <1>2, <1>5, CommitFacts DEF ChargeOf
    <2>3. /\ quote[q] \in QuoteRow /\ quote[q].user = u /\ amount \in Nat
          /\ pending[w].now < quote[q].expires_at
      BY <2>2 DEF Chargeable, Bound, Inv, TypeOK, QuoteRow
    <2>4. t \in Tasks /\ u \in Users /\ <<"task", t>> \in held[w] /\ Body(w) \in Bodies
      BY <1>1, CommitFacts
    <2>5. charge \in SnapshotRow /\ charge # NoRow /\ row # NoRow
      <3>1. charge \in SnapshotRow /\ charge # NoRow
        BY <1>2, <2>3, <2>4 DEF SnapshotRow, NoRow
      <3>2. row # NoRow
        BY <1>3 DEF TaskRow, NoRow
      <3> QED BY <3>1, <3>2
    <2>6. /\ quote'[q] \in QuoteRow /\ quote'[q] # NoRow
          /\ quote'[q].user = u /\ quote'[q].combo = quote[q].combo
          /\ quote'[q].price = amount /\ quote'[q].expires_at = quote[q].expires_at
          /\ quote'[q].committed_at = pending[w].now
      <3>1. quote'[q] = [quote[q] EXCEPT !.committed_at = pending[w].now]
        BY <2>1, <2>2 DEF Inv, TypeOK
      <3> QED BY <1>2, <2>3, <3>1 DEF QuoteRow, NoRow
    <2>7. /\ snapshot'[q] = charge /\ task'[t] = row
          /\ \A p \in Quotes \ {q} : snapshot'[p] = snapshot[p] /\ quote'[p] = quote[p]
          /\ \A x \in Tasks \ {t} : task'[x] = task[x]
      BY <1>1, <2>1, <2>2, <2>4 DEF Inv, TypeOK
    <2> HIDE DEF row
    <2>8. balance'[u] = balance[u] - amount /\ \A x \in Users \ {u} : balance'[x] = balance[x]
      BY <2>1, <2>4 DEF Inv, TypeOK
    <2>9. /\ balance' \in [Users -> Nat]
          /\ quote' \in [Quotes -> QuoteRow \union {NoRow}]
          /\ snapshot' \in [Quotes -> SnapshotRow \union {NoRow}]
          /\ task' \in [Tasks -> TaskRow \union {NoRow}]
      <3>1. balance[u] \in Nat /\ balance[u] - amount \in Nat
        BY <2>2, <2>3, <2>4 DEF Inv, TypeOK
      <3>2. balance' \in [Users -> Nat]
        BY <2>1, <3>1 DEF Inv, TypeOK
      <3>3. quote' \in [Quotes -> QuoteRow \union {NoRow}]
        BY <2>1, <2>6, <2>7 DEF Inv, TypeOK
      <3> QED BY <1>1, <1>3, <2>1, <2>5, <3>2, <3>3 DEF Inv, TypeOK
    <2>10. TypeOK' /\ LocksExclude' /\ WorkerInv(w)' /\ accepted' = accepted \union {Body(w)}
      BY <1>1, <2>9, EndOfCommit
    <2>11. ASSUME NEW v \in Workers \ {w} PROVE WorkerInv(v)'
      <3>1. pc'[v] = pc[v] /\ req'[v] = req[v] /\ pending'[v] = pending[v] /\ held'[v] = held[v]
        BY <1>1, EndOfRequest DEF Answers
      <3>2. ASSUME NEW x \in Users
            PROVE  balance'[x] >= balance[x] \/ (<<"user", x>> \in held[w] /\ balance'[x] \in Nat)
        <4>1. balance[x] \in Nat /\ balance'[x] \in Nat
          BY <2>9 DEF Inv, TypeOK
        <4>2. CASE x # u \/ amount = 0
          BY <2>8, <4>1, <4>2
        <4>3. CASE x = u /\ amount # 0
          BY <2>2, <2>3, <4>1, <4>3
        <4> QED BY <4>2, <4>3
      <3>3. /\ \A p \in Quotes : snapshot[p] # NoRow => SameCharge(p)
            /\ \A p \in Quotes : quote[p] # NoRow => SameQuote(p)
        BY <2>2, <2>3, <2>6, <2>7 DEF SameCharge, SameQuote
      <3> QED BY <2>2, <2>4, <2>7, <2>9, <3>1, <3>2, <3>3, OthersAtCommit
    <2>12. AcceptedHolds' /\ AcceptedMatches'
      <3>1. \A x \in Tasks : task[x] # NoRow => task'[x] # NoRow /\ task'[x].owner = task[x].owner
        BY <1>1, <1>3, <2>4, <2>5, <2>7, CommitFacts
      <3>2. \A p \in Quotes : snapshot[p] # NoRow =>
              snapshot'[p] # NoRow /\ snapshot'[p].user = snapshot[p].user
        BY <2>2, <2>7
      <3>3. \A p \in Quotes : quote[p] # NoRow =>
              /\ quote'[p] # NoRow
              /\ quote'[p].user = quote[p].user /\ quote'[p].combo = quote[p].combo
        BY <2>3, <2>6, <2>7
      <3> QED BY <1>1, <1>3, <2>5, <2>7, <2>10, <3>1, <3>2, <3>3, AcceptedAtCommit
    <2>13. RowsResolve'
      <3>1. \A p \in Quotes : snapshot'[p] # NoRow => quote'[p] # NoRow
        BY <2>6, <2>7 DEF Inv, RowsResolve
      <3>2. \A x \in Tasks : task'[x] # NoRow /\ task'[x].link # None =>
              snapshot'[task'[x].link] # NoRow
        <4>1. snapshot'[row.link] # NoRow
          BY <1>3, <1>5, <2>5, <2>7
        <4>2. \A x \in Tasks \ {t} : task[x] # NoRow /\ task[x].link # None =>
                task[x].link \in Quotes /\ snapshot'[task[x].link] # NoRow
          BY <2>5, <2>7 DEF Inv, TypeOK, TaskRow, RowsResolve
        <4> QED BY <2>4, <2>7, <4>1, <4>2
      <3> QED BY <3>1, <3>2 DEF RowsResolve
    <2>14. ChargeHonoursQuote'
      <3>1. /\ charge.user = u /\ charge.amount = amount
            /\ charge.committed_at = pending[w].now
        OBVIOUS
      <3> HIDE DEF charge
      <3>2. ASSUME NEW p \in Quotes
            PROVE  IF snapshot'[p] = NoRow
                   THEN quote'[p] # NoRow => quote'[p].committed_at = None
                   ELSE /\ snapshot'[p].user = quote'[p].user
                        /\ snapshot'[p].amount = quote'[p].price
                        /\ snapshot'[p].committed_at = quote'[p].committed_at
                        /\ snapshot'[p].committed_at < quote'[p].expires_at
        <4>1. CASE p = q
          BY <2>3, <2>5, <2>6, <2>7, <3>1, <4>1
        <4>2. CASE p # q
          BY <2>7, <4>2 DEF Inv, ChargeHonoursQuote
        <4> QED BY <4>1, <4>2
      <3> QED BY <3>2 DEF ChargeHonoursQuote
    <2>15. PointsAccounted'
      <3> SUFFICES ASSUME NEW x \in Users
                   PROVE  balance'[x] + SumFunctionOnSet(InForce(snapshot', x), Quotes) = funded'[x]
        BY DEF PointsAccounted, InForce
      <3>1. snapshot \in Snapshots /\ snapshot' \in Snapshots
        BY <2>9 DEF Snapshots, Inv, TypeOK
      <3>2. /\ SumFunctionOnSet(InForce(snapshot, x), Quotes) \in Nat
            /\ SumFunctionOnSet(InForce(snapshot', x), Quotes) =
                 SumFunctionOnSet(InForce(snapshot, x), Quotes)
                 - InForce(snapshot, x)[q] + InForce(snapshot', x)[q]
        BY <2>2, <2>7, <3>1, ChangedSnapshot
      <3>3. InForce(snapshot, x)[q] = 0 /\ InForce(snapshot', x)[q] = IF x = u THEN amount ELSE 0
        BY <2>2, <2>5, <2>7 DEF InForce
      <3>4. balance[x] + SumFunctionOnSet(InForce(snapshot, x), Quotes) = funded'[x]
        BY DEF Inv, PointsAccounted, world
      <3>5. balance[x] \in Nat /\ amount \in Nat
        BY <2>3 DEF Inv, TypeOK
      <3> QED BY <2>8, <3>2, <3>3, <3>4, <3>5
    <2> QED BY <2>10, <2>11, <2>12, <2>13, <2>14, <2>15 DEF Inv
  <1> QED BY <1>4, <1>5

\* The row PUT writes: only the status is new.
LEMMA CommitPutInv ==
  ASSUME Inv, NEW w \in Workers, UNCHANGED world, CommitPut(w)
  PROVE  Inv'
PROOF
  <1> DEFINE t == Task(w)
             q == pending[w].refund
             u == Body(w).user
             row == [task[t] EXCEPT !.status = Body(w).status]
             back == [snapshot[q] EXCEPT !.refund_status = "auto"]
  <1>1. /\ pc[w] = "commit" /\ Body(w).op = "put" /\ Answer(w, "ok") /\ UNCHANGED quote
        /\ task' = [task EXCEPT ![t].status = Body(w).status]
    BY DEF CommitPut
  <1>2. /\ t \in Tasks /\ u \in Users /\ Body(w).status \in Statuses
        /\ <<"task", t>> \in held[w]
        /\ task[t] # NoRow /\ task[t].owner = u /\ task[t] \in TaskRow
    <2>1. t \in Tasks /\ task[t] # NoRow
      BY <1>1, CommitFacts
    <2> QED BY <1>1, <2>1, CommitFacts DEF Inv, TypeOK
  <1>3. /\ row \in TaskRow /\ row.owner = u /\ row.link = task[t].link
        /\ row.link # None => snapshot[row.link] # NoRow
    BY <1>2 DEF TaskRow, Inv, RowsResolve
  <1>4. task' = [task EXCEPT ![t] = row]
    BY <1>1, <1>2 DEF Inv, TypeOK
  <1>5. CASE UNCHANGED <<balance, snapshot>>
    <2> HIDE DEF row
    <2> QED BY <1>1, <1>3, <1>4, <1>5, CommitTaskInv
  <1>6. CASE /\ q # None
             /\ snapshot' = [snapshot EXCEPT ![q].refund_status = "auto"]
             /\ balance' = [balance EXCEPT ![u] = @ + snapshot[q].amount]
    <2>1. /\ q \in Quotes /\ snapshot[q] # NoRow /\ snapshot[q] \in SnapshotRow
          /\ snapshot[q].user = u /\ snapshot[q].refund_status = "none"
          /\ <<"snapshot", q>> \in held[w]
      <3>1. RefundOf(w) /\ q \in Quotes \union {None}
        BY <1>1, CommitFacts DEF Inv, TypeOK
      <3> QED BY <1>6, <3>1 DEF RefundOf, Inv, TypeOK
    <2>2. /\ back \in SnapshotRow /\ back.user = u /\ back.refund_status = "auto"
          /\ back.amount = snapshot[q].amount /\ back.committed_at = snapshot[q].committed_at
          /\ snapshot[q].amount \in Nat
      BY <2>1 DEF SnapshotRow
    <2>3. back # NoRow
      BY <2>2 DEF SnapshotRow, NoRow
    <2>4. row # NoRow
      BY <1>3 DEF TaskRow, NoRow
    <2>5. snapshot' = [snapshot EXCEPT ![q] = back]
      BY <1>6, <2>1 DEF Inv, TypeOK
    <2> HIDE DEF row, back
    <2>6. /\ snapshot'[q] = back /\ task'[t] = row
          /\ \A p \in Quotes \ {q} : snapshot'[p] = snapshot[p]
          /\ \A x \in Tasks \ {t} : task'[x] = task[x]
          /\ balance'[u] = balance[u] + snapshot[q].amount
          /\ \A x \in Users \ {u} : balance'[x] = balance[x]
      BY <1>2, <1>4, <1>6, <2>1, <2>5 DEF Inv, TypeOK
    <2>7. /\ balance' \in [Users -> Nat]
          /\ quote' \in [Quotes -> QuoteRow \union {NoRow}]
          /\ snapshot' \in [Quotes -> SnapshotRow \union {NoRow}]
          /\ task' \in [Tasks -> TaskRow \union {NoRow}]
      <3>1. balance[u] + snapshot[q].amount \in Nat
        BY <1>2, <2>2 DEF Inv, TypeOK
      <3>2. balance' \in [Users -> Nat]
        BY <1>6, <3>1 DEF Inv, TypeOK
      <3> QED BY <1>1, <1>3, <1>4, <2>2, <2>5, <3>2 DEF Inv, TypeOK
    <2>8. TypeOK' /\ LocksExclude' /\ WorkerInv(w)' /\ accepted' = accepted \union {Body(w)}
      BY <1>1, <2>7, EndOfCommit
    <2>9. ASSUME NEW v \in Workers \ {w} PROVE WorkerInv(v)'
      <3>1. pc'[v] = pc[v] /\ req'[v] = req[v] /\ pending'[v] = pending[v] /\ held'[v] = held[v]
        BY <1>1, EndOfRequest DEF Answers
      <3>2. ASSUME NEW x \in Users PROVE balance'[x] >= balance[x]
        <4>1. balance[x] \in Nat /\ snapshot[q].amount \in Nat
          BY <2>2 DEF Inv, TypeOK
        <4> QED BY <2>6, <4>1
      <3>3. /\ \A p \in Quotes : snapshot[p] # NoRow => SameCharge(p)
            /\ \A p \in Quotes : quote[p] # NoRow => SameQuote(p)
        BY <1>1, <2>1, <2>2, <2>3, <2>6 DEF SameCharge, SameQuote
      <3> QED BY <1>2, <2>1, <2>6, <2>7, <3>1, <3>2, <3>3, OthersAtCommit
    <2>10. AcceptedHolds' /\ AcceptedMatches'
      <3>1. \A x \in Tasks : task[x] # NoRow => task'[x] # NoRow /\ task'[x].owner = task[x].owner
        BY <1>2, <1>3, <2>4, <2>6
      <3>2. \A p \in Quotes : snapshot[p] # NoRow =>
              snapshot'[p] # NoRow /\ snapshot'[p].user = snapshot[p].user
        BY <2>1, <2>2, <2>3, <2>6
      <3>3. Body(w).op # "post"
        BY <1>1
      <3> QED BY <1>1, <1>3, <2>4, <2>6, <2>8, <3>1, <3>2, <3>3, AcceptedAtCommit
    <2>11. RowsResolve'
      <3>1. \A p \in Quotes : snapshot'[p] # NoRow => quote'[p] # NoRow
        BY <1>1, <2>1, <2>6 DEF Inv, RowsResolve
      <3>2. \A p \in Quotes : snapshot[p] # NoRow => snapshot'[p] # NoRow
        BY <2>3, <2>6
      <3>3. ASSUME NEW x \in Tasks, task'[x] # NoRow, task'[x].link # None
            PROVE  snapshot'[task'[x].link] # NoRow
        <4>1. task[x] # NoRow /\ task'[x].link = task[x].link
          BY <1>2, <1>3, <2>6, <3>3
        <4>2. task[x].link \in Quotes /\ snapshot[task[x].link] # NoRow
          BY <3>3, <4>1 DEF Inv, TypeOK, TaskRow, RowsResolve
        <4> QED BY <3>2, <4>1, <4>2
      <3> QED BY <3>1, <3>3 DEF RowsResolve
    <2>12. ChargeHonoursQuote'
      <3>1. ASSUME NEW p \in Quotes
            PROVE  IF snapshot'[p] = NoRow
                   THEN quote'[p] # NoRow => quote'[p].committed_at = None
                   ELSE /\ snapshot'[p].user = quote'[p].user
                        /\ snapshot'[p].amount = quote'[p].price
                        /\ snapshot'[p].committed_at = quote'[p].committed_at
                        /\ snapshot'[p].committed_at < quote'[p].expires_at
        <4>1. CASE p = q
          BY <1>1, <2>1, <2>2, <2>3, <2>6, <4>1 DEF Inv, ChargeHonoursQuote
        <4>2. CASE p # q
          BY <1>1, <2>6, <4>2 DEF Inv, ChargeHonoursQuote
        <4> QED BY <4>1, <4>2
      <3> QED BY <3>1 DEF ChargeHonoursQuote
    <2>13. PointsAccounted'
      <3> SUFFICES ASSUME NEW x \in Users
                   PROVE  balance'[x] + SumFunctionOnSet(InForce(snapshot', x), Quotes) = funded'[x]
        BY DEF PointsAccounted, InForce
      <3>1. snapshot \in Snapshots /\ snapshot' \in Snapshots
        BY <2>7 DEF Snapshots, Inv, TypeOK
      <3>2. /\ SumFunctionOnSet(InForce(snapshot, x), Quotes) \in Nat
            /\ SumFunctionOnSet(InForce(snapshot', x), Quotes) =
                 SumFunctionOnSet(InForce(snapshot, x), Quotes)
                 - InForce(snapshot, x)[q] + InForce(snapshot', x)[q]
        BY <2>1, <2>6, <3>1, ChangedSnapshot
      <3>3. /\ InForce(snapshot', x)[q] = 0
            /\ InForce(snapshot, x)[q] = IF x = u THEN snapshot[q].amount ELSE 0
        BY <2>1, <2>2, <2>6 DEF InForce
      <3>4. balance[x] + SumFunctionOnSet(InForce(snapshot, x), Quotes) = funded'[x]
        BY DEF Inv, PointsAccounted, world
      <3>5. balance[x] \in Nat /\ snapshot[q].amount \in Nat
        BY <2>2 DEF Inv, TypeOK
      <3> QED BY <2>6, <3>2, <3>3, <3>4, <3>5
    <2> QED BY <2>8, <2>9, <2>10, <2>11, <2>12, <2>13 DEF Inv
  <1> QED BY <1>5, <1>6 DEF CommitPut

-----------------------------------------------------------------------------

\* A new quote is one no request can be charging yet.
LEMMA GenerateQuoteInv ==
  ASSUME Inv, NEW q \in Quotes, NEW u \in Users, NEW combo \in DOMAIN Price,
         GenerateQuote(q, u, combo), UNCHANGED <<workers, world, accepted>>
  PROVE  Inv'
PROOF
  <1> DEFINE row == [user |-> u, combo |-> combo, price |-> listed[combo], created_at |-> clock,
                     expires_at |-> clock + QuoteTTL, committed_at |-> None]
  <1>1. /\ quote[q] = NoRow /\ snapshot[q] = NoRow
        /\ quote' = [quote EXCEPT ![q] = row]
        /\ UNCHANGED <<balance, snapshot, task, pc, req, pending, held, listed, clock, funded, accepted>>
    BY DEF GenerateQuote, workers, world, Inv, RowsResolve
  <1>2. row \in QuoteRow /\ row.committed_at = None
    BY AgesAssumption DEF QuoteRow, Inv, TypeOK
  <1>3. row # NoRow
    BY DEF NoRow
  <1> HIDE DEF row
  <1>4. quote'[q] = row /\ \A p \in Quotes \ {q} : quote'[p] = quote[p]
    BY <1>1 DEF Inv, TypeOK
  <1>5. TypeOK'
    BY <1>1, <1>2 DEF Inv, TypeOK
  <1>6. (PointsAccounted /\ AcceptedHolds /\ LocksExclude)'
    BY <1>1 DEF Inv, PointsAccounted, AcceptedHolds, LocksExclude, InForce
  <1>7. (ChargeHonoursQuote /\ AcceptedMatches /\ RowsResolve)'
    <2>1. \A b \in accepted : b.quote # None => b.quote \in Quotes
      BY TaskBodiesAssumption DEF Inv, TypeOK
    <2>2. AcceptedMatches'
      BY <1>1, <1>4, <2>1 DEF Inv, AcceptedMatches
    <2> QED BY <1>1, <1>2, <1>4, <2>2 DEF Inv, ChargeHonoursQuote, RowsResolve
  <1>8. ASSUME NEW v \in Workers PROVE WorkerInv(v)'
    <2>1. WorkerInv(v)
      BY DEF Inv
    <2>2. (LocksOf(v) /\ RequestOf(v) /\ RowOf(v) /\ RefundOf(v))'
      BY <1>1, <2>1 DEF WorkerInv, LocksOf, RequestOf, RowOf, RefundOf, Body, Task
    <2>5. Bound(v) /\ Body(v).quote \in Quotes => Bound(v)'
      BY <1>1, <1>4 DEF Bound, Body
    <2>6. pc[v] = "commit" /\ Body(v).quote # None => Body(v).quote \in Quotes
      BY CommitFacts, TaskBodiesAssumption
    <2>3. Chargeable(v) => /\ Chargeable(v)'
                          /\ quote'[Body(v).quote] = quote[Body(v).quote]
      BY <1>1, <1>4 DEF Chargeable, Bound, Body
    <2>4. ChargeOf(v)'
      BY <1>1, <2>1, <2>3, <2>5, <2>6 DEF WorkerInv, ChargeOf, Body
    <2> QED BY <2>2, <2>4 DEF WorkerInv
  <1> QED BY <1>5, <1>6, <1>7, <1>8 DEF Inv

\* An administrator waits for the requests that hold the user's row.
LEMMA SetBalanceInv ==
  ASSUME Inv, NEW u \in Users, SetBalance(u),
         UNCHANGED <<quote, snapshot, task, workers, listed, clock, accepted>>
  PROVE  Inv'
PROOF
  <1>1. PICK points \in Funding :
          /\ balance' = [balance EXCEPT ![u] = points]
          /\ funded' = [funded EXCEPT ![u] = @ + points - balance[u]]
    BY DEF SetBalance
  <1>2. points \in Nat /\ balance[u] \in Nat /\ funded[u] \in Int
    BY FundsAssumption DEF Inv, TypeOK
  <1>3. /\ balance'[u] = points /\ funded'[u] = funded[u] + points - balance[u]
        /\ \A x \in Users \ {u} : balance'[x] = balance[x] /\ funded'[x] = funded[x]
    BY <1>1 DEF Inv, TypeOK
  <1>4. UNCHANGED <<pc, req, pending, held>>
    BY DEF workers
  <1>5. TypeOK'
    <2>1. balance' \in [Users -> Nat] /\ funded' \in [Users -> Int]
      BY <1>1, <1>2 DEF Inv, TypeOK
    <2> QED BY <1>4, <2>1 DEF Inv, TypeOK
  <1>6. (ChargeHonoursQuote /\ AcceptedHolds /\ AcceptedMatches /\ RowsResolve /\ LocksExclude)'
    BY <1>4 DEF Inv, ChargeHonoursQuote, AcceptedHolds, AcceptedMatches, RowsResolve, LocksExclude
  <1>7. PointsAccounted'
    <2> SUFFICES ASSUME NEW x \in Users
                 PROVE  balance'[x] + SumFunctionOnSet(InForce(snapshot, x), Quotes) = funded'[x]
      BY DEF PointsAccounted, InForce
    <2>1. balance[x] + SumFunctionOnSet(InForce(snapshot, x), Quotes) = funded[x]
      BY DEF Inv, PointsAccounted
    <2>2. SumFunctionOnSet(InForce(snapshot, x), Quotes) \in Nat
      <3>1. snapshot \in Snapshots
        BY DEF Inv, TypeOK, Snapshots
      <3>2. CASE Quotes = {}
        BY <3>2, SumOfZeroes, QuotesAssumption
      <3>3. CASE Quotes # {}
        BY <3>1, <3>3, ChangedSnapshot
      <3> QED BY <3>2, <3>3
    <2> QED BY <1>2, <1>3, <2>1, <2>2
  <1>8. ASSUME NEW v \in Workers PROVE WorkerInv(v)'
    <2>1. WorkerInv(v) /\ <<"user", u>> \notin held[v]
      BY DEF Inv, SetBalance, Free
    <2>2. (LocksOf(v) /\ RequestOf(v) /\ RowOf(v) /\ RefundOf(v))'
      BY <1>4, <2>1 DEF WorkerInv, LocksOf, RequestOf, RowOf, RefundOf, Body, Task
    <2>3. Chargeable(v) => Chargeable(v)'
      BY <1>4 DEF Chargeable, Bound, Body
    <2>4. ASSUME pc[v] = "commit", pending[v].charge # None
          PROVE  balance'[Body(v).user] >= quote[Body(v).quote].price
      <3> DEFINE x == Body(v).user
                 amount == quote[Body(v).quote].price
      <3>1. /\ Chargeable(v) /\ balance[x] >= amount
            /\ amount > 0 => <<"user", x>> \in held[v]
        BY <2>1, <2>4 DEF WorkerInv, ChargeOf
      <3>2. x \in Users /\ amount \in Nat
        BY <2>4, <3>1, CommitFacts DEF Chargeable, Bound, Inv, TypeOK, QuoteRow
      <3>3. CASE x = u
        BY <1>2, <1>3, <2>1, <3>1, <3>2, <3>3
      <3>4. CASE x # u
        BY <1>3, <3>1, <3>2, <3>4
      <3> QED BY <3>3, <3>4
    <2>5. ChargeOf(v)'
      BY <1>4, <2>1, <2>3, <2>4 DEF WorkerInv, ChargeOf, Bound, Body
    <2> QED BY <2>2, <2>5 DEF WorkerInv
  <1> QED BY <1>5, <1>6, <1>7, <1>8 DEF Inv

\* The clock and the catalogue are read when a quote is made or examined only.
LEMMA WorldInv ==
  ASSUME Inv, UNCHANGED <<tables, workers, funded, accepted>>,
         clock' \in Nat, listed' \in [DOMAIN Price -> Nat]
  PROVE  Inv'
PROOF
  <1>1. UNCHANGED <<balance, quote, snapshot, task, pc, req, pending, held, funded, accepted>>
    BY DEF tables, workers
  <1>2. TypeOK'
    BY <1>1 DEF Inv, TypeOK
  <1>3. (PointsAccounted /\ ChargeHonoursQuote /\ AcceptedHolds /\ AcceptedMatches /\ RowsResolve /\ LocksExclude)'
    BY <1>1 DEF Inv, PointsAccounted, ChargeHonoursQuote, AcceptedHolds, AcceptedMatches, RowsResolve,
                LocksExclude, InForce
  <1>4. \A v \in Workers : WorkerInv(v)'
    BY <1>1, WorkerFrame DEF Inv
  <1> QED BY <1>2, <1>3, <1>4 DEF Inv

\* A change of the catalogue touches no row.
LEMMA RepriceInv ==
  ASSUME Inv, NEW combo \in DOMAIN Price, Reprice(combo),
         UNCHANGED <<tables, workers, clock, funded, accepted>>
  PROVE  Inv'
PROOF
  <1>1. clock' \in Nat
    BY DEF Inv, TypeOK
  <1>2. listed' \in [DOMAIN Price -> Nat]
    BY TaskPriceAssumption DEF Reprice, Inv, TypeOK
  <1> QED BY <1>1, <1>2, WorldInv

\* Nor does the passing of time.
LEMMA TickInv ==
  ASSUME Inv, Tick, UNCHANGED <<tables, workers, listed, funded, accepted>>
  PROVE  Inv'
PROOF
  <1>1. clock' \in Nat /\ listed' \in [DOMAIN Price -> Nat]
    BY DEF Tick, Inv, TypeOK
  <1> QED BY <1>1, WorldInv

\* Every step of the specification keeps the invariant.
LEMMA NextInv == Inv /\ [Next]_vars => Inv'
PROOF
  <1> SUFFICES ASSUME Inv, [Next]_vars PROVE Inv'
    OBVIOUS
  <1>1. ASSUME NEW w \in Workers, Serve(w) PROVE Inv'
    <2>1. UNCHANGED world
      BY <1>1 DEF Serve
    <2>2. CASE Receive(w)
      BY <2>1, <2>2, ReceiveInv
    <2>3. CASE SelectTask(w) \/ InsertTask(w)
      BY <2>1, <2>3, SelectTaskInv, InsertTaskInv
    <2>4. CASE ReadQuote(w) \/ InsertSnapshot(w) \/ Debit(w)
      BY <2>1, <2>4, ReadQuoteInv, InsertSnapshotInv, DebitInv
    <2>5. CASE Refund(w) \/ Credit(w)
      BY <2>1, <2>5, RefundInv, CreditInv
    <2>6. CASE CommitPost(w) \/ CommitPut(w)
      BY <2>1, <2>6, CommitPostInv, CommitPutInv
    <2>7. CASE RequeryAborted(w) \/ Abort(w)
      BY <2>1, <2>7, EndsInv
    <2> QED BY <1>1, <2>2, <2>3, <2>4, <2>5, <2>6, <2>7 DEF Serve, Advance
  <1>2. CASE /\ \E q \in Quotes, u \in Users, combo \in DOMAIN Price : GenerateQuote(q, u, combo)
             /\ UNCHANGED <<workers, world, accepted>>
    BY <1>2, GenerateQuoteInv
  <1>3. CASE /\ \E combo \in DOMAIN Price : Reprice(combo)
             /\ UNCHANGED <<tables, workers, clock, funded, accepted>>
    BY <1>3, RepriceInv
  <1>4. CASE /\ \E u \in Users : SetBalance(u)
             /\ UNCHANGED <<quote, snapshot, task, workers, listed, clock, accepted>>
    BY <1>4, SetBalanceInv
  <1>5. CASE Tick /\ UNCHANGED <<tables, workers, listed, funded, accepted>>
    BY <1>5, TickInv
  <1>6. CASE UNCHANGED vars
    <2>1. UNCHANGED <<tables, workers, funded, accepted, clock, listed>>
      BY <1>6 DEF vars, world
    <2> QED BY <2>1, WorldInv DEF Inv, TypeOK
  <1> QED BY <1>1, <1>2, <1>3, <1>4, <1>5, <1>6 DEF Next

\* In any set of requests there is one that waits for no other of the set: one
\* whose lock comes last in the order task, snapshot, user.
LEMMA LockOrder == Inv => NoWaitCycle
PROOF
  <1> SUFFICES ASSUME Inv, NEW S \in SUBSET Workers, S # {}
               PROVE  \E w \in S : \A v \in S : ~Waits(w, v)
    BY DEF NoWaitCycle
  <1>1. \A w \in Workers : LocksOf(w) /\ pc[w] \in Idle \union Stages
    BY DEF Inv, WorkerInv, TypeOK
  <1>2. ASSUME NEW w \in Workers, NEW v \in Workers, pc[w] \in {"debit", "credit"}, Waits(w, v)
        PROVE  pc[v] = "commit"
    <2>1. LockAt(w) = <<"user", Body(w).user>>
      <3>1. CASE pc[w] = "debit"
        BY <3>1 DEF LockAt
      <3>2. CASE pc[w] = "credit"
        BY <3>2 DEF LockAt
      <3> QED BY <1>2, <3>1, <3>2
    <2>2. Body(w).user \in Users
      BY <1>2, TaskBodiesAssumption DEF Inv, WorkerInv, RequestOf, Stages, Body
    <2>3. <<"user", Body(w).user>> \in held[v]
      BY <1>2, <2>1 DEF Waits
    <2>4. <<"user", Body(w).user>> # <<"task", Task(v)>>
      OBVIOUS
    <2>5. LocksOf(v)
      BY <1>1
    <2> QED BY <2>2, <2>3, <2>4, <2>5 DEF LocksOf, Working
  <1>3. ASSUME NEW w \in Workers, NEW v \in Workers, pc[w] \in {"snapshot", "refund"}, Waits(w, v)
        PROVE  pc[v] \in {"debit", "credit", "commit"}
    <2>1. \E q : LockAt(w) = <<"snapshot", q>>
      <3>1. CASE pc[w] = "snapshot"
        <4>1. LockAt(w) = <<"snapshot", Body(w).quote>>
          BY <3>1 DEF LockAt
        <4> QED BY <4>1
      <3>2. CASE pc[w] = "refund"
        <4>1. LockAt(w) = <<"snapshot", task[Task(w)].link>>
          BY <3>2 DEF LockAt
        <4> QED BY <4>1
      <3> QED BY <1>3, <3>1, <3>2
    <2>2. PICK q : <<"snapshot", q>> \in held[v]
      BY <1>3, <2>1 DEF Waits
    <2>3. <<"snapshot", q>> # <<"task", Task(v)>>
      OBVIOUS
    <2>4. LocksOf(v)
      BY <1>1
    <2> QED BY <2>2, <2>3, <2>4 DEF LocksOf, Working
  <1>4. \A w \in Workers, v \in Workers : Waits(w, v) => pc[v] \in Working
    BY <1>1 DEF Waits, LocksOf
  <1>5. \A w \in Workers, v \in Workers : pc[w] \in {"commit", "quote"} => ~Waits(w, v)
    BY DEF Waits
  <1>6. CASE \E w \in S : pc[w] \in {"commit", "quote"}
    BY <1>5, <1>6
  <1>7. CASE (\A w \in S : pc[w] \notin {"commit", "quote"}) /\ \E w \in S : pc[w] \in {"debit", "credit"}
    BY <1>2, <1>7
  <1>8. CASE (\A w \in S : pc[w] \notin {"commit", "quote", "debit", "credit"})
    <2>1. CASE \E w \in S : pc[w] \in {"snapshot", "refund"}
      BY <1>3, <1>8, <2>1
    <2>2. CASE \A w \in S : pc[w] \notin {"snapshot", "refund"}
      BY <1>4, <1>8, <2>2 DEF Working
    <2> QED BY <2>1, <2>2
  <1> QED BY <1>6, <1>7, <1>8

\* A request is answered by a step of its own.
LEMMA OwnAnswer ==
  ASSUME Inv, Next, NEW w \in Workers, pc[w] \in Stages, pc'[w] \in Answers
  PROVE  Advance(w) \/ Abort(w)
PROOF
  <1>1. pc[w] \notin Idle /\ pc'[w] # pc[w]
    BY DEF Stages, Idle, Answers
  <1>2. PICK v \in Workers : Serve(v)
    BY <1>1 DEF Next, workers
  <1>3. CASE v # w
    <2>1. ASSUME NEW x PROVE pc' # [pc EXCEPT ![v] = x]
      BY <1>1, <1>3 DEF Inv, TypeOK
    <2>2. \A stage, writes : ~Proceed(v, stage, writes)
      BY <2>1 DEF Proceed
    <2>3. \A answer : ~Answer(v, answer) /\ ~AnswerNoWrite(v, answer)
      BY <2>1 DEF Answer, AnswerNoWrite
    <2>4. ~Receive(v)
      BY <2>1 DEF Receive
    <2>5. ~SelectTask(v) /\ ~InsertTask(v)
      BY <2>2, <2>3 DEF SelectTask, InsertTask, LockTask
    <2>6. ~ReadQuote(v) /\ ~InsertSnapshot(v) /\ ~RequeryAborted(v) /\ ~Debit(v)
      BY <2>2, <2>3 DEF ReadQuote, InsertSnapshot, RequeryAborted, Debit
    <2>7. ~Refund(v) /\ ~Credit(v) /\ ~CommitPost(v) /\ ~CommitPut(v) /\ ~Abort(v)
      BY <2>2, <2>3 DEF Refund, Credit, CommitPost, CommitPut, Abort
    <2> QED BY <1>2, <2>4, <2>5, <2>6, <2>7 DEF Serve, Advance
  <1>4. CASE v = w
    BY <1>1, <1>2, <1>4 DEF Serve, Receive
  <1> QED BY <1>3, <1>4

\* Where a request goes that has its answer before it.
LEMMA AnswerOrProceed ==
  ASSUME Inv, NEW w \in Workers
  PROVE  /\ \A stage, writes : Proceed(w, stage, writes) => pc'[w] = stage
         /\ \A answer : Answer(w, answer) => pc'[w] = answer
         /\ \A answer : AnswerNoWrite(w, answer) => pc'[w] = answer
BY DEF Inv, TypeOK, Proceed, Answer, AnswerNoWrite

\* An accepted POST finds its task its own, its quote bound and charged.
LEMMA RetryStep ==
  ASSUME Inv, Next, NEW w \in Workers, Answered(w, {"rejected", "conflict"}),
         Body(w) \in accepted, Body(w).op = "post", Body(w).task # None,
         Body(w).quote = None \/ task[Task(w)].link = Body(w).quote
  PROVE  FALSE
PROOF
  <1> DEFINE q == Body(w).quote
  <1>1. pc[w] \in Stages /\ pc'[w] \in {"rejected", "conflict"}
    BY DEF Answered
  <1>2. Advance(w) \/ Abort(w)
    BY <1>1, OwnAnswer DEF Answers
  <1>3. WorkerInv(w) /\ Body(w) \in Bodies /\ Task(w) = Body(w).task /\ Task(w) \in Tasks
    BY <1>1 DEF Inv, WorkerInv, RequestOf, Body, Task
  <1>4. task[Task(w)] # NoRow /\ task[Task(w)].owner = Body(w).user
    BY <1>3 DEF Inv, AcceptedHolds
  <1>5. q # None => q \in Quotes /\ snapshot[q] # NoRow /\ Bound(w)
    BY <1>3, <1>4, TaskBodiesAssumption DEF Inv, RowsResolve, AcceptedMatches, Bound
  <1>6. Then(w) \notin {"rejected", "conflict"}
    BY ThenStage
  <1>7. CASE SelectTask(w) \/ InsertTask(w)
    <2>1. ~LockTask(w)
      BY <1>1, <1>4, <1>6, AnswerOrProceed DEF LockTask
    <2> QED BY <1>1, <1>4, <1>7, <2>1, AnswerOrProceed DEF SelectTask, InsertTask
  <1>8. CASE ReadQuote(w)
    <2>1. q # None
      BY <1>3, <1>8 DEF ReadQuote, WorkerInv, RequestOf
    <2>2. QuoteVerdict(w) = "commit"
      BY <1>4, <1>5, <2>1 DEF QuoteVerdict, CommittedVerdict
    <2> QED BY <1>1, <1>8, <2>2, AnswerOrProceed DEF ReadQuote, Answers
  <1>9. CASE InsertSnapshot(w) \/ RequeryAborted(w) \/ Refund(w) \/ Credit(w) \/ Abort(w)
    BY <1>1, <1>9, AnswerOrProceed DEF InsertSnapshot, RequeryAborted, Refund, Credit, Abort
  <1>10. CASE Debit(w)
    BY <1>3, <1>5, <1>10 DEF Debit, WorkerInv, RequestOf, ChargeOf
  <1>11. CASE CommitPost(w) \/ CommitPut(w)
    BY <1>1, <1>11, AnswerOrProceed DEF CommitPost, CommitPut
  <1> QED BY <1>2, <1>7, <1>8, <1>9, <1>10, <1>11 DEF Advance

\* A reported failure commits with the refund of what is linked to the task.
LEMMA FailureStep ==
  ASSUME Inv, Next, NEW w \in Workers, Answered(w, {"ok"}),
         Body(w).op = "put", Body(w).status = "failed", AutoRefund,
         task[Task(w)].link # None, snapshot[task[Task(w)].link].user = Body(w).user
  PROVE  snapshot'[task[Task(w)].link].refund_status = "auto"
PROOF
  <1> DEFINE link == task[Task(w)].link
             q == pending[w].refund
  <1>1. pc[w] \in Stages /\ pc'[w] = "ok"
    BY DEF Answered
  <1>2. Advance(w) \/ Abort(w)
    BY <1>1, OwnAnswer DEF Answers
  <1>3. ~Abort(w) /\ ~RequeryAborted(w) /\ ~Debit(w) /\ ~InsertSnapshot(w)
        /\ ~Refund(w) /\ ~Credit(w)
    BY <1>1, AnswerOrProceed DEF Abort, RequeryAborted, Debit, InsertSnapshot, Refund, Credit
  <1>4. ~LockTask(w)
    <2>1. Then(w) # "ok"
      BY ThenStage
    <2> QED BY <1>1, <2>1, AnswerOrProceed DEF LockTask
  <1>5. ~SelectTask(w) /\ ~InsertTask(w)
    <2>1. Then(w) # "ok"
      BY ThenStage
    <2> QED BY <1>1, <1>4, <2>1, AnswerOrProceed DEF SelectTask, InsertTask
  <1>6. ~ReadQuote(w)
    <2>1. QuoteVerdict(w) # "ok"
      BY DEF QuoteVerdict, CommittedVerdict
    <2> QED BY <1>1, <2>1, AnswerOrProceed DEF ReadQuote
  <1>7. CommitPut(w) /\ pc[w] = "commit"
    BY <1>2, <1>3, <1>5, <1>6 DEF Advance, CommitPost, CommitPut
  <1>8. RefundOf(w) /\ Task(w) \in Tasks /\ task[Task(w)] # NoRow
    BY <1>7, CommitFacts
  <1>9. link \in Quotes /\ snapshot[link] # NoRow
    BY <1>8 DEF Inv, TypeOK, TaskRow, RowsResolve
  <1>10. CASE q = None
    <2>1. snapshot[link].refund_status = "auto"
      BY <1>7, <1>8, <1>10 DEF RefundOf
    <2> QED BY <1>7, <1>10, <2>1 DEF CommitPut
  <1>11. CASE q # None
    <2>1. q = link
      BY <1>8, <1>11 DEF RefundOf
    <2>2. snapshot' = [snapshot EXCEPT ![link].refund_status = "auto"]
      BY <1>7, <1>11, <2>1 DEF CommitPut
    <2>3. snapshot'[link] = [snapshot[link] EXCEPT !.refund_status = "auto"]
      BY <1>9, <2>2 DEF Inv, TypeOK
    <2>4. snapshot[link] \in SnapshotRow
      BY <1>9 DEF Inv, TypeOK
    <2> QED BY <2>3, <2>4 DEF SnapshotRow
  <1> QED BY <1>10, <1>11

\* Only a commit writes a snapshot.
LEMMA SnapshotWriter ==
  ASSUME Inv, Next, snapshot' # snapshot
  PROVE  \E w \in Workers : CommitPost(w) \/ CommitPut(w)
PROOF
  <1>1. PICK w \in Workers : Serve(w)
    BY DEF Next, GenerateQuote, tables
  <1>2. /\ \A stage, writes : ~Proceed(w, stage, writes)
        /\ \A answer : ~AnswerNoWrite(w, answer)
        /\ ~Receive(w)
    BY DEF Proceed, AnswerNoWrite, Receive, tables
  <1>3. ~SelectTask(w) /\ ~InsertTask(w) /\ ~ReadQuote(w) /\ ~InsertSnapshot(w)
    BY <1>2 DEF SelectTask, InsertTask, LockTask, ReadQuote, InsertSnapshot
  <1>4. ~RequeryAborted(w) /\ ~Debit(w) /\ ~Refund(w) /\ ~Credit(w) /\ ~Abort(w)
    BY <1>2 DEF RequeryAborted, Debit, Refund, Credit, Abort
  <1> QED BY <1>1, <1>2, <1>3, <1>4 DEF Serve, Advance

\* A charge is changed only when its task is reported failed.
LEMMA ChargeChangeStep ==
  ASSUME Inv, Next, NEW q \in Quotes, snapshot[q] # NoRow, snapshot'[q] # snapshot[q]
  PROVE  \E t \in Tasks : /\ task[t] # NoRow /\ task[t].link = q
                          /\ task'[t].status = "failed"
PROOF
  <1>1. PICK w \in Workers : CommitPost(w) \/ CommitPut(w)
    BY SnapshotWriter
  <1>2. pc[w] = "commit"
    BY <1>1 DEF CommitPost, CommitPut
  <1>3. Task(w) \in Tasks /\ ChargeOf(w) /\ RefundOf(w)
    BY <1>2, CommitFacts
  <1>4. CASE CommitPost(w)
    <2>1. pending[w].charge # None /\ \E r : snapshot' = [snapshot EXCEPT ![pending[w].charge] = r]
      BY <1>4 DEF CommitPost
    <2>2. pending[w].charge = q
      BY <2>1 DEF Inv, TypeOK
    <2> QED BY <1>3, <2>1, <2>2 DEF ChargeOf
  <1>5. CASE CommitPut(w)
    <2>1. /\ pending[w].refund # None
          /\ snapshot' = [snapshot EXCEPT ![pending[w].refund].refund_status = "auto"]
          /\ task' = [task EXCEPT ![Task(w)].status = Body(w).status]
      BY <1>5 DEF CommitPut
    <2>2. pending[w].refund = q
      BY <2>1 DEF Inv, TypeOK
    <2>3. /\ Body(w).op = "put" /\ Body(w).status = "failed" /\ task[Task(w)].link = q
      BY <1>3, <2>1, <2>2 DEF RefundOf
    <2>4. task[Task(w)] # NoRow /\ task[Task(w)] \in TaskRow
      <3>1. task[Task(w)] # NoRow
        BY <1>2, <2>3, CommitFacts
      <3> QED BY <1>3, <3>1 DEF Inv, TypeOK
    <2>5. task'[Task(w)] = [task[Task(w)] EXCEPT !.status = Body(w).status]
      BY <1>3, <2>1 DEF Inv, TypeOK
    <2>6. task'[Task(w)].status = "failed"
      BY <2>3, <2>4, <2>5 DEF TaskRow
    <2> QED BY <1>3, <2>3, <2>4, <2>6
  <1> QED BY <1>1, <1>4, <1>5

\* No balance is negative and every row has its shape, whatever interleaves.
THEOREM TypeCorrect == Spec => []TypeOK
PROOF
  <1>1. Inv => TypeOK
    BY DEF Inv
  <1> QED BY <1>1, InitInv, NextInv, PTL DEF Spec

\* No interleaving of commits, refunds, failures and administrators' updates
\* creates or loses a point.
THEOREM Conservation == Spec => []PointsAccounted
PROOF
  <1>1. Inv => PointsAccounted
    BY DEF Inv
  <1> QED BY <1>1, InitInv, NextInv, PTL DEF Spec

\* Each charge is the quoted price, to the quote's user, before its expiry.
THEOREM ChargesHonourQuotes == Spec => []ChargeHonoursQuote
PROOF
  <1>1. Inv => ChargeHonoursQuote
    BY DEF Inv
  <1> QED BY <1>1, InitInv, NextInv, PTL DEF Spec

\* What a request was answered stays true of the committed rows.
THEOREM AnswersHold == Spec => []AcceptedHolds
PROOF
  <1>1. Inv => AcceptedHolds
    BY DEF Inv
  <1> QED BY <1>1, InitInv, NextInv, PTL DEF Spec

\* No set of requests waits for each other's row locks.
THEOREM DeadlockFree == Spec => []NoWaitCycle
PROOF
  <1> QED BY InitInv, NextInv, LockOrder, PTL DEF Spec

\* An accepted POST sent again is not refused while its charge is linked.
THEOREM RetriesAccepted == Spec => RetryAccepted
PROOF
  <1>1. ASSUME Inv, [Next]_vars
        PROVE  [\A w \in Workers :
                  /\ Answered(w, {"rejected", "conflict"})
                  /\ Body(w) \in accepted /\ Body(w).op = "post" /\ Body(w).task # None
                  => Body(w).quote # None /\ task[Task(w)].link # Body(w).quote]_vars
    BY <1>1, RetryStep
  <1> QED BY <1>1, InitInv, NextInv, PTL DEF Spec, RetryAccepted

\* A failure reported with nothing started and the refund of the charge linked
\* to its task are committed together, and no other step gives a charge back.
THEOREM FailuresAreRefunded == Spec => RefundedWithFailure
PROOF
  <1>1. ASSUME Inv, [Next]_vars
        PROVE  [/\ \A w \in Workers :
                     LET link == task[Task(w)].link IN
                     /\ Answered(w, {"ok"}) /\ Body(w).op = "put" /\ Body(w).status = "failed"
                     /\ AutoRefund /\ link # None /\ snapshot[link].user = Body(w).user
                     => snapshot'[link].refund_status = "auto"
                /\ \A q \in Quotes :
                     snapshot[q] # NoRow /\ snapshot'[q] # snapshot[q] =>
                       \E t \in Tasks : /\ task[t] # NoRow /\ task[t].link = q
                                        /\ task'[t].status = "failed"]_vars
    <2>1. CASE UNCHANGED vars
      BY <2>1
    <2>2. CASE Next
      <3>1. ASSUME NEW w \in Workers
            PROVE  LET link == task[Task(w)].link IN
                   /\ Answered(w, {"ok"}) /\ Body(w).op = "put" /\ Body(w).status = "failed"
                   /\ AutoRefund /\ link # None /\ snapshot[link].user = Body(w).user
                   => snapshot'[link].refund_status = "auto"
        BY <1>1, <2>2, FailureStep
      <3>2. ASSUME NEW q \in Quotes, snapshot[q] # NoRow, snapshot'[q] # snapshot[q]
            PROVE  \E t \in Tasks : /\ task[t] # NoRow /\ task[t].link = q
                                    /\ task'[t].status = "failed"
        BY <1>1, <2>2, <3>2, ChargeChangeStep
      <3> QED BY <3>1, <3>2
    <2> QED BY <1>1, <2>1, <2>2
  <1> QED BY <1>1, InitInv, NextInv, PTL DEF Spec, RefundedWithFailure
=============================================================================
