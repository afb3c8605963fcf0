# Formal models of narrator-ai-web-backend

The backend sells rendering work in *points*.  Money-like state lives in a
Postgres database that several server processes, a background poller and
maintenance jobs share, and every client retries.  This directory holds TLA+
models of the parts whose correctness depends on that: what may interleave,
what may fail half-way, and what a retry may do.  `*.tla` are the modules,
`*.cfg` the TLC configurations, `PROJECT.json` the index that ties definitions
to source lines, runs to properties and theorems to statements.

## 1. Inventory

For each component: its state, its operations, whom it meets, what is hard
about it, and what must be true of it.

**Wallet** (`src/wallet`; routes `/wallet/*`, `/finance/refunds/overbill`).
State: `wallet_accounts` (available and frozen balance, both `CHECK >= 0`),
`wallet_quotes` and `wallet_transactions` (both `UNIQUE (web_order_id)`),
`wallet_ledger_entries`, `wallet_idempotency_records`.  Operations: quote,
freeze, confirm, refund, overbill refund, cleanup of old idempotency records,
five reads.  Each write operation is one READ COMMITTED transaction that takes
two advisory locks and up to two row locks one statement at a time, reads rows,
computes balances in Python and writes literals back.  Hard: lost updates when
a lock is missing, double settlement, retries with the same or a new key before
and after the record is cleaned up, expiry at the boundary, lock order.
Correct when: a point is moved at most once per order and direction, the
account row equals what the ledger replays to, what was answered stays true,
a retry is answered like the original, everybody is answered.

**Master-task billing** (`src/pricing_quote_v2`; `POST /narrator/tasks`,
`PUT /narrator/tasks/<id>`).  State: `pricing_quotes_v2`,
`pricing_snapshots_v2` (`UNIQUE (quote_id)`, `refund_status`),
`users.balance_points`, `narrator_tasks.snapshot_id`.  Operations: create a
quote, commit it for a master task (upsert of the task, snapshot, conditional
debit and link in one transaction), automatic refund when the task fails.
Hard: two commits of one quote or of two quotes against one balance, the loser
of the `UNIQUE` collision continuing in an aborted transaction, a task whose
snapshot link is overwritten by a second quote, failure reported twice, expiry
and the 60-second drift check.  Correct when: balance + charges in force =
opening balance, one charge per quote, a failed task is refunded exactly once,
a charge in force is reachable from its task (this one does not hold, see
section 4).

**Master tasks** (`src/narrator_tasks`).  State: one row per task: owner,
status, current step, a JSON body, `run_auto`, `snapshot_id`.  Operations:
create, upsert (savepoint recovery of an insert race), replace with an optional
compare-and-set on status and step, get, list, list of running automatic tasks.
Correct when: a task never changes its owner, a compare-and-set has one winner.

**Orchestrator** (`src/orchestrator`).  State: none of its own; a session
advisory lock elects the instance that lists tasks.  One step: read a task,
query upstream (up to 60 s), then fail it, complete it, or claim the next step
by compare-and-set, start upstream work and store its id, all in one database
transaction.  Hard: writes of clients between read and write-back, the leader
lock released before the work, a crash between the upstream call and the
commit.  Correct when: at most one unit of upstream work is started per step as
far as the database can ensure it, a finished task stays finished, an automatic
task eventually finishes if upstream does.  A pause is not among these: a step is
claimed only while the row is running, but a verdict is written over whatever the
row holds by then, a pause included.

**Cloud drive** (`src/cloud_drive` and its routes in `src/server.py`).  State:
`user_cloud_files` rows with status `reserved`, `completed`, `failed`,
`delete_pending`, `deleted`, `transfer_pending`, `transfer_running` or
`transfer_completed`; a quota per user.
Operations: reserve an upload, attach the upstream id, callback, fail,
two-step delete with restore, transfer by link with child rows settled once,
refresh.  Hard: callback against failure path, delete and restore in separate
transactions with an upstream call between, settlement racing deletion, quota
counted from statuses.  Correct when: the bytes of live rows stay within the
quota, children are inserted once, a deleted file does not come back.

**Transfer slots** (`src/server.py`).  A bounded semaphore and executor for
background transfers.  Correct when: every acquired slot is released once.

**Quote pricing and the catalogue** (`src/pricing_quote_v2/subflows.py`,
`src/pricing_catalog_v2`, two scripts; `/pricing/catalog/*`, `/pricing/quote`).
State: `pricing_template_v2` (duration, multiplier), `pricing_catalog_v2_entry`
(`UNIQUE (template, tier, version)`, rows are only added).  Operations: upsert of
tiers, the effective tiers a reader is shown (a template's own or its family's,
scaled), seeding from the v1 prices, recomputing tiers from durations, pricing a
quote.  Hard: two writers choosing one version, a plan applied later than it was
read, prices that mix two sources, decimals.  Correct when: an accepted tier
stays in the history, Pro costs Flash plus its surcharge, a breakdown adds up, a
price is rounded once (the second and the last do not always hold, see section 7).

**Hard prices** (`src/pricing`).  The price list the wallet quotes from, and SRT
parsing: pure computation on input.

**Finance** (`src/finance`) and the **quota board** of the wallet.  Read-only joins
over the wallet tables.  Correct when: they agree and accuse no order that was
billed as it should be.

**Users, proxies, metadata, migrations, scripts.**  Single-statement
administration, stateless forwarding, declarations, one-off tools.

Interactions: the server calls wallet, billing, tasks and drive in one database
transaction per request; the orchestrator writes task rows behind the clients'
backs and triggers the automatic refund; finance reads what the wallet writes;
the cleanup script calls the wallet service from another process.

## 2. Plan

| order | modules | status |
|---|---|---|
| 1 | `OrderBilling` (abstract) with `OrderBillingProofs`, `SumLemmas` | checked, proved |
| 2 | `Wallet` implements `OrderBilling`, with `WalletProofs` | checked, proved |
| 3 | `TaskBilling`: quotes, snapshots, debit, link, automatic refund, with `TaskBillingProofs` | checked, proved |
| 4 | `Orchestrator`: one task's steps, claims and whole-body writes by machines and browsers | checked, proved |
| 5 | `Poller`: leader lock on pooled sessions, batch, per-task isolation, start-up flag | checked, proved |
| 6 | `CloudDrive`: reservations, background transfers, settlement, deletion, with `CloudDriveProofs` | checked, proved |
| 7 | `WalletReads` over `OrderBilling`, `WalletReports` over `Wallet`, proved in `OrderBillingProofs` and `WalletProofs` | checked, proved |
| 8 | `Catalogue`: versions, scripts, effective tiers, tier formula in the code's decimals, with `CatalogueProofs` | checked, proved, for one template |
| 9 | `OrchestratorProofs`, `PollerProofs`: the order of steps, one job for each step, no job lost; the discipline of the lock | proved |
| 10 | `WalletProofs`: a commit of `Wallet` is a step of `OrderBilling`; the reports agree | proved |
| 11 | rows of `CloudDrive` for several deleters and pending links, once the code settles what they should do | planned |

How they compose: `WalletReads` extends `OrderBilling`, `WalletReports` extends
`Wallet`, and `Wallet` instantiates `OrderBilling` with its tables mapped to bills.
`Poller` is the scan around the routine that `Orchestrator` models statement by
statement; it sees of that routine only whether a row was written.

Abstract specifications worth stating: `OrderBilling` for the wallet; the same
idea, "a quote is charged at most once and refunded at most once", for
`TaskBilling`; "a step is started, then finished" for `Orchestrator`.

## 3. The wallet

### `OrderBilling`: what the wallet promises

Per order one `bill` that is quoted once, frozen once and then confirmed or
refunded; a confirmed charge may be credited once by at most its amount.  Each
action is a whole service operation of `src/wallet/service.py`, atomic.  All
prices are fixed at quoting; opening balances are arbitrary.  `FrozenIsHeld`
and `PointsConserved` tie balances to the sum over all bills.

### `WalletReads`: what a client is shown

The transaction, the step state and the subtask mapping are each built from two
unlocked SELECTs in one READ COMMITTED transaction.  `ReadFirst` and `ReadSecond`
are the two; billing, atomic as in `OrderBilling`, may take any number of steps
between them.  The order of the two tables (`Statements`) is what makes the
mixture harmless: `ShownIsCurrent`.  What does not hold, and is not claimed: a
transaction read as frozen may be shown with the refund that was committed in
between, and `refunded_amount` may be ahead of the state beside it.

### `WalletReports`: the two reports

The quota board and the reconciliation are one statement each, so each is a
function of the committed tables: `Board`, `Summary` and `Reasons` (the risks the
reconciliation lists).  `DetailsAssumption` is the `min_length=1` of `api_task_id`
and `reason_code` in `wallet/models.py`: without it a row that is confirmed or
refunded could be listed as lacking them.  They sum different columns, and `ReportsAgree` says that
after every commit the board balances, both name the same totals, and no order
carries a risk but that of still being open.

### `Wallet`: how the code does it

| variable | code |
|---|---|
| `account`, `quote`, `transaction`, `ledger`, `idempotency` | committed rows of the five tables; a quote or transaction is indexed by its order because of `UNIQUE (web_order_id)` |
| `pc`, `req`, `seen`, `held` | per worker: next statement, request being served with its `now`, rows read so far, locks of its transaction |
| `clock`, `cleaner` | time, and the cutoff of a running cleanup |
| `accepted` | history only: bodies some client was answered success for |

One action is one blocking statement with the code that follows it up to the
next one: `LockIdempotency` and `LockOrder` (advisory lock and key lookup),
`PriceQuote`/`RefuseQuote` (plain reads of `create_quote`), `LockQuote`,
`LockTransaction`, `LockAccount` (`SELECT ... FOR UPDATE` and the checks on the
row), and the `Commit...` actions: all writes, computed from `seen`, then the
commit, which publishes them and frees the locks.  Until then other workers see
nothing, as READ COMMITTED guarantees; between two statements anything may
happen.  `Abort` covers statement timeouts, lost connections and crashes: the
database rolls back.  A response lost after the commit needs no action of its
own, because any body may be received again under any key.  `CHECK` constraints
and `UNIQUE` are guards of the writes: a violating write can only abort.

Abstracted: ids are the order they belong to (an order has at most one quote
and one transaction) or `None` for an id nobody was given; correlation and
evidence are compared, never looked into, except for the master task a freeze
may name and the evidence of legacy billing that makes a confirm refused;
`last_replay_at` and the response bodies are left out; request validation is
the assumption on `Bodies`; advisory lock keys do not collide (a collision of
`hashtext` only makes unrelated requests wait).

### Runs

| run | asks | instance |
|---|---|---|
| `order_billing` | is the promise itself consistent, and is what readers see? | 3 orders, 2 users, prices 1 and 2, one reader at a time |
| `wallet_lifecycle` | one order, everything that can be sent for it: is everybody answered? | 2 workers, 2 keys, 5 bodies, conflicting confirms and a refund, under `FairSpec` |
| `wallet_contention` | two orders competing for one account | 2 workers, 2 keys, 2 users, wrong owners and wrong ids |
| `wallet_retention` | time: expiry of quotes and of idempotency records, retries and credits after a record is gone; the reports after every commit | clock to 2, both lifetimes 1, batches of 1, two possible prices, one item without a price |

*Bounds.*  Conflicts of this code are pairwise: two requests meet on a key, an
order, a row or an account, so two workers show every lost update and every
double settlement; any number of requests follow one another.  Two keys are the
original and the "other" key; two orders are what one account needs for a lost
update; a wait cycle needs two requests that each hold what the other wants.
With both lifetimes 1, a clock of 0 to 2 shows before, at and after every
boundary, and two records expire at different times, so batches of one matter.
Workers are interchangeable (symmetry is used in the safety runs only).

*Properties.*  `ImplementsBilling` is the refinement; `BooksAreSound` is the
conjunction of `TypeOK`, of `LedgerReplays` (every ledger entry carries the
balances its predecessor left and the account row is where the last one ends) and
of `AcceptedHolds` (an answer of success stays true); `RetryAccepted` that an
accepted request sent again is not refused for business reasons (but see below)
and that a recorded one is never refused under its own key; `MovementIsRecorded`
that a movement of points and the record of its key are committed together;
`FreezeHonoursQuote` that a freeze is at the quoted price and before expiry;
`CleanupIsComplete` that the cleanup leaves nothing older than its cutoff;
`RequestsAreAnswered` that every request ends, which fails if locks are taken in
two orders or kept after an answer.

`RetryAccepted` has two exceptions that are the code's behaviour: a second
overbill credit under another key is refused by design, and a confirm replaces
the correlation stored by the freeze without comparing them, after which a late
retry of the freeze under a new key may be refused as a conflict.  A client may
also be told that its quote expired while an earlier copy of its freeze, read
before the expiry, commits afterwards.

*Fairness.*  `FairSpec` is strong fairness of each worker's next statement: a
lock that is freed again and again is granted eventually because Postgres queues
waiters in order, and a running request is scheduled.  `Abort` and `Receive` are
not fair: nothing relies on failures or on new requests.

## 4. Master-task billing

### `TaskBilling`

A worker serves one `POST /narrator/tasks` or `PUT /narrator/tasks/<id>` in one
READ COMMITTED transaction; the failure reports of the orchestrator take the
path of a PUT.  There is no advisory lock here: everything rests on row locks,
on `UNIQUE (quote_id)` and on two conditional updates.

| variable | code |
|---|---|
| `balance`, `quote`, `snapshot`, `task` | committed `users.balance_points`, `pricing_quotes_v2`, `pricing_snapshots_v2`, `narrator_tasks`; a snapshot is indexed by its quote because of `UNIQUE (quote_id)`, and `task[t].link` (`snapshot_id`) names that quote |
| `listed`, `clock` | what the catalogue says now, and the time |
| `pc`, `req`, `pending`, `held` | per worker: next statement, request, what its transaction will write, the row locks it holds |
| `accepted`, `funded` | history only: bodies answered with success; points given by administrators |

| action | code |
|---|---|
| `SelectTask`, `InsertTask` | `upsert_task`, `create_task`, first half of `replace_task`: `SELECT ... FOR UPDATE`, owner and expected status; insert under a savepoint, whose loser continues with the winner's row |
| `ReadQuote` | `commit_master_task_snapshot` up to its insert: owner and parameters, then an earlier commit of the quote, then expiry and drift |
| `InsertSnapshot`, `RequeryAborted` | the insert, which waits for a rival's; the loser's transaction is aborted, with its locks, and the look-up that follows fails |
| `Debit` | `_charge_wallet`: `UPDATE ... WHERE balance_points >= amount` |
| `Refund`, `Credit` | `apply_auto_refund_if_eligible`: compare-and-set on `refund_status`, then the credit |
| `CommitPost`, `CommitPut` | the writes become visible, locks are freed, the client is answered |
| `Abort` | timeout, lost connection or crash before the commit |
| `GenerateQuote`, `Reprice`, `SetBalance`, `Tick` | `generate_quote`, a new catalogue version, `update_user`, time |

A row that is inserted but not committed cannot be seen, yet a second insert of
its key waits for it; so a key is locked like a row.  A task's body is reduced to
its status: "failed" is a body that `detect_fail_fast_no_work` recognises (the
task failed and no step created upstream work), "open" any other; a PUT may
require the status it replaces.  A combo with its price stands for all that
determines a price.  `SetBalance` needs the user's row lock but may come at any
other time.  Points are whole units of the smallest amount the column stores.

### Runs

One run, `billing`, under `FairSpec`: two workers, a task of the client's and one
the server generates, one quote submitted for either, for what it was made for
and for something else; a second user who claims the client's task; failures
reported twice, a failed task reopened; a price that is 2 or nothing and changes
at any time; an administrator who sets balances; a clock of 0 to 2 with drift at
1 and expiry at 2.

*Bounds.*  Double charges and refunds need two requests.  The clock has values
before and at each boundary, the price lets a quote drift, drift back and be
free of charge, the balance covers the price once.  One quote is a bound of this
run only: two quotes that compete for a balance or for a task's link, and wait
cycles among any number of requests, are what the proofs of section 8 cover.

*Properties.*  `PointsAccounted`: balance plus charges in force is what
administrators gave, always.  `ChargeHonoursQuote`: a charge is the quoted price,
from the quote's user, before its expiry, and the quote is stamped exactly when
charged.  `AcceptedHolds`: an accepted request owns its task and its quote stays
charged to its user.  `RetryAccepted`: an accepted POST sent again is not refused while its charge is
linked to its task, whatever time, price and balance have done.
`RefundedWithFailure`: a failure reported with nothing started and the refund are
one commit, and nothing else gives a charge back.  `RequestsAreAnswered` as for
the wallet, with the same fairness and reason.  `TypeOK` (no balance is ever
negative) and `NoWaitCycle` are proved only.

*Where code and comments disagree.*  Two disagreements are in the model without a
run of their own.  A task that is posted again under its id with a second quote
is linked to the second snapshot (`CommitPost`), and the first charge, still in
force, is found neither by a retry nor by the automatic refund, although
`auto_refund.py:212` relies on a link that is written exactly once.  And
the insert that loses on `UNIQUE (quote_id)` runs outside a savepoint, so on
Postgres the recovery that the comment at `service.py:913` promises cannot run
and the loser is answered 503 (`RequeryAborted`); two requests for the same task
never get there, because they wait for each other at the task row.  Both are why
the properties above speak of the *linked* charge and leave the loser's answer
open.

One more behaviour is in the model and contradicts no statement of the code: a
quote whose charge was given back is still "committed", so the same POST sent
again is accepted and the task goes on unpaid.

## 5. The orchestrator

### `Orchestrator`

The module follows one task, since tasks share nothing in `advance.py`.  A
*machine* runs `advance_one_task` in one READ COMMITTED transaction: its claim
takes the row's lock and is seen by nobody until the routine commits.  A
*browser* runs the routine that `advance.py` is a port of through
`PUT /narrator/tasks/<id>`, one transaction per write, so its claim is visible
before its job is.  Both may be at work on the task at once, and the owner may
start, pause, resume, take over or retry it.

| variable | code |
|---|---|
| `row` | the committed `narrator_tasks` row: columns `status`, `current_step`, `run_auto` and the body they are copies of; `first` is the first key of `steps` |
| `lock` | the machine that holds the row's lock |
| `pc`, `doc` | per actor: what the routine does next, and the body it has in memory since its read |
| `edit` | a PUT of the owner under way, with its `expected_status` and `expected_step` |
| `refunded`, `jobs` | the charge was given back automatically; jobs created upstream, with their state |

| action | code |
|---|---|
| `List`, `Read` | `list_running_auto_tasks` chooses by column, `advance_one_task` looks at the body again |
| `Answered`, `QueryFails` | the upstream query and what follows from its answer; `Resolve` is the part shared with `_short_circuit_advance` |
| `Claim` | `replace_task` with `expected_status` and `expected_step` |
| `Trigger` | `trigger_next_step`: created, refused, or timed out with a job left behind |
| `Persist` | `_persist_with_retries`, which replaces whatever the row holds, the refund hook, and the commit |
| `Crash` | the process ends or the routine raises: rollback |
| `Put`, `Start`, `Change`, `Retry` | the PUT route, and the clients' use of it (external) |

A step's record is its status and its job; results, errors and times are left
out, so a step that is refused for a missing field is the refusal in `Trigger`.
The order of the keys of `steps` is kept, because the refund detector reads it:
in memory a new key comes last, and a body read from the `JSONB` column has its
keys shortest first (`JsonbOrder`).

| run | asks | instance |
|---|---|---|
| `advance_race` | can rivals trigger a step twice, lose a job, undo an end, or keep the task from ending? | 2 machines and 2 browsers, the four steps from `popular_learning` on, failing queries, 5 jobs, under `LiveSpec` |
| `advance_faults` | do crashes, time-outs and the owner's moves break the pipeline? | 1 machine, the same four steps, every fault and every move, 6 jobs |
| `advance_refund` | a statement of the refund's comments | 1 machine, a task whose client wrote `clip_data` in advance; violated |

*Bounds.*  A claim has one winner among two; two of each kind give every pairing
of a visible claim with a locked one.  Four steps let a stale actor lag by more
than one step, and 6 jobs allow two retries beside the four.  In
`advance_race` the bound is one more than there are steps and is never reached:
a second job of any step would be created and seen.

*Properties.*  `TriggeredOnce` (no second job for a step), `JobsAreKnown` (rows and
documents fit together, and each job is in the row or on its way there),
`StepsInOrder` and `CompletedMeansDone` (the pipeline is followed, and a completed
task has been through it), `OnlyForward` (no stale actor revives a task or moves
it back), `VerdictFitsRow` (a failure is written over the job it is about),
`RefundMeansNoWork` (an automatic refund is for a task no job was created for),
`Settles` (a running automatic task ends).

*Fairness.*  The scheduler ticks for ever and a browser polls, so each routine's
next statement is weakly fair; the row's lock is freed by every commit; an
upstream service that ends its jobs and does not fail every query makes
`JobEnds` weakly and `Answered` strongly fair.  Nothing is assumed of crashes
and of the owner beyond going through with a start.

*What holds only so far.*  `advance_refund` finds a counterexample:
`auto_refund.py:115` takes the first key of `steps` for the step that ran first,
but `JSONB` does not keep the order of insertion.  A task whose body had
`clip_data` in it when it was stored reads back with `clip_data` first; when its
trigger fails the task is refunded although the step before it has done its
work.  Three further limits are in the model, each outside the instance of a
passing run: a crash between the creation of a job and the commit rolls back the
claim as well, and the next scan creates the job again, although
`advance.py:148` calls the routine idempotent (so `advance_race`, which has
`TriggeredOnce`, has no crashes); with two machines and a retry, a failure read
before the retry is written over it, because a verdict is written without a
claim (so `VerdictFitsRow` is checked with one machine); and a task whose body
says `run_auto = "1"` is selected by the scan and never advanced, because
`advance.py:172` compares with the integer (so `Settles` is checked with
`RunAuto = "int"`).  A job can also be lost from its task, in two ways: a trigger
that times out may have created a job whose number nobody learns, and an owner who
pauses a task that a browser advances sends back a body read before, under a
condition on status and step that a job recorded meanwhile for the same step
does not change.  `advance_race`, which has `JobsAreKnown`, has neither.

### `Poller`

The scan around it.  A tick takes a Postgres advisory lock, lists at most
`ORCHESTRATOR_BATCH_SIZE` tasks, the longest untouched first, gives the lock back
and advances them one after the other; a task whose advance raises is skipped.
The lock belongs to the *session*, that is to a pooled connection: one may take the
lock twice, keeps it over a rollback, and loses it when it is closed.  So the model has
the pool: `idle` is the stack of a process's connections, which hands out the one
returned last (`pool_use_lifo=True`, `server.py:237`), `lent` are those that requests
and other threads have taken (`Borrow`, `GiveBack`), and `CheckOut`, by the scan and by
others alike, is the only moment at which a connection older than `pool_recycle` (`old`)
is closed.  `ListFails` and `ReleaseRefused` are the failing SELECT, after which Postgres
refuses the unlock in the aborted transaction: that is logged and the session goes
back to the pool with the lock.  What advancing does to a row is `Drive`: the row stays
as it is, or is written and becomes the youngest, or is settled.  A connection that
breaks is left out: it ends its session, which only frees the lock sooner.

Run `poller`, under `LiveSpec`: 2 machines with 2 connections each, of which other
threads have one at a time, 3 tasks, one of which never advances, batches of 2, one
failing list or stopping process.  Steps of a task are alike, so one is enough; the
batch is shorter than the queue and longer than the stuck tasks.

`LockDiscipline`: one machine lists at a time, no session has the lock but the one that
is listing or one that was refused to give it back, and a connection is in one place.
`EveryTaskIsDriven`: every task that can be advanced is advanced to its end, provided
that a session that kept the lock is used again, by a tick or by a request
(`LeaksAreDrawn`).  A process with one connection uses it on the next tick; with more
the code does not see to it, see below.  When it is used again, its age matters: if old
connections were not closed (`CheckOutAnyAge`), a session that requests draw and ticks do
not would keep the lock for ever.  Fewer tasks are stuck than a batch has room for; with
as many as that the oldest fill it for ever and the property is false, which is the
code's behaviour.

*Fairness* (`LiveSpec`): the scheduler fires on every machine and its job runs on; other
threads give back what they took; time passes, so that a leaking session reaches the
age of `pool_recycle`; upstream jobs end.  Nothing is assumed of `Borrow`, failures or
stopping processes.  That a tick gets a connection at all is `Lent < Pool`
(`PoolAssumption`): other threads do not exhaust the pool.

*A lock that never comes free.*  Between ticks the lock is not free after a failing
list, although the explicit release is there "to free the lock between ticks"
(`poller.py:82`), and it need not become free later.  The list fails while a request has
another connection; the session goes back with the lock, the request returns its own on
top of it, and from then on every tick draws the upper one, is refused and puts it back.
The lower one is never drawn, so its age is never looked at, and no machine lists until a
second connection is needed at the same time or the process ends.  `LeaksAreDrawn`
excludes exactly this: without it `EveryTaskIsDriven` is false.

Two more statements of the code and its docs do not hold: one machine drives a tick
(`poller.py:12`), but the lock is given back before the batch is worked on, and only the
compare-and-set keeps machines apart; and
`ORCHESTRATOR_ENABLED=1` does not start the scheduler, although
`docs/DEPLOYMENT.md:176`, `docs/ARCHITECTURE.md:52` and `.env.example:67` say so
(`bootstrap.py:36` accepts only `true`; `Boot`).

## 6. The cloud drive

### `CloudDrive`

One user's rows, since every query filters by user; users share nothing but the
queue of background transfers.

| variable | code |
|---|---|
| `row` | the rows of `user_cloud_files` in order of insertion: kind (upload, link, file of a link), status, size, whether upstream's ids are attached, whether a link is settled, the link a file is from |
| `locks` | row locks of the transactions under way, 0 for the row of `users` that quota checks lock |
| `pc`, `job` | per request or thread: what it does next and what it knows |
| `queue`, `slots` | the executor's queue and the permits of its semaphore in use |
| `listing`, `store` | external: what upstream lists for a link, which files it has erased or refused to erase |
| `orphans`, `faults` | history: reservations a restart or a failing cleanup left; failures so far |

| action | code |
|---|---|
| `EnsureQuota`, `Insert`, `AttachUpload`, `MarkFailed` | `reserve_upload`, `attach_upload`, `mark_upload_failed` and the transfer variants |
| `ReserveSlot`, `Enqueue`, `RunSubmission`, `AttachLink`, `EnsureGrowth`, `GrowLink` | a link of unknown size: permit, queue, thread, upstream's answer with the size |
| `Callback`, `CompleteUpload`, `GrowUpload` | the upload callback, as success and as report of a failure |
| `Refresh`, `Settle`, `SettleGrown`, `PollFails` | listing transfers: each unsettled link is looked up and replaced by its files |
| `SoftDelete`, `Erase`, `RestoreStatus`, `FinaliseDelete` and their failures | the three deletion routes |
| `RequestFails`, `InsertFails`, ..., `Crash` | a call or transaction that fails at any of these points; a restart |

A transaction that checks the sum of sizes locks the row of `users` and is several
steps; one that only writes rows is one; an upstream call is part of the step its
answer leads to.

Run `drive`, under `FairSpec`: 2 request threads of which one deletes, 1 pool
thread without queue, quota 4, announced sizes 2, reported sizes 0 and 3, 2
uploads or links (and the files of links), batches of 2, one failure.  A quota
of 4 takes two reservations of 2 and not one of 2 and one of 3, so every check
decides; a link turns out to be a file with a deleted one beside it, or a broken
one.  Properties: `Accounted` (`TypeOK`; bytes within the quota, whoever reserves,
grows or splits; every permit belongs to a transfer), `FannedOutOnce` (a link is
replaced by its files once, all at once), `ErasedBeforeDeleted`, `NoGhost` (no file
is listed that upstream has erased, unless the answer was lost),
`ReservationHasOwner` (a reservation nothing upstream corresponds to is somebody's
work), `ListedStays` (a late report does not take a listed file away),
`PoolDrains` (a full pool does not stay full).  *Fairness*: Postgres grants a row
lock in the order of requests, so what a routine does next is strongly fair;
failures, new requests and the end of transfers upstream are not fair.

*What holds only so far.*  These are behaviours of the code outside the instance.
A link that is deleted while it is pending frees its reservation, although a
refresh under way still relies on it, and settling it lists it again: bytes above
the quota, against `Accounted` (so the instance deletes only failed links).  Two
deleters of one file can restore what the other has erased, against `NoGhost`, and
with it the file's bytes, against `Accounted`; and two batches in opposite order can
block each other until Postgres breaks the cycle (so one worker deletes).  Both
together restore a reservation nobody works on, against `ReservationHasOwner`.  A file in `delete_pending` that
had failed counts against the quota again until it is finalised, so `Accounted`
leaves that status out.  The transfers route does not read which files upstream refused
(`failed_items`) and marks them deleted.  Reservations never expire and a restart
loses the queue, so orphans keep their quota.  A refresh reads the first 100 files
of a link, and a business error of one link ends it for all.

## 7. Catalogue and quote pricing

### `Catalogue`

One template.  `entries[t]` are the rows of a tier by version; no code disables a
row, so the current one is the last.  An upsert is `Validate` (current rows,
merged with the payload), `Allocate` (highest versions, from a later snapshot) and
`Insert` or `InsertFails` (the `UNIQUE` key decides between two that chose one
version).  The refresh script is `Plan` and, in a later transaction, `Apply`
(`ON CONFLICT DO NOTHING` for rows, unconditional for the duration) or `GiveUp`;
`SeedLegacy` is the seed from v1 prices, which a column's `CHECK` refuses as a whole
when Pro is cheaper than Flash there.  `Effective` and `Resolvable` are what
readers are shown: a tier of the template's own or the family's, scaled.

Prices are computed as the code computes them, in decimals of 28 significant
digits: `Minutes` divides by 60 and rounds, `Times` and `Plus` round again, `Ceil`
rounds what is held up to points, `Breakdown` rounds each row down and lets the
last absorb the rest.  A number is kept as whole 300ths and the error rounding
left; half-even rounding is exact in that form for numbers below 10000.

| run | asks | instance |
|---|---|---|
| `catalogue` | do versions, tiers, durations and quotes stay together? | 2 admins, Flash and Pro, 3 payloads, durations of 130 and 670 seconds, SRTs of 7 and 80 lines, 2 versions |
| `catalogue_rounding` | is a charge rounded once, as comments of the pricing code say? | the same; violated |

130 seconds are below the third minute and 670 above it; 2 versions let a writer be
overtaken once.  `AcceptedStays`: what an admin was told is stored stays under the
version the answer named.  `RowsAreSound`: rows are what their columns allow, and a
tier the script wrote last costs what the template's duration costs.
`BreakdownAddsUp`: rows are whole points and sum to the charge.
`CheckedPairFits`: an upsert nobody overtook leaves Flash, Pro and surcharge in agreement.  `RefreshSettles`: a refresh nobody overtook leaves
nothing for a second run.

*A price too high.*  `RoundedOnce` is violated at 670 seconds of narration in
Flash: the minutes are 11.1666..., rounded up in the 28th digit, the three subtotals
sum to 155 and one unit of the last digit, and the total is rounded up to 156.  The
comments at `subflows.py:132` and `service.py:564` promise one rounding, at the
total.  Below 20000 seconds about 2 in 100 pairs of a duration and a tier cost a
point too much.

*What no property says.*  That a Pro readers are shown is the Flash beside it plus its
surcharge.  For an inherited Pro the surcharge is computed from the two prices shown and
refused when negative (`Resolvable`), so there is nothing to go wrong.  One of the
template's own is skipped, because it was "validated at upsert" (`store.py:353`); but the
upsert compares it with the template's own Flash and passes when there is none
(`validators.py:167`), and the Flash shown is then the family's: a Pro of 50 points with a
surcharge of 8 may stand beside a Flash of 32.  Nor does a property say that Flash and
Pro agree when they are submitted one by one (`validators.py:6`): of two upserts at
once, each is validated against the rows from before the other, and both are stored.
Hence "nobody overtook" in `CheckedPairFits`.

*What holds only so far.*  The refresh script is run once at a time (`script` is one
variable): two runs from different durations at once are not in the model, and neither
its runs nor its theorems speak of them.  The script skips a tier whose two columns match
the formula, so a Pro keeps the surcharge of an older Flash; every later upsert that
does not submit Pro is then refused.  A tier a script found taken is skipped
silently.  A row disabled by hand would make the script plan a version that exists,
for ever.

## 8. Proofs

`OrderBillingProofs` proves for every finite set of orders, any users, prices
and opening balances: `TypeCorrect`, `FrozenAlwaysHeld`, `Conservation`.  The
three are not inductive one by one: that a refund leaves the frozen balance a
natural number needs `FrozenIsHeld`; that an overbill credit keeps the sum needs
that a credit never exceeds its charge and exists only on a confirmed one
(`WellFormed`).  `Inv` is their conjunction; there is one lemma per operation
and `StepKeepsSums` carries the arithmetic they share: when one bill changes,
two sums change by what that bill contributes.  `ShownAreCurrent` is about
`WalletReads`, on top of it: a reader keeps the row its first statement fetched and
shows it beside the second; `ReadInv` says of that row that it was true and that what
has become of it since is harmless: a confirmed or refunded bill stays so, and a
freeze is not undone without leaving a trace.  `PhasesAdvance` is the one fact about
billing it needs.

`WalletProofs` proves every safety property of `Wallet`, that it implements
`OrderBilling`, and that the two reports agree, for any number of workers, orders,
users and keys, any bodies, prices, lifetimes and batch size.  Nothing is finite but
what has been billed.  `BooksAreSound` is not inductive: a commit writes rows it
computed from what it read, and it takes the locks to know that they are still so.
`Knows(w)` says, place by place, which operation can be there (`OnRoute`), which
locks it holds (`HoldsLocks`) and which committed rows its reads still equal: no
record of its key, the quote open and no transaction yet (`MayFreeze`), the
transaction in the state it found and the refunds counted (`MaySettle`), the
balance.  `Exclusion` (a lock has one holder) and `LedgerMatches` (each entry belongs
to the payer of its order and fits the state of its row) complete `IInv`.  Of
another worker's commit, `Apart` says that it is about another order and another
account, so knowledge survives it.  What every commit that moves points does is put
once, as `Moves`, with `Settles` for the three ways a row may change and the entry
that goes with each; replaying ledgers, the refinement and the reports all use it.
An accepted answer stays true (`AcceptedDone`), from which `RetryAccepted` follows.
The reports sum rows and entries separately.  `ReportInv` joins them: `RowsAddUp`
(the entries of each order add up to its row) and `SumsFit` (the sums of each account
fit its balance).  A movement changes one row and one account, hence one term of
each sum (`SumChange`).  `IInv` and `ReportInv` were checked by TLC on the instances
of `wallet_contention` and `wallet_retention` before they were proved.

`TaskBillingProofs` proves every safety property of `TaskBilling` (`TypeOK`, `PointsAccounted`, `ChargeHonoursQuote`,
`AcceptedHolds`, `NoWaitCycle`, `RetryAccepted`, `RefundedWithFailure`) for any
number of workers, tasks and users, any finite set of quotes, any prices,
balances, ages and bounds.  The argument is the one a reader of the code makes
informally.  A worker knows things that were true when it read them
(`ChargeOf`: its quote has no snapshot, its user can pay; `RefundOf`: the linked
charge is in force; `RowOf`: the task is its user's) and the locks it holds
(`LocksOf`) keep others from making them false: `LocksExclude` says a lock has
one holder, and `OthersAtCommit` that a commit by the holder of some locks
disturbs nobody else's knowledge.  `ProceedInv` and `AnswerInv` dispose of the
statements that publish nothing, so that only the two commits and the
administrator's update need arithmetic, which `ChangedSnapshot` supplies.
`RowsResolve` (links lead to snapshots, snapshots to quotes) and
`AcceptedMatches` (an accepted request submitted what its quote was made for)
are what `RetryAccepted` needs besides.  `LockOrder` derives the absence of wait
cycles from `LocksOf` and the type of requests.  Assumptions: the `ASSUME`s of `TaskBilling`, which
TLC evaluates in the run `billing`; none bounds anything but the set
of quotes, which must be finite for a sum over it to exist.

`SumLemmas` relates the library's `SumFunctionOnSet`, a fold with no theorems,
to the cardinality of a set with `f[x]` units for each `x`, for which the library
has them: a smallest subset on which the two recursions differ is contradictory.
From this follow that a sum is that of its support, what it becomes when one
term changes, that the sum of a union is at most the two sums, and exactly that when
they are apart, that a larger function has no smaller sum (`SumAtMost`), that a
sum whose terms are each at least `c` times those of another is so, too
(`SumOfParts`), and that renaming the terms does not matter (`SumRenamed`).

`OrchestratorProofs` proves `PipelineInOrder` and `CompletedIsDone` for any
pipeline, any number of machines and browsers, and with crashes, time-outs,
retries, pauses and placeholders allowed, where the run `advance_faults` has one
machine and four steps.  Neither is checked by the code at the point where a job is
created or a row completed; they hold because every body in use, the row's, an
actor's and the one the owner is about to write, is `Sound`: it points to jobs of
its own steps and calls a step completed only when its job has succeeded.  `Grown`
says what others may do to jobs meanwhile, `GrownSound` that a body read earlier
stays right about them, and `Holds` what an actor knows at each statement.  A retry
creates a job for a step that had one, so its turn had come.  `BodiesFit` adds that
every body and record keeps its form and that the row is locked between a claim and
its commit and at no other time.

The other four theorems have hypotheses, each a limit named in section 5 and each
with its name in the module.  `StepsTriggeredOnce` and `TaskMovesOn` assume that no
routine is cut short and that the owner retries nothing; time-outs, failing queries,
pauses, take-overs and placeholders are allowed.  The claim asks whether the row
still stands at the step and has no job beyond it; it does not ask whether a job
exists.  That this is enough is `RaceInv`: steps have a `Rank` and the pipeline
never turns back, no body calls a step triggered that is ahead of its own
(`Frontier`), no job is ahead of the row except that of the one actor about to
record it (`JobsBehind`), and until then no other actor has that job in hand
(`Hidden`).  From the same invariant follows that the last write, which asks nothing
of the row, is never late.  `NoJobDropped` assumes besides that triggers are
answered and that a task is advanced by browsers or changed by its owner but not
both.  `AgreeInv` says who knows which jobs: an actor on the row's own step has the
jobs the row has, and one that has claimed a step knows every job there is, so
replacing the whole body loses none.  The runs `advance_race` and
`advance_faults` satisfy these hypotheses partly in different ways: all of them hold
in `advance_race`, where two machines race two browsers.  `VerdictIsAboutRow` is
about one machine and no browser, with every fault and every move of the owner, as
in `advance_faults`: `JudgeInv` says that whatever the owner has submitted or submits
while the machine works on a job cannot put another job in its place, because a
retry needs a failed task.  `RaceInv`, `AgreeInv` and `JudgeInv` were checked by
TLC on small instances before they were proved.

`PollerProofs` proves `LockHasOneHolder` in two parts.  `PoolInv`: a connection is in one
place, in the stack, with another thread or with the scan, and each once, so that a
connection closed for its age when it is drawn is never the one a scan lists with.
`LockInv`: the lock is granted again to the session that has it, so "held" is a count;
`HoldsAccounted` says that the listing under way accounts for one and a leak for the
rest, which is what makes a single release enough.  `LockIsDisciplined` adds what the
rest of the state is (`ValuesOK`): the queue of running tasks, which every write of a
row reorders, stays a sequence of the tasks that are not settled, each once (`Queued`),
and no session holds the lock more often than the failed lists and the listing under way
explain (`HoldsCounted`).

`CloudDriveProofs` proves every safety property of `CloudDrive`, for any number of
requests, threads and rows, any quota, sizes, queue and bound on failures.  Most
requests hold no lock between two statements, so what an actor knows of a row has to be
what no other may change: its kind, what it is bound to (`KnowsRows`), that no two
actors are about to bind one reservation (`OwnedOnce`); a row whose size is checked is
locked, and permits are counted by their holders.  `RowsMove` says what an actor may do
to rows and `StepKeeps` that all others' knowledge survives it: together `IInv`
(`DriveIsSound`), from which `PermitsAreHeld` follows.  `Shape` says row by row what
one step may do (`RowStep`), and with it come `DeletedIsErased`, `ListedFilesStay`
and `SplitOnce`, without further hypotheses.  Three theorems need the two restrictions
of section 6.  `ReservationsHaveOwners` assumes that no pending link is deleted
(`PendingLinksStay`; `LinksInv`).  `NothingErasedIsShown` assumes that one client at a
time deletes (`OneDeleter`): `GhostInv` says that what a deletion would restore is
what upstream has not confirmed.  `QuotaHolds` assumes both.  The sum of sizes is not
inductive, because a failing deletion restores rows that meanwhile did not count:
`RoomInv` bounds the sum of the *claims*, which count a marked row for what it may be
restored to, and a reservation being grown for what its actor, holding the lock on the
user, is about to write.

`CatalogueProofs` proves every safety property of `Catalogue` that holds.
`AcceptedRowsStay`: `Continues` relates the rows of a tier before and after a step,
and every writer continues them; that the row accepted is the one appended needs the
`UNIQUE` key (`VersionsFree`).

The prices come next.  A decimal is an exact part `n`, in 300ths, and what rounding
left, `e`; multiplication, addition and rounding never let `e` flow back into `n`.  So
the fold over a recipe adds exact subtotals up, whatever the last digits are
(`FoldIsExact`: the smallest number of rows with which the fold would differ from the
sum is contradictory), and a charge is the exact total rounded up or one point more
(`TotalExact`); `RoundedOnce`, that it is never more, is what `catalogue_rounding`
refutes.  From this follow that Pro is never cheaper than Flash (`ProAboveFlash`, so
the script writes no negative surcharge), and that rows rounded down never sum to more
than the charge, so what the last absorbs is not negative (`BreakdownFits`,
`QuotesAddUp`).  The proofs do not use how large `e` is:
they cover numbers of 10000 and more, where `Ulp` no longer says which digit is the last,
as long as the error stays below a 300th, which 28 digits leave room for.

`CatalogueIsSound` rests on `SoundInv`.  A validated request holds payloads that fit
the rows it saw (`RequestFits`), its derived surcharge included.  `PlanFits` is why a
plan may be applied late: only the script writes rows `by` "refresh", and only one run of
it is under way, so a row of the script's that the plan did not mean to replace already
has the price the plan was made with, and one it did is still the last, at a version
that is free; in a plan to seed there is no such row, and once somebody else has
seeded the template every tier is taken.  `SoundInv` was checked by TLC on the instance
of `catalogue` before it was proved.  `AcceptedPairFits` and `NothingLeftToRefresh`
follow from it.  None has a hypothesis; "nobody overtook" is part of the two action
properties, and the single run of the script part of the model.

Assumptions: the `ASSUME`s of the modules proved about, which TLC evaluates in
`order_billing`, `wallet_*`, `billing`, `advance_*`, `poller`, `drive` and
`catalogue`.  They say that constants are of their kind and that `None` is no step,
worker or body; nothing there bounds an instance.  The hypotheses of single theorems
are definitions of the proof modules, stated at the theorem.

Only model-checked: liveness (`RequestsAreAnswered`, `Settles`, `EveryTaskIsDriven`,
`PoolDrains`: fairness and ENABLED are beyond the prover), and the two statements that
runs refute.  Where a theorem has a hypothesis,
the property without it does not hold: sections 5 and 6 name the behaviour.

## 9. Not modelled

Components without modules are listed in `PROJECT.json` with their reason.  Left
out for good, because they keep no state that two actors share: formatting of
responses, metrics, SRT parsing, the hard-price table, the upstream HTTP
protocols, authentication and user administration (but for the balance an
administrator sets), the proxy and metadata routes, migrations and one-off import
tools.  Left out of modelled components: the choice of a free display name and the
single-file refresh of a transfer record, which no route calls (cloud drive); the
result fields copied from step to step (orchestrator); currency, rates and labels of
tiers, the mixed combination and the derivative tier in the instance (catalogue);
the months and other tenants of the reconciliation.  The executor that is rebuilt on
a change of configuration is left out as well: no request reaches that path.
