----------------------------- MODULE CloudDrive -----------------------------
(***************************************************************************)
(* The cloud drive of one user: uploads and link transfers reserve quota,  *)
(* an upstream service stores the files, deletions are marked, sent        *)
(* upstream and finalised.  Every query filters by user, so users share    *)
(* nothing but the queue of background transfers.                          *)
(*                                                                         *)
(* A request is a sequence of short READ COMMITTED transactions with calls *)
(* to the upstream service between them.  A transaction that checks the    *)
(* sum of the sizes locks the users row and is several steps here; one     *)
(* that only writes rows is one step, and so is an upstream call whose     *)
(* answer leads to it.  Transfers of unknown size are submitted by a pool  *)
(* of threads behind a bounded queue.                                      *)
(***************************************************************************)
EXTENDS Naturals, Sequences, FiniteSets, Functions, SequencesExt

CONSTANTS
  Workers,       \* request threads
  Threads,       \* threads of the transfer pool
  QueueSize,     \* transfers that may wait for a thread
  Quota,         \* the user's cloud_drive_quota_bytes
  Sizes,         \* sizes clients announce for uploads and links
  Reports,       \* sizes callbacks and upstream report later
  Listings,      \* what upstream may list for a link: sequences of files
  Deleters,      \* workers that serve deletions
  DeletedLinks,  \* statuses in which the client deletes a link
  MaxBatch,      \* bound on the rows of one deletion
  MaxRows,       \* bound on uploads and links
  MaxFaults      \* bound on failures

ASSUME ActorsAssumption ==
  Workers \intersect Threads = {} /\ IsFiniteSet(Threads) /\ Deleters \subseteq Workers
ASSUME NumbersAssumption ==
  {QueueSize, Quota, MaxBatch, MaxRows, MaxFaults} \subseteq Nat /\ Sizes \subseteq Nat \ {0} /\ Reports \subseteq Nat
ASSUME ListingsAssumption ==
  /\ <<>> \notin Listings
  /\ Listings \subseteq Seq([size : Nat, outcome : {"done", "failed", "deleted"}])

VARIABLES
  row,      \* the user's rows of user_cloud_files, in order of insertion
  locks,    \* actor -> the rows it has locked, 0 for the row of users
  pc,       \* actor -> what it does next
  job,      \* actor -> what it knows
  queue,    \* rows whose submission waits for a thread
  slots,    \* permits of the semaphore in use
  listing,  \* links upstream has finished -> the files it lists for them
  store,    \* upstream's files by row: erased, refused, erased without answer
  orphans,  \* reservations whose request died or could not clean up
  faults    \* failures so far

vars == <<row, locks, pc, job, queue, slots, listing, store, orphans, faults>>

Actors == Workers \union Threads
Users == 0
Capacity == Cardinality(Threads) + QueueSize

Active == {"reserved", "completed", "delete_pending",
           "transfer_pending", "transfer_running", "transfer_completed"}
Statuses == Active \union {"failed", "deleted"}

Row(kind, status, size) ==
  [kind |-> kind, status |-> status, size |-> size, file |-> FALSE,
   upload |-> FALSE, settled |-> FALSE, parent |-> 0]

Idle == [op |-> "none", row |-> 0, size |-> 0, slot |-> FALSE, todo |-> <<>>,
         ids |-> {}, was |-> <<>>, sure |-> FALSE]

TotalSize(S) ==
  SumFunctionOnSet([i \in DOMAIN row |-> row[i].size], {i \in DOMAIN row : row[i].status \in S})
Used == TotalSize(Active)

\* What the file list of the client shows.
Listed(i) == row[i].file /\ row[i].status \in {"completed", "transfer_completed"}

Free(a, S) == \A b \in Actors \ {a} : locks[b] \intersect S = {}
Larger(m, n) == IF m >= n THEN m ELSE n
Without(f, S) == [x \in DOMAIN f \ S |-> f[x]]
Realized(l) ==
  SumFunctionOnSet([k \in DOMAIN l |-> l[k].size], {k \in DOMAIN l : l[k].outcome = "done"})

-----------------------------------------------------------------------------

Init ==
  /\ row = <<>>
  /\ locks = [a \in Actors |-> {}]
  /\ pc = [a \in Actors |-> "idle"]
  /\ job = [a \in Actors |-> Idle]
  /\ queue = <<>>
  /\ slots = 0
  /\ listing = <<>>
  /\ store = [erased |-> {}, refused |-> {}, unanswered |-> {}]
  /\ orphans = {}
  /\ faults = 0

At(a, label) == pc[a] = label
GoTo(a, label) == pc' = [pc EXCEPT ![a] = label]
Learn(a, new) == job' = [job EXCEPT ![a] = new]
Lock(a, S) == locks' = [locks EXCEPT ![a] = @ \union S]
Unlock(a) == locks' = [locks EXCEPT ![a] = {}]
SetStatus(i, status) == row' = [row EXCEPT ![i].status = status]
Fault == faults < MaxFaults /\ faults' = faults + 1

\* The routine ends: the transaction under way is rolled back, a slot it still
\* has is given back.
End(a) ==
  /\ GoTo(a, "idle")
  /\ Learn(a, Idle)
  /\ Unlock(a)
  /\ slots' = IF job[a].slot THEN slots - 1 ELSE slots

\* A refresh is done with link i, and ends when it was the last.
NextParent(a, i) ==
  LET rest == Without(job[a].todo, {i}) IN
  IF rest = <<>>
  THEN End(a)
  ELSE /\ GoTo(a, "poll")
       /\ Learn(a, [Idle EXCEPT !.op = "refresh", !.todo = rest])
       /\ Unlock(a)
       /\ UNCHANGED slots

Upstream == <<listing, store>>
Pool == <<queue, slots>>

-----------------------------------------------------------------------------
(* Uploads and links reserve quota. *)

RoomForRow ==
  Cardinality({i \in DOMAIN row : row[i].kind # "child"})
  + Cardinality({w \in Workers : pc[w] = "insert"}) < MaxRows

\* Mutant: the users row is not locked.
EnsureQuotaUnlocked(w, op, size) ==
  /\ At(w, "idle") /\ RoomForRow
  /\ Used + size <= Quota
  /\ GoTo(w, "insert")
  /\ Learn(w, [Idle EXCEPT !.op = op, !.size = size])
  /\ UNCHANGED <<row, locks, Pool, Upstream, orphans, faults>>

\* The sum is read under the lock of the users row, which is kept for the insert.
EnsureQuota(w, op, size) ==
  /\ At(w, "idle") /\ RoomForRow
  /\ Free(w, {Users})
  /\ Used + size <= Quota
  /\ Lock(w, {Users})
  /\ GoTo(w, "insert")
  /\ Learn(w, [Idle EXCEPT !.op = op, !.size = size])
  /\ UNCHANGED <<row, Pool, Upstream, orphans, faults>>

\* A link of unknown size takes a slot instead; without one it is refused.
ReserveSlot(w) ==
  /\ At(w, "idle") /\ RoomForRow
  /\ slots < Capacity
  /\ slots' = slots + 1
  /\ GoTo(w, "insert")
  /\ Learn(w, [Idle EXCEPT !.op = "link", !.slot = TRUE])
  /\ UNCHANGED <<row, locks, queue, Upstream, orphans, faults>>

\* The insert takes a key-share lock on the users row for its foreign key.
Insert(w) ==
  /\ At(w, "insert") /\ Free(w, {Users})
  /\ row' = Append(row, Row(job[w].op,
                            IF job[w].op = "upload" THEN "reserved" ELSE "transfer_pending",
                            job[w].size))
  /\ GoTo(w, CASE job[w].op = "upload" -> "attach"
               [] job[w].slot -> "enqueue"
               [] OTHER -> "submit")
  /\ Learn(w, [job[w] EXCEPT !.row = Len(row) + 1, !.size = 0])
  /\ Unlock(w)
  /\ UNCHANGED <<Pool, Upstream, orphans, faults>>

InsertFails(w) ==
  /\ At(w, "insert") /\ Fault
  /\ End(w)
  /\ UNCHANGED <<row, queue, Upstream, orphans>>

\* Upstream has given a file id and a URL; the update looks at no status.
AttachUpload(w) ==
  /\ At(w, "attach") /\ Free(w, {job[w].row})
  /\ row' = [row EXCEPT ![job[w].row].file = TRUE]
  /\ End(w)
  /\ UNCHANGED <<queue, Upstream, orphans, faults>>

\* The reservation is marked failed whatever its status.
MarkFailed(a) ==
  /\ At(a, "fail") /\ Free(a, {job[a].row})
  /\ SetStatus(job[a].row, "failed")
  /\ End(a)
  /\ UNCHANGED <<queue, Upstream, orphans, faults>>

\* A failure to do so is only counted.
MarkFailedFails(a) ==
  /\ At(a, "fail") /\ Fault
  /\ orphans' = orphans \union {job[a].row}
  /\ End(a)
  /\ UNCHANGED <<row, queue, Upstream>>

-----------------------------------------------------------------------------
(* Links are submitted upstream, by the request or by a thread of the pool. *)

Enqueue(w) ==
  /\ At(w, "enqueue")
  /\ queue' = Append(queue, job[w].row)
  /\ GoTo(w, "idle")
  /\ Learn(w, Idle)
  /\ UNCHANGED <<row, locks, slots, Upstream, orphans, faults>>

EnqueueFails(w) ==
  /\ At(w, "enqueue") /\ Fault
  /\ slots' = slots - 1
  /\ GoTo(w, "fail")
  /\ Learn(w, [job[w] EXCEPT !.slot = FALSE])
  /\ UNCHANGED <<row, locks, queue, Upstream, orphans>>

\* Mutant: the thread does not give the permit back in the end.
RunSubmissionKeeps(t) ==
  /\ At(t, "idle") /\ queue # <<>>
  /\ queue' = Tail(queue)
  /\ GoTo(t, "submit")
  /\ Learn(t, [Idle EXCEPT !.op = "link", !.row = Head(queue)])
  /\ UNCHANGED <<row, locks, slots, Upstream, orphans, faults>>

RunSubmission(t) ==
  /\ At(t, "idle") /\ queue # <<>>
  /\ queue' = Tail(queue)
  /\ GoTo(t, "submit")
  /\ Learn(t, [Idle EXCEPT !.op = "link", !.row = Head(queue), !.slot = TRUE])
  /\ UNCHANGED <<row, locks, slots, Upstream, orphans, faults>>

\* Upstream accepts the link and may tell its size; a size above the reserved
\* one is checked with the row locked.
AttachLink(a) ==
  /\ At(a, "submit")
  /\ LET i == job[a].row IN
     IF row[i].status = "deleted"
     THEN GoTo(a, "fail") /\ UNCHANGED <<row, locks, job, slots>>
     ELSE /\ Free(a, {i})
          /\ \E size \in Reports :
               IF size > row[i].size
               THEN /\ Lock(a, {i})
                    /\ Learn(a, [job[a] EXCEPT !.size = size])
                    /\ GoTo(a, "grow")
                    /\ UNCHANGED <<row, slots>>
               ELSE row' = [row EXCEPT ![i].upload = TRUE] /\ End(a)
  /\ UNCHANGED <<queue, Upstream, orphans, faults>>

GrowLink(a) ==
  /\ At(a, "write") /\ job[a].op = "link"
  /\ row' = [row EXCEPT ![job[a].row].upload = TRUE, ![job[a].row].size = job[a].size]
  /\ End(a)
  /\ UNCHANGED <<queue, Upstream, orphans, faults>>

\* What the row under way is known to have reserved: a refresh relies on what it
\* read when it listed the links.
Reserved(a) ==
  IF job[a].op = "refresh" THEN job[a].todo[job[a].row] ELSE row[job[a].row].size

EnsureGrowth(a) ==
  /\ At(a, "grow") /\ Free(a, {Users})
  /\ IF Used + job[a].size > Quota + Reserved(a)
     THEN CASE job[a].op = "link" -> GoTo(a, "fail") /\ Unlock(a) /\ UNCHANGED <<job, slots>>
            [] job[a].op = "callback" -> End(a)
            [] job[a].op = "refresh" -> NextParent(a, job[a].row)
     ELSE Lock(a, {Users}) /\ GoTo(a, "write") /\ UNCHANGED <<job, slots>>
  /\ UNCHANGED <<row, queue, Upstream, orphans, faults>>

\* Mutant: the reservation is left as it is.
RequestFailsSilently(a) ==
  /\ pc[a] \in {"attach", "submit", "complete", "grow", "write"} /\ Fault
  /\ End(a)
  /\ UNCHANGED <<row, queue, Upstream, orphans>>

\* A call or a transaction on the way to a file fails.
RequestFails(a) ==
  /\ pc[a] \in {"attach", "submit", "complete", "grow", "write"} /\ Fault
  /\ IF job[a].op \in {"upload", "link"}
     THEN GoTo(a, "fail") /\ Unlock(a) /\ UNCHANGED <<job, slots>>
     ELSE End(a)
  /\ UNCHANGED <<row, queue, Upstream, orphans>>

-----------------------------------------------------------------------------
(* The client reports the end of an upload. *)

\* An unlocked read finds the reservation and, for a success, room for it.
Callback(w, op, i, size) ==
  /\ At(w, "idle")
  /\ row[i].kind = "upload" /\ row[i].file /\ row[i].status = "reserved"
  /\ op = "callback" => Used - row[i].size + Larger(row[i].size, size) <= Quota
  /\ GoTo(w, "complete")
  /\ Learn(w, [Idle EXCEPT !.op = op, !.row = i, !.size = size])
  /\ UNCHANGED <<row, locks, Pool, Upstream, orphans, faults>>

\* Upstream has been told.  The statement joins users, so it locks both rows.
CompleteUpload(w) ==
  /\ At(w, "complete") /\ Free(w, {Users, job[w].row})
  /\ LET i == job[w].row IN
     CASE row[i].status # "reserved" -> End(w) /\ UNCHANGED row
       [] row[i].status = "reserved" /\ job[w].op = "report" ->
            SetStatus(i, "failed") /\ End(w)
       [] row[i].status = "reserved" /\ job[w].op = "callback" /\ job[w].size <= row[i].size ->
            SetStatus(i, "completed") /\ End(w)
       [] OTHER -> Lock(w, {Users, i}) /\ GoTo(w, "grow") /\ UNCHANGED <<row, job, slots>>
  /\ UNCHANGED <<queue, Upstream, orphans, faults>>

GrowUpload(w) ==
  /\ At(w, "write") /\ job[w].op = "callback"
  /\ row' = [row EXCEPT ![job[w].row].status = "completed", ![job[w].row].size = job[w].size]
  /\ End(w)
  /\ UNCHANGED <<queue, Upstream, orphans, faults>>

-----------------------------------------------------------------------------
(* Listing the transfers replaces the links upstream has finished by files. *)

Refresh(w) ==
  /\ At(w, "idle")
  /\ LET parents == {i \in DOMAIN row : /\ row[i].kind = "link" /\ row[i].upload
                                        /\ ~row[i].settled /\ row[i].status # "deleted"} IN
     /\ parents # {}
     /\ Learn(w, [Idle EXCEPT !.op = "refresh", !.todo = [i \in parents |-> row[i].size]])
  /\ GoTo(w, "poll")
  /\ UNCHANGED <<row, locks, Pool, Upstream, orphans, faults>>

Child(i, item) ==
  [Row("child", IF item.outcome = "done" THEN "transfer_completed" ELSE "failed", item.size)
   EXCEPT !.file = TRUE, !.parent = i]

\* Files deleted upstream get no row, the others one each, in an order nothing
\* depends on; the link keeps none of its bytes.
FanOut(i) ==
  LET kept == SetToSeq({k \in DOMAIN listing[i] : listing[i][k].outcome # "deleted"}) IN
  row' = [row EXCEPT ![i].settled = TRUE, ![i].size = 0, ![i].status = "transfer_completed"]
         \o [k \in DOMAIN kept |-> Child(i, listing[i][kept[k]])]

\* Mutant: the row is not looked at again once it is locked.
SettledUnseen(i) == FALSE

\* A rival refresh has settled the link since it was listed.
SettledAlready(i) == row[i].settled

\* One link: it is left for the next refresh, has been settled by a rival, or is
\* settled here, with its row locked.
Settle(w) ==
  /\ At(w, "poll")
  /\ \E i \in DOMAIN job[w].todo :
       CASE i \notin DOMAIN listing -> NextParent(w, i) /\ UNCHANGED row
         [] i \in DOMAIN listing /\ SettledAlready(i) -> NextParent(w, i) /\ UNCHANGED row
         [] i \in DOMAIN listing /\ ~SettledAlready(i)
            /\ Realized(listing[i]) <= job[w].todo[i] ->
              Free(w, {i, Users}) /\ FanOut(i) /\ NextParent(w, i)
         [] OTHER ->
              /\ Free(w, {i}) /\ Lock(w, {i})
              /\ Learn(w, [job[w] EXCEPT !.row = i, !.size = Realized(listing[i])])
              /\ GoTo(w, "grow")
              /\ UNCHANGED <<row, slots>>
  /\ UNCHANGED <<queue, Upstream, orphans, faults>>

SettleGrown(w) ==
  /\ At(w, "write") /\ job[w].op = "refresh"
  /\ FanOut(job[w].row)
  /\ NextParent(w, job[w].row)
  /\ UNCHANGED <<queue, Upstream, orphans, faults>>

\* A failing call skips the link; a business error ends the refresh.
PollFails(w) ==
  /\ At(w, "poll") /\ Fault
  /\ End(w) \/ \E i \in DOMAIN job[w].todo : NextParent(w, i)
  /\ UNCHANGED <<row, queue, Upstream, orphans>>

-----------------------------------------------------------------------------
(* Deletions: "file" deletes one file, "files" and "transfers" a batch. *)

HasFiles(ids) == \E i \in ids : row[i].file

\* What the client deletes: files it has an id of, links in DeletedLinks.
Deletable(i, route) ==
  /\ row[i].status # "deleted"
  /\ \/ row[i].file
     \/ route = "transfers" /\ row[i].kind = "link" /\ row[i].status \in DeletedLinks

Deletion(w, route, ids) ==
  /\ At(w, "idle") /\ w \in Deleters
  /\ ids # {} /\ Cardinality(ids) <= (IF route = "file" THEN 1 ELSE MaxBatch)
  /\ \A i \in ids : Deletable(i, route)
  /\ Free(w, ids)

\* The rows are locked one by one and marked in one transaction.
SoftDelete(w, route, ids) ==
  /\ Deletion(w, route, ids)
  /\ row' = [i \in DOMAIN row |->
               IF i \in ids THEN [row[i] EXCEPT !.status = "delete_pending"] ELSE row[i]]
  /\ Learn(w, [Idle EXCEPT !.op = route, !.ids = ids, !.was = [i \in ids |-> row[i].status]])
  /\ GoTo(w, IF HasFiles(ids) THEN "erase" ELSE "finalise")
  /\ UNCHANGED <<locks, Pool, Upstream, orphans, faults>>

\* The transaction is rolled back, and the statuses it had read are restored.
SoftDeleteFails(w, route, ids) ==
  /\ Deletion(w, route, ids) /\ Fault
  /\ Learn(w, [Idle EXCEPT !.op = route, !.was = [i \in ids |-> row[i].status]])
  /\ GoTo(w, "restore")
  /\ UNCHANGED <<row, locks, Pool, Upstream, orphans>>

\* Upstream erases the files; a batch may name some it has refused to erase,
\* which one of the two routes reads.
Erase(w) ==
  /\ At(w, "erase")
  /\ LET files == {i \in job[w].ids : row[i].file} IN
     \E no \in IF job[w].op = "file" THEN {{}} ELSE SUBSET files :
       LET kept == IF job[w].op = "files" THEN no ELSE {} IN
       /\ store' = [store EXCEPT !.erased = @ \union (files \ no),
                                 !.refused = @ \union (no \ kept)]
       /\ IF kept = {}
          THEN Learn(w, [job[w] EXCEPT !.sure = TRUE]) /\ GoTo(w, "finalise")
          ELSE /\ Learn(w, [job[w] EXCEPT !.sure = TRUE, !.ids = @ \ kept,
                                          !.was = Without(@, job[w].ids \ kept)])
               /\ GoTo(w, "restore")
  /\ UNCHANGED <<row, locks, Pool, listing, orphans, faults>>

\* Mutant: a failing call is taken for a success.
EraseFailsUnseen(w) ==
  /\ At(w, "erase") /\ Fault
  /\ GoTo(w, "finalise")
  /\ UNCHANGED <<row, locks, job, Pool, Upstream, orphans>>

\* The call fails, before or after the files are erased.
EraseFails(w) ==
  /\ At(w, "erase") /\ Fault
  /\ \/ UNCHANGED store
     \/ LET files == {i \in job[w].ids : row[i].file} IN
        store' = [store EXCEPT !.erased = @ \union files, !.unanswered = @ \union files]
  /\ Learn(w, [job[w] EXCEPT !.ids = {}])
  /\ GoTo(w, "restore")
  /\ UNCHANGED <<row, locks, Pool, listing, orphans>>

\* What remains to be done once some of the rows are dealt with.
Restored(w, i) ==
  LET rest == Without(job[w].was, {i}) IN
  CASE rest # <<>> -> Learn(w, [job[w] EXCEPT !.was = rest]) /\ UNCHANGED <<pc, locks, slots>>
    [] rest = <<>> /\ job[w].ids # {} ->
         Learn(w, [job[w] EXCEPT !.was = rest]) /\ GoTo(w, "finalise") /\ UNCHANGED <<locks, slots>>
    [] OTHER -> End(w)

\* Mutant: the update does not look at the status.
RestoreStatusAlways(w) ==
  /\ At(w, "restore")
  /\ \E i \in DOMAIN job[w].was :
       Free(w, {i}) /\ SetStatus(i, job[w].was[i]) /\ Restored(w, i)
  /\ UNCHANGED <<queue, Upstream, orphans, faults>>

RestoreStatus(w) ==
  /\ At(w, "restore")
  /\ \E i \in DOMAIN job[w].was :
       /\ Free(w, {i})
       /\ IF row[i].status \in {"delete_pending", "deleted"}
          THEN SetStatus(i, job[w].was[i])
          ELSE UNCHANGED row
       /\ Restored(w, i)
  /\ UNCHANGED <<queue, Upstream, orphans, faults>>

RestoreFails(w) ==
  /\ At(w, "restore") /\ Fault
  /\ \E i \in DOMAIN job[w].was : Restored(w, i)
  /\ UNCHANGED <<row, queue, Upstream, orphans>>

FinaliseDelete(w) ==
  /\ At(w, "finalise") /\ Free(w, job[w].ids)
  /\ row' = [i \in DOMAIN row |->
               IF i \in job[w].ids /\ row[i].status = "delete_pending"
               THEN [row[i] EXCEPT !.status = "deleted"] ELSE row[i]]
  /\ End(w)
  /\ UNCHANGED <<queue, Upstream, orphans, faults>>

\* Mutant: the statuses are restored although upstream has confirmed.
FinaliseFailsRestores(w) ==
  /\ At(w, "finalise") /\ Fault
  /\ GoTo(w, "restore")
  /\ Learn(w, [job[w] EXCEPT !.ids = {}])
  /\ UNCHANGED <<row, locks, Pool, Upstream, orphans>>

\* Once upstream has confirmed, the rows stay marked and a retry ends the work.
FinaliseFails(w) ==
  /\ At(w, "finalise") /\ Fault
  /\ IF job[w].sure
     THEN End(w)
     ELSE /\ GoTo(w, "restore")
          /\ Learn(w, [job[w] EXCEPT !.ids = {}])
          /\ UNCHANGED <<locks, slots>>
  /\ UNCHANGED <<row, queue, Upstream, orphans>>

-----------------------------------------------------------------------------
(* Upstream and the process. *)

LinkEnds(i) ==
  /\ row[i].kind = "link" /\ row[i].upload /\ i \notin DOMAIN listing
  /\ \E l \in Listings :
       listing' = [k \in DOMAIN listing \union {i} |-> IF k = i THEN l ELSE listing[k]]
  /\ UNCHANGED <<row, locks, pc, job, Pool, store, orphans, faults>>

\* A reservation that nothing upstream corresponds to yet.
Unbound(i) ==
  \/ row[i].kind = "upload" /\ row[i].status = "reserved" /\ ~row[i].file
  \/ row[i].kind = "link" /\ row[i].status = "transfer_pending" /\ ~row[i].upload

\* The process restarts: transactions, requests and the queue are gone.
Crash ==
  /\ Fault
  /\ \E a \in Actors : pc[a] # "idle" \/ queue # <<>>
  /\ locks' = [a \in Actors |-> {}]
  /\ pc' = [a \in Actors |-> "idle"]
  /\ job' = [a \in Actors |-> Idle]
  /\ queue' = <<>>
  /\ slots' = 0
  /\ orphans' = orphans \union {i \in DOMAIN row : Unbound(i)}
  /\ UNCHANGED <<row, Upstream>>

Arrive(w) ==
  \/ \E op \in {"upload", "link"}, size \in Sizes : EnsureQuota(w, op, size)
  \/ ReserveSlot(w)
  \/ \E i \in DOMAIN row, size \in Reports : Callback(w, "callback", i, size)
  \/ \E i \in DOMAIN row : Callback(w, "report", i, 0)
  \/ Refresh(w)
  \/ \E route \in {"file", "files", "transfers"}, ids \in SUBSET DOMAIN row :
       SoftDelete(w, route, ids) \/ SoftDeleteFails(w, route, ids)

Proceed(a) ==
  \/ Insert(a) \/ AttachUpload(a) \/ MarkFailed(a)
  \/ Enqueue(a) \/ AttachLink(a) \/ EnsureGrowth(a) \/ GrowLink(a)
  \/ CompleteUpload(a) \/ GrowUpload(a)
  \/ Settle(a) \/ SettleGrown(a)
  \/ Erase(a) \/ RestoreStatus(a) \/ FinaliseDelete(a)

Fails(a) ==
  \/ InsertFails(a) \/ MarkFailedFails(a) \/ EnqueueFails(a) \/ RequestFails(a)
  \/ PollFails(a) \/ EraseFails(a) \/ RestoreFails(a) \/ FinaliseFails(a)

Next ==
  \/ \E w \in Workers : Arrive(w)
  \/ \E t \in Threads : RunSubmission(t)
  \/ \E a \in Actors : Proceed(a) \/ Fails(a)
  \/ \E i \in DOMAIN row : LinkEnds(i)
  \/ Crash

Spec == Init /\ [][Next]_vars

\* The database grants a row lock in the order of the requests for it, so who
\* waits for one gets it; the pool takes what is queued.
FairSpec ==
  /\ Spec
  /\ \A a \in Actors : SF_vars(Proceed(a))
  /\ \A t \in Threads : WF_vars(RunSubmission(t))
-----------------------------------------------------------------------------
(* Properties. *)

Labels == {"idle", "insert", "attach", "fail", "enqueue", "submit", "grow", "write",
           "complete", "poll", "erase", "restore", "finalise"}

\* Every variable holds what its comment says, a row is locked by one actor, and
\* the semaphore never hands out more permits than threads and queue together.
TypeOK ==
  /\ \A i \in DOMAIN row :
       /\ row[i].kind \in {"upload", "link", "child"} /\ row[i].status \in Statuses
       /\ row[i].size \in Nat /\ row[i].parent \in 0..(i - 1)
       /\ {row[i].file, row[i].upload, row[i].settled} \subseteq BOOLEAN
  /\ \A a, b \in Actors : locks[a] \subseteq 0..Len(row) /\ (a # b => locks[a] \intersect locks[b] = {})
  /\ pc \in [Actors -> Labels]
  /\ \A k \in DOMAIN queue : queue[k] \in DOMAIN row
  /\ slots \in 0..Capacity
  /\ orphans \subseteq DOMAIN row /\ faults \in 0..MaxFaults

\* What the user stores and has reserved never exceeds the quota, whoever
\* reserves, grows or splits a row at the same time (store.py:222: paths that
\* change the sum serialise on the users row).  Rows being deleted do not count
\* here: deleting a failed row makes the code count it again for a while.
WithinQuota == TotalSize(Active \ {"delete_pending"}) <= Quota

\* Every permit in use belongs to a queued transfer, to a busy thread or to a
\* request that is about to hand it over: none leaks, none is given back twice.
SlotsHeld ==
  slots = Len(queue) + Cardinality({a \in Actors : job[a].slot})

\* What is counted is what there is: bytes against the quota, permits against
\* the transfers that hold them.
Accounted == TypeOK /\ WithinQuota /\ SlotsHeld

\* A link is replaced by its files exactly once, all of them at once, however
\* many clients refresh at the same time.
FannedOutOnce ==
  \A i \in DOMAIN row :
    Cardinality({k \in DOMAIN row : row[k].parent = i}) =
      IF row[i].settled
      THEN Cardinality({k \in DOMAIN listing[i] : listing[i][k].outcome # "deleted"})
      ELSE 0

\* A file is recorded as deleted, and stops counting, only when upstream has
\* erased it, or has refused in an answer the transfers route does not read.
ErasedBeforeDeleted ==
  \A i \in DOMAIN row :
    row[i].file /\ row[i].status = "deleted" => i \in store.erased \union store.refused

\* The client is never shown a file upstream has erased, unless the answer to
\* the erasure was lost: what is confirmed is not restored when a later step fails.
NoGhost ==
  \A i \in DOMAIN row : Listed(i) /\ i \in store.erased => i \in store.unanswered

\* A reservation nothing upstream corresponds to is somebody's work: it holds
\* quota and never expires.  Only a restart or a failing cleanup leaves it behind.
ReservationHasOwner ==
  \A i \in DOMAIN row :
    Unbound(i) => \/ i \in orphans
                  \/ \E k \in DOMAIN queue : queue[k] = i
                  \/ \E a \in Actors : job[a].row = i

\* A file the client sees keeps its size and stays until a deletion marks it: a
\* late or repeated report cannot take it away.
ListedStays ==
  [][\A i \in DOMAIN row :
       Listed(i) => /\ row'[i].status \in {row[i].status, "delete_pending"}
                    /\ row'[i].size = row[i].size]_vars

\* The pool does not stay full: whatever its transfers meet (a busy row, a full
\* quota, a failing service, a cleanup that fails), each gives its permit back.
PoolDrains == slots = Capacity ~> slots < Capacity
=============================================================================
