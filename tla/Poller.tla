------------------------------- MODULE Poller -------------------------------
(***************************************************************************)
(* The scan that drives automatic tasks.  On each tick a machine tries to  *)
(* take a Postgres advisory lock, lists the oldest running tasks while it  *)
(* has it, gives it back and advances the listed tasks one by one.  The    *)
(* lock belongs to the database session, that is to a pooled connection:   *)
(* it can be taken again by the same session, survives a rolled back       *)
(* transaction and ends with the session.  The pool hands out what came    *)
(* back last, to the scan and to every other thread of the process, and    *)
(* replaces an old connection only then.  What advancing one task does to  *)
(* its row is module Orchestrator; here it either leaves the row as it is  *)
(* or writes it, which makes the task the youngest, or settles it.         *)
(***************************************************************************)
EXTENDS Naturals, Sequences, FiniteSets, SequencesExt

CONSTANTS
  Machines,   \* backend processes that run the scheduler
  Pool,       \* connections a process may have open
  Lent,       \* how many of them other threads have in use at a time
  Tasks,      \* tasks with run_auto = 1 that are running at the start
  Stuck,      \* those whose advance never gets anywhere: no upstream job,
              \* an upstream that refuses the query, a routine that raises
  Length,     \* steps in a task's pipeline
  BatchSize,  \* ORCHESTRATOR_BATCH_SIZE
  Flag,       \* ORCHESTRATOR_ENABLED
  MaxFaults,  \* bound on failing lists and stopping processes
  None        \* an absent value

\* Other threads do not exhaust the pool, so that a tick gets a connection.
ASSUME PoolAssumption == Pool \in Nat \ {0} /\ Lent \in 0..(Pool - 1)
ASSUME PollerTasksAssumption == IsFiniteSet(Tasks) /\ Stuck \subseteq Tasks
ASSUME BatchAssumption == {Length, BatchSize} \subseteq Nat \ {0} /\ MaxFaults \in Nat
ASSUME EnabledAssumption == Flag \in {"true", "1", "false"}

VARIABLES
  pc,     \* machine -> where its scan is
  conn,   \* machine -> the connection the scan has checked out
  idle,   \* machine -> its connections in the pool, the last returned first
  lent,   \* machine -> the connections that other threads have checked out
  held,   \* session -> how often it holds the advisory lock
  batch,  \* machine -> the listed tasks it has still to advance
  order,  \* the running automatic tasks, oldest updated_at first
  left,   \* task -> steps it has still to finish
  ready,  \* the tasks whose current upstream job has ended
  leaked, \* sessions that were refused to give the lock back
  old,    \* those of them that are older than pool_recycle
  faults  \* failures so far

pool == <<idle, lent>>
queue == <<order, left, ready>>
vars == <<pc, conn, pool, held, batch, queue, leaked, old, faults>>

Sessions == Machines \X (1..Pool)
Listing == {"list", "release", "failed"}
Connected == Listing \union {"connected"}

Init ==
  /\ pc = [m \in Machines |-> "off"]
  /\ conn = [m \in Machines |-> None]
  /\ idle = [m \in Machines |-> << >>]
  /\ lent = [m \in Machines |-> {}]
  /\ held = [s \in Sessions |-> 0]
  /\ batch = [m \in Machines |-> << >>]
  /\ order \in SetToSeqs(Tasks)
  /\ left = [t \in Tasks |-> Length]
  /\ ready = {}
  /\ leaked = {}
  /\ old = {}
  /\ faults = 0

Fault == faults < MaxFaults /\ faults' = faults + 1

OpenedNext(m, s) == LET out == lent[m] \union {conn[m]} IN
  s \notin out /\ \A c \in 1..(s[2] - 1) : <<m, c>> \in out

\* The pool hands out the connection that came back last, and opens one when it
\* has none.
Drawn(m, s) ==
  /\ s[1] = m
  /\ \/ idle[m] # << >> /\ s = Head(idle[m]) /\ idle' = [idle EXCEPT ![m] = Tail(@)]
     \/ idle[m] = << >> /\ OpenedNext(m, s) /\ UNCHANGED idle

\* Mutant: no connection is ever too old.
CheckOutAnyAge(m, s) == Drawn(m, s) /\ UNCHANGED <<held, leaked, old>>

\* A connection that is too old when it is drawn is closed, its session with it,
\* and opened again.
CheckOut(m, s) ==
  /\ Drawn(m, s)
  /\ held' = [held EXCEPT ![s] = IF s \in old THEN 0 ELSE @]
  /\ leaked' = leaked \ (old \intersect {s})
  /\ old' = old \ {s}

CheckIn(m, s) == idle' = [idle EXCEPT ![m] = <<s>> \o @]

\* start_orchestrator: the scheduler is started only by the value "true".
Boot(m) ==
  /\ pc[m] = "off"
  /\ pc' = [pc EXCEPT ![m] = IF Flag = "true" THEN "idle" ELSE "disabled"]
  /\ UNCHANGED <<conn, pool, held, batch, queue, leaked, old, faults>>

\* A tick takes a connection.
Tick(m) ==
  /\ pc[m] = "idle"
  /\ \E s \in Sessions : CheckOut(m, s) /\ conn' = [conn EXCEPT ![m] = s]
  /\ pc' = [pc EXCEPT ![m] = "connected"]
  /\ UNCHANGED <<lent, batch, queue, faults>>

\* pg_try_advisory_lock succeeds when no other session has the lock.
LockGranted(s) == \A r \in Sessions \ {s} : held[r] = 0

\* One machine leads the tick; one that does not get the lock returns.
TryLock(m) ==
  /\ pc[m] = "connected"
  /\ \/ /\ LockGranted(conn[m])
        /\ held' = [held EXCEPT ![conn[m]] = @ + 1]
        /\ pc' = [pc EXCEPT ![m] = "list"]
        /\ UNCHANGED <<conn, idle>>
     \/ /\ ~LockGranted(conn[m])
        /\ CheckIn(m, conn[m])
        /\ conn' = [conn EXCEPT ![m] = None]
        /\ pc' = [pc EXCEPT ![m] = "idle"]
        /\ UNCHANGED held
  /\ UNCHANGED <<lent, batch, queue, leaked, old, faults>>

\* list_running_auto_tasks: at most BatchSize rows, the oldest first.
ListTasks(m) ==
  /\ pc[m] = "list"
  /\ batch' = [batch EXCEPT ![m] = SubSeq(order, 1, IF Len(order) > BatchSize
                 THEN BatchSize ELSE Len(order))]
  /\ pc' = [pc EXCEPT ![m] = "release"]
  /\ UNCHANGED <<conn, pool, held, queue, leaked, old, faults>>

\* The SELECT fails, and Postgres aborts the transaction it ran in.
ListFails(m) ==
  /\ pc[m] = "list" /\ Fault
  /\ pc' = [pc EXCEPT ![m] = "failed"]
  /\ UNCHANGED <<conn, pool, held, batch, queue, leaked, old>>

\* Mutant: the lock is left to the end of the connection.
ReleaseNothing(m) ==
  /\ pc[m] = "release"
  /\ CheckIn(m, conn[m])
  /\ conn' = [conn EXCEPT ![m] = None]
  /\ pc' = [pc EXCEPT ![m] = "drive"]
  /\ UNCHANGED <<lent, held, batch, queue, leaked, old, faults>>

\* The lock is given back before the tasks are advanced.
Release(m) ==
  /\ pc[m] = "release"
  /\ held' = [held EXCEPT ![conn[m]] = @ - 1]
  /\ CheckIn(m, conn[m])
  /\ conn' = [conn EXCEPT ![m] = None]
  /\ pc' = [pc EXCEPT ![m] = "drive"]
  /\ UNCHANGED <<lent, batch, queue, leaked, old, faults>>

\* After a failed SELECT pg_advisory_unlock is refused by the aborted
\* transaction; that is logged, and the connection goes back to the pool with
\* its transaction rolled back and its session as it was.
ReleaseRefused(m) ==
  /\ pc[m] = "failed"
  /\ CheckIn(m, conn[m])
  /\ conn' = [conn EXCEPT ![m] = None]
  /\ leaked' = leaked \union {conn[m]}
  /\ pc' = [pc EXCEPT ![m] = "idle"]
  /\ UNCHANGED <<lent, held, batch, queue, old, faults>>

\* The row of a running task is written: it becomes the youngest, or is settled.
Write(t) ==
  /\ t \in ready /\ left[t] > 0
  /\ left' = [left EXCEPT ![t] = @ - 1]
  /\ ready' = ready \ {t}
  /\ \E i \in DOMAIN order :
       LET rest == RemoveAt(order, i) IN
       order[i] = t /\ order' = IF left[t] = 1 THEN rest ELSE Append(rest, t)

\* Mutant: a task whose advance raises ends the scan.
DriveStops(m) ==
  LET t == Head(batch[m]) IN
  /\ pc[m] = "drive" /\ batch[m] # << >>
  /\ \/ /\ t \notin ready \/ left[t] = 0
        /\ batch' = [batch EXCEPT ![m] = IF t \in Stuck THEN << >> ELSE Tail(@)]
        /\ UNCHANGED queue
     \/ Write(t) /\ batch' = [batch EXCEPT ![m] = Tail(@)]
  /\ UNCHANGED <<pc, conn, pool, held, leaked, old, faults>>

\* One task is advanced: its row stays as it is (the job is in flight, the
\* query failed, another writer was first, the routine raised), or the next
\* step is recorded, or, after the last one, the task is settled.
Drive(m) ==
  LET t == Head(batch[m]) IN
  /\ pc[m] = "drive" /\ batch[m] # << >>
  /\ batch' = [batch EXCEPT ![m] = Tail(@)]
  /\ \/ /\ t \notin ready \/ left[t] = 0
        /\ UNCHANGED queue
     \/ Write(t)
  /\ UNCHANGED <<pc, conn, pool, held, leaked, old, faults>>

Finish(m) ==
  /\ pc[m] = "drive" /\ batch[m] = << >>
  /\ pc' = [pc EXCEPT ![m] = "idle"]
  /\ UNCHANGED <<conn, pool, held, batch, queue, leaked, old, faults>>

\* Another thread of the process takes a connection: a request, another job, or
\* the scan itself when it advances a task.
Borrow(m) ==
  /\ pc[m] # "off" /\ Cardinality(lent[m]) < Lent
  /\ \E s \in Sessions : CheckOut(m, s) /\ lent' = [lent EXCEPT ![m] = @ \union {s}]
  /\ UNCHANGED <<pc, conn, batch, queue, faults>>

GiveBack(s) ==
  /\ s \in lent[s[1]]
  /\ lent' = [lent EXCEPT ![s[1]] = @ \ {s}]
  /\ CheckIn(s[1], s)
  /\ UNCHANGED <<pc, conn, held, batch, queue, leaked, old, faults>>

\* Time passes, and a session that leaks reaches the age of pool_recycle.
Age(s) ==
  /\ s \in leaked \ old
  /\ old' = old \union {s}
  /\ UNCHANGED <<pc, conn, pool, held, batch, queue, leaked, faults>>

\* A process ends: its sessions close and with them what they hold.
Stop(m) ==
  /\ pc[m] \notin {"off", "disabled"} /\ Fault
  /\ pc' = [pc EXCEPT ![m] = "off"]
  /\ conn' = [conn EXCEPT ![m] = None]
  /\ idle' = [idle EXCEPT ![m] = << >>]
  /\ lent' = [lent EXCEPT ![m] = {}]
  /\ held' = [s \in Sessions |-> IF s[1] = m THEN 0 ELSE held[s]]
  /\ batch' = [batch EXCEPT ![m] = << >>]
  /\ leaked' = {s \in leaked : s[1] # m}
  /\ old' = {s \in old : s[1] # m}
  /\ UNCHANGED queue

\* The upstream job of a task's current step ends.
JobEnds(t) ==
  /\ t \notin Stuck \union ready /\ left[t] > 0
  /\ ready' = ready \union {t}
  /\ UNCHANGED <<pc, conn, pool, held, batch, order, left, leaked, old, faults>>

-----------------------------------------------------------------------------
Scan(m) ==
  \/ Boot(m) \/ Tick(m) \/ TryLock(m) \/ ListTasks(m) \/ Release(m)
  \/ ReleaseRefused(m) \/ Drive(m) \/ Finish(m)

Next ==
  \/ \E m \in Machines : Scan(m) \/ ListFails(m) \/ Borrow(m) \/ Stop(m)
  \/ \E s \in Sessions : GiveBack(s) \/ Age(s)
  \/ \E t \in Tasks : JobEnds(t)

Spec == Init /\ [][Next]_vars

\* The scheduler fires on every machine and its jobs run; other threads give
\* back what they took; time passes; upstream jobs end.  Nothing makes other
\* threads take connections.
LiveSpec ==
  /\ Spec
  /\ \A m \in Machines : WF_vars(Scan(m))
  /\ \A s \in Sessions : WF_vars(GiveBack(s)) /\ WF_vars(Age(s))
  /\ \A t \in Tasks : WF_vars(JobEnds(t))

-----------------------------------------------------------------------------
(* Properties.                                                              *)

\* The values of the variables; a connection is in one place; a task is in the
\* queue until it is settled, and listed tasks are tasks.
TypeOK ==
  /\ pc \in [Machines -> {"off", "disabled", "idle", "drive"} \union Connected]
  /\ \A m \in Machines :
       LET free == ToSet(idle[m]) IN
       /\ IsInjective(idle[m]) /\ free \intersect lent[m] = {}
       /\ free \union lent[m] \subseteq {s \in Sessions : s[1] = m}
       /\ IF pc[m] \in Connected
          THEN conn[m] \in Sessions \ (free \union lent[m]) /\ conn[m][1] = m
          ELSE conn[m] = None
  /\ held \in [Sessions -> 0..(MaxFaults + 1)]
  /\ \A m \in Machines : Len(batch[m]) <= BatchSize /\ ToSet(batch[m]) \subseteq Tasks
  /\ IsInjective(order) /\ ToSet(order) = {t \in Tasks : left[t] > 0}
  /\ left \in [Tasks -> 0..Length]
  /\ ready \subseteq Tasks /\ leaked \subseteq Sessions /\ old \subseteq leaked
  /\ faults \in 0..MaxFaults

\* Two machines never list at the same time.
OneLister ==
  \A m, n \in Machines : pc[m] \in Listing /\ pc[n] \in Listing => m = n

\* Between ticks the lock is free (poller.py:84: the explicit release frees it so
\* the leader "doesn't monopolize"): a session has it only while its machine is
\* listing with it, unless the session was refused to give it back.
LockIsFreeBetweenTicks ==
  \A s \in Sessions : held[s] > 0 => (conn[s[1]] = s /\ pc[s[1]] \in Listing) \/ s \in leaked

\* The leader lock has one holder, and only for the time of its listing.
LockDiscipline == TypeOK /\ OneLister /\ LockIsFreeBetweenTicks

\* A session that leaks does not stay in the pool for ever: it is used again,
\* which is when its age is looked at, or its process ends.
LeaksAreDrawn == \A s \in Sessions : []<>(s \in leaked => s \notin ToSet(idle[s[1]]))

\* Every task that can be advanced is advanced to its end, also behind tasks
\* that cannot, and although a list fails and keeps the lock or a machine stops,
\* provided that the connection that kept the lock is used again.
EveryTaskIsDriven == LeaksAreDrawn => \A t \in Tasks \ Stuck : <>(left[t] = 0)
=============================================================================
