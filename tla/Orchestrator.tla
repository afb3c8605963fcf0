---------------------------- MODULE Orchestrator ----------------------------
(***************************************************************************)
(* The automatic advance of one master task: a machine that finds the      *)
(* task running asks the upstream service about the job of its current     *)
(* step and, when the job has ended, fails the task, completes it, or      *)
(* claims the next step, creates its job and records it.                   *)
(*                                                                         *)
(* A machine does all of this in one READ COMMITTED transaction, so the    *)
(* claim holds the row's lock while the next job is created, and both the  *)
(* claim and the job's id become visible when the routine ends.  A browser *)
(* runs the same routine (advance.py is a port of it) through PUT          *)
(* /narrator/tasks/<id>, where each write is a transaction of its own.     *)
(* Tasks share nothing here, hence one row.  Which tasks a machine looks   *)
(* at, and in which order, is left open: a machine may look at any time.   *)
(***************************************************************************)
EXTENDS Naturals, Sequences, FiniteSets, FiniteSetsExt

CONSTANTS
  Machines,      \* backend processes that run the scheduler
  Browsers,      \* web clients that drive the task themselves
  Options,       \* what the task's body says about the pipeline
  FirstStep,     \* the step the task is created with
  Placeholders,  \* steps whose records the client wrote in advance
  RunAuto,       \* the body's run_auto: "int" is 1, "string" is "1"
  Faults,        \* what may go wrong: "crash", "error", "timeout"
  ClientMoves,   \* what the owner may do: "pause", "resume", "manual", "retry"
  JobBound,      \* bound on the jobs created upstream
  None           \* an absent value

Steps == {"subtitle_extract", "subtitle_removal", "subsync", "popular_learning",
          "generate_writing", "fast_generate_writing",
          "generate_fast_writing_clip_data", "clip_data", "video_composing"}

ASSUME ActorsAssumption == Machines \intersect Browsers = {} /\ None \notin Machines \union Browsers
ASSUME OptionsAssumption ==
  Options \in [enable_subsync : BOOLEAN, original : BOOLEAN, use_existing_model : BOOLEAN]
ASSUME FirstStepAssumption ==
  FirstStep \in Steps /\ Placeholders \subseteq Steps \ {FirstStep}
ASSUME RunAutoAssumption == RunAuto \in {"int", "string"}
ASSUME JobBoundAssumption == JobBound \in Nat

Statuses == {"pending", "running", "paused", "completed", "failed"}
RecordStatuses == {"pending", "running", "completed", "failed"}
StepRecords == [status : RecordStatuses, job : Nat]

\* The bodies a task can have.  No write of one is None.
Bodies ==
  [status : Statuses, current_step : Steps \union {"completed"}, first : Steps,
   run_auto : {"int", "string", "off"}, steps : UNION {[S -> StepRecords] : S \in SUBSET Steps}]
ASSUME NoneAssumption ==
  None \notin [status : Statuses, current_step : Steps \union {"completed"}, body : Bodies]

VARIABLES
  row,       \* the committed narrator_tasks row
  lock,      \* the machine that holds the row's lock, or None
  pc,        \* actor -> what its advance routine does next
  doc,       \* actor -> the task as the routine has it in memory
  edit,      \* the owner's PUT under way, or None
  refunded,  \* the charge has been given back automatically
  jobs       \* the jobs created upstream: their step and state

vars == <<row, lock, pc, doc, edit, refunded, jobs>>

Actors == Machines \union Browsers
NoJob == 0
Terminal == {"completed", "failed"}

-----------------------------------------------------------------------------
(* The pipeline. *)

\* The step that writes the commentary.
WritingStep ==
  CASE Options.original -> "fast_generate_writing"
    [] ~Options.original /\ Options.use_existing_model -> "generate_writing"
    [] OTHER -> "popular_learning"

\* resolve_next_step: the successor of a step, None when the pipeline is done.
NextStep ==
  [s \in Steps |->
    CASE s = "subtitle_extract" -> "subtitle_removal"
      [] s = "subtitle_removal" -> IF Options.enable_subsync THEN "subsync" ELSE WritingStep
      [] s = "subsync" -> WritingStep
      [] s = "popular_learning" -> "generate_writing"
      [] s = "generate_writing" -> "clip_data"
      [] s = "fast_generate_writing" -> "generate_fast_writing_clip_data"
      [] s \in {"generate_fast_writing_clip_data", "clip_data"} -> "video_composing"
      [] s = "video_composing" -> None]

-----------------------------------------------------------------------------
(* The task's body.  The keys of `steps` are its DOMAIN; `first` is the key *)
(* an iteration over them yields first.  A body just read has its keys in   *)
(* the order JSONB keeps them, shorter names before longer ones; a key that *)
(* is added in memory comes last.                                           *)

JsonbOrder ==
  <<"subsync", "clip_data", "video_composing", "generate_writing",
    "popular_learning", "subtitle_extract", "subtitle_removal",
    "fast_generate_writing", "generate_fast_writing_clip_data">>
JsonbFirst(keys) == JsonbOrder[Min({i \in DOMAIN JsonbOrder : JsonbOrder[i] \in keys})]

Record(status, job) == [status |-> status, job |-> job]

\* The record of a step, or an empty one: `steps.get(step) or {}`.
StepRecord(d, s) == IF s \in DOMAIN d.steps THEN d.steps[s] ELSE Record("none", NoJob)

\* _patch_step
PatchStep(d, s, r) ==
  [d EXCEPT !.steps = [k \in DOMAIN @ \union {s} |-> IF k = s THEN r ELSE @[k]]]

\* The body as the next reader will find it.
Stored(d) == [d EXCEPT !.first = JsonbFirst(DOMAIN d.steps)]

\* "next_step already triggered"
Triggered(d, s) ==
  StepRecord(d, s).job # NoJob \/ StepRecord(d, s).status \in {"running", "completed"}

\* Mutant: the claim forgets expected_step.
CasHoldsAnyStep(step) == row.status \in {"running", "paused", "pending"}

\* Mutant: the claim is a plain write.
CasHoldsAlways(step) == TRUE

\* The compare-and-set of the claim; the lock must be free to evaluate it.
CasHolds(step) ==
  row.status \in {"running", "paused", "pending"} /\ row.current_step = step

\* detect_fail_fast_no_work, for bodies whose results are not yet output files.
FailedWithoutWork(d) ==
  /\ d.status = "failed"
  /\ d.current_step = d.first
  /\ d.steps[d.first] = Record("failed", NoJob)

-----------------------------------------------------------------------------
Init ==
  /\ row = LET keys == {FirstStep} \union Placeholders IN
           [status |-> "pending", current_step |-> FirstStep, run_auto |-> RunAuto,
            steps |-> [s \in keys |-> Record("pending", NoJob)],
            first |-> JsonbFirst(keys)]
  /\ lock = None
  /\ pc = [a \in Actors |-> "idle"]
  /\ doc = [a \in Actors |-> None]
  /\ edit = None
  /\ refunded = FALSE
  /\ jobs = << >>

Goto(a, label, d) ==
  /\ pc' = [pc EXCEPT ![a] = label]
  /\ doc' = [doc EXCEPT ![a] = d]

Leave(a) == Goto(a, "idle", None)

\* The scan finds the task: the columns say that it is running automatically.
List(a) ==
  /\ pc[a] = "idle"
  /\ row.status = "running" /\ row.run_auto \in {"int", "string"}
  /\ Goto(a, "read", None)
  /\ UNCHANGED <<row, lock, edit, refunded, jobs>>

\* The current step of d is completed: complete the task, follow a next step
\* that is already triggered, or claim it.
Resolve(a, d) ==
  LET next == NextStep[d.current_step] IN
  \/ /\ next = None
     /\ Goto(a, "persist", [d EXCEPT !.status = "completed", !.current_step = "completed"])
  \/ /\ next # None /\ Triggered(d, next)
     /\ Goto(a, "persist", [d EXCEPT !.current_step = next])
  \/ /\ next # None /\ ~Triggered(d, next)
     /\ Goto(a, "claim", d)

\* There is something to do for the body just read.
Advanceable(d) ==
  /\ d.status \notin Terminal
  /\ d.run_auto = "int"
  /\ d.current_step \in Steps
  /\ StepRecord(d, d.current_step).job # NoJob

\* The task is read again, without a lock.
Read(a) ==
  /\ pc[a] = "read"
  /\ \/ ~Advanceable(row) /\ Leave(a)
     \/ Advanceable(row) /\ LET r == row.steps[row.current_step] IN
          \/ r.status = "completed" /\ Resolve(a, row)
          \/ r.status # "completed" /\ Goto(a, "query", row)
  /\ UNCHANGED <<row, lock, edit, refunded, jobs>>

CurrentRecord(d) == d.steps[d.current_step]
JobState(d) == jobs[CurrentRecord(d).job].state

\* Mutant: a job still in flight counts as a success.
AnsweredEarly(a) ==
  LET d == doc[a]
      Ended(status) == PatchStep(d, d.current_step, Record(status, CurrentRecord(d).job))
  IN
  /\ pc[a] = "query"
  /\ \/ /\ JobState(d) = "failed"
        /\ Goto(a, "persist", [Ended("failed") EXCEPT !.status = "failed"])
     \/ JobState(d) # "failed" /\ Resolve(a, Ended("completed"))
  /\ UNCHANGED <<row, lock, edit, refunded, jobs>>

\* Mutant: every job that has ended counts as a success.
AnsweredLenient(a) ==
  LET d == doc[a]
      Ended(status) == PatchStep(d, d.current_step, Record(status, CurrentRecord(d).job))
  IN
  /\ pc[a] = "query"
  /\ \/ JobState(d) = "running" /\ Leave(a)
     \/ JobState(d) # "running" /\ Resolve(a, Ended("completed"))
  /\ UNCHANGED <<row, lock, edit, refunded, jobs>>

\* The upstream service says how the job of the current step stands.
Answered(a) ==
  LET d == doc[a]
      Ended(status) == PatchStep(d, d.current_step, Record(status, CurrentRecord(d).job))
  IN
  /\ pc[a] = "query"
  /\ \/ JobState(d) = "running" /\ Leave(a)
     \/ /\ JobState(d) = "failed"
        /\ Goto(a, "persist", [Ended("failed") EXCEPT !.status = "failed"])
     \/ JobState(d) = "succeeded" /\ Resolve(a, Ended("completed"))
  /\ UNCHANGED <<row, lock, edit, refunded, jobs>>

\* The query fails, or its answer has no status that is known.
QueryFails(a) ==
  /\ "error" \in Faults
  /\ pc[a] = "query"
  /\ Leave(a)
  /\ UNCHANGED <<row, lock, edit, refunded, jobs>>

\* The claim of the next step.  A machine keeps the row locked and its write
\* unseen; a browser's PUT commits at once.
Claim(a) ==
  LET step == doc[a].current_step
      next == NextStep[step]
      advancing == [PatchStep(doc[a], next, Record("running", NoJob)) EXCEPT !.current_step = next]
  IN
  /\ pc[a] = "claim"
  /\ lock = None
  /\ \/ /\ ~CasHolds(step)
        /\ Leave(a)
        /\ UNCHANGED <<row, lock>>
     \/ /\ CasHolds(step)
        /\ Goto(a, "trigger", advancing)
        /\ \/ a \in Machines /\ lock' = a /\ UNCHANGED row
           \/ a \in Browsers /\ row' = Stored(advancing) /\ UNCHANGED lock
  /\ UNCHANGED <<edit, refunded, jobs>>

\* _build_body: no step but subsync is refused whatever the body holds; the
\* others may be, for a field they miss.
Untriggerable == {"subsync"}

Create(s) ==
  /\ Len(jobs) < JobBound
  /\ jobs' = Append(jobs, [step |-> s, state |-> "running"])

\* Mutant: the id of the new job is not put into the body.
TriggerForgets(a) ==
  /\ pc[a] = "trigger"
  /\ doc[a].current_step \notin Untriggerable
  /\ Create(doc[a].current_step)
  /\ Goto(a, "persist", doc[a])
  /\ UNCHANGED <<row, lock, edit, refunded>>

\* The next step is triggered or refused, before its job is created or by the
\* upstream service; a time-out may leave a job behind.
Trigger(a) ==
  LET d == doc[a]
      step == d.current_step
      failed == [PatchStep(d, step, Record("failed", CurrentRecord(d).job))
                 EXCEPT !.status = "failed"]
  IN
  /\ pc[a] = "trigger"
  /\ \/ /\ step \notin Untriggerable
        /\ Create(step)
        /\ Goto(a, "persist", PatchStep(d, step, Record("running", Len(jobs) + 1)))
     \/ Goto(a, "persist", failed) /\ UNCHANGED jobs
     \/ /\ "timeout" \in Faults /\ step \notin Untriggerable
        /\ Create(step)
        /\ Goto(a, "persist", failed)
  /\ UNCHANGED <<row, lock, edit, refunded>>

\* Mutant: the transaction is left open.
PersistLeaky(a) ==
  /\ pc[a] = "persist"
  /\ lock \in {None, a}
  /\ row' = Stored(doc[a])
  /\ refunded' = (refunded \/ FailedWithoutWork(doc[a]))
  /\ Leave(a)
  /\ UNCHANGED <<lock, edit, jobs>>

\* _persist_with_retries, and the commit: whatever the row holds is replaced.
Persist(a) ==
  /\ pc[a] = "persist"
  /\ lock \in {None, a}
  /\ row' = Stored(doc[a])
  /\ refunded' = (refunded \/ FailedWithoutWork(doc[a]))
  /\ lock' = None
  /\ Leave(a)
  /\ UNCHANGED <<edit, jobs>>

\* A process ends, or the routine raises: its transaction is rolled back.
Crash(a) ==
  /\ "crash" \in Faults
  /\ pc[a] # "idle"
  /\ Leave(a)
  /\ lock' = IF lock = a THEN None ELSE lock
  /\ UNCHANGED <<row, edit, refunded, jobs>>

-----------------------------------------------------------------------------
(* The task's owner and the upstream service.                               *)

\* A PUT of the body last read, changed, on condition that status and step
\* are still those read.
Submit(body) ==
  edit' = [status |-> row.status, current_step |-> row.current_step, body |-> body]

\* The owner starts the task: the job of its first step is accepted or not.
Start ==
  LET step == row.current_step IN
  /\ edit = None
  /\ row.status = "pending"
  /\ \/ /\ Create(step)
        /\ Submit([PatchStep(row, step, Record("running", Len(jobs) + 1))
                   EXCEPT !.status = "running"])
     \/ /\ Submit([PatchStep(row, step, Record("failed", NoJob)) EXCEPT !.status = "failed"])
        /\ UNCHANGED jobs
  /\ UNCHANGED <<row, lock, pc, doc, refunded>>

\* The owner pauses a task, resumes it, or takes over from the orchestrator.
Change ==
  /\ edit = None
  /\ \/ /\ "pause" \in ClientMoves /\ row.status = "running"
        /\ Submit([row EXCEPT !.status = "paused"])
     \/ /\ "resume" \in ClientMoves /\ row.status = "paused"
        /\ Submit([row EXCEPT !.status = "running"])
     \/ /\ "manual" \in ClientMoves /\ row.status = "running" /\ row.run_auto # "off"
        /\ Submit([row EXCEPT !.run_auto = "off"])
  /\ UNCHANGED <<row, lock, pc, doc, refunded, jobs>>

\* The owner sends a failed task back: to the step whose job failed, with a new
\* job, or to a completed step before the one that failed.
Retry ==
  LET step == row.current_step
      before == {s \in DOMAIN row.steps : NextStep[s] = step /\ row.steps[s].status = "completed"}
  IN
  /\ "retry" \in ClientMoves
  /\ edit = None
  /\ row.status = "failed"
  /\ \/ /\ CurrentRecord(row).job # NoJob
        /\ Create(step)
        /\ Submit([PatchStep(row, step, Record("running", Len(jobs) + 1))
                   EXCEPT !.status = "running"])
     \/ /\ \E s \in before : Submit([row EXCEPT !.status = "running", !.current_step = s])
        /\ UNCHANGED jobs
  /\ UNCHANGED <<row, lock, pc, doc, refunded>>

\* Mutant: the PUT drops expected_status and expected_step.
PutBlind ==
  /\ edit # None
  /\ lock = None
  /\ row' = Stored(edit.body)
  /\ refunded' = (refunded \/ FailedWithoutWork(edit.body))
  /\ edit' = None
  /\ UNCHANGED <<lock, pc, doc, jobs>>

\* PUT /narrator/tasks/<id> with expected_status and expected_step.
Put ==
  /\ edit # None
  /\ lock = None
  /\ \/ /\ row.status = edit.status /\ row.current_step = edit.current_step
        /\ row' = Stored(edit.body)
        /\ refunded' = (refunded \/ FailedWithoutWork(edit.body))
     \/ /\ ~(row.status = edit.status /\ row.current_step = edit.current_step)
        /\ UNCHANGED <<row, refunded>>
  /\ edit' = None
  /\ UNCHANGED <<lock, pc, doc, jobs>>

\* A job ends.
JobEnds(i) ==
  /\ jobs[i].state = "running"
  /\ \E state \in {"succeeded", "failed"} : jobs' = [jobs EXCEPT ![i].state = state]
  /\ UNCHANGED <<row, lock, pc, doc, edit, refunded>>

-----------------------------------------------------------------------------
Advance(a) ==
  List(a) \/ Read(a) \/ Answered(a) \/ QueryFails(a) \/ Claim(a) \/ Trigger(a) \/ Persist(a)

Owner == Start \/ Change \/ Retry \/ Put

Next ==
  \/ \E a \in Actors : Advance(a) \/ Crash(a)
  \/ Owner
  \/ \E i \in DOMAIN jobs : JobEnds(i)

Spec == Init /\ [][Next]_vars

\* The scheduler keeps ticking, the owner goes through with a start, the
\* upstream service ends its jobs and does not fail every query.
Fairness ==
  /\ \A a \in Actors : WF_vars(Advance(a)) /\ SF_vars(Answered(a))
  /\ WF_vars(Start) /\ WF_vars(Put)
  /\ \A i \in 1..JobBound : WF_vars(i \in DOMAIN jobs /\ JobEnds(i))

LiveSpec == Spec /\ Fairness

-----------------------------------------------------------------------------
(* Properties.                                                              *)

IsDoc(d) ==
  /\ DOMAIN d = {"status", "current_step", "run_auto", "steps", "first"}
  /\ d.status \in Statuses
  /\ d.current_step \in Steps \union {"completed"}
  /\ d.run_auto \in {"int", "string", "off"}
  /\ DOMAIN d.steps \subseteq Steps /\ FirstStep \in DOMAIN d.steps
  /\ \A s \in DOMAIN d.steps :
       /\ d.steps[s].status \in RecordStatuses
       /\ d.steps[s].job \in {NoJob} \union DOMAIN jobs
       /\ d.steps[s].job # NoJob => jobs[d.steps[s].job].step = s
  /\ d.first \in DOMAIN d.steps
  /\ d.current_step \in Steps => d.current_step \in DOMAIN d.steps

\* The values of the variables: every body points to jobs of its own steps,
\* and the lock is held exactly between a machine's claim and its commit.
TypeOK ==
  /\ IsDoc(row) /\ row.first = JsonbFirst(DOMAIN row.steps)
  /\ lock \in Machines \union {None}
  /\ \A a \in Actors :
       /\ pc[a] \in {"idle", "read", "query", "claim", "trigger", "persist"}
       /\ IF pc[a] \in {"idle", "read"} THEN doc[a] = None ELSE IsDoc(doc[a])
       /\ a \in Machines /\ pc[a] = "trigger" => lock = a
       /\ lock = a => pc[a] \in {"trigger", "persist"}
  /\ edit # None => IsDoc(edit.body)
  /\ refunded \in BOOLEAN
  /\ jobs \in Seq([step : Steps, state : {"running", "succeeded", "failed"}])

\* No step's job is created twice, however many machines and browsers work on
\* the task (poller.py: the compare-and-set is the safety floor).
TriggeredOnce ==
  \A i, j \in DOMAIN jobs : jobs[i].step = jobs[j].step => i = j

Knows(d, i) == StepRecord(d, jobs[i].step).job = i

\* A job that has been created is in the row, or about to be written to it:
\* a write never drops the job another actor has recorded.
NoJobIsLost ==
  \A i \in DOMAIN jobs :
    \/ Knows(row, i)
    \/ \E a \in Actors : pc[a] = "persist" /\ Knows(doc[a], i)
    \/ edit # None /\ Knows(edit.body, i)

\* Rows, documents at hand and the leader lock fit together, and know every job.
JobsAreKnown == TypeOK /\ NoJobIsLost

\* A step is triggered only when a job of the step before it has succeeded.
StepsInOrder ==
  \A i \in DOMAIN jobs :
    \/ jobs[i].step = FirstStep
    \/ \E k \in 1..(i - 1) : jobs[k].state = "succeeded" /\ NextStep[jobs[k].step] = jobs[i].step

\* A completed task records a job of the step that ends its pipeline, and that
\* job has succeeded.
CompletedMeansDone ==
  row.status = "completed" =>
    \E i \in DOMAIN jobs :
      Knows(row, i) /\ NextStep[jobs[i].step] = None /\ jobs[i].state = "succeeded"

\* Whoever writes, the task only moves on: once it is completed or failed, a
\* machine still at work on what it read before does not bring it back, and the
\* pointer never goes back to an earlier step of the pipeline.
OnlyForward ==
  [][/\ row.status \in Terminal => row'.status = row.status
     /\ row'.current_step # row.current_step =>
          /\ row.current_step \in Steps
          /\ row'.current_step =
               IF NextStep[row.current_step] = None THEN "completed"
               ELSE NextStep[row.current_step]]_vars

\* The automatic refund is for tasks no job was ever created for
\* (auto_refund.py: "hard evidence that no upstream task was ever created").
RefundMeansNoWork == refunded => jobs = << >>

\* A failure is recorded only over the job that failed: a verdict about an old
\* job does not replace a step that has been given a new one.
VerdictFitsRow ==
  [][\A a \in Actors :
       pc[a] = "persist" /\ Persist(a) /\ doc[a].status = "failed" /\ lock # a =>
         Knows(row, CurrentRecord(doc[a]).job)]_vars

\* A task that runs automatically is settled.
Settles == row.status = "running" ~> row.status \in Terminal
=============================================================================
