-------------------------- MODULE OrchestratorProofs --------------------------
(***************************************************************************)
(* The routine that advances a task, for any number of machines and        *)
(* browsers and any pipeline.                                              *)
(*                                                                         *)
(* PipelineInOrder and CompletedIsDone hold with every fault and every     *)
(* move of the owner the model knows: a step is triggered only when a job  *)
(* of the step before it has succeeded, and a completed task points to the *)
(* job that ended it.  Nothing in the routine checks this where the job is *)
(* created.  It holds because every body in use - the row, what a machine  *)
(* or a browser has in memory, what the owner is about to write - points   *)
(* to jobs of its own steps and calls a step completed only when its job   *)
(* has succeeded, and because a body that was read stays right about that  *)
(* while others write.  BodiesFit adds the form of the bodies.             *)
(*                                                                         *)
(* The other theorems need a restriction, which is named where it is used. *)
(* StepsTriggeredOnce, TaskMovesOn and NoJobDropped are about several      *)
(* actors whose last write asks nothing of the row, where no routine is    *)
(* cut short and the owner does not send the task back; VerdictIsAboutRow  *)
(* is about one machine, with every fault and every move of the owner.     *)
(***************************************************************************)
EXTENDS Orchestrator, TLAPS

Fields == {"status", "current_step", "run_auto", "steps", "first"}
JobRecords == [step : Steps, state : {"running", "succeeded", "failed"}]

\* A record of step s fits the jobs js created so far.
Fits(r, s, js) ==
  /\ r.job \in {NoJob} \union DOMAIN js
  /\ r.job # NoJob => js[r.job].step = s
  /\ r.job # NoJob /\ r.status = "completed" => js[r.job].state = "succeeded"

\* The job of a step that ends the pipeline has succeeded.
Finished(d, js) ==
  \E s \in DOMAIN d.steps :
    /\ NextStep[s] = None
    /\ d.steps[s].job # NoJob /\ js[d.steps[s].job].state = "succeeded"

\* A body whose records fit, and its status with them.
Sound(d, js) ==
  /\ DOMAIN d = Fields
  /\ DOMAIN d.steps \subseteq Steps
  /\ \A s \in DOMAIN d.steps : Fits(d.steps[s], s, js)
  /\ d.status # "completed" => d.current_step \in DOMAIN d.steps
  /\ d.status = "completed" => Finished(d, js)

\* The job of the body's current step.
CurrentJob(d) == d.steps[d.current_step].job

\* Step s may be triggered.
InOrder(s, js) ==
  \/ s = FirstStep
  \/ \E k \in DOMAIN js : js[k].state = "succeeded" /\ NextStep[js[k].step] = s

\* What an actor that is at label l holds in memory.
Holds(l, d, js) ==
  /\ l \in {"query", "claim", "trigger", "persist"} =>
       Sound(d, js) /\ d.status # "pending"
  /\ l \in {"query", "claim"} =>
       d.status # "completed" /\ CurrentJob(d) # NoJob
  /\ l = "claim" =>
       js[CurrentJob(d)].state = "succeeded" /\ NextStep[d.current_step] # None
  /\ l = "trigger" =>
       d.status # "completed" /\ InOrder(d.current_step, js)

JobsTyped == jobs \in Seq(JobRecords)
ActorsTyped == DOMAIN pc = Actors /\ DOMAIN doc = Actors
ActorsHold == \A a \in Actors : Holds(pc[a], doc[a], jobs)
EditHolds == edit # None => Sound(edit.body, jobs) /\ edit.body.status # "pending"
RowHolds ==
  /\ Sound(row, jobs)
  /\ row.status = "pending" => row.current_step = FirstStep
  /\ row.status = "pending" => \A a \in Actors : pc[a] = "idle"

OrderInv ==
  JobsTyped /\ ActorsTyped /\ ActorsHold /\ EditHolds /\ RowHolds /\ StepsInOrder

\* A completed row has the job that CompletedMeansDone asks for.
LEMMA CompletedFollows == OrderInv => CompletedMeansDone
<1>. SUFFICES ASSUME OrderInv, row.status = "completed"
              PROVE  \E i \in DOMAIN jobs : /\ Knows(row, i) /\ NextStep[jobs[i].step] = None
                                             /\ jobs[i].state = "succeeded"
  BY DEF CompletedMeansDone
<1>1. PICK s \in DOMAIN row.steps :
        /\ NextStep[s] = None
        /\ row.steps[s].job # NoJob /\ jobs[row.steps[s].job].state = "succeeded"
  BY DEF OrderInv, RowHolds, Sound, Finished
<1>2. row.steps[s].job \in DOMAIN jobs /\ jobs[row.steps[s].job].step = s
  BY <1>1 DEF OrderInv, RowHolds, Sound, Fits
<1>. QED
  BY <1>1, <1>2 DEF Knows, StepRecord

-----------------------------------------------------------------------------
(* Bodies. *)

\* The successor of a step is a step, unless the pipeline ends.
LEMMA NextIsStep == \A s \in Steps : NextStep[s] # None => NextStep[s] \in Steps
<1>1. WritingStep \in Steps
  BY DEF WritingStep, Steps
<1>. QED
  BY <1>1 DEF NextStep, Steps

\* _patch_step touches one record and nothing else.
LEMMA Patched ==
  ASSUME NEW d, DOMAIN d = Fields, NEW s, NEW r
  PROVE  /\ DOMAIN PatchStep(d, s, r) = Fields
         /\ PatchStep(d, s, r).status = d.status
         /\ PatchStep(d, s, r).current_step = d.current_step
         /\ DOMAIN PatchStep(d, s, r).steps = DOMAIN d.steps \union {s}
         /\ \A k \in DOMAIN d.steps \union {s} :
              PatchStep(d, s, r).steps[k] = IF k = s THEN r ELSE d.steps[k]
BY DEF PatchStep, Fields

\* A record that fits may be put into a sound body.
LEMMA PatchedSound ==
  ASSUME NEW js, NEW d, Sound(d, js), d.status # "completed",
         NEW s \in Steps, NEW r, Fits(r, s, js)
  PROVE  Sound(PatchStep(d, s, r), js)
BY Patched DEF Sound

\* Other fields may change, as long as the current step has a record.
LEMMA SameSteps ==
  ASSUME NEW js, NEW d, Sound(d, js), NEW e, DOMAIN e = Fields, e.steps = d.steps,
         e.status # "completed" => e.current_step \in DOMAIN d.steps,
         e.status = "completed" => Finished(d, js)
  PROVE  Sound(e, js)
BY DEF Sound, Finished

\* The body as the next reader finds it differs in the order of its keys only.
LEMMA StoredSound ==
  ASSUME NEW js, NEW d, Sound(d, js)
  PROVE  /\ Sound(Stored(d), js)
         /\ Stored(d).status = d.status
         /\ Stored(d).current_step = d.current_step
<1>1. /\ DOMAIN Stored(d) = Fields
      /\ Stored(d).steps = d.steps
      /\ Stored(d).status = d.status
      /\ Stored(d).current_step = d.current_step
  BY DEF Stored, Sound, Fields
<1>. QED
  BY <1>1, SameSteps DEF Sound

-----------------------------------------------------------------------------
(* Jobs. *)

\* Jobs are added and end; they never change their step, and success stays.
Grown(js, ks) ==
  /\ DOMAIN js \subseteq DOMAIN ks
  /\ \A i \in DOMAIN js : ks[i].step = js[i].step
  /\ \A i \in DOMAIN js : js[i].state = "succeeded" => ks[i].state = "succeeded"

\* What was sound stays so while jobs are created and end.
LEMMA GrownSound ==
  ASSUME NEW js, NEW ks, Grown(js, ks), NEW d, Sound(d, js)
  PROVE  Sound(d, ks)
BY DEF Sound, Fits, Finished, Grown

\* And so does what an actor holds in memory.
LEMMA GrownHolds ==
  ASSUME NEW js, NEW ks, Grown(js, ks), NEW l, NEW d, Holds(l, d, js)
  PROVE  Holds(l, d, ks)
<1>1. ASSUME Sound(d, js) PROVE Sound(d, ks)
  BY <1>1, GrownSound
<1>2. ASSUME InOrder(d.current_step, js) PROVE InOrder(d.current_step, ks)
  BY <1>2 DEF InOrder, Grown
<1>3. ASSUME l = "claim" PROVE CurrentJob(d) \in DOMAIN js
  BY <1>3 DEF Holds, Sound, Fits, CurrentJob
<1>. QED
  BY <1>1, <1>2, <1>3 DEF Holds, Grown

\* A job created for a step whose turn it is.
LEMMA CreatedInOrder ==
  ASSUME JobsTyped, StepsInOrder, NEW s \in Steps, InOrder(s, jobs), Create(s)
  PROVE  /\ JobsTyped' /\ StepsInOrder' /\ Grown(jobs, jobs')
         /\ Len(jobs) + 1 \in DOMAIN jobs' /\ jobs'[Len(jobs) + 1].step = s
         /\ Len(jobs) + 1 # NoJob
<1>1. [step |-> s, state |-> "running"] \in JobRecords
  BY DEF JobRecords
<1>2. jobs \in Seq(JobRecords) /\ jobs' = Append(jobs, [step |-> s, state |-> "running"])
  BY DEF JobsTyped, Create
<1>3. /\ JobsTyped' /\ Len(jobs) \in Nat
      /\ DOMAIN jobs = 1 .. Len(jobs) /\ DOMAIN jobs' = 1 .. (Len(jobs) + 1)
      /\ \A i \in DOMAIN jobs : jobs'[i] = jobs[i]
      /\ jobs'[Len(jobs) + 1] = [step |-> s, state |-> "running"]
  BY <1>1, <1>2 DEF JobsTyped
<1>4. Grown(jobs, jobs')
  BY <1>3 DEF Grown
<1>5. StepsInOrder'
  <2>. SUFFICES ASSUME NEW i \in DOMAIN jobs', jobs'[i].step # FirstStep
                PROVE  \E k \in 1..(i - 1) : /\ jobs'[k].state = "succeeded"
                                             /\ NextStep[jobs'[k].step] = jobs'[i].step
    BY DEF StepsInOrder
  <2>1. CASE i \in DOMAIN jobs
    BY <1>3, <2>1 DEF StepsInOrder
  <2>2. CASE i = Len(jobs) + 1
    BY <1>3, <2>2 DEF InOrder
  <2>. QED
    BY <1>3, <2>1, <2>2
<1>. QED
  BY <1>3, <1>4, <1>5 DEF NoJob

-----------------------------------------------------------------------------
(* Steps of an actor. *)

\* An actor goes on with what it may hold there; the others are not disturbed.
LEMMA ActorGoesOn ==
  ASSUME OrderInv, Grown(jobs, jobs'), NEW a \in Actors, NEW l, NEW d,
         Goto(a, l, d), Holds(l, d, jobs')
  PROVE  ActorsTyped' /\ ActorsHold'
<1>1. ActorsTyped'
  BY DEF Goto, OrderInv, ActorsTyped
<1>2. ASSUME NEW b \in Actors PROVE Holds(pc'[b], doc'[b], jobs')
  <2>1. CASE b = a
    BY <2>1 DEF Goto, OrderInv, ActorsTyped
  <2>2. CASE b # a
    <3>1. pc'[b] = pc[b] /\ doc'[b] = doc[b]
      BY <2>2 DEF Goto, OrderInv, ActorsTyped
    <3>2. Holds(pc[b], doc[b], jobs)
      BY DEF OrderInv, ActorsHold
    <3>. QED
      BY <3>1, <3>2, GrownHolds
  <2>. QED
    BY <2>1, <2>2
<1>. QED
  BY <1>1, <1>2 DEF ActorsHold

\* Nobody is at work on a task that has not been started.
LEMMA AtWorkMeansStarted ==
  ASSUME OrderInv, NEW a \in Actors, pc[a] # "idle"
  PROVE  row.status # "pending"
BY DEF OrderInv, RowHolds

\* Where no job changes nothing about jobs does.
LEMMA NothingCreated ==
  ASSUME OrderInv, UNCHANGED jobs
  PROVE  Grown(jobs, jobs') /\ JobsTyped' /\ StepsInOrder'
BY DEF Grown, OrderInv, JobsTyped, StepsInOrder

\* An actor that leaves the row alone, and starts only on a started task.
LEMMA RowLeftAlone ==
  ASSUME OrderInv, Grown(jobs, jobs'), row.status # "pending", UNCHANGED <<row, edit>>
  PROVE  RowHolds' /\ EditHolds'
BY GrownSound DEF OrderInv, RowHolds, EditHolds

\* An actor that leaves forgets what it had in memory.
LEMMA LeaveKeeps ==
  ASSUME OrderInv, NEW a \in Actors, Leave(a), UNCHANGED <<row, edit, jobs>>
  PROVE  OrderInv'
<1>1. Grown(jobs, jobs') /\ JobsTyped' /\ StepsInOrder'
  BY NothingCreated DEF OrderInv
<1>2. Holds("idle", None, jobs')
  BY DEF Holds
<1>3. ActorsTyped' /\ ActorsHold'
  BY <1>1, <1>2, ActorGoesOn DEF Leave
<1>4. RowHolds' /\ EditHolds'
  BY GrownSound, <1>1 DEF Leave, Goto, OrderInv, RowHolds, EditHolds, ActorsTyped
<1>. QED
  BY <1>1, <1>3, <1>4 DEF OrderInv

\* An actor that changes nothing but what it has in memory.
LEMMA ThinkingKeeps ==
  ASSUME OrderInv, NEW a \in Actors, row.status # "pending", NEW l, NEW d,
         Goto(a, l, d), Holds(l, d, jobs), UNCHANGED <<row, edit, jobs>>
  PROVE  OrderInv'
<1>1. Grown(jobs, jobs') /\ JobsTyped' /\ StepsInOrder'
  BY NothingCreated DEF OrderInv
<1>2. ActorsTyped' /\ ActorsHold'
  BY <1>1, ActorGoesOn
<1>3. RowHolds' /\ EditHolds'
  BY <1>1, RowLeftAlone
<1>. QED
  BY <1>1, <1>2, <1>3 DEF OrderInv

\* A body whose current job has succeeded and whose record says so leads to a
\* completed task, to a step that is already triggered, or to a claim.
LEMMA ResolveKeeps ==
  ASSUME OrderInv, NEW a \in Actors, row.status # "pending", NEW d, Resolve(a, d),
         Sound(d, jobs), d.status \notin {"pending", "completed"},
         CurrentJob(d) # NoJob, jobs[CurrentJob(d)].state = "succeeded",
         UNCHANGED <<row, edit, jobs>>
  PROVE  OrderInv'
<1>. DEFINE next == NextStep[d.current_step]
<1>1. DOMAIN d = Fields
  BY DEF Sound
<1>2. CASE next = None /\ Goto(a, "persist", [d EXCEPT !.status = "completed", !.current_step = "completed"])
  <2>. DEFINE e == [d EXCEPT !.status = "completed", !.current_step = "completed"]
  <2>1. DOMAIN e = Fields /\ e.steps = d.steps /\ e.status = "completed"
    BY <1>1 DEF Fields
  <2>2. d.current_step \in DOMAIN d.steps
    BY DEF Sound
  <2>3. Finished(d, jobs)
    BY <1>2, <2>2 DEF Finished, CurrentJob
  <2>4. Sound(e, jobs)
    BY <2>1, <2>3, SameSteps
  <2>5. Holds("persist", e, jobs)
    BY <2>1, <2>4 DEF Holds
  <2>. QED
    BY <1>2, <2>5, ThinkingKeeps
<1>3. CASE next # None /\ Triggered(d, next) /\ Goto(a, "persist", [d EXCEPT !.current_step = next])
  <2>. DEFINE e == [d EXCEPT !.current_step = next]
  <2>1. DOMAIN e = Fields /\ e.steps = d.steps /\ e.status = d.status /\ e.current_step = next
    BY <1>1 DEF Fields
  <2>2. next \in DOMAIN d.steps
    BY <1>3 DEF Triggered, StepRecord, Record, NoJob
  <2>3. Sound(e, jobs)
    BY <2>1, <2>2, SameSteps
  <2>4. Holds("persist", e, jobs)
    BY <2>1, <2>3 DEF Holds
  <2>. QED
    BY <1>3, <2>4, ThinkingKeeps
<1>4. CASE next # None /\ Goto(a, "claim", d)
  <2>1. Holds("claim", d, jobs)
    BY <1>4 DEF Holds
  <2>. QED
    BY <1>4, <2>1, ThinkingKeeps
<1>. QED
  BY <1>2, <1>3, <1>4 DEF Resolve

\* The body just read is the row.
LEMMA ReadKeeps ==
  ASSUME OrderInv, NEW a \in Actors, Read(a)
  PROVE  OrderInv'
<1>1. UNCHANGED <<row, edit, jobs>> /\ row.status # "pending"
  BY AtWorkMeansStarted DEF Read
<1>2. CASE Leave(a)
  BY <1>1, <1>2, LeaveKeeps
<1>3. ASSUME Advanceable(row)
      PROVE  /\ Sound(row, jobs) /\ row.status \notin {"pending", "completed"}
             /\ CurrentJob(row) # NoJob
             /\ row.current_step \in DOMAIN row.steps
  BY <1>1, <1>3 DEF Advanceable, StepRecord, CurrentJob, Terminal, OrderInv, RowHolds, Sound
<1>4. CASE Advanceable(row) /\ row.steps[row.current_step].status = "completed" /\ Resolve(a, row)
  <2>1. jobs[CurrentJob(row)].state = "succeeded"
    BY <1>3, <1>4 DEF Sound, Fits, CurrentJob
  <2>. QED
    BY <1>1, <1>3, <1>4, <2>1, ResolveKeeps
<1>5. CASE Advanceable(row) /\ Goto(a, "query", row)
  <2>1. Holds("query", row, jobs)
    BY <1>3, <1>5 DEF Holds
  <2>. QED
    BY <1>1, <1>5, <2>1, ThinkingKeeps
<1>. QED
  BY <1>2, <1>4, <1>5 DEF Read

\* A verdict is put into the record of the step it is about.
LEMMA AnsweredKeeps ==
  ASSUME OrderInv, NEW a \in Actors, Answered(a)
  PROVE  OrderInv'
<1>. DEFINE d == doc[a]
            step == d.current_step
            Ended(status) == PatchStep(d, step, Record(status, CurrentRecord(d).job))
<1>1. UNCHANGED <<row, edit, jobs>> /\ row.status # "pending"
  BY AtWorkMeansStarted DEF Answered
<1>2. /\ Sound(d, jobs) /\ d.status \notin {"pending", "completed"}
      /\ CurrentJob(d) # NoJob /\ step \in DOMAIN d.steps /\ step \in Steps
  BY DEF Answered, OrderInv, ActorsHold, Holds, Sound
<1>3. /\ CurrentJob(d) = CurrentRecord(d).job
      /\ CurrentJob(d) \in DOMAIN jobs /\ jobs[CurrentJob(d)].step = step
      /\ JobState(d) = jobs[CurrentJob(d)].state
  BY <1>2 DEF Sound, Fits, CurrentJob, CurrentRecord, JobState
<1>4. ASSUME NEW status, status = "completed" => JobState(d) = "succeeded"
      PROVE  /\ Sound(Ended(status), jobs) /\ DOMAIN Ended(status) = Fields
             /\ Ended(status).status = d.status
             /\ Ended(status).current_step = step
             /\ step \in DOMAIN Ended(status).steps
             /\ CurrentJob(Ended(status)) = CurrentJob(d)
  <2>1. Fits(Record(status, CurrentRecord(d).job), step, jobs)
    BY <1>3, <1>4 DEF Fits, Record
  <2>2. Sound(Ended(status), jobs)
    BY <1>2, <2>1, PatchedSound
  <2>3. /\ DOMAIN Ended(status) = Fields
        /\ Ended(status).status = d.status
        /\ Ended(status).current_step = step
        /\ DOMAIN Ended(status).steps = DOMAIN d.steps \union {step}
        /\ Ended(status).steps[step] = Record(status, CurrentRecord(d).job)
    BY <1>2, Patched DEF Sound
  <2>. QED
    BY <1>3, <2>2, <2>3 DEF CurrentJob, Record
<1>5. CASE Leave(a)
  BY <1>1, <1>5, LeaveKeeps
<1>6. CASE Goto(a, "persist", [Ended("failed") EXCEPT !.status = "failed"])
  <2>. DEFINE f == Ended("failed")
              e == [f EXCEPT !.status = "failed"]
  <2>1. Sound(f, jobs) /\ DOMAIN f = Fields /\ f.current_step \in DOMAIN f.steps
    BY <1>4
  <2>. HIDE DEF f
  <2>2. DOMAIN e = Fields /\ e.steps = f.steps /\ e.status = "failed" /\ e.current_step = f.current_step
    BY <2>1 DEF Fields
  <2>3. Holds("persist", e, jobs)
    BY <2>1, <2>2, SameSteps DEF Holds
  <2>. QED
    BY <1>1, <1>6, <2>3, ThinkingKeeps DEF f
<1>7. CASE JobState(d) = "succeeded" /\ Resolve(a, Ended("completed"))
  <2>. DEFINE f == Ended("completed")
  <2>1. /\ Sound(f, jobs) /\ f.status \notin {"pending", "completed"}
        /\ CurrentJob(f) # NoJob /\ jobs[CurrentJob(f)].state = "succeeded"
    BY <1>2, <1>3, <1>4, <1>7
  <2>2. Resolve(a, f)
    BY <1>7
  <2>. HIDE DEF f
  <2>. QED
    BY <1>1, <2>1, <2>2, ResolveKeeps
<1>. QED
  BY <1>5, <1>6, <1>7 DEF Answered

\* A claim puts the next step into the body; its turn has come, because the
\* job of the step before it has succeeded.
LEMMA ClaimKeeps ==
  ASSUME OrderInv, NEW a \in Actors, Claim(a)
  PROVE  OrderInv'
<1>. DEFINE d == doc[a]
            step == d.current_step
            next == NextStep[step]
            p == PatchStep(d, next, Record("running", NoJob))
            e == [p EXCEPT !.current_step = next]
<1>1. UNCHANGED <<edit, jobs>> /\ row.status # "pending"
  BY AtWorkMeansStarted DEF Claim
<1>2. /\ Sound(d, jobs) /\ d.status \notin {"pending", "completed"}
      /\ CurrentJob(d) # NoJob /\ jobs[CurrentJob(d)].state = "succeeded"
      /\ next # None /\ step \in DOMAIN d.steps /\ step \in Steps
  BY DEF Claim, OrderInv, ActorsHold, Holds, Sound
<1>3. CurrentJob(d) \in DOMAIN jobs /\ jobs[CurrentJob(d)].step = step
  BY <1>2 DEF Sound, Fits, CurrentJob
<1>4. next \in Steps /\ InOrder(next, jobs)
  BY <1>2, <1>3, NextIsStep DEF InOrder
<1>5. CASE Leave(a) /\ UNCHANGED row
  BY <1>1, <1>5, LeaveKeeps
<1>6. CASE Goto(a, "trigger", e) /\ (row' = Stored(e) \/ UNCHANGED row)
  <2>1. Fits(Record("running", NoJob), next, jobs)
    BY DEF Fits, Record
  <2>2. Sound(p, jobs)
    BY <1>2, <1>4, <2>1, PatchedSound
  <2>3. DOMAIN p = Fields /\ p.status = d.status /\ next \in DOMAIN p.steps
    BY <1>2, Patched DEF Sound
  <2>. HIDE DEF p
  <2>4. DOMAIN e = Fields /\ e.steps = p.steps /\ e.status = d.status /\ e.current_step = next
    BY <2>3 DEF Fields
  <2>5. Sound(e, jobs)
    BY <1>2, <2>2, <2>3, <2>4, SameSteps
  <2>6. Holds("trigger", e, jobs)
    BY <1>2, <1>4, <2>4, <2>5 DEF Holds
  <2>. HIDE DEF e
  <2>7. CASE UNCHANGED row
    BY <1>1, <1>6, <2>6, <2>7, ThinkingKeeps
  <2>8. CASE row' = Stored(e)
    <3>1. Grown(jobs, jobs') /\ JobsTyped' /\ StepsInOrder'
      BY <1>1, NothingCreated
    <3>2. ActorsTyped' /\ ActorsHold'
      BY <1>1, <1>6, <2>6, <3>1, ActorGoesOn
    <3>3. Sound(row', jobs') /\ row'.status # "pending"
      BY <1>1, <1>2, <2>4, <2>5, <2>8, StoredSound DEF e
    <3>4. RowHolds' /\ EditHolds'
      BY <1>1, <3>3 DEF OrderInv, RowHolds, EditHolds
    <3>. QED
      BY <3>1, <3>2, <3>4 DEF OrderInv
  <2>. QED
    BY <1>6, <2>7, <2>8
<1>. QED
  BY <1>5, <1>6 DEF Claim

\* The body is given the job that was created for its current step, or the
\* verdict that none could be.
LEMMA TriggerKeeps ==
  ASSUME OrderInv, NEW a \in Actors, Trigger(a)
  PROVE  OrderInv'
<1>. DEFINE d == doc[a]
            step == d.current_step
            started == PatchStep(d, step, Record("running", Len(jobs) + 1))
            p == PatchStep(d, step, Record("failed", CurrentRecord(d).job))
            failed == [p EXCEPT !.status = "failed"]
<1>1. UNCHANGED <<row, edit>> /\ row.status # "pending"
  BY AtWorkMeansStarted DEF Trigger
<1>2. /\ Sound(d, jobs) /\ d.status \notin {"pending", "completed"}
      /\ InOrder(step, jobs) /\ step \in DOMAIN d.steps /\ step \in Steps
  BY DEF Trigger, OrderInv, ActorsHold, Holds, Sound
<1>3. Create(step) \/ UNCHANGED jobs
  BY DEF Trigger
<1>4. Grown(jobs, jobs') /\ JobsTyped' /\ StepsInOrder'
  BY <1>2, <1>3, CreatedInOrder, NothingCreated DEF OrderInv
<1>5. Sound(d, jobs')
  BY <1>2, <1>4, GrownSound
<1>6. ASSUME Create(step) PROVE Holds("persist", started, jobs')
  <2>1. /\ Len(jobs) + 1 \in DOMAIN jobs' /\ jobs'[Len(jobs) + 1].step = step
    BY <1>2, <1>6, CreatedInOrder DEF OrderInv
  <2>2. Fits(Record("running", Len(jobs) + 1), step, jobs')
    BY <2>1 DEF Fits, Record
  <2>3. Sound(started, jobs') /\ started.status = d.status
    BY <1>2, <1>5, <2>2, PatchedSound, Patched DEF Sound
  <2>. QED
    BY <1>2, <2>3 DEF Holds
<1>7. Holds("persist", failed, jobs')
  <2>1. Fits(CurrentRecord(d), step, jobs')
    BY <1>2, <1>5 DEF Sound, CurrentRecord
  <2>2. Fits(Record("failed", CurrentRecord(d).job), step, jobs')
    BY <2>1 DEF Fits, Record
  <2>3. Sound(p, jobs') /\ DOMAIN p = Fields /\ p.current_step \in DOMAIN p.steps
    BY <1>2, <1>5, <2>2, PatchedSound, Patched DEF Sound
  <2>. HIDE DEF p
  <2>4. DOMAIN failed = Fields /\ failed.steps = p.steps /\ failed.status = "failed"
        /\ failed.current_step = p.current_step
    BY <2>3 DEF Fields
  <2>. QED
    BY <2>3, <2>4, SameSteps DEF Holds
<1>8. ActorsTyped' /\ ActorsHold'
  <2>1. CASE Create(step) /\ Goto(a, "persist", started)
    BY <1>4, <1>6, <2>1, ActorGoesOn
  <2>2. CASE Goto(a, "persist", failed)
    BY <1>4, <1>7, <2>2, ActorGoesOn
  <2>. QED
    BY <2>1, <2>2 DEF Trigger
<1>9. RowHolds' /\ EditHolds'
  BY <1>1, <1>4, RowLeftAlone
<1>. QED
  BY <1>4, <1>8, <1>9 DEF OrderInv

\* The row becomes what the actor has in memory.
LEMMA PersistKeeps ==
  ASSUME OrderInv, NEW a \in Actors, Persist(a)
  PROVE  OrderInv'
<1>1. UNCHANGED <<edit, jobs>> /\ Leave(a) /\ row' = Stored(doc[a])
  BY DEF Persist
<1>2. Sound(doc[a], jobs) /\ doc[a].status # "pending"
  BY DEF Persist, OrderInv, ActorsHold, Holds
<1>3. Grown(jobs, jobs') /\ JobsTyped' /\ StepsInOrder'
  BY <1>1, NothingCreated
<1>4. Holds("idle", None, jobs')
  BY DEF Holds
<1>5. ActorsTyped' /\ ActorsHold'
  BY <1>1, <1>3, <1>4, ActorGoesOn DEF Leave
<1>6. Sound(row', jobs') /\ row'.status # "pending"
  BY <1>1, <1>2, StoredSound
<1>7. RowHolds' /\ EditHolds'
  BY <1>1, <1>6 DEF OrderInv, RowHolds, EditHolds
<1>. QED
  BY <1>3, <1>5, <1>7 DEF OrderInv

\* Every step of an actor keeps the invariant.
LEMMA AdvanceKeeps ==
  ASSUME OrderInv, NEW a \in Actors, Advance(a) \/ Crash(a)
  PROVE  OrderInv'
<1>1. CASE List(a)
  <2>1. Holds("read", None, jobs)
    BY DEF Holds
  <2>2. row.status # "pending" /\ Goto(a, "read", None) /\ UNCHANGED <<row, edit, jobs>>
    BY <1>1 DEF List
  <2>. QED
    BY <2>1, <2>2, ThinkingKeeps
<1>2. CASE QueryFails(a) \/ Crash(a)
  <2>1. Leave(a) /\ UNCHANGED <<row, edit, jobs>>
    BY <1>2 DEF QueryFails, Crash
  <2>. QED
    BY <2>1, LeaveKeeps
<1>. QED
  BY <1>1, <1>2, ReadKeeps, AnsweredKeeps, ClaimKeeps, TriggerKeeps, PersistKeeps DEF Advance

-----------------------------------------------------------------------------
(* Steps of the owner and of the upstream service. *)

\* The owner's next write holds a body made from the row.
LEMMA SubmitKeeps ==
  ASSUME OrderInv, NEW body, Submit(body), UNCHANGED <<row, pc, doc>>,
         Grown(jobs, jobs'), JobsTyped', StepsInOrder',
         Sound(body, jobs'), body.status # "pending"
  PROVE  OrderInv'
<1>1. edit'.body = body
  BY DEF Submit
<1>2. EditHolds'
  BY <1>1 DEF EditHolds
<1>3. ActorsTyped' /\ ActorsHold'
  BY GrownHolds DEF OrderInv, ActorsTyped, ActorsHold
<1>4. RowHolds'
  BY GrownSound DEF OrderInv, RowHolds
<1>. QED
  BY <1>2, <1>3, <1>4 DEF OrderInv

\* The body with a new record of step s and a new status.
Restarted(d, s, r, status) == [PatchStep(d, s, r) EXCEPT !.status = status]

\* It is sound when the record fits.
LEMMA RestartedSound ==
  ASSUME NEW js, NEW d, Sound(d, js), NEW s \in Steps, NEW r, Fits(r, s, js),
         NEW status \in {"running", "failed"}, d.status # "completed"
  PROVE  /\ Sound(Restarted(d, s, r, status), js)
         /\ Restarted(d, s, r, status).status = status
<1>. DEFINE p == PatchStep(d, s, r)
            e == [p EXCEPT !.status = status]
<1>1. Sound(p, js) /\ DOMAIN p = Fields /\ p.current_step \in DOMAIN p.steps
  BY PatchedSound, Patched DEF Sound
<1>. HIDE DEF p
<1>2. DOMAIN e = Fields /\ e.steps = p.steps /\ e.status = status /\ e.current_step = p.current_step
  BY <1>1 DEF Fields
<1>3. Sound(e, js)
  BY <1>1, <1>2, SameSteps
<1>. QED
  BY <1>2, <1>3 DEF p, Restarted

\* The first step's turn is the start.
LEMMA StartKeeps ==
  ASSUME OrderInv, Start
  PROVE  OrderInv'
<1>. DEFINE step == row.current_step
            body(r, status) == [PatchStep(row, step, r) EXCEPT !.status = status]
<1>1. /\ Sound(row, jobs) /\ row.status # "completed" /\ step = FirstStep /\ step \in DOMAIN row.steps /\ step \in Steps
      /\ UNCHANGED <<row, pc, doc>>
  BY DEF Start, OrderInv, RowHolds, Sound
<1>2. CASE Create(step) /\ Submit(body(Record("running", Len(jobs) + 1), "running"))
  <2>1. /\ JobsTyped' /\ StepsInOrder' /\ Grown(jobs, jobs')
        /\ Len(jobs) + 1 \in DOMAIN jobs' /\ jobs'[Len(jobs) + 1].step = step
    BY <1>1, <1>2, CreatedInOrder DEF OrderInv, InOrder
  <2>2. Fits(Record("running", Len(jobs) + 1), step, jobs')
    BY <2>1 DEF Fits, Record
  <2>3. Sound(row, jobs')
    BY <1>1, <2>1, GrownSound
  <2>. DEFINE r == Record("running", Len(jobs) + 1)
              e == Restarted(row, step, r, "running")
  <2>4. Sound(e, jobs') /\ e.status = "running"
    <3>1. Fits(r, step, jobs')
      BY <2>2
    <3>. HIDE DEF r
    <3>. QED
      BY <1>1, <2>3, <3>1, RestartedSound
  <2>5. Submit(e)
    BY <1>2 DEF Restarted
  <2>. HIDE DEF e
  <2>. QED
    BY <1>1, <2>1, <2>4, <2>5, SubmitKeeps
<1>3. CASE UNCHANGED jobs /\ Submit(body(Record("failed", NoJob), "failed"))
  <2>1. /\ JobsTyped' /\ StepsInOrder' /\ Grown(jobs, jobs')
    BY <1>3, NothingCreated
  <2>2. Fits(Record("failed", NoJob), step, jobs')
    BY DEF Fits, Record
  <2>3. Sound(row, jobs')
    BY <1>1, <2>1, GrownSound
  <2>. DEFINE e == Restarted(row, step, Record("failed", NoJob), "failed")
  <2>4. Sound(e, jobs') /\ e.status = "failed"
    BY <1>1, <2>2, <2>3, RestartedSound
  <2>5. Submit(e)
    BY <1>3 DEF Restarted
  <2>. HIDE DEF e
  <2>. QED
    BY <1>1, <2>1, <2>4, <2>5, SubmitKeeps
<1>. QED
  BY <1>2, <1>3 DEF Start

\* The owner changes the status or who drives the task.
LEMMA ChangeKeeps ==
  ASSUME OrderInv, Change
  PROVE  OrderInv'
<1>1. UNCHANGED <<row, pc, doc, jobs>>
  BY DEF Change
<1>2. /\ Sound(row, jobs) /\ row.status \in {"running", "paused"}
      /\ row.current_step \in DOMAIN row.steps /\ DOMAIN row = Fields
  BY DEF Change, OrderInv, RowHolds, Sound
<1>3. PICK body : /\ Submit(body)
                  /\ \/ \E status \in {"running", "paused"} : body = [row EXCEPT !.status = status]
                     \/ body = [row EXCEPT !.run_auto = "off"]
  BY DEF Change
<1>4. /\ DOMAIN body = Fields /\ body.steps = row.steps
      /\ body.status \in {"running", "paused"} /\ body.current_step = row.current_step
  BY <1>2, <1>3 DEF Fields
<1>5. Sound(body, jobs')
  BY <1>1, <1>2, <1>4, SameSteps
<1>. QED
  BY <1>1, <1>3, <1>4, <1>5, NothingCreated, SubmitKeeps

\* A retry creates a job only for a step that had one, whose turn had come.
LEMMA RetryKeeps ==
  ASSUME OrderInv, Retry
  PROVE  OrderInv'
<1>. DEFINE step == row.current_step
<1>1. /\ Sound(row, jobs) /\ row.status # "completed" /\ DOMAIN row = Fields
      /\ step \in DOMAIN row.steps /\ step \in Steps
      /\ UNCHANGED <<row, pc, doc>>
  BY DEF Retry, OrderInv, RowHolds, Sound
<1>2. CASE /\ CurrentRecord(row).job # NoJob /\ Create(step)
           /\ Submit([PatchStep(row, step, Record("running", Len(jobs) + 1))
                       EXCEPT !.status = "running"])
  <2>1. CurrentRecord(row).job \in DOMAIN jobs /\ jobs[CurrentRecord(row).job].step = step
    BY <1>1, <1>2 DEF Sound, Fits, CurrentRecord
  <2>2. InOrder(step, jobs)
    BY <2>1 DEF OrderInv, JobsTyped, StepsInOrder, InOrder
  <2>3. /\ JobsTyped' /\ StepsInOrder' /\ Grown(jobs, jobs')
        /\ Len(jobs) + 1 \in DOMAIN jobs' /\ jobs'[Len(jobs) + 1].step = step
    BY <1>1, <1>2, <2>2, CreatedInOrder DEF OrderInv
  <2>4. Fits(Record("running", Len(jobs) + 1), step, jobs')
    BY <2>3 DEF Fits, Record
  <2>5. Sound(row, jobs')
    BY <1>1, <2>3, GrownSound
  <2>. DEFINE r == Record("running", Len(jobs) + 1)
              e == Restarted(row, step, r, "running")
  <2>6. Sound(e, jobs') /\ e.status = "running"
    <3>1. Fits(r, step, jobs')
      BY <2>4
    <3>. HIDE DEF r
    <3>. QED
      BY <1>1, <2>5, <3>1, RestartedSound
  <2>7. Submit(e)
    BY <1>2 DEF Restarted
  <2>. HIDE DEF e
  <2>. QED
    BY <1>1, <2>3, <2>6, <2>7, SubmitKeeps
<1>3. ASSUME NEW s \in DOMAIN row.steps, UNCHANGED jobs,
             Submit([row EXCEPT !.status = "running", !.current_step = s])
      PROVE  OrderInv'
  <2>. DEFINE e == [row EXCEPT !.status = "running", !.current_step = s]
  <2>1. DOMAIN e = Fields /\ e.steps = row.steps /\ e.status = "running" /\ e.current_step = s
    BY <1>1 DEF Fields
  <2>2. Sound(e, jobs')
    BY <1>1, <1>3, <2>1, SameSteps
  <2>. HIDE DEF e
  <2>3. Submit(e)
    BY <1>3 DEF e
  <2>. QED
    BY <1>1, <1>3, <2>1, <2>2, <2>3, NothingCreated, SubmitKeeps
<1>. QED
  BY <1>2, <1>3 DEF Retry

\* The owner's write replaces the row or is refused.
LEMMA PutKeeps ==
  ASSUME OrderInv, Put
  PROVE  OrderInv'
<1>1. UNCHANGED <<pc, doc, jobs>> /\ edit # None /\ edit' = None
  BY DEF Put
<1>2. Sound(edit.body, jobs) /\ edit.body.status # "pending"
  BY <1>1 DEF OrderInv, EditHolds
<1>3. ActorsTyped' /\ ActorsHold' /\ EditHolds' /\ JobsTyped' /\ StepsInOrder'
  BY <1>1 DEF OrderInv, ActorsTyped, ActorsHold, EditHolds, JobsTyped, StepsInOrder
<1>4. RowHolds'
  <2>1. CASE UNCHANGED row
    BY <1>1, <2>1 DEF OrderInv, RowHolds
  <2>2. CASE row' = Stored(edit.body)
    <3>1. Sound(row', jobs') /\ row'.status # "pending"
      BY <1>1, <1>2, <2>2, StoredSound
    <3>. QED
      BY <3>1 DEF RowHolds
  <2>. QED
    BY <2>1, <2>2 DEF Put
<1>. QED
  BY <1>3, <1>4 DEF OrderInv

\* A job that ends keeps its step, and none that has succeeded fails.
LEMMA JobEndsKeeps ==
  ASSUME OrderInv, NEW j \in DOMAIN jobs, JobEnds(j)
  PROVE  OrderInv'
<1>1. PICK state \in {"succeeded", "failed"} : jobs' = [jobs EXCEPT ![j].state = state]
  BY DEF JobEnds
<1>2. /\ jobs \in Seq(JobRecords) /\ jobs[j].state = "running"
      /\ UNCHANGED <<row, pc, doc, edit>>
  BY DEF JobEnds, OrderInv, JobsTyped
<1>3. jobs[j] \in JobRecords
  BY <1>2
<1>4. /\ [jobs[j] EXCEPT !.state = state] \in JobRecords
      /\ [jobs[j] EXCEPT !.state = state].step = jobs[j].step
  BY <1>3 DEF JobRecords
<1>5. /\ JobsTyped' /\ DOMAIN jobs' = DOMAIN jobs
      /\ \A i \in DOMAIN jobs : jobs'[i] = IF i = j THEN [jobs[j] EXCEPT !.state = state] ELSE jobs[i]
  BY <1>1, <1>2, <1>4 DEF JobsTyped
<1>6. Grown(jobs, jobs')
  BY <1>2, <1>4, <1>5 DEF Grown
<1>7. StepsInOrder'
  <2>. SUFFICES ASSUME NEW i \in DOMAIN jobs', jobs'[i].step # FirstStep
                PROVE  \E k \in 1..(i - 1) : /\ jobs'[k].state = "succeeded"
                                             /\ NextStep[jobs'[k].step] = jobs'[i].step
    BY DEF StepsInOrder
  <2>1. i \in DOMAIN jobs /\ jobs'[i].step = jobs[i].step
    BY <1>5, <1>6 DEF Grown
  <2>2. PICK k \in 1..(i - 1) : /\ jobs[k].state = "succeeded"
                                /\ NextStep[jobs[k].step] = jobs[i].step
    BY <2>1 DEF OrderInv, StepsInOrder
  <2>3. k \in DOMAIN jobs
    BY <1>2, <2>1, <2>2
  <2>. QED
    BY <1>6, <2>1, <2>2, <2>3 DEF Grown
<1>8. ActorsTyped' /\ ActorsHold'
  BY <1>2, <1>6, GrownHolds DEF OrderInv, ActorsTyped, ActorsHold
<1>9. RowHolds' /\ EditHolds'
  BY <1>2, <1>6, GrownSound DEF OrderInv, RowHolds, EditHolds
<1>. QED
  BY <1>5, <1>7, <1>8, <1>9 DEF OrderInv

-----------------------------------------------------------------------------

\* The task is created with pending records and no job.
LEMMA OrderInitInv == Init => OrderInv
<1>. SUFFICES ASSUME Init PROVE OrderInv
  OBVIOUS
<1>1. /\ DOMAIN row = Fields /\ DOMAIN row.steps = {FirstStep} \union Placeholders
      /\ row.current_step = FirstStep /\ row.status = "pending"
      /\ \A s \in DOMAIN row.steps : row.steps[s] = Record("pending", NoJob)
  BY DEF Init, Fields
<1>2. Sound(row, jobs)
  BY <1>1, FirstStepAssumption DEF Sound, Fits, Record
<1>3. RowHolds
  BY <1>1, <1>2 DEF Init, RowHolds
<1>4. jobs = << >> /\ edit = None /\ pc = [a \in Actors |-> "idle"] /\ doc = [a \in Actors |-> None]
  BY DEF Init
<1>5. JobsTyped /\ StepsInOrder
  BY <1>4 DEF JobsTyped, StepsInOrder
<1>6. ActorsTyped /\ ActorsHold /\ EditHolds
  BY <1>4 DEF ActorsTyped, ActorsHold, Holds, EditHolds
<1>. QED
  BY <1>3, <1>5, <1>6 DEF OrderInv

\* Every step keeps the invariant.
LEMMA OrderNextInv == OrderInv /\ [Next]_vars => OrderInv'
<1>. SUFFICES ASSUME OrderInv, [Next]_vars PROVE OrderInv'
  OBVIOUS
<1>1. ASSUME NEW a \in Actors, Advance(a) \/ Crash(a) PROVE OrderInv'
  BY <1>1, AdvanceKeeps
<1>2. CASE Owner
  BY <1>2, StartKeeps, ChangeKeeps, RetryKeeps, PutKeeps DEF Owner
<1>3. ASSUME NEW i \in DOMAIN jobs, JobEnds(i) PROVE OrderInv'
  BY <1>3, JobEndsKeeps
<1>4. CASE UNCHANGED vars
  BY <1>4 DEF vars, OrderInv, JobsTyped, ActorsTyped, ActorsHold, EditHolds, RowHolds, StepsInOrder
<1>. QED
  BY <1>1, <1>2, <1>3, <1>4 DEF Next

(* A step's job is created only when a job of the step before it has succeeded,
   however many machines and browsers advance the task, whatever fails and
   whatever its owner does meanwhile (advance_task, resolve_next_step). *)
THEOREM PipelineInOrder == Spec => []StepsInOrder
<1>1. OrderInv => StepsInOrder
  BY DEF OrderInv
<1>. QED
  BY OrderInitInv, OrderNextInv, <1>1, PTL DEF Spec

(* A task is called completed only when a job of the step that ends its
   pipeline has succeeded and the row still points to that job, whoever wrote
   the row last (advance_task's two completions, a browser's write, a stale
   machine's). *)
THEOREM CompletedIsDone == Spec => []CompletedMeansDone
BY OrderInitInv, OrderNextInv, CompletedFollows, PTL DEF Spec

-----------------------------------------------------------------------------
(* The values of the variables. *)

Writes == [status : Statuses, current_step : Steps \union {"completed"}, body : Bodies]

\* A body in the form the routines expect, whatever its records point to.
Formed(d) ==
  /\ d \in Bodies
  /\ FirstStep \in DOMAIN d.steps
  /\ d.first \in DOMAIN d.steps
  /\ d.current_step \in Steps => d.current_step \in DOMAIN d.steps

ActorTyped(a) ==
  /\ pc[a] \in {"idle", "read", "query", "claim", "trigger", "persist"}
  /\ IF pc[a] \in {"idle", "read"} THEN doc[a] = None ELSE Formed(doc[a])
  /\ a \in Machines /\ pc[a] = "trigger" => lock = a
  /\ lock = a => pc[a] \in {"trigger", "persist"}

RowTyped == Formed(row) /\ row.first = JsonbFirst(DOMAIN row.steps)

EditTyped ==
  edit # None => edit \in Writes /\ Formed(edit.body)

TypeInv ==
  /\ RowTyped /\ EditTyped
  /\ lock \in Machines \union {None}
  /\ \A a \in Actors : ActorTyped(a)
  /\ refunded \in BOOLEAN

\* The first key in the order of JSONB is one of the keys.
LEMMA FirstKey ==
  ASSUME NEW K, K \subseteq Steps, K # {}
  PROVE  JsonbFirst(K) \in K
<1>. DEFINE I == {i \in DOMAIN JsonbOrder : JsonbOrder[i] \in K}
<1>1. DOMAIN JsonbOrder = 1 .. 9
  BY DEF JsonbOrder
<1>2. \A s \in Steps : \E i \in 1 .. 9 : JsonbOrder[i] = s
  BY DEF JsonbOrder, Steps
<1>3. I \subseteq 1 .. 9 /\ I # {}
  BY <1>1, <1>2
<1>. HIDE DEF I
<1>4. \E i \in I : \A j \in I : i <= j
  <2>. SUFFICES ASSUME \A i \in I : \E j \in I : ~(i <= j) PROVE FALSE
    OBVIOUS
  <2>1. 1 \notin I /\ I \subseteq 2 .. 9
    BY <1>3
  <2>2. 2 \notin I /\ I \subseteq 3 .. 9
    BY <2>1
  <2>3. 3 \notin I /\ I \subseteq 4 .. 9
    BY <2>2
  <2>4. 4 \notin I /\ I \subseteq 5 .. 9
    BY <2>3
  <2>5. 5 \notin I /\ I \subseteq 6 .. 9
    BY <2>4
  <2>6. 6 \notin I /\ I \subseteq 7 .. 9
    BY <2>5
  <2>7. 7 \notin I /\ I \subseteq 8 .. 9
    BY <2>6
  <2>8. 8 \notin I /\ I \subseteq {9}
    BY <2>7
  <2>. QED
    <3>1. 9 \in I
      BY <1>3, <2>8
    <3>. QED
      BY <2>8, <3>1
<1>5. Min(I) \in I
  BY <1>4 DEF Min
<1>. QED
  BY <1>5 DEF I, JsonbFirst

\* The operators that change a body keep its form.
LEMMA BodyFields ==
  ASSUME NEW d \in Bodies
  PROVE  /\ DOMAIN d = Fields
         /\ DOMAIN d.steps \subseteq Steps /\ d.steps \in [DOMAIN d.steps -> StepRecords]
BY DEF Bodies, Fields, StepRecords

LEMMA PatchFormed ==
  ASSUME NEW d, Formed(d), NEW s \in Steps, NEW r \in StepRecords
  PROVE  Formed(PatchStep(d, s, r))
<1>. DEFINE f == [k \in DOMAIN d.steps \union {s} |-> IF k = s THEN r ELSE d.steps[k]]
<1>1. d \in Bodies
  BY DEF Formed
<1>2. /\ DOMAIN f = DOMAIN d.steps \union {s} /\ DOMAIN f \subseteq Steps
      /\ f \in [DOMAIN f -> StepRecords]
      /\ \A k \in DOMAIN f : f[k] = IF k = s THEN r ELSE d.steps[k]
  BY <1>1, BodyFields
<1>3. PatchStep(d, s, r) = [d EXCEPT !.steps = f]
  BY DEF PatchStep
<1>. HIDE DEF f
<1>4. [d EXCEPT !.steps = f] \in Bodies
  BY <1>1, <1>2 DEF Bodies, StepRecords
<1>5. /\ [d EXCEPT !.steps = f].steps = f
      /\ [d EXCEPT !.steps = f].status = d.status
      /\ [d EXCEPT !.steps = f].current_step = d.current_step
      /\ [d EXCEPT !.steps = f].run_auto = d.run_auto
      /\ [d EXCEPT !.steps = f].first = d.first
  BY <1>1 DEF Bodies
<1>. QED
  BY <1>2, <1>3, <1>4, <1>5 DEF Formed

LEMMA StatusFormed ==
  ASSUME NEW d, Formed(d), NEW status \in Statuses
  PROVE  Formed([d EXCEPT !.status = status])
<1>1. d \in Bodies
  BY DEF Formed
<1>2. /\ [d EXCEPT !.status = status] \in Bodies
      /\ [d EXCEPT !.status = status].status = status
      /\ [d EXCEPT !.status = status].steps = d.steps
      /\ [d EXCEPT !.status = status].current_step = d.current_step
      /\ [d EXCEPT !.status = status].run_auto = d.run_auto
      /\ [d EXCEPT !.status = status].first = d.first
  BY <1>1 DEF Bodies
<1>. QED
  BY <1>2 DEF Formed

LEMMA StepFormed ==
  ASSUME NEW d, Formed(d), NEW s \in DOMAIN d.steps \union {"completed"}
  PROVE  Formed([d EXCEPT !.current_step = s])
<1>1. d \in Bodies /\ s \in Steps \union {"completed"} /\ "completed" \notin Steps
  BY BodyFields DEF Formed, Steps
<1>2. /\ [d EXCEPT !.current_step = s] \in Bodies
      /\ [d EXCEPT !.current_step = s].status = d.status
      /\ [d EXCEPT !.current_step = s].steps = d.steps
      /\ [d EXCEPT !.current_step = s].current_step = s
      /\ [d EXCEPT !.current_step = s].run_auto = d.run_auto
      /\ [d EXCEPT !.current_step = s].first = d.first
  BY <1>1 DEF Bodies
<1>. QED
  BY <1>1, <1>2 DEF Formed

LEMMA AutoFormed ==
  ASSUME NEW d, Formed(d)
  PROVE  Formed([d EXCEPT !.run_auto = "off"])
<1>1. d \in Bodies
  BY DEF Formed
<1>2. /\ [d EXCEPT !.run_auto = "off"] \in Bodies
      /\ [d EXCEPT !.run_auto = "off"].status = d.status
      /\ [d EXCEPT !.run_auto = "off"].steps = d.steps
      /\ [d EXCEPT !.run_auto = "off"].current_step = d.current_step
      /\ [d EXCEPT !.run_auto = "off"].run_auto = "off"
      /\ [d EXCEPT !.run_auto = "off"].first = d.first
  BY <1>1 DEF Bodies
<1>. QED
  BY <1>2 DEF Formed

LEMMA StoredFormed ==
  ASSUME NEW d, Formed(d)
  PROVE  Formed(Stored(d)) /\ Stored(d).first = JsonbFirst(DOMAIN Stored(d).steps)
<1>. DEFINE key == JsonbFirst(DOMAIN d.steps)
<1>1. d \in Bodies /\ DOMAIN d.steps \subseteq Steps /\ DOMAIN d.steps # {}
  BY BodyFields DEF Formed
<1>2. key \in DOMAIN d.steps
  BY <1>1, FirstKey
<1>3. key \in Steps
  BY <1>1, <1>2
<1>4. Stored(d) = [d EXCEPT !.first = key]
  BY DEF Stored
<1>. HIDE DEF key
<1>5. /\ [d EXCEPT !.first = key] \in Bodies
      /\ [d EXCEPT !.first = key].status = d.status
      /\ [d EXCEPT !.first = key].steps = d.steps
      /\ [d EXCEPT !.first = key].current_step = d.current_step
      /\ [d EXCEPT !.first = key].run_auto = d.run_auto
      /\ [d EXCEPT !.first = key].first = key
  BY <1>1, <1>3 DEF Bodies
<1>6. Formed(Stored(d))
  BY <1>2, <1>4, <1>5 DEF Formed
<1>. QED
  BY <1>4, <1>5, <1>6 DEF key

\* The record of a step of a body.
LEMMA RecordTyped ==
  ASSUME NEW d, Formed(d), NEW s \in DOMAIN d.steps
  PROVE  /\ d.steps[s] \in StepRecords /\ d.steps[s].job \in Nat /\ s \in Steps
         /\ \A status \in RecordStatuses : Record(status, d.steps[s].job) \in StepRecords
BY BodyFields DEF Formed, StepRecords, Record

\* An actor that moves on leaves the others typed.
LEMMA GotoTyped ==
  ASSUME TypeInv, OrderInv, NEW a \in Actors, NEW l, NEW d, Goto(a, l, d),
         l \in {"idle", "read", "query", "claim", "trigger", "persist"},
         IF l \in {"idle", "read"} THEN d = None ELSE Formed(d),
         a \in Machines /\ l = "trigger" => lock' = a,
         lock' = a => l \in {"trigger", "persist"},
         \A b \in Actors \ {a} : lock' = b <=> lock = b
  PROVE  \A b \in Actors : ActorTyped(b)'
<1>1. pc'[a] = l /\ doc'[a] = d
  BY DEF Goto, OrderInv, ActorsTyped
<1>2. ActorTyped(a)'
  BY <1>1 DEF ActorTyped
<1>3. ASSUME NEW b \in Actors \ {a} PROVE ActorTyped(b)'
  <2>1. pc'[b] = pc[b] /\ doc'[b] = doc[b] /\ ActorTyped(b)
    BY DEF Goto, OrderInv, ActorsTyped, TypeInv
  <2>. QED
    BY <2>1 DEF ActorTyped
<1>. QED
  BY <1>2, <1>3

LEMMA LeaveTyped ==
  ASSUME TypeInv, OrderInv, NEW a \in Actors, Leave(a), UNCHANGED <<row, edit, refunded>>,
         (lock' = lock /\ lock # a) \/ (lock \in {None, a} /\ lock' = None)
  PROVE  TypeInv'
<1>1. None \notin Actors
  BY ActorsAssumption DEF Actors
<1>2. \A b \in Actors : ActorTyped(b)'
  BY <1>1, GotoTyped DEF Leave
<1>. QED
  BY <1>2 DEF TypeInv, RowTyped, EditTyped

LEMMA ThinkingTyped ==
  ASSUME TypeInv, OrderInv, NEW a \in Actors, NEW l, NEW d, Goto(a, l, d),
         UNCHANGED <<row, edit, refunded, lock>>, lock # a,
         (l = "read" /\ d = None) \/ (l \in {"query", "claim", "persist"} /\ Formed(d))
  PROVE  TypeInv'
<1>1. \A b \in Actors : ActorTyped(b)'
  BY GotoTyped
<1>. QED
  BY <1>1 DEF TypeInv, RowTyped, EditTyped

\* What is known of an actor with a body in memory.
LEMMA AtWorkTyped ==
  ASSUME TypeInv, OrderInv, NEW a \in Actors, pc[a] \in {"query", "claim", "trigger", "persist"}
  PROVE  /\ Formed(doc[a]) /\ Sound(doc[a], jobs)
         /\ pc[a] # "persist" => /\ doc[a].current_step \in DOMAIN doc[a].steps
                                 /\ doc[a].current_step \in Steps
         /\ pc[a] \notin {"trigger", "persist"} => lock # a
<1>1. Formed(doc[a]) /\ (lock = a => pc[a] \in {"trigger", "persist"})
  BY DEF TypeInv, ActorTyped
<1>2. Sound(doc[a], jobs) /\ (pc[a] # "persist" => doc[a].status # "completed")
  BY DEF OrderInv, ActorsHold, Holds
<1>. QED
  BY <1>1, <1>2 DEF Sound

LEMMA ResolveTyped ==
  ASSUME TypeInv, OrderInv, NEW a \in Actors, NEW d, Formed(d), Resolve(a, d),
         UNCHANGED <<row, edit, refunded, lock>>, lock # a
  PROVE  TypeInv'
<1>. DEFINE next == NextStep[d.current_step]
            e == [d EXCEPT !.current_step = "completed"]
            f == [d EXCEPT !.status = "completed"]
            c == [f EXCEPT !.current_step = "completed"]
            g == [d EXCEPT !.current_step = next]
<1>1. Formed(f)
  BY StatusFormed DEF Statuses
<1>2. Formed(c)
  <2>. HIDE DEF f
  <2>. QED
    BY <1>1, StepFormed
<1>3. ASSUME next # None, Triggered(d, next) PROVE Formed(g)
  <2>1. next \in DOMAIN d.steps
    BY <1>3 DEF Triggered, StepRecord, Record, NoJob
  <2>. QED
    BY <2>1, StepFormed
<1>4. \/ Goto(a, "persist", c)
      \/ next # None /\ Triggered(d, next) /\ Goto(a, "persist", g)
      \/ Goto(a, "claim", d)
  BY DEF Resolve
<1>. HIDE DEF c, g
<1>. QED
  BY <1>2, <1>3, <1>4, ThinkingTyped

LEMMA ReadTyped ==
  ASSUME TypeInv, OrderInv, NEW a \in Actors, Read(a)
  PROVE  TypeInv'
<1>1. UNCHANGED <<row, edit, refunded, lock>> /\ lock # a
  BY DEF Read, TypeInv, ActorTyped
<1>2. Formed(row)
  BY DEF TypeInv, RowTyped
<1>. QED
  BY <1>1, <1>2, LeaveTyped, ResolveTyped, ThinkingTyped DEF Read

LEMMA AnsweredTyped ==
  ASSUME TypeInv, OrderInv, NEW a \in Actors, Answered(a)
  PROVE  TypeInv'
<1>. DEFINE d == doc[a]
            step == d.current_step
            Ended(status) == PatchStep(d, step, Record(status, CurrentRecord(d).job))
            f == Ended("failed")
            c == Ended("completed")
<1>1. UNCHANGED <<row, edit, refunded, lock>> /\ lock # a /\ Formed(d) /\ step \in DOMAIN d.steps
  BY AtWorkTyped DEF Answered
<1>2. ASSUME NEW status \in {"failed", "completed"} PROVE Formed(Ended(status))
  <2>1. Record(status, CurrentRecord(d).job) \in StepRecords /\ step \in Steps
    BY <1>1, RecordTyped DEF CurrentRecord, RecordStatuses
  <2>. QED
    BY <1>1, <2>1, PatchFormed
<1>3. Formed(f) /\ Formed(c)
  BY <1>2
<1>4. \/ Leave(a)
      \/ Goto(a, "persist", [f EXCEPT !.status = "failed"])
      \/ Resolve(a, c)
  BY DEF Answered
<1>. HIDE DEF f, c
<1>5. Formed([f EXCEPT !.status = "failed"])
  BY <1>3, StatusFormed DEF Statuses
<1>. QED
  BY <1>1, <1>3, <1>4, <1>5, LeaveTyped, ThinkingTyped, ResolveTyped

LEMMA ClaimTyped ==
  ASSUME TypeInv, OrderInv, NEW a \in Actors, Claim(a)
  PROVE  TypeInv'
<1>. DEFINE d == doc[a]
            step == d.current_step
            next == NextStep[step]
            p == PatchStep(d, next, Record("running", NoJob))
            e == [p EXCEPT !.current_step = next]
<1>1. UNCHANGED <<edit, refunded>> /\ lock # a /\ lock = None /\ Formed(d) /\ step \in Steps
  BY AtWorkTyped DEF Claim
<1>2. next \in Steps
  BY <1>1, NextIsStep DEF Claim, OrderInv, ActorsHold, Holds
<1>3. Record("running", NoJob) \in StepRecords
  BY DEF Record, StepRecords, RecordStatuses, NoJob
<1>4. Formed(p) /\ next \in DOMAIN p.steps
  <2>1. Formed(p)
    BY <1>1, <1>2, <1>3, PatchFormed
  <2>2. DOMAIN d = Fields
    BY <1>1, BodyFields DEF Formed
  <2>. QED
    BY <2>1, <2>2, Patched
<1>5. \/ Leave(a) /\ UNCHANGED <<row, lock>>
      \/ /\ Goto(a, "trigger", e)
         /\ \/ a \in Machines /\ lock' = a /\ UNCHANGED row
            \/ a \in Browsers /\ row' = Stored(e) /\ UNCHANGED lock
  BY DEF Claim
<1>. HIDE DEF p
<1>6. Formed(e)
  BY <1>4, StepFormed
<1>. HIDE DEF e
<1>7. CASE Goto(a, "trigger", e) /\ a \in Machines /\ lock' = a /\ UNCHANGED row
  <2>1. \A b \in Actors \ {a} : lock # b
    BY <1>1, ActorsAssumption DEF Actors
  <2>2. \A b \in Actors : ActorTyped(b)'
    BY <1>6, <1>7, <2>1, GotoTyped
  <2>. QED
    BY <1>1, <1>7, <2>2 DEF TypeInv, RowTyped, EditTyped
<1>8. CASE Goto(a, "trigger", e) /\ a \in Browsers /\ row' = Stored(e) /\ UNCHANGED lock
  <2>1. a \notin Machines
    BY <1>8, ActorsAssumption
  <2>2. \A b \in Actors : ActorTyped(b)'
    BY <1>1, <1>6, <1>8, <2>1, GotoTyped
  <2>3. RowTyped'
    BY <1>6, <1>8, StoredFormed DEF RowTyped
  <2>. QED
    BY <1>1, <1>8, <2>2, <2>3 DEF TypeInv, EditTyped
<1>. QED
  BY <1>1, <1>5, <1>7, <1>8, LeaveTyped

LEMMA TriggerTyped ==
  ASSUME TypeInv, OrderInv, NEW a \in Actors, Trigger(a)
  PROVE  TypeInv'
<1>. DEFINE d == doc[a]
            step == d.current_step
            started == PatchStep(d, step, Record("running", Len(jobs) + 1))
            p == PatchStep(d, step, Record("failed", CurrentRecord(d).job))
            failed == [p EXCEPT !.status = "failed"]
<1>1. UNCHANGED <<row, lock, edit, refunded>> /\ Formed(d) /\ step \in DOMAIN d.steps /\ step \in Steps
  BY AtWorkTyped DEF Trigger
<1>2. Len(jobs) + 1 \in Nat
  BY DEF OrderInv, JobsTyped
<1>3. Record("running", Len(jobs) + 1) \in StepRecords
  BY <1>2 DEF Record, StepRecords, RecordStatuses
<1>4. Record("failed", CurrentRecord(d).job) \in StepRecords
  BY <1>1, RecordTyped DEF CurrentRecord, RecordStatuses
<1>5. Formed(started) /\ Formed(p)
  BY <1>1, <1>3, <1>4, PatchFormed
<1>6. Goto(a, "persist", started) \/ Goto(a, "persist", failed)
  BY DEF Trigger
<1>. HIDE DEF started, p
<1>7. Formed(failed)
  BY <1>5, StatusFormed DEF Statuses
<1>. HIDE DEF failed
<1>8. \A b \in Actors : ActorTyped(b)'
  BY <1>1, <1>5, <1>6, <1>7, GotoTyped
<1>. QED
  BY <1>1, <1>8 DEF TypeInv, RowTyped, EditTyped

LEMMA PersistTyped ==
  ASSUME TypeInv, OrderInv, NEW a \in Actors, Persist(a)
  PROVE  TypeInv'
<1>1. /\ Leave(a) /\ lock \in {None, a} /\ lock' = None /\ UNCHANGED edit
      /\ row' = Stored(doc[a]) /\ Formed(doc[a])
      /\ refunded' = (refunded \/ FailedWithoutWork(doc[a]))
  BY AtWorkTyped DEF Persist
<1>2. None \notin Actors
  BY ActorsAssumption DEF Actors
<1>3. \A b \in Actors : ActorTyped(b)'
  BY <1>1, <1>2, GotoTyped DEF Leave
<1>4. RowTyped'
  BY <1>1, StoredFormed DEF RowTyped
<1>5. refunded' \in BOOLEAN
  BY <1>1
<1>. QED
  BY <1>1, <1>3, <1>4, <1>5 DEF TypeInv, EditTyped

LEMMA AdvanceTyped ==
  ASSUME TypeInv, OrderInv, NEW a \in Actors, Advance(a) \/ Crash(a)
  PROVE  TypeInv'
<1>1. CASE List(a)
  <2>1. lock # a
    BY <1>1 DEF List, TypeInv, ActorTyped
  <2>. QED
    BY <1>1, <2>1, ThinkingTyped DEF List
<1>2. CASE QueryFails(a)
  <2>1. lock # a
    BY <1>2 DEF QueryFails, TypeInv, ActorTyped
  <2>. QED
    BY <1>2, <2>1, LeaveTyped DEF QueryFails
<1>3. CASE Crash(a)
  BY <1>3, LeaveTyped DEF Crash
<1>. QED
  BY <1>1, <1>2, <1>3, ReadTyped, AnsweredTyped, ClaimTyped, TriggerTyped, PersistTyped DEF Advance

\* The owner's next write.
LEMMA SubmitTyped ==
  ASSUME TypeInv, OrderInv, NEW body, Submit(body), Formed(body), UNCHANGED <<row, lock, pc, doc, refunded>>
  PROVE  TypeInv'
<1>1. edit' \in Writes /\ edit'.body = body
  BY DEF Submit, Writes, Formed, TypeInv, RowTyped, Bodies
<1>2. \A a \in Actors : ActorTyped(a)'
  BY DEF TypeInv, ActorTyped
<1>. QED
  BY <1>1, <1>2 DEF TypeInv, RowTyped, EditTyped

LEMMA OwnerTyped ==
  ASSUME TypeInv, OrderInv, Owner
  PROVE  TypeInv'
<1>. DEFINE step == row.current_step
            started == PatchStep(row, step, Record("running", Len(jobs) + 1))
            failed == PatchStep(row, step, Record("failed", NoJob))
<1>1. Formed(row)
  BY DEF TypeInv, RowTyped
<1>2. /\ Record("running", Len(jobs) + 1) \in StepRecords
      /\ Record("failed", NoJob) \in StepRecords
  BY DEF OrderInv, JobsTyped, Record, StepRecords, RecordStatuses, NoJob
<1>3. step \in Steps => Formed(started) /\ Formed(failed)
  BY <1>1, <1>2, PatchFormed
<1>4. row.status # "completed" => step \in Steps
  BY DEF OrderInv, RowHolds, Sound
<1>5. ASSUME NEW s \in DOMAIN row.steps
      PROVE  Formed([row EXCEPT !.status = "running", !.current_step = s])
  <2>. DEFINE r == [row EXCEPT !.status = "running"]
  <2>1. Formed(r) /\ r.steps = row.steps
    BY <1>1, StatusFormed DEF Statuses, Formed, Bodies
  <2>2. [row EXCEPT !.status = "running", !.current_step = s] = [r EXCEPT !.current_step = s]
    OBVIOUS
  <2>. HIDE DEF r
  <2>. QED
    BY <2>1, <2>2, StepFormed
<1>6. step \in Steps =>
        Formed([started EXCEPT !.status = "running"]) /\ Formed([failed EXCEPT !.status = "failed"])
  <2>. HIDE DEF started, failed
  <2>. QED
    BY <1>3, StatusFormed DEF Statuses
<1>7. CASE Start
  <2>1. row.status = "pending" /\ UNCHANGED <<row, lock, pc, doc, refunded>>
    BY <1>7 DEF Start
  <2>2. Submit([started EXCEPT !.status = "running"]) \/ Submit([failed EXCEPT !.status = "failed"])
    BY <1>7 DEF Start
  <2>. HIDE DEF started, failed, step
  <2>. QED
    BY <1>4, <1>6, <2>1, <2>2, SubmitTyped
<1>8. CASE Retry
  <2>1. row.status = "failed" /\ row.status # "completed"
    BY <1>8 DEF Retry
  <2>2. UNCHANGED <<row, lock, pc, doc, refunded>>
    BY <1>8 DEF Retry
  <2>3. CASE Submit([started EXCEPT !.status = "running"])
    <3>. HIDE DEF started, step
    <3>. QED
      BY <1>4, <1>6, <2>1, <2>2, <2>3, SubmitTyped
  <2>4. ASSUME NEW s \in DOMAIN row.steps, Submit([row EXCEPT !.status = "running", !.current_step = s])
        PROVE  TypeInv'
    BY <1>5, <2>2, <2>4, SubmitTyped
  <2>. QED
    BY <1>8, <2>3, <2>4 DEF Retry
<1>9. CASE Change
  <2>1. UNCHANGED <<row, lock, pc, doc, refunded>>
    BY <1>9 DEF Change
  <2>2. \/ Submit([row EXCEPT !.status = "running"])
        \/ Submit([row EXCEPT !.status = "paused"])
        \/ Submit([row EXCEPT !.run_auto = "off"])
    BY <1>9 DEF Change
  <2>3. /\ Formed([row EXCEPT !.status = "running"]) /\ Formed([row EXCEPT !.status = "paused"])
        /\ Formed([row EXCEPT !.run_auto = "off"])
    BY <1>1, StatusFormed, AutoFormed DEF Statuses
  <2>. QED
    BY <2>1, <2>2, <2>3, SubmitTyped
<1>10. CASE Put
  <2>1. edit # None /\ edit' = None /\ UNCHANGED <<lock, pc, doc>>
    BY <1>10 DEF Put
  <2>2. Formed(edit.body)
    BY <2>1 DEF TypeInv, EditTyped
  <2>3. RowTyped'
    BY <1>10, <2>2, StoredFormed DEF Put, RowTyped, TypeInv
  <2>4. refunded' \in BOOLEAN
    BY <1>10 DEF Put, TypeInv
  <2>5. \A a \in Actors : ActorTyped(a)'
    BY <2>1 DEF TypeInv, ActorTyped
  <2>. QED
    BY <2>1, <2>3, <2>4, <2>5 DEF TypeInv, EditTyped
<1>. QED
  BY <1>7, <1>8, <1>9, <1>10 DEF Owner

LEMMA TypesInit == Init => TypeInv
<1>. SUFFICES ASSUME Init PROVE TypeInv
  OBVIOUS
<1>. DEFINE keys == {FirstStep} \union Placeholders
            f == [s \in keys |-> Record("pending", NoJob)]
<1>1. keys \subseteq Steps /\ FirstStep \in keys /\ RunAuto \in {"int", "string"}
  BY FirstStepAssumption, RunAutoAssumption
<1>2. JsonbFirst(keys) \in keys
  BY <1>1, FirstKey
<1>3. row = [status |-> "pending", current_step |-> FirstStep, run_auto |-> RunAuto, steps |-> f, first |-> JsonbFirst(keys)]
  BY DEF Init
<1>4. f \in [keys -> StepRecords] /\ DOMAIN f = keys
  BY DEF Record, StepRecords, RecordStatuses, NoJob
<1>. HIDE DEF f
<1>5. row \in Bodies
  BY <1>1, <1>2, <1>3, <1>4 DEF Bodies, Statuses
<1>6. RowTyped
  BY <1>1, <1>2, <1>3, <1>4, <1>5 DEF RowTyped, Formed
<1>7. /\ lock = None /\ edit = None /\ refunded = FALSE
      /\ \A a \in Actors : pc[a] = "idle" /\ doc[a] = None
  BY DEF Init
<1>8. None \notin Actors
  BY ActorsAssumption DEF Actors
<1>. QED
  BY <1>6, <1>7, <1>8 DEF TypeInv, EditTyped, ActorTyped

LEMMA TypesNext == TypeInv /\ OrderInv /\ [Next]_vars => TypeInv'
<1>. SUFFICES ASSUME TypeInv, OrderInv, [Next]_vars PROVE TypeInv'
  OBVIOUS
<1>1. CASE UNCHANGED vars \/ \E i \in DOMAIN jobs : JobEnds(i)
  <2>1. UNCHANGED <<row, lock, pc, doc, edit, refunded>>
    BY <1>1 DEF vars, JobEnds
  <2>2. \A a \in Actors : ActorTyped(a)'
    BY <2>1 DEF TypeInv, ActorTyped
  <2>. QED
    BY <2>1, <2>2 DEF TypeInv, RowTyped, EditTyped
<1>. QED
  BY <1>1, AdvanceTyped, OwnerTyped DEF Next

\* The invariant gives the types of the model.
LEMMA TypesFollow == TypeInv /\ OrderInv => TypeOK
<1>. SUFFICES ASSUME TypeInv, OrderInv PROVE TypeOK
  OBVIOUS
<1>1. ASSUME NEW d, Formed(d), Sound(d, jobs) PROVE IsDoc(d)
  <2>1. d \in Bodies /\ DOMAIN d = Fields
    BY <1>1, BodyFields DEF Formed
  <2>2. /\ \A s \in DOMAIN d.steps : d.steps[s].status \in RecordStatuses
        /\ \A s \in DOMAIN d.steps : d.steps[s].job \in {NoJob} \union DOMAIN jobs
        /\ \A s \in DOMAIN d.steps : d.steps[s].job # NoJob => jobs[d.steps[s].job].step = s
    BY <1>1, <2>1, BodyFields DEF Sound, Fits, StepRecords
  <2>. QED
    BY <1>1, <2>1, <2>2 DEF IsDoc, Formed, Bodies, Fields, Statuses, RecordStatuses
<1>2. IsDoc(row) /\ row.first = JsonbFirst(DOMAIN row.steps)
  BY <1>1 DEF TypeInv, RowTyped, OrderInv, RowHolds
<1>3. edit # None => IsDoc(edit.body)
  BY <1>1 DEF TypeInv, EditTyped, OrderInv, EditHolds
<1>4. ASSUME NEW a \in Actors, pc[a] \notin {"idle", "read"} PROVE IsDoc(doc[a])
  <2>1. pc[a] \in {"query", "claim", "trigger", "persist"}
    BY <1>4 DEF TypeInv, ActorTyped
  <2>. QED
    BY <1>1, <2>1, AtWorkTyped
<1>5. jobs \in Seq([step : Steps, state : {"running", "succeeded", "failed"}])
  BY DEF OrderInv, JobsTyped, JobRecords
<1>. QED
  BY <1>2, <1>3, <1>4, <1>5 DEF TypeOK, TypeInv, ActorTyped

(* Bodies and records keep their form, every body points to jobs of its own
   steps, and the row is locked exactly between a machine's claim and its
   commit: whatever fails and whatever the owner does (advance_one_task). *)
THEOREM BodiesFit == Spec => []TypeOK
BY OrderInitInv, OrderNextInv, TypesInit, TypesNext, TypesFollow, PTL DEF Spec

-----------------------------------------------------------------------------
(* No step is triggered twice, and the task only moves on: as long as no   *)
(* routine is cut short and the owner does not send the task back.         *)
(*                                                                         *)
(* A claim asks the row and not the jobs.  It is enough because the        *)
(* pipeline does not turn back (Rank), no body calls a step triggered that *)
(* is ahead of its own (Frontier), no job is ahead of the row but that of  *)
(* the actor about to record it (JobsBehind), and until it does nobody     *)
(* else has that job in hand (Hidden).                                     *)

NobodyCutShort == "crash" \notin Faults
OwnerSendsNothingBack == "retry" \notin ClientMoves

\* How far a step is in the pipeline.
Rank ==
  [s \in Steps \union {"completed"} |->
    CASE s = "subtitle_extract" -> 1
      [] s = "subtitle_removal" -> 2
      [] s = "subsync" -> 3
      [] s = "popular_learning" -> 4
      [] s = "fast_generate_writing" -> 4
      [] s = "generate_writing" -> 5
      [] s = "generate_fast_writing_clip_data" -> 5
      [] s = "clip_data" -> 6
      [] s = "video_composing" -> 7
      [] s = "completed" -> 8]

JobOf(d, s) == StepRecord(d, s).job

\* The actor has a body in memory.
AtWork(a) == pc[a] \in {"query", "claim", "trigger", "persist"}

\* An actor at l with body d has claimed a step, and the row does not say yet
\* what became of it.
Claiming(l, d) ==
  \/ l = "trigger"
  \/ l = "persist" /\ d.status # "completed" /\ (d.status = "failed" => CurrentJob(d) = NoJob)
HasClaimed(a) == Claiming(pc[a], doc[a])

\* Nothing after the current step has been triggered.
Frontier(d) == \A s \in Steps : Triggered(d, s) => Rank[s] <= Rank[d.current_step]

\* The step of a body is the row's, or the row has left it when its job succeeded.
Follows(d, at, js) ==
  \/ d.current_step = at
  \/ /\ js[CurrentJob(d)].state = "succeeded" /\ Rank[d.current_step] < Rank[at]
     /\ NextStep[d.current_step] = None => at = "completed"

\* What an actor may have read, and with what it may complete or fail the task.
Reads(d, at, js) ==
  /\ d.status \in {"running", "paused"} /\ d.current_step \in Steps
  /\ Frontier(d) /\ Follows(d, at, js)

Completes(d, at, js) ==
  /\ d.status = "completed" /\ d.current_step = "completed"
  /\ \E s \in Steps :
       /\ NextStep[s] = None /\ at \in {s, "completed"}
       /\ JobOf(d, s) # NoJob /\ js[JobOf(d, s)].state = "succeeded"

Rejects(d, at, js) ==
  /\ d.status = "failed" /\ d.current_step \in Steps /\ d.current_step = at
  /\ Frontier(d) /\ CurrentJob(d) # NoJob /\ js[CurrentJob(d)].state = "failed"

Succeeded(s, js) == \E i \in DOMAIN js : js[i].step = s /\ js[i].state = "succeeded"

\* What an actor that has claimed a step knows of the row.
Claims(a) ==
  LET d == doc[a] IN
  /\ d.status \in {"running", "paused", "failed"} /\ row.status \in {"running", "paused"}
  /\ d.current_step \in Steps /\ Frontier(d)
  /\ \/ /\ a \in Machines /\ lock = a
        /\ row.current_step \in Steps /\ NextStep[row.current_step] = d.current_step
        /\ NextStep[row.current_step] # None /\ Succeeded(row.current_step, jobs)
     \/ a \in Browsers /\ lock = None /\ row.current_step = d.current_step
  /\ pc[a] = "trigger" =>
       /\ d.status # "failed" /\ CurrentJob(d) = NoJob
       /\ \A i \in DOMAIN jobs : jobs[i].step # d.current_step

\* Nobody else has a job of step s in hand.
Hidden(a, s) ==
  /\ JobOf(row, s) = NoJob
  /\ edit # None => JobOf(edit.body, s) = NoJob
  /\ \A b \in Actors \ {a} : AtWork(b) => JobOf(doc[b], s) = NoJob

ActorRace(a) ==
  /\ pc[a] \in {"query", "claim"} => Reads(doc[a], row.current_step, jobs)
  /\ HasClaimed(a) => Claims(a) /\ Hidden(a, doc[a].current_step)
  /\ pc[a] = "persist" /\ ~HasClaimed(a) =>
       Completes(doc[a], row.current_step, jobs) \/ Rejects(doc[a], row.current_step, jobs)

\* No job of step s in a body may still succeed.
Over(d, s, js) == JobOf(d, s) # NoJob => js[JobOf(d, s)].state = "failed"

RowRace ==
  /\ row.status = "completed" <=> row.current_step = "completed"
  /\ Frontier(row)
  /\ row.status = "pending" => lock = None /\ (edit = None => jobs = << >>)
  /\ row.status = "failed" => \A a \in Actors : AtWork(a) => Over(doc[a], row.current_step, jobs)

EditRace ==
  edit # None =>
    /\ edit.body.current_step = edit.current_step /\ edit.current_step \in Steps
    /\ Frontier(edit.body)
    /\ \/ /\ row.status = "pending" /\ edit.status = "pending" /\ edit.current_step = row.current_step
          /\ edit.body.status \in {"running", "failed"}
       \/ /\ row.status # "pending"
          /\ edit.status \in {"running", "paused"} /\ edit.body.status \in {"running", "paused"}

OneClaims == \A a, b \in Actors : HasClaimed(a) /\ HasClaimed(b) => a = b
LockClaims == lock # None => lock \in Machines /\ HasClaimed(lock)

JobsBehind ==
  \A i \in DOMAIN jobs :
    \/ Rank[jobs[i].step] <= Rank[row.current_step]
    \/ \E a \in Actors : pc[a] = "persist" /\ HasClaimed(a) /\ jobs[i].step = doc[a].current_step

RaceInv ==
  /\ TriggeredOnce /\ RowRace /\ EditRace
  /\ \A a \in Actors : ActorRace(a)
  /\ OneClaims /\ LockClaims /\ JobsBehind

\* What the lemmas below start from.
Sure == OrderInv /\ TypeInv /\ RaceInv

\* Every successor is further on.
LEMMA RankFacts ==
  /\ "completed" \notin Steps /\ Rank["completed"] = 8
  /\ \A s \in Steps : Rank[s] \in 1 .. 7
  /\ \A s \in Steps : NextStep[s] # None => NextStep[s] \in Steps /\ Rank[s] < Rank[NextStep[s]]
<1>1. "completed" \notin Steps /\ Rank["completed"] = 8
  BY DEF Steps, Rank
<1>2. \A s \in Steps : Rank[s] \in 1 .. 7
  BY DEF Steps, Rank
<1>3. WritingStep \in {"popular_learning", "fast_generate_writing", "generate_writing"}
  BY DEF WritingStep
<1>4. ASSUME NEW s \in Steps, NextStep[s] # None PROVE Rank[s] < Rank[NextStep[s]]
  <2>1. Rank[WritingStep] \in {4, 5} /\ WritingStep \in Steps
    BY <1>3 DEF Rank, Steps
  <2>2. CASE s \in {"subtitle_extract", "subtitle_removal", "subsync"}
    <3>1. NextStep[s] \in {"subtitle_removal", "subsync", WritingStep} /\ (s = "subtitle_removal" => NextStep[s] # "subtitle_removal") /\ (s = "subsync" => NextStep[s] = WritingStep)
      BY <1>3, <2>2 DEF NextStep, Steps
    <3>. QED
      BY <2>1, <2>2, <3>1 DEF Rank, Steps
  <2>3. CASE s \in {"popular_learning", "generate_writing", "fast_generate_writing", "generate_fast_writing_clip_data", "clip_data"}
    BY <2>3 DEF Rank, Steps, NextStep
  <2>4. CASE s = "video_composing"
    BY <1>4, <2>4 DEF NextStep, Steps
  <2>. QED
    BY <2>2, <2>3, <2>4 DEF Steps
<1>. QED
  BY <1>1, <1>2, <1>4, NextIsStep

-----------------------------------------------------------------------------
(* Jobs that bodies point to. *)

\* A job that has been created is one of a step.
LEMMA JobStep ==
  ASSUME OrderInv, NEW i \in DOMAIN jobs
  PROVE  jobs[i] \in JobRecords /\ jobs[i].step \in Steps
<1>1. jobs[i] \in JobRecords
  BY DEF OrderInv, JobsTyped
<1>. QED
  BY <1>1 DEF JobRecords

LEMMA JobsOf ==
  ASSUME NEW js, NEW d, Sound(d, js), NEW s \in Steps
  PROVE  /\ JobOf(d, s) \in {NoJob} \union DOMAIN js
         /\ JobOf(d, s) # NoJob => JobOf(d, s) \in DOMAIN js /\ js[JobOf(d, s)].step = s
BY DEF Sound, Fits, JobOf, StepRecord, Record

LEMMA CurrentOf ==
  ASSUME NEW js, NEW d, Sound(d, js), d.status # "completed"
  PROVE  /\ d.current_step \in Steps /\ d.current_step \in DOMAIN d.steps
         /\ CurrentJob(d) = JobOf(d, d.current_step) /\ CurrentRecord(d).job = CurrentJob(d)
BY DEF Sound, JobOf, StepRecord, CurrentJob, CurrentRecord

\* Two bodies that have a job for a step have the same one.
LEMMA SameJob ==
  ASSUME TriggeredOnce, NEW d, NEW e, Sound(d, jobs), Sound(e, jobs), NEW s \in Steps,
         JobOf(d, s) # NoJob, JobOf(e, s) # NoJob
  PROVE  JobOf(d, s) = JobOf(e, s)
BY JobsOf DEF TriggeredOnce

\* How the operators on bodies change what is triggered.
LEMMA PatchedJobs ==
  ASSUME NEW d, DOMAIN d = Fields, NEW s, NEW r, NEW t
  PROVE  /\ JobOf(PatchStep(d, s, r), t) = IF t = s THEN r.job ELSE JobOf(d, t)
         /\ Triggered(PatchStep(d, s, r), t) <=>
              IF t = s THEN r.job # NoJob \/ r.status \in {"running", "completed"} ELSE Triggered(d, t)
BY Patched DEF JobOf, Triggered, StepRecord

LEMMA SameRecords ==
  ASSUME NEW d, NEW e, e.steps = d.steps, NEW t
  PROVE  /\ JobOf(e, t) = JobOf(d, t)
         /\ Triggered(e, t) <=> Triggered(d, t)
BY DEF JobOf, Triggered, StepRecord

LEMMA StoredSame ==
  ASSUME NEW d, DOMAIN d = Fields
  PROVE  /\ Stored(d).steps = d.steps /\ Stored(d).status = d.status
         /\ Stored(d).current_step = d.current_step
         /\ \A t : JobOf(Stored(d), t) = JobOf(d, t)
         /\ Frontier(d) => Frontier(Stored(d))
<1>1. /\ Stored(d).steps = d.steps /\ Stored(d).status = d.status
      /\ Stored(d).current_step = d.current_step
  BY DEF Stored, Fields
<1>. QED
  BY <1>1, SameRecords DEF Frontier

\* Jobs are added and end; what has ended stays as it is.
Aged(js, ks) ==
  /\ DOMAIN js \subseteq DOMAIN ks
  /\ \A i \in DOMAIN js : ks[i].step = js[i].step
  /\ \A i \in DOMAIN js : js[i].state # "running" => ks[i].state = js[i].state

LEMMA AgedBodies ==
  ASSUME NEW js, NEW ks, Aged(js, ks), NEW d, Sound(d, js), NEW at
  PROVE  /\ Follows(d, at, js) /\ d.status # "completed" /\ CurrentJob(d) # NoJob => Follows(d, at, ks)
         /\ Reads(d, at, js) /\ CurrentJob(d) # NoJob => Reads(d, at, ks)
         /\ Completes(d, at, js) => Completes(d, at, ks)
         /\ Rejects(d, at, js) => Rejects(d, at, ks)
         /\ \A s \in Steps : Over(d, s, js) => Over(d, s, ks)
         /\ \A s : Succeeded(s, js) => Succeeded(s, ks)
<1>1. ASSUME d.status # "completed", CurrentJob(d) # NoJob PROVE CurrentJob(d) \in DOMAIN js
  BY <1>1, CurrentOf, JobsOf
<1>2. \A s \in Steps : JobOf(d, s) # NoJob => JobOf(d, s) \in DOMAIN js
  BY JobsOf
<1>3. Follows(d, at, js) /\ d.status # "completed" /\ CurrentJob(d) # NoJob => Follows(d, at, ks)
  BY <1>1 DEF Follows, Aged
<1>4. Completes(d, at, js) => Completes(d, at, ks)
  BY <1>2 DEF Completes, Aged
<1>5. Rejects(d, at, js) => Rejects(d, at, ks)
  BY <1>1 DEF Rejects, Aged
<1>6. \A s \in Steps : Over(d, s, js) => Over(d, s, ks)
  BY <1>2 DEF Over, Aged
<1>7. \A s : Succeeded(s, js) => Succeeded(s, ks)
  BY DEF Succeeded, Aged
<1>. QED
  BY <1>3, <1>4, <1>5, <1>6, <1>7 DEF Reads

\* Where an actor has a body in memory, it is sound.
LEMMA WorkersSound ==
  ASSUME Sure, NEW a \in Actors, AtWork(a)
  PROVE  /\ Sound(doc[a], jobs) /\ DOMAIN doc[a] = Fields /\ row.status # "pending"
         /\ pc[a] \in {"query", "claim"} =>
              /\ doc[a].status # "completed" /\ CurrentJob(doc[a]) # NoJob
              /\ doc[a].current_step \in Steps
<1>1. Sound(doc[a], jobs) /\ row.status # "pending"
  BY AtWorkMeansStarted DEF AtWork, Sure, OrderInv, ActorsHold, Holds
<1>. QED
  BY <1>1, CurrentOf DEF Sure, OrderInv, ActorsHold, Holds, Sound

\* The others, while one actor moves.
LEMMA OthersStand ==
  ASSUME OrderInv, NEW a \in Actors, NEW l, NEW d, Goto(a, l, d)
  PROVE  /\ pc'[a] = l /\ doc'[a] = d
         /\ \A b \in Actors \ {a} : pc'[b] = pc[b] /\ doc'[b] = doc[b]
         /\ \A b \in Actors \ {a} : HasClaimed(b)' <=> HasClaimed(b)
BY DEF Goto, OrderInv, ActorsTyped, HasClaimed

-----------------------------------------------------------------------------
(* An actor that publishes nothing. *)

\* What it has in hand comes from the row, or it had it before.
Derived(a, d) ==
  /\ \A s \in Steps : \/ JobOf(d, s) = NoJob \/ JobOf(d, s) = JobOf(row, s)
                      \/ AtWork(a) /\ JobOf(d, s) = JobOf(doc[a], s)
  /\ row.status = "failed" => AtWork(a) /\ \A s \in Steps : JobOf(d, s) \in {NoJob, JobOf(doc[a], s)}

LEMMA ThinkingRace ==
  ASSUME Sure, NEW a \in Actors, ~HasClaimed(a), NEW l, NEW d, Goto(a, l, d),
         UNCHANGED <<row, edit, jobs, lock>>,
         \/ l \in {"idle", "read"}
         \/ l \in {"query", "claim"} /\ Reads(d, row.current_step, jobs) /\ Derived(a, d)
         \/ /\ l = "persist" /\ Derived(a, d)
            /\ Completes(d, row.current_step, jobs) \/ Rejects(d, row.current_step, jobs)
  PROVE  RaceInv'
<1>1. /\ pc'[a] = l /\ doc'[a] = d
      /\ \A b \in Actors \ {a} : pc'[b] = pc[b] /\ doc'[b] = doc[b]
      /\ \A b \in Actors \ {a} : HasClaimed(b)' <=> HasClaimed(b)
  BY OthersStand DEF Sure
<1>2. ~HasClaimed(a)'
  BY <1>1 DEF HasClaimed, Claiming, Completes, Rejects
<1>3. \A b \in Actors : HasClaimed(b)' <=> HasClaimed(b)
  BY <1>1, <1>2
<1>4. ASSUME NEW s \in Steps, AtWork(a)' PROVE Derived(a, d)
  BY <1>1, <1>4 DEF AtWork
<1>5. ActorRace(a)'
  BY <1>1, <1>2 DEF ActorRace
<1>6. ASSUME NEW b \in Actors \ {a} PROVE ActorRace(b)'
  <2>1. ActorRace(b) /\ pc'[b] = pc[b] /\ doc'[b] = doc[b]
    BY <1>1 DEF Sure, RaceInv
  <2>2. ASSUME HasClaimed(b) PROVE Claims(b)' /\ Hidden(b, doc[b].current_step)'
    <3>1. Claims(b) /\ Hidden(b, doc[b].current_step) /\ doc[b].current_step \in Steps
      BY <2>1, <2>2 DEF ActorRace, Claims
    <3>2. Claims(b)'
      BY <2>1, <3>1 DEF Claims
    <3>3. ASSUME AtWork(a)' PROVE JobOf(d, doc[b].current_step) = NoJob
      BY <1>4, <3>1, <3>3 DEF Derived, Hidden
    <3>4. ASSUME NEW c \in Actors \ {b}, AtWork(c)' PROVE JobOf(doc'[c], doc[b].current_step) = NoJob
      <4>1. CASE c = a
        BY <1>1, <3>3, <3>4, <4>1
      <4>2. CASE c # a
        BY <1>1, <3>1, <3>4, <4>2 DEF Hidden, AtWork
      <4>. QED
        BY <4>1, <4>2
    <3>. QED
      BY <2>1, <3>1, <3>2, <3>4 DEF Hidden
  <2>. QED
    BY <1>3, <2>1, <2>2 DEF ActorRace
<1>7. ASSUME row.status = "failed", NEW b \in Actors, AtWork(b)'
      PROVE  Over(doc'[b], row.current_step, jobs)
  <2>1. row.current_step \in Steps
    BY <1>7, CurrentOf DEF Sure, OrderInv, RowHolds
  <2>2. CASE b = a
    <3>1. AtWork(a) /\ JobOf(d, row.current_step) \in {NoJob, JobOf(doc[a], row.current_step)}
      BY <1>4, <1>7, <2>1, <2>2 DEF Derived
    <3>2. Over(doc[a], row.current_step, jobs)
      BY <1>7, <3>1 DEF Sure, RaceInv, RowRace
    <3>. QED
      BY <1>1, <2>2, <3>1, <3>2 DEF Over
  <2>3. CASE b # a
    BY <1>1, <1>7, <2>3 DEF AtWork, Sure, RaceInv, RowRace
  <2>. QED
    BY <2>2, <2>3
<1>8. RowRace'
  BY <1>7 DEF Sure, RaceInv, RowRace
<1>9. OneClaims' /\ LockClaims'
  BY <1>3, ActorsAssumption DEF Sure, RaceInv, OneClaims, LockClaims, Actors
<1>10. JobsBehind'
  <2>1. \A b \in Actors : pc[b] = "persist" /\ HasClaimed(b) => pc'[b] = "persist" /\ doc'[b] = doc[b]
    BY <1>1
  <2>. QED
    BY <1>3, <2>1 DEF Sure, RaceInv, JobsBehind
<1>11. TriggeredOnce' /\ EditRace'
  BY DEF Sure, RaceInv, TriggeredOnce, EditRace
<1>. QED
  BY <1>5, <1>6, <1>8, <1>9, <1>10, <1>11 DEF RaceInv

\* A body whose current job has succeeded, and the row has followed or is to follow.
LEMMA ResolveRace ==
  ASSUME Sure, NEW a \in Actors, ~HasClaimed(a), NEW d, Resolve(a, d), Sound(d, jobs),
         Reads(d, row.current_step, jobs), CurrentJob(d) # NoJob,
         jobs[CurrentJob(d)].state = "succeeded", Derived(a, d),
         UNCHANGED <<row, edit, jobs, lock>>
  PROVE  RaceInv'
<1>. DEFINE next == NextStep[d.current_step]
            e == [d EXCEPT !.status = "completed", !.current_step = "completed"]
<1>1. /\ DOMAIN d = Fields /\ d.current_step \in Steps /\ Frontier(d)
      /\ CurrentJob(d) = JobOf(d, d.current_step)
  BY CurrentOf DEF Sound, Reads
<1>2. ASSUME next # None PROVE ~Triggered(d, next)
  BY <1>1, <1>2, RankFacts DEF Frontier
<1>3. CASE next = None /\ Goto(a, "persist", e)
  <2>1. e.status = "completed" /\ e.current_step = "completed" /\ e.steps = d.steps
    BY <1>1 DEF Fields
  <2>2. \A s : JobOf(e, s) = JobOf(d, s)
    BY <2>1, SameRecords
  <2>3. row.current_step \in {d.current_step, "completed"}
    BY <1>3 DEF Reads, Follows
  <2>4. Completes(e, row.current_step, jobs)
    BY <1>1, <1>3, <2>1, <2>2, <2>3 DEF Completes
  <2>5. Derived(a, e)
    BY <2>2 DEF Derived
  <2>. HIDE DEF e
  <2>. QED
    BY <1>3, <2>4, <2>5, ThinkingRace
<1>4. CASE Goto(a, "claim", d)
  BY <1>4, ThinkingRace
<1>. QED
  BY <1>2, <1>3, <1>4 DEF Resolve

LEMMA ReadRace ==
  ASSUME Sure, NEW a \in Actors, Read(a)
  PROVE  RaceInv'
<1>1. pc[a] = "read" /\ UNCHANGED <<row, edit, jobs, lock>> /\ ~HasClaimed(a) /\ row.status # "pending"
  BY AtWorkMeansStarted DEF Read, HasClaimed, Claiming, Sure
<1>2. CASE Leave(a)
  BY <1>1, <1>2, ThinkingRace DEF Leave
<1>3. CASE Advanceable(row)
  <2>1. Sound(row, jobs) /\ Frontier(row) /\ row.status \in Statuses
    BY DEF Sure, OrderInv, RowHolds, RaceInv, RowRace, TypeInv, RowTyped, Formed, Bodies
  <2>2. row.status \in {"running", "paused"} /\ row.current_step \in Steps
    BY <1>1, <1>3, <2>1 DEF Advanceable, Terminal, Statuses
  <2>3. CurrentJob(row) # NoJob /\ row.current_step \in DOMAIN row.steps
    BY <1>3, <2>1, <2>2, CurrentOf DEF Advanceable, JobOf
  <2>4. Reads(row, row.current_step, jobs) /\ Derived(a, row)
    BY <2>1, <2>2 DEF Reads, Follows, Derived
  <2>5. CASE Goto(a, "query", row)
    BY <1>1, <2>4, <2>5, ThinkingRace
  <2>6. CASE row.steps[row.current_step].status = "completed" /\ Resolve(a, row)
    <3>1. jobs[CurrentJob(row)].state = "succeeded"
      BY <2>1, <2>3, <2>6 DEF Sound, Fits, CurrentJob
    <3>. QED
      BY <1>1, <2>1, <2>3, <2>4, <2>6, <3>1, ResolveRace
  <2>. QED
    BY <1>2, <1>3, <2>5, <2>6 DEF Read
<1>. QED
  BY <1>2, <1>3 DEF Read

LEMMA AnsweredRace ==
  ASSUME Sure, NEW a \in Actors, Answered(a)
  PROVE  RaceInv'
<1>. DEFINE d == doc[a]
            step == d.current_step
            Ended(status) == PatchStep(d, step, Record(status, CurrentRecord(d).job))
            f == Ended("failed")
            e == [f EXCEPT !.status = "failed"]
            c == Ended("completed")
<1>1. pc[a] = "query" /\ UNCHANGED <<row, edit, jobs, lock>> /\ ~HasClaimed(a) /\ AtWork(a)
  BY DEF Answered, HasClaimed, Claiming, AtWork
<1>2. /\ Sound(d, jobs) /\ DOMAIN d = Fields /\ d.status # "completed"
      /\ CurrentJob(d) # NoJob /\ step \in Steps /\ Reads(d, row.current_step, jobs)
      /\ step \in DOMAIN d.steps /\ CurrentJob(d) = JobOf(d, step) /\ CurrentRecord(d).job = CurrentJob(d)
  BY <1>1, WorkersSound, CurrentOf DEF Sure, RaceInv, ActorRace
<1>3. JobState(d) = jobs[CurrentJob(d)].state /\ CurrentJob(d) \in DOMAIN jobs /\ jobs[CurrentJob(d)].step = step
  BY <1>2, JobsOf DEF JobState
<1>4. ASSUME NEW status \in {"failed", "completed"}
      PROVE  /\ DOMAIN Ended(status) = Fields
             /\ Ended(status).status = d.status /\ Ended(status).current_step = step
             /\ \A s : JobOf(Ended(status), s) = JobOf(d, s)
             /\ CurrentJob(Ended(status)) = CurrentJob(d)
             /\ Frontier(Ended(status))
  <2>. DEFINE r == Record(status, CurrentRecord(d).job)
              p == PatchStep(d, step, r)
  <2>1. r.job = CurrentJob(d)
    BY <1>2 DEF Record
  <2>2. /\ DOMAIN p = Fields /\ p.status = d.status /\ p.current_step = step
        /\ p.steps[step] = r
    BY <1>2, Patched
  <2>. HIDE DEF r
  <2>3. \A s : JobOf(p, s) = JobOf(d, s)
    BY <1>2, <2>1, PatchedJobs
  <2>4. \A s \in Steps : Triggered(p, s) => s = step \/ Triggered(d, s)
    BY <1>2, PatchedJobs
  <2>5. Rank[step] \in Nat
    BY <1>2, RankFacts
  <2>6. CurrentJob(p) = CurrentJob(d)
    BY <2>1, <2>2 DEF CurrentJob
  <2>. HIDE DEF p
  <2>7. Frontier(p)
    BY <1>2, <2>2, <2>4, <2>5 DEF Frontier, Reads
  <2>. QED
    BY <2>2, <2>3, <2>6, <2>7 DEF p, r
<1>5. Derived(a, f) /\ Derived(a, c)
  BY <1>1, <1>4 DEF Derived
<1>6. CASE Leave(a)
  BY <1>1, <1>6, ThinkingRace DEF Leave
<1>7. CASE JobState(d) = "failed" /\ Goto(a, "persist", e)
  <2>1. DOMAIN f = Fields /\ f.current_step = step /\ CurrentJob(f) = CurrentJob(d) /\ Frontier(f)
    BY <1>4
  <2>. HIDE DEF f
  <2>2. e.status = "failed" /\ e.current_step = step /\ e.steps = f.steps
    BY <2>1 DEF Fields
  <2>3. CurrentJob(e) = CurrentJob(d) /\ Frontier(e) /\ \A s : JobOf(e, s) = JobOf(f, s)
    BY <2>1, <2>2, SameRecords DEF CurrentJob, Frontier
  <2>4. step = row.current_step
    BY <1>2, <1>3, <1>7 DEF Reads, Follows
  <2>5. Rejects(e, row.current_step, jobs)
    BY <1>2, <1>3, <1>7, <2>2, <2>3, <2>4 DEF Rejects
  <2>6. Derived(a, e)
    BY <1>5, <2>3 DEF Derived
  <2>. HIDE DEF e
  <2>. QED
    BY <1>1, <1>7, <2>5, <2>6, ThinkingRace
<1>8. CASE JobState(d) = "succeeded" /\ Resolve(a, c)
  <2>1. Sound(c, jobs)
    <3>1. Fits(Record("completed", CurrentRecord(d).job), step, jobs)
      BY <1>2, <1>3, <1>8 DEF Fits, Record
    <3>. QED
      BY <1>2, <3>1, PatchedSound
  <2>2. /\ c.status = d.status /\ c.current_step = step /\ CurrentJob(c) = CurrentJob(d) /\ Frontier(c)
    BY <1>4
  <2>. HIDE DEF c
  <2>3. Reads(c, row.current_step, jobs)
    BY <1>2, <2>2 DEF Reads, Follows
  <2>. QED
    BY <1>1, <1>2, <1>3, <1>5, <1>8, <2>1, <2>2, <2>3, ResolveRace
<1>. QED
  BY <1>6, <1>7, <1>8 DEF Answered

-----------------------------------------------------------------------------
(* Claims. *)

\* Nobody else has claimed anything where a claim succeeds, and the step claimed
\* has no job.
LEMMA ClaimAlone ==
  ASSUME Sure, NEW a \in Actors, pc[a] = "claim", lock = None, CasHolds(doc[a].current_step)
  PROVE  /\ \A b \in Actors : ~HasClaimed(b)
         /\ \A i \in DOMAIN jobs : Rank[jobs[i].step] <= Rank[row.current_step]
<1>1. /\ Sound(doc[a], jobs) /\ doc[a].current_step = row.current_step /\ row.current_step \in Steps
      /\ JobOf(doc[a], row.current_step) # NoJob
  BY WorkersSound, CurrentOf DEF AtWork, CasHolds
<1>2. ASSUME NEW b \in Actors, HasClaimed(b) PROVE FALSE
  <2>1. a # b /\ AtWork(a)
    BY <1>2 DEF HasClaimed, Claiming, AtWork
  <2>2. Claims(b) /\ Hidden(b, doc[b].current_step)
    BY <1>2 DEF Sure, RaceInv, ActorRace
  <2>3. None \notin Machines
    BY ActorsAssumption
  <2>4. doc[b].current_step = row.current_step
    BY <2>2, <2>3 DEF Claims
  <2>. QED
    BY <1>1, <2>1, <2>2, <2>4 DEF Hidden
<1>3. \A i \in DOMAIN jobs : Rank[jobs[i].step] <= Rank[row.current_step]
  BY <1>2 DEF Sure, RaceInv, JobsBehind
<1>. QED
  BY <1>2, <1>3

\* A body in which the row's step has no job.
LEMMA NoJobAhead ==
  ASSUME NEW js, NEW d, Sound(d, js), NEW s \in Steps, \A i \in DOMAIN js : js[i].step # s
  PROVE  JobOf(d, s) = NoJob
BY JobsOf

LEMMA ClaimRace ==
  ASSUME Sure, NEW a \in Actors, Claim(a)
  PROVE  RaceInv'
<1>. DEFINE d == doc[a]
            step == d.current_step
            next == NextStep[step]
            p == PatchStep(d, next, Record("running", NoJob))
            e == [p EXCEPT !.current_step = next]
<1>1. pc[a] = "claim" /\ lock = None /\ UNCHANGED <<edit, jobs>> /\ ~HasClaimed(a) /\ AtWork(a)
  BY DEF Claim, HasClaimed, Claiming, AtWork
<1>2. CASE Leave(a) /\ UNCHANGED <<row, lock>>
  BY <1>1, <1>2, ThinkingRace DEF Leave
<1>3. CASE /\ CasHolds(step) /\ Goto(a, "trigger", e)
           /\ \/ a \in Machines /\ lock' = a /\ UNCHANGED row
              \/ a \in Browsers /\ row' = Stored(e) /\ UNCHANGED lock
  <2>1. /\ Sound(d, jobs) /\ DOMAIN d = Fields /\ d.status # "completed" /\ row.status # "pending"
        /\ CurrentJob(d) # NoJob /\ step \in Steps /\ CurrentJob(d) = JobOf(d, step)
        /\ CurrentJob(d) \in DOMAIN jobs /\ jobs[CurrentJob(d)].step = step
        /\ d.status \in {"running", "paused"} /\ Frontier(d)
    BY <1>1, WorkersSound, CurrentOf, JobsOf DEF Sure, RaceInv, ActorRace, Reads
  <2>2. /\ step = row.current_step /\ row.status \in {"running", "paused"}
        /\ jobs[CurrentJob(d)].state = "succeeded" /\ next # None
    BY <1>1, <1>3, <2>1 DEF CasHolds, Sure, OrderInv, ActorsHold, Holds
  <2>3. next \in Steps /\ Rank[step] < Rank[next] /\ next # step /\ Rank[next] \in Nat /\ Rank[step] \in Nat
        /\ step # "completed" /\ next # "completed"
    BY <2>1, <2>2, RankFacts
  <2>4. /\ \A b \in Actors : ~HasClaimed(b)
        /\ \A i \in DOMAIN jobs : Rank[jobs[i].step] <= Rank[step]
    BY <1>1, <1>3, <2>2, ClaimAlone
  <2>5. \A i \in DOMAIN jobs : jobs[i].step # next
    BY <2>3, <2>4
  <2>6. /\ DOMAIN e = Fields /\ e.status = d.status /\ e.current_step = next /\ CurrentJob(e) = NoJob
        /\ Frontier(e) /\ JobOf(e, next) = NoJob
    <3>1. /\ DOMAIN p = Fields /\ p.status = d.status /\ p.steps[next] = Record("running", NoJob)
          /\ \A s \in Steps : Triggered(p, s) => s = next \/ Triggered(d, s)
          /\ JobOf(p, next) = NoJob
      BY <2>1, Patched, PatchedJobs DEF Record
    <3>. HIDE DEF p
    <3>2. DOMAIN e = Fields /\ e.status = d.status /\ e.current_step = next /\ e.steps = p.steps
      BY <3>1 DEF Fields
    <3>3. \A s \in Steps : Triggered(e, s) => s = next \/ Triggered(d, s)
      BY <3>1, <3>2, SameRecords
    <3>4. \A s \in Steps : Rank[s] \in Nat
      BY RankFacts
    <3>5. Frontier(e)
      BY <2>1, <2>3, <3>2, <3>3, <3>4 DEF Frontier
    <3>6. CurrentJob(e) = NoJob
      BY <3>1, <3>2 DEF CurrentJob, Record
    <3>7. JobOf(e, next) = NoJob
      BY <3>1, <3>2, SameRecords
    <3>. QED
      BY <3>2, <3>5, <3>6, <3>7
  <2>. HIDE DEF p, e
  <2>7. /\ pc'[a] = "trigger" /\ doc'[a] = e
        /\ \A b \in Actors \ {a} : pc'[b] = pc[b] /\ doc'[b] = doc[b]
        /\ \A b \in Actors \ {a} : HasClaimed(b)' <=> HasClaimed(b)
    BY <1>3, OthersStand DEF Sure
  <2>8. HasClaimed(a)' /\ \A b \in Actors \ {a} : ~HasClaimed(b)'
    BY <2>4, <2>7 DEF HasClaimed, Claiming
  <2>9. row'.status \in {"running", "paused"} /\ Frontier(row') /\ row'.current_step \in {step, next}
        /\ JobOf(row', next) = NoJob
    <3>1. CASE UNCHANGED row
      <4>1. Sound(row, jobs) /\ Frontier(row)
        BY DEF Sure, OrderInv, RowHolds, RaceInv, RowRace
      <4>. QED
        BY <2>2, <2>3, <2>5, <3>1, <4>1, NoJobAhead
    <3>2. CASE row' = Stored(e)
      BY <2>1, <2>6, <3>2, StoredSame
    <3>. QED
      BY <1>3, <3>1, <3>2
  <2>10. Hidden(a, doc[a].current_step)'
    <3>1. edit # None => JobOf(edit.body, next) = NoJob
      <4>1. edit # None => Sound(edit.body, jobs)
        BY DEF Sure, OrderInv, EditHolds
      <4>. QED
        BY <2>3, <2>5, <4>1, NoJobAhead
    <3>2. ASSUME NEW b \in Actors \ {a}, AtWork(b) PROVE JobOf(doc[b], next) = NoJob
      <4>1. Sound(doc[b], jobs)
        BY <3>2, WorkersSound
      <4>. QED
        BY <2>3, <2>5, <4>1, NoJobAhead
    <3>. QED
      BY <1>1, <2>6, <2>7, <2>9, <3>1, <3>2 DEF Hidden, AtWork
  <2>11. Succeeded(step, jobs)
    BY <2>1, <2>2 DEF Succeeded
  <2>12. Claims(a)'
    <3>1. \/ /\ a \in Machines /\ lock' = a
             /\ row'.current_step = step
          \/ a \in Browsers /\ lock' = None /\ row'.current_step = next
      <4>1. CASE a \in Machines /\ lock' = a /\ UNCHANGED row
        BY <2>2, <4>1
      <4>2. CASE a \in Browsers /\ row' = Stored(e) /\ UNCHANGED lock
        BY <1>1, <2>6, <4>2, StoredSame
      <4>. QED
        BY <1>3, <4>1, <4>2
    <3>2. doc'[a].status \in {"running", "paused"} /\ doc'[a].current_step = next /\ CurrentJob(doc'[a]) = NoJob /\ Frontier(doc'[a])
      BY <2>1, <2>6, <2>7
    <3>. QED
      BY <1>1, <2>1, <2>2, <2>3, <2>5, <2>9, <2>11, <3>1, <3>2 DEF Claims
  <2>13. ActorRace(a)'
    BY <2>6, <2>7, <2>10, <2>12 DEF ActorRace
  <2>14. ASSUME NEW b \in Actors \ {a} PROVE ActorRace(b)'
    <3>1. ActorRace(b) /\ ~HasClaimed(b) /\ pc'[b] = pc[b] /\ doc'[b] = doc[b]
      BY <2>4, <2>7 DEF Sure, RaceInv
    <3>2. ASSUME pc[b] \in {"query", "claim"} PROVE Reads(doc[b], row'.current_step, jobs)
      <4>1. /\ Reads(doc[b], step, jobs) /\ Sound(doc[b], jobs) /\ doc[b].status # "completed"
            /\ CurrentJob(doc[b]) # NoJob /\ doc[b].current_step \in Steps
        BY <2>2, <3>1, <3>2, WorkersSound DEF ActorRace, AtWork
      <4>2. CASE row'.current_step = step
        BY <4>1, <4>2
      <4>3. CASE row'.current_step = next
        <5>1. CASE doc[b].current_step = step
          <6>1. JobOf(doc[b], step) # NoJob /\ CurrentJob(doc[b]) = JobOf(doc[b], step)
            BY <4>1, <5>1, CurrentOf
          <6>2. TriggeredOnce
            BY DEF Sure, RaceInv
          <6>3. CurrentJob(doc[b]) = CurrentJob(d)
            BY <2>1, <4>1, <6>1, <6>2, SameJob
          <6>. QED
            BY <2>2, <2>3, <4>1, <4>3, <5>1, <6>3 DEF Reads, Follows
        <5>2. CASE doc[b].current_step # step
          <6>1. Rank[doc[b].current_step] \in Nat
            BY <4>1, RankFacts
          <6>. QED
            BY <2>3, <4>1, <4>3, <5>2, <6>1 DEF Reads, Follows
        <5>. QED
          BY <5>1, <5>2
      <4>. QED
        BY <2>9, <4>2, <4>3
    <3>3. ASSUME pc[b] = "persist" PROVE FALSE
      <4>1. Sound(doc[b], jobs)
        BY <3>3, WorkersSound DEF AtWork
      <4>2. Completes(doc[b], step, jobs) \/ Rejects(doc[b], step, jobs)
        BY <2>2, <3>1, <3>3 DEF ActorRace
      <4>3. CASE Completes(doc[b], step, jobs)
        BY <2>2, <2>3, <4>3 DEF Completes
      <4>4. CASE Rejects(doc[b], step, jobs)
        <5>1. JobOf(doc[b], step) # NoJob /\ CurrentJob(doc[b]) = JobOf(doc[b], step)
          BY <4>1, <4>4, CurrentOf DEF Rejects
        <5>2. TriggeredOnce
          BY DEF Sure, RaceInv
        <5>3. CurrentJob(doc[b]) = CurrentJob(d)
          BY <2>1, <4>1, <5>1, <5>2, SameJob
        <5>. QED
          BY <2>2, <4>4, <5>3 DEF Rejects
      <4>. QED
        BY <4>2, <4>3, <4>4
    <3>. QED
      BY <1>1, <2>8, <3>1, <3>2, <3>3 DEF ActorRace
  <2>15. RowRace'
    BY <2>3, <2>9 DEF RowRace
  <2>16. EditRace'
    BY <1>1, <2>1, <2>9 DEF Sure, RaceInv, EditRace
  <2>17. OneClaims' /\ LockClaims'
    BY <1>1, <1>3, <2>8 DEF OneClaims, LockClaims
  <2>18. JobsBehind'
    <3>1. \A i \in DOMAIN jobs : Rank[jobs[i].step] \in Nat
      BY JobStep, RankFacts DEF Sure
    <3>2. Rank[row'.current_step] \in {Rank[step], Rank[next]}
      BY <2>9
    <3>. QED
      BY <1>1, <2>3, <2>4, <3>1, <3>2 DEF JobsBehind
  <2>19. TriggeredOnce'
    BY <1>1 DEF Sure, RaceInv, TriggeredOnce
  <2>. QED
    BY <2>13, <2>14, <2>15, <2>16, <2>17, <2>18, <2>19 DEF RaceInv
<1>. QED
  BY <1>2, <1>3 DEF Claim

-----------------------------------------------------------------------------
(* Triggers and writes. *)

\* While an actor has a claim, nobody else is about to write, and what others
\* have read follows the row to the step claimed.
LEMMA ClaimantWrites ==
  ASSUME Sure, NEW a \in Actors, HasClaimed(a), NEW b \in Actors \ {a}
  PROVE  /\ ~HasClaimed(b) /\ pc[b] \notin {"trigger", "persist"}
         /\ pc[b] \in {"query", "claim"} => Reads(doc[b], doc[a].current_step, jobs)
<1>. DEFINE n == doc[a].current_step
            p == row.current_step
            d == doc[b]
<1>1. Claims(a) /\ Hidden(a, n) /\ n \in Steps /\ ActorRace(b) /\ TriggeredOnce
  BY DEF Sure, RaceInv, ActorRace, Claims
<1>2. ~HasClaimed(b)
  BY DEF Sure, RaceInv, OneClaims
<1>3. p \in Steps /\ p # "completed" /\ n # "completed"
  BY <1>1, RankFacts DEF Claims
<1>4. ASSUME NEW c, c = d, AtWork(b), c.status # "completed", c.current_step = p, CurrentJob(c) # NoJob
      PROVE  jobs[CurrentJob(c)].state = "succeeded" /\ p # n
  <2>1. Sound(c, jobs)
    BY <1>4, WorkersSound
  <2>2. CurrentJob(c) = JobOf(c, p) /\ CurrentJob(c) \in DOMAIN jobs /\ jobs[CurrentJob(c)].step = p
    BY <1>3, <1>4, <2>1, CurrentOf, JobsOf
  <2>3. p # n
    BY <1>1, <1>4, <2>2 DEF Hidden
  <2>4. Succeeded(p, jobs)
    BY <1>1, <2>3 DEF Claims
  <2>. QED
    BY <1>1, <2>2, <2>3, <2>4 DEF Succeeded, TriggeredOnce
<1>5. ASSUME pc[b] = "persist" PROVE FALSE
  <2>1. Completes(d, p, jobs) \/ Rejects(d, p, jobs)
    BY <1>1, <1>2, <1>5 DEF ActorRace
  <2>2. CASE Completes(d, p, jobs)
    <3>1. NextStep[p] = None /\ JobOf(d, p) # NoJob
      BY <1>3, <2>2 DEF Completes
    <3>2. p = n
      BY <1>1, <3>1 DEF Claims
    <3>. QED
      BY <1>1, <1>5, <3>1, <3>2 DEF Hidden, AtWork
  <2>3. CASE Rejects(d, p, jobs)
    BY <1>4, <1>5, <2>3 DEF Rejects, AtWork
  <2>. QED
    BY <2>1, <2>2, <2>3
<1>6. pc[b] # "trigger"
  BY <1>2 DEF HasClaimed, Claiming
<1>7. ASSUME pc[b] \in {"query", "claim"} PROVE Reads(d, n, jobs)
  <2>1. Reads(d, p, jobs) /\ d.status # "completed" /\ CurrentJob(d) # NoJob /\ d.current_step \in Steps
    BY <1>1, <1>7, WorkersSound DEF ActorRace, AtWork
  <2>2. CASE p = n
    BY <2>1, <2>2
  <2>3. CASE p # n
    <3>1. NextStep[p] = n /\ NextStep[p] # None
      BY <1>1, <2>3 DEF Claims
    <3>2. Rank[p] < Rank[n] /\ Rank[p] \in Nat /\ Rank[n] \in Nat /\ Rank[d.current_step] \in Nat
      BY <1>1, <1>3, <2>1, <3>1, RankFacts
    <3>3. CASE d.current_step = p
      <4>1. jobs[CurrentJob(d)].state = "succeeded"
        BY <1>4, <1>7, <2>1, <3>3 DEF AtWork
      <4>. QED
        BY <2>1, <3>1, <3>2, <3>3, <4>1 DEF Reads, Follows
    <3>4. CASE d.current_step # p
      BY <1>3, <2>1, <3>2, <3>4 DEF Reads, Follows
    <3>. QED
      BY <3>3, <3>4
  <2>. QED
    BY <2>2, <2>3
<1>. QED
  BY <1>2, <1>5, <1>6, <1>7

LEMMA TriggerRace ==
  ASSUME Sure, NEW a \in Actors, Trigger(a)
  PROVE  RaceInv'
<1>. DEFINE d == doc[a]
            step == d.current_step
            started == PatchStep(d, step, Record("running", Len(jobs) + 1))
            f == PatchStep(d, step, Record("failed", CurrentRecord(d).job))
            failed == [f EXCEPT !.status = "failed"]
<1>1. /\ pc[a] = "trigger" /\ UNCHANGED <<row, lock, edit>> /\ HasClaimed(a) /\ AtWork(a)
      /\ Claims(a) /\ Hidden(a, step) /\ step \in Steps
  BY DEF Trigger, HasClaimed, Claiming, AtWork, Sure, RaceInv, ActorRace, Claims
<1>2. /\ Sound(d, jobs) /\ DOMAIN d = Fields /\ d.status \in {"running", "paused"} /\ Frontier(d)
      /\ CurrentJob(d) = NoJob /\ CurrentRecord(d).job = NoJob
      /\ \A i \in DOMAIN jobs : jobs[i].step # step
  BY <1>1, WorkersSound, CurrentOf DEF Claims
<1>3. \A s \in Steps : Rank[s] \in Nat
  BY RankFacts
<1>4. /\ DOMAIN started = Fields /\ started.status = d.status /\ started.current_step = step /\ Frontier(started)
  <2>1. /\ DOMAIN started = Fields /\ started.status = d.status /\ started.current_step = step
        /\ \A s \in Steps : Triggered(started, s) => s = step \/ Triggered(d, s)
    BY <1>2, Patched, PatchedJobs
  <2>. HIDE DEF started
  <2>. QED
    BY <1>1, <1>2, <1>3, <2>1 DEF Frontier
<1>5. failed.status = "failed" /\ failed.current_step = step /\ CurrentJob(failed) = NoJob /\ Frontier(failed)
  <2>1. /\ DOMAIN f = Fields /\ f.current_step = step /\ f.steps[step] = Record("failed", CurrentRecord(d).job)
        /\ \A s \in Steps : Triggered(f, s) => s = step \/ Triggered(d, s)
    BY <1>2, Patched, PatchedJobs
  <2>. HIDE DEF f
  <2>2. failed.status = "failed" /\ failed.current_step = step /\ failed.steps = f.steps
    BY <2>1 DEF Fields
  <2>3. CurrentJob(failed) = NoJob
    BY <1>2, <2>1, <2>2 DEF CurrentJob, Record
  <2>4. \A s \in Steps : Triggered(failed, s) => s = step \/ Triggered(d, s)
    BY <2>1, <2>2, SameRecords
  <2>. HIDE DEF failed
  <2>. QED
    BY <1>1, <1>2, <1>3, <2>2, <2>3, <2>4 DEF Frontier
<1>6. PICK e : /\ Goto(a, "persist", e) /\ e.current_step = step /\ Frontier(e)
               /\ \/ e.status \in {"running", "paused"}
                  \/ e.status = "failed" /\ CurrentJob(e) = NoJob
  <2>1. Goto(a, "persist", started) \/ Goto(a, "persist", failed)
    BY DEF Trigger
  <2>. HIDE DEF started, failed
  <2>. QED
    BY <1>2, <1>4, <1>5, <2>1
<1>7. /\ pc'[a] = "persist" /\ doc'[a] = e
      /\ \A b \in Actors \ {a} : pc'[b] = pc[b] /\ doc'[b] = doc[b]
      /\ \A b \in Actors \ {a} : HasClaimed(b)' <=> HasClaimed(b)
  BY <1>6, OthersStand DEF Sure
<1>8. HasClaimed(a)' /\ \A b \in Actors \ {a} : ~HasClaimed(b) /\ ~HasClaimed(b)'
  BY <1>1, <1>6, <1>7, ClaimantWrites DEF HasClaimed, Claiming
<1>9. jobs \in Seq(JobRecords) /\ (UNCHANGED jobs \/ jobs' = Append(jobs, [step |-> step, state |-> "running"]))
  BY DEF Trigger, Create, Sure, OrderInv, JobsTyped
<1>10. /\ DOMAIN jobs \subseteq DOMAIN jobs' /\ \A i \in DOMAIN jobs : jobs'[i] = jobs[i]
       /\ \A i, j \in DOMAIN jobs' \ DOMAIN jobs : i = j /\ jobs'[i].step = step
  <2>1. CASE UNCHANGED jobs
    BY <2>1
  <2>2. CASE jobs' = Append(jobs, [step |-> step, state |-> "running"])
    <3>. DEFINE r == [step |-> step, state |-> "running"]
    <3>1. /\ r.step = step /\ r \in JobRecords /\ jobs' = Append(jobs, r)
          /\ jobs \in Seq(JobRecords) /\ Len(jobs) \in Nat
      BY <1>1, <1>9, <2>2 DEF JobRecords
    <3>. HIDE DEF r, step
    <3>2. DOMAIN jobs = 1 .. Len(jobs) /\ DOMAIN jobs' = 1 .. (Len(jobs) + 1)
      BY <3>1
    <3>3. jobs'[Len(jobs) + 1] = r /\ \A i \in DOMAIN jobs : jobs'[i] = jobs[i]
      BY <3>1, <3>2
    <3>4. \A i \in DOMAIN jobs' \ DOMAIN jobs : i = Len(jobs) + 1
      BY <3>1, <3>2
    <3>. QED
      BY <3>1, <3>2, <3>3, <3>4
  <2>. QED
    BY <1>9, <2>1, <2>2
<1>11. Aged(jobs, jobs')
  BY <1>10 DEF Aged
<1>12. Claims(a)'
  <2>1. \A s : Succeeded(s, jobs) => Succeeded(s, jobs')
    BY <1>10 DEF Succeeded
  <2>. QED
    BY <1>1, <1>6, <1>7, <2>1 DEF Claims
<1>13. Hidden(a, doc[a].current_step)'
  BY <1>1, <1>6, <1>7 DEF Hidden, AtWork
<1>14. ActorRace(a)'
  BY <1>7, <1>8, <1>12, <1>13 DEF ActorRace
<1>15. ASSUME NEW b \in Actors \ {a} PROVE ActorRace(b)'
  <2>1. ActorRace(b) /\ pc[b] # "persist" /\ pc'[b] = pc[b] /\ doc'[b] = doc[b]
    BY <1>1, <1>7, ClaimantWrites DEF Sure, RaceInv
  <2>2. ASSUME pc[b] \in {"query", "claim"} PROVE Reads(doc[b], row.current_step, jobs')
    <3>1. Sound(doc[b], jobs) /\ CurrentJob(doc[b]) # NoJob /\ Reads(doc[b], row.current_step, jobs)
      BY <2>1, <2>2, WorkersSound DEF ActorRace, AtWork
    <3>. QED
      BY <1>11, <3>1, AgedBodies
  <2>. QED
    BY <1>1, <1>8, <2>1, <2>2 DEF ActorRace
<1>16. RowRace' /\ EditRace'
  BY <1>1 DEF Sure, RaceInv, RowRace, EditRace, Claims
<1>17. OneClaims' /\ LockClaims'
  <2>1. lock # None => lock = a
    BY <1>8 DEF LockClaims, Sure, RaceInv, Actors
  <2>. QED
    BY <1>1, <1>8, <2>1 DEF OneClaims, LockClaims, Sure, RaceInv
<1>18. JobsBehind'
  <2>1. \A i \in DOMAIN jobs : Rank[jobs[i].step] <= Rank[row.current_step]
    BY <1>1, <1>8 DEF Sure, RaceInv, JobsBehind
  <2>. QED
    BY <1>1, <1>6, <1>7, <1>8, <1>10, <2>1 DEF JobsBehind
<1>19. TriggeredOnce'
  BY <1>2, <1>10 DEF Sure, RaceInv, TriggeredOnce
<1>. QED
  BY <1>14, <1>15, <1>16, <1>17, <1>18, <1>19 DEF RaceInv

\* A routine that ends with a write: what it writes is what it had claimed, a
\* completion or a failure.  In each case the others go on.
LEMMA WriteRace ==
  ASSUME Sure, NEW a \in Actors, Persist(a), NEW at, row'.current_step = at,
         row'.status \in {"running", "paused", "failed", "completed"},
         row'.status = "completed" <=> at = "completed", Frontier(row'),
         NEW R, R = Rank[row.current_step], R \in Nat, Rank[at] \in Nat, R <= Rank[at],
         \A i \in DOMAIN jobs : Rank[jobs[i].step] <= Rank[at],
         \A b \in Actors \ {a} :
           /\ ~HasClaimed(b)
           /\ pc[b] \in {"query", "claim"} => Reads(doc[b], at, jobs)
           /\ pc[b] = "persist" => Completes(doc[b], at, jobs) \/ Rejects(doc[b], at, jobs)
           /\ row'.status = "failed" /\ AtWork(b) => Over(doc[b], at, jobs)
  PROVE  RaceInv'
<1>1. /\ UNCHANGED <<edit, jobs>> /\ lock' = None /\ Goto(a, "idle", None) /\ pc[a] = "persist"
      /\ row.status # "pending"
  BY AtWorkMeansStarted DEF Persist, Leave, Sure
<1>2. /\ pc'[a] = "idle" /\ \A b \in Actors \ {a} : pc'[b] = pc[b] /\ doc'[b] = doc[b]
      /\ \A b \in Actors \ {a} : HasClaimed(b)' <=> HasClaimed(b)
  BY <1>1, OthersStand DEF Sure
<1>3. \A b \in Actors : ~HasClaimed(b)'
  BY <1>2 DEF HasClaimed, Claiming
<1>4. ActorRace(a)'
  BY <1>2, <1>3 DEF ActorRace
<1>5. ASSUME NEW b \in Actors \ {a} PROVE ActorRace(b)'
  BY <1>1, <1>2, <1>3 DEF ActorRace
<1>6. RowRace'
  <2>1. ASSUME row'.status = "failed", NEW b \in Actors, AtWork(b)' PROVE Over(doc[b], at, jobs) /\ doc'[b] = doc[b]
    BY <1>2, <2>1 DEF AtWork
  <2>. QED
    BY <1>1, <2>1 DEF RowRace
<1>7. EditRace'
  BY <1>1 DEF Sure, RaceInv, EditRace
<1>8. OneClaims' /\ LockClaims' /\ TriggeredOnce'
  BY <1>1, <1>3 DEF OneClaims, LockClaims, Sure, RaceInv, TriggeredOnce
<1>9. JobsBehind'
  BY <1>1 DEF JobsBehind
<1>. QED
  BY <1>4, <1>5, <1>6, <1>7, <1>8, <1>9 DEF RaceInv

\* What an actor that writes without a claim knows: the row's step has the job it
\* is about, and nobody has claimed anything.
LEMMA VerdictWrites ==
  ASSUME Sure, NEW a \in Actors, pc[a] = "persist", ~HasClaimed(a), lock \in {None, a}
  PROVE  /\ \A b \in Actors : ~HasClaimed(b)
         /\ Completes(doc[a], row.current_step, jobs) \/ Rejects(doc[a], row.current_step, jobs)
         /\ \A i \in DOMAIN jobs : Rank[jobs[i].step] <= Rank[row.current_step]
         /\ row.status = "failed" => Rejects(doc[a], row.current_step, jobs)
         /\ row.status = "completed" => Completes(doc[a], row.current_step, jobs)
<1>. DEFINE d == doc[a]
            at == row.current_step
<1>1. Completes(d, at, jobs) \/ Rejects(d, at, jobs)
  BY DEF Sure, RaceInv, ActorRace
<1>2. AtWork(a) /\ Sound(d, jobs) /\ lock = None
  BY WorkersSound DEF AtWork, Sure, RaceInv, LockClaims
<1>3. ASSUME NEW b \in Actors, HasClaimed(b) PROVE FALSE
  <2>1. Claims(b) /\ Hidden(b, doc[b].current_step) /\ a # b
    BY <1>3 DEF Sure, RaceInv, ActorRace
  <2>2. at = doc[b].current_step /\ at \in Steps
    BY <1>2, <2>1, ActorsAssumption DEF Claims
  <2>3. JobOf(d, at) = NoJob
    BY <1>2, <2>1, <2>2 DEF Hidden
  <2>4. CASE Completes(d, at, jobs)
    BY <2>2, <2>3, <2>4, RankFacts DEF Completes
  <2>5. CASE Rejects(d, at, jobs)
    BY <1>2, <2>3, <2>5, CurrentOf DEF Rejects
  <2>. QED
    BY <1>1, <2>4, <2>5
<1>4. \A i \in DOMAIN jobs : Rank[jobs[i].step] <= Rank[at]
  BY <1>3 DEF Sure, RaceInv, JobsBehind
<1>5. ASSUME row.status = "failed", Completes(d, at, jobs) PROVE FALSE
  <2>1. at \in Steps /\ at # "completed"
    BY <1>5, CurrentOf, RankFacts DEF Sure, OrderInv, RowHolds
  <2>2. JobOf(d, at) # NoJob /\ jobs[JobOf(d, at)].state = "succeeded"
    BY <1>5, <2>1 DEF Completes
  <2>. QED
    BY <1>2, <1>5, <2>2 DEF Sure, RaceInv, RowRace, Over
<1>6. ASSUME row.status = "completed", Rejects(d, at, jobs) PROVE FALSE
  BY <1>6, RankFacts DEF Rejects, Sure, RaceInv, RowRace
<1>. QED
  BY <1>1, <1>3, <1>4, <1>5, <1>6

LEMMA PersistRace ==
  ASSUME Sure, NEW a \in Actors, Persist(a)
  PROVE  RaceInv'
<1>. DEFINE d == doc[a]
            at == row.current_step
            next == d.current_step
<1>1. /\ pc[a] = "persist" /\ lock \in {None, a} /\ row' = Stored(d) /\ AtWork(a)
      /\ Sound(d, jobs) /\ DOMAIN d = Fields /\ TriggeredOnce
  BY WorkersSound DEF Persist, AtWork, Sure, RaceInv
<1>2. /\ row'.status = d.status /\ row'.current_step = next
      /\ Frontier(d) => Frontier(row')
  BY <1>1, StoredSame
<1>3. at \in Steps \union {"completed"} /\ row.status \in Statuses
  BY DEF Sure, TypeInv, RowTyped, Formed, Bodies
<1>4. \A s \in Steps \union {"completed"} : Rank[s] \in Nat /\ Rank[s] <= 8
  BY RankFacts
<1>5. \A i \in DOMAIN jobs : jobs[i].step \in Steps
  BY JobStep DEF Sure
<1>6. CASE HasClaimed(a)
  <2>1. /\ Claims(a) /\ Hidden(a, next) /\ next \in Steps /\ next # "completed"
        /\ d.status \in {"running", "paused", "failed"} /\ Frontier(d)
    BY <1>6, RankFacts DEF Sure, RaceInv, ActorRace, Claims
  <2>2. Rank[at] <= Rank[next]
    BY <1>4, <2>1, RankFacts DEF Claims
  <2>3. ASSUME NEW i \in DOMAIN jobs PROVE Rank[jobs[i].step] <= Rank[next]
    <3>1. Rank[jobs[i].step] <= Rank[at] \/ jobs[i].step = next
      BY <1>6, ClaimantWrites DEF Sure, RaceInv, JobsBehind
    <3>2. jobs[i].step \in Steps
      BY <1>5
    <3>. QED
      BY <1>3, <1>4, <2>1, <2>2, <3>1, <3>2
  <2>4. \A b \in Actors \ {a} :
          /\ ~HasClaimed(b)
          /\ pc[b] \in {"query", "claim"} => Reads(doc[b], next, jobs)
          /\ pc[b] = "persist" => Completes(doc[b], next, jobs) \/ Rejects(doc[b], next, jobs)
          /\ row'.status = "failed" /\ AtWork(b) => Over(doc[b], next, jobs)
    BY <1>6, <2>1, ClaimantWrites DEF Hidden, Over
  <2>. HIDE DEF next, at
  <2>. QED
    BY <1>2, <1>3, <1>4, <2>1, <2>2, <2>3, <2>4, WriteRace DEF at
<1>7. CASE ~HasClaimed(a)
  <2>1. /\ \A b \in Actors : ~HasClaimed(b)
        /\ Completes(d, at, jobs) \/ Rejects(d, at, jobs)
        /\ \A i \in DOMAIN jobs : Rank[jobs[i].step] <= Rank[at]
    BY <1>1, <1>7, VerdictWrites
  <2>2. ASSUME NEW b \in Actors \ {a}
        PROVE  /\ pc[b] \in {"query", "claim"} =>
                    /\ Reads(doc[b], at, jobs) /\ Sound(doc[b], jobs) /\ doc[b].status # "completed"
                    /\ CurrentJob(doc[b]) # NoJob /\ doc[b].current_step \in Steps
                    /\ CurrentJob(doc[b]) = JobOf(doc[b], doc[b].current_step)
               /\ pc[b] = "persist" => Completes(doc[b], at, jobs) \/ Rejects(doc[b], at, jobs)
               /\ AtWork(b) => Sound(doc[b], jobs)
    BY <2>1, WorkersSound, CurrentOf DEF AtWork, Sure, RaceInv, ActorRace
  <2>3. CASE Completes(d, at, jobs)
    <3>1. PICK s \in Steps : /\ NextStep[s] = None /\ at \in {s, "completed"}
                             /\ JobOf(d, s) # NoJob /\ jobs[JobOf(d, s)].state = "succeeded"
      BY <2>3 DEF Completes
    <3>2. next = "completed" /\ d.status = "completed" /\ Frontier(d)
      BY <1>4, <2>3, RankFacts DEF Completes, Frontier
    <3>3. Rank[next] = 8 /\ Rank[at] <= 8 /\ \A t \in Steps : Rank[t] < 8
      BY <1>3, <1>4, <3>2, RankFacts
    <3>4. ASSUME NEW b \in Actors \ {a}, pc[b] \in {"query", "claim"} PROVE Reads(doc[b], "completed", jobs)
      <4>1. /\ Reads(doc[b], at, jobs) /\ Sound(doc[b], jobs) /\ CurrentJob(doc[b]) # NoJob
            /\ doc[b].current_step \in Steps /\ CurrentJob(doc[b]) = JobOf(doc[b], doc[b].current_step)
        BY <2>2, <3>4
      <4>2. doc[b].current_step = s => CurrentJob(doc[b]) = JobOf(d, s)
        BY <1>1, <3>1, <4>1, SameJob
      <4>3. doc[b].current_step # "completed"
        BY <4>1, RankFacts
      <4>. QED
        BY <3>1, <3>2, <3>3, <4>1, <4>2, <4>3 DEF Reads, Follows
    <3>5. ASSUME NEW b \in Actors \ {a}, pc[b] = "persist" PROVE Completes(doc[b], "completed", jobs)
      <4>1. CASE Completes(doc[b], at, jobs)
        BY <4>1 DEF Completes
      <4>2. CASE Rejects(doc[b], at, jobs)
        <5>1. /\ Sound(doc[b], jobs) /\ doc[b].current_step = s /\ CurrentJob(doc[b]) # NoJob
              /\ CurrentJob(doc[b]) = JobOf(doc[b], s) /\ jobs[CurrentJob(doc[b])].state = "failed"
          BY <2>2, <3>1, <3>5, <4>2, CurrentOf, RankFacts DEF Rejects, AtWork
        <5>2. CurrentJob(doc[b]) = JobOf(d, s)
          BY <1>1, <3>1, <5>1, SameJob
        <5>. QED
          BY <3>1, <5>1, <5>2
      <4>. QED
        BY <2>2, <3>5, <4>1, <4>2
    <3>6. \A i \in DOMAIN jobs : Rank[jobs[i].step] <= Rank[next]
      BY <1>4, <1>5, <3>3
    <3>7. Frontier(row') /\ row'.status = "completed" /\ row'.current_step = "completed"
      BY <1>2, <3>2
    <3>. HIDE DEF at, next
    <3>. QED
      BY <1>3, <1>4, <2>1, <3>2, <3>3, <3>4, <3>5, <3>6, <3>7, WriteRace DEF at
  <2>4. CASE Rejects(d, at, jobs)
    <3>1. /\ next = at /\ d.status = "failed" /\ at \in Steps /\ at # "completed" /\ Frontier(d)
          /\ CurrentJob(d) # NoJob /\ jobs[CurrentJob(d)].state = "failed" /\ CurrentJob(d) = JobOf(d, at)
      BY <1>1, <2>4, CurrentOf, RankFacts DEF Rejects
    <3>2. ASSUME NEW b \in Actors \ {a}, AtWork(b) PROVE Over(doc[b], at, jobs)
      <4>1. Sound(doc[b], jobs)
        BY <2>2, <3>2
      <4>2. JobOf(doc[b], at) # NoJob => JobOf(doc[b], at) = JobOf(d, at)
        BY <1>1, <3>1, <4>1, SameJob
      <4>. QED
        BY <3>1, <4>2 DEF Over
    <3>3. Frontier(row') /\ row'.status = "failed" /\ row'.current_step = at
      BY <1>2, <3>1
    <3>4. Rank[at] <= Rank[at]
      BY <1>3, <1>4
    <3>. HIDE DEF at
    <3>. QED
      BY <1>3, <1>4, <2>1, <2>2, <3>1, <3>2, <3>3, <3>4, WriteRace DEF at
  <2>. QED
    BY <2>1, <2>3, <2>4
<1>. QED
  BY <1>6, <1>7

\* Every statement of a routine.
LEMMA AdvanceRace ==
  ASSUME Sure, NEW a \in Actors, Advance(a)
  PROVE  RaceInv'
<1>1. CASE List(a) \/ QueryFails(a)
  <2>1. /\ pc[a] \in {"idle", "query"} /\ UNCHANGED <<row, edit, jobs, lock>>
        /\ Goto(a, "read", None) \/ Goto(a, "idle", None)
    BY <1>1 DEF List, QueryFails, Leave
  <2>2. ~HasClaimed(a)
    BY <2>1 DEF HasClaimed, Claiming
  <2>. QED
    BY <2>1, <2>2, ThinkingRace
<1>. QED
  BY <1>1, ReadRace, AnsweredRace, ClaimRace, TriggerRace, PersistRace DEF Advance

-----------------------------------------------------------------------------
(* The owner and the upstream service. *)

\* The owner's next write is not None.
LEMMA SubmitWrites ==
  ASSUME TypeInv, NEW body, Submit(body), Formed(body)
  PROVE  /\ edit' # None /\ edit'.body = body /\ edit'.status = row.status
         /\ edit'.current_step = row.current_step
<1>1. edit' \in Writes
  BY DEF Submit, Writes, Formed, TypeInv, RowTyped, Bodies
<1>. QED
  BY <1>1, NoneAssumption DEF Submit, Writes

\* The body the owner starts the task with.
LEMMA RestartedBody ==
  ASSUME Sure, NEW s \in Steps, s = row.current_step, NEW r \in StepRecords, NEW status \in {"running", "failed"}
  PROVE  /\ Formed(Restarted(row, s, r, status))
         /\ Restarted(row, s, r, status).status = status
         /\ Restarted(row, s, r, status).current_step = s
         /\ Frontier(Restarted(row, s, r, status))
<1>. DEFINE p == PatchStep(row, s, r)
            e == [p EXCEPT !.status = status]
<1>1. Formed(row) /\ DOMAIN row = Fields /\ Frontier(row)
  BY BodyFields DEF Sure, TypeInv, RowTyped, Formed, RaceInv, RowRace
<1>2. /\ Formed(p) /\ DOMAIN p = Fields /\ p.current_step = s
      /\ \A t \in Steps : Triggered(p, t) => t = s \/ Triggered(row, t)
  BY <1>1, PatchFormed, Patched, PatchedJobs
<1>. HIDE DEF p
<1>3. Formed(e) /\ e.status = status /\ e.current_step = s /\ e.steps = p.steps
  BY <1>2, StatusFormed DEF Fields, Statuses
<1>4. \A t \in Steps : Triggered(e, t) => t = s \/ Triggered(row, t)
  BY <1>2, <1>3, SameRecords
<1>. HIDE DEF e
<1>5. \A t \in Steps : Rank[t] \in Nat
  BY RankFacts
<1>6. Frontier(e)
  BY <1>1, <1>3, <1>4, <1>5 DEF Frontier
<1>. QED
  BY <1>3, <1>6 DEF Restarted, p, e

LEMMA StartRace ==
  ASSUME Sure, Start
  PROVE  RaceInv'
<1>. DEFINE step == row.current_step
            r == Record("running", Len(jobs) + 1)
            r0 == Record("failed", NoJob)
<1>1. /\ edit = None /\ row.status = "pending" /\ UNCHANGED <<row, lock, pc, doc>>
      /\ lock = None /\ jobs = << >> /\ \A a \in Actors : pc[a] = "idle"
  BY DEF Start, Sure, RaceInv, RowRace, OrderInv, RowHolds
<1>2. step \in Steps
  BY <1>1, CurrentOf DEF Sure, OrderInv, RowHolds
<1>3. r \in StepRecords /\ r0 \in StepRecords
  BY <1>1 DEF Record, StepRecords, RecordStatuses, NoJob
<1>4. /\ \/ Submit(Restarted(row, step, r, "running"))
         \/ Submit(Restarted(row, step, r0, "failed"))
      /\ Create(step) \/ UNCHANGED jobs
  BY DEF Start, Restarted
<1>. HIDE DEF r, r0, step
<1>5. PICK body : Submit(body) /\ Formed(body) /\ body.status \in {"running", "failed"}
                  /\ body.current_step = step /\ Frontier(body)
  BY <1>2, <1>3, <1>4, RestartedBody DEF step
<1>6. edit' # None /\ edit'.body = body /\ edit'.status = "pending" /\ edit'.current_step = step
  BY <1>1, <1>5, SubmitWrites DEF Sure, step
<1>7. EditRace'
  BY <1>1, <1>2, <1>5, <1>6 DEF EditRace, step
<1>8. RowRace'
  BY <1>1, <1>6 DEF Sure, RaceInv, RowRace
<1>9. \A i \in DOMAIN jobs' : i = 1 /\ jobs'[i].step = step
  BY <1>1, <1>4 DEF Create
<1>10. \A a \in Actors : ~HasClaimed(a)' /\ ActorRace(a)'
  BY <1>1 DEF HasClaimed, Claiming, ActorRace
<1>11. TriggeredOnce' /\ OneClaims' /\ LockClaims'
  BY <1>1, <1>9, <1>10 DEF TriggeredOnce, OneClaims, LockClaims
<1>12. JobsBehind'
  <2>1. Rank[step] \in Nat
    BY <1>2, RankFacts
  <2>. QED
    BY <1>1, <1>9, <2>1 DEF JobsBehind, step
<1>. QED
  BY <1>7, <1>8, <1>10, <1>11, <1>12 DEF RaceInv

LEMMA ChangeRace ==
  ASSUME Sure, Change
  PROVE  RaceInv'
<1>1. /\ UNCHANGED <<row, lock, pc, doc, jobs>> /\ row.status \in {"running", "paused"}
      /\ \/ Submit([row EXCEPT !.status = "running"])
         \/ Submit([row EXCEPT !.status = "paused"])
         \/ Submit([row EXCEPT !.run_auto = "off"])
  BY DEF Change
<1>2. Formed(row) /\ DOMAIN row = Fields /\ Frontier(row) /\ row.current_step \in Steps
  BY <1>1, BodyFields, CurrentOf DEF Sure, TypeInv, RowTyped, Formed, RaceInv, RowRace, OrderInv, RowHolds
<1>3. PICK body : /\ Submit(body) /\ body.status \in {"running", "paused"}
                  /\ body.steps = row.steps /\ body.current_step = row.current_step
  <2>1. /\ [row EXCEPT !.status = "running"].status = "running"
        /\ [row EXCEPT !.status = "running"].steps = row.steps
        /\ [row EXCEPT !.status = "running"].current_step = row.current_step
    BY <1>2 DEF Fields
  <2>2. /\ [row EXCEPT !.status = "paused"].status = "paused"
        /\ [row EXCEPT !.status = "paused"].steps = row.steps
        /\ [row EXCEPT !.status = "paused"].current_step = row.current_step
    BY <1>2 DEF Fields
  <2>3. /\ [row EXCEPT !.run_auto = "off"].status = row.status
        /\ [row EXCEPT !.run_auto = "off"].steps = row.steps
        /\ [row EXCEPT !.run_auto = "off"].current_step = row.current_step
    BY <1>2 DEF Fields
  <2>. QED
    BY <1>1, <2>1, <2>2, <2>3
<1>4. edit'.body = body /\ edit'.status = row.status /\ edit'.current_step = row.current_step
  BY <1>3 DEF Submit
<1>5. \A s : JobOf(body, s) = JobOf(row, s)
  BY <1>3, SameRecords
<1>6. Frontier(body)
  BY <1>2, <1>3, SameRecords DEF Frontier
<1>7. EditRace'
  BY <1>1, <1>2, <1>3, <1>4, <1>6 DEF EditRace
<1>8. RowRace'
  BY <1>1 DEF Sure, RaceInv, RowRace, AtWork
<1>9. \A a \in Actors : HasClaimed(a)' <=> HasClaimed(a)
  BY <1>1 DEF HasClaimed
<1>10. ASSUME NEW a \in Actors PROVE ActorRace(a)'
  <2>1. ActorRace(a)
    BY DEF Sure, RaceInv
  <2>2. ASSUME HasClaimed(a) PROVE Claims(a)' /\ Hidden(a, doc[a].current_step)'
    BY <1>1, <1>4, <1>5, <2>1, <2>2 DEF ActorRace, Claims, Hidden, AtWork
  <2>. QED
    BY <1>1, <1>9, <2>1, <2>2 DEF ActorRace
<1>11. TriggeredOnce' /\ OneClaims' /\ LockClaims'
  BY <1>1, <1>9, ActorsAssumption DEF Sure, RaceInv, TriggeredOnce, OneClaims, LockClaims, Actors
<1>12. JobsBehind'
  BY <1>1, <1>9 DEF Sure, RaceInv, JobsBehind
<1>. QED
  BY <1>7, <1>8, <1>10, <1>11, <1>12 DEF RaceInv

LEMMA PutRace ==
  ASSUME Sure, Put
  PROVE  RaceInv'
<1>. DEFINE body == edit.body
            at == row.current_step
<1>1. /\ edit # None /\ lock = None /\ edit' = None /\ UNCHANGED <<lock, pc, doc, jobs>>
      /\ \/ /\ row.status = edit.status /\ at = edit.current_step /\ row' = Stored(body)
         \/ /\ ~(row.status = edit.status /\ at = edit.current_step) /\ UNCHANGED row
  BY DEF Put
<1>2. /\ EditRace /\ RowRace /\ DOMAIN body = Fields /\ Frontier(body) /\ body.current_step = edit.current_step
      /\ edit.current_step \in Steps
  BY <1>1, BodyFields DEF Sure, RaceInv, EditRace, TypeInv, EditTyped, Formed
<1>3. /\ Stored(body).status = body.status /\ Stored(body).current_step = edit.current_step
      /\ Frontier(Stored(body)) /\ \A s : JobOf(Stored(body), s) = JobOf(body, s)
  BY <1>2, StoredSame
<1>4. /\ row'.current_step = at /\ Frontier(row') /\ row'.status # "pending"
      /\ row.status # "pending" => UNCHANGED row \/ row'.status \in {"running", "paused"}
      /\ row.status = "pending" => row'.status \in {"running", "failed"} /\ at \in Steps
      /\ \A s : JobOf(row', s) \in {JobOf(row, s), JobOf(body, s)}
  BY <1>1, <1>2, <1>3 DEF EditRace, RowRace
<1>5. row.status = "pending" => \A a \in Actors : pc[a] = "idle"
  BY DEF Sure, OrderInv, RowHolds
<1>6. RowRace'
  <2>1. "completed" \notin Steps
    BY RankFacts
  <2>2. row'.status = "completed" <=> row'.current_step = "completed"
    BY <1>1, <1>2, <1>4, <2>1 DEF RowRace, EditRace
  <2>3. ASSUME row'.status = "failed", NEW a \in Actors, AtWork(a) PROVE Over(doc[a], at, jobs)
    BY <1>2, <1>4, <1>5, <2>3 DEF RowRace, AtWork
  <2>. QED
    BY <1>1, <1>4, <2>2, <2>3 DEF RowRace, AtWork
<1>7. EditRace'
  BY <1>1 DEF EditRace
<1>8. \A a \in Actors : HasClaimed(a)' <=> HasClaimed(a)
  BY <1>1 DEF HasClaimed
<1>9. ASSUME NEW a \in Actors PROVE ActorRace(a)'
  <2>1. ActorRace(a)
    BY DEF Sure, RaceInv
  <2>2. ASSUME HasClaimed(a) PROVE Claims(a)' /\ Hidden(a, doc[a].current_step)'
    <3>1. Claims(a) /\ Hidden(a, doc[a].current_step) /\ row.status # "pending"
      BY <2>1, <2>2 DEF ActorRace, Claims
    <3>2. Claims(a)'
      BY <1>1, <1>4, <3>1 DEF Claims
    <3>3. JobOf(row', doc[a].current_step) = NoJob
      BY <1>1, <1>4, <3>1 DEF Hidden
    <3>. QED
      BY <1>1, <3>1, <3>2, <3>3 DEF Hidden, AtWork
  <2>. QED
    BY <1>1, <1>4, <1>8, <2>1, <2>2 DEF ActorRace
<1>10. TriggeredOnce' /\ OneClaims' /\ LockClaims'
  BY <1>1, <1>8 DEF Sure, RaceInv, TriggeredOnce, OneClaims, LockClaims
<1>11. JobsBehind'
  BY <1>1, <1>4, <1>8 DEF Sure, RaceInv, JobsBehind
<1>. QED
  BY <1>6, <1>7, <1>9, <1>10, <1>11 DEF RaceInv

LEMMA JobEndsRace ==
  ASSUME Sure, NEW j \in DOMAIN jobs, JobEnds(j)
  PROVE  RaceInv'
<1>1. /\ UNCHANGED <<row, lock, pc, doc, edit>>
      /\ jobs[j].state = "running" /\ jobs \in Seq(JobRecords)
  BY DEF JobEnds, Sure, OrderInv, JobsTyped
<1>2. PICK state \in {"succeeded", "failed"} : jobs' = [jobs EXCEPT ![j].state = state]
  BY DEF JobEnds
<1>3. jobs[j] \in JobRecords
  BY <1>1
<1>4. [jobs[j] EXCEPT !.state = state].step = jobs[j].step
  BY <1>3 DEF JobRecords
<1>5. /\ DOMAIN jobs' = DOMAIN jobs
      /\ \A i \in DOMAIN jobs : jobs'[i] = IF i = j THEN [jobs[j] EXCEPT !.state = state] ELSE jobs[i]
  BY <1>2
<1>6. /\ \A i \in DOMAIN jobs : jobs'[i].step = jobs[i].step
      /\ Aged(jobs, jobs')
  BY <1>1, <1>4, <1>5 DEF Aged
<1>7. \A a \in Actors : HasClaimed(a)' <=> HasClaimed(a)
  BY <1>1 DEF HasClaimed
<1>8. ASSUME NEW a \in Actors, AtWork(a)
      PROVE  /\ Sound(doc[a], jobs) /\ (pc[a] \in {"query", "claim"} => CurrentJob(doc[a]) # NoJob)
             /\ row.status # "pending"
  BY <1>8, WorkersSound
<1>9. ASSUME NEW a \in Actors PROVE ActorRace(a)'
  <2>1. ActorRace(a)
    BY DEF Sure, RaceInv
  <2>2. ASSUME HasClaimed(a) PROVE Claims(a)' /\ Hidden(a, doc[a].current_step)'
    <3>1. Claims(a) /\ Hidden(a, doc[a].current_step)
      BY <2>1, <2>2 DEF ActorRace
    <3>2. \A s : Succeeded(s, jobs) => Succeeded(s, jobs')
      BY <1>5, <1>6 DEF Succeeded, Aged
    <3>3. Claims(a)'
      BY <1>1, <1>5, <1>6, <3>1, <3>2 DEF Claims
    <3>. QED
      BY <1>1, <3>1, <3>3 DEF Hidden, AtWork
  <2>3. ASSUME pc[a] \in {"query", "claim"} PROVE Reads(doc[a], row.current_step, jobs')
    BY <1>6, <1>8, <2>1, <2>3, AgedBodies DEF ActorRace, AtWork
  <2>4. ASSUME pc[a] = "persist", ~HasClaimed(a)
        PROVE  Completes(doc[a], row.current_step, jobs') \/ Rejects(doc[a], row.current_step, jobs')
    BY <1>6, <1>8, <2>1, <2>4, AgedBodies DEF ActorRace, AtWork
  <2>. QED
    BY <1>1, <1>7, <2>2, <2>3, <2>4 DEF ActorRace
<1>10. RowRace'
  <2>1. ASSUME row.status = "failed", NEW a \in Actors, AtWork(a) PROVE Over(doc[a], row.current_step, jobs')
    <3>1. Over(doc[a], row.current_step, jobs) /\ Sound(doc[a], jobs)
      BY <1>8, <2>1 DEF Sure, RaceInv, RowRace
    <3>2. row.current_step \in Steps
      BY <2>1, CurrentOf DEF Sure, OrderInv, RowHolds
    <3>. QED
      BY <1>6, <3>1, <3>2, AgedBodies
  <2>2. jobs # << >>
    OBVIOUS
  <2>. QED
    BY <1>1, <2>1, <2>2 DEF Sure, RaceInv, RowRace, AtWork
<1>11. EditRace'
  BY <1>1 DEF Sure, RaceInv, EditRace
<1>12. TriggeredOnce' /\ OneClaims' /\ LockClaims'
  BY <1>1, <1>5, <1>6, <1>7, ActorsAssumption DEF Sure, RaceInv, TriggeredOnce, OneClaims, LockClaims, Actors
<1>13. JobsBehind'
  BY <1>1, <1>5, <1>6, <1>7 DEF Sure, RaceInv, JobsBehind
<1>. QED
  BY <1>9, <1>10, <1>11, <1>12, <1>13 DEF RaceInv

LEMMA RaceInit == Init => RaceInv
<1>. SUFFICES ASSUME Init PROVE RaceInv
  OBVIOUS
<1>1. /\ jobs = << >> /\ edit = None /\ lock = None /\ \A a \in Actors : pc[a] = "idle"
      /\ row.status = "pending" /\ row.current_step = FirstStep
  BY DEF Init
<1>2. \A s : JobOf(row, s) = NoJob /\ StepRecord(row, s).status \in {"pending", "none"}
  BY DEF Init, JobOf, StepRecord, Record
<1>3. Frontier(row)
  BY <1>2 DEF Frontier, Triggered, JobOf
<1>4. FirstStep # "completed"
  BY FirstStepAssumption DEF Steps
<1>5. RowRace /\ EditRace /\ TriggeredOnce /\ JobsBehind
  BY <1>1, <1>3, <1>4 DEF RowRace, EditRace, TriggeredOnce, JobsBehind
<1>6. \A a \in Actors : ~HasClaimed(a) /\ ActorRace(a)
  BY <1>1 DEF HasClaimed, Claiming, ActorRace
<1>. QED
  BY <1>1, <1>5, <1>6 DEF RaceInv, OneClaims, LockClaims

LEMMA RaceNext ==
  ASSUME NobodyCutShort, OwnerSendsNothingBack, Sure, [Next]_vars
  PROVE  RaceInv'
<1>1. CASE UNCHANGED vars
  BY <1>1 DEF vars, Sure, RaceInv, TriggeredOnce, RowRace, EditRace, ActorRace, OneClaims, LockClaims, JobsBehind,
              HasClaimed, AtWork, Claims, Hidden
<1>2. ASSUME Retry PROVE FALSE
  <2>1. "retry" \in ClientMoves
    BY <1>2, Zenon DEF Retry
  <2>. QED
    BY <2>1 DEF OwnerSendsNothingBack
<1>3. ASSUME NEW a \in Actors PROVE ~Crash(a)
  BY DEF NobodyCutShort, Crash
<1>. QED
  BY <1>1, <1>2, <1>3, AdvanceRace, StartRace, ChangeRace, PutRace, JobEndsRace DEF Next, Owner

(* No step's job is created twice, however many machines and browsers work on
   the task, whether or not the client wrote records in advance and whatever
   the owner pauses, resumes or takes over: the compare-and-set of the claim is
   enough (poller.py's safety floor), as long as no routine is cut short and the
   owner does not send the task back. *)
THEOREM StepsTriggeredOnce ==
  ASSUME NobodyCutShort, OwnerSendsNothingBack
  PROVE  Spec => []TriggeredOnce
<1>1. Init => Sure
  BY OrderInitInv, TypesInit, RaceInit DEF Sure
<1>2. Sure /\ [Next]_vars => Sure'
  BY OrderNextInv, TypesNext, RaceNext DEF Sure
<1>3. Sure => TriggeredOnce
  BY DEF Sure, RaceInv
<1>. QED
  BY <1>1, <1>2, <1>3, PTL DEF Spec

-----------------------------------------------------------------------------
(* The task only moves on. *)

MovesOn ==
  /\ row.status \in Terminal => row'.status = row.status
  /\ row'.current_step # row.current_step =>
       /\ row.current_step \in Steps
       /\ row'.current_step =
            IF NextStep[row.current_step] = None THEN "completed"
            ELSE NextStep[row.current_step]

LEMMA ClaimMovesOn ==
  ASSUME Sure, NEW a \in Actors, Claim(a)
  PROVE  MovesOn
<1>. DEFINE step == doc[a].current_step
            next == NextStep[step]
            p == PatchStep(doc[a], next, Record("running", NoJob))
            advancing == [p EXCEPT !.current_step = next]
<1>1. pc[a] = "claim" /\ AtWork(a)
  BY DEF Claim, AtWork
<1>2. DOMAIN doc[a] = Fields /\ step \in Steps /\ next # None
  BY <1>1, WorkersSound DEF Sure, OrderInv, ActorsHold, Holds
<1>3. UNCHANGED row \/ (CasHolds(step) /\ row' = Stored(advancing))
  BY DEF Claim
<1>4. Stored(advancing).current_step = next
  <2>1. DOMAIN p = Fields
    BY <1>2, Patched
  <2>. HIDE DEF p
  <2>2. DOMAIN advancing = Fields /\ advancing.current_step = next
    BY <2>1 DEF Fields
  <2>. HIDE DEF advancing
  <2>. QED
    BY <2>2, StoredSame
<1>. HIDE DEF advancing
<1>5. CASE UNCHANGED row
  BY <1>5 DEF MovesOn
<1>6. CASE CasHolds(step) /\ row' = Stored(advancing)
  BY <1>2, <1>4, <1>6 DEF MovesOn, CasHolds, Terminal
<1>. QED
  BY <1>3, <1>5, <1>6

LEMMA PersistMovesOn ==
  ASSUME Sure, NEW a \in Actors, Persist(a)
  PROVE  MovesOn
<1>. DEFINE d == doc[a]
            at == row.current_step
<1>1. /\ pc[a] = "persist" /\ lock \in {None, a} /\ row' = Stored(d) /\ AtWork(a)
  BY DEF Persist, AtWork
<1>2. row'.status = d.status /\ row'.current_step = d.current_step
  BY <1>1, WorkersSound, StoredSame
<1>3. CASE HasClaimed(a)
  BY <1>2, <1>3 DEF MovesOn, Terminal, Claims, Sure, RaceInv, ActorRace
<1>4. CASE ~HasClaimed(a)
  <2>1. /\ Completes(d, at, jobs) \/ Rejects(d, at, jobs)
        /\ row.status = "failed" => Rejects(d, at, jobs)
        /\ row.status = "completed" => Completes(d, at, jobs)
    BY <1>1, <1>4, VerdictWrites
  <2>. QED
    BY <1>2, <2>1 DEF MovesOn, Terminal, Completes, Rejects
<1>. QED
  BY <1>3, <1>4

LEMMA PutMovesOn ==
  ASSUME Sure, Put
  PROVE  MovesOn
<1>1. CASE UNCHANGED row
  BY <1>1 DEF MovesOn
<1>2. CASE /\ edit # None /\ row' = Stored(edit.body)
           /\ row.status = edit.status /\ row.current_step = edit.current_step
  <2>1. EditRace /\ DOMAIN edit.body = Fields
    BY <1>2, BodyFields DEF Sure, RaceInv, TypeInv, EditTyped, Formed
  <2>2. row'.current_step = edit.body.current_step
    BY <1>2, <2>1, StoredSame
  <2>. QED
    BY <1>2, <2>1, <2>2 DEF MovesOn, EditRace, Terminal
<1>. QED
  BY <1>1, <1>2 DEF Put

LEMMA StepMovesOn ==
  ASSUME NobodyCutShort, OwnerSendsNothingBack, Sure, Next
  PROVE  MovesOn
<1>1. CASE UNCHANGED row
  BY <1>1 DEF MovesOn
<1>2. CASE Start \/ Change \/ Retry \/ \E i \in DOMAIN jobs : JobEnds(i)
  <2>1. Start \/ Change => UNCHANGED row
    BY DEF Start, Change
  <2>2. Retry => UNCHANGED row
    BY Zenon DEF Retry
  <2>. QED
    BY <1>1, <1>2, <2>1, <2>2 DEF JobEnds
<1>3. ASSUME NEW a \in Actors, Advance(a) \/ Crash(a) PROVE MovesOn
  <2>1. CASE List(a) \/ Read(a) \/ Answered(a) \/ QueryFails(a) \/ Trigger(a) \/ Crash(a)
    BY <1>1, <2>1 DEF List, Read, Answered, QueryFails, Trigger, Crash
  <2>. QED
    BY <1>3, <2>1, ClaimMovesOn, PersistMovesOn DEF Advance
<1>. QED
  BY <1>2, <1>3, PutMovesOn DEF Next, Owner

(* Whoever writes, the task only moves on: what is completed or failed stays so,
   and the pointer goes from a step to its successor, never back and never past
   one.  A machine's or a browser's last write replaces the whole row without
   asking what it holds (_persist_with_retries); that no such write is late is
   what the invariant shows, under the same two hypotheses. *)
THEOREM TaskMovesOn ==
  ASSUME NobodyCutShort, OwnerSendsNothingBack
  PROVE  Spec => OnlyForward
<1>1. Init => Sure
  BY OrderInitInv, TypesInit, RaceInit DEF Sure
<1>2. Sure /\ [Next]_vars => Sure'
  BY OrderNextInv, TypesNext, RaceNext DEF Sure
<1>3. Sure /\ [Next]_vars => [MovesOn]_vars
  BY StepMovesOn
<1>4. Spec => [][MovesOn]_vars
  BY <1>1, <1>2, <1>3, PTL DEF Spec
<1>. QED
  BY <1>4 DEF OnlyForward, MovesOn

-----------------------------------------------------------------------------
(* No write drops a job.  A write replaces the whole body, so this needs    *)
(* that whoever writes knows the jobs of all steps: an actor on the row's   *)
(* own step has the jobs the row has, and one that has claimed a step knows *)
(* every job there is.  It holds where a time-out leaves no job behind, and *)
(* a task is changed by its owner or advanced by a browser, but not both.   *)

TriggersAreAnswered == "timeout" \notin Faults
OwnerOrBrowsers == ClientMoves = {} \/ Browsers = {}

Alike(d, e) == \A s \in Steps : JobOf(d, s) = JobOf(e, s)
KnowsEvery(d) == \A i \in DOMAIN jobs : Knows(d, i)

\* The step of d is the row's, or the one with which the row was completed.
StandsAt(d, at) ==
  d.current_step = at \/ (at = "completed" /\ NextStep[d.current_step] = None)

Agrees(a) ==
  /\ pc[a] \in {"query", "claim"} /\ StandsAt(doc[a], row.current_step) => Alike(doc[a], row)
  /\ HasClaimed(a) => KnowsEvery(doc[a])
  /\ pc[a] = "persist" /\ ~HasClaimed(a) => Alike(doc[a], row)

EditAgrees ==
  edit # None =>
    /\ row.status = "pending" => KnowsEvery(edit.body)
    /\ row.status # "pending" =>
         /\ Browsers = {}
         /\ Rank[edit.current_step] <= Rank[row.current_step]
         /\ edit.current_step = row.current_step => Alike(edit.body, row)

RowAgrees ==
  \A i \in DOMAIN jobs :
    \/ Knows(row, i)
    \/ row.status = "pending" /\ edit # None
    \/ \E a \in Actors : pc[a] = "persist" /\ HasClaimed(a)

AgreeInv == RowAgrees /\ EditAgrees /\ \A a \in Actors : Agrees(a)

\* What the lemmas below start from.
Agreed == Sure /\ AgreeInv

LEMMA AlikeKnows ==
  ASSUME Sure, NEW d, NEW e, Alike(d, e), NEW i \in DOMAIN jobs
  PROVE  Knows(d, i) <=> Knows(e, i)
<1>1. jobs[i].step \in Steps
  BY JobStep DEF Sure
<1>. QED
  BY <1>1 DEF Alike, Knows, JobOf

\* Who has no job of step n in hand does not stand there, nor decides about it.
LEMMA StepUnknown ==
  ASSUME Sure, NEW b \in Actors, AtWork(b), NEW n \in Steps, JobOf(doc[b], n) = NoJob
  PROVE  /\ pc[b] \in {"query", "claim"} => ~StandsAt(doc[b], n)
         /\ ~Rejects(doc[b], n, jobs) /\ ~Completes(doc[b], n, jobs)
<1>1. Sound(doc[b], jobs) /\ n # "completed"
  BY WorkersSound, RankFacts
<1>2. ASSUME pc[b] \in {"query", "claim"} PROVE ~StandsAt(doc[b], n)
  <2>1. doc[b].status # "completed" /\ CurrentJob(doc[b]) # NoJob
    BY <1>2, WorkersSound
  <2>2. CurrentJob(doc[b]) = JobOf(doc[b], doc[b].current_step)
    BY <1>1, <2>1, CurrentOf
  <2>. QED
    BY <1>1, <2>1, <2>2 DEF StandsAt
<1>3. ~Rejects(doc[b], n, jobs)
  BY <1>1, CurrentOf DEF Rejects
<1>. QED
  BY <1>1, <1>2, <1>3 DEF Completes

\* An actor that publishes nothing.
LEMMA ThinkingAgrees ==
  ASSUME Agreed, NEW a \in Actors, ~HasClaimed(a), NEW l, NEW d, Goto(a, l, d),
         UNCHANGED <<row, edit, jobs>>, ~Claiming(l, d),
         l \in {"query", "claim"} /\ StandsAt(d, row.current_step) => Alike(d, row),
         l = "persist" => Alike(d, row)
  PROVE  AgreeInv'
<1>1. /\ pc'[a] = l /\ doc'[a] = d
      /\ \A b \in Actors \ {a} : pc'[b] = pc[b] /\ doc'[b] = doc[b]
      /\ \A b \in Actors \ {a} : HasClaimed(b)' <=> HasClaimed(b)
  BY OthersStand DEF Agreed, Sure
<1>2. ~HasClaimed(a)'
  BY <1>1 DEF HasClaimed
<1>3. Agrees(a)'
  BY <1>1, <1>2 DEF Agrees, Alike
<1>4. ASSUME NEW b \in Actors \ {a} PROVE Agrees(b)'
  <2>1. Agrees(b) /\ pc'[b] = pc[b] /\ doc'[b] = doc[b] /\ (HasClaimed(b)' <=> HasClaimed(b))
    BY <1>1 DEF Agreed, AgreeInv
  <2>. QED
    BY <2>1 DEF Agrees, Alike, KnowsEvery, Knows
<1>5. RowAgrees'
  <2>1. \A b \in Actors : pc[b] = "persist" /\ HasClaimed(b) => pc'[b] = "persist" /\ HasClaimed(b)'
    BY <1>1
  <2>. QED
    BY <2>1 DEF Agreed, AgreeInv, RowAgrees, Knows
<1>6. EditAgrees'
  BY DEF Agreed, AgreeInv, EditAgrees, KnowsEvery, Knows, Alike
<1>. QED
  BY <1>3, <1>4, <1>5, <1>6 DEF AgreeInv

LEMMA ResolveAgrees ==
  ASSUME Agreed, NEW a \in Actors, ~HasClaimed(a), NEW d, Resolve(a, d), Sound(d, jobs),
         Reads(d, row.current_step, jobs), StandsAt(d, row.current_step) => Alike(d, row),
         UNCHANGED <<row, edit, jobs>>
  PROVE  AgreeInv'
<1>. DEFINE next == NextStep[d.current_step]
            e == [d EXCEPT !.status = "completed", !.current_step = "completed"]
<1>1. DOMAIN d = Fields /\ d.current_step \in Steps /\ Frontier(d)
  BY DEF Sound, Reads
<1>2. ASSUME next # None PROVE ~Triggered(d, next)
  BY <1>1, <1>2, RankFacts DEF Frontier
<1>3. CASE next = None /\ Goto(a, "persist", e)
  <2>1. e.status = "completed" /\ e.steps = d.steps
    BY <1>1 DEF Fields
  <2>2. StandsAt(d, row.current_step)
    BY <1>3 DEF Reads, Follows, StandsAt
  <2>3. Alike(e, row)
    BY <2>1, <2>2, SameRecords DEF Alike
  <2>4. ~Claiming("persist", e)
    BY <2>1 DEF Claiming
  <2>. HIDE DEF e
  <2>. QED
    BY <1>3, <2>3, <2>4, ThinkingAgrees
<1>4. CASE Goto(a, "claim", d)
  BY <1>4, ThinkingAgrees DEF Claiming
<1>. QED
  BY <1>2, <1>3, <1>4 DEF Resolve

LEMMA ReadAgrees ==
  ASSUME Agreed, NEW a \in Actors, Read(a)
  PROVE  AgreeInv'
<1>1. pc[a] = "read" /\ UNCHANGED <<row, edit, jobs>> /\ ~HasClaimed(a) /\ row.status # "pending"
  BY AtWorkMeansStarted DEF Read, HasClaimed, Claiming, Agreed, Sure
<1>2. CASE Leave(a)
  BY <1>1, <1>2, ThinkingAgrees DEF Leave, Claiming
<1>3. CASE Advanceable(row)
  <2>1. Sound(row, jobs) /\ Frontier(row) /\ row.status \in Statuses
    BY DEF Agreed, Sure, OrderInv, RowHolds, RaceInv, RowRace, TypeInv, RowTyped, Formed, Bodies
  <2>2. Reads(row, row.current_step, jobs)
    BY <1>1, <1>3, <2>1 DEF Reads, Follows, Advanceable, Terminal, Statuses
  <2>3. Alike(row, row)
    BY DEF Alike
  <2>4. CASE Goto(a, "query", row)
    BY <1>1, <2>3, <2>4, ThinkingAgrees DEF Claiming
  <2>5. CASE Resolve(a, row)
    BY <1>1, <2>1, <2>2, <2>3, <2>5, ResolveAgrees
  <2>. QED
    BY <1>2, <1>3, <2>4, <2>5 DEF Read
<1>. QED
  BY <1>2, <1>3 DEF Read

LEMMA AnsweredAgrees ==
  ASSUME Agreed, NEW a \in Actors, Answered(a)
  PROVE  AgreeInv'
<1>. DEFINE d == doc[a]
            step == d.current_step
            Ended(status) == PatchStep(d, step, Record(status, CurrentRecord(d).job))
            f == Ended("failed")
            e == [f EXCEPT !.status = "failed"]
            c == Ended("completed")
<1>1. pc[a] = "query" /\ UNCHANGED <<row, edit, jobs>> /\ ~HasClaimed(a) /\ AtWork(a) /\ Agrees(a) /\ Sure
  BY DEF Answered, HasClaimed, Claiming, AtWork, Agreed, AgreeInv
<1>2. /\ Sound(d, jobs) /\ DOMAIN d = Fields /\ d.status # "completed"
      /\ CurrentJob(d) # NoJob /\ step \in Steps /\ Reads(d, row.current_step, jobs)
      /\ CurrentJob(d) = JobOf(d, step) /\ CurrentRecord(d).job = CurrentJob(d)
  BY <1>1, WorkersSound, CurrentOf DEF Sure, RaceInv, ActorRace
<1>3. JobState(d) = jobs[CurrentJob(d)].state /\ CurrentJob(d) \in DOMAIN jobs /\ jobs[CurrentJob(d)].step = step
  BY <1>2, JobsOf DEF JobState
<1>4. ASSUME NEW status \in {"failed", "completed"}
      PROVE  /\ DOMAIN Ended(status) = Fields
             /\ Ended(status).status = d.status /\ Ended(status).current_step = step
             /\ Ended(status).steps[step] = Record(status, CurrentRecord(d).job)
             /\ \A s : JobOf(Ended(status), s) = JobOf(d, s)
             /\ \A s \in Steps : Triggered(Ended(status), s) => s = step \/ Triggered(d, s)
  <2>. DEFINE r == Record(status, CurrentRecord(d).job)
  <2>1. r.job = CurrentJob(d)
    BY <1>2 DEF Record
  <2>. HIDE DEF r
  <2>2. \A s : JobOf(PatchStep(d, step, r), s) = JobOf(d, s)
    BY <1>2, <2>1, PatchedJobs
  <2>3. \A s \in Steps : Triggered(PatchStep(d, step, r), s) => s = step \/ Triggered(d, s)
    BY <1>2, PatchedJobs
  <2>. QED
    BY <1>2, <2>2, <2>3, Patched DEF r
<1>5. CASE Leave(a)
  BY <1>1, <1>5, ThinkingAgrees DEF Leave, Claiming
<1>6. CASE JobState(d) = "failed" /\ Goto(a, "persist", e)
  <2>1. /\ DOMAIN f = Fields /\ f.current_step = step /\ f.steps[step].job = CurrentJob(d)
        /\ \A s : JobOf(f, s) = JobOf(d, s)
    BY <1>2, <1>4 DEF Record
  <2>. HIDE DEF f
  <2>2. e.status = "failed" /\ e.current_step = step /\ e.steps = f.steps
    BY <2>1 DEF Fields
  <2>3. \A s : JobOf(e, s) = JobOf(d, s)
    BY <2>1, <2>2, SameRecords
  <2>4. ~Claiming("persist", e)
    BY <1>2, <2>1, <2>2 DEF Claiming, CurrentJob
  <2>5. StandsAt(d, row.current_step)
    BY <1>2, <1>3, <1>6 DEF Reads, Follows, StandsAt
  <2>6. Alike(e, row)
    BY <1>1, <2>3, <2>5 DEF Agrees, Alike
  <2>. HIDE DEF e
  <2>. QED
    BY <1>1, <1>6, <2>4, <2>6, ThinkingAgrees
<1>7. CASE JobState(d) = "succeeded" /\ Resolve(a, c)
  <2>1. Sound(c, jobs)
    <3>1. Fits(Record("completed", CurrentRecord(d).job), step, jobs)
      BY <1>2, <1>3, <1>7 DEF Fits, Record
    <3>. QED
      BY <1>2, <3>1, PatchedSound
  <2>2. /\ c.status = d.status /\ c.current_step = step /\ CurrentJob(c) = CurrentJob(d)
        /\ \A s : JobOf(c, s) = JobOf(d, s)
        /\ \A s \in Steps : Triggered(c, s) => s = step \/ Triggered(d, s)
    BY <1>2, <1>4 DEF CurrentJob, Record
  <2>. HIDE DEF c
  <2>3. Rank[step] \in Nat
    BY <1>2, RankFacts
  <2>4. Frontier(c)
    BY <1>2, <2>2, <2>3 DEF Frontier, Reads
  <2>5. Reads(c, row.current_step, jobs)
    BY <1>2, <2>2, <2>4 DEF Reads, Follows
  <2>6. StandsAt(c, row.current_step) => Alike(c, row)
    BY <1>1, <2>2 DEF StandsAt, Agrees, Alike
  <2>. QED
    BY <1>1, <1>7, <2>1, <2>5, <2>6, ResolveAgrees
<1>. QED
  BY <1>5, <1>6, <1>7 DEF Answered

\* Where nobody has claimed a step, the row of a started task knows every job.
LEMMA RowKnows ==
  ASSUME Agreed, row.status # "pending", \A b \in Actors : ~HasClaimed(b)
  PROVE  KnowsEvery(row)
BY DEF Agreed, AgreeInv, RowAgrees, KnowsEvery

LEMMA ClaimAgrees ==
  ASSUME Agreed, NEW a \in Actors, Claim(a)
  PROVE  AgreeInv'
<1>. DEFINE d == doc[a]
            step == d.current_step
            next == NextStep[step]
            p == PatchStep(d, next, Record("running", NoJob))
            e == [p EXCEPT !.current_step = next]
<1>1. /\ pc[a] = "claim" /\ lock = None /\ UNCHANGED <<edit, jobs>> /\ ~HasClaimed(a) /\ AtWork(a)
      /\ Agrees(a) /\ Sure
  BY DEF Claim, HasClaimed, Claiming, AtWork, Agreed, AgreeInv
<1>2. CASE Leave(a) /\ UNCHANGED <<row, lock>>
  BY <1>1, <1>2, ThinkingAgrees DEF Leave, Claiming
<1>3. CASE /\ CasHolds(step) /\ Goto(a, "trigger", e)
           /\ \/ a \in Machines /\ lock' = a /\ UNCHANGED row
              \/ a \in Browsers /\ row' = Stored(e) /\ UNCHANGED lock
  <2>1. /\ DOMAIN d = Fields /\ row.status # "pending" /\ step \in Steps /\ step = row.current_step
        /\ next # None
    BY <1>1, <1>3, WorkersSound DEF CasHolds, Sure, OrderInv, ActorsHold, Holds
  <2>2. /\ \A b \in Actors : ~HasClaimed(b)
        /\ \A i \in DOMAIN jobs : Rank[jobs[i].step] <= Rank[step]
    BY <1>1, <1>3, <2>1, ClaimAlone
  <2>3. next \in Steps /\ Rank[step] < Rank[next] /\ Rank[next] \in Nat /\ Rank[step] \in Nat /\ next # "completed"
    BY <2>1, RankFacts
  <2>4. \A i \in DOMAIN jobs : jobs[i].step # next
    BY <2>2, <2>3
  <2>5. KnowsEvery(row)
    BY <2>1, <2>2, RowKnows
  <2>6. Alike(d, row)
    BY <1>1, <2>1 DEF Agrees, StandsAt
  <2>7. KnowsEvery(d)
    BY <1>1, <2>5, <2>6, AlikeKnows DEF KnowsEvery
  <2>8. DOMAIN e = Fields /\ e.current_step = next /\ \A s \in Steps : s # next => JobOf(e, s) = JobOf(d, s)
    <3>1. /\ DOMAIN p = Fields /\ \A s \in Steps : s # next => JobOf(p, s) = JobOf(d, s)
      BY <2>1, Patched, PatchedJobs
    <3>. HIDE DEF p
    <3>2. DOMAIN e = Fields /\ e.steps = p.steps /\ e.current_step = next
      BY <3>1 DEF Fields
    <3>. QED
      BY <3>1, <3>2, SameRecords
  <2>. HIDE DEF p, e
  <2>9. KnowsEvery(e)
    <3>1. ASSUME NEW i \in DOMAIN jobs PROVE Knows(e, i)
      <4>1. jobs[i].step \in Steps /\ jobs[i].step # next
        BY <1>1, <2>4, JobStep DEF Sure
      <4>. QED
        BY <2>7, <2>8, <4>1 DEF KnowsEvery, Knows, JobOf
    <3>. QED
      BY <3>1 DEF KnowsEvery
  <2>10. /\ pc'[a] = "trigger" /\ doc'[a] = e
         /\ \A b \in Actors \ {a} : pc'[b] = pc[b] /\ doc'[b] = doc[b]
         /\ \A b \in Actors \ {a} : HasClaimed(b)' <=> HasClaimed(b)
    BY <1>1, <1>3, OthersStand DEF Sure
  <2>11. Agrees(a)'
    BY <1>1, <2>9, <2>10 DEF Agrees, KnowsEvery, Knows
  <2>12. CASE UNCHANGED row
    <3>1. ASSUME NEW b \in Actors \ {a} PROVE Agrees(b)'
      BY <1>1, <2>2, <2>10, <2>12 DEF Agreed, AgreeInv, Agrees, Alike
    <3>2. RowAgrees' /\ EditAgrees'
      BY <1>1, <2>5, <2>12 DEF Agreed, AgreeInv, RowAgrees, EditAgrees, KnowsEvery, Knows, Alike
    <3>. QED
      BY <2>11, <3>1, <3>2 DEF AgreeInv
  <2>13. CASE a \in Browsers /\ row' = Stored(e)
    <3>1. /\ row'.current_step = next /\ \A s : JobOf(row', s) = JobOf(e, s)
      BY <2>8, <2>13, StoredSame
    <3>2. RowAgrees'
      BY <1>1, <2>9, <3>1 DEF RowAgrees, KnowsEvery, Knows, JobOf
    <3>3. EditAgrees'
      BY <1>1, <2>1, <2>13 DEF Agreed, AgreeInv, EditAgrees
    <3>4. ASSUME NEW b \in Actors \ {a} PROVE Agrees(b)'
      <4>1. AtWork(b) => JobOf(doc[b], next) = NoJob
        <5>1. ASSUME AtWork(b) PROVE Sound(doc[b], jobs)
          BY <1>1, <5>1, WorkersSound
        <5>. QED
          BY <2>3, <2>4, <5>1, NoJobAhead
      <4>2. pc[b] \in {"query", "claim"} => ~StandsAt(doc[b], next)
        BY <1>1, <2>3, <4>1, StepUnknown DEF AtWork
      <4>3. ASSUME pc[b] = "persist" PROVE FALSE
        <5>1. Completes(doc[b], step, jobs) \/ Rejects(doc[b], step, jobs)
          BY <1>1, <2>1, <2>2, <4>3 DEF Sure, RaceInv, ActorRace
        <5>2. Sound(doc[b], jobs) /\ Sound(d, jobs) /\ TriggeredOnce /\ CurrentJob(d) = JobOf(d, step)
              /\ jobs[CurrentJob(d)].state = "succeeded" /\ CurrentJob(d) # NoJob
          BY <1>1, <4>3, WorkersSound, CurrentOf DEF AtWork, Sure, RaceInv, OrderInv, ActorsHold, Holds
        <5>3. CASE Completes(doc[b], step, jobs)
          BY <2>1, <5>3, RankFacts DEF Completes
        <5>4. CASE Rejects(doc[b], step, jobs)
          <6>1. JobOf(doc[b], step) # NoJob /\ CurrentJob(doc[b]) = JobOf(doc[b], step)
            BY <5>2, <5>4, CurrentOf DEF Rejects
          <6>2. CurrentJob(doc[b]) = CurrentJob(d)
            BY <2>1, <5>2, <6>1, SameJob
          <6>. QED
            BY <5>2, <5>4, <6>2 DEF Rejects
        <5>. QED
          BY <5>1, <5>3, <5>4
      <4>. QED
        BY <2>2, <2>10, <3>1, <4>2, <4>3 DEF Agrees
    <3>. QED
      BY <2>11, <3>2, <3>3, <3>4 DEF AgreeInv
  <2>. QED
    BY <1>3, <2>12, <2>13
<1>. QED
  BY <1>2, <1>3 DEF Claim

LEMMA TriggerAgrees ==
  ASSUME TriggersAreAnswered, Agreed, NEW a \in Actors, Trigger(a)
  PROVE  AgreeInv'
<1>. DEFINE d == doc[a]
            step == d.current_step
            started == PatchStep(d, step, Record("running", Len(jobs) + 1))
            f == PatchStep(d, step, Record("failed", CurrentRecord(d).job))
            failed == [f EXCEPT !.status = "failed"]
<1>1. /\ pc[a] = "trigger" /\ UNCHANGED <<row, lock, edit>> /\ HasClaimed(a) /\ AtWork(a)
      /\ Claims(a) /\ step \in Steps /\ Sure /\ KnowsEvery(d)
      /\ jobs \in Seq(JobRecords) /\ Len(jobs) \in Nat
  BY DEF Trigger, HasClaimed, Claiming, AtWork, Agreed, AgreeInv, Agrees, Sure, RaceInv, ActorRace, Claims, OrderInv,
         JobsTyped
<1>2. /\ DOMAIN d = Fields /\ CurrentRecord(d).job = JobOf(d, step) /\ CurrentJob(d) = NoJob
      /\ \A i \in DOMAIN jobs : jobs[i].step # step
      /\ CurrentRecord(d).job = NoJob
  BY <1>1, WorkersSound, CurrentOf DEF Claims
<1>3. /\ \A s : JobOf(started, s) = IF s = step THEN Len(jobs) + 1 ELSE JobOf(d, s)
  BY <1>2, PatchedJobs DEF Record
<1>4. failed.status = "failed" /\ CurrentJob(failed) = NoJob /\ \A s : JobOf(failed, s) = JobOf(d, s)
  <2>. DEFINE r == Record("failed", CurrentRecord(d).job)
  <2>1. r.job = NoJob /\ JobOf(d, step) = NoJob
    BY <1>2 DEF Record
  <2>. HIDE DEF r
  <2>2. DOMAIN f = Fields /\ f.steps[step] = r /\ f.current_step = step
    BY <1>2, Patched DEF r
  <2>3. \A s : JobOf(f, s) = IF s = step THEN r.job ELSE JobOf(d, s)
    BY <1>2, PatchedJobs DEF r
  <2>4. \A s : JobOf(f, s) = JobOf(d, s)
    BY <2>1, <2>3
  <2>. HIDE DEF f
  <2>5. failed.status = "failed" /\ failed.steps = f.steps /\ failed.current_step = step
    BY <2>2 DEF Fields
  <2>. QED
    BY <2>1, <2>2, <2>4, <2>5, SameRecords DEF CurrentJob
<1>5. started.status = d.status /\ d.status \in {"running", "paused"}
  BY <1>1, <1>2, Patched DEF Claims
<1>6. PICK e : /\ Goto(a, "persist", e) /\ Claiming("persist", e)
               /\ \/ /\ jobs' = Append(jobs, [step |-> step, state |-> "running"])
                     /\ \A s : JobOf(e, s) = IF s = step THEN Len(jobs) + 1 ELSE JobOf(d, s)
                  \/ UNCHANGED jobs /\ \A s : JobOf(e, s) = JobOf(d, s)
  <2>1. \/ Create(step) /\ Goto(a, "persist", started)
        \/ UNCHANGED jobs /\ Goto(a, "persist", failed)
    BY DEF Trigger, TriggersAreAnswered
  <2>. HIDE DEF started, failed
  <2>2. CASE Create(step) /\ Goto(a, "persist", started)
    BY <1>3, <1>5, <2>2 DEF Create, Claiming
  <2>3. CASE UNCHANGED jobs /\ Goto(a, "persist", failed)
    BY <1>4, <2>3 DEF Claiming
  <2>. QED
    BY <2>1, <2>2, <2>3
<1>. HIDE DEF started, failed, f
<1>7. /\ pc'[a] = "persist" /\ doc'[a] = e /\ HasClaimed(a)'
      /\ \A b \in Actors \ {a} : pc'[b] = pc[b] /\ doc'[b] = doc[b]
      /\ \A b \in Actors \ {a} : HasClaimed(b)' <=> HasClaimed(b)
  <2>1. /\ pc'[a] = "persist" /\ doc'[a] = e
        /\ \A b \in Actors \ {a} : pc'[b] = pc[b] /\ doc'[b] = doc[b]
        /\ \A b \in Actors \ {a} : HasClaimed(b)' <=> HasClaimed(b)
    BY <1>1, <1>6, OthersStand DEF Sure
  <2>. QED
    BY <1>6, <2>1 DEF HasClaimed
<1>8. KnowsEvery(doc[a])'
  <2>1. CASE UNCHANGED jobs /\ \A s : JobOf(e, s) = JobOf(d, s)
    BY <1>1, <1>7, <2>1 DEF KnowsEvery, Knows, JobOf
  <2>2. CASE /\ jobs' = Append(jobs, [step |-> step, state |-> "running"])
             /\ \A s : JobOf(e, s) = IF s = step THEN Len(jobs) + 1 ELSE JobOf(d, s)
    <3>. DEFINE r == [step |-> step, state |-> "running"]
    <3>1. r.step = step /\ r \in JobRecords /\ jobs' = Append(jobs, r)
      BY <1>1, <2>2 DEF JobRecords
    <3>. HIDE DEF r, step
    <3>2. DOMAIN jobs = 1 .. Len(jobs) /\ DOMAIN jobs' = 1 .. (Len(jobs) + 1)
      BY <1>1, <3>1
    <3>3. jobs'[Len(jobs) + 1] = r /\ \A i \in DOMAIN jobs : jobs'[i] = jobs[i]
      BY <1>1, <3>1, <3>2
    <3>4. \A i \in DOMAIN jobs' : i \in DOMAIN jobs \/ i = Len(jobs) + 1
      BY <1>1, <3>2
    <3>5. ASSUME NEW i \in DOMAIN jobs' PROVE JobOf(e, jobs'[i].step) = i
      <4>1. CASE i \in DOMAIN jobs
        BY <1>1, <1>2, <2>2, <3>3, <4>1 DEF KnowsEvery, Knows, JobOf, step
      <4>2. CASE i = Len(jobs) + 1
        BY <2>2, <3>1, <3>3, <4>2
      <4>. QED
        BY <3>4, <3>5, <4>1, <4>2
    <3>. QED
      BY <1>7, <3>5 DEF KnowsEvery, Knows, JobOf
  <2>. QED
    BY <1>6, <2>1, <2>2
<1>9. Agrees(a)'
  BY <1>7, <1>8 DEF Agrees
<1>10. \A b \in Actors \ {a} : ~HasClaimed(b) /\ pc[b] # "persist"
  BY <1>1, ClaimantWrites
<1>11. ASSUME NEW b \in Actors \ {a} PROVE Agrees(b)'
  BY <1>1, <1>7, <1>10 DEF Agreed, AgreeInv, Agrees, Alike
<1>12. RowAgrees'
  BY <1>7 DEF RowAgrees
<1>13. EditAgrees'
  <2>1. row.status # "pending"
    BY <1>1, WorkersSound
  <2>. QED
    BY <1>1, <2>1 DEF Agreed, AgreeInv, EditAgrees, Alike
<1>. QED
  BY <1>9, <1>11, <1>12, <1>13 DEF AgreeInv

LEMMA PersistAgrees ==
  ASSUME Agreed, NEW a \in Actors, Persist(a)
  PROVE  AgreeInv'
<1>. DEFINE d == doc[a]
            at == row.current_step
            next == d.current_step
<1>1. /\ pc[a] = "persist" /\ lock \in {None, a} /\ row' = Stored(d) /\ AtWork(a) /\ UNCHANGED <<edit, jobs>>
      /\ Sure /\ Goto(a, "idle", None) /\ row.status # "pending" /\ Agrees(a) /\ DOMAIN d = Fields
      /\ row.current_step \in Steps \union {"completed"}
  <2>1. /\ pc[a] = "persist" /\ lock \in {None, a} /\ row' = Stored(d) /\ AtWork(a) /\ UNCHANGED <<edit, jobs>>
        /\ Sure /\ Goto(a, "idle", None) /\ Agrees(a)
    BY DEF Persist, Leave, AtWork, Agreed, AgreeInv
  <2>. QED
    BY <2>1, WorkersSound DEF Sure, TypeInv, RowTyped, Formed, Bodies
<1>2. row'.status = d.status /\ row'.current_step = next /\ \A s : JobOf(row', s) = JobOf(d, s)
  BY <1>1, StoredSame
<1>3. /\ pc'[a] = "idle" /\ \A b \in Actors \ {a} : pc'[b] = pc[b] /\ doc'[b] = doc[b]
      /\ \A b \in Actors \ {a} : HasClaimed(b)' <=> HasClaimed(b)
  BY <1>1, OthersStand DEF Sure
<1>4. Agrees(a)'
  BY <1>3 DEF Agrees, HasClaimed, Claiming
<1>5. \A s \in Steps \union {"completed"} : Rank[s] \in Nat /\ Rank[s] <= 8
  BY RankFacts
<1>6. edit # None => edit.current_step \in Steps
  BY <1>1 DEF Sure, RaceInv, EditRace
<1>7. edit # None => Browsers = {} /\ Rank[edit.current_step] <= Rank[at]
                     /\ (edit.current_step = at => Alike(edit.body, row))
  BY <1>1 DEF Agreed, AgreeInv, EditAgrees
<1>8. CASE HasClaimed(a)
  <2>1. /\ Claims(a) /\ Hidden(a, next) /\ next \in Steps /\ next # "completed" /\ KnowsEvery(d)
        /\ d.status # "pending"
    BY <1>1, <1>8, RankFacts DEF Sure, RaceInv, ActorRace, Claims, Agrees
  <2>2. \A b \in Actors \ {a} : ~HasClaimed(b) /\ pc[b] # "persist"
    BY <1>1, <1>8, ClaimantWrites
  <2>3. ASSUME NEW b \in Actors \ {a} PROVE Agrees(b)'
    <3>1. AtWork(b) => JobOf(doc[b], next) = NoJob
      BY <2>1 DEF Hidden
    <3>2. pc[b] \in {"query", "claim"} => ~StandsAt(doc[b], next)
      BY <1>1, <2>1, <3>1, StepUnknown DEF AtWork
    <3>. QED
      BY <1>2, <1>3, <2>2, <3>2 DEF Agrees
  <2>4. RowAgrees'
    BY <1>1, <1>2, <2>1 DEF RowAgrees, KnowsEvery, Knows, JobOf
  <2>5. EditAgrees'
    <3>1. ASSUME edit # None PROVE Rank[edit.current_step] < Rank[next]
      <4>1. at \in Steps /\ NextStep[at] = next /\ NextStep[at] # None
        BY <1>7, <2>1, <3>1 DEF Claims
      <4>2. Rank[at] < Rank[next]
        BY <4>1, RankFacts
      <4>. QED
        BY <1>5, <1>6, <1>7, <2>1, <3>1, <4>1, <4>2
    <3>2. edit # None => edit.current_step # next /\ Rank[edit.current_step] <= Rank[next]
      BY <1>5, <1>6, <2>1, <3>1
    <3>. QED
      BY <1>1, <1>2, <1>7, <2>1, <3>2 DEF EditAgrees
  <2>. QED
    BY <1>4, <2>3, <2>4, <2>5 DEF AgreeInv
<1>9. CASE ~HasClaimed(a)
  <2>1. /\ \A b \in Actors : ~HasClaimed(b)
        /\ Completes(d, at, jobs) \/ Rejects(d, at, jobs)
    BY <1>1, <1>9, VerdictWrites
  <2>2. Alike(d, row)
    BY <1>1, <1>9 DEF Agrees
  <2>3. \A s \in Steps : JobOf(row', s) = JobOf(row, s)
    BY <1>2, <2>2 DEF Alike
  <2>4. KnowsEvery(row)
    BY <1>1, <2>1, RowKnows
  <2>5. RowAgrees'
    <3>1. ASSUME NEW i \in DOMAIN jobs PROVE Knows(row', i)
      <4>1. jobs[i].step \in Steps
        BY <1>1, JobStep DEF Sure
      <4>. QED
        BY <2>3, <2>4, <4>1 DEF KnowsEvery, Knows, JobOf
    <3>. QED
      BY <1>1, <3>1 DEF RowAgrees, Knows
  <2>6. \/ next = "completed" /\ Completes(d, at, jobs) /\ row'.status # "pending"
        \/ next = at /\ at \in Steps /\ row'.status # "pending"
    BY <1>2, <2>1 DEF Completes, Rejects
  <2>7. EditAgrees'
    <3>1. CASE next = "completed"
      <4>1. edit # None => edit.current_step # next /\ Rank[edit.current_step] <= Rank[next]
        BY <1>5, <1>6, <3>1, RankFacts
      <4>. QED
        BY <1>1, <1>2, <1>7, <2>6, <4>1 DEF EditAgrees
    <3>2. CASE next = at
      BY <1>1, <1>2, <1>7, <2>3, <2>6, <3>2 DEF EditAgrees, Alike
    <3>. QED
      BY <2>6, <3>1, <3>2
  <2>8. ASSUME NEW b \in Actors \ {a} PROVE Agrees(b)'
    <3>1. Agrees(b)
      BY DEF Agreed, AgreeInv
    <3>2. ASSUME pc[b] \in {"query", "claim"}, StandsAt(doc[b], next) PROVE StandsAt(doc[b], at)
      <4>1. Reads(doc[b], at, jobs) /\ doc[b].current_step \in Steps /\ doc[b].current_step # "completed"
        BY <1>1, <3>2, RankFacts DEF Sure, RaceInv, ActorRace, Reads
      <4>2. CASE next = "completed" /\ Completes(d, at, jobs)
        BY <3>2, <4>1, <4>2 DEF StandsAt, Completes, Reads, Follows
      <4>. QED
        BY <2>6, <3>2, <4>2
    <3>. QED
      BY <1>2, <1>3, <2>1, <2>3, <3>1, <3>2 DEF Agrees, Alike
  <2>. QED
    BY <1>4, <2>5, <2>7, <2>8 DEF AgreeInv
<1>. QED
  BY <1>8, <1>9

LEMMA AdvanceAgrees ==
  ASSUME TriggersAreAnswered, Agreed, NEW a \in Actors, Advance(a)
  PROVE  AgreeInv'
<1>1. CASE List(a) \/ QueryFails(a)
  <2>1. /\ pc[a] \in {"idle", "query"} /\ UNCHANGED <<row, edit, jobs>>
        /\ Goto(a, "read", None) \/ Goto(a, "idle", None)
    BY <1>1 DEF List, QueryFails, Leave
  <2>2. ~HasClaimed(a)
    BY <2>1 DEF HasClaimed, Claiming
  <2>. QED
    BY <2>1, <2>2, ThinkingAgrees DEF Claiming
<1>. QED
  BY <1>1, ReadAgrees, AnsweredAgrees, ClaimAgrees, TriggerAgrees, PersistAgrees DEF Advance

LEMMA StartAgrees ==
  ASSUME Agreed, Start
  PROVE  AgreeInv'
<1>. DEFINE step == row.current_step
            r == Record("running", Len(jobs) + 1)
            r0 == Record("failed", NoJob)
<1>1. /\ edit = None /\ row.status = "pending" /\ UNCHANGED <<row, lock, pc, doc>>
      /\ jobs = << >> /\ \A a \in Actors : pc[a] = "idle"
  BY DEF Start, Agreed, Sure, RaceInv, RowRace, OrderInv, RowHolds
<1>2. step \in Steps /\ DOMAIN row = Fields
  BY <1>1, CurrentOf, BodyFields DEF Agreed, Sure, OrderInv, RowHolds, TypeInv, RowTyped, Formed
<1>3. r \in StepRecords /\ r0 \in StepRecords /\ r.job = 1
  BY <1>1 DEF Record, StepRecords, RecordStatuses, NoJob
<1>4. \/ Create(step) /\ Submit(Restarted(row, step, r, "running"))
      \/ UNCHANGED jobs /\ Submit(Restarted(row, step, r0, "failed"))
  BY DEF Start, Restarted
<1>5. JobOf(Restarted(row, step, r, "running"), step) = 1
  <2>. DEFINE p == PatchStep(row, step, r)
              e == [p EXCEPT !.status = "running"]
  <2>1. DOMAIN p = Fields /\ JobOf(p, step) = 1
    BY <1>2, <1>3, Patched, PatchedJobs
  <2>. HIDE DEF p
  <2>2. e.steps = p.steps
    BY <2>1 DEF Fields
  <2>3. JobOf(e, step) = 1
    BY <2>1, <2>2, SameRecords
  <2>. QED
    BY <2>3 DEF Restarted, p
<1>. HIDE DEF r, r0, step
<1>6. PICK body : /\ Submit(body) /\ Formed(body)
                  /\ \/ Create(step) /\ JobOf(body, step) = 1
                     \/ UNCHANGED jobs
  BY <1>2, <1>3, <1>4, <1>5, RestartedBody DEF step, Agreed
<1>7. edit' # None /\ edit'.body = body
  BY <1>6, SubmitWrites DEF Agreed, Sure
<1>8. \A i \in DOMAIN jobs' : i = 1 /\ jobs'[i].step = step /\ JobOf(body, step) = 1
  BY <1>1, <1>6 DEF Create
<1>9. EditAgrees'
  BY <1>1, <1>7, <1>8 DEF EditAgrees, KnowsEvery, Knows, JobOf
<1>10. RowAgrees'
  BY <1>1, <1>7 DEF RowAgrees
<1>11. \A a \in Actors : Agrees(a)'
  BY <1>1 DEF Agrees, HasClaimed, Claiming
<1>. QED
  BY <1>9, <1>10, <1>11 DEF AgreeInv

LEMMA ChangeAgrees ==
  ASSUME OwnerOrBrowsers, Agreed, Change
  PROVE  AgreeInv'
<1>1. /\ UNCHANGED <<row, lock, pc, doc, jobs>> /\ row.status \in {"running", "paused"}
      /\ \/ Submit([row EXCEPT !.status = "running"])
         \/ Submit([row EXCEPT !.status = "paused"])
         \/ Submit([row EXCEPT !.run_auto = "off"])
  BY DEF Change
<1>2. Browsers = {}
  <2>1. ClientMoves # {}
    BY DEF Change
  <2>. QED
    BY <2>1 DEF OwnerOrBrowsers
<1>3. DOMAIN row = Fields /\ row.current_step \in Steps
  BY <1>1, BodyFields, CurrentOf DEF Agreed, Sure, TypeInv, RowTyped, Formed, OrderInv, RowHolds
<1>4. PICK body : Submit(body) /\ body.steps = row.steps
  <2>1. /\ [row EXCEPT !.status = "running"].steps = row.steps
        /\ [row EXCEPT !.status = "paused"].steps = row.steps
        /\ [row EXCEPT !.run_auto = "off"].steps = row.steps
    BY <1>3 DEF Fields
  <2>. QED
    BY <1>1, <2>1
<1>5. edit'.body = body /\ edit'.current_step = row.current_step
  BY <1>4 DEF Submit
<1>6. Alike(body, row) /\ Rank[row.current_step] <= Rank[row.current_step]
  BY <1>3, <1>4, SameRecords, RankFacts DEF Alike
<1>7. EditAgrees'
  BY <1>1, <1>2, <1>5, <1>6 DEF EditAgrees, Alike
<1>8. RowAgrees'
  BY <1>1 DEF Agreed, AgreeInv, RowAgrees, HasClaimed, Knows
<1>9. ASSUME NEW a \in Actors PROVE Agrees(a)'
  <2>1. Agrees(a)
    BY DEF Agreed, AgreeInv
  <2>. QED
    BY <1>1, <2>1 DEF Agrees, HasClaimed, KnowsEvery, Knows, Alike
<1>. QED
  BY <1>7, <1>8, <1>9 DEF AgreeInv

LEMMA PutAgrees ==
  ASSUME Agreed, Put
  PROVE  AgreeInv'
<1>. DEFINE body == edit.body
            at == row.current_step
<1>1. /\ edit # None /\ edit' = None /\ UNCHANGED <<pc, doc, jobs>> /\ Sure
      /\ \/ row.status = edit.status /\ at = edit.current_step /\ row' = Stored(body)
         \/ ~(row.status = edit.status /\ at = edit.current_step) /\ UNCHANGED row
  BY DEF Put, Agreed
<1>2. /\ DOMAIN body = Fields /\ body.current_step = edit.current_step
      /\ row.status = "pending" => edit.status = "pending" /\ edit.current_step = at
  BY <1>1, BodyFields DEF Sure, RaceInv, EditRace, TypeInv, EditTyped, Formed
<1>3. /\ Stored(body).current_step = edit.current_step
      /\ \A s : JobOf(Stored(body), s) = JobOf(body, s)
  BY <1>2, StoredSame
<1>4. EditAgrees
  BY DEF Agreed, AgreeInv
<1>5. EditAgrees'
  BY <1>1 DEF EditAgrees
<1>6. CASE row.status = "pending"
  <2>1. KnowsEvery(body) /\ row' = Stored(body) /\ \A a \in Actors : pc[a] = "idle"
    BY <1>1, <1>2, <1>4, <1>6 DEF EditAgrees, Sure, OrderInv, RowHolds
  <2>2. RowAgrees'
    BY <1>1, <1>3, <2>1 DEF RowAgrees, KnowsEvery, Knows, JobOf
  <2>3. \A a \in Actors : Agrees(a)'
    BY <1>1, <2>1 DEF Agrees, HasClaimed, Claiming
  <2>. QED
    BY <1>5, <2>2, <2>3 DEF AgreeInv
<1>7. CASE row.status # "pending"
  <2>1. row'.current_step = at /\ \A s \in Steps : JobOf(row', s) = JobOf(row, s)
    BY <1>1, <1>3, <1>4, <1>7 DEF EditAgrees, Alike
  <2>2. RowAgrees'
    <3>1. ASSUME NEW i \in DOMAIN jobs, Knows(row, i) PROVE Knows(row', i)
      <4>1. jobs[i].step \in Steps
        BY <1>1, JobStep DEF Sure
      <4>. QED
        BY <2>1, <3>1, <4>1 DEF Knows, JobOf
    <3>. QED
      BY <1>1, <1>7, <3>1 DEF Agreed, AgreeInv, RowAgrees, HasClaimed, Knows
  <2>3. ASSUME NEW a \in Actors PROVE Agrees(a)'
    <3>1. Agrees(a)
      BY DEF Agreed, AgreeInv
    <3>. QED
      BY <1>1, <2>1, <3>1 DEF Agrees, HasClaimed, KnowsEvery, Knows, Alike
  <2>. QED
    BY <1>5, <2>2, <2>3 DEF AgreeInv
<1>. QED
  BY <1>6, <1>7

LEMMA JobEndsAgrees ==
  ASSUME Agreed, NEW j \in DOMAIN jobs, JobEnds(j)
  PROVE  AgreeInv'
<1>1. /\ UNCHANGED <<row, lock, pc, doc, edit>> /\ jobs \in Seq(JobRecords)
  BY DEF JobEnds, Agreed, Sure, OrderInv, JobsTyped
<1>2. PICK state \in {"succeeded", "failed"} : jobs' = [jobs EXCEPT ![j].state = state]
  BY DEF JobEnds
<1>3. jobs[j] \in JobRecords
  BY <1>1
<1>4. [jobs[j] EXCEPT !.state = state].step = jobs[j].step
  BY <1>3 DEF JobRecords
<1>5. DOMAIN jobs' = DOMAIN jobs /\ \A i \in DOMAIN jobs : jobs'[i].step = jobs[i].step
  BY <1>2, <1>4
<1>6. \A d : KnowsEvery(d) => \A i \in DOMAIN jobs' : StepRecord(d, jobs'[i].step).job = i
  BY <1>5 DEF KnowsEvery, Knows
<1>7. RowAgrees'
  BY <1>1, <1>5 DEF Agreed, AgreeInv, RowAgrees, HasClaimed, Knows
<1>8. EditAgrees'
  BY <1>1, <1>6 DEF Agreed, AgreeInv, EditAgrees, KnowsEvery, Knows, Alike
<1>9. ASSUME NEW a \in Actors PROVE Agrees(a)'
  <2>1. Agrees(a)
    BY DEF Agreed, AgreeInv
  <2>. QED
    BY <1>1, <1>6, <2>1 DEF Agrees, HasClaimed, KnowsEvery, Knows, Alike
<1>. QED
  BY <1>7, <1>8, <1>9 DEF AgreeInv

LEMMA AgreeInit == Init => AgreeInv
BY DEF Init, AgreeInv, RowAgrees, EditAgrees, Agrees, HasClaimed, Claiming

LEMMA AgreeNext ==
  ASSUME NobodyCutShort, OwnerSendsNothingBack, TriggersAreAnswered, OwnerOrBrowsers, Agreed, [Next]_vars
  PROVE  AgreeInv'
<1>1. CASE UNCHANGED vars
  <2>1. UNCHANGED <<row, edit, jobs, pc, doc>>
    BY <1>1 DEF vars
  <2>2. \A a \in Actors : Agrees(a)'
    BY <2>1 DEF Agreed, AgreeInv, Agrees, HasClaimed, KnowsEvery, Knows, Alike
  <2>3. RowAgrees' /\ EditAgrees'
    BY <2>1 DEF Agreed, AgreeInv, RowAgrees, EditAgrees, HasClaimed, KnowsEvery, Knows, Alike
  <2>. QED
    BY <2>2, <2>3 DEF AgreeInv
<1>2. ASSUME Retry PROVE FALSE
  <2>1. "retry" \in ClientMoves
    BY <1>2, Zenon DEF Retry
  <2>. QED
    BY <2>1 DEF OwnerSendsNothingBack
<1>3. ASSUME NEW a \in Actors PROVE ~Crash(a)
  BY DEF NobodyCutShort, Crash
<1>. QED
  BY <1>1, <1>2, <1>3, AdvanceAgrees, StartAgrees, ChangeAgrees, PutAgrees, JobEndsAgrees DEF Next, Owner

(* A job that has been created is never lost from the task: the row points to
   it, or the actor or the owner that is about to write it does, although every
   write replaces the whole body (_persist_with_retries, the owner's PUT).
   Shown where no trigger times out and a task that browsers advance is not
   changed by its owner at the same time; both make a job be lost. *)
THEOREM NoJobDropped ==
  ASSUME NobodyCutShort, OwnerSendsNothingBack, TriggersAreAnswered, OwnerOrBrowsers
  PROVE  Spec => []JobsAreKnown
<1>1. Init => Agreed
  BY OrderInitInv, TypesInit, RaceInit, AgreeInit DEF Sure, Agreed
<1>2. Agreed /\ [Next]_vars => Agreed'
  BY OrderNextInv, TypesNext, RaceNext, AgreeNext DEF Sure, Agreed
<1>3. Agreed => JobsAreKnown
  <2>. SUFFICES ASSUME Agreed PROVE JobsAreKnown
    OBVIOUS
  <2>1. TypeOK
    BY TypesFollow DEF Agreed, Sure
  <2>2. NoJobIsLost
    BY DEF Agreed, AgreeInv, RowAgrees, EditAgrees, Agrees, NoJobIsLost, KnowsEvery
  <2>. QED
    BY <2>1, <2>2 DEF JobsAreKnown
<1>. QED
  BY <1>1, <1>2, <1>3, PTL DEF Spec

-----------------------------------------------------------------------------
(* One machine and no browser: a failure is recorded over the job that      *)
(* failed, whatever fails and whatever the owner does.  While the machine   *)
(* works on the task the row is running or paused, so the owner cannot send *)
(* the task back under it; and the machine takes the row to a later step,   *)
(* or away from those two statuses, so that no change the owner has         *)
(* submitted before applies to what the machine leaves there.               *)

OneMachineAlone == Browsers = {} /\ \A a, b \in Machines : a = b

\* The actor is about to record the failure of a job, not of a claim.
Judges(a) == pc[a] = "persist" /\ lock # a /\ doc[a].status = "failed"

\* A body at the row's step, with the row's job of that step.
OnRow(d) ==
  /\ d.current_step \in Steps /\ d.current_step = row.current_step
  /\ JobOf(d, d.current_step) # NoJob /\ JobOf(d, d.current_step) = JobOf(row, row.current_step)

ActorJudges(a) ==
  /\ AtWork(a) => row.status \in {"running", "paused"}
  /\ pc[a] \in {"query", "claim"} => OnRow(doc[a]) /\ doc[a].status \in {"running", "paused"}
  /\ Judges(a) => OnRow(doc[a])
  /\ pc[a] \in {"trigger", "persist"} /\ ~Judges(a) =>
       row.current_step \in Steps /\ Rank[row.current_step] < Rank[doc[a].current_step]

EditJudges ==
  edit # None =>
    /\ Rank[edit.current_step] <= Rank[row.current_step]
    /\ row.status \in {"running", "paused"} /\ edit.status = row.status
         /\ edit.current_step = row.current_step =>
         /\ edit.body.status \in {"running", "paused"}
         /\ edit.body.current_step = row.current_step
         /\ JobOf(edit.body, row.current_step) = JobOf(row, row.current_step)

JudgeInv == EditJudges /\ \A a \in Actors : ActorJudges(a)
Judged == OrderInv /\ TypeInv /\ JudgeInv

\* What is known of an actor at work, with every fault and every move.
LEMMA WorkerKnown ==
  ASSUME Judged, NEW a \in Actors, AtWork(a)
  PROVE  /\ Sound(doc[a], jobs) /\ DOMAIN doc[a] = Fields /\ Formed(doc[a])
         /\ row.status \in {"running", "paused"}
         /\ row.current_step \in Steps /\ row.current_step \in DOMAIN row.steps
         /\ doc[a].current_step \in Steps \union {"completed"}
<1>1. Sound(doc[a], jobs) /\ Formed(doc[a]) /\ row.status \in {"running", "paused"}
  BY DEF AtWork, Judged, OrderInv, ActorsHold, Holds, TypeInv, ActorTyped, JudgeInv, ActorJudges
<1>2. Sound(row, jobs) /\ doc[a] \in Bodies
  BY <1>1 DEF Judged, OrderInv, RowHolds, Formed
<1>. QED
  BY <1>1, <1>2, CurrentOf DEF Sound, Bodies

LEMMA NobodyElse ==
  ASSUME OneMachineAlone, NEW a \in Actors, NEW b \in Actors
  PROVE  a = b /\ a \in Machines
BY DEF OneMachineAlone, Actors

\* An actor that publishes nothing.
LEMMA ThinkingJudges ==
  ASSUME OneMachineAlone, Judged, NEW a \in Actors, NEW l, NEW d, Goto(a, l, d),
         UNCHANGED <<row, edit>>,
         \/ l \in {"idle", "read"}
         \/ /\ row.status \in {"running", "paused"}
            /\ \/ l \in {"query", "claim"} /\ OnRow(d) /\ d.status \in {"running", "paused"}
               \/ l = "persist" /\ lock' # a /\ d.status = "failed" /\ OnRow(d)
               \/ /\ l = "trigger" \/ (l = "persist" /\ (d.status = "failed" => lock' = a))
                  /\ row.current_step \in Steps /\ Rank[row.current_step] < Rank[d.current_step]
  PROVE  JudgeInv'
<1>1. pc'[a] = l /\ doc'[a] = d
  BY DEF Goto, Judged, OrderInv, ActorsTyped
<1>2. ActorJudges(a)'
  BY <1>1 DEF ActorJudges, AtWork, Judges, OnRow
<1>3. \A b \in Actors : ActorJudges(b)'
  BY <1>2, NobodyElse
<1>4. EditJudges'
  BY DEF Judged, JudgeInv, EditJudges
<1>. QED
  BY <1>3, <1>4 DEF JudgeInv

LEMMA ResolveJudges ==
  ASSUME OneMachineAlone, Judged, NEW a \in Actors, NEW d, Resolve(a, d), DOMAIN d = Fields, OnRow(d),
         d.status \in {"running", "paused"}, row.status \in {"running", "paused"},
         UNCHANGED <<row, edit, lock>>
  PROVE  JudgeInv'
<1>. DEFINE next == NextStep[d.current_step]
            e == [d EXCEPT !.status = "completed", !.current_step = "completed"]
            g == [d EXCEPT !.current_step = next]
<1>1. d.current_step \in Steps /\ row.current_step = d.current_step
  BY DEF OnRow
<1>2. CASE next = None /\ Goto(a, "persist", e)
  <2>1. e.status = "completed" /\ e.current_step = "completed"
    BY DEF Fields
  <2>2. Rank[row.current_step] < Rank[e.current_step]
    BY <1>1, <2>1, RankFacts
  <2>. HIDE DEF e
  <2>. QED
    BY <1>1, <1>2, <2>1, <2>2, ThinkingJudges
<1>3. CASE next # None /\ Goto(a, "persist", g)
  <2>1. g.status = d.status /\ g.current_step = next
    BY DEF Fields
  <2>2. Rank[row.current_step] < Rank[next]
    BY <1>1, <1>3, RankFacts
  <2>. HIDE DEF g
  <2>. QED
    BY <1>1, <1>3, <2>1, <2>2, ThinkingJudges
<1>4. CASE Goto(a, "claim", d)
  BY <1>4, ThinkingJudges
<1>. QED
  BY <1>2, <1>3, <1>4 DEF Resolve

LEMMA ReadJudges ==
  ASSUME OneMachineAlone, Judged, NEW a \in Actors, Read(a)
  PROVE  JudgeInv'
<1>1. pc[a] = "read" /\ UNCHANGED <<row, edit, jobs, lock>> /\ row.status # "pending"
  BY AtWorkMeansStarted DEF Read, Judged
<1>2. CASE Leave(a)
  BY <1>1, <1>2, ThinkingJudges DEF Leave
<1>3. CASE Advanceable(row)
  <2>1. DOMAIN row = Fields /\ row.status \in Statuses
    BY BodyFields DEF Judged, TypeInv, RowTyped, Formed, Bodies
  <2>2. row.status \in {"running", "paused"} /\ OnRow(row)
    BY <1>1, <1>3, <2>1 DEF OnRow, Advanceable, Terminal, Statuses, JobOf
  <2>3. CASE Goto(a, "query", row)
    BY <1>1, <2>2, <2>3, ThinkingJudges
  <2>4. CASE Resolve(a, row)
    BY <1>1, <2>1, <2>2, <2>4, ResolveJudges
  <2>. QED
    BY <1>2, <1>3, <2>3, <2>4 DEF Read
<1>. QED
  BY <1>2, <1>3 DEF Read

LEMMA AnsweredJudges ==
  ASSUME OneMachineAlone, Judged, NEW a \in Actors, Answered(a)
  PROVE  JudgeInv'
<1>. DEFINE d == doc[a]
            step == d.current_step
            Ended(status) == PatchStep(d, step, Record(status, CurrentRecord(d).job))
            f == Ended("failed")
            e == [f EXCEPT !.status = "failed"]
            c == Ended("completed")
<1>1. pc[a] = "query" /\ UNCHANGED <<row, edit, jobs, lock>> /\ AtWork(a)
  BY DEF Answered, AtWork
<1>2. /\ Sound(d, jobs) /\ DOMAIN d = Fields /\ OnRow(d) /\ d.status \in {"running", "paused"}
      /\ row.status \in {"running", "paused"}
  BY <1>1, WorkerKnown DEF Judged, JudgeInv, ActorJudges
<1>3. CurrentRecord(d).job = JobOf(d, step) /\ step \in Steps
  BY <1>2, CurrentOf
<1>4. lock' # a
  BY <1>1 DEF Judged, TypeInv, ActorTyped
<1>5. ASSUME NEW status \in {"failed", "completed"}
      PROVE  /\ DOMAIN Ended(status) = Fields
             /\ Ended(status).status = d.status /\ Ended(status).current_step = step
             /\ JobOf(Ended(status), step) = JobOf(d, step)
  <2>. DEFINE r == Record(status, CurrentRecord(d).job)
  <2>1. r.job = JobOf(d, step)
    BY <1>3 DEF Record
  <2>. HIDE DEF r
  <2>. QED
    BY <1>2, <2>1, Patched, PatchedJobs DEF r
<1>6. CASE Leave(a)
  BY <1>1, <1>6, ThinkingJudges DEF Leave
<1>7. CASE Goto(a, "persist", e)
  <2>1. DOMAIN f = Fields /\ f.current_step = step /\ JobOf(f, step) = JobOf(d, step)
    BY <1>5
  <2>. HIDE DEF f
  <2>2. e.status = "failed" /\ e.current_step = step /\ e.steps = f.steps
    BY <2>1 DEF Fields
  <2>3. JobOf(e, step) = JobOf(d, step)
    BY <2>1, <2>2, SameRecords
  <2>4. OnRow(e)
    BY <1>2, <2>2, <2>3 DEF OnRow
  <2>. HIDE DEF e
  <2>. QED
    BY <1>1, <1>2, <1>4, <1>7, <2>2, <2>4, ThinkingJudges
<1>8. CASE Resolve(a, c)
  <2>1. DOMAIN c = Fields /\ c.status = d.status /\ c.current_step = step /\ JobOf(c, step) = JobOf(d, step)
    BY <1>5
  <2>. HIDE DEF c
  <2>2. OnRow(c)
    BY <1>2, <2>1 DEF OnRow
  <2>. QED
    BY <1>1, <1>2, <1>8, <2>1, <2>2, ResolveJudges
<1>. QED
  BY <1>6, <1>7, <1>8 DEF Answered

LEMMA ClaimJudges ==
  ASSUME OneMachineAlone, Judged, NEW a \in Actors, Claim(a)
  PROVE  JudgeInv'
<1>. DEFINE d == doc[a]
            next == NextStep[d.current_step]
            p == PatchStep(d, next, Record("running", NoJob))
            e == [p EXCEPT !.current_step = next]
<1>1. pc[a] = "claim" /\ UNCHANGED <<edit, jobs>> /\ AtWork(a) /\ a \notin Browsers
  BY DEF Claim, AtWork, OneMachineAlone
<1>2. CASE Leave(a) /\ UNCHANGED <<row, lock>>
  BY <1>2, <1>1, ThinkingJudges DEF Leave
<1>3. CASE Goto(a, "trigger", e) /\ UNCHANGED row
  <2>1. /\ DOMAIN d = Fields /\ OnRow(d) /\ row.status \in {"running", "paused"} /\ next # None
    BY <1>1, WorkerKnown DEF Judged, JudgeInv, ActorJudges, OrderInv, ActorsHold, Holds
  <2>2. Rank[row.current_step] < Rank[next] /\ row.current_step \in Steps
    BY <2>1, RankFacts DEF OnRow
  <2>3. DOMAIN p = Fields
    BY <2>1, Patched
  <2>. HIDE DEF p
  <2>4. e.current_step = next
    BY <2>3 DEF Fields
  <2>. HIDE DEF e
  <2>. QED
    BY <1>1, <1>3, <2>1, <2>2, <2>4, ThinkingJudges
<1>. QED
  BY <1>1, <1>2, <1>3 DEF Claim

LEMMA TriggerJudges ==
  ASSUME OneMachineAlone, Judged, NEW a \in Actors, Trigger(a)
  PROVE  JudgeInv'
<1>. DEFINE d == doc[a]
            step == d.current_step
            started == PatchStep(d, step, Record("running", Len(jobs) + 1))
            f == PatchStep(d, step, Record("failed", CurrentRecord(d).job))
            failed == [f EXCEPT !.status = "failed"]
<1>1. pc[a] = "trigger" /\ UNCHANGED <<row, lock, edit>> /\ AtWork(a) /\ ~Judges(a)
  BY DEF Trigger, AtWork, Judges
<1>2. /\ DOMAIN d = Fields /\ row.status \in {"running", "paused"}
      /\ row.current_step \in Steps /\ Rank[row.current_step] < Rank[step]
  BY <1>1, WorkerKnown DEF Judged, JudgeInv, ActorJudges
<1>3. lock' = a
  <2>1. a \in Machines
    BY NobodyElse
  <2>. QED
    BY <1>1, <2>1 DEF Judged, TypeInv, ActorTyped
<1>4. started.current_step = step
  BY <1>2, Patched
<1>5. failed.current_step = step
  <2>1. DOMAIN f = Fields /\ f.current_step = step
    BY <1>2, Patched
  <2>. HIDE DEF f
  <2>. QED
    BY <2>1 DEF Fields
<1>6. Goto(a, "persist", started) \/ Goto(a, "persist", failed)
  BY DEF Trigger
<1>. HIDE DEF started, failed, f
<1>. QED
  BY <1>1, <1>2, <1>3, <1>4, <1>5, <1>6, ThinkingJudges

LEMMA PersistJudges ==
  ASSUME OneMachineAlone, Judged, NEW a \in Actors, Persist(a)
  PROVE  JudgeInv'
<1>. DEFINE d == doc[a]
<1>1. /\ pc[a] = "persist" /\ row' = Stored(d) /\ AtWork(a) /\ UNCHANGED edit /\ Goto(a, "idle", None)
  BY DEF Persist, Leave, AtWork
<1>2. DOMAIN d = Fields /\ d.current_step \in Steps \union {"completed"} /\ row.current_step \in Steps
  BY <1>1, WorkerKnown
<1>3. row'.status = d.status /\ row'.current_step = d.current_step
  BY <1>1, <1>2, StoredSame
<1>4. \A b \in Actors : pc'[b] = "idle"
  <2>1. pc'[a] = "idle"
    BY <1>1 DEF Goto, Judged, OrderInv, ActorsTyped
  <2>. QED
    BY <2>1, NobodyElse
<1>5. \A b \in Actors : ActorJudges(b)'
  BY <1>4 DEF ActorJudges, AtWork, Judges
<1>6. EditJudges'
  <2>. SUFFICES ASSUME edit # None PROVE EditJudges'
    BY <1>1 DEF EditJudges
  <2>1. /\ edit.current_step \in Steps \union {"completed"}
        /\ Rank[edit.current_step] <= Rank[row.current_step]
    BY DEF Judged, TypeInv, EditTyped, Writes, JudgeInv, EditJudges
  <2>2. \A s \in Steps \union {"completed"} : Rank[s] \in Nat
    BY RankFacts
  <2>3. CASE Judges(a)
    BY <1>1, <1>3, <2>1, <2>3 DEF EditJudges, Judges, OnRow, Judged, JudgeInv, ActorJudges
  <2>4. CASE ~Judges(a)
    <3>1. Rank[row.current_step] < Rank[d.current_step]
      BY <1>1, <2>4 DEF Judged, JudgeInv, ActorJudges
    <3>2. Rank[edit.current_step] < Rank[d.current_step]
      BY <1>2, <2>1, <2>2, <3>1
    <3>3. edit.current_step # d.current_step /\ Rank[edit.current_step] <= Rank[d.current_step]
      BY <1>2, <2>1, <2>2, <3>2
    <3>. QED
      BY <1>1, <1>3, <3>3 DEF EditJudges
  <2>. QED
    BY <2>3, <2>4
<1>. QED
  BY <1>5, <1>6 DEF JudgeInv

\* The owner submits a change while nothing else happens.
LEMMA SubmitJudges ==
  ASSUME Judged, NEW body, Submit(body), UNCHANGED <<row, lock, pc, doc>>,
         row.status \in {"running", "paused"} =>
           /\ body.status \in {"running", "paused"} /\ body.current_step = row.current_step
           /\ body.steps = row.steps
  PROVE  JudgeInv'
<1>1. edit'.body = body /\ edit'.status = row.status /\ edit'.current_step = row.current_step
  BY DEF Submit
<1>2. row.current_step \in Steps \union {"completed"}
  BY DEF Judged, TypeInv, RowTyped, Formed, Bodies
<1>3. Rank[row.current_step] <= Rank[row.current_step]
  BY <1>2, RankFacts
<1>4. row.status \in {"running", "paused"} => JobOf(body, row.current_step) = JobOf(row, row.current_step)
  BY SameRecords
<1>5. EditJudges'
  BY <1>1, <1>3, <1>4 DEF EditJudges
<1>6. \A a \in Actors : ActorJudges(a)'
  BY DEF Judged, JudgeInv, ActorJudges, AtWork, Judges, OnRow
<1>. QED
  BY <1>5, <1>6 DEF JudgeInv

LEMMA OwnerJudges ==
  ASSUME Judged, Start \/ Change \/ Retry
  PROVE  JudgeInv'
<1>1. CASE Start
  <2>1. /\ row.status = "pending" /\ UNCHANGED <<row, lock, pc, doc>>
        /\ \E body : Submit(body)
    BY <1>1 DEF Start
  <2>. QED
    BY <2>1, SubmitJudges
<1>2. CASE Retry
  <2>1. /\ row.status = "failed" /\ UNCHANGED <<row, lock, pc, doc>>
        /\ \E body : Submit(body)
    BY <1>2, Zenon DEF Retry
  <2>. QED
    BY <2>1, SubmitJudges
<1>3. CASE Change
  <2>1. DOMAIN row = Fields
    BY BodyFields DEF Judged, TypeInv, RowTyped, Formed
  <2>2. ASSUME NEW status \in {"running", "paused"}
        PROVE  LET e == [row EXCEPT !.status = status] IN
                 e.status = status /\ e.current_step = row.current_step /\ e.steps = row.steps
    BY <2>1 DEF Fields
  <2>3. LET e == [row EXCEPT !.run_auto = "off"] IN
          e.status = row.status /\ e.current_step = row.current_step /\ e.steps = row.steps
    BY <2>1 DEF Fields
  <2>4. /\ UNCHANGED <<row, lock, pc, doc>>
        /\ \/ \E status \in {"running", "paused"} : Submit([row EXCEPT !.status = status])
           \/ Submit([row EXCEPT !.run_auto = "off"]) /\ row.status = "running"
    BY <1>3 DEF Change
  <2>. QED
    BY <2>2, <2>3, <2>4, SubmitJudges
<1>. QED
  BY <1>1, <1>2, <1>3

LEMMA PutJudges ==
  ASSUME Judged, Put
  PROVE  JudgeInv'
<1>. DEFINE body == edit.body
            at == row.current_step
<1>1. /\ edit # None /\ edit' = None /\ UNCHANGED <<lock, pc, doc>>
      /\ \/ row.status = edit.status /\ at = edit.current_step /\ row' = Stored(body)
         \/ UNCHANGED row
  BY DEF Put
<1>2. EditJudges'
  BY <1>1 DEF EditJudges
<1>3. DOMAIN body = Fields
  BY <1>1, BodyFields DEF Judged, TypeInv, EditTyped, Formed
<1>4. ASSUME NEW a \in Actors PROVE ActorJudges(a)'
  <2>1. ActorJudges(a)
    BY DEF Judged, JudgeInv
  <2>2. CASE ~AtWork(a)
    BY <1>1, <2>2 DEF ActorJudges, AtWork, Judges
  <2>3. CASE UNCHANGED row
    BY <1>1, <2>1, <2>3 DEF ActorJudges, AtWork, Judges, OnRow
  <2>4. CASE /\ AtWork(a) /\ row.status = edit.status /\ at = edit.current_step /\ row' = Stored(body)
    <3>1. row.status \in {"running", "paused"}
      BY <2>4, WorkerKnown
    <3>2. body.status \in {"running", "paused"} /\ body.current_step = at /\ JobOf(body, at) = JobOf(row, at)
      BY <1>1, <2>4, <3>1 DEF Judged, JudgeInv, EditJudges
    <3>3. row'.status \in {"running", "paused"} /\ row'.current_step = at /\ JobOf(row', at) = JobOf(row, at)
      BY <1>3, <2>4, <3>2, StoredSame
    <3>. QED
      BY <1>1, <2>1, <3>3 DEF ActorJudges, AtWork, Judges, OnRow
  <2>. QED
    BY <1>1, <2>2, <2>3, <2>4
<1>. QED
  BY <1>2, <1>4 DEF JudgeInv

LEMMA JudgeInit == Init => JudgeInv
BY DEF Init, JudgeInv, EditJudges, ActorJudges, AtWork, Judges

LEMMA JudgeNext ==
  ASSUME OneMachineAlone, Judged, [Next]_vars
  PROVE  JudgeInv'
<1>1. CASE UNCHANGED vars \/ \E i \in DOMAIN jobs : JobEnds(i)
  <2>1. UNCHANGED <<row, lock, pc, doc, edit>>
    BY <1>1 DEF vars, JobEnds
  <2>. QED
    BY <2>1 DEF Judged, JudgeInv, EditJudges, ActorJudges, AtWork, Judges, OnRow
<1>2. ASSUME NEW a \in Actors, List(a) \/ QueryFails(a) \/ Crash(a) PROVE JudgeInv'
  <2>1. UNCHANGED <<row, edit>> /\ (Goto(a, "read", None) \/ Goto(a, "idle", None))
    BY <1>2 DEF List, QueryFails, Crash, Leave
  <2>. QED
    BY <2>1, ThinkingJudges
<1>. QED
  BY <1>1, <1>2, ReadJudges, AnsweredJudges, ClaimJudges, TriggerJudges, PersistJudges, OwnerJudges, PutJudges
  DEF Next, Advance, Owner

(* A verdict is about the job the row points to: with one machine and no
   browser, a failure that is recorded outside a claim is that of the row's own
   job, although nothing is asked when it is written (_persist_with_retries) and
   the owner may pause, resume, take over and retry at any time.  With a second
   machine, what that one has read before a retry may replace the new job. *)
THEOREM VerdictIsAboutRow ==
  ASSUME OneMachineAlone
  PROVE  Spec => VerdictFitsRow
<1>. DEFINE VerdictFits == \A a \in Actors :
       pc[a] = "persist" /\ Persist(a) /\ doc[a].status = "failed" /\ lock # a =>
         Knows(row, CurrentRecord(doc[a]).job)
<1>1. Init => Judged
  BY OrderInitInv, TypesInit, JudgeInit DEF Judged
<1>2. Judged /\ [Next]_vars => Judged'
  BY OrderNextInv, TypesNext, JudgeNext DEF Judged
<1>3. Judged => VerdictFits
  <2>. SUFFICES ASSUME Judged, NEW a \in Actors, Judges(a)
                PROVE  Knows(row, CurrentRecord(doc[a]).job)
    BY DEF Judges
  <2>1. AtWork(a) /\ OnRow(doc[a]) /\ Sound(doc[a], jobs) /\ doc[a].status # "completed"
    BY WorkerKnown DEF Judges, AtWork, Judged, JudgeInv, ActorJudges
  <2>2. CurrentRecord(doc[a]).job = JobOf(doc[a], row.current_step)
    BY <2>1, CurrentOf DEF OnRow
  <2>3. jobs[JobOf(doc[a], row.current_step)].step = row.current_step
    BY <2>1, JobsOf DEF OnRow
  <2>. QED
    BY <2>1, <2>2, <2>3 DEF Knows, JobOf, OnRow
<1>4. Judged => [VerdictFits]_vars
  BY <1>3
<1>5. Spec => [][VerdictFits]_vars
  BY <1>1, <1>2, <1>4, PTL DEF Spec
<1>. QED
  BY <1>5 DEF VerdictFitsRow

=============================================================================
