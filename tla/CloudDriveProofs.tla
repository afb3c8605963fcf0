--------------------------- MODULE CloudDriveProofs ---------------------------
(***************************************************************************)
(* What the cloud drive keeps for any number of requests, threads, rows    *)
(* and failures, any quota and any sizes.                                  *)
(*                                                                         *)
(* Nothing is locked between two statements of most requests, so what an   *)
(* actor knows of a row is what no other may change: the kind of a row     *)
(* never changes, what is bound to upstream stays bound (KnowsRows), a     *)
(* reservation is bound by one owner only (OwnedOnce), and a row whose     *)
(* size is being checked is locked.  RowsMove says what one actor may do   *)
(* to rows, StepKeeps that all others' knowledge survives it (IInv).       *)
(* Shape says, row by row, what any step may do, and the theorems follow   *)
(* from both.  Three of them are about deletions as the client makes them: *)
(* one at a time (OneDeleter), of no link that is pending                  *)
(* (PendingLinksStay).  Without the first a file that was erased can be    *)
(* restored (NoGhost), the quota needs both (Accounted), and a reservation *)
(* loses its owner when neither holds (ReservationHasOwner).               *)
(***************************************************************************)
EXTENDS CloudDrive, SumLemmas, SequenceTheorems

Kinds == {"upload", "link", "child"}
RowType == [kind : Kinds, status : Statuses, size : Nat, file : BOOLEAN, upload : BOOLEAN,
            settled : BOOLEAN, parent : Nat]
Deletions == {"file", "files", "transfers"}
Ops == {"none", "upload", "link", "callback", "report", "refresh"} \union Deletions

\* A job is a record of these fields.
JobTyped(j) ==
  /\ j \in [op : Ops, row : Nat, size : Nat, slot : BOOLEAN, todo : {j.todo}, ids : SUBSET Nat,
            was : {j.was}, sure : BOOLEAN]
  /\ \A i \in DOMAIN j.todo : j.todo[i] \in Nat
  /\ j.slot => j.op = "link"
  /\ j.op \in Deletions \union {"none"} => j.row = 0

\* A file listed for a link leads to a row, a link has no file of its own, and only
\* what upstream has listed is settled.
RowsOK ==
  /\ row \in Seq(RowType)
  /\ \A i \in DOMAIN row :
       /\ row[i].parent \in 0..(i - 1)
       /\ row[i].kind = "link" => ~row[i].file
       /\ row[i].settled => i \in DOMAIN listing
  /\ DOMAIN listing \subseteq DOMAIN row
  /\ \A i \in DOMAIN listing : listing[i] \in Listings

StoreOK ==
  /\ store \in [erased : SUBSET Nat, refused : SUBSET Nat, unanswered : SUBSET Nat]
  /\ orphans \subseteq DOMAIN row /\ faults \in 0..MaxFaults

\* Where an actor can be with what it does.
OnRoute(a) ==
  /\ pc[a] = "idle" => job[a] = Idle
  /\ pc[a] \in {"insert", "fail"} => job[a].op \in {"upload", "link"}
  /\ pc[a] = "insert" => job[a].row = 0
                         /\ (IF job[a].slot THEN job[a].size = 0 ELSE Users \in locks[a])
  /\ pc[a] = "attach" => job[a].op = "upload"
  /\ pc[a] \in {"enqueue", "submit"} => job[a].op = "link"
  /\ pc[a] = "enqueue" => job[a].slot
  /\ pc[a] = "complete" => job[a].op \in {"callback", "report"}
  /\ pc[a] \in {"grow", "write"} =>
       job[a].op \in {"link", "callback", "refresh"} /\ job[a].row \in locks[a]
  /\ pc[a] = "write" => Users \in locks[a]
  /\ pc[a] = "poll" => job[a].op = "refresh" /\ job[a].row = 0
  /\ pc[a] \in {"erase", "restore", "finalise"} <=> job[a].op \in Deletions

\* The actor that is to bind a reservation to something upstream.
Owner(a) ==
  job[a].op \in {"upload", "link"} /\ pc[a] \in {"attach", "fail", "enqueue", "submit", "grow", "write"}

\* What a deletion knows: it works on files and on links without any, restores no
\* row as deleted, and finalises files upstream has answered for.
KnowsDeleted(j, l, r, s) ==
  /\ j.ids \subseteq DOMAIN r /\ DOMAIN j.was \subseteq DOMAIN r
  /\ \A i \in j.ids : r[i].file \/ r[i].kind = "link"
  /\ \A i \in DOMAIN j.was :
       /\ j.was[i] \in Statuses \ {"deleted"}
       /\ r[i].file \/ (r[i].kind = "link" /\ j.was[i] \in DeletedLinks)
  /\ l # "erase" => \A i \in j.ids : r[i].file => i \in s.erased \union s.refused

\* What an actor knows about the rows it works on.
KnowsRows(a) ==
  /\ Owner(a) =>
       /\ job[a].row \in DOMAIN row /\ row[job[a].row].kind = job[a].op
       /\ ~row[job[a].row].file /\ ~row[job[a].row].upload
  /\ job[a].op \in {"callback", "report"} =>
       /\ job[a].row \in DOMAIN row /\ row[job[a].row].kind = "upload" /\ row[job[a].row].file
       /\ pc[a] \in {"grow", "write"} => row[job[a].row].status = "reserved"
  /\ job[a].op = "refresh" =>
       /\ \A i \in DOMAIN job[a].todo : i \in DOMAIN row /\ row[i].kind = "link" /\ row[i].upload
       /\ pc[a] \in {"grow", "write"} =>
            /\ job[a].row \in DOMAIN job[a].todo /\ job[a].row \in DOMAIN listing
            /\ ~row[job[a].row].settled /\ job[a].size = Realized(listing[job[a].row])
  /\ job[a].op \in Deletions => KnowsDeleted(job[a], pc[a], row, store)

LocksOK ==
  /\ locks \in [Actors -> SUBSET Nat]
  /\ \A a \in Actors : locks[a] \subseteq 0..Len(row)
  /\ \A a, b \in Actors : a # b => locks[a] \intersect locks[b] = {}

\* A reservation that is to be bound has one owner or waits once in the queue.
OwnedOnce ==
  /\ queue \in Seq(Nat)
  /\ \A k \in 1..Len(queue) : queue[k] \in DOMAIN row /\ row[queue[k]].kind = "link" /\ ~row[queue[k]].upload
  /\ \A k, l \in 1..Len(queue) : queue[k] = queue[l] => k = l
  /\ \A a \in Actors : Owner(a) => /\ \A k \in 1..Len(queue) : queue[k] # job[a].row
                                   /\ \A b \in Actors : Owner(b) /\ job[b].row = job[a].row => b = a

SlotHolders == {a \in Actors : job[a].slot}

SlotsOK ==
  /\ slots \in 0..Capacity /\ IsFiniteSet(SlotHolders)
  /\ slots = Len(queue) + Cardinality(SlotHolders)

IInv ==
  /\ RowsOK /\ StoreOK
  /\ pc \in [Actors -> Labels] /\ DOMAIN job = Actors
  /\ \A a \in Actors : JobTyped(job[a]) /\ OnRoute(a) /\ KnowsRows(a)
  /\ LocksOK /\ OwnedOnce /\ SlotsOK

-----------------------------------------------------------------------------
(* One step of one actor. *)

\* Nobody else moves.
OnlyActor(a) ==
  /\ pc' \in [Actors -> Labels] /\ DOMAIN job' = Actors /\ locks' \in [Actors -> SUBSET Nat]
  /\ \A b \in Actors \ {a} : pc'[b] = pc[b] /\ job'[b] = job[b] /\ locks'[b] = locks[b]

\* Of the old rows only those of C change, which nobody else has locked; only an
\* owner binds a reservation.
RowsMove(a, C) ==
  /\ C \subseteq DOMAIN row /\ DOMAIN row \subseteq DOMAIN row'
  /\ \A i \in DOMAIN row \ C : row'[i] = row[i]
  /\ \A i \in C :
       /\ row'[i].kind = row[i].kind
       /\ row[i].file => row'[i].file
       /\ row[i].upload => row'[i].upload
       /\ \/ row'[i].file = row[i].file /\ row'[i].upload = row[i].upload
          \/ Owner(a) /\ i = job[a].row
       /\ \A b \in Actors \ {a} : i \notin locks[b]

StoreGrows ==
  /\ store.erased \union store.refused \subseteq store'.erased \union store'.refused
  /\ UNCHANGED listing

LockStep(a) ==
  /\ locks'[a] \subseteq 0..Len(row')
  /\ \A b \in Actors \ {a} : locks'[a] \intersect locks[b] = {}

\* Who is to bind what after the step.
OwnStep(a) ==
  /\ queue' \in Seq(Nat)
  /\ \A k \in 1..Len(queue') : /\ queue'[k] \in DOMAIN row' /\ row'[queue'[k]].kind = "link"
                               /\ ~row'[queue'[k]].upload
  /\ \A k, l \in 1..Len(queue') : queue'[k] = queue'[l] => k = l
  /\ \A b \in Actors \ {a} : Owner(b) => \A k \in 1..Len(queue') : queue'[k] # job[b].row
  /\ Owner(a)' => /\ \A k \in 1..Len(queue') : queue'[k] # job'[a].row
                  /\ \A b \in Actors \ {a} : Owner(b) => job[b].row # job'[a].row

Permit(j) == IF j.slot THEN 1 ELSE 0

SlotStep(a) ==
  /\ slots' \in 0..Capacity
  /\ slots' + Len(queue) + Permit(job[a]) = slots + Len(queue') + Permit(job'[a])

\* The state the step of a leaves to a.
Arrives(a) == JobTyped(job'[a]) /\ OnRoute(a)' /\ KnowsRows(a)'

\* Capacities and permits are numbers.
LEMMA CapacityIsNat == Capacity \in Nat
PROOF
  <1>1. Cardinality(Threads) \in Nat /\ QueueSize \in Nat
    BY ActorsAssumption, NumbersAssumption, FS_CardinalityType
  <1> QED BY <1>1 DEF Capacity

\* What another actor knows is not disturbed by a step of a.
LEMMA OthersKnow ==
  ASSUME IInv, NEW a \in Actors, NEW C, RowsMove(a, C), OnlyActor(a), RowsOK', StoreGrows,
         NEW b \in Actors \ {a}
  PROVE  Arrives(b)
PROOF
  <1>1. pc'[b] = pc[b] /\ job'[b] = job[b] /\ locks'[b] = locks[b]
    BY DEF OnlyActor
  <1>2. JobTyped(job[b]) /\ OnRoute(b) /\ KnowsRows(b)
    BY DEF IInv
  <1>3. JobTyped(job'[b]) /\ OnRoute(b)'
    BY <1>1, <1>2 DEF OnRoute
  <1>4. ASSUME NEW i \in DOMAIN row
        PROVE  /\ i \in DOMAIN row' /\ row'[i].kind = row[i].kind
               /\ row[i].file => row'[i].file
               /\ row[i].upload => row'[i].upload
               /\ i \in locks[b] => row'[i] = row[i]
    BY <1>4 DEF RowsMove
  <1>5. ASSUME Owner(b)'
        PROVE  /\ job[b].row \in DOMAIN row' /\ row'[job[b].row].kind = job[b].op
               /\ ~row'[job[b].row].file /\ ~row'[job[b].row].upload
    <2>1. Owner(b)
      BY <1>1, <1>5 DEF Owner
    <2>2. /\ job[b].row \in DOMAIN row /\ row[job[b].row].kind = job[b].op
          /\ ~row[job[b].row].file /\ ~row[job[b].row].upload
      BY <1>2, <2>1 DEF KnowsRows
    <2>3. ~(Owner(a) /\ job[b].row = job[a].row)
      BY <2>1 DEF IInv, OwnedOnce
    <2>4. /\ row'[job[b].row].file = row[job[b].row].file
          /\ row'[job[b].row].upload = row[job[b].row].upload
      BY <2>2, <2>3 DEF RowsMove
    <2> QED BY <1>4, <2>2, <2>4
  <1>6. ASSUME job[b].op \in {"callback", "report"}
        PROVE  /\ job[b].row \in DOMAIN row' /\ row'[job[b].row].kind = "upload" /\ row'[job[b].row].file
               /\ pc[b] \in {"grow", "write"} => row'[job[b].row].status = "reserved"
    <2>1. /\ job[b].row \in DOMAIN row /\ row[job[b].row].kind = "upload" /\ row[job[b].row].file
          /\ pc[b] \in {"grow", "write"} => row[job[b].row].status = "reserved"
      BY <1>2, <1>6 DEF KnowsRows
    <2>2. pc[b] \in {"grow", "write"} => job[b].row \in locks[b]
      BY <1>2 DEF OnRoute
    <2> QED BY <1>4, <2>1, <2>2
  <1>7. ASSUME job[b].op = "refresh"
        PROVE  /\ \A i \in DOMAIN job[b].todo : i \in DOMAIN row' /\ row'[i].kind = "link" /\ row'[i].upload
               /\ pc[b] \in {"grow", "write"} =>
                    /\ job[b].row \in DOMAIN job[b].todo /\ job[b].row \in DOMAIN listing
                    /\ ~row'[job[b].row].settled /\ job[b].size = Realized(listing[job[b].row])
    <2>1. \A i \in DOMAIN job[b].todo : i \in DOMAIN row' /\ row'[i].kind = "link" /\ row'[i].upload
      BY <1>2, <1>4, <1>7 DEF KnowsRows
    <2>2. ASSUME pc[b] \in {"grow", "write"}
          PROVE  /\ job[b].row \in DOMAIN job[b].todo /\ job[b].row \in DOMAIN listing
                 /\ ~row'[job[b].row].settled /\ job[b].size = Realized(listing[job[b].row])
      <3>1. /\ job[b].row \in DOMAIN job[b].todo /\ job[b].row \in DOMAIN listing
            /\ ~row[job[b].row].settled /\ job[b].size = Realized(listing[job[b].row])
        BY <1>2, <1>7, <2>2 DEF KnowsRows
      <3>2. job[b].row \in locks[b]
        BY <1>2, <2>2 DEF OnRoute
      <3>3. job[b].row \in DOMAIN row
        BY <1>2, <1>7, <3>1 DEF KnowsRows
      <3> QED BY <1>4, <3>1, <3>2, <3>3
    <2> QED BY <2>1, <2>2
  <1>8. ASSUME job[b].op \in Deletions
        PROVE  KnowsDeleted(job[b], pc[b], row', store')
    <2>1. /\ job[b].ids \subseteq DOMAIN row /\ DOMAIN job[b].was \subseteq DOMAIN row
          /\ \A i \in job[b].ids : row[i].file \/ row[i].kind = "link"
          /\ \A i \in DOMAIN job[b].was :
               /\ job[b].was[i] \in Statuses \ {"deleted"}
               /\ row[i].file \/ (row[i].kind = "link" /\ job[b].was[i] \in DeletedLinks)
          /\ pc[b] # "erase" => \A i \in job[b].ids : row[i].file => i \in store.erased \union store.refused
      BY <1>2, <1>8 DEF KnowsRows, KnowsDeleted
    <2>2. ASSUME NEW i \in job[b].ids, row'[i].file PROVE row[i].file
      <3>1. CASE i \in C /\ ~(Owner(a) /\ i = job[a].row)
        BY <2>2, <3>1 DEF RowsMove
      <3>2. CASE i \notin C
        BY <2>1, <2>2, <3>2 DEF RowsMove
      <3>3. CASE Owner(a) /\ i = job[a].row
        <4>1. row[i].kind \in {"upload", "link"} /\ ~row[i].file
          BY <3>3 DEF IInv, KnowsRows, Owner
        <4>2. row[i].kind = "link"
          BY <2>1, <4>1
        <4>3. ~row'[i].file
          BY <1>4, <2>1, <4>2 DEF RowsOK
        <4> QED BY <2>2, <4>3
      <3> QED BY <3>1, <3>2, <3>3
    <2> QED BY <1>4, <2>1, <2>2 DEF StoreGrows, KnowsDeleted
  <1> QED BY <1>1, <1>3, <1>5, <1>6, <1>7, <1>8 DEF Arrives, KnowsRows, StoreGrows

\* The permits in use change as the actor takes or gives back one.
LEMMA SlotsKept ==
  ASSUME IInv, NEW a \in Actors, OnlyActor(a), SlotStep(a), JobTyped(job'[a]), queue' \in Seq(Nat)
  PROVE  SlotsOK'
PROOF
  <1> DEFINE H == SlotHolders
             H2 == {b \in Actors : job'[b].slot}
  <1>1. IsFiniteSet(H) /\ slots = Len(queue) + Cardinality(H) /\ slots \in Nat
    BY CapacityIsNat DEF IInv, SlotsOK
  <1>2. job[a].slot \in BOOLEAN /\ job'[a].slot \in BOOLEAN
    BY DEF IInv, JobTyped
  <1>3. H2 \ {a} = H \ {a} /\ (a \in H <=> job[a].slot) /\ (a \in H2 <=> job'[a].slot)
    BY DEF OnlyActor, SlotHolders
  <1>4. Len(queue) \in Nat /\ Len(queue') \in Nat
    BY LenProperties DEF IInv, OwnedOnce
  <1>11. SlotHolders' = H2
    BY DEF SlotHolders
  <1> DEFINE n == Cardinality(H \ {a})
             p == Permit(job[a])
             p2 == Permit(job'[a])
  <1> HIDE DEF H, H2
  <1>5. IsFiniteSet(H \ {a}) /\ n \in Nat /\ Cardinality(H) = n + p
    <2>1. IsFiniteSet(H \ {a}) /\ n = IF a \in H THEN Cardinality(H) - 1 ELSE Cardinality(H)
      BY <1>1, FS_RemoveElement
    <2>2. n \in Nat /\ Cardinality(H) \in Nat
      BY <1>1, <2>1, FS_CardinalityType
    <2>3. p = IF a \in H THEN 1 ELSE 0
      BY <1>2, <1>3 DEF Permit
    <2> HIDE DEF n, p
    <2> QED BY <2>1, <2>2, <2>3
  <1>6. IsFiniteSet(H2) /\ Cardinality(H2) = n + p2
    <2>1. CASE job'[a].slot
      <3>1. H2 = (H \ {a}) \cup {a} /\ a \notin H \ {a}
        BY <1>3, <2>1
      <3>2. IsFiniteSet(H2) /\ Cardinality(H2) = n + 1
        BY <1>5, <3>1, FS_AddElement
      <3> QED BY <2>1, <3>2 DEF Permit
    <2>2. CASE ~job'[a].slot
      <3>1. H2 = H \ {a}
        BY <1>3, <2>2
      <3>2. p2 = 0
        BY <2>2 DEF Permit
      <3>3. Cardinality(H2) = n
        BY <3>1
      <3> HIDE DEF n, p2
      <3> QED BY <1>5, <3>1, <3>2, <3>3
    <2> QED BY <2>1, <2>2
  <1>8. p \in Nat /\ p2 \in Nat
    BY DEF Permit
  <1>9. slots' \in 0..Capacity /\ slots' + Len(queue) + p = slots + Len(queue') + p2
    BY DEF SlotStep
  <1> HIDE DEF n, p, p2
  <1>10. slots' = Len(queue') + Cardinality(H2)
    <2>1. slots' \in Nat
      BY <1>9, CapacityIsNat
    <2>2. slots = Len(queue) + (n + p)
      BY <1>1, <1>5
    <2>3. slots' = Len(queue') + (n + p2)
      BY <1>1, <1>4, <1>5, <1>8, <1>9, <2>1, <2>2
    <2> QED BY <1>6, <2>3
  <1> QED BY <1>6, <1>9, <1>10, <1>11 DEF SlotsOK

\* A step that leaves the queue and takes no new reservation.
LEMMA QueueStays ==
  ASSUME IInv, NEW a \in Actors, NEW C, RowsMove(a, C), OnlyActor(a), UNCHANGED queue,
         Owner(a)' => Owner(a) /\ job'[a].row = job[a].row
  PROVE  OwnStep(a)
PROOF
  <1>1. /\ queue \in Seq(Nat)
        /\ \A k \in 1..Len(queue) : queue[k] \in DOMAIN row /\ row[queue[k]].kind = "link" /\ ~row[queue[k]].upload
        /\ \A k, l \in 1..Len(queue) : queue[k] = queue[l] => k = l
        /\ \A b \in Actors : Owner(b) => \A k \in 1..Len(queue) : queue[k] # job[b].row
        /\ \A b, c \in Actors : Owner(b) /\ Owner(c) /\ job[b].row = job[c].row => b = c
    BY DEF IInv, OwnedOnce
  <1>2. ASSUME NEW k \in 1..Len(queue)
        PROVE  /\ queue[k] \in DOMAIN row' /\ row'[queue[k]].kind = "link" /\ ~row'[queue[k]].upload
    <2>1. ~(Owner(a) /\ queue[k] = job[a].row)
      BY <1>1
    <2> QED BY <1>1, <2>1 DEF RowsMove
  <1> QED BY <1>1, <1>2 DEF OwnStep

\* A step of one actor that leaves itself and the rows in order keeps everything.
LEMMA StepKeeps ==
  ASSUME IInv, NEW a \in Actors, NEW C, RowsMove(a, C), OnlyActor(a), RowsOK', StoreOK', StoreGrows,
         Arrives(a), LockStep(a), OwnStep(a), SlotStep(a)
  PROVE  IInv'
PROOF
  <1>1. ASSUME NEW b \in Actors PROVE JobTyped(job'[b]) /\ OnRoute(b)' /\ KnowsRows(b)'
    BY OthersKnow DEF Arrives
  <1>2. SlotsOK'
    BY SlotsKept DEF Arrives, OwnStep
  <1>3. LocksOK'
    <2>1. Len(row) <= Len(row') /\ Len(row) \in Nat /\ Len(row') \in Nat
      <3>1. DOMAIN row = 1..Len(row) /\ DOMAIN row' = 1..Len(row') /\ Len(row) \in Nat /\ Len(row') \in Nat
        BY LenProperties DEF IInv, RowsOK
      <3>2. 1..Len(row) \subseteq 1..Len(row')
        BY <3>1 DEF RowsMove
      <3> QED BY <3>1, <3>2
    <2>2. \A b \in Actors : locks[b] \subseteq 0..Len(row)
      BY DEF IInv, LocksOK
    <2>3. \A b \in Actors : locks'[b] \subseteq 0..Len(row')
      BY <2>1, <2>2 DEF OnlyActor, LockStep
    <2>4. ASSUME NEW b \in Actors, NEW c \in Actors, b # c
          PROVE  locks'[b] \intersect locks'[c] = {}
      BY <2>4 DEF IInv, LocksOK, OnlyActor, LockStep
    <2> QED BY <2>3, <2>4 DEF LocksOK, OnlyActor
  <1>4. OwnedOnce'
    <2>1. ASSUME NEW b \in Actors, Owner(b)'
          PROVE  /\ \A k \in 1..Len(queue') : queue'[k] # job'[b].row
                 /\ \A c \in Actors : Owner(c)' /\ job'[c].row = job'[b].row => c = b
      <3>1. ASSUME NEW d \in Actors \ {a} PROVE (Owner(d)' <=> Owner(d)) /\ job'[d].row = job[d].row
        BY DEF OnlyActor, Owner
      <3>2. \A d, c \in Actors : Owner(d) /\ Owner(c) /\ job[d].row = job[c].row => d = c
        BY DEF IInv, OwnedOnce
      <3>3. \A k \in 1..Len(queue') : queue'[k] # job'[b].row
        BY <2>1, <3>1 DEF OwnStep
      <3>4. ASSUME NEW c \in Actors, Owner(c)', job'[c].row = job'[b].row PROVE c = b
        <4>1. CASE b = a \/ c = a
          BY <2>1, <3>1, <3>4, <4>1 DEF OwnStep
        <4>2. CASE b # a /\ c # a
          BY <2>1, <3>1, <3>2, <3>4, <4>2
        <4> QED BY <4>1, <4>2
      <3> QED BY <3>3, <3>4
    <2> QED BY <2>1 DEF OwnedOnce, OwnStep
  <1> QED BY <1>1, <1>2, <1>3, <1>4 DEF IInv, OnlyActor

\* The variables an actor has of its own after GoTo, Learn, Lock and Unlock.
LEMMA ActorMoves ==
  ASSUME IInv, NEW a \in Actors, NEW l \in Labels, NEW j, NEW S \in SUBSET Nat,
         pc' = [pc EXCEPT ![a] = l] \/ (pc' = pc /\ l = pc[a]),
         job' = [job EXCEPT ![a] = j] \/ (job' = job /\ j = job[a]),
         locks' = [locks EXCEPT ![a] = S] \/ (locks' = locks /\ S = locks[a])
  PROVE  OnlyActor(a) /\ pc'[a] = l /\ job'[a] = j /\ locks'[a] = S
PROOF
  <1>1. pc \in [Actors -> Labels] /\ DOMAIN job = Actors /\ locks \in [Actors -> SUBSET Nat]
    BY DEF IInv, LocksOK
  <1>2. pc' \in [Actors -> Labels] /\ pc'[a] = l /\ \A b \in Actors \ {a} : pc'[b] = pc[b]
    BY <1>1
  <1>3. DOMAIN job' = Actors /\ job'[a] = j /\ \A b \in Actors \ {a} : job'[b] = job[b]
    BY <1>1
  <1>4. locks' \in [Actors -> SUBSET Nat] /\ locks'[a] = S /\ \A b \in Actors \ {a} : locks'[b] = locks[b]
    BY <1>1
  <1> QED BY <1>2, <1>3, <1>4 DEF OnlyActor

\* The same, with the disjunctions named.
Moves(a, l, j, S) ==
  /\ pc' = [pc EXCEPT ![a] = l] \/ (pc' = pc /\ l = pc[a])
  /\ job' = [job EXCEPT ![a] = j] \/ (job' = job /\ j = job[a])
  /\ locks' = [locks EXCEPT ![a] = S] \/ (locks' = locks /\ S = locks[a])

LEMMA OneMoves ==
  ASSUME IInv, NEW a \in Actors, NEW l \in Labels, NEW j, NEW S \in SUBSET Nat, Moves(a, l, j, S)
  PROVE  OnlyActor(a) /\ pc'[a] = l /\ job'[a] = j /\ locks'[a] = S
PROOF
  <1>1. /\ pc' = [pc EXCEPT ![a] = l] \/ (pc' = pc /\ l = pc[a])
        /\ job' = [job EXCEPT ![a] = j] \/ (job' = job /\ j = job[a])
        /\ locks' = [locks EXCEPT ![a] = S] \/ (locks' = locks /\ S = locks[a])
    BY DEF Moves
  <1> QED BY <1>1, ActorMoves, ZenonT(30)

\* The rows and what upstream has stay as they are.
Quiet == UNCHANGED <<row, listing, store>> /\ StoreOK'

LEMMA FaultCounts ==
  ASSUME IInv, Fault \/ faults' = faults
  PROVE  faults' \in 0..MaxFaults
BY NumbersAssumption DEF IInv, StoreOK, Fault

LEMMA QuietRows ==
  ASSUME IInv, Quiet, NEW a
  PROVE  RowsMove(a, {}) /\ RowsOK' /\ StoreOK' /\ StoreGrows
BY DEF IInv, Quiet, RowsOK, RowsMove, StoreGrows

LEMMA QuietStep ==
  ASSUME IInv, NEW a \in Actors, Quiet, UNCHANGED queue, OnlyActor(a), Arrives(a),
         LockStep(a), SlotStep(a), Owner(a)' => Owner(a) /\ job'[a].row = job[a].row
  PROVE  IInv'
BY QuietRows, QueueStays, StepKeeps

\* A step keeps the locks it has, or takes some that nobody else has.
LEMMA LocksKept ==
  ASSUME IInv, NEW a \in Actors, UNCHANGED row, locks'[a] \subseteq locks[a]
  PROVE  LockStep(a)
BY DEF IInv, LocksOK, LockStep

LEMMA LocksTaken ==
  ASSUME IInv, NEW a \in Actors, UNCHANGED row, NEW S, S \subseteq 0..Len(row), Free(a, S),
         locks'[a] = locks[a] \union S
  PROVE  LockStep(a)
BY DEF IInv, LocksOK, LockStep, Free

\* A permit in use is counted.
LEMMA PermitCounted ==
  ASSUME IInv, NEW a \in Actors
  PROVE  /\ job[a].slot \in BOOLEAN /\ slots \in Nat /\ Len(queue) \in Nat
         /\ slots >= Len(queue)
         /\ job[a].slot => slots >= Len(queue) + 1
PROOF
  <1>1. IsFiniteSet(SlotHolders) /\ slots = Len(queue) + Cardinality(SlotHolders) /\ slots \in Nat
    BY CapacityIsNat DEF IInv, SlotsOK
  <1>2. Len(queue) \in Nat /\ job[a].slot \in BOOLEAN
    BY LenProperties DEF IInv, OwnedOnce, JobTyped
  <1>3. Cardinality(SlotHolders) \in Nat
    BY <1>1, FS_CardinalityType
  <1>4. ASSUME job[a].slot PROVE Cardinality(SlotHolders) # 0
    <2>1. a \in SlotHolders
      BY <1>4 DEF SlotHolders
    <2> QED BY <1>1, <2>1, FS_EmptySet
  <1> QED BY <1>1, <1>2, <1>3, <1>4

\* Nothing happens to the permits.
LEMMA SlotsStay ==
  ASSUME IInv, NEW a \in Actors, UNCHANGED <<queue, slots>>, job'[a].slot = job[a].slot
  PROVE  SlotStep(a)
BY PermitCounted DEF IInv, SlotsOK, SlotStep, Permit

\* The job of an actor at rest.
LEMMA IdleTyped ==
  /\ JobTyped(Idle) /\ Idle.op = "none" /\ Idle.row = 0 /\ Idle.size = 0 /\ ~Idle.slot
  /\ DOMAIN Idle.todo = {} /\ Idle.ids = {} /\ DOMAIN Idle.was = {} /\ ~Idle.sure
PROOF
  <1>1. DOMAIN <<>> = {}
    OBVIOUS
  <1> QED BY <1>1 DEF Idle, JobTyped, Ops, Deletions

\* An actor that is done holds nothing.
LEMMA EndKeeps ==
  ASSUME IInv, NEW a \in Actors, NEW C, End(a), UNCHANGED queue,
         RowsMove(a, C), RowsOK', StoreOK', StoreGrows
  PROVE  IInv'
PROOF
  <1>1. /\ pc' = [pc EXCEPT ![a] = "idle"] /\ job' = [job EXCEPT ![a] = Idle]
        /\ locks' = [locks EXCEPT ![a] = {}] /\ slots' = IF job[a].slot THEN slots - 1 ELSE slots
    BY DEF End, GoTo, Learn, Unlock
  <1>8. "idle" \in Labels /\ {} \in SUBSET Nat
    BY DEF Labels
  <1>2. OnlyActor(a) /\ pc'[a] = "idle" /\ job'[a] = Idle /\ locks'[a] = {}
    BY <1>1, <1>8, ActorMoves
  <1>3. Arrives(a)
    BY <1>2, IdleTyped DEF Arrives, OnRoute, KnowsRows, Owner, Deletions
  <1>4. LockStep(a)
    BY <1>2 DEF LockStep
  <1>5. ~Owner(a)'
    BY <1>2, IdleTyped DEF Owner
  <1>6. OwnStep(a)
    BY <1>2, <1>5, QueueStays
  <1>7. SlotStep(a)
    BY <1>1, <1>2, PermitCounted, IdleTyped, CapacityIsNat DEF IInv, SlotsOK, SlotStep, Permit
  <1> QED BY <1>2, <1>3, <1>4, <1>6, <1>7, StepKeeps

\* A refresh that is done with a link goes on with those it had listed besides.
LEMMA NextParentKeeps ==
  ASSUME IInv, NEW a \in Actors, NEW C, NEW i, job[a].op = "refresh", NextParent(a, i),
         UNCHANGED queue, RowsMove(a, C), RowsOK', StoreOK', StoreGrows
  PROVE  IInv'
PROOF
  <1> DEFINE rest == Without(job[a].todo, {i})
             j == [Idle EXCEPT !.op = "refresh", !.todo = rest]
  <1>1. CASE End(a)
    BY <1>1, EndKeeps
  <1>2. CASE GoTo(a, "poll") /\ Learn(a, j) /\ Unlock(a) /\ UNCHANGED slots
    <2>0. "poll" \in Labels /\ {} \in SUBSET Nat
      BY DEF Labels
    <2>11. /\ pc' = [pc EXCEPT ![a] = "poll"] /\ job' = [job EXCEPT ![a] = j]
           /\ locks' = [locks EXCEPT ![a] = {}]
      BY <1>2 DEF GoTo, Learn, Unlock
    <2>1. OnlyActor(a) /\ pc'[a] = "poll" /\ job'[a] = j /\ locks'[a] = {}
      <3> HIDE DEF j
      <3> QED BY <2>0, <2>11, ActorMoves
    <2>2. /\ JobTyped(job[a]) /\ ~job[a].slot
          /\ \A k \in DOMAIN job[a].todo : k \in DOMAIN row /\ row[k].kind = "link" /\ row[k].upload
      BY DEF IInv, KnowsRows, JobTyped
    <2>3. DOMAIN rest \subseteq DOMAIN job[a].todo /\ \A k \in DOMAIN rest : rest[k] = job[a].todo[k]
      BY DEF Without
    <2>4. \A k \in DOMAIN rest : rest[k] \in Nat
      BY <2>2, <2>3 DEF JobTyped
    <2>5. /\ j.op = "refresh" /\ j.row = 0 /\ j.todo = rest /\ ~j.slot
      BY DEF Idle
    <2>12. j.slot = FALSE
      BY DEF Idle
    <2> HIDE DEF rest
    <2>6. JobTyped(j)
      BY <2>4, IdleTyped DEF JobTyped, Idle, Ops, Deletions
    <2> HIDE DEF j
    <2>7. \A k \in DOMAIN rest : k \in DOMAIN row' /\ row'[k].kind = "link" /\ row'[k].upload
      BY <2>2, <2>3 DEF RowsMove
    <2>8. ~Owner(a)'
      BY <2>1 DEF Owner
    <2>9. Arrives(a)
      BY <2>1, <2>5, <2>6, <2>7, <2>8 DEF Arrives, OnRoute, KnowsRows, Deletions
    <2>10. LockStep(a) /\ OwnStep(a) /\ SlotStep(a)
      <3>1. LockStep(a)
        BY <2>1 DEF LockStep
      <3>3. job'[a].slot = job[a].slot
        <4>1. job[a].slot \in BOOLEAN /\ j.slot = FALSE
          BY <2>2, <2>12 DEF JobTyped
        <4> QED BY <2>1, <2>2, <4>1
      <3>2. SlotStep(a)
        BY <1>2, <3>3, SlotsStay
      <3> QED BY <2>1, <2>8, <3>1, <3>2, QueueStays
    <2> QED BY <2>1, <2>9, <2>10, StepKeeps
  <1> QED BY <1>1, <1>2 DEF NextParent

-----------------------------------------------------------------------------
(* Each action keeps the invariant: first those that change no row. *)

\* The rows stay; what the actor holds, and what it goes on with, is new.
LEMMA QuietMove ==
  ASSUME IInv, NEW a \in Actors, NEW l \in Labels, NEW j, NEW S \in SUBSET Nat,
         pc' = [pc EXCEPT ![a] = l] \/ (pc' = pc /\ l = pc[a]),
         job' = [job EXCEPT ![a] = j] \/ (job' = job /\ j = job[a]),
         locks' = [locks EXCEPT ![a] = S] \/ (locks' = locks /\ S = locks[a]),
         Quiet, UNCHANGED queue, SlotStep(a), JobTyped(j),
         OnlyActor(a) /\ pc'[a] = l /\ job'[a] = j /\ locks'[a] = S
           => OnRoute(a)' /\ KnowsRows(a)' /\ LockStep(a)
              /\ (Owner(a)' => Owner(a) /\ job'[a].row = job[a].row)
  PROVE  IInv'
PROOF
  <1>1. OnlyActor(a) /\ pc'[a] = l /\ job'[a] = j /\ locks'[a] = S
    BY ActorMoves, ZenonT(30)
  <1>2. Arrives(a) /\ LockStep(a) /\ (Owner(a)' => Owner(a) /\ job'[a].row = job[a].row)
    BY <1>1 DEF Arrives
  <1> QED BY <1>1, <1>2, QuietStep

LEMMA EnsureQuotaKeeps ==
  ASSUME IInv, NEW w \in Workers, NEW op \in {"upload", "link"}, NEW size \in Sizes,
         EnsureQuota(w, op, size)
  PROVE  IInv'
PROOF
  <1> DEFINE j == [Idle EXCEPT !.op = op, !.size = size]
             S == locks[w] \union {Users}
  <1>1. /\ pc' = [pc EXCEPT ![w] = "insert"] /\ job' = [job EXCEPT ![w] = j]
        /\ locks' = [locks EXCEPT ![w] = S]
        /\ UNCHANGED <<row, queue, slots, listing, store, orphans, faults>>
        /\ pc[w] = "idle" /\ Free(w, {Users}) /\ w \in Actors
    BY DEF EnsureQuota, At, GoTo, Learn, Lock, Pool, Upstream, Actors
  <1>2. j.op = op /\ j.row = 0 /\ j.size = size /\ j.slot = FALSE /\ j.todo = <<>> /\ size \in Nat
    BY NumbersAssumption DEF Idle
  <1>3. JobTyped(j)
    BY <1>2, IdleTyped DEF JobTyped, Idle, Ops, Deletions
  <1>4. job[w] = Idle /\ job[w].slot = FALSE
    BY <1>1 DEF IInv, OnRoute, Idle
  <1>5. "insert" \in Labels /\ S \in SUBSET Nat /\ Quiet
    BY <1>1 DEF Labels, Users, IInv, LocksOK, Quiet, StoreOK
  <1> HIDE DEF j, S
  <1>6. ASSUME OnlyActor(w) /\ pc'[w] = "insert" /\ job'[w] = j /\ locks'[w] = S
        PROVE  OnRoute(w)' /\ KnowsRows(w)' /\ LockStep(w) /\ ~Owner(w)'
    <2>1. OnRoute(w)'
      BY <1>2, <1>6 DEF OnRoute, Deletions, S
    <2>2. ~Owner(w)' /\ KnowsRows(w)'
      BY <1>2, <1>6 DEF KnowsRows, Owner, Deletions
    <2>3. {Users} \subseteq 0..Len(row)
      <3>1. Len(row) \in Nat
        BY LenProperties DEF IInv, RowsOK
      <3> QED BY <3>1 DEF Users
    <2>4. LockStep(w)
      BY <1>1, <1>6, <2>3, LocksTaken DEF S
    <2> QED BY <2>1, <2>2, <2>4
  <1>7. SlotStep(w)
    <2>1. job'[w].slot = job[w].slot
      BY <1>1, <1>2, <1>4 DEF IInv
    <2> QED BY <1>1, <2>1, SlotsStay
  <1> QED BY <1>1, <1>3, <1>5, <1>6, <1>7, QuietMove

LEMMA ReserveSlotKeeps ==
  ASSUME IInv, NEW w \in Workers, ReserveSlot(w)
  PROVE  IInv'
PROOF
  <1> DEFINE j == [Idle EXCEPT !.op = "link", !.slot = TRUE]
  <1>1. /\ pc' = [pc EXCEPT ![w] = "insert"] /\ job' = [job EXCEPT ![w] = j]
        /\ UNCHANGED <<row, locks, queue, listing, store, orphans, faults>>
        /\ pc[w] = "idle" /\ slots < Capacity /\ slots' = slots + 1 /\ w \in Actors
    BY DEF ReserveSlot, At, GoTo, Learn, Upstream, Actors
  <1>2. j.op = "link" /\ j.row = 0 /\ j.size = 0 /\ j.slot = TRUE /\ j.todo = <<>>
    BY DEF Idle
  <1>3. JobTyped(j)
    BY <1>2, IdleTyped DEF JobTyped, Idle, Ops, Deletions
  <1>4. job[w] = Idle /\ job[w].slot = FALSE
    BY <1>1 DEF IInv, OnRoute, Idle
  <1>5. "insert" \in Labels /\ locks[w] \in SUBSET Nat /\ Quiet
    BY <1>1 DEF Labels, IInv, LocksOK, Quiet, StoreOK
  <1> HIDE DEF j
  <1>6. ASSUME OnlyActor(w) /\ pc'[w] = "insert" /\ job'[w] = j /\ locks'[w] = locks[w]
        PROVE  OnRoute(w)' /\ KnowsRows(w)' /\ LockStep(w) /\ ~Owner(w)'
    <2>1. OnRoute(w)'
      BY <1>2, <1>6 DEF OnRoute, Deletions
    <2>2. ~Owner(w)' /\ KnowsRows(w)'
      BY <1>2, <1>6 DEF KnowsRows, Owner, Deletions
    <2>3. LockStep(w)
      BY <1>1, <1>6, LocksKept
    <2> QED BY <2>1, <2>2, <2>3
  <1>7. SlotStep(w)
    <2>1. job'[w].slot = TRUE
      BY <1>1, <1>2 DEF IInv
    <2> QED BY <1>1, <1>4, <2>1, PermitCounted, CapacityIsNat DEF SlotStep, Permit
  <1> QED BY <1>1, <1>3, <1>5, <1>6, <1>7, QuietMove

LEMMA CallbackKeeps ==
  ASSUME IInv, NEW w \in Workers, NEW op \in {"callback", "report"}, NEW i \in DOMAIN row,
         NEW size \in Nat, Callback(w, op, i, size)
  PROVE  IInv'
PROOF
  <1> DEFINE j == [Idle EXCEPT !.op = op, !.row = i, !.size = size]
  <1>1. /\ pc' = [pc EXCEPT ![w] = "complete"] /\ job' = [job EXCEPT ![w] = j]
        /\ UNCHANGED <<row, locks, queue, slots, listing, store, orphans, faults>>
        /\ pc[w] = "idle" /\ row[i].kind = "upload" /\ row[i].file /\ w \in Actors
    BY DEF Callback, At, GoTo, Learn, Pool, Upstream, Actors
  <1>2. j.op = op /\ j.row = i /\ j.size = size /\ j.slot = FALSE /\ i \in Nat
    BY LenProperties DEF Idle, IInv, RowsOK
  <1>3. JobTyped(j)
    BY <1>2, IdleTyped DEF JobTyped, Idle, Ops, Deletions
  <1>4. job[w] = Idle /\ job[w].slot = FALSE
    BY <1>1 DEF IInv, OnRoute, Idle
  <1>5. "complete" \in Labels /\ locks[w] \in SUBSET Nat /\ Quiet
    BY <1>1 DEF Labels, IInv, LocksOK, Quiet, StoreOK
  <1> HIDE DEF j
  <1>6. ASSUME OnlyActor(w) /\ pc'[w] = "complete" /\ job'[w] = j /\ locks'[w] = locks[w]
        PROVE  OnRoute(w)' /\ KnowsRows(w)' /\ LockStep(w) /\ ~Owner(w)'
    <2>1. OnRoute(w)'
      BY <1>2, <1>6 DEF OnRoute, Deletions
    <2>2. ~Owner(w)' /\ KnowsRows(w)'
      BY <1>1, <1>2, <1>6 DEF KnowsRows, Owner, Deletions
    <2>3. LockStep(w)
      BY <1>1, <1>6, LocksKept
    <2> QED BY <2>1, <2>2, <2>3
  <1>7. SlotStep(w)
    <2>1. job'[w].slot = job[w].slot
      BY <1>1, <1>2, <1>4 DEF IInv
    <2> QED BY <1>1, <2>1, SlotsStay
  <1> QED BY <1>1, <1>3, <1>5, <1>6, <1>7, QuietMove

LEMMA RefreshKeeps ==
  ASSUME IInv, NEW w \in Workers, Refresh(w)
  PROVE  IInv'
PROOF
  <1> DEFINE parents == {i \in DOMAIN row : /\ row[i].kind = "link" /\ row[i].upload
                                            /\ ~row[i].settled /\ row[i].status # "deleted"}
             sizes == [i \in parents |-> row[i].size]
             j == [Idle EXCEPT !.op = "refresh", !.todo = sizes]
  <1>1. /\ pc' = [pc EXCEPT ![w] = "poll"] /\ job' = [job EXCEPT ![w] = j]
        /\ UNCHANGED <<row, locks, queue, slots, listing, store, orphans, faults>>
        /\ pc[w] = "idle" /\ w \in Actors
    BY DEF Refresh, At, GoTo, Learn, Pool, Upstream, Actors
  <1>2. j.op = "refresh" /\ j.row = 0 /\ j.slot = FALSE /\ j.todo = sizes
    BY DEF Idle
  <1>8. /\ DOMAIN sizes = parents
        /\ \A i \in parents : sizes[i] \in Nat /\ i \in DOMAIN row /\ row[i].kind = "link" /\ row[i].upload
    <2>1. \A i \in DOMAIN row : row[i] \in RowType
      BY ElementOfSeq, LenProperties DEF IInv, RowsOK
    <2> QED BY <2>1 DEF RowType
  <1> HIDE DEF sizes, parents
  <1>3. JobTyped(j)
    BY <1>2, <1>8, IdleTyped DEF JobTyped, Idle, Ops, Deletions
  <1>4. job[w] = Idle /\ job[w].slot = FALSE
    BY <1>1 DEF IInv, OnRoute, Idle
  <1>5. "poll" \in Labels /\ locks[w] \in SUBSET Nat /\ Quiet
    BY <1>1 DEF Labels, IInv, LocksOK, Quiet, StoreOK
  <1> HIDE DEF j
  <1>6. ASSUME OnlyActor(w) /\ pc'[w] = "poll" /\ job'[w] = j /\ locks'[w] = locks[w]
        PROVE  OnRoute(w)' /\ KnowsRows(w)' /\ LockStep(w) /\ ~Owner(w)'
    <2>1. OnRoute(w)'
      BY <1>2, <1>6 DEF OnRoute, Deletions
    <2>2. ~Owner(w)'
      BY <1>2, <1>6 DEF Owner
    <2>3. KnowsRows(w)'
      BY <1>1, <1>2, <1>6, <1>8, <2>2 DEF KnowsRows, Deletions
    <2>4. LockStep(w)
      BY <1>1, <1>6, LocksKept
    <2> QED BY <2>1, <2>2, <2>3, <2>4
  <1>7. SlotStep(w)
    <2>1. job'[w].slot = job[w].slot
      BY <1>1, <1>2, <1>4 DEF IInv
    <2> QED BY <1>1, <2>1, SlotsStay
  <1> QED BY <1>1, <1>3, <1>5, <1>6, <1>7, QuietMove

\* The rows of before are rows of after.
LEMMA LongerRows ==
  ASSUME IInv, NEW a, NEW C, RowsMove(a, C), RowsOK'
  PROVE  0..Len(row) \subseteq 0..Len(row') /\ DOMAIN row = 1..Len(row) /\ Len(row) \in Nat
PROOF
  <1>1. DOMAIN row = 1..Len(row) /\ DOMAIN row' = 1..Len(row') /\ Len(row) \in Nat /\ Len(row') \in Nat
    BY LenProperties DEF IInv, RowsOK
  <1>2. 1..Len(row) \subseteq 1..Len(row')
    BY <1>1 DEF RowsMove
  <1> QED BY <1>1, <1>2

LEMMA QuietEnd ==
  ASSUME IInv, NEW a \in Actors, End(a), Quiet, UNCHANGED queue
  PROVE  IInv'
BY QuietRows, EndKeeps

LEMMA FailureIsQuiet ==
  ASSUME IInv, Fault, UNCHANGED <<row, listing, store>>, orphans' \subseteq DOMAIN row
  PROVE  Quiet
BY FaultCounts DEF IInv, Quiet, StoreOK

LEMMA InsertFailsKeeps ==
  ASSUME IInv, NEW a \in Actors, InsertFails(a)
  PROVE  IInv'
PROOF
  <1>1. Quiet
    BY FailureIsQuiet DEF InsertFails, Upstream, IInv, StoreOK
  <1> QED BY <1>1, QuietEnd DEF InsertFails

LEMMA MarkFailedFailsKeeps ==
  ASSUME IInv, NEW a \in Actors, MarkFailedFails(a)
  PROVE  IInv'
PROOF
  <1>1. job[a].row \in DOMAIN row
    BY DEF MarkFailedFails, At, IInv, OnRoute, KnowsRows, Owner
  <1>2. Quiet
    BY <1>1, FailureIsQuiet DEF MarkFailedFails, Upstream, IInv, StoreOK
  <1> QED BY <1>2, QuietEnd DEF MarkFailedFails

\* An owner turns to the cleanup of its reservation.
LEMMA TurnsToFail ==
  ASSUME IInv, NEW a \in Actors, Owner(a), GoTo(a, "fail"), Unlock(a) \/ UNCHANGED locks,
         UNCHANGED <<job, slots, queue>>, Quiet
  PROVE  IInv'
PROOF
  <1>6. PICK S \in SUBSET locks[a] : locks' = [locks EXCEPT ![a] = S]
    <2>1. CASE Unlock(a)
      BY <2>1 DEF Unlock
    <2>2. CASE locks' = locks
      BY <2>2 DEF IInv, LocksOK
    <2> QED BY <2>1, <2>2
  <1>1. pc' = [pc EXCEPT ![a] = "fail"] /\ job' = job
    BY DEF GoTo
  <1>2. "fail" \in Labels /\ S \in SUBSET Nat
    BY DEF Labels, IInv, LocksOK
  <1>3. JobTyped(job[a])
    BY DEF IInv
  <1>4. ASSUME OnlyActor(a) /\ pc'[a] = "fail" /\ job'[a] = job[a] /\ locks'[a] = S
        PROVE  OnRoute(a)' /\ KnowsRows(a)' /\ LockStep(a) /\ Owner(a)'
    <2>1. OnRoute(a)' /\ Owner(a)'
      BY <1>4 DEF OnRoute, Owner, Deletions
    <2>2. KnowsRows(a)'
      BY <1>4, <2>1 DEF KnowsRows, Owner, Deletions, IInv, Quiet
    <2>3. LockStep(a)
      BY <1>4, LocksKept DEF Quiet
    <2> QED BY <2>1, <2>2, <2>3
  <1>5. SlotStep(a)
    BY SlotsStay
  <1> QED BY <1>1, <1>2, <1>3, <1>4, <1>5, <1>6, QuietMove

LEMMA RequestFailsKeeps ==
  ASSUME IInv, NEW a \in Actors, RequestFails(a)
  PROVE  IInv'
PROOF
  <1>1. Quiet /\ UNCHANGED queue
    BY FailureIsQuiet DEF RequestFails, Upstream, IInv, StoreOK
  <1>2. CASE End(a)
    BY <1>1, <1>2, QuietEnd
  <1>3. CASE job[a].op \in {"upload", "link"} /\ GoTo(a, "fail") /\ Unlock(a) /\ UNCHANGED <<job, slots>>
    <2>1. Owner(a)
      BY <1>3 DEF RequestFails, IInv, OnRoute, Owner
    <2> QED BY <1>1, <1>3, <2>1, TurnsToFail
  <1> QED BY <1>2, <1>3 DEF RequestFails

LEMMA PollFailsKeeps ==
  ASSUME IInv, NEW a \in Actors, PollFails(a)
  PROVE  IInv'
PROOF
  <1>1. Quiet /\ UNCHANGED queue
    BY FailureIsQuiet DEF PollFails, Upstream, IInv, StoreOK
  <1>2. CASE End(a)
    BY <1>1, <1>2, QuietEnd
  <1>3. ASSUME NEW i \in DOMAIN job[a].todo, NextParent(a, i) PROVE IInv'
    <2>1. job[a].op = "refresh"
      BY DEF PollFails, At, IInv, OnRoute
    <2> QED BY <1>1, <1>3, <2>1, QuietRows, NextParentKeeps
  <1> QED BY <1>2, <1>3 DEF PollFails

LEMMA EnqueueFailsKeeps ==
  ASSUME IInv, NEW a \in Actors, EnqueueFails(a)
  PROVE  IInv'
PROOF
  <1> DEFINE j == [job[a] EXCEPT !.slot = FALSE]
  <1>1. /\ pc' = [pc EXCEPT ![a] = "fail"] /\ job' = [job EXCEPT ![a] = j]
        /\ UNCHANGED <<locks, queue>> /\ pc[a] = "enqueue" /\ slots' = slots - 1
    BY DEF EnqueueFails, At, GoTo, Learn
  <1>2. Quiet
    BY FailureIsQuiet DEF EnqueueFails, Upstream, IInv, StoreOK
  <1>3. JobTyped(job[a]) /\ job[a].op = "link" /\ job[a].slot = TRUE
    BY <1>1 DEF IInv, OnRoute, JobTyped
  <1>4. JobTyped(j) /\ j.op = "link" /\ j.row = job[a].row /\ j.slot = FALSE
    BY <1>3 DEF JobTyped
  <1>5. "fail" \in Labels /\ locks[a] \in SUBSET Nat /\ Owner(a)
    BY <1>1, <1>3 DEF Labels, IInv, LocksOK, Owner
  <1> HIDE DEF j
  <1>6. ASSUME OnlyActor(a) /\ pc'[a] = "fail" /\ job'[a] = j /\ locks'[a] = locks[a]
        PROVE  OnRoute(a)' /\ KnowsRows(a)' /\ LockStep(a) /\ Owner(a)' /\ job'[a].row = job[a].row
    <2>1. OnRoute(a)' /\ Owner(a)'
      BY <1>4, <1>6 DEF OnRoute, Owner, Deletions
    <2>2. KnowsRows(a)'
      BY <1>2, <1>3, <1>4, <1>5, <1>6 DEF KnowsRows, Deletions, IInv, Quiet
    <2>3. LockStep(a)
      BY <1>2, <1>6, LocksKept DEF Quiet
    <2> QED BY <1>4, <1>6, <2>1, <2>2, <2>3
  <1>7. SlotStep(a)
    <2>1. job'[a].slot = FALSE
      BY <1>1, <1>4 DEF IInv
    <2>2. slots >= Len(queue) + 1 /\ slots \in 0..Capacity /\ Len(queue) \in Nat
      BY <1>3, PermitCounted DEF IInv, SlotsOK
    <2>3. slots' \in 0..Capacity
      BY <1>1, <2>2, CapacityIsNat
    <2>4. Permit(job[a]) = 1 /\ Permit(job'[a]) = 0
      BY <1>3, <2>1 DEF Permit
    <2> QED BY <1>1, <2>2, <2>3, <2>4 DEF SlotStep
  <1> QED BY <1>1, <1>2, <1>4, <1>5, <1>6, <1>7, QuietMove

\* A deletion begins or goes on.
LEMMA DeletionGoesOn ==
  ASSUME IInv, NEW w \in Actors, NEW C, NEW l \in {"erase", "restore", "finalise"}, NEW j,
         JobTyped(j), j.op \in Deletions, job[w].op \in Deletions \union {"none"},
         pc' = [pc EXCEPT ![w] = l] \/ (pc' = pc /\ l = pc[w]), job' = [job EXCEPT ![w] = j],
         UNCHANGED <<locks, queue, slots>>, RowsMove(w, C), RowsOK', StoreOK', StoreGrows,
         KnowsDeleted(j, l, row', store')
  PROVE  IInv'
PROOF
  <1>1. l \in Labels /\ locks[w] \in SUBSET Nat
    BY DEF Labels, IInv, LocksOK
  <1>2. OnlyActor(w) /\ pc'[w] = l /\ job'[w] = j /\ locks'[w] = locks[w]
    BY <1>1, ActorMoves, ZenonT(30)
  <1>3. ~Owner(w)'
    BY <1>2 DEF Owner, Deletions
  <1>4. Arrives(w)
    <2>1. OnRoute(w)'
      BY <1>2 DEF OnRoute, Deletions
    <2>2. KnowsRows(w)'
      BY <1>2, <1>3 DEF KnowsRows, Deletions
    <2> QED BY <1>2, <2>1, <2>2 DEF Arrives
  <1>5. LockStep(w)
    BY <1>2, LongerRows DEF LockStep, IInv, LocksOK
  <1>6. SlotStep(w)
    <2>1. JobTyped(job[w])
      BY DEF IInv
    <2>2. job'[w].slot = FALSE /\ job[w].slot = FALSE
      BY <1>2, <2>1 DEF JobTyped, Deletions
    <2> QED BY <2>2, SlotsStay
  <1>7. OwnStep(w)
    BY <1>2, <1>3, QueueStays
  <1> QED BY <1>2, <1>4, <1>5, <1>6, <1>7, StepKeeps

LEMMA SoftDeleteFailsKeeps ==
  ASSUME IInv, NEW w \in Workers, NEW route \in Deletions, NEW ids \in SUBSET DOMAIN row,
         SoftDeleteFails(w, route, ids)
  PROVE  IInv'
PROOF
  <1> DEFINE was == [i \in ids |-> row[i].status]
             j == [Idle EXCEPT !.op = route, !.was = was]
  <1>1. /\ pc' = [pc EXCEPT ![w] = "restore"] /\ job' = [job EXCEPT ![w] = j]
        /\ UNCHANGED <<locks, queue, slots>> /\ pc[w] = "idle" /\ w \in Actors
        /\ \A i \in ids : Deletable(i, route)
    BY DEF SoftDeleteFails, Deletion, At, GoTo, Learn, Pool, Actors
  <1>2. Quiet
    BY FailureIsQuiet DEF SoftDeleteFails, Upstream, IInv, StoreOK
  <1>3. j.op = route /\ j.row = 0 /\ j.slot = FALSE /\ j.was = was /\ j.ids = {} /\ DOMAIN was = ids
    BY DEF Idle
  <1>4. ASSUME NEW i \in ids
        PROVE  /\ was[i] \in Statuses \ {"deleted"}
               /\ row[i].file \/ (row[i].kind = "link" /\ was[i] \in DeletedLinks)
    <2>1. row[i] \in RowType
      BY ElementOfSeq, LenProperties DEF IInv, RowsOK
    <2> QED BY <1>1, <2>1 DEF RowType, Deletable
  <1> HIDE DEF was
  <1>5. JobTyped(j)
    BY <1>3, IdleTyped DEF JobTyped, Idle, Ops, Deletions
  <1>6. job[w].op = "none"
    BY <1>1, IdleTyped DEF IInv, OnRoute
  <1> HIDE DEF j
  <1>7. KnowsDeleted(j, "restore", row', store')
    BY <1>2, <1>3, <1>4 DEF KnowsDeleted, Quiet
  <1>8. RowsMove(w, {}) /\ RowsOK' /\ StoreOK' /\ StoreGrows
    BY <1>2, QuietRows
  <1>9. j.op \in Deletions /\ job[w].op \in Deletions \union {"none"}
    BY <1>3, <1>6
  <1> QED BY <1>1, <1>5, <1>7, <1>8, <1>9, DeletionGoesOn

\* A deletion is under way.
LEMMA InDeletion ==
  ASSUME IInv, NEW w \in Actors, pc[w] \in {"erase", "restore", "finalise"}
  PROVE  /\ JobTyped(job[w]) /\ job[w].op \in Deletions /\ KnowsDeleted(job[w], pc[w], row, store)
         /\ job[w].slot = FALSE
PROOF
  <1>1. JobTyped(job[w]) /\ job[w].op \in Deletions
    BY DEF IInv, OnRoute
  <1>2. KnowsDeleted(job[w], pc[w], row, store)
    BY <1>1 DEF IInv, KnowsRows
  <1> QED BY <1>1, <1>2 DEF JobTyped, Deletions

\* A deletion gives up what it has not confirmed and restores.
LEMMA TurnsToRestore ==
  ASSUME IInv, NEW w \in Actors, pc[w] \in {"erase", "finalise"}, GoTo(w, "restore"),
         Learn(w, [job[w] EXCEPT !.ids = {}]), UNCHANGED <<row, locks, queue, slots>>,
         StoreOK', StoreGrows
  PROVE  IInv'
PROOF
  <1> DEFINE j == [job[w] EXCEPT !.ids = {}]
  <1>1. JobTyped(job[w]) /\ job[w].op \in Deletions /\ KnowsDeleted(job[w], pc[w], row, store)
    BY InDeletion
  <1>2. JobTyped(j) /\ j.op = job[w].op /\ j.ids = {} /\ j.was = job[w].was
    BY <1>1 DEF JobTyped
  <1>3. pc' = [pc EXCEPT ![w] = "restore"] /\ job' = [job EXCEPT ![w] = j]
    BY DEF GoTo, Learn
  <1> HIDE DEF j
  <1>4. KnowsDeleted(j, "restore", row', store')
    BY <1>1, <1>2 DEF KnowsDeleted
  <1>5. RowsMove(w, {}) /\ RowsOK'
    BY DEF RowsMove, IInv, RowsOK, StoreGrows
  <1> QED BY <1>1, <1>2, <1>3, <1>4, <1>5, DeletionGoesOn

LEMMA FinaliseFailsKeeps ==
  ASSUME IInv, NEW w \in Actors, FinaliseFails(w)
  PROVE  IInv'
PROOF
  <1>1. Quiet /\ UNCHANGED queue /\ pc[w] = "finalise"
    BY FailureIsQuiet DEF FinaliseFails, At, Upstream, IInv, StoreOK
  <1>2. CASE End(w)
    BY <1>1, <1>2, QuietEnd
  <1>3. CASE GoTo(w, "restore") /\ Learn(w, [job[w] EXCEPT !.ids = {}]) /\ UNCHANGED <<locks, slots>>
    BY <1>1, <1>3, QuietRows, TurnsToRestore DEF Quiet
  <1> QED BY <1>2, <1>3 DEF FinaliseFails

LEMMA EraseFailsKeeps ==
  ASSUME IInv, NEW w \in Actors, EraseFails(w)
  PROVE  IInv'
PROOF
  <1>1. /\ pc[w] = "erase" /\ GoTo(w, "restore") /\ Learn(w, [job[w] EXCEPT !.ids = {}])
        /\ UNCHANGED <<row, locks, queue, slots, listing, orphans>> /\ Fault
    BY DEF EraseFails, At, Pool
  <1>2. faults' \in 0..MaxFaults
    BY <1>1, FaultCounts
  <1> DEFINE files == {i \in job[w].ids : row[i].file}
  <1>3. files \subseteq Nat
    BY DEF IInv, JobTyped
  <1>4. \/ store' = store
        \/ store' = [store EXCEPT !.erased = @ \union files, !.unanswered = @ \union files]
    BY DEF EraseFails
  <1> HIDE DEF files
  <1>5. StoreOK' /\ StoreGrows
    BY <1>1, <1>2, <1>3, <1>4 DEF IInv, StoreOK, StoreGrows
  <1> QED BY <1>1, <1>5, TurnsToRestore

LEMMA EraseKeeps ==
  ASSUME IInv, NEW w \in Actors, Erase(w)
  PROVE  IInv'
PROOF
  <1> DEFINE files == {i \in job[w].ids : row[i].file}
  <1>1. PICK no \in (IF job[w].op = "file" THEN {{}} ELSE SUBSET files) :
          LET kept == IF job[w].op = "files" THEN no ELSE {} IN
          /\ store' = [store EXCEPT !.erased = @ \union (files \ no), !.refused = @ \union (no \ kept)]
          /\ IF kept = {}
             THEN Learn(w, [job[w] EXCEPT !.sure = TRUE]) /\ GoTo(w, "finalise")
             ELSE /\ Learn(w, [job[w] EXCEPT !.sure = TRUE, !.ids = @ \ kept,
                                             !.was = Without(@, job[w].ids \ kept)])
                  /\ GoTo(w, "restore")
    BY DEF Erase
  <1> DEFINE kept == IF job[w].op = "files" THEN no ELSE {}
             j == IF kept = {} THEN [job[w] EXCEPT !.sure = TRUE]
                  ELSE [job[w] EXCEPT !.sure = TRUE, !.ids = @ \ kept, !.was = Without(@, job[w].ids \ kept)]
             l == IF kept = {} THEN "finalise" ELSE "restore"
  <1>2. /\ store' = [store EXCEPT !.erased = @ \union (files \ no), !.refused = @ \union (no \ kept)]
        /\ job' = [job EXCEPT ![w] = j] /\ pc' = [pc EXCEPT ![w] = l]
        /\ l \in {"erase", "restore", "finalise"}
    BY <1>1 DEF Learn, GoTo
  <1>3. pc[w] = "erase" /\ UNCHANGED <<row, locks, queue, slots, listing, orphans, faults>>
    BY DEF Erase, At, Pool
  <1>4. JobTyped(job[w]) /\ job[w].op \in Deletions /\ KnowsDeleted(job[w], pc[w], row, store)
    BY <1>3, InDeletion
  <1>5. no \subseteq files /\ kept \subseteq no /\ files \subseteq Nat
    BY <1>4 DEF JobTyped
  <1>6. /\ j.op = job[w].op /\ j.ids = job[w].ids \ kept
        /\ DOMAIN j.was \subseteq DOMAIN job[w].was /\ \A i \in DOMAIN j.was : j.was[i] = job[w].was[i]
        /\ JobTyped(j)
    <2>1. CASE kept = {}
      <3>1. j = [job[w] EXCEPT !.sure = TRUE]
        BY <2>1
      <3> HIDE DEF j, kept
      <3> QED BY <1>4, <2>1, <3>1 DEF JobTyped
    <2>2. CASE kept # {}
      <3> DEFINE was == Without(job[w].was, job[w].ids \ kept)
                 ids == job[w].ids \ kept
      <3>1. j = [job[w] EXCEPT !.sure = TRUE, !.ids = ids, !.was = was]
        BY <2>2
      <3>2. DOMAIN was \subseteq DOMAIN job[w].was /\ \A i \in DOMAIN was : was[i] = job[w].was[i]
        BY DEF Without
      <3>3. ids \in SUBSET Nat
        BY <1>4 DEF JobTyped
      <3> HIDE DEF j, kept, was, ids
      <3>4. /\ j.op = job[w].op /\ j.ids = ids /\ j.was = was /\ JobTyped(j)
        BY <1>4, <3>1, <3>3 DEF JobTyped
      <3> QED BY <3>2, <3>4 DEF ids
    <2> QED BY <2>1, <2>2
  <1> HIDE DEF j, l, kept
  <1>7. ASSUME NEW i \in job[w].ids \ kept, row[i].file
        PROVE  i \in store'.erased \union store'.refused
    BY <1>2, <1>7 DEF IInv, StoreOK
  <1>8. KnowsDeleted(j, l, row', store')
    BY <1>3, <1>4, <1>6, <1>7 DEF KnowsDeleted
  <1> HIDE DEF files
  <1>9. RowsMove(w, {}) /\ RowsOK' /\ StoreOK' /\ StoreGrows
    <2>1. RowsMove(w, {}) /\ RowsOK'
      BY <1>3 DEF RowsMove, IInv, RowsOK
    <2>2. StoreOK' /\ StoreGrows
      BY <1>2, <1>3, <1>5 DEF IInv, StoreOK, StoreGrows
    <2> QED BY <2>1, <2>2
  <1>10. UNCHANGED <<locks, queue, slots>>
    BY <1>3
  <1> QED BY <1>2, <1>4, <1>6, <1>8, <1>9, <1>10, DeletionGoesOn

\* A row is restored, or given up: the actor goes on with the others.
LEMMA RestoredKeeps ==
  ASSUME IInv, NEW w \in Actors, NEW C, NEW i, pc[w] = "restore", Restored(w, i), UNCHANGED queue,
         RowsMove(w, C), RowsOK', StoreOK', StoreGrows,
         \A k \in DOMAIN row : row'[k].file = row[k].file
  PROVE  IInv'
PROOF
  <1> DEFINE rest == Without(job[w].was, {i})
             j == [job[w] EXCEPT !.was = rest]
  <1>1. JobTyped(job[w]) /\ job[w].op \in Deletions /\ KnowsDeleted(job[w], pc[w], row, store)
    BY InDeletion
  <1>2. DOMAIN rest \subseteq DOMAIN job[w].was /\ \A k \in DOMAIN rest : rest[k] = job[w].was[k]
    BY DEF Without
  <1>3. CASE End(w)
    BY <1>3, EndKeeps
  <1>4. ASSUME NEW l \in {"erase", "restore", "finalise"}, l # "erase", Learn(w, j),
               GoTo(w, l) \/ (pc' = pc /\ l = pc[w]), UNCHANGED <<locks, slots>>
        PROVE  IInv'
    <2> HIDE DEF rest
    <2>1. JobTyped(j) /\ j.op = job[w].op /\ j.ids = job[w].ids /\ j.was = rest
      BY <1>1 DEF JobTyped
    <2>2. job' = [job EXCEPT ![w] = j] /\ (pc' = [pc EXCEPT ![w] = l] \/ (pc' = pc /\ l = pc[w]))
      BY <1>4 DEF Learn, GoTo
    <2> HIDE DEF j
    <2>3. KnowsDeleted(j, l, row', store')
      <3>1. \A k \in DOMAIN row : k \in DOMAIN row' /\ row'[k].kind = row[k].kind /\ row'[k].file = row[k].file
        BY DEF RowsMove
      <3> QED BY <1>1, <1>2, <2>1, <3>1 DEF KnowsDeleted, StoreGrows
    <2> QED BY <1>1, <1>4, <2>1, <2>2, <2>3, DeletionGoesOn
  <1>5. CASE Learn(w, j) /\ UNCHANGED <<pc, locks, slots>>
    BY <1>4, <1>5
  <1>6. CASE Learn(w, j) /\ GoTo(w, "finalise") /\ UNCHANGED <<locks, slots>>
    BY <1>4, <1>6
  <1> QED BY <1>3, <1>5, <1>6 DEF Restored

LEMMA RestoreFailsKeeps ==
  ASSUME IInv, NEW w \in Actors, RestoreFails(w)
  PROVE  IInv'
PROOF
  <1>1. Quiet /\ UNCHANGED <<row, queue>> /\ pc[w] = "restore"
    BY FailureIsQuiet DEF RestoreFails, At, Upstream, IInv, StoreOK
  <1>2. PICK i \in DOMAIN job[w].was : Restored(w, i)
    BY DEF RestoreFails
  <1> QED BY <1>1, <1>2, QuietRows, RestoredKeeps

-----------------------------------------------------------------------------
(* Actions that change rows. *)

LEMMA RowTyped ==
  ASSUME IInv, NEW i \in DOMAIN row
  PROVE  row[i] \in RowType /\ i \in Nat /\ i # 0 /\ i <= Len(row)
PROOF
  <1>1. DOMAIN row = 1..Len(row) /\ Len(row) \in Nat
    BY LenProperties DEF IInv, RowsOK
  <1>2. row[i] \in RowType
    BY <1>1, ElementOfSeq DEF IInv, RowsOK
  <1> QED BY <1>1, <1>2

\* Rows are rewritten in place.
LEMMA RowsRewritten ==
  ASSUME IInv, row' = [i \in DOMAIN row |-> row'[i]], UNCHANGED listing,
         \A i \in DOMAIN row :
           /\ row'[i] \in RowType /\ row'[i].kind = row[i].kind /\ row'[i].parent = row[i].parent
           /\ row'[i].kind = "link" => ~row'[i].file
           /\ row'[i].settled => i \in DOMAIN listing
  PROVE  RowsOK' /\ DOMAIN row' = DOMAIN row
PROOF
  <1>1. DOMAIN row = 1..Len(row) /\ Len(row) \in Nat
    BY LenProperties DEF IInv, RowsOK
  <1>2. row' \in Seq(RowType) /\ DOMAIN row' = DOMAIN row
    <2>1. row' \in [1..Len(row) -> RowType]
      BY <1>1
    <2> QED BY <1>1, <2>1, IsASeq
  <1> QED BY <1>2 DEF IInv, RowsOK

\* One row is rewritten.
LEMMA OneRow ==
  ASSUME IInv, NEW a \in Actors, NEW i \in DOMAIN row, NEW r \in RowType, row' = [row EXCEPT ![i] = r],
         UNCHANGED listing, r.kind = row[i].kind, r.parent = row[i].parent,
         r.kind = "link" => ~r.file,
         r.settled => i \in DOMAIN listing,
         row[i].file => r.file, row[i].upload => r.upload,
         (r.file = row[i].file /\ r.upload = row[i].upload) \/ (Owner(a) /\ i = job[a].row),
         \A b \in Actors \ {a} : i \notin locks[b]
  PROVE  /\ RowsMove(a, {i}) /\ RowsOK' /\ DOMAIN row' = DOMAIN row /\ row'[i] = r
         /\ \A k \in DOMAIN row \ {i} : row'[k] = row[k]
PROOF
  <1>1. /\ row' = [k \in DOMAIN row |-> row'[k]] /\ row'[i] = r /\ DOMAIN row' = DOMAIN row
        /\ \A k \in DOMAIN row \ {i} : row'[k] = row[k]
    OBVIOUS
  <1>2. ASSUME NEW k \in DOMAIN row
        PROVE  /\ row'[k] \in RowType /\ row'[k].kind = row[k].kind /\ row'[k].parent = row[k].parent
               /\ row'[k].kind = "link" => ~row'[k].file
               /\ row'[k].settled => k \in DOMAIN listing
    BY <1>1, RowTyped DEF IInv, RowsOK
  <1>3. RowsOK'
    BY <1>1, <1>2, RowsRewritten
  <1>4. RowsMove(a, {i})
    BY <1>1 DEF RowsMove
  <1> QED BY <1>1, <1>3, <1>4

\* Only the status changes.
LEMMA StatusChange ==
  ASSUME IInv, NEW a \in Actors, NEW i \in DOMAIN row, NEW s \in Statuses, SetStatus(i, s),
         UNCHANGED listing, Free(a, {i})
  PROVE  /\ RowsMove(a, {i}) /\ RowsOK' /\ DOMAIN row' = DOMAIN row
         /\ row'[i] = [row[i] EXCEPT !.status = s]
         /\ \A k \in DOMAIN row \ {i} : row'[k] = row[k]
PROOF
  <1> DEFINE r == [row[i] EXCEPT !.status = s]
  <1>1. row' = [row EXCEPT ![i] = r]
    BY DEF SetStatus
  <1>2. row[i] \in RowType
    BY RowTyped
  <1>3. /\ r \in RowType /\ r.kind = row[i].kind /\ r.parent = row[i].parent /\ r.settled = row[i].settled
        /\ r.file = row[i].file /\ r.upload = row[i].upload
    BY <1>2 DEF RowType
  <1>4. /\ row[i].kind = "link" => ~row[i].file
        /\ row[i].settled => i \in DOMAIN listing
        /\ \A b \in Actors \ {a} : i \notin locks[b]
    BY DEF IInv, RowsOK, Free
  <1> HIDE DEF r
  <1>5. /\ RowsMove(a, {i}) /\ RowsOK' /\ DOMAIN row' = DOMAIN row /\ row'[i] = r
        /\ \A k \in DOMAIN row \ {i} : row'[k] = row[k]
    BY <1>1, <1>3, <1>4, OneRow
  <1> QED BY <1>5 DEF r

LEMMA StoreStays ==
  ASSUME IInv, UNCHANGED <<listing, store, orphans>>, DOMAIN row \subseteq DOMAIN row',
         Fault \/ faults' = faults
  PROVE  StoreOK' /\ StoreGrows
PROOF
  <1>1. faults' \in 0..MaxFaults
    BY FaultCounts
  <1> QED BY <1>1 DEF IInv, StoreOK, StoreGrows

LEMMA AttachUploadKeeps ==
  ASSUME IInv, NEW a \in Actors, AttachUpload(a)
  PROVE  IInv'
PROOF
  <1> DEFINE i == job[a].row
             r == [row[i] EXCEPT !.file = TRUE]
  <1>1. /\ pc[a] = "attach" /\ Free(a, {i}) /\ row' = [row EXCEPT ![i] = r] /\ End(a)
        /\ UNCHANGED <<queue, listing, store, orphans, faults>>
    BY DEF AttachUpload, At, Upstream
  <1>2. Owner(a) /\ i \in DOMAIN row /\ row[i].kind = "upload"
    BY <1>1 DEF IInv, OnRoute, KnowsRows, Owner
  <1>3. row[i] \in RowType
    BY <1>2, RowTyped
  <1>4. /\ r \in RowType /\ r.kind = row[i].kind /\ r.parent = row[i].parent /\ r.settled = row[i].settled
        /\ r.file = TRUE /\ r.upload = row[i].upload
    BY <1>3 DEF RowType
  <1>5. (row[i].settled => i \in DOMAIN listing) /\ \A b \in Actors \ {a} : i \notin locks[b]
    BY <1>1, <1>2 DEF IInv, RowsOK, Free
  <1>6. RowsMove(a, {i}) /\ RowsOK' /\ DOMAIN row' = DOMAIN row
    <2> HIDE DEF r
    <2>1. ~(r.kind = "link")
      BY <1>2, <1>4
    <2> QED BY <1>1, <1>2, <1>4, <1>5, <2>1, OneRow
  <1>7. StoreOK' /\ StoreGrows
    BY <1>1, <1>6, StoreStays
  <1> QED BY <1>1, <1>6, <1>7, EndKeeps

LEMMA MarkFailedKeeps ==
  ASSUME IInv, NEW a \in Actors, MarkFailed(a)
  PROVE  IInv'
PROOF
  <1> DEFINE i == job[a].row
  <1>1. /\ pc[a] = "fail" /\ Free(a, {i}) /\ SetStatus(i, "failed") /\ End(a)
        /\ UNCHANGED <<queue, listing, store, orphans, faults>>
    BY DEF MarkFailed, At, Upstream
  <1>2. i \in DOMAIN row /\ "failed" \in Statuses
    BY <1>1 DEF IInv, OnRoute, KnowsRows, Owner, Statuses
  <1>3. RowsMove(a, {i}) /\ RowsOK' /\ DOMAIN row' = DOMAIN row
    BY <1>1, <1>2, StatusChange
  <1>4. StoreOK' /\ StoreGrows
    BY <1>1, <1>3, StoreStays
  <1> QED BY <1>1, <1>3, <1>4, EndKeeps

\* The row under way is locked, and a size to check against the quota is known.
LEMMA TurnsToGrow ==
  ASSUME IInv, NEW a \in Actors, NEW j, JobTyped(j), j.op \in {"link", "callback", "refresh"},
         j.slot = job[a].slot, NEW S, S \subseteq 0..Len(row), j.row \in S, Free(a, S),
         Lock(a, S), GoTo(a, "grow"), job' = [job EXCEPT ![a] = j] \/ (job' = job /\ j = job[a]),
         Quiet, UNCHANGED <<queue, slots>>,
         OnlyActor(a) /\ pc'[a] = "grow" /\ job'[a] = j
           => KnowsRows(a)' /\ (Owner(a)' => Owner(a) /\ j.row = job[a].row)
  PROVE  IInv'
PROOF
  <1> DEFINE T == locks[a] \union S
  <1>1. pc' = [pc EXCEPT ![a] = "grow"] /\ locks' = [locks EXCEPT ![a] = T]
    BY DEF GoTo, Lock
  <1>2. Len(row) \in Nat
    BY LenProperties DEF IInv, RowsOK
  <1>3. "grow" \in Labels /\ T \in SUBSET Nat
    BY <1>2 DEF Labels, IInv, LocksOK
  <1> HIDE DEF T
  <1>4. OnlyActor(a) /\ pc'[a] = "grow" /\ job'[a] = j /\ locks'[a] = T
    <2>1. Moves(a, "grow", j, T)
      BY <1>1 DEF Moves
    <2> QED BY <1>3, <2>1, OneMoves
  <1>5. OnRoute(a)'
    BY <1>4 DEF OnRoute, Deletions, T
  <1>6. LockStep(a)
    BY <1>4, LocksTaken DEF Quiet, T
  <1>7. SlotStep(a)
    BY <1>4, SlotsStay
  <1>8. Arrives(a) /\ (Owner(a)' => Owner(a) /\ job'[a].row = job[a].row)
    BY <1>4, <1>5 DEF Arrives
  <1> QED BY <1>4, <1>6, <1>7, <1>8, QuietStep

LEMMA AttachLinkKeeps ==
  ASSUME IInv, NEW a \in Actors, AttachLink(a)
  PROVE  IInv'
PROOF
  <1> DEFINE i == job[a].row
  <1>1. pc[a] = "submit" /\ UNCHANGED <<queue, listing, store, orphans, faults>>
    BY DEF AttachLink, At, Upstream
  <1>2. /\ Owner(a) /\ i \in DOMAIN row /\ row[i].kind = "link" /\ ~row[i].file /\ JobTyped(job[a])
        /\ job[a].op = "link"
    BY <1>1 DEF IInv, OnRoute, KnowsRows, Owner
  <1>3. row[i] \in RowType
    BY <1>2, RowTyped
  <1>4. CASE GoTo(a, "fail") /\ UNCHANGED <<row, locks, job, slots>>
    <2>1. Quiet
      BY <1>1, <1>4 DEF Quiet, IInv, StoreOK
    <2> QED BY <1>1, <1>2, <1>4, <2>1, TurnsToFail
  <1>5. ASSUME NEW size \in Reports, Free(a, {i}), Lock(a, {i}), Learn(a, [job[a] EXCEPT !.size = size]),
               GoTo(a, "grow"), UNCHANGED <<row, slots>>
        PROVE  IInv'
    <2> DEFINE j == [job[a] EXCEPT !.size = size]
    <2>1. Quiet
      BY <1>1, <1>5 DEF Quiet, IInv, StoreOK
    <2>2. size \in Nat
      BY NumbersAssumption
    <2>3. JobTyped(j) /\ j.op = "link" /\ j.row = i /\ j.slot = job[a].slot
      BY <1>2, <2>2 DEF JobTyped
    <2>4. {i} \subseteq 0..Len(row)
      BY <1>2, RowTyped, LenProperties DEF IInv, RowsOK
    <2>5. job' = [job EXCEPT ![a] = j]
      BY <1>5 DEF Learn
    <2> HIDE DEF j
    <2>6. ASSUME OnlyActor(a), pc'[a] = "grow", job'[a] = j
          PROVE  KnowsRows(a)' /\ (Owner(a)' => Owner(a) /\ j.row = job[a].row)
      <3>1. ~row[i].upload
        BY <1>2 DEF IInv, KnowsRows
      <3> QED BY <1>2, <1>5, <2>3, <2>6, <3>1 DEF KnowsRows, Owner, Deletions
    <2>7. j.op \in {"link", "callback", "refresh"} /\ j.row \in {i}
      BY <2>3
    <2> QED BY <1>1, <1>5, <2>1, <2>3, <2>4, <2>5, <2>6, <2>7, TurnsToGrow
  <1>6. CASE Free(a, {i}) /\ row' = [row EXCEPT ![i].upload = TRUE] /\ End(a)
    <2> DEFINE r == [row[i] EXCEPT !.upload = TRUE]
    <2>1. row' = [row EXCEPT ![i] = r]
      BY <1>6
    <2>2. /\ r \in RowType /\ r.kind = row[i].kind /\ r.parent = row[i].parent /\ r.settled = row[i].settled
          /\ r.file = row[i].file /\ r.upload = TRUE
      BY <1>3 DEF RowType
    <2>3. (row[i].settled => i \in DOMAIN listing) /\ \A b \in Actors \ {a} : i \notin locks[b]
      BY <1>2, <1>6 DEF IInv, RowsOK, Free
    <2>6. /\ ~r.file /\ (row[i].file => r.file) /\ (row[i].upload => r.upload)
          /\ r.settled => i \in DOMAIN listing
      BY <1>2, <2>2, <2>3
    <2> HIDE DEF r
    <2>7. Owner(a) /\ i = job[a].row
      BY <1>2
    <2>4. RowsMove(a, {i}) /\ RowsOK' /\ DOMAIN row' = DOMAIN row
      BY <1>1, <1>2, <2>1, <2>2, <2>3, <2>6, <2>7, OneRow
    <2>5. StoreOK' /\ StoreGrows
      BY <1>1, <2>4, StoreStays
    <2> QED BY <1>1, <1>6, <2>4, <2>5, EndKeeps
  <1> QED BY <1>4, <1>5, <1>6 DEF AttachLink

\* What an actor has locked nobody else has.
LEMMA LockedAlone ==
  ASSUME IInv, NEW a \in Actors, NEW i \in locks[a]
  PROVE  \A b \in Actors \ {a} : i \notin locks[b]
BY DEF IInv, LocksOK

LEMMA GrowLinkKeeps ==
  ASSUME IInv, NEW a \in Actors, GrowLink(a)
  PROVE  IInv'
PROOF
  <1> DEFINE i == job[a].row
             r == [row[i] EXCEPT !.upload = TRUE, !.size = job[a].size]
  <1>1. /\ pc[a] = "write" /\ job[a].op = "link" /\ row' = [row EXCEPT ![i] = r] /\ End(a)
        /\ UNCHANGED <<queue, listing, store, orphans, faults>>
    BY DEF GrowLink, At, Upstream
  <1>2. /\ Owner(a) /\ i \in DOMAIN row /\ row[i].kind = "link" /\ ~row[i].file /\ JobTyped(job[a])
        /\ i \in locks[a]
    BY <1>1 DEF IInv, OnRoute, KnowsRows, Owner
  <1>3. row[i] \in RowType /\ job[a].size \in Nat
    BY <1>2, RowTyped DEF JobTyped
  <1>4. /\ r \in RowType /\ r.kind = row[i].kind /\ r.parent = row[i].parent /\ r.settled = row[i].settled
        /\ r.file = row[i].file /\ r.upload = TRUE
    BY <1>3 DEF RowType
  <1>5. /\ row[i].settled => i \in DOMAIN listing
        /\ \A b \in Actors \ {a} : i \notin locks[b]
    BY <1>2, LockedAlone DEF IInv, RowsOK
  <1>6. RowsMove(a, {i}) /\ RowsOK' /\ DOMAIN row' = DOMAIN row
    <2>1. /\ ~r.file /\ (row[i].file => r.file) /\ (row[i].upload => r.upload)
          /\ r.settled => i \in DOMAIN listing
      BY <1>2, <1>4, <1>5
    <2> HIDE DEF r
    <2> QED BY <1>1, <1>2, <1>4, <1>5, <2>1, OneRow
  <1>7. StoreOK' /\ StoreGrows
    BY <1>1, <1>6, StoreStays
  <1> QED BY <1>1, <1>6, <1>7, EndKeeps

LEMMA GrowUploadKeeps ==
  ASSUME IInv, NEW a \in Actors, GrowUpload(a)
  PROVE  IInv'
PROOF
  <1> DEFINE i == job[a].row
             r == [row[i] EXCEPT !.status = "completed", !.size = job[a].size]
  <1>1. /\ pc[a] = "write" /\ job[a].op = "callback" /\ row' = [row EXCEPT ![i] = r] /\ End(a)
        /\ UNCHANGED <<queue, listing, store, orphans, faults>>
    BY DEF GrowUpload, At, Upstream
  <1>2. /\ i \in DOMAIN row /\ row[i].kind = "upload" /\ row[i].file /\ JobTyped(job[a])
        /\ i \in locks[a]
    BY <1>1 DEF IInv, OnRoute, KnowsRows
  <1>3. row[i] \in RowType /\ job[a].size \in Nat
    BY <1>2, RowTyped DEF JobTyped
  <1>4. /\ r \in RowType /\ r.kind = row[i].kind /\ r.parent = row[i].parent /\ r.settled = row[i].settled
        /\ r.file = row[i].file /\ r.upload = row[i].upload
    BY <1>3 DEF RowType, Statuses, Active
  <1>5. /\ row[i].settled => i \in DOMAIN listing
        /\ \A b \in Actors \ {a} : i \notin locks[b]
    BY <1>2, LockedAlone DEF IInv, RowsOK
  <1>6. RowsMove(a, {i}) /\ RowsOK' /\ DOMAIN row' = DOMAIN row
    <2>1. ~(r.kind = "link") /\ (r.settled => i \in DOMAIN listing)
      BY <1>2, <1>4, <1>5
    <2> HIDE DEF r
    <2> QED BY <1>1, <1>2, <1>4, <1>5, <2>1, OneRow
  <1>7. StoreOK' /\ StoreGrows
    BY <1>1, <1>6, StoreStays
  <1> QED BY <1>1, <1>6, <1>7, EndKeeps

LEMMA EnsureGrowthKeeps ==
  ASSUME IInv, NEW a \in Actors, EnsureGrowth(a)
  PROVE  IInv'
PROOF
  <1>1. /\ pc[a] = "grow" /\ Free(a, {Users})
        /\ UNCHANGED <<row, queue, listing, store, orphans, faults>>
    BY DEF EnsureGrowth, At, Upstream
  <1>2. Quiet
    BY <1>1 DEF Quiet, IInv, StoreOK
  <1>3. /\ job[a].op \in {"link", "callback", "refresh"} /\ job[a].row \in locks[a] /\ JobTyped(job[a])
        /\ job[a].op = "link" => Owner(a)
    BY <1>1 DEF IInv, OnRoute, Owner
  <1>4. CASE job[a].op = "link" /\ GoTo(a, "fail") /\ Unlock(a) /\ UNCHANGED <<job, slots>>
    BY <1>1, <1>2, <1>3, <1>4, TurnsToFail
  <1>5. CASE End(a)
    BY <1>1, <1>2, <1>5, QuietEnd
  <1>6. CASE job[a].op = "refresh" /\ NextParent(a, job[a].row)
    BY <1>1, <1>2, <1>6, QuietRows, NextParentKeeps
  <1>7. CASE Lock(a, {Users}) /\ GoTo(a, "write") /\ UNCHANGED <<job, slots>>
    <2> DEFINE T == locks[a] \union {Users}
    <2>1. Moves(a, "write", job[a], T)
      BY <1>7 DEF Moves, Lock, GoTo
    <2>2. Len(row) \in Nat
      BY LenProperties DEF IInv, RowsOK
    <2>3. "write" \in Labels /\ T \in SUBSET Nat /\ {Users} \subseteq 0..Len(row)
      BY <2>2 DEF Labels, Users, IInv, LocksOK
    <2> HIDE DEF T
    <2>4. OnlyActor(a) /\ pc'[a] = "write" /\ job'[a] = job[a] /\ locks'[a] = T
      BY <2>1, <2>3, OneMoves
    <2>5. OnRoute(a)'
      BY <1>3, <2>4 DEF OnRoute, Deletions, T
    <2>6. Owner(a)' => Owner(a)
      BY <1>1, <2>4 DEF Owner
    <2>7. KnowsRows(a)'
      BY <1>1, <1>3, <2>4, <2>6 DEF KnowsRows, Deletions, IInv
    <2>8. Arrives(a)
      BY <1>3, <2>4, <2>5, <2>7 DEF Arrives
    <2>9. LockStep(a)
      BY <1>1, <2>3, <2>4, LocksTaken DEF T
    <2>10. SlotStep(a)
      BY <1>1, <1>7, <2>4, SlotsStay
    <2> QED BY <1>1, <1>2, <2>4, <2>6, <2>8, <2>9, <2>10, QuietStep
  <1> QED BY <1>3, <1>4, <1>5, <1>6, <1>7 DEF EnsureGrowth

LEMMA CompleteUploadKeeps ==
  ASSUME IInv, NEW w \in Actors, CompleteUpload(w)
  PROVE  IInv'
PROOF
  <1> DEFINE i == job[w].row
  <1>1. /\ pc[w] = "complete" /\ Free(w, {Users, i})
        /\ UNCHANGED <<queue, listing, store, orphans, faults>>
    BY DEF CompleteUpload, At, Upstream
  <1>2. /\ i \in DOMAIN row /\ row[i].kind = "upload" /\ row[i].file /\ JobTyped(job[w])
        /\ job[w].op \in {"callback", "report"} /\ Free(w, {i})
    BY <1>1 DEF IInv, OnRoute, KnowsRows, Free
  <1>3. ASSUME NEW s \in Statuses, SetStatus(i, s), End(w) PROVE IInv'
    <2>1. RowsMove(w, {i}) /\ RowsOK' /\ DOMAIN row' = DOMAIN row
      BY <1>1, <1>2, <1>3, StatusChange
    <2>2. StoreOK' /\ StoreGrows
      BY <1>1, <2>1, StoreStays
    <2> QED BY <1>1, <1>3, <2>1, <2>2, EndKeeps
  <1>4. "failed" \in Statuses /\ "completed" \in Statuses
    BY DEF Statuses, Active
  <1>5. CASE End(w) /\ UNCHANGED row
    <2>1. Quiet
      BY <1>1, <1>5 DEF Quiet, IInv, StoreOK
    <2> QED BY <1>1, <1>5, <2>1, QuietEnd
  <1>6. CASE /\ row[i].status = "reserved" /\ job[w].op = "callback"
             /\ Lock(w, {Users, i}) /\ GoTo(w, "grow") /\ UNCHANGED <<row, job, slots>>
    <2>1. Quiet
      BY <1>1, <1>6 DEF Quiet, IInv, StoreOK
    <2>2. {Users, i} \subseteq 0..Len(row)
      BY <1>2, RowTyped, LenProperties DEF IInv, RowsOK, Users
    <2>3. ASSUME OnlyActor(w), pc'[w] = "grow", job'[w] = job[w]
          PROVE  KnowsRows(w)' /\ ~Owner(w)'
      BY <1>2, <1>6, <2>3 DEF KnowsRows, Owner, Deletions
    <2>4. job[w].op \in {"link", "callback", "refresh"} /\ i \in {Users, i}
      BY <1>6
    <2> QED BY <1>1, <1>2, <1>6, <2>1, <2>2, <2>3, <2>4, TurnsToGrow
  <1> QED BY <1>2, <1>3, <1>4, <1>5, <1>6 DEF CompleteUpload

\* SetToSeq lists the members of a finite set, each once.
LEMMA SetListed ==
  ASSUME NEW S, IsFiniteSet(S)
  PROVE  /\ Cardinality(S) \in Nat /\ SetToSeq(S) \in Bijection(1..Cardinality(S), S)
         /\ DOMAIN SetToSeq(S) = 1..Cardinality(S)
PROOF
  <1> DEFINE n == Cardinality(S)
             f == SetToSeq(S)
  <1>1. n \in Nat /\ ExistsBijection(1..n, S)
    BY FS_CardinalityType
  <1>2. \E g \in [1..n -> S] : IsInjective(g)
    BY <1>1 DEF ExistsBijection, Bijection, Injection
  <1>3. f \in [1..n -> S] /\ IsInjective(f)
    BY <1>2 DEF SetToSeq
  <1>4. IsFiniteSet(1..n) /\ Cardinality(1..n) = n
    BY <1>1, FS_Interval
  <1> HIDE DEF f
  <1>5. f \in Injection(1..n, S)
    BY <1>3 DEF Injection
  <1>6. f \in Surjection(1..n, S)
    BY <1>4, <1>5, FS_Injection
  <1>7. n \in Nat /\ f \in Bijection(1..n, S) /\ DOMAIN f = 1..n
    <2> HIDE DEF n
    <2> QED BY <1>1, <1>3, <1>5, <1>6 DEF Bijection
  <1> QED BY <1>7 DEF f

\* The files of a listing that get a row.
Kept(l) == {k \in DOMAIN l : l[k].outcome # "deleted"}

LEMMA ListingTyped ==
  ASSUME IInv, NEW i \in DOMAIN listing
  PROVE  /\ DOMAIN listing[i] = 1..Len(listing[i]) /\ Len(listing[i]) \in Nat
         /\ \A k \in DOMAIN listing[i] : listing[i][k].size \in Nat
         /\ IsFiniteSet(DOMAIN listing[i]) /\ IsFiniteSet(Kept(listing[i]))
         /\ Realized(listing[i]) \in Nat
PROOF
  <1> DEFINE l == listing[i]
             T == [size : Nat, outcome : {"done", "failed", "deleted"}]
  <1>1. l \in Seq(T)
    BY ListingsAssumption DEF IInv, RowsOK
  <1> HIDE DEF l
  <1>2. DOMAIN l = 1..Len(l) /\ Len(l) \in Nat /\ \A k \in DOMAIN l : l[k].size \in Nat
    <2>1. DOMAIN l = 1..Len(l) /\ Len(l) \in Nat
      BY <1>1, LenProperties
    <2>2. \A k \in DOMAIN l : l[k] \in T
      BY <1>1, <2>1, ElementOfSeq
    <2> QED BY <2>1, <2>2
  <1>3. IsFiniteSet(1..Len(l))
    BY <1>2, FS_Interval
  <1>4. IsFiniteSet(DOMAIN l) /\ IsFiniteSet(Kept(l)) /\ IsFiniteSet({k \in DOMAIN l : l[k].outcome = "done"})
    <2>1. IsFiniteSet(DOMAIN l)
      BY <1>2, <1>3
    <2> QED BY <2>1, FS_Subset DEF Kept
  <1>5. Realized(l) \in Nat
    <2> DEFINE f == [k \in DOMAIN l |-> l[k].size]
               D == {k \in DOMAIN l : l[k].outcome = "done"}
    <2>1. \A k \in D : f[k] \in Nat
      BY <1>2
    <2> HIDE DEF f
    <2>2. SumFunctionOnSet(f, D) \in Nat
      BY <1>4, <2>1, SumIsNat
    <2> QED BY <2>2 DEF Realized, f
  <1> QED BY <1>2, <1>4, <1>5 DEF l

LEMMA SameLength ==
  ASSUME NEW m \in Nat, NEW n \in Nat, 1..m = 1..n
  PROVE  m = n
PROOF
  <1>1. m # 0 => m \in 1..n
    OBVIOUS
  <1>2. n # 0 => n \in 1..m
    OBVIOUS
  <1> QED BY <1>1, <1>2

\* The rows of a settled link and of its files, which follow all others.
Fanned(i, kept) ==
  LET K == Kept(listing[i])
      n == Cardinality(K) IN
  /\ kept \in Bijection(1..n, K) /\ n \in Nat /\ row' \in Seq(RowType) /\ Len(row) \in Nat
  /\ DOMAIN row = 1..Len(row) /\ DOMAIN row' = 1..(Len(row) + n)
  /\ row'[i] = [row[i] EXCEPT !.settled = TRUE, !.size = 0, !.status = "transfer_completed"]
  /\ \A k \in DOMAIN row \ {i} : row'[k] = row[k]
  /\ \A k \in 1..n : kept[k] \in K /\ row'[Len(row) + k] = Child(i, listing[i][kept[k]])

LEMMA FanOutShape ==
  ASSUME IInv, NEW i \in DOMAIN row, i \in DOMAIN listing, FanOut(i)
  PROVE  \E kept : Fanned(i, kept)
PROOF
  <1> DEFINE l == listing[i]
             K == Kept(l)
             n == Cardinality(K)
             kept == SetToSeq(K)
             r == [row[i] EXCEPT !.settled = TRUE, !.size = 0, !.status = "transfer_completed"]
             old == [row EXCEPT ![i] = r]
             new == [k \in DOMAIN kept |-> Child(i, l[kept[k]])]
  <1>1. row' = old \o new
    BY DEF FanOut, Kept
  <1>2. IsFiniteSet(K) /\ \A k \in K : l[k].size \in Nat
    BY ListingTyped DEF Kept
  <1>3. n \in Nat /\ kept \in Bijection(1..n, K) /\ DOMAIN kept = 1..n
    <2> HIDE DEF K
    <2> QED BY <1>2, SetListed
  <1>4. \A k \in 1..n : kept[k] \in K
    BY <1>3 DEF Bijection, Injection
  <1>5. row[i] \in RowType /\ i \in Nat
    BY RowTyped
  <1>6. r \in RowType
    BY <1>5 DEF RowType, Statuses, Active
  <1> HIDE DEF K, n, kept, r
  <1>7. /\ old \in Seq(RowType) /\ Len(old) = Len(row) /\ Len(row) \in Nat /\ DOMAIN row = 1..Len(row)
        /\ old[i] = r /\ \A k \in DOMAIN row \ {i} : old[k] = row[k]
    <2>1. DOMAIN row = 1..Len(row) /\ Len(row) \in Nat
      BY LenProperties DEF IInv, RowsOK
    <2>2. \A k \in DOMAIN row : row[k] \in RowType
      BY RowTyped
    <2>3. old \in [1..Len(row) -> RowType]
      BY <1>6, <2>1, <2>2
    <2>6. old[i] = r /\ \A k \in DOMAIN row \ {i} : old[k] = row[k]
      OBVIOUS
    <2> HIDE DEF old
    <2>4. old \in Seq(RowType)
      BY <2>1, <2>3, IsASeq
    <2>5. Len(old) = Len(row)
      <3>1. DOMAIN old = 1..Len(old) /\ Len(old) \in Nat
        BY <2>4, LenProperties
      <3>2. DOMAIN old = 1..Len(row)
        BY <2>3
      <3> QED BY <2>1, <3>1, <3>2, SameLength
    <2> QED BY <2>1, <2>4, <2>5, <2>6
  <1>8. new \in Seq(RowType) /\ Len(new) = n /\ \A k \in 1..n : new[k] = Child(i, l[kept[k]])
    <2>1. ASSUME NEW k \in 1..n PROVE Child(i, l[kept[k]]) \in RowType
      <3>1. l[kept[k]].size \in Nat
        BY <1>2, <1>4
      <3> DEFINE item == l[kept[k]]
      <3> HIDE DEF item
      <3>2. item.size \in Nat
        BY <3>1 DEF item
      <3>3. Child(i, item) \in RowType
        BY <1>5, <3>2 DEF Child, Row, RowType, Kinds, Statuses, Active
      <3> QED BY <3>3 DEF item
    <2>2. new \in [1..n -> RowType] /\ \A k \in 1..n : new[k] = Child(i, l[kept[k]])
      BY <1>3, <2>1
    <2> HIDE DEF new
    <2>3. new \in Seq(RowType)
      BY <1>3, <2>2, IsASeq
    <2>4. DOMAIN new = 1..Len(new) /\ Len(new) \in Nat /\ DOMAIN new = 1..n
      BY <2>2, <2>3, LenProperties
    <2> QED BY <1>3, <2>2, <2>3, <2>4
  <1> HIDE DEF old, new, l
  <1>9. /\ row' \in Seq(RowType) /\ Len(row') = Len(row) + n
        /\ \A k \in 1..(Len(row) + n) : row'[k] = IF k <= Len(row) THEN old[k] ELSE new[k - Len(row)]
    <2>1. /\ old \o new \in Seq(RowType) /\ Len(old \o new) = Len(old) + Len(new)
          /\ \A k \in 1..(Len(old) + Len(new)) :
               (old \o new)[k] = IF k <= Len(old) THEN old[k] ELSE new[k - Len(old)]
      BY <1>7, <1>8, ConcatProperties
    <2>2. Len(old) = Len(row) /\ Len(new) = n
      BY <1>7, <1>8
    <2> QED BY <1>1, <2>1, <2>2
  <1>10. DOMAIN row' = 1..(Len(row) + n)
    BY <1>9, LenProperties
  <1>11. ASSUME NEW k \in DOMAIN row PROVE row'[k] = old[k]
    BY <1>3, <1>7, <1>9
  <1>12. ASSUME NEW k \in 1..n PROVE row'[Len(row) + k] = Child(i, l[kept[k]])
    <2>1. /\ Len(row) + k \in 1..(Len(row) + n) /\ ~(Len(row) + k <= Len(row))
          /\ (Len(row) + k) - Len(row) = k
      BY <1>3, <1>7
    <2>2. row'[Len(row) + k] = new[(Len(row) + k) - Len(row)]
      BY <1>9, <2>1
    <2> QED BY <1>8, <2>1, <2>2
  <1>13. row'[i] = r /\ \A k \in DOMAIN row \ {i} : row'[k] = row[k]
    BY <1>7, <1>11
  <1>14. /\ kept \in Bijection(1..n, K) /\ n \in Nat /\ row' \in Seq(RowType) /\ Len(row) \in Nat
         /\ DOMAIN row = 1..Len(row) /\ DOMAIN row' = 1..(Len(row) + n)
         /\ row'[i] = r /\ \A k \in DOMAIN row \ {i} : row'[k] = row[k]
         /\ \A k \in 1..n : kept[k] \in K /\ row'[Len(row) + k] = Child(i, l[kept[k]])
    BY <1>3, <1>4, <1>7, <1>9, <1>10, <1>12, <1>13
  <1>15. Fanned(i, kept)
    BY <1>14 DEF r, n, K, l, Fanned
  <1> QED BY <1>15

\* A link is settled with nobody else having locked it.
LEMMA FanOutMoves ==
  ASSUME IInv, NEW a \in Actors, NEW i \in DOMAIN row, i \in DOMAIN listing, row[i].kind = "link",
         FanOut(i), \A b \in Actors \ {a} : i \notin locks[b],
         UNCHANGED <<listing, store, orphans, faults>>
  PROVE  RowsMove(a, {i}) /\ RowsOK' /\ StoreOK' /\ StoreGrows
PROOF
  <1> DEFINE n == Cardinality(Kept(listing[i]))
  <1>0. PICK kept : Fanned(i, kept)
    BY FanOutShape
  <1>1. /\ n \in Nat /\ row' \in Seq(RowType) /\ Len(row) \in Nat
        /\ DOMAIN row = 1..Len(row) /\ DOMAIN row' = 1..(Len(row) + n)
        /\ row'[i] = [row[i] EXCEPT !.settled = TRUE, !.size = 0, !.status = "transfer_completed"]
        /\ \A k \in DOMAIN row \ {i} : row'[k] = row[k]
        /\ \A k \in 1..n : row'[Len(row) + k] = Child(i, listing[i][kept[k]])
    BY <1>0 DEF Fanned
  <1> HIDE DEF n
  <1>2. DOMAIN row \subseteq DOMAIN row'
    BY <1>1
  <1>3. row[i] \in RowType /\ i \in Nat /\ i # 0 /\ i <= Len(row)
    BY RowTyped
  <1>4. /\ row'[i].kind = row[i].kind /\ row'[i].parent = row[i].parent
        /\ row'[i].file = row[i].file /\ row'[i].upload = row[i].upload
    BY <1>1, <1>3 DEF RowType
  <1>5. RowsMove(a, {i})
    BY <1>1, <1>2, <1>4 DEF RowsMove
  <1>6. ASSUME NEW k \in DOMAIN row'
        PROVE  /\ row'[k].parent \in 0..(k - 1)
               /\ row'[k].kind = "link" => ~row'[k].file
               /\ row'[k].settled => k \in DOMAIN listing
    <2>1. CASE k = i
      BY <1>4, <2>1 DEF IInv, RowsOK
    <2>2. CASE k \in DOMAIN row /\ k # i
      BY <1>1, <2>2 DEF IInv, RowsOK
    <2>3. CASE k \notin DOMAIN row
      <3>1. k - Len(row) \in 1..n /\ Len(row) + (k - Len(row)) = k /\ i <= k - 1 /\ k \in Nat
        BY <1>1, <1>3, <2>3
      <3>2. row'[k] = Child(i, listing[i][kept[k - Len(row)]])
        BY <1>1, <3>1
      <3> DEFINE item == listing[i][kept[k - Len(row)]]
      <3> HIDE DEF item
      <3>3. Child(i, item).parent = i /\ Child(i, item).kind = "child" /\ Child(i, item).settled = FALSE
        BY DEF Child, Row
      <3>4. row'[k].parent = i /\ row'[k].kind = "child" /\ row'[k].settled = FALSE
        BY <3>2, <3>3 DEF item
      <3> QED BY <1>3, <3>1, <3>4
    <2> QED BY <2>1, <2>2, <2>3
  <1>7. RowsOK'
    BY <1>1, <1>2, <1>6 DEF IInv, RowsOK
  <1> QED BY <1>2, <1>5, <1>7, StoreStays

LEMMA SettleKeeps ==
  ASSUME IInv, NEW w \in Actors, Settle(w)
  PROVE  IInv'
PROOF
  <1>1. PICK i \in DOMAIN job[w].todo :
          CASE i \notin DOMAIN listing -> NextParent(w, i) /\ UNCHANGED row
            [] i \in DOMAIN listing /\ SettledAlready(i) -> NextParent(w, i) /\ UNCHANGED row
            [] i \in DOMAIN listing /\ ~SettledAlready(i)
               /\ Realized(listing[i]) <= job[w].todo[i] ->
                 Free(w, {i, Users}) /\ FanOut(i) /\ NextParent(w, i)
            [] OTHER ->
                 /\ Free(w, {i}) /\ Lock(w, {i})
                 /\ Learn(w, [job[w] EXCEPT !.row = i, !.size = Realized(listing[i])])
                 /\ GoTo(w, "grow")
                 /\ UNCHANGED <<row, slots>>
    BY DEF Settle
  <1>2. pc[w] = "poll" /\ UNCHANGED <<queue, listing, store, orphans, faults>>
    BY DEF Settle, At, Upstream
  <1>3. /\ job[w].op = "refresh" /\ i \in DOMAIN row /\ row[i].kind = "link" /\ row[i].upload
        /\ JobTyped(job[w])
        /\ \A k \in DOMAIN job[w].todo : k \in DOMAIN row /\ row[k].kind = "link" /\ row[k].upload
    BY <1>1, <1>2 DEF IInv, OnRoute, KnowsRows
  <1>4. CASE NextParent(w, i) /\ UNCHANGED row
    <2>1. Quiet
      BY <1>2, <1>4 DEF Quiet, IInv, StoreOK
    <2> QED BY <1>2, <1>3, <1>4, <2>1, QuietRows, NextParentKeeps
  <1>5. CASE i \in DOMAIN listing /\ Free(w, {i, Users}) /\ FanOut(i) /\ NextParent(w, i)
    <2>1. \A b \in Actors \ {w} : i \notin locks[b]
      BY <1>5 DEF Free
    <2>2. RowsMove(w, {i}) /\ RowsOK' /\ StoreOK' /\ StoreGrows
      BY <1>2, <1>3, <1>5, <2>1, FanOutMoves
    <2> QED BY <1>2, <1>3, <1>5, <2>2, NextParentKeeps
  <1>6. CASE /\ i \in DOMAIN listing /\ ~SettledAlready(i)
             /\ Free(w, {i}) /\ Lock(w, {i})
             /\ Learn(w, [job[w] EXCEPT !.row = i, !.size = Realized(listing[i])])
             /\ GoTo(w, "grow") /\ UNCHANGED <<row, slots>>
    <2> DEFINE s == Realized(listing[i])
               j == [job[w] EXCEPT !.row = i, !.size = s]
    <2>1. Quiet
      BY <1>2, <1>6 DEF Quiet, IInv, StoreOK
    <2>2. s \in Nat
      BY <1>6, ListingTyped
    <2>3. i \in Nat /\ {i} \subseteq 0..Len(row)
      BY <1>3, RowTyped, LenProperties DEF IInv, RowsOK
    <2> HIDE DEF s
    <2>4. JobTyped(j) /\ j.op = "refresh" /\ j.row = i /\ j.size = s /\ j.slot = job[w].slot /\ j.todo = job[w].todo
      BY <1>3, <2>2, <2>3 DEF JobTyped, Deletions
    <2>5. job' = [job EXCEPT ![w] = j]
      BY <1>6 DEF Learn, s
    <2> HIDE DEF j
    <2>6. ASSUME OnlyActor(w), pc'[w] = "grow", job'[w] = j
          PROVE  KnowsRows(w)' /\ ~Owner(w)'
      <3>1. ~Owner(w)'
        BY <2>4, <2>6 DEF Owner
      <3>2. row'[i].settled = row[i].settled /\ ~row[i].settled /\ row' = row /\ listing' = listing
        BY <1>2, <1>6 DEF SettledAlready
      <3>3. job'[w].size = Realized(listing'[i])
        BY <2>4, <2>6, <3>2 DEF s
      <3>4. /\ job'[w].op = "refresh" /\ job'[w].row = i /\ job'[w].todo = job[w].todo /\ i \in DOMAIN job[w].todo
        BY <1>1, <2>4, <2>6
      <3> QED BY <1>3, <1>6, <3>1, <3>2, <3>3, <3>4 DEF KnowsRows, Deletions
    <2>7. j.op \in {"link", "callback", "refresh"} /\ j.row \in {i}
      BY <2>4
    <2> QED BY <1>2, <1>6, <2>1, <2>3, <2>4, <2>5, <2>6, <2>7, TurnsToGrow
  <1> QED BY <1>1, <1>4, <1>5, <1>6

LEMMA SettleGrownKeeps ==
  ASSUME IInv, NEW w \in Actors, SettleGrown(w)
  PROVE  IInv'
PROOF
  <1> DEFINE i == job[w].row
  <1>1. /\ pc[w] = "write" /\ job[w].op = "refresh" /\ FanOut(i) /\ NextParent(w, i)
        /\ UNCHANGED <<queue, listing, store, orphans, faults>>
    BY DEF SettleGrown, At, Upstream
  <1>2. i \in DOMAIN job[w].todo /\ i \in DOMAIN listing /\ i \in locks[w]
    BY <1>1 DEF IInv, OnRoute, KnowsRows
  <1>3. i \in DOMAIN row /\ row[i].kind = "link"
    BY <1>1, <1>2 DEF IInv, KnowsRows
  <1>4. \A b \in Actors \ {w} : i \notin locks[b]
    BY <1>2, LockedAlone
  <1>5. RowsMove(w, {i}) /\ RowsOK' /\ StoreOK' /\ StoreGrows
    BY <1>1, <1>2, <1>3, <1>4, FanOutMoves
  <1> QED BY <1>1, <1>5, NextParentKeeps

LEMMA SoftDeleteKeeps ==
  ASSUME IInv, NEW w \in Workers, NEW route \in Deletions, NEW ids \in SUBSET DOMAIN row,
         SoftDelete(w, route, ids)
  PROVE  IInv'
PROOF
  <1> DEFINE was == [i \in ids |-> row[i].status]
             l == IF HasFiles(ids) THEN "erase" ELSE "finalise"
             j == [Idle EXCEPT !.op = route, !.ids = ids, !.was = was]
  <1>1. /\ pc' = [pc EXCEPT ![w] = l] /\ job' = [job EXCEPT ![w] = j]
        /\ row' = [i \in DOMAIN row |->
                     IF i \in ids THEN [row[i] EXCEPT !.status = "delete_pending"] ELSE row[i]]
        /\ UNCHANGED <<locks, queue, slots, listing, store, orphans, faults>>
        /\ pc[w] = "idle" /\ w \in Actors /\ Free(w, ids)
        /\ \A i \in ids : Deletable(i, route)
    BY DEF SoftDelete, Deletion, At, GoTo, Learn, Pool, Upstream, Actors
  <1>2. /\ j.op = route /\ j.row = 0 /\ j.slot = FALSE /\ j.was = was /\ j.ids = ids /\ DOMAIN was = ids
        /\ l \in {"erase", "restore", "finalise"} /\ (l # "erase" => \A i \in ids : ~row[i].file)
    BY DEF Idle, HasFiles
  <1>3. ASSUME NEW i \in ids
        PROVE  /\ was[i] \in Statuses \ {"deleted"}
               /\ row[i].file \/ (row[i].kind = "link" /\ was[i] \in DeletedLinks)
    <2>1. row[i] \in RowType
      BY RowTyped
    <2> QED BY <1>1, <2>1 DEF RowType, Deletable
  <1>4. ids \in SUBSET Nat
    BY RowTyped
  <1> HIDE DEF was
  <1>5. JobTyped(j)
    BY <1>2, <1>4, IdleTyped DEF JobTyped, Idle, Ops, Deletions
  <1>6. job[w].op = "none"
    BY <1>1, IdleTyped DEF IInv, OnRoute
  <1> HIDE DEF j, l
  <1>7. ASSUME NEW i \in DOMAIN row
        PROVE  /\ row'[i] \in RowType /\ row'[i].kind = row[i].kind /\ row'[i].parent = row[i].parent
               /\ row'[i].file = row[i].file /\ row'[i].upload = row[i].upload /\ row'[i].settled = row[i].settled
               /\ i \notin ids => row'[i] = row[i]
    <2>1. row[i] \in RowType
      BY RowTyped
    <2>2. CASE i \in ids
      <3>1. row'[i] = [row[i] EXCEPT !.status = "delete_pending"]
        BY <1>1, <2>2
      <3> QED BY <2>1, <2>2, <3>1 DEF RowType, Statuses, Active
    <2>3. CASE i \notin ids
      BY <1>1, <2>1, <2>3
    <2> QED BY <2>2, <2>3
  <1>8. RowsOK' /\ DOMAIN row' = DOMAIN row
    <2>1. row' = [i \in DOMAIN row |-> row'[i]]
      BY <1>1
    <2> QED BY <1>1, <1>7, <2>1, RowsRewritten DEF IInv, RowsOK
  <1>9. RowsMove(w, ids)
    BY <1>1, <1>7, <1>8 DEF RowsMove, Free
  <1>10. KnowsDeleted(j, l, row', store')
    BY <1>2, <1>3, <1>7, <1>8 DEF KnowsDeleted
  <1>11. StoreOK' /\ StoreGrows
    BY <1>1, <1>8, StoreStays
  <1>12. j.op \in Deletions /\ job[w].op \in Deletions \union {"none"}
    BY <1>2, <1>6
  <1> QED BY <1>1, <1>2, <1>5, <1>8, <1>9, <1>10, <1>11, <1>12, DeletionGoesOn

LEMMA RestoreStatusKeeps ==
  ASSUME IInv, NEW w \in Actors, RestoreStatus(w)
  PROVE  IInv'
PROOF
  <1>1. PICK i \in DOMAIN job[w].was :
          /\ Free(w, {i})
          /\ SetStatus(i, job[w].was[i]) \/ UNCHANGED row
          /\ Restored(w, i)
    BY DEF RestoreStatus
  <1>2. pc[w] = "restore" /\ UNCHANGED <<queue, listing, store, orphans, faults>>
    BY DEF RestoreStatus, At, Upstream
  <1>3. i \in DOMAIN row /\ job[w].was[i] \in Statuses
    BY <1>1, <1>2, InDeletion DEF KnowsDeleted
  <1>4. CASE SetStatus(i, job[w].was[i])
    <2>1. /\ RowsMove(w, {i}) /\ RowsOK' /\ DOMAIN row' = DOMAIN row
          /\ row'[i] = [row[i] EXCEPT !.status = job[w].was[i]]
          /\ \A k \in DOMAIN row \ {i} : row'[k] = row[k]
      BY <1>1, <1>2, <1>3, <1>4, StatusChange
    <2>2. row'[i].file = row[i].file
      BY <1>3, <2>1, RowTyped DEF RowType
    <2>3. StoreOK' /\ StoreGrows
      BY <1>2, <2>1, StoreStays
    <2> QED BY <1>1, <1>2, <2>1, <2>2, <2>3, RestoredKeeps
  <1>5. CASE UNCHANGED row
    <2>1. Quiet
      BY <1>2, <1>5 DEF Quiet, IInv, StoreOK
    <2> QED BY <1>1, <1>2, <1>5, <2>1, QuietRows, RestoredKeeps
  <1> QED BY <1>1, <1>4, <1>5

LEMMA FinaliseDeleteKeeps ==
  ASSUME IInv, NEW w \in Actors, FinaliseDelete(w)
  PROVE  IInv'
PROOF
  <1> DEFINE ids == job[w].ids
  <1>1. /\ pc[w] = "finalise" /\ Free(w, ids) /\ End(w)
        /\ row' = [i \in DOMAIN row |->
                     IF i \in ids /\ row[i].status = "delete_pending"
                     THEN [row[i] EXCEPT !.status = "deleted"] ELSE row[i]]
        /\ UNCHANGED <<queue, listing, store, orphans, faults>>
    BY DEF FinaliseDelete, At, Upstream
  <1>2. ids \subseteq DOMAIN row
    BY <1>1, InDeletion DEF KnowsDeleted
  <1> HIDE DEF ids
  <1>3. ASSUME NEW i \in DOMAIN row
        PROVE  /\ row'[i] \in RowType /\ row'[i].kind = row[i].kind /\ row'[i].parent = row[i].parent
               /\ row'[i].file = row[i].file /\ row'[i].upload = row[i].upload /\ row'[i].settled = row[i].settled
               /\ i \notin ids => row'[i] = row[i]
    <2>1. row[i] \in RowType
      BY RowTyped
    <2>2. CASE i \in ids /\ row[i].status = "delete_pending"
      <3>1. row'[i] = [row[i] EXCEPT !.status = "deleted"]
        BY <1>1, <2>2
      <3> QED BY <2>1, <2>2, <3>1 DEF RowType, Statuses, Active
    <2>3. CASE ~(i \in ids /\ row[i].status = "delete_pending")
      BY <1>1, <2>1, <2>3
    <2> QED BY <2>2, <2>3
  <1>4. RowsOK' /\ DOMAIN row' = DOMAIN row
    <2>1. row' = [i \in DOMAIN row |-> row'[i]]
      BY <1>1
    <2> QED BY <1>1, <1>3, <2>1, RowsRewritten DEF IInv, RowsOK
  <1>5. RowsMove(w, ids)
    BY <1>1, <1>2, <1>3, <1>4 DEF RowsMove, Free
  <1>6. StoreOK' /\ StoreGrows
    BY <1>1, <1>4, StoreStays
  <1> QED BY <1>1, <1>4, <1>5, <1>6, EndKeeps

LEMMA InsertKeeps ==
  ASSUME IInv, NEW a \in Actors, Insert(a)
  PROVE  IInv'
PROOF
  <1> DEFINE n == Len(row) + 1
             r == Row(job[a].op, IF job[a].op = "upload" THEN "reserved" ELSE "transfer_pending", job[a].size)
             l == CASE job[a].op = "upload" -> "attach" [] job[a].slot -> "enqueue" [] OTHER -> "submit"
             j == [job[a] EXCEPT !.row = n, !.size = 0]
  <1>1. /\ pc[a] = "insert" /\ row' = Append(row, r) /\ pc' = [pc EXCEPT ![a] = l]
        /\ job' = [job EXCEPT ![a] = j] /\ locks' = [locks EXCEPT ![a] = {}]
        /\ UNCHANGED <<queue, slots, listing, store, orphans, faults>>
    BY DEF Insert, At, GoTo, Learn, Unlock, Pool, Upstream
  <1>2. JobTyped(job[a]) /\ job[a].op \in {"upload", "link"} /\ job[a].slot \in BOOLEAN /\ job[a].size \in Nat
    BY <1>1 DEF IInv, OnRoute, JobTyped
  <1>3. DOMAIN row = 1..Len(row) /\ Len(row) \in Nat /\ row \in Seq(RowType)
    BY LenProperties DEF IInv, RowsOK
  <1>4. /\ r \in RowType /\ r.kind = job[a].op /\ ~r.file /\ ~r.upload /\ ~r.settled /\ r.parent = 0
    BY <1>2 DEF Row, RowType, Kinds, Statuses, Active
  <1>5. JobTyped(j) /\ j.op = job[a].op /\ j.row = n /\ j.slot = job[a].slot
    <2>1. n \in Nat
      BY <1>3
    <2>2. job[a].op \notin Deletions \union {"none"}
      BY <1>2 DEF Deletions
    <2> HIDE DEF n
    <2>3. j.op = job[a].op /\ j.row = n /\ j.slot = job[a].slot /\ j.todo = job[a].todo
      BY <1>2 DEF JobTyped
    <2>4. JobTyped(j)
      BY <1>2, <2>1, <2>2 DEF JobTyped
    <2> QED BY <2>3, <2>4
  <1>6. /\ job[a].op = "upload" => l = "attach" /\ ~job[a].slot
        /\ job[a].op = "link" /\ job[a].slot => l = "enqueue"
        /\ job[a].op = "link" /\ ~job[a].slot => l = "submit"
    BY <1>2 DEF JobTyped
  <1>7. l \in Labels /\ {} \in SUBSET Nat /\ l \in {"attach", "enqueue", "submit"}
    BY DEF Labels
  <1> HIDE DEF r, l, j
  <1>8. /\ row' \in Seq(RowType) /\ DOMAIN row' = 1..n /\ row'[n] = r
        /\ \A k \in DOMAIN row : row'[k] = row[k]
    <2>1. /\ Append(row, r) \in Seq(RowType) /\ Len(Append(row, r)) = Len(row) + 1
          /\ \A k \in 1..Len(row) : Append(row, r)[k] = row[k]
          /\ Append(row, r)[Len(row) + 1] = r
      BY <1>3, <1>4, AppendProperties
    <2>2. DOMAIN Append(row, r) = 1..Len(Append(row, r))
      BY <2>1, LenProperties
    <2> QED BY <1>1, <1>3, <2>1, <2>2
  <1>9. n \notin DOMAIN row /\ DOMAIN row' = DOMAIN row \union {n} /\ n \in Nat
    BY <1>3, <1>8
  <1> HIDE DEF n
  <1>10. RowsOK'
    <2>1. ASSUME NEW k \in DOMAIN row'
          PROVE  /\ row'[k].parent \in 0..(k - 1)
                 /\ row'[k].kind = "link" => ~row'[k].file
                 /\ row'[k].settled => k \in DOMAIN listing
      <3>1. CASE k \in DOMAIN row
        BY <1>8, <3>1 DEF IInv, RowsOK
      <3>2. CASE k = n
        <4>1. 0 \in 0..(n - 1)
          BY <1>3 DEF n
        <4> QED BY <1>4, <1>8, <3>2, <4>1
      <3> QED BY <1>9, <3>1, <3>2
    <2> QED BY <1>1, <1>8, <1>9, <2>1 DEF IInv, RowsOK
  <1>11. RowsMove(a, {})
    BY <1>8, <1>9 DEF RowsMove
  <1>12. StoreOK' /\ StoreGrows
    BY <1>1, <1>9, StoreStays
  <1>13. OnlyActor(a) /\ pc'[a] = l /\ job'[a] = j /\ locks'[a] = {}
    <2>1. Moves(a, l, j, {})
      BY <1>1 DEF Moves
    <2> QED BY <1>7, <2>1, OneMoves
  <1>14. Arrives(a)
    <2>1. OnRoute(a)'
      BY <1>2, <1>5, <1>6, <1>13 DEF OnRoute, Deletions
    <2>2. n \in DOMAIN row' /\ row'[n].kind = j.op /\ ~row'[n].file /\ ~row'[n].upload
      BY <1>4, <1>5, <1>8, <1>9
    <2>3. KnowsRows(a)'
      BY <1>2, <1>5, <1>13, <2>2 DEF KnowsRows, Deletions
    <2> QED BY <1>5, <1>13, <2>1, <2>3 DEF Arrives
  <1>15. LockStep(a)
    BY <1>13 DEF LockStep
  <1>16. SlotStep(a)
    BY <1>1, <1>5, <1>13, SlotsStay
  <1>17. OwnStep(a)
    <2>1. /\ queue \in Seq(Nat)
          /\ \A k \in 1..Len(queue) : queue[k] \in DOMAIN row /\ row[queue[k]].kind = "link" /\ ~row[queue[k]].upload
          /\ \A k, m \in 1..Len(queue) : queue[k] = queue[m] => k = m
          /\ \A b \in Actors : Owner(b) => \A k \in 1..Len(queue) : queue[k] # job[b].row
      BY DEF IInv, OwnedOnce
    <2>2. \A b \in Actors : Owner(b) => job[b].row \in DOMAIN row
      BY DEF IInv, KnowsRows
    <2>3. \A k \in 1..Len(queue) : /\ queue[k] \in DOMAIN row' /\ row'[queue[k]].kind = "link"
                                   /\ ~row'[queue[k]].upload /\ queue[k] # n
      BY <1>8, <1>9, <2>1
    <2> QED BY <1>1, <1>5, <1>9, <1>13, <2>1, <2>2, <2>3 DEF OwnStep
  <1> QED BY <1>10, <1>11, <1>12, <1>13, <1>14, <1>15, <1>16, <1>17, StepKeeps

LEMMA EnqueueKeeps ==
  ASSUME IInv, NEW a \in Actors, Enqueue(a)
  PROVE  IInv'
PROOF
  <1> DEFINE i == job[a].row
  <1>1. /\ pc[a] = "enqueue" /\ queue' = Append(queue, i) /\ pc' = [pc EXCEPT ![a] = "idle"]
        /\ job' = [job EXCEPT ![a] = Idle]
        /\ UNCHANGED <<row, locks, slots, listing, store, orphans, faults>>
    BY DEF Enqueue, At, GoTo, Learn, Upstream
  <1>2. /\ Owner(a) /\ job[a].slot = TRUE /\ i \in DOMAIN row /\ row[i].kind = "link" /\ ~row[i].upload /\ i \in Nat
    <2>1. Owner(a) /\ job[a].op = "link" /\ job[a].slot = TRUE
      BY <1>1 DEF IInv, OnRoute, Owner, JobTyped
    <2>2. i \in DOMAIN row /\ row[i].kind = "link" /\ ~row[i].upload
      BY <2>1 DEF IInv, KnowsRows
    <2> QED BY <2>1, <2>2, RowTyped
  <1>3. Quiet
    BY <1>1 DEF Quiet, IInv, StoreOK
  <1>4. "idle" \in Labels /\ locks[a] \in SUBSET Nat
    BY DEF Labels, IInv, LocksOK
  <1>5. OnlyActor(a) /\ pc'[a] = "idle" /\ job'[a] = Idle /\ locks'[a] = locks[a]
    <2>1. Moves(a, "idle", Idle, locks[a])
      BY <1>1 DEF Moves
    <2> QED BY <1>4, <2>1, OneMoves
  <1>6. Arrives(a)
    BY <1>5, IdleTyped DEF Arrives, OnRoute, KnowsRows, Owner, Deletions
  <1>7. LockStep(a)
    BY <1>1, <1>5, LocksKept
  <1>8. ~Owner(a)'
    BY <1>5, IdleTyped DEF Owner
  <1>9. /\ queue \in Seq(Nat)
        /\ \A k \in 1..Len(queue) : queue[k] \in DOMAIN row /\ row[queue[k]].kind = "link" /\ ~row[queue[k]].upload
        /\ \A k, m \in 1..Len(queue) : queue[k] = queue[m] => k = m
        /\ \A b \in Actors : Owner(b) => \A k \in 1..Len(queue) : queue[k] # job[b].row
        /\ \A b \in Actors \ {a} : Owner(b) => job[b].row # i
    BY <1>2 DEF IInv, OwnedOnce
  <1>10. /\ queue' \in Seq(Nat) /\ Len(queue') = Len(queue) + 1 /\ Len(queue) \in Nat
         /\ \A k \in 1..Len(queue) : queue'[k] = queue[k]
         /\ queue'[Len(queue) + 1] = i
    BY <1>1, <1>2, <1>9, AppendProperties, LenProperties
  <1>11. \A k \in 1..Len(queue') : k \in 1..Len(queue) \/ (k = Len(queue) + 1 /\ queue'[k] = i)
    BY <1>10
  <1>12. OwnStep(a)
    <2>1. ASSUME NEW k \in 1..Len(queue')
          PROVE  /\ queue'[k] \in DOMAIN row' /\ row'[queue'[k]].kind = "link" /\ ~row'[queue'[k]].upload
                 /\ \A b \in Actors \ {a} : Owner(b) => queue'[k] # job[b].row
      BY <1>1, <1>2, <1>9, <1>10, <1>11
    <2>2. ASSUME NEW k \in 1..Len(queue'), NEW m \in 1..Len(queue'), queue'[k] = queue'[m]
          PROVE  k = m
      <3>1. \A p \in 1..Len(queue) : queue'[p] # i
        BY <1>2, <1>10 DEF IInv, OwnedOnce
      <3> QED BY <1>9, <1>10, <1>11, <2>2, <3>1
    <2> QED BY <1>8, <1>10, <2>1, <2>2 DEF OwnStep
  <1>13. SlotStep(a)
    <2>1. Permit(job[a]) = 1 /\ Permit(job'[a]) = 0
      BY <1>2, <1>5, IdleTyped DEF Permit
    <2>2. slots' = slots /\ slots \in 0..Capacity /\ slots \in Nat
      BY <1>1, CapacityIsNat DEF IInv, SlotsOK
    <2> QED BY <1>10, <2>1, <2>2 DEF SlotStep
  <1>14. RowsMove(a, {}) /\ RowsOK' /\ StoreOK' /\ StoreGrows
    BY <1>3, QuietRows
  <1> QED BY <1>5, <1>6, <1>7, <1>12, <1>13, <1>14, StepKeeps

LEMMA SubmissionKeeps ==
  ASSUME IInv, NEW t \in Threads, RunSubmission(t)
  PROVE  IInv'
PROOF
  <1> DEFINE i == Head(queue)
             j == [Idle EXCEPT !.op = "link", !.row = i, !.slot = TRUE]
  <1>1. /\ pc[t] = "idle" /\ queue # <<>> /\ queue' = Tail(queue) /\ pc' = [pc EXCEPT ![t] = "submit"]
        /\ job' = [job EXCEPT ![t] = j] /\ t \in Actors
        /\ UNCHANGED <<row, locks, slots, listing, store, orphans, faults>>
    BY DEF RunSubmission, At, GoTo, Learn, Upstream, Actors
  <1>2. /\ queue \in Seq(Nat)
        /\ \A k \in 1..Len(queue) : queue[k] \in DOMAIN row /\ row[queue[k]].kind = "link" /\ ~row[queue[k]].upload
        /\ \A k, m \in 1..Len(queue) : queue[k] = queue[m] => k = m
        /\ \A b \in Actors : Owner(b) => \A k \in 1..Len(queue) : queue[k] # job[b].row
    BY DEF IInv, OwnedOnce
  <1>3. /\ Len(queue) \in Nat /\ Len(queue) >= 1 /\ i = queue[1] /\ 1 \in 1..Len(queue)
        /\ queue' \in Seq(Nat) /\ Len(queue') = Len(queue) - 1
        /\ \A k \in 1..Len(queue') : queue'[k] = queue[k + 1] /\ k + 1 \in 1..Len(queue) /\ k # 0 /\ k \in Nat
    <2>1. /\ Head(queue) \in Nat /\ Tail(queue) \in Seq(Nat)
          /\ \A k \in 1..Len(Tail(queue)) : Tail(queue)[k] = queue[k + 1]
          /\ Len(queue) \in Nat
      BY <1>1, <1>2, HeadTailProperties, LenProperties
    <2>2. Len(Tail(queue)) = Len(queue) - 1 /\ Len(queue) >= 1
      BY <1>1, <1>2, <2>1, HeadTailProperties, EmptySeq
    <2>3. Head(queue) = queue[1]
      BY <1>1, <1>2
    <2> QED BY <1>1, <2>1, <2>2, <2>3
  <1>4. i \in DOMAIN row /\ row[i].kind = "link" /\ ~row[i].upload /\ ~row[i].file /\ i \in Nat
    <2>1. i \in DOMAIN row /\ row[i].kind = "link" /\ ~row[i].upload
      BY <1>2, <1>3
    <2> QED BY <2>1, RowTyped DEF IInv, RowsOK
  <1> HIDE DEF i
  <1>5. j.op = "link" /\ j.row = i /\ j.slot = TRUE /\ JobTyped(j)
    BY <1>4, IdleTyped DEF JobTyped, Idle, Ops, Deletions
  <1> HIDE DEF j
  <1>6. job[t] = Idle /\ job[t].slot = FALSE
    BY <1>1 DEF IInv, OnRoute, Idle
  <1>7. Quiet /\ "submit" \in Labels /\ locks[t] \in SUBSET Nat
    BY <1>1 DEF Quiet, Labels, IInv, StoreOK, LocksOK
  <1>8. OnlyActor(t) /\ pc'[t] = "submit" /\ job'[t] = j /\ locks'[t] = locks[t]
    <2>1. Moves(t, "submit", j, locks[t])
      BY <1>1 DEF Moves
    <2> QED BY <1>1, <1>7, <2>1, OneMoves
  <1>9. Arrives(t)
    <2>1. OnRoute(t)'
      BY <1>5, <1>8 DEF OnRoute, Deletions
    <2>2. KnowsRows(t)'
      BY <1>1, <1>4, <1>5, <1>8 DEF KnowsRows, Deletions
    <2> QED BY <1>5, <1>8, <2>1, <2>2 DEF Arrives
  <1>10. LockStep(t)
    BY <1>1, <1>8, LocksKept
  <1>11. SlotStep(t)
    <2>1. Permit(job[t]) = 0 /\ Permit(job'[t]) = 1
      BY <1>5, <1>6, <1>8 DEF Permit
    <2>2. slots' = slots /\ slots \in 0..Capacity /\ slots \in Nat
      BY <1>1, CapacityIsNat DEF IInv, SlotsOK
    <2> QED BY <1>3, <2>1, <2>2 DEF SlotStep
  <1>12. OwnStep(t)
    <2>1. ASSUME NEW k \in 1..Len(queue')
          PROVE  /\ queue'[k] \in DOMAIN row' /\ row'[queue'[k]].kind = "link" /\ ~row'[queue'[k]].upload
                 /\ queue'[k] # i
                 /\ \A b \in Actors : Owner(b) => queue'[k] # job[b].row
      <3>1. queue'[k] = queue[k + 1] /\ k + 1 \in 1..Len(queue) /\ k + 1 # 1
        BY <1>3
      <3> QED BY <1>1, <1>2, <1>3, <3>1
    <2>2. ASSUME NEW k \in 1..Len(queue'), NEW m \in 1..Len(queue'), queue'[k] = queue'[m]
          PROVE  k = m
      <3>1. queue[k + 1] = queue[m + 1] /\ k + 1 \in 1..Len(queue) /\ m + 1 \in 1..Len(queue)
        BY <1>3, <2>2
      <3>2. k + 1 = m + 1
        BY <1>2, <3>1
      <3>3. k \in Nat /\ m \in Nat
        BY <1>3
      <3> QED BY <3>2, <3>3
    <2>3. \A b \in Actors : Owner(b) => job[b].row # i
      BY <1>2, <1>3
    <2> QED BY <1>3, <1>5, <1>8, <2>1, <2>2, <2>3 DEF OwnStep
  <1>13. RowsMove(t, {}) /\ RowsOK' /\ StoreOK' /\ StoreGrows
    BY <1>7, QuietRows
  <1> QED BY <1>1, <1>8, <1>9, <1>10, <1>11, <1>12, <1>13, StepKeeps

LEMMA LinkEndsKeeps ==
  ASSUME IInv, NEW i \in DOMAIN row, LinkEnds(i)
  PROVE  IInv'
PROOF
  <1>1. PICK f \in Listings : listing' = [k \in DOMAIN listing \union {i} |-> IF k = i THEN f ELSE listing[k]]
    BY DEF LinkEnds
  <1>2. i \notin DOMAIN listing /\ UNCHANGED <<row, locks, pc, job, queue, slots, store, orphans, faults>>
    BY DEF LinkEnds, Pool
  <1>3. /\ DOMAIN listing' = DOMAIN listing \union {i} /\ listing'[i] = f
        /\ \A k \in DOMAIN listing : listing'[k] = listing[k]
    BY <1>1, <1>2
  <1>4. RowsOK' /\ StoreOK'
    BY <1>2, <1>3 DEF IInv, RowsOK, StoreOK
  <1>5. ASSUME NEW a \in Actors PROVE JobTyped(job'[a]) /\ OnRoute(a)' /\ KnowsRows(a)'
    <2>1. JobTyped(job'[a]) /\ OnRoute(a)'
      BY <1>2 DEF IInv, OnRoute
    <2>2. Owner(a)' <=> Owner(a)
      BY <1>2 DEF Owner
    <2>3. KnowsRows(a)'
      BY <1>2, <1>3, <2>2 DEF IInv, KnowsRows
    <2> QED BY <2>1, <2>3
  <1>6. LocksOK' /\ SlotsOK'
    BY <1>2 DEF IInv, LocksOK, SlotsOK, SlotHolders
  <1>7. OwnedOnce'
    <2>1. \A a \in Actors : Owner(a)' <=> Owner(a)
      BY <1>2 DEF Owner
    <2> QED BY <1>2, <2>1 DEF IInv, OwnedOnce
  <1> QED BY <1>2, <1>4, <1>5, <1>6, <1>7 DEF IInv

\* Nothing is under way.
LEMMA AllIdle ==
  ASSUME RowsOK', StoreOK', (locks = [a \in Actors |-> {}])', (pc = [a \in Actors |-> "idle"])',
         (job = [a \in Actors |-> Idle])', (queue = <<>>)', (slots = 0)'
  PROVE  IInv'
PROOF
  <1>1. \A a \in Actors : pc'[a] = "idle" /\ job'[a] = Idle /\ locks'[a] = {}
    OBVIOUS
  <1>2. pc' \in [Actors -> Labels] /\ DOMAIN job' = Actors
    BY DEF Labels
  <1>3. ASSUME NEW a \in Actors PROVE JobTyped(job'[a]) /\ OnRoute(a)' /\ KnowsRows(a)' /\ ~Owner(a)'
    BY <1>1, IdleTyped DEF OnRoute, KnowsRows, Owner, Deletions
  <1>4. LocksOK'
    BY <1>1 DEF LocksOK
  <1>5. queue' \in Seq(Nat) /\ Len(queue') = 0
    BY EmptySeq
  <1>6. OwnedOnce'
    <2>1. \A k \in 1..Len(queue') : FALSE
      BY <1>5
    <2> QED BY <1>3, <1>5, <2>1 DEF OwnedOnce
  <1>7. SlotsOK'
    <2>1. SlotHolders' = {}
      BY <1>1, IdleTyped DEF SlotHolders
    <2>2. IsFiniteSet(SlotHolders)' /\ Cardinality(SlotHolders)' = 0
      BY <2>1, FS_EmptySet
    <2> QED BY <1>5, <2>2, CapacityIsNat DEF SlotsOK
  <1> QED BY <1>2, <1>3, <1>4, <1>6, <1>7 DEF IInv

LEMMA CrashKeeps ==
  ASSUME IInv, Crash
  PROVE  IInv'
PROOF
  <1>1. UNCHANGED <<row, listing, store>> /\ Fault /\ orphans' \subseteq DOMAIN row
    BY DEF Crash, Upstream, IInv, StoreOK
  <1>2. Quiet
    BY <1>1, FailureIsQuiet
  <1>3. RowsOK' /\ StoreOK'
    BY <1>2, QuietRows
  <1> QED BY <1>3, AllIdle DEF Crash

-----------------------------------------------------------------------------
(* The invariant, and what follows from it. *)

LEMMA ArriveKeeps ==
  ASSUME IInv, NEW w \in Workers, Arrive(w)
  PROVE  IInv'
PROOF
  <1>1. ASSUME NEW op \in {"upload", "link"}, NEW size \in Sizes, EnsureQuota(w, op, size) PROVE IInv'
    BY <1>1, EnsureQuotaKeeps
  <1>2. ASSUME NEW i \in DOMAIN row, NEW size \in Reports, Callback(w, "callback", i, size) PROVE IInv'
    <2>1. size \in Nat
      BY NumbersAssumption
    <2> QED BY <1>2, <2>1, CallbackKeeps
  <1>3. ASSUME NEW i \in DOMAIN row, Callback(w, "report", i, 0) PROVE IInv'
    BY <1>3, CallbackKeeps
  <1>4. ASSUME NEW route \in {"file", "files", "transfers"}, NEW ids \in SUBSET DOMAIN row,
               SoftDelete(w, route, ids) \/ SoftDeleteFails(w, route, ids)
        PROVE  IInv'
    <2>1. route \in Deletions
      BY DEF Deletions
    <2> QED BY <1>4, <2>1, SoftDeleteKeeps, SoftDeleteFailsKeeps
  <1> QED BY <1>1, <1>2, <1>3, <1>4, ReserveSlotKeeps, RefreshKeeps DEF Arrive

LEMMA ProceedKeeps ==
  ASSUME IInv, NEW a \in Actors, Proceed(a)
  PROVE  IInv'
BY InsertKeeps, AttachUploadKeeps, MarkFailedKeeps, EnqueueKeeps, AttachLinkKeeps, EnsureGrowthKeeps,
   GrowLinkKeeps, CompleteUploadKeeps, GrowUploadKeeps, SettleKeeps, SettleGrownKeeps, EraseKeeps,
   RestoreStatusKeeps, FinaliseDeleteKeeps
   DEF Proceed

LEMMA FailsKeeps ==
  ASSUME IInv, NEW a \in Actors, Fails(a)
  PROVE  IInv'
BY InsertFailsKeeps, MarkFailedFailsKeeps, EnqueueFailsKeeps, RequestFailsKeeps, PollFailsKeeps,
   EraseFailsKeeps, RestoreFailsKeeps, FinaliseFailsKeeps
   DEF Fails

LEMMA InitHolds == ASSUME Init PROVE IInv
PROOF
  <1>1. row = <<>> /\ listing = <<>> /\ row \in Seq(RowType) /\ DOMAIN row = {} /\ DOMAIN listing = {}
    <2>1. <<>> \in Seq(RowType) /\ DOMAIN <<>> = {}
      OBVIOUS
    <2> QED BY <2>1 DEF Init
  <1>2. RowsOK
    BY <1>1 DEF RowsOK
  <1>3. StoreOK
    BY NumbersAssumption DEF Init, StoreOK
  <1>4. /\ locks = [a \in Actors |-> {}] /\ pc = [a \in Actors |-> "idle"] /\ job = [a \in Actors |-> Idle]
        /\ queue = <<>> /\ slots = 0
    BY DEF Init
  <1>5. \A a \in Actors : pc[a] = "idle" /\ job[a] = Idle /\ locks[a] = {}
    BY <1>4
  <1>6. pc \in [Actors -> Labels] /\ DOMAIN job = Actors
    BY <1>4 DEF Labels
  <1>7. ASSUME NEW a \in Actors PROVE JobTyped(job[a]) /\ OnRoute(a) /\ KnowsRows(a) /\ ~Owner(a)
    BY <1>5, IdleTyped DEF OnRoute, KnowsRows, Owner, Deletions
  <1>8. LocksOK
    BY <1>4, <1>5 DEF LocksOK
  <1>9. queue \in Seq(Nat) /\ Len(queue) = 0
    BY <1>4, EmptySeq
  <1>10. OwnedOnce
    <2>1. \A k \in 1..Len(queue) : FALSE
      BY <1>9
    <2> QED BY <1>7, <1>9, <2>1 DEF OwnedOnce
  <1>11. SlotsOK
    <2>1. SlotHolders = {}
      BY <1>5, IdleTyped DEF SlotHolders
    <2>2. IsFiniteSet(SlotHolders) /\ Cardinality(SlotHolders) = 0
      BY <2>1, FS_EmptySet
    <2> QED BY <1>4, <1>9, <2>2, CapacityIsNat DEF SlotsOK
  <1> QED BY <1>2, <1>3, <1>6, <1>7, <1>8, <1>10, <1>11 DEF IInv

LEMMA NextKeeps == ASSUME IInv, [Next]_vars PROVE IInv'
PROOF
  <1>1. CASE UNCHANGED vars
    <2>1. UNCHANGED <<row, locks, pc, job, queue, slots, listing, store, orphans, faults>>
      BY <1>1 DEF vars
    <2>2. RowsOK' /\ StoreOK' /\ LocksOK' /\ SlotsOK'
      BY <2>1 DEF IInv, RowsOK, StoreOK, LocksOK, SlotsOK, SlotHolders
    <2>3. \A a \in Actors : (Owner(a)' <=> Owner(a)) /\ OnRoute(a)' /\ JobTyped(job'[a])
      BY <2>1 DEF IInv, Owner, OnRoute
    <2>4. \A a \in Actors : KnowsRows(a)'
      BY <2>1, <2>3 DEF IInv, KnowsRows
    <2>5. OwnedOnce'
      BY <2>1, <2>3 DEF IInv, OwnedOnce
    <2> QED BY <2>1, <2>2, <2>3, <2>4, <2>5 DEF IInv
  <1>2. CASE Next
    <2>1. ASSUME NEW t \in Threads, RunSubmission(t) PROVE IInv'
      BY <2>1, SubmissionKeeps
    <2>2. ASSUME NEW i \in DOMAIN row, LinkEnds(i) PROVE IInv'
      BY <2>2, LinkEndsKeeps
    <2>3. ASSUME NEW a \in Actors, Proceed(a) \/ Fails(a) PROVE IInv'
      BY <2>3, ProceedKeeps, FailsKeeps
    <2>4. ASSUME NEW w \in Workers, Arrive(w) PROVE IInv'
      BY <2>4, ArriveKeeps
    <2> QED BY <1>2, <2>1, <2>2, <2>3, <2>4, CrashKeeps DEF Next
  <1> QED BY <1>1, <1>2

\* The invariant of the drive.
THEOREM DriveIsSound == Spec => []IInv
PROOF
  <1>1. Init => IInv
    BY InitHolds
  <1>2. IInv /\ [Next]_vars => IInv'
    BY NextKeeps
  <1> QED BY <1>1, <1>2, PTL DEF Spec

\* Every variable holds what its comment says, a row has one holder of its lock, and
\* every permit in use belongs to a queued transfer, a thread or a request (the pool of
\* service.py), whatever fails.
THEOREM PermitsAreHeld == Spec => [](TypeOK /\ SlotsHeld)
PROOF
  <1>1. ASSUME IInv PROVE TypeOK
    <2>1. ASSUME NEW i \in DOMAIN row
          PROVE  /\ row[i].kind \in {"upload", "link", "child"} /\ row[i].status \in Statuses
                 /\ row[i].size \in Nat /\ row[i].parent \in 0..(i - 1)
                 /\ {row[i].file, row[i].upload, row[i].settled} \subseteq BOOLEAN
      <3>1. row[i] \in RowType
        BY <1>1, RowTyped
      <3>2. row[i].parent \in 0..(i - 1)
        BY <1>1 DEF IInv, RowsOK
      <3> QED BY <3>1, <3>2 DEF RowType, Kinds
    <2>2. \A k \in DOMAIN queue : queue[k] \in DOMAIN row
      <3>1. DOMAIN queue = 1..Len(queue)
        BY <1>1, LenProperties DEF IInv, OwnedOnce
      <3> QED BY <1>1, <3>1 DEF IInv, OwnedOnce
    <2> QED BY <1>1, <2>1, <2>2 DEF TypeOK, IInv, LocksOK, SlotsOK, StoreOK
  <1>2. IInv => TypeOK /\ SlotsHeld
    BY <1>1 DEF IInv, SlotsOK, SlotsHeld, SlotHolders
  <1> QED BY <1>2, DriveIsSound, PTL

-----------------------------------------------------------------------------
(* What a step may do to a row. *)

Binds(r, s) ==
  /\ ~r.file /\ ~r.upload
  /\ s.kind = r.kind /\ s.status = r.status /\ s.parent = r.parent /\ s.settled = r.settled
Gives(r, s, status) == s = [r EXCEPT !.status = status]
SizeGiven(r, s, status, size) == s = [r EXCEPT !.status = status, !.size = size]
Splits(r, s) ==
  /\ r.kind = "link" /\ r.upload /\ ~r.settled
  /\ s = [r EXCEPT !.settled = TRUE, !.size = 0, !.status = "transfer_completed"]

\* Row r becomes s, where upstream has answered for the erasure of what is in done.
RowStep(i, r, s, done) ==
  \/ s = r
  \/ Binds(r, s)
  \/ Gives(r, s, "failed") /\ ((~r.file /\ ~r.upload) \/ r.status = "reserved")
  \/ r.status = "reserved" /\ \E size \in Nat : SizeGiven(r, s, "completed", size)
  \/ Splits(r, s)
  \/ /\ r.status # "deleted" /\ Gives(r, s, "delete_pending")
     /\ r.file \/ (r.kind = "link" /\ r.status \in DeletedLinks)
  \/ /\ r.status \in {"delete_pending", "deleted"}
     /\ \E was \in Statuses \ {"deleted"} :
          Gives(r, s, was) /\ (r.file \/ (r.kind = "link" /\ was \in DeletedLinks))
  \/ r.status = "delete_pending" /\ Gives(r, s, "deleted") /\ (r.kind = "link" \/ i \in done)

Answered == store.erased \union store.refused

\* No link is split; a new row is a reservation.
NoSplit ==
  /\ \A i \in DOMAIN row : row'[i].settled = row[i].settled /\ row'[i].parent = row[i].parent
  /\ \A i \in DOMAIN row' \ DOMAIN row :
       row'[i].parent = 0 /\ ~row'[i].settled /\ row'[i].status \in {"reserved", "transfer_pending"}

\* Link i is split into its files.
SplitOf(i) ==
  i \in DOMAIN row /\ i \in DOMAIN listing /\ row[i].kind = "link" /\ row[i].upload /\ ~row[i].settled /\ FanOut(i)

Shape ==
  /\ \A i \in DOMAIN row : i \in DOMAIN row' /\ RowStep(i, row[i], row'[i], Answered)
  /\ Answered \subseteq Answered'
  /\ \A i \in DOMAIN listing : i \in DOMAIN listing' /\ listing'[i] = listing[i]
  /\ NoSplit \/ \E i \in DOMAIN row : SplitOf(i) /\ UNCHANGED <<listing, store>>

LEMMA QuietShape ==
  ASSUME UNCHANGED <<row, listing>>, Answered \subseteq Answered'
  PROVE  Shape
BY DEF Shape, NoSplit, RowStep

LEMMA OneRowShape ==
  ASSUME NEW i \in DOMAIN row, NEW r, row' = [row EXCEPT ![i] = r], UNCHANGED <<listing, store>>,
         r.settled = row[i].settled, r.parent = row[i].parent, RowStep(i, row[i], r, Answered)
  PROVE  Shape
PROOF
  <1>1. /\ DOMAIN row' = DOMAIN row /\ row'[i] = r
        /\ \A k \in DOMAIN row \ {i} : row'[k] = row[k]
    OBVIOUS
  <1>2. \A k \in DOMAIN row : RowStep(k, row[k], row'[k], Answered)
    <2>1. ASSUME NEW k \in DOMAIN row, k # i PROVE RowStep(k, row[k], row'[k], Answered)
      BY <1>1, <2>1 DEF RowStep
    <2> QED BY <1>1, <2>1
  <1>3. NoSplit
    BY <1>1 DEF NoSplit
  <1>4. Answered' = Answered
    BY DEF Answered
  <1> QED BY <1>1, <1>2, <1>3, <1>4 DEF Shape

\* Only the status of one row changes.
LEMMA StatusShape ==
  ASSUME IInv, NEW i \in DOMAIN row, NEW s, SetStatus(i, s), UNCHANGED <<listing, store>>,
         Gives(row[i], [row[i] EXCEPT !.status = s], s) => RowStep(i, row[i], [row[i] EXCEPT !.status = s], Answered)
  PROVE  Shape
PROOF
  <1> DEFINE r == [row[i] EXCEPT !.status = s]
  <1>1. row' = [row EXCEPT ![i] = r]
    BY DEF SetStatus
  <1>2. row[i] \in RowType
    BY RowTyped
  <1>3. r.settled = row[i].settled /\ r.parent = row[i].parent
    BY <1>2 DEF RowType
  <1>4. RowStep(i, row[i], r, Answered)
    BY DEF Gives
  <1> HIDE DEF r
  <1> QED BY <1>1, <1>3, <1>4, OneRowShape

LEMMA SplitShape ==
  ASSUME IInv, NEW i, SplitOf(i), UNCHANGED <<listing, store>>
  PROVE  Shape
PROOF
  <1>1. i \in DOMAIN row /\ i \in DOMAIN listing /\ row[i].kind = "link" /\ row[i].upload /\ ~row[i].settled /\ FanOut(i)
    BY DEF SplitOf
  <1>2. PICK kept : Fanned(i, kept)
    BY <1>1, FanOutShape
  <1>3. /\ row'[i] = [row[i] EXCEPT !.settled = TRUE, !.size = 0, !.status = "transfer_completed"]
        /\ \A k \in DOMAIN row \ {i} : row'[k] = row[k]
    BY <1>2 DEF Fanned
  <1>4. DOMAIN row \subseteq DOMAIN row'
    BY <1>2 DEF Fanned
  <1>5. ASSUME NEW k \in DOMAIN row PROVE RowStep(k, row[k], row'[k], Answered)
    <2>1. CASE k = i
      <3>1. Splits(row[i], row'[i])
        BY <1>1, <1>3 DEF Splits
      <3> QED BY <2>1, <3>1 DEF RowStep
    <2>2. CASE k # i
      BY <1>3, <2>2 DEF RowStep
    <2> QED BY <2>1, <2>2
  <1> QED BY <1>1, <1>4, <1>5 DEF Shape, Answered

LEMMA ArriveShape ==
  ASSUME IInv, NEW w \in Workers, Arrive(w)
  PROVE  Shape
PROOF
  <1>1. CASE UNCHANGED <<row, listing, store>>
    BY <1>1, QuietShape DEF Answered
  <1>2. ASSUME NEW route, NEW ids \in SUBSET DOMAIN row, SoftDelete(w, route, ids) PROVE Shape
    <2>1. /\ row' = [i \in DOMAIN row |->
                       IF i \in ids THEN [row[i] EXCEPT !.status = "delete_pending"] ELSE row[i]]
          /\ UNCHANGED <<listing, store>>
          /\ \A i \in ids : /\ row[i].status # "deleted"
                            /\ row[i].file \/ (row[i].kind = "link" /\ row[i].status \in DeletedLinks)
      BY <1>2 DEF SoftDelete, Deletion, Deletable, Upstream
    <2>2. ASSUME NEW i \in DOMAIN row
          PROVE  /\ RowStep(i, row[i], row'[i], Answered)
                 /\ row'[i].settled = row[i].settled /\ row'[i].parent = row[i].parent
      <3>1. row[i] \in RowType
        BY RowTyped
      <3>2. CASE i \in ids
        <4>1. row'[i] = [row[i] EXCEPT !.status = "delete_pending"]
          BY <2>1, <3>2
        <4> QED BY <2>1, <3>1, <3>2, <4>1 DEF RowStep, Gives, RowType
      <3>3. CASE i \notin ids
        BY <2>1, <3>3 DEF RowStep
      <3> QED BY <3>2, <3>3
    <2>3. NoSplit
      BY <2>1, <2>2 DEF NoSplit
    <2> QED BY <2>1, <2>2, <2>3 DEF Shape, Answered
  <1>3. CASE \E op \in {"upload", "link"}, size \in Sizes : EnsureQuota(w, op, size)
    BY <1>1, <1>3 DEF EnsureQuota, Upstream
  <1>4. CASE ReserveSlot(w) \/ Refresh(w)
    BY <1>1, <1>4 DEF ReserveSlot, Refresh, Upstream
  <1>5. ASSUME NEW op, NEW i, NEW size, Callback(w, op, i, size) PROVE Shape
    BY <1>1, <1>5 DEF Callback, Upstream
  <1>6. ASSUME NEW route, NEW ids, SoftDeleteFails(w, route, ids) PROVE Shape
    BY <1>1, <1>6 DEF SoftDeleteFails, Upstream
  <1> QED BY <1>2, <1>3, <1>4, <1>5, <1>6 DEF Arrive

LEMMA FailsShape ==
  ASSUME IInv, NEW a \in Actors, Fails(a)
  PROVE  Shape
PROOF
  <1>1. UNCHANGED <<row, listing>>
    BY DEF Fails, InsertFails, MarkFailedFails, EnqueueFails, RequestFails, PollFails, EraseFails,
           RestoreFails, FinaliseFails, Upstream
  <1>2. CASE EraseFails(a)
    <2>1. \/ UNCHANGED store
          \/ store' = [store EXCEPT !.erased = @ \union {i \in job[a].ids : row[i].file},
                                    !.unanswered = @ \union {i \in job[a].ids : row[i].file}]
      BY <1>2 DEF EraseFails
    <2>2. Answered \subseteq Answered'
      BY <2>1 DEF Answered, IInv, StoreOK
    <2> QED BY <1>1, <2>2, QuietShape
  <1>3. CASE UNCHANGED store
    BY <1>1, <1>3, QuietShape DEF Answered
  <1> QED BY <1>2, <1>3 DEF Fails, InsertFails, MarkFailedFails, EnqueueFails, RequestFails, PollFails,
             RestoreFails, FinaliseFails, Upstream

LEMMA OtherShape ==
  ASSUME IInv, (\E t \in Threads : RunSubmission(t)) \/ Crash \/ UNCHANGED vars
                 \/ \E i \in DOMAIN row : LinkEnds(i)
  PROVE  Shape
PROOF
  <1>1. CASE (\E t \in Threads : RunSubmission(t)) \/ Crash \/ UNCHANGED vars
    <2>1. UNCHANGED <<row, listing, store>>
      BY <1>1 DEF RunSubmission, Crash, vars, Upstream
    <2> QED BY <2>1, QuietShape DEF Answered
  <1>2. ASSUME NEW i, LinkEnds(i) PROVE Shape
    <2>1. /\ \A k \in DOMAIN listing : k \in DOMAIN listing' /\ listing'[k] = listing[k]
          /\ UNCHANGED <<row, store>>
      BY <1>2 DEF LinkEnds
    <2> QED BY <2>1 DEF Shape, NoSplit, RowStep, Answered
  <1> QED BY <1>1, <1>2

LEMMA InsertShape ==
  ASSUME IInv, NEW a \in Actors, Insert(a)
  PROVE  Shape
PROOF
  <1> DEFINE r == Row(job[a].op, IF job[a].op = "upload" THEN "reserved" ELSE "transfer_pending", job[a].size)
  <1>1. row' = Append(row, r) /\ UNCHANGED <<listing, store>>
    BY DEF Insert, Upstream
  <1>2. ~r.settled /\ r.parent = 0 /\ r.status \in {"reserved", "transfer_pending"}
    BY DEF Row
  <1>3. row \in Seq(RowType) /\ Len(row) \in Nat /\ DOMAIN row = 1..Len(row)
    BY LenProperties DEF IInv, RowsOK
  <1>4. r \in RowType
    BY DEF Insert, At, IInv, OnRoute, JobTyped, Row, RowType, Kinds, Statuses, Active
  <1> HIDE DEF r
  <1>5. /\ DOMAIN row' = DOMAIN row \union {Len(row) + 1} /\ row'[Len(row) + 1] = r
        /\ \A k \in DOMAIN row : row'[k] = row[k]
    <2>1. /\ Append(row, r) \in Seq(RowType) /\ Len(Append(row, r)) = Len(row) + 1
          /\ \A k \in 1..Len(row) : Append(row, r)[k] = row[k]
          /\ Append(row, r)[Len(row) + 1] = r
      BY <1>3, <1>4, AppendProperties
    <2>2. DOMAIN Append(row, r) = 1..Len(Append(row, r))
      BY <2>1, LenProperties
    <2> QED BY <1>1, <1>3, <2>1, <2>2
  <1>6. NoSplit
    BY <1>2, <1>5 DEF NoSplit
  <1>7. \A i \in DOMAIN row : RowStep(i, row[i], row'[i], Answered)
    BY <1>5 DEF RowStep
  <1> QED BY <1>1, <1>5, <1>6, <1>7 DEF Shape, Answered

LEMMA ProceedShape ==
  ASSUME IInv, NEW a \in Actors, Proceed(a)
  PROVE  Shape
PROOF
  <1>1. CASE UNCHANGED <<row, listing, store>>
    BY <1>1, QuietShape DEF Answered
  <1>2. CASE Insert(a)
    BY <1>2, InsertShape
  <1>3. CASE AttachUpload(a)
    <2> DEFINE i == job[a].row
               r == [row[i] EXCEPT !.file = TRUE]
    <2>1. pc[a] = "attach" /\ row' = [row EXCEPT ![i] = r] /\ UNCHANGED <<listing, store>>
      BY <1>3 DEF AttachUpload, At, Upstream
    <2>2. i \in DOMAIN row /\ ~row[i].file /\ ~row[i].upload
      BY <2>1 DEF IInv, OnRoute, KnowsRows, Owner
    <2>3. row[i] \in RowType
      BY <2>2, RowTyped
    <2>4. r.kind = row[i].kind /\ r.status = row[i].status /\ r.parent = row[i].parent /\ r.settled = row[i].settled
      BY <2>3 DEF RowType
    <2> HIDE DEF r
    <2>5. RowStep(i, row[i], r, Answered)
      BY <2>2, <2>4 DEF RowStep, Binds
    <2> QED BY <2>1, <2>2, <2>4, <2>5, OneRowShape
  <1>4. CASE MarkFailed(a)
    <2> DEFINE i == job[a].row
    <2>1. pc[a] = "fail" /\ SetStatus(i, "failed") /\ UNCHANGED <<listing, store>>
      BY <1>4 DEF MarkFailed, At, Upstream
    <2>2. i \in DOMAIN row /\ ~row[i].file /\ ~row[i].upload
      BY <2>1 DEF IInv, OnRoute, KnowsRows, Owner
    <2> QED BY <2>1, <2>2, StatusShape DEF RowStep
  <1>5. CASE Enqueue(a) \/ EnsureGrowth(a)
    BY <1>1, <1>5 DEF Enqueue, EnsureGrowth, Upstream
  <1>6. CASE AttachLink(a)
    <2> DEFINE i == job[a].row
               r == [row[i] EXCEPT !.upload = TRUE]
    <2>1. /\ pc[a] = "submit" /\ UNCHANGED <<listing, store>>
          /\ UNCHANGED row \/ row' = [row EXCEPT ![i] = r]
      BY <1>6 DEF AttachLink, At, Upstream
    <2>2. i \in DOMAIN row /\ ~row[i].file /\ ~row[i].upload
      BY <2>1 DEF IInv, OnRoute, KnowsRows, Owner
    <2>3. row[i] \in RowType
      BY <2>2, RowTyped
    <2>4. r.kind = row[i].kind /\ r.status = row[i].status /\ r.parent = row[i].parent /\ r.settled = row[i].settled
      BY <2>3 DEF RowType
    <2> HIDE DEF r
    <2>5. RowStep(i, row[i], r, Answered)
      BY <2>2, <2>4 DEF RowStep, Binds
    <2> QED BY <1>1, <2>1, <2>2, <2>4, <2>5, OneRowShape
  <1>7. CASE GrowLink(a)
    <2> DEFINE i == job[a].row
               r == [row[i] EXCEPT !.upload = TRUE, !.size = job[a].size]
    <2>1. pc[a] = "write" /\ job[a].op = "link" /\ UNCHANGED <<listing, store>> /\ row' = [row EXCEPT ![i] = r]
      BY <1>7 DEF GrowLink, At, Upstream
    <2>2. i \in DOMAIN row /\ ~row[i].file /\ ~row[i].upload
      BY <2>1 DEF IInv, OnRoute, KnowsRows, Owner
    <2>3. row[i] \in RowType
      BY <2>2, RowTyped
    <2>4. r.kind = row[i].kind /\ r.status = row[i].status /\ r.parent = row[i].parent /\ r.settled = row[i].settled
      BY <2>3 DEF RowType
    <2> HIDE DEF r
    <2>5. RowStep(i, row[i], r, Answered)
      BY <2>2, <2>4 DEF RowStep, Binds
    <2> QED BY <2>1, <2>2, <2>4, <2>5, OneRowShape
  <1>8. CASE CompleteUpload(a)
    <2> DEFINE i == job[a].row
    <2>1. pc[a] = "complete" /\ UNCHANGED <<listing, store>>
      BY <1>8 DEF CompleteUpload, At, Upstream
    <2>2. i \in DOMAIN row
      BY <2>1 DEF IInv, OnRoute, KnowsRows
    <2>3. CASE SetStatus(i, "failed") /\ row[i].status = "reserved"
      BY <2>1, <2>2, <2>3, StatusShape DEF RowStep
    <2>4. CASE SetStatus(i, "completed") /\ row[i].status = "reserved"
      <3> DEFINE r == [row[i] EXCEPT !.status = "completed"]
      <3>1. row[i] \in RowType
        BY <2>2, RowTyped
      <3>2. r = [row[i] EXCEPT !.status = "completed", !.size = row[i].size] /\ row[i].size \in Nat
        BY <3>1 DEF RowType
      <3>3. RowStep(i, row[i], r, Answered)
        BY <2>4, <3>2 DEF RowStep, SizeGiven
      <3> QED BY <2>1, <2>2, <2>4, <3>3, StatusShape
    <2>5. CASE UNCHANGED row
      BY <1>1, <2>1, <2>5
    <2> QED BY <1>8, <2>3, <2>4, <2>5 DEF CompleteUpload
  <1>9. CASE GrowUpload(a)
    <2> DEFINE i == job[a].row
               r == [row[i] EXCEPT !.status = "completed", !.size = job[a].size]
    <2>1. pc[a] = "write" /\ job[a].op = "callback" /\ UNCHANGED <<listing, store>> /\ row' = [row EXCEPT ![i] = r]
      BY <1>9 DEF GrowUpload, At, Upstream
    <2>2. i \in DOMAIN row /\ row[i].status = "reserved" /\ job[a].size \in Nat
      BY <2>1 DEF IInv, KnowsRows, JobTyped
    <2>3. row[i] \in RowType
      BY <2>2, RowTyped
    <2>4. r.parent = row[i].parent /\ r.settled = row[i].settled
      BY <2>3 DEF RowType
    <2>5. RowStep(i, row[i], r, Answered)
      BY <2>2 DEF RowStep, SizeGiven
    <2> HIDE DEF r
    <2> QED BY <2>1, <2>2, <2>4, <2>5, OneRowShape
  <1>10. CASE Settle(a)
    <2>1. PICK i \in DOMAIN job[a].todo :
            UNCHANGED row \/ (i \in DOMAIN listing /\ ~SettledAlready(i) /\ FanOut(i))
      BY <1>10 DEF Settle
    <2>2. pc[a] = "poll" /\ UNCHANGED <<listing, store>>
      BY <1>10 DEF Settle, At, Upstream
    <2>3. i \in DOMAIN row /\ row[i].kind = "link" /\ row[i].upload
      BY <2>1, <2>2 DEF IInv, OnRoute, KnowsRows
    <2>4. UNCHANGED row \/ SplitOf(i)
      BY <2>1, <2>3 DEF SplitOf, SettledAlready
    <2> QED BY <1>1, <2>2, <2>4, SplitShape
  <1>11. CASE SettleGrown(a)
    <2> DEFINE i == job[a].row
    <2>1. pc[a] = "write" /\ job[a].op = "refresh" /\ FanOut(i) /\ UNCHANGED <<listing, store>>
      BY <1>11 DEF SettleGrown, At, Upstream
    <2>2. i \in DOMAIN row /\ i \in DOMAIN listing /\ row[i].kind = "link" /\ row[i].upload /\ ~row[i].settled
      BY <2>1 DEF IInv, KnowsRows
    <2>3. SplitOf(i)
      BY <2>1, <2>2 DEF SplitOf
    <2> QED BY <2>1, <2>3, SplitShape
  <1>12. CASE Erase(a)
    <2>1. PICK no, kept : store' = [store EXCEPT !.erased = @ \union ({i \in job[a].ids : row[i].file} \ no),
                                                 !.refused = @ \union (no \ kept)]
      BY <1>12 DEF Erase
    <2>2. Answered \subseteq Answered' /\ UNCHANGED <<row, listing>>
      BY <1>12, <2>1 DEF Answered, Erase, IInv, StoreOK
    <2> QED BY <2>2, QuietShape
  <1>13. CASE RestoreStatus(a)
    <2>1. PICK i \in DOMAIN job[a].was :
            \/ SetStatus(i, job[a].was[i]) /\ row[i].status \in {"delete_pending", "deleted"}
            \/ UNCHANGED row
      BY <1>13 DEF RestoreStatus
    <2>2. pc[a] = "restore" /\ UNCHANGED <<listing, store>>
      BY <1>13 DEF RestoreStatus, At, Upstream
    <2>3. /\ i \in DOMAIN row /\ job[a].was[i] \in Statuses \ {"deleted"}
          /\ row[i].file \/ (row[i].kind = "link" /\ job[a].was[i] \in DeletedLinks)
      BY <2>1, <2>2, InDeletion DEF KnowsDeleted
    <2>4. CASE SetStatus(i, job[a].was[i]) /\ row[i].status \in {"delete_pending", "deleted"}
      BY <2>2, <2>3, <2>4, StatusShape DEF RowStep
    <2> QED BY <1>1, <2>1, <2>2, <2>4
  <1>14. CASE FinaliseDelete(a)
    <2> DEFINE ids == job[a].ids
    <2>1. /\ pc[a] = "finalise" /\ UNCHANGED <<listing, store>>
          /\ row' = [i \in DOMAIN row |->
                       IF i \in ids /\ row[i].status = "delete_pending"
                       THEN [row[i] EXCEPT !.status = "deleted"] ELSE row[i]]
      BY <1>14 DEF FinaliseDelete, At, Upstream
    <2>2. \A i \in ids : row[i].kind = "link" \/ i \in Answered
      BY <2>1, InDeletion DEF KnowsDeleted, Answered
    <2> HIDE DEF ids
    <2>3. ASSUME NEW i \in DOMAIN row
          PROVE  /\ RowStep(i, row[i], row'[i], Answered)
                 /\ row'[i].settled = row[i].settled /\ row'[i].parent = row[i].parent
      <3>1. row[i] \in RowType
        BY RowTyped
      <3>2. CASE i \in ids /\ row[i].status = "delete_pending"
        <4>1. row'[i] = [row[i] EXCEPT !.status = "deleted"]
          BY <2>1, <3>2
        <4>2. RowStep(i, row[i], row'[i], Answered)
          BY <2>2, <3>2, <4>1 DEF RowStep, Gives
        <4> QED BY <3>1, <4>1, <4>2 DEF RowType
      <3>3. CASE ~(i \in ids /\ row[i].status = "delete_pending")
        <4>1. row'[i] = row[i]
          BY <2>1, <3>3
        <4> QED BY <4>1 DEF RowStep
      <3> QED BY <3>2, <3>3
    <2>4. NoSplit /\ DOMAIN row' = DOMAIN row
      BY <2>1, <2>3 DEF NoSplit
    <2> QED BY <2>1, <2>3, <2>4 DEF Shape, Answered
  <1> QED BY <1>2, <1>3, <1>4, <1>5, <1>6, <1>7, <1>8, <1>9, <1>10, <1>11, <1>12, <1>13, <1>14 DEF Proceed

LEMMA StepShape ==
  ASSUME IInv, [Next]_vars
  PROVE  Shape
BY ArriveShape, ProceedShape, FailsShape, OtherShape DEF Next

-----------------------------------------------------------------------------
(* What the shape of the steps gives. *)

\* A deleted row is a link, which has no file, or upstream has answered for it.
DeletedOK ==
  \A i \in DOMAIN row : row[i].status = "deleted" => row[i].kind = "link" \/ i \in Answered

LEMMA DeletedStep ==
  ASSUME IInv, DeletedOK, Shape
  PROVE  DeletedOK'
PROOF
  <1>1. ASSUME NEW i \in DOMAIN row, row'[i].status = "deleted"
        PROVE  row'[i].kind = "link" \/ i \in Answered'
    <2> DEFINE r == row[i]
               s == row'[i]
    <2>1. /\ r \in RowType /\ RowStep(i, r, s, Answered) /\ Answered \subseteq Answered'
          /\ r.status = "deleted" => r.kind = "link" \/ i \in Answered
          /\ s.status = "deleted"
      BY <1>1, RowTyped DEF Shape, DeletedOK
    <2> HIDE DEF r, s
    <2>2. (r.kind = "link" \/ i \in Answered) /\ s.kind = r.kind
      BY <2>1 DEF RowStep, Binds, Gives, SizeGiven, Splits, RowType
    <2> QED BY <2>1, <2>2 DEF r, s
  <1>2. ASSUME NEW i \in DOMAIN row' \ DOMAIN row
        PROVE  row'[i].status # "deleted"
    <2>1. CASE NoSplit
      BY <1>2, <2>1 DEF NoSplit
    <2>2. ASSUME NEW p \in DOMAIN row, SplitOf(p) PROVE row'[i].status # "deleted"
      <3>1. PICK kept : Fanned(p, kept)
        BY <2>2, FanOutShape DEF SplitOf
      <3> DEFINE n == Cardinality(Kept(listing[p]))
      <3>2. /\ n \in Nat /\ Len(row) \in Nat /\ DOMAIN row = 1..Len(row) /\ DOMAIN row' = 1..(Len(row) + n)
            /\ \A k \in 1..n : row'[Len(row) + k] = Child(p, listing[p][kept[k]])
        BY <3>1 DEF Fanned
      <3> HIDE DEF n
      <3>3. i - Len(row) \in 1..n /\ Len(row) + (i - Len(row)) = i
        BY <1>2, <3>2
      <3>4. row'[i] = Child(p, listing[p][kept[i - Len(row)]])
        BY <3>2, <3>3
      <3> QED BY <3>4 DEF Child, Row
    <2> QED BY <2>1, <2>2 DEF Shape
  <1> QED BY <1>1, <1>2 DEF DeletedOK

\* A file is recorded as deleted only when upstream has erased it or has refused in
\* an answer the transfers route does not read (service.py: finalise after the call),
\* whoever deletes the same file at the same time and whatever fails.
THEOREM DeletedIsErased == Spec => []ErasedBeforeDeleted
PROOF
  <1>1. Init => DeletedOK
    <2>1. ASSUME Init PROVE DOMAIN row = {}
      <3>1. row = <<>> /\ DOMAIN <<>> = {}
        BY <2>1 DEF Init
      <3> QED BY <3>1
    <2> QED BY <2>1 DEF DeletedOK
  <1>2. IInv /\ DeletedOK /\ [Next]_vars => DeletedOK'
    BY StepShape, DeletedStep
  <1>3. IInv /\ DeletedOK => ErasedBeforeDeleted
    BY DEF IInv, RowsOK, DeletedOK, ErasedBeforeDeleted, Answered
  <1> QED BY <1>1, <1>2, <1>3, DriveIsSound, PTL DEF Spec

\* A file the client sees keeps its size and stays until a deletion marks it: a late or
\* repeated callback, report or refresh cannot take it away.
THEOREM ListedFilesStay == Spec => ListedStays
PROOF
  <1>1. ASSUME IInv, [Next]_vars, NEW i \in DOMAIN row, Listed(i)
        PROVE  row'[i].status \in {row[i].status, "delete_pending"} /\ row'[i].size = row[i].size
    <2> DEFINE r == row[i]
               s == row'[i]
    <2>1. /\ r \in RowType /\ RowStep(i, r, s, Answered) /\ r.file /\ r.kind # "link"
          /\ r.status \in {"completed", "transfer_completed"}
      BY <1>1, StepShape, RowTyped DEF Shape, Listed, IInv, RowsOK
    <2> HIDE DEF r, s
    <2>2. s.status \in {r.status, "delete_pending"} /\ s.size = r.size
      BY <2>1 DEF RowStep, Binds, Gives, SizeGiven, Splits, RowType
    <2> QED BY <2>2 DEF r, s
  <1>2. IInv /\ [Next]_vars =>
          [\A i \in DOMAIN row :
             Listed(i) => /\ row'[i].status \in {row[i].status, "delete_pending"}
                          /\ row'[i].size = row[i].size]_vars
    BY <1>1
  <1> QED BY <1>2, DriveIsSound, PTL DEF Spec, ListedStays

Files(i) == {k \in DOMAIN row : row[k].parent = i}

LEMMA IntervalAbove ==
  ASSUME NEW m \in Nat, NEW n \in Nat
  PROVE  IsFiniteSet((m + 1)..(m + n)) /\ Cardinality((m + 1)..(m + n)) = n
PROOF
  <1>1. m + 1 \in Int /\ m + n \in Int
    OBVIOUS
  <1> DEFINE a == m + 1
             b == m + n
  <1>2. a \in Int /\ b \in Int /\ (IF a > b THEN 0 ELSE b - a + 1) = n
    OBVIOUS
  <1> HIDE DEF a, b
  <1>3. IsFiniteSet(a..b) /\ Cardinality(a..b) = IF a > b THEN 0 ELSE b - a + 1
    BY <1>2, FS_Interval
  <1>4. IsFiniteSet(a..b) /\ Cardinality(a..b) = n
    BY <1>2, <1>3
  <1> QED BY <1>4 DEF a, b

LEMMA FilesKept ==
  ASSUME IInv, FannedOutOnce, [Next]_vars
  PROVE  FannedOutOnce'
PROOF
  <1>1. Shape /\ IInv'
    BY StepShape, NextKeeps
  <1>2. /\ DOMAIN row = 1..Len(row) /\ Len(row) \in Nat /\ IsFiniteSet(DOMAIN row)
        /\ \A k \in DOMAIN row : row[k].parent \in 0..(k - 1) /\ k \in Nat /\ k <= Len(row) /\ k # 0
        /\ \A k \in DOMAIN row : row[k].settled \in BOOLEAN
        /\ \A k \in DOMAIN row : row[k].settled => k \in DOMAIN listing
    <2>1. DOMAIN row = 1..Len(row) /\ Len(row) \in Nat
      BY LenProperties DEF IInv, RowsOK
    <2>2. IsFiniteSet(1..Len(row))
      BY <2>1, FS_Interval
    <2>3. \A k \in DOMAIN row : row[k] \in RowType
      BY RowTyped
    <2>4. \A k \in DOMAIN row : row[k].settled \in BOOLEAN
      BY <2>3 DEF RowType
    <2> QED BY <2>1, <2>2, <2>4 DEF IInv, RowsOK
  <1>3. \A i \in DOMAIN row :
          Cardinality(Files(i)) = IF row[i].settled THEN Cardinality(Kept(listing[i])) ELSE 0
    BY DEF FannedOutOnce, Files, Kept
  <1>4. \A i \in DOMAIN listing : i \in DOMAIN listing' /\ listing'[i] = listing[i]
    BY <1>1 DEF Shape
  <1>5. DOMAIN row \subseteq DOMAIN row' /\ \A i \in DOMAIN row' : i \in Nat /\ i # 0
    <2>1. DOMAIN row' = 1..Len(row')
      BY <1>1, LenProperties DEF IInv, RowsOK
    <2> QED BY <1>1, <2>1 DEF Shape
  <1>6. \A i \in DOMAIN row' \ DOMAIN row : \A k \in DOMAIN row : row[k].parent # i
    BY <1>2, <1>5
  <1>7. SUFFICES ASSUME NEW i \in DOMAIN row'
                 PROVE  Cardinality(Files(i)') = IF row'[i].settled THEN Cardinality(Kept(listing'[i])) ELSE 0
    BY DEF FannedOutOnce, Files, Kept
  <1>8. CASE NoSplit
    <2>1. /\ \A k \in DOMAIN row : row'[k].settled = row[k].settled /\ row'[k].parent = row[k].parent
          /\ \A k \in DOMAIN row' \ DOMAIN row : row'[k].parent = 0 /\ ~row'[k].settled
      BY <1>8 DEF NoSplit
    <2>2. CASE i \in DOMAIN row
      <3>1. Files(i)' = Files(i)
        BY <1>5, <2>1, <2>2 DEF Files
      <3>2. row[i].settled => listing'[i] = listing[i]
        BY <1>2, <1>4, <2>2
      <3> QED BY <1>3, <2>1, <2>2, <3>1, <3>2
    <2>3. CASE i \notin DOMAIN row
      <3>1. Files(i)' = {}
        BY <1>5, <1>6, <2>1, <2>3 DEF Files
      <3> QED BY <2>1, <2>3, <3>1, FS_EmptySet
    <2> QED BY <2>2, <2>3
  <1>9. ASSUME NEW p \in DOMAIN row, SplitOf(p), UNCHANGED listing
        PROVE  Cardinality(Files(i)') = IF row'[i].settled THEN Cardinality(Kept(listing'[i])) ELSE 0
    <2> DEFINE n == Cardinality(Kept(listing[p]))
    <2>1. PICK kept : Fanned(p, kept)
      BY <1>9, FanOutShape DEF SplitOf
    <2>2. /\ n \in Nat /\ DOMAIN row' = 1..(Len(row) + n)
          /\ row'[p] = [row[p] EXCEPT !.settled = TRUE, !.size = 0, !.status = "transfer_completed"]
          /\ \A k \in DOMAIN row \ {p} : row'[k] = row[k]
          /\ \A k \in 1..n : row'[Len(row) + k] = Child(p, listing[p][kept[k]])
      BY <2>1 DEF Fanned
    <2>3. row'[p].settled = TRUE /\ row'[p].parent = row[p].parent
      BY <2>2, RowTyped DEF RowType
    <2> DEFINE new == (Len(row) + 1)..(Len(row) + n)
    <2>4. ASSUME NEW k \in new PROVE row'[k].parent = p /\ row'[k].settled = FALSE /\ k \in DOMAIN row'
      <3> HIDE DEF n
      <3>1. k - Len(row) \in 1..n /\ Len(row) + (k - Len(row)) = k /\ k \in 1..(Len(row) + n)
        BY <1>2, <2>2, <2>4
      <3>2. row'[k] = Child(p, listing[p][kept[k - Len(row)]])
        BY <2>2, <3>1
      <3> QED BY <2>2, <3>1, <3>2 DEF Child, Row
    <2>5. IsFiniteSet(new) /\ Cardinality(new) = n /\ DOMAIN row' = DOMAIN row \union new
      <3> HIDE DEF n
      <3>1. IsFiniteSet(new) /\ Cardinality(new) = n
        BY <1>2, <2>2, IntervalAbove
      <3> QED BY <1>2, <2>2, <3>1
    <2> HIDE DEF new, n
    <2>6. \A k \in DOMAIN row : row'[k].parent = row[k].parent
      BY <2>2, <2>3
    <2>7. CASE i = p
      <3>1. Files(p) = {}
        <4>1. Cardinality(Files(p)) = 0
          BY <1>3, <1>9 DEF SplitOf
        <4>2. IsFiniteSet(Files(p))
          BY <1>2, FS_Subset DEF Files
        <4> QED BY <4>1, <4>2, FS_EmptySet
      <3>2. \A k \in DOMAIN row : row'[k].parent # p
        BY <2>6, <3>1 DEF Files
      <3>3. Files(p)' = new
        BY <2>4, <2>5, <3>2 DEF Files
      <3> QED BY <1>9, <2>3, <2>5, <2>7, <3>3 DEF n
    <2>8. CASE i # p /\ i \in DOMAIN row
      <3>1. Files(i)' = Files(i)
        BY <2>4, <2>5, <2>6, <2>8 DEF Files
      <3> QED BY <1>3, <1>9, <2>2, <2>8, <3>1
    <2>9. CASE i \notin DOMAIN row
      <3>1. i \in new
        BY <2>5, <2>9
      <3>2. Files(i)' = {}
        <4>1. ASSUME NEW k \in DOMAIN row' PROVE row'[k].parent # i
          <5>1. CASE k \in DOMAIN row
            BY <1>6, <2>6, <2>9, <5>1
          <5>2. CASE k \in new
            BY <2>4, <2>9, <5>2
          <5> QED BY <2>5, <5>1, <5>2
        <4> QED BY <4>1 DEF Files
      <3> QED BY <2>4, <3>1, <3>2, FS_EmptySet
    <2> QED BY <2>7, <2>8, <2>9
  <1> QED BY <1>1, <1>8, <1>9 DEF Shape

\* A finished link is replaced by its files once, all of them in one step, however many
\* refreshes list it at the same time (service.py: the row is looked at again once locked).
THEOREM SplitOnce == Spec => []FannedOutOnce
PROOF
  <1>1. Init => FannedOutOnce
    <2>1. ASSUME Init PROVE DOMAIN row = {}
      <3>1. row = <<>> /\ DOMAIN <<>> = {}
        BY <2>1 DEF Init
      <3> QED BY <3>1
    <2> QED BY <2>1 DEF FannedOutOnce
  <1>2. IInv /\ FannedOutOnce /\ [Next]_vars => FannedOutOnce'
    BY FilesKept
  <1> QED BY <1>1, <1>2, DriveIsSound, PTL DEF Spec

-----------------------------------------------------------------------------
(* Who is to bind a reservation, when the client deletes no pending links. *)

PendingLinksStay == "transfer_pending" \notin DeletedLinks

\* A step of a leaves the other actors as they are.
Apart(a) ==
  \A b \in Actors \ {a} : pc'[b] = pc[b] /\ job'[b] = job[b] /\ locks'[b] = locks[b]

LEMMA MovesApart ==
  ASSUME IInv, NEW a \in Actors, NEW x, NEW y, NEW z,
         pc' = pc \/ pc' = [pc EXCEPT ![a] = x],
         job' = job \/ job' = [job EXCEPT ![a] = y],
         locks' = locks \/ locks' = [locks EXCEPT ![a] = z]
  PROVE  Apart(a)
BY DEF IInv, LocksOK, Apart

LEMMA EndApart == ASSUME IInv, NEW a \in Actors, End(a) PROVE Apart(a)
BY MovesApart DEF End, GoTo, Learn, Unlock

LEMMA NextParentApart == ASSUME IInv, NEW a \in Actors, NEW i, NextParent(a, i) PROVE Apart(a)
BY EndApart, MovesApart DEF NextParent, GoTo, Learn, Unlock

LEMMA RestoredApart == ASSUME IInv, NEW a \in Actors, NEW i, Restored(a, i) PROVE Apart(a)
BY EndApart, MovesApart DEF Restored, GoTo, Learn, Unlock

LEMMA ArriveApart == ASSUME IInv, NEW w \in Workers, Arrive(w) PROVE Apart(w)
PROOF
  <1>1. w \in Actors
    BY DEF Actors
  <1>2. CASE \E op \in {"upload", "link"}, size \in Sizes : EnsureQuota(w, op, size)
    BY <1>1, <1>2, MovesApart DEF EnsureQuota, GoTo, Learn, Lock
  <1>3. CASE ReserveSlot(w)
    BY <1>1, <1>3, MovesApart DEF ReserveSlot, GoTo, Learn
  <1>4. ASSUME NEW op, NEW i, NEW size, Callback(w, op, i, size) PROVE Apart(w)
    BY <1>1, <1>4, MovesApart DEF Callback, GoTo, Learn
  <1>5. CASE Refresh(w)
    BY <1>1, <1>5, MovesApart DEF Refresh, GoTo, Learn
  <1>6. ASSUME NEW route, NEW ids, SoftDelete(w, route, ids) \/ SoftDeleteFails(w, route, ids) PROVE Apart(w)
    BY <1>1, <1>6, MovesApart DEF SoftDelete, SoftDeleteFails, GoTo, Learn, Pool
  <1> QED BY <1>2, <1>3, <1>4, <1>5, <1>6 DEF Arrive

LEMMA ProceedApart == ASSUME IInv, NEW a \in Actors, Proceed(a) PROVE Apart(a)
PROOF
  <1>1. CASE Insert(a) \/ Enqueue(a)
    BY <1>1, MovesApart DEF Insert, Enqueue, GoTo, Learn, Unlock
  <1>2. CASE AttachUpload(a) \/ MarkFailed(a) \/ GrowLink(a) \/ GrowUpload(a) \/ FinaliseDelete(a)
    BY <1>2, EndApart DEF AttachUpload, MarkFailed, GrowLink, GrowUpload, FinaliseDelete
  <1>3. CASE AttachLink(a)
    BY <1>3, EndApart, MovesApart DEF AttachLink, GoTo, Learn, Lock
  <1>4. CASE EnsureGrowth(a)
    <2>1. job[a].op \in {"link", "callback", "refresh"}
      BY <1>4 DEF EnsureGrowth, At, IInv, OnRoute
    <2> QED BY <1>4, <2>1, EndApart, NextParentApart, MovesApart DEF EnsureGrowth, GoTo, Lock, Unlock
  <1>5. CASE CompleteUpload(a)
    BY <1>5, EndApart, MovesApart DEF CompleteUpload, GoTo, Lock
  <1>6. CASE Settle(a)
    BY <1>6, NextParentApart, MovesApart DEF Settle, GoTo, Lock, Learn
  <1>7. CASE SettleGrown(a)
    BY <1>7, NextParentApart DEF SettleGrown
  <1>8. CASE Erase(a)
    BY <1>8, MovesApart DEF Erase, GoTo, Learn
  <1>9. CASE RestoreStatus(a)
    BY <1>9, RestoredApart DEF RestoreStatus
  <1> QED BY <1>1, <1>2, <1>3, <1>4, <1>5, <1>6, <1>7, <1>8, <1>9 DEF Proceed

LEMMA FailsApart == ASSUME IInv, NEW a \in Actors, Fails(a) PROVE Apart(a)
PROOF
  <1>1. CASE InsertFails(a) \/ MarkFailedFails(a)
    BY <1>1, EndApart DEF InsertFails, MarkFailedFails
  <1>2. CASE EnqueueFails(a) \/ EraseFails(a)
    BY <1>2, MovesApart DEF EnqueueFails, EraseFails, GoTo, Learn
  <1>3. CASE RequestFails(a) \/ FinaliseFails(a)
    BY <1>3, EndApart, MovesApart DEF RequestFails, FinaliseFails, GoTo, Learn, Unlock
  <1>4. CASE PollFails(a) \/ RestoreFails(a)
    BY <1>4, EndApart, NextParentApart, RestoredApart DEF PollFails, RestoreFails
  <1> QED BY <1>1, <1>2, <1>3, <1>4 DEF Fails

LEMMA SubmissionApart == ASSUME IInv, NEW t \in Threads, RunSubmission(t) PROVE Apart(t)
BY MovesApart DEF RunSubmission, GoTo, Learn, Actors

\* What is queued, given up, or somebody's to bind.
HasOwner(i) ==
  \/ i \in orphans
  \/ \E k \in DOMAIN queue : queue[k] = i
  \/ \E a \in Actors : Owner(a) /\ job[a].row = i

\* Nobody but its owner lets a reservation go.
LEMMA OthersOwn ==
  ASSUME NEW a \in Actors, Apart(a), NEW i, HasOwner(i), orphans \subseteq orphans', UNCHANGED queue,
         Owner(a) /\ job[a].row = i => HasOwner(i)'
  PROVE  HasOwner(i)'
PROOF
  <1>1. ASSUME NEW b \in Actors \ {a}, Owner(b), job[b].row = i PROVE HasOwner(i)'
    BY <1>1 DEF Apart, Owner, HasOwner
  <1> QED BY <1>1 DEF HasOwner

LEMMA UnboundBefore ==
  ASSUME IInv, Shape, PendingLinksStay, NEW i \in DOMAIN row, Unbound(i)'
  PROVE  Unbound(i)
PROOF
  <1> DEFINE r == row[i]
             s == row'[i]
  <1>1. r \in RowType /\ RowStep(i, r, s, Answered) /\ (r.kind = "link" => ~r.file)
    BY RowTyped DEF Shape, IInv, RowsOK
  <1>2. \/ s.kind = "upload" /\ s.status = "reserved" /\ ~s.file
        \/ s.kind = "link" /\ s.status = "transfer_pending" /\ ~s.upload
    BY DEF Unbound
  <1> HIDE DEF r, s
  <1>3. \/ r.kind = "upload" /\ r.status = "reserved" /\ ~r.file
        \/ r.kind = "link" /\ r.status = "transfer_pending" /\ ~r.upload
    BY <1>1, <1>2 DEF RowStep, Binds, Gives, SizeGiven, Splits, RowType, PendingLinksStay
  <1> QED BY <1>3 DEF Unbound, r

LEMMA ArriveOwns ==
  ASSUME IInv, NEW w \in Workers, Arrive(w), NEW i, HasOwner(i)
  PROVE  HasOwner(i)'
PROOF
  <1>1. UNCHANGED <<queue, orphans>> /\ pc[w] = "idle"
    BY DEF Arrive, EnsureQuota, ReserveSlot, Callback, Refresh, SoftDelete, SoftDeleteFails, Deletion, At, Pool
  <1>2. ~Owner(w) /\ w \in Actors
    BY <1>1 DEF Owner, Actors
  <1> QED BY <1>1, <1>2, ArriveApart, OthersOwn

LEMMA SubmissionOwns ==
  ASSUME IInv, NEW t \in Threads, RunSubmission(t), NEW i, HasOwner(i)
  PROVE  HasOwner(i)'
PROOF
  <1>1. /\ pc[t] = "idle" /\ queue # <<>> /\ queue' = Tail(queue) /\ UNCHANGED orphans /\ t \in Actors
        /\ pc' = [pc EXCEPT ![t] = "submit"]
        /\ job' = [job EXCEPT ![t] = [Idle EXCEPT !.op = "link", !.row = Head(queue), !.slot = TRUE]]
    BY DEF RunSubmission, At, GoTo, Learn, Actors
  <1>2. Owner(t)' /\ job'[t].row = Head(queue)
    BY <1>1 DEF IInv, Owner, Idle
  <1>3. queue \in Seq(Nat)
    BY DEF IInv, OwnedOnce
  <1>4. ASSUME NEW k \in DOMAIN queue, queue[k] = i PROVE HasOwner(i)'
    <2>1. CASE k = 1
      BY <1>1, <1>2, <1>3, <1>4, <2>1 DEF HasOwner
    <2>2. CASE k # 1
      <3>1. k - 1 \in DOMAIN queue' /\ queue'[k - 1] = i
        <4>1. DOMAIN queue = 1..Len(queue) /\ Len(queue) \in Nat
          BY <1>3, LenProperties
        <4>2. Len(Tail(queue)) = Len(queue) - 1 /\ \A m \in 1..Len(Tail(queue)) : Tail(queue)[m] = queue[m + 1]
          BY <1>1, <1>3, HeadTailProperties
        <4>3. Tail(queue) \in Seq(Nat)
          BY <1>1, <1>3, HeadTailProperties
        <4>4. DOMAIN Tail(queue) = 1..Len(Tail(queue))
          BY <4>3, LenProperties
        <4>5. k - 1 \in 1..Len(Tail(queue)) /\ (k - 1) + 1 = k
          BY <2>2, <4>1, <4>2
        <4> QED BY <1>1, <1>4, <4>2, <4>4, <4>5
      <3> QED BY <3>1 DEF HasOwner
    <2> QED BY <2>1, <2>2
  <1>5. ASSUME NEW b \in Actors, Owner(b), job[b].row = i PROVE HasOwner(i)'
    <2>1. b # t
      BY <1>1, <1>5 DEF Owner
    <2> QED BY <1>5, <2>1, SubmissionApart DEF Apart, Owner, HasOwner
  <1> QED BY <1>1, <1>4, <1>5 DEF HasOwner

\* An owner goes on owning its reservation until it binds it, marks it or queues it.
LEMMA ProceedOwns ==
  ASSUME IInv, NEW a \in Actors, Proceed(a), NEW i \in DOMAIN row, HasOwner(i), Unbound(i)'
  PROVE  HasOwner(i)'
PROOF
  <1>1. Apart(a)
    BY ProceedApart
  <1>2. UNCHANGED orphans
    BY DEF Proceed, Insert, AttachUpload, MarkFailed, Enqueue, AttachLink, EnsureGrowth, GrowLink, CompleteUpload,
           GrowUpload, Settle, SettleGrown, Erase, RestoreStatus, FinaliseDelete
  <1>3. CASE Enqueue(a)
    <2>1. queue' = Append(queue, job[a].row)
      BY <1>3 DEF Enqueue
    <2>2. queue \in Seq(Nat) /\ job[a].row \in Nat
      BY DEF IInv, OwnedOnce, JobTyped
    <2>3. /\ DOMAIN queue = 1..Len(queue) /\ Len(queue) \in Nat
          /\ DOMAIN queue' = 1..(Len(queue) + 1)
          /\ \A k \in 1..Len(queue) : queue'[k] = queue[k]
          /\ queue'[Len(queue) + 1] = job[a].row
      <3>1. /\ Append(queue, job[a].row) \in Seq(Nat) /\ Len(Append(queue, job[a].row)) = Len(queue) + 1
            /\ \A k \in 1..Len(queue) : Append(queue, job[a].row)[k] = queue[k]
            /\ Append(queue, job[a].row)[Len(queue) + 1] = job[a].row
        BY <2>2, AppendProperties
      <3> QED BY <2>1, <2>2, <3>1, LenProperties
    <2>4. ASSUME NEW k \in DOMAIN queue, queue[k] = i PROVE HasOwner(i)'
      BY <2>3, <2>4 DEF HasOwner
    <2>5. ASSUME Owner(a), job[a].row = i PROVE HasOwner(i)'
      <3>1. Len(queue) + 1 \in DOMAIN queue'
        BY <2>3
      <3> QED BY <2>3, <2>5, <3>1 DEF HasOwner
    <2>6. ASSUME NEW b \in Actors \ {a}, Owner(b), job[b].row = i PROVE HasOwner(i)'
      BY <1>1, <2>6 DEF Apart, Owner, HasOwner
    <2> QED BY <1>2, <2>4, <2>5, <2>6 DEF HasOwner
  <1>4. CASE ~Enqueue(a)
    <2>1. UNCHANGED queue
      BY <1>4 DEF Proceed, Insert, AttachUpload, MarkFailed, AttachLink, EnsureGrowth, GrowLink, CompleteUpload,
             GrowUpload, Settle, SettleGrown, Erase, RestoreStatus, FinaliseDelete, Pool
    <2>2. ASSUME Owner(a), job[a].row = i PROVE HasOwner(i)'
      <3>1. /\ pc[a] \in {"attach", "fail", "submit", "grow", "write"} \union {"enqueue"}
            /\ job[a].op \in {"upload", "link"} /\ row[i].kind = job[a].op /\ row[i] \in RowType
            /\ pc[a] = "attach" => job[a].op = "upload"
            /\ pc[a] \in {"grow", "write", "submit"} => job[a].op = "link"
        BY <2>2, RowTyped DEF Owner, IInv, KnowsRows, OnRoute
      <3>2. CASE AttachUpload(a)
        <4>1. row' = [row EXCEPT ![i] = [row[i] EXCEPT !.file = TRUE]] /\ pc[a] = "attach"
          BY <2>2, <3>2 DEF AttachUpload, At
        <4>2. row'[i].file /\ row'[i].kind = "upload"
          BY <3>1, <4>1 DEF RowType
        <4> QED BY <4>2 DEF Unbound
      <3>3. CASE MarkFailed(a)
        <4>1. row' = [row EXCEPT ![i] = [row[i] EXCEPT !.status = "failed"]]
          BY <2>2, <3>3 DEF MarkFailed, SetStatus
        <4>2. row'[i].status = "failed"
          BY <3>1, <4>1 DEF RowType
        <4> QED BY <4>2 DEF Unbound
      <3>4. CASE AttachLink(a)
        <4>1. CASE GoTo(a, "fail") /\ UNCHANGED job
          BY <2>2, <4>1 DEF GoTo, IInv, Owner, HasOwner
        <4>2. ASSUME NEW size, GoTo(a, "grow"), Learn(a, [job[a] EXCEPT !.size = size]) PROVE HasOwner(i)'
          <5>1. pc'[a] = "grow" /\ job'[a] = [job[a] EXCEPT !.size = size]
            BY <4>2 DEF GoTo, Learn, IInv
          <5>2. JobTyped(job[a])
            BY DEF IInv
          <5>3. job'[a].row = i /\ job'[a].op = job[a].op
            BY <2>2, <5>1, <5>2 DEF JobTyped
          <5> QED BY <2>2, <5>1, <5>3 DEF Owner, HasOwner
        <4>3. CASE row' = [row EXCEPT ![job[a].row].upload = TRUE]
          <5>1. row' = [row EXCEPT ![i] = [row[i] EXCEPT !.upload = TRUE]] /\ pc[a] = "submit"
            BY <2>2, <3>4, <4>3 DEF AttachLink, At
          <5>2. row'[i].upload /\ row'[i].kind = "link"
            BY <3>1, <5>1 DEF RowType
          <5> QED BY <5>2 DEF Unbound
        <4> QED BY <3>4, <4>1, <4>2, <4>3 DEF AttachLink
      <3>5. CASE EnsureGrowth(a)
        <4>1. pc[a] = "grow" /\ job[a].op = "link"
          BY <3>1, <3>5 DEF EnsureGrowth, At
        <4>2. UNCHANGED job /\ (GoTo(a, "fail") \/ GoTo(a, "write"))
          BY <3>5, <4>1 DEF EnsureGrowth
        <4> QED BY <2>2, <4>2 DEF GoTo, IInv, Owner, HasOwner
      <3>6. CASE GrowLink(a)
        <4>1. /\ row' = [row EXCEPT ![i] = [row[i] EXCEPT !.upload = TRUE, !.size = job[a].size]]
              /\ pc[a] = "write"
          BY <2>2, <3>6 DEF GrowLink, At
        <4>2. row'[i].upload /\ row'[i].kind = "link"
          BY <3>1, <4>1 DEF RowType
        <4> QED BY <4>2 DEF Unbound
      <3>7. ASSUME GrowUpload(a) \/ SettleGrown(a) PROVE FALSE
        BY <3>1, <3>7 DEF GrowUpload, SettleGrown, At
      <3>8. ASSUME Insert(a) \/ CompleteUpload(a) \/ Settle(a) \/ Erase(a) \/ RestoreStatus(a) \/ FinaliseDelete(a)
            PROVE  FALSE
        BY <3>1, <3>8 DEF Insert, CompleteUpload, Settle, Erase, RestoreStatus, FinaliseDelete, At
      <3> QED BY <1>4, <3>2, <3>3, <3>4, <3>5, <3>6, <3>7, <3>8 DEF Proceed
    <2> QED BY <1>1, <1>2, <2>1, <2>2, OthersOwn
  <1> QED BY <1>3, <1>4

LEMMA FailsOwns ==
  ASSUME IInv, NEW a \in Actors, Fails(a), NEW i \in DOMAIN row, HasOwner(i)
  PROVE  HasOwner(i)'
PROOF
  <1>1. Apart(a)
    BY FailsApart
  <1>2. UNCHANGED queue /\ orphans \subseteq orphans'
    BY DEF Fails, InsertFails, MarkFailedFails, EnqueueFails, RequestFails, PollFails, EraseFails, RestoreFails,
           FinaliseFails, Pool
  <1>3. ASSUME Owner(a), job[a].row = i PROVE HasOwner(i)'
    <2>1. /\ pc[a] \in {"attach", "fail", "enqueue", "submit", "grow", "write"}
          /\ job[a].op \in {"upload", "link"}
      BY <1>3 DEF Owner
    <2>2. CASE MarkFailedFails(a)
      BY <1>3, <2>2 DEF MarkFailedFails, HasOwner
    <2>3. CASE EnqueueFails(a)
      <3>1. pc'[a] = "fail" /\ job'[a] = [job[a] EXCEPT !.slot = FALSE] /\ JobTyped(job[a])
        BY <2>3 DEF EnqueueFails, GoTo, Learn, IInv
      <3>2. job'[a].row = i /\ job'[a].op = job[a].op
        BY <1>3, <3>1 DEF JobTyped
      <3> QED BY <2>1, <3>1, <3>2 DEF Owner, HasOwner
    <2>4. CASE RequestFails(a)
      <3>1. UNCHANGED job /\ GoTo(a, "fail")
        BY <2>1, <2>4 DEF RequestFails
      <3> QED BY <1>3, <3>1 DEF GoTo, IInv, Owner, HasOwner
    <2>5. ASSUME InsertFails(a) \/ PollFails(a) \/ EraseFails(a) \/ RestoreFails(a) \/ FinaliseFails(a) PROVE FALSE
      BY <2>1, <2>5 DEF InsertFails, PollFails, EraseFails, RestoreFails, FinaliseFails, At
    <2> QED BY <2>2, <2>3, <2>4, <2>5 DEF Fails
  <1> QED BY <1>1, <1>2, <1>3, OthersOwn

LEMMA SplitsOrStays ==
  ASSUME IInv, NEW a \in Actors, Settle(a) \/ SettleGrown(a)
  PROVE  UNCHANGED row \/ \E p \in DOMAIN row : SplitOf(p)
PROOF
  <1>1. CASE Settle(a)
    <2>1. PICK i \in DOMAIN job[a].todo :
            UNCHANGED row \/ (i \in DOMAIN listing /\ ~SettledAlready(i) /\ FanOut(i))
      BY <1>1 DEF Settle
    <2>2. job[a].op = "refresh"
      BY <1>1 DEF Settle, At, IInv, OnRoute
    <2>3. i \in DOMAIN row /\ row[i].kind = "link" /\ row[i].upload
      BY <2>1, <2>2 DEF IInv, KnowsRows
    <2> QED BY <2>1, <2>3 DEF SplitOf, SettledAlready
  <1>2. CASE SettleGrown(a)
    <2>1. pc[a] = "write" /\ job[a].op = "refresh" /\ FanOut(job[a].row)
      BY <1>2 DEF SettleGrown, At
    <2> QED BY <2>1 DEF SplitOf, IInv, KnowsRows
  <1> QED BY <1>1, <1>2

\* Rows are only added at the end.
LEMMA AppendStays ==
  ASSUME row \in Seq(RowType), NEW r, NEW i \in 1..Len(row)
  PROVE  Append(row, r)[i] = row[i]
PROOF
  <1> DEFINE S == RowType \union {r}
  <1>1. row \in Seq(S) /\ r \in S
    OBVIOUS
  <1> HIDE DEF S
  <1> QED BY <1>1, AppendProperties

LEMMA AppendAtEnd ==
  ASSUME row \in Seq(RowType), NEW r
  PROVE  /\ Append(row, r)[Len(row) + 1] = r
         /\ \A i \in DOMAIN Append(row, r) \ DOMAIN row : i = Len(row) + 1
PROOF
  <1> DEFINE S == RowType \union {r}
  <1>1. row \in Seq(S) /\ r \in S
    OBVIOUS
  <1> HIDE DEF S
  <1>2. /\ Append(row, r) \in Seq(S) /\ Len(Append(row, r)) = Len(row) + 1 /\ Append(row, r)[Len(row) + 1] = r
    BY <1>1, AppendProperties
  <1>3. DOMAIN Append(row, r) = 1..(Len(row) + 1) /\ DOMAIN row = 1..Len(row) /\ Len(row) \in Nat
    BY <1>1, <1>2, LenProperties
  <1> QED BY <1>2, <1>3

\* A new row is a reservation or one of the files of a link.
LEMMA RowsComeFrom ==
  ASSUME IInv, [Next]_vars
  PROVE  DOMAIN row' = DOMAIN row \/ (\E a \in Actors : Insert(a)) \/ \E p \in DOMAIN row : SplitOf(p)
PROOF
  <1>1. ASSUME NEW a \in Actors, Proceed(a)
        PROVE  DOMAIN row' = DOMAIN row \/ Insert(a) \/ \E p \in DOMAIN row : SplitOf(p)
    <2>1. CASE AttachUpload(a) \/ MarkFailed(a) \/ Enqueue(a) \/ AttachLink(a) \/ EnsureGrowth(a)
      BY <2>1 DEF AttachUpload, MarkFailed, Enqueue, AttachLink, EnsureGrowth, SetStatus
    <2>2. CASE GrowLink(a) \/ GrowUpload(a) \/ Erase(a) \/ FinaliseDelete(a)
      BY <2>2 DEF GrowLink, GrowUpload, Erase, FinaliseDelete
    <2>3. CASE CompleteUpload(a) \/ RestoreStatus(a)
      BY <2>3 DEF CompleteUpload, RestoreStatus, SetStatus
    <2>4. CASE Settle(a) \/ SettleGrown(a)
      BY <2>4, SplitsOrStays
    <2> QED BY <1>1, <2>1, <2>2, <2>3, <2>4 DEF Proceed
  <1>2. ASSUME NEW a \in Actors, Fails(a) PROVE UNCHANGED row
    BY <1>2 DEF Fails, InsertFails, MarkFailedFails, EnqueueFails, RequestFails, PollFails, EraseFails,
           RestoreFails, FinaliseFails
  <1>3. ASSUME NEW w \in Workers, Arrive(w) PROVE DOMAIN row' = DOMAIN row
    BY <1>3 DEF Arrive, EnsureQuota, ReserveSlot, Callback, Refresh, SoftDelete, SoftDeleteFails
  <1>4. ASSUME (\E t \in Threads : RunSubmission(t)) \/ Crash \/ UNCHANGED vars
                 \/ \E i \in DOMAIN row : LinkEnds(i)
        PROVE  UNCHANGED row
    BY <1>4 DEF RunSubmission, Crash, vars, LinkEnds
  <1> QED BY <1>1, <1>2, <1>3, <1>4 DEF Next

ReservationsOwned == \A i \in DOMAIN row : Unbound(i) => HasOwner(i)

LEMMA OwnedStep ==
  ASSUME IInv, ReservationsOwned, PendingLinksStay, [Next]_vars
  PROVE  ReservationsOwned'
PROOF
  <1>1. Shape
    BY StepShape
  <1>2. ASSUME NEW i \in DOMAIN row, Unbound(i)' PROVE HasOwner(i)'
    <2>1. Unbound(i) /\ HasOwner(i)
      BY <1>1, <1>2, UnboundBefore DEF ReservationsOwned
    <2>2. CASE UNCHANGED vars
      BY <2>1, <2>2 DEF vars, HasOwner, Owner
    <2>3. ASSUME NEW p \in DOMAIN row, LinkEnds(p) PROVE HasOwner(i)'
      BY <2>1, <2>3 DEF LinkEnds, HasOwner, Owner, Pool
    <2>4. CASE Crash
      BY <2>1, <2>4 DEF Crash, HasOwner
    <2> QED BY <1>2, <2>1, <2>2, <2>3, <2>4, ArriveOwns, SubmissionOwns, ProceedOwns, FailsOwns DEF Next
  <1>3. ASSUME NEW i \in DOMAIN row' \ DOMAIN row, Unbound(i)' PROVE HasOwner(i)'
    <2>1. row' # row
      BY <1>3
    <2>2. ASSUME NEW a \in Actors, Insert(a) PROVE HasOwner(i)'
      <3>1. /\ row' = Append(row, Row(job[a].op, IF job[a].op = "upload" THEN "reserved" ELSE "transfer_pending",
                                      job[a].size))
            /\ pc[a] = "insert"
            /\ pc' = [pc EXCEPT ![a] = CASE job[a].op = "upload" -> "attach" [] job[a].slot -> "enqueue"
                                         [] OTHER -> "submit"]
            /\ job' = [job EXCEPT ![a] = [job[a] EXCEPT !.row = Len(row) + 1, !.size = 0]]
        BY <2>2 DEF Insert, At, GoTo, Learn
      <3>2. JobTyped(job[a]) /\ job[a].op \in {"upload", "link"}
        BY <3>1 DEF IInv, OnRoute
      <3>3. job'[a].row = Len(row) + 1 /\ job'[a].op = job[a].op
        BY <3>1, <3>2 DEF JobTyped, IInv
      <3>4. Owner(a)'
        BY <3>1, <3>2, <3>3 DEF Owner, IInv
      <3>5. i = Len(row) + 1
        <4>1. row \in Seq(RowType) /\ Len(row) \in Nat /\ DOMAIN row = 1..Len(row)
          BY LenProperties DEF IInv, RowsOK
        <4>2. DOMAIN row' = 1..(Len(row) + 1)
          BY <3>1, <4>1
        <4> QED BY <1>3, <4>1, <4>2
      <3> QED BY <3>3, <3>4, <3>5 DEF HasOwner
    <2>3. ASSUME NEW p \in DOMAIN row, SplitOf(p) PROVE FALSE
      <3>1. PICK kept : Fanned(p, kept)
        BY <2>3, FanOutShape DEF SplitOf
      <3> DEFINE n == Cardinality(Kept(listing[p]))
      <3>2. /\ n \in Nat /\ Len(row) \in Nat /\ DOMAIN row = 1..Len(row) /\ DOMAIN row' = 1..(Len(row) + n)
            /\ \A k \in 1..n : row'[Len(row) + k] = Child(p, listing[p][kept[k]])
        BY <3>1 DEF Fanned
      <3> HIDE DEF n
      <3>3. i - Len(row) \in 1..n /\ Len(row) + (i - Len(row)) = i
        BY <1>3, <3>2
      <3>4. row'[i] = Child(p, listing[p][kept[i - Len(row)]])
        BY <3>2, <3>3
      <3>5. row'[i].kind = "child"
        BY <3>4 DEF Child, Row
      <3> QED BY <1>3, <3>5 DEF Unbound
    <2> QED BY <1>3, <2>2, <2>3, RowsComeFrom
  <1> QED BY <1>2, <1>3 DEF ReservationsOwned

\* A row that is being reserved is always queued, in the hands of a request or a thread,
\* or known to have been given up by a failure or a restart (service.py: every way out of a
\* submission binds the row, marks it failed or counts the failure to do so).  The client
\* deletes no link whose submission is pending: restoring one brings back a reservation
\* nobody works on.
THEOREM ReservationsHaveOwners == ASSUME PendingLinksStay PROVE Spec => []ReservationHasOwner
PROOF
  <1>1. Init => ReservationsOwned
    <2>1. ASSUME Init PROVE DOMAIN row = {}
      <3>1. row = <<>> /\ DOMAIN <<>> = {}
        BY <2>1 DEF Init
      <3> QED BY <3>1
    <2> QED BY <2>1 DEF ReservationsOwned
  <1>2. IInv /\ ReservationsOwned /\ [Next]_vars => ReservationsOwned'
    BY OwnedStep
  <1>3. IInv /\ ReservationsOwned => ReservationHasOwner
    BY DEF ReservationsOwned, ReservationHasOwner, HasOwner, Owner
  <1> QED BY <1>1, <1>2, <1>3, DriveIsSound, PTL DEF Spec

-----------------------------------------------------------------------------
(* What upstream has erased, when one client at a time deletes. *)

OneDeleter == \A v, w \in Deleters : v = w

Confirmed == store.erased \ store.unanswered
Marked(i) == row[i].status \in {"delete_pending", "deleted"}

\* Where the deletion of a stands: the files it asks upstream to erase are marked, and
\* as long as it may restore anything it would restore nothing upstream has confirmed.
DeletionKnows(a) ==
  /\ a \in Deleters
  /\ pc[a] = "erase" => \A i \in job[a].ids : row[i].file => row[i].status = "delete_pending"
  /\ pc[a] # "finalise" \/ ~job[a].sure =>
       \A i \in DOMAIN job[a].was : i \in Confirmed => job[a].was[i] = "delete_pending"

GhostInv ==
  /\ \A i \in store.erased : i \in DOMAIN row /\ row[i].file
  /\ \A i \in Confirmed : Marked(i)
  /\ \A a \in Actors : job[a].op \in Deletions => DeletionKnows(a)

\* The steps of deletions.
DeletionStep(a) ==
  \/ \E route \in Deletions, ids \in SUBSET DOMAIN row : SoftDelete(a, route, ids) \/ SoftDeleteFails(a, route, ids)
  \/ Erase(a) \/ RestoreStatus(a) \/ FinaliseDelete(a)
  \/ EraseFails(a) \/ RestoreFails(a) \/ FinaliseFails(a)

\* What every step keeps of a row.
LEMMA StillFile ==
  ASSUME IInv, Shape, NEW i \in DOMAIN row
  PROVE  i \in DOMAIN row' /\ row'[i].kind = row[i].kind /\ (row[i].file => row'[i].file)
PROOF
  <1> DEFINE r == row[i]
             s == row'[i]
  <1>1. r \in RowType /\ RowStep(i, r, s, Answered) /\ i \in DOMAIN row'
    BY RowTyped DEF Shape
  <1> HIDE DEF r, s
  <1>2. s.kind = r.kind /\ (r.file => s.file)
    BY <1>1 DEF RowStep, Binds, Gives, SizeGiven, Splits, RowType
  <1> QED BY <1>1, <1>2 DEF r, s

\* Any other step leaves deletions, what they have marked and what upstream has said alone.
Calm ==
  /\ \A i \in DOMAIN row : row[i].file /\ Marked(i) => row'[i].status = row[i].status
  /\ \A a \in Actors : job'[a].op \in Deletions => job'[a] = job[a] /\ pc'[a] = pc[a]

LEMMA CalmKeeps ==
  ASSUME IInv, IInv', Shape, GhostInv, Calm, UNCHANGED store
  PROVE  GhostInv'
PROOF
  <1>1. \A i \in store'.erased : i \in DOMAIN row' /\ row'[i].file
    BY StillFile DEF GhostInv
  <1>2. Confirmed' = Confirmed
    BY DEF Confirmed
  <1>3. \A i \in Confirmed : Marked(i)'
    BY DEF Calm, GhostInv, Marked, Confirmed
  <1>4. ASSUME NEW a \in Actors, job'[a].op \in Deletions PROVE DeletionKnows(a)'
    <2>1. /\ job'[a] = job[a] /\ pc'[a] = pc[a] /\ DeletionKnows(a) /\ job[a].ids \subseteq DOMAIN row
          /\ \A i \in job[a].ids : row[i].file \/ row[i].kind = "link"
      BY <1>4 DEF Calm, GhostInv, IInv, KnowsRows, KnowsDeleted
    <2>2. ASSUME pc[a] = "erase", NEW i \in job[a].ids, row'[i].file PROVE row'[i].status = "delete_pending"
      <3>1. row[i].file
        BY <2>1, <2>2, StillFile DEF IInv, RowsOK
      <3>2. row[i].status = "delete_pending"
        BY <2>1, <2>2, <3>1 DEF DeletionKnows
      <3> QED BY <2>1, <2>2, <3>1, <3>2 DEF Calm, Marked
    <2> QED BY <1>2, <2>1, <2>2 DEF DeletionKnows
  <1> QED BY <1>1, <1>2, <1>3, <1>4 DEF GhostInv

\* A step of a that is none of a deletion.
LEMMA CalmStep ==
  ASSUME IInv, IInv', NEW a \in Actors, Apart(a), pc'[a] \notin {"erase", "restore", "finalise"},
         \A i \in DOMAIN row : row[i].file /\ Marked(i) => row'[i].status = row[i].status
  PROVE  Calm
PROOF
  <1>1. job'[a].op \notin Deletions
    BY DEF IInv, OnRoute
  <1> QED BY <1>1 DEF Calm, Apart

LEMMA CalmArrives ==
  ASSUME IInv, IInv', NEW a \in Workers, Arrive(a)
  PROVE  DeletionStep(a) \/ (Calm /\ UNCHANGED store)
PROOF
  <1>0. a \in Actors
    BY DEF Actors
  <1>1. SUFFICES ASSUME ~DeletionStep(a) PROVE Calm /\ UNCHANGED store
    OBVIOUS
  <1>2. \/ \E op \in {"upload", "link"}, size \in Sizes : EnsureQuota(a, op, size)
        \/ ReserveSlot(a) \/ Refresh(a)
        \/ \E i \in DOMAIN row, size \in Reports : Callback(a, "callback", i, size)
        \/ \E i \in DOMAIN row : Callback(a, "report", i, 0)
    BY <1>1 DEF Arrive, DeletionStep, Deletions
  <1>3. UNCHANGED <<row, store>> /\ pc'[a] \in {"insert", "poll", "complete"}
    BY <1>0, <1>2 DEF EnsureQuota, ReserveSlot, Refresh, Callback, GoTo, Upstream, IInv
  <1> QED BY <1>0, <1>3, ArriveApart, CalmStep

LEMMA EndIdle == ASSUME IInv, NEW a \in Actors, End(a) PROVE pc'[a] = "idle"
BY DEF End, GoTo, IInv

LEMMA NextParentGoes == ASSUME IInv, NEW a \in Actors, NEW i, NextParent(a, i) PROVE pc'[a] \in {"idle", "poll"}
BY EndIdle DEF NextParent, GoTo, IInv

LEMMA CalmFails ==
  ASSUME IInv, IInv', NEW a \in Actors, Fails(a)
  PROVE  DeletionStep(a) \/ (Calm /\ UNCHANGED store)
PROOF
  <1>1. SUFFICES ASSUME ~DeletionStep(a) PROVE Calm /\ UNCHANGED store
    OBVIOUS
  <1>2. InsertFails(a) \/ MarkFailedFails(a) \/ EnqueueFails(a) \/ RequestFails(a) \/ PollFails(a)
    BY <1>1 DEF Fails, DeletionStep
  <1>3. UNCHANGED <<row, store>>
    BY <1>2 DEF InsertFails, MarkFailedFails, EnqueueFails, RequestFails, PollFails, Upstream
  <1>4. pc'[a] \in {"idle", "fail", "poll"}
    <2>1. CASE InsertFails(a) \/ MarkFailedFails(a)
      BY <2>1, EndIdle DEF InsertFails, MarkFailedFails
    <2>2. CASE EnqueueFails(a)
      BY <2>2 DEF EnqueueFails, GoTo, IInv
    <2>3. CASE RequestFails(a)
      BY <2>3, EndIdle DEF RequestFails, GoTo, IInv
    <2>4. CASE PollFails(a)
      BY <2>4, EndIdle, NextParentGoes DEF PollFails
    <2> QED BY <1>2, <2>1, <2>2, <2>3, <2>4
  <1> QED BY <1>3, <1>4, FailsApart, CalmStep

LEMMA CalmProceeds ==
  ASSUME IInv, IInv', NEW a \in Actors, Proceed(a)
  PROVE  DeletionStep(a) \/ (Calm /\ UNCHANGED store)
PROOF
  <1>1. SUFFICES ASSUME ~DeletionStep(a) PROVE Calm /\ UNCHANGED store
    OBVIOUS
  <1>2. /\ \/ Insert(a) \/ AttachUpload(a) \/ MarkFailed(a) \/ Enqueue(a) \/ AttachLink(a)
           \/ EnsureGrowth(a) \/ GrowLink(a) \/ CompleteUpload(a) \/ GrowUpload(a) \/ Settle(a) \/ SettleGrown(a)
        /\ ~Erase(a) /\ ~RestoreStatus(a) /\ ~FinaliseDelete(a)
    BY <1>1 DEF Proceed, DeletionStep
  <1>3. UNCHANGED store
    BY <1>2 DEF Insert, AttachUpload, MarkFailed, Enqueue, AttachLink, EnsureGrowth, GrowLink, CompleteUpload,
           GrowUpload, Settle, SettleGrown, Upstream
  <1>4. pc'[a] \notin {"erase", "restore", "finalise"}
    <2>1. CASE Insert(a) \/ Enqueue(a)
      BY <2>1 DEF Insert, Enqueue, GoTo, IInv
    <2>2. CASE AttachUpload(a) \/ MarkFailed(a) \/ GrowLink(a) \/ GrowUpload(a)
      BY <2>2, EndIdle DEF AttachUpload, MarkFailed, GrowLink, GrowUpload
    <2>3. CASE AttachLink(a) \/ CompleteUpload(a)
      BY <2>3, EndIdle DEF AttachLink, CompleteUpload, GoTo, IInv
    <2>4. CASE EnsureGrowth(a)
      <3>1. job[a].op \in {"link", "callback", "refresh"}
        BY <2>4 DEF EnsureGrowth, At, IInv, OnRoute
      <3> QED BY <2>4, <3>1, EndIdle, NextParentGoes DEF EnsureGrowth, GoTo, IInv
    <2>5. CASE Settle(a) \/ SettleGrown(a)
      BY <2>5, NextParentGoes DEF Settle, SettleGrown, GoTo, IInv
    <2> QED BY <1>2, <2>1, <2>2, <2>3, <2>4, <2>5
  <1>5. ASSUME NEW i \in DOMAIN row, row[i].file, Marked(i) PROVE row'[i].status = row[i].status
    <2>0. row[i].kind # "link" /\ row[i].status # "reserved" /\ row[i] \in RowType
      BY <1>5, RowTyped DEF Marked, IInv, RowsOK
    <2>1. CASE Insert(a)
      <3>1. row \in Seq(RowType) /\ DOMAIN row = 1..Len(row) /\ Len(row) \in Nat
        BY LenProperties DEF IInv, RowsOK
      <3>2. PICK r : row' = Append(row, r)
        BY <2>1 DEF Insert
      <3>3. row'[i] = row[i]
        BY <1>5, <3>1, <3>2, AppendStays
      <3> QED BY <3>3
    <2>2. CASE AttachUpload(a)
      BY <1>5, <2>0, <2>2 DEF AttachUpload, RowType
    <2>3. CASE MarkFailed(a)
      <3>1. job[a].row \in DOMAIN row /\ ~row[job[a].row].file
        BY <2>3 DEF MarkFailed, At, IInv, OnRoute, KnowsRows, Owner
      <3> QED BY <1>5, <2>3, <3>1 DEF MarkFailed, SetStatus
    <2>4. CASE AttachLink(a) \/ GrowLink(a)
      <3>1. job[a].row \in DOMAIN row /\ ~row[job[a].row].file
        BY <2>4 DEF AttachLink, GrowLink, At, IInv, OnRoute, KnowsRows, Owner
      <3> QED BY <1>5, <2>4, <3>1 DEF AttachLink, GrowLink
    <2>5. CASE CompleteUpload(a)
      BY <1>5, <2>0, <2>5 DEF CompleteUpload, SetStatus
    <2>6. CASE GrowUpload(a)
      <3>1. row[job[a].row].status = "reserved"
        BY <2>6 DEF GrowUpload, At, IInv, KnowsRows
      <3> QED BY <1>5, <2>0, <2>6, <3>1 DEF GrowUpload
    <2>7. ASSUME NEW p \in DOMAIN row, SplitOf(p) PROVE row'[i].status = row[i].status
      <3>1. PICK kept : Fanned(p, kept)
        BY <2>7, FanOutShape DEF SplitOf
      <3>2. i # p
        BY <2>0, <2>7 DEF SplitOf
      <3>3. row'[i] = row[i]
        BY <1>5, <3>1, <3>2 DEF Fanned
      <3> QED BY <3>3
    <2>8. CASE UNCHANGED row
      BY <2>8
    <2>9. CASE Settle(a) \/ SettleGrown(a)
      BY <2>7, <2>8, <2>9, SplitsOrStays
    <2> QED BY <1>2, <2>1, <2>2, <2>3, <2>4, <2>5, <2>6, <2>8, <2>9 DEF Enqueue, EnsureGrowth
  <1> QED BY <1>3, <1>4, <1>5, ProceedApart, CalmStep

\* One deletion at a time: nobody else's is disturbed.
LEMMA LoneDeletion ==
  ASSUME IInv, Shape, GhostInv, OneDeleter, NEW a \in Actors, a \in Deleters, Apart(a),
         \A i \in store'.erased : i \in store.erased \/ (i \in DOMAIN row /\ row[i].file),
         \A i \in Confirmed' : Marked(i)', job'[a].op \in Deletions => DeletionKnows(a)'
  PROVE  GhostInv'
PROOF
  <1>1. \A i \in store'.erased : i \in DOMAIN row' /\ row'[i].file
    BY StillFile DEF GhostInv
  <1>2. ASSUME NEW b \in Actors \ {a} PROVE job'[b].op \notin Deletions
    BY <1>2 DEF Apart, GhostInv, DeletionKnows, OneDeleter
  <1> QED BY <1>1, <1>2 DEF GhostInv

\* Only deletions are in these places, and what they know.
LEMMA Deleting ==
  ASSUME IInv, GhostInv, NEW a \in Actors, pc[a] \in {"erase", "restore", "finalise"}
  PROVE  /\ job[a].op \in Deletions /\ DeletionKnows(a) /\ a \in Deleters
         /\ job[a].ids \subseteq DOMAIN row /\ DOMAIN job[a].was \subseteq DOMAIN row
BY DEF IInv, OnRoute, GhostInv, KnowsRows, KnowsDeleted, DeletionKnows

LEMMA DeletionApart == ASSUME IInv, NEW a \in Actors, DeletionStep(a) PROVE Apart(a)
PROOF
  <1>1. ASSUME NEW route, NEW ids, SoftDelete(a, route, ids) \/ SoftDeleteFails(a, route, ids) PROVE Apart(a)
    BY <1>1, MovesApart DEF SoftDelete, SoftDeleteFails, GoTo, Learn, Pool
  <1>2. CASE Erase(a) \/ RestoreStatus(a) \/ FinaliseDelete(a)
    BY <1>2, ProceedApart DEF Proceed
  <1>3. CASE EraseFails(a) \/ RestoreFails(a) \/ FinaliseFails(a)
    BY <1>3, FailsApart DEF Fails
  <1> QED BY <1>1, <1>2, <1>3 DEF DeletionStep

LEMMA SoftDeleteGhost ==
  ASSUME IInv, Shape, GhostInv, OneDeleter, NEW a \in Actors, NEW route \in Deletions, NEW ids \in SUBSET DOMAIN row,
         SoftDelete(a, route, ids) \/ SoftDeleteFails(a, route, ids)
  PROVE  GhostInv'
PROOF
  <1> DEFINE was == [i \in ids |-> row[i].status]
  <1>1. a \in Deleters /\ \A i \in ids : row[i].status # "deleted"
    BY DEF SoftDelete, SoftDeleteFails, Deletion, Deletable
  <1>2. Confirmed' = Confirmed /\ UNCHANGED store
    BY DEF SoftDelete, SoftDeleteFails, Upstream, Confirmed
  <1>3. \A i \in Confirmed : i \in DOMAIN row /\ Marked(i)
    BY DEF GhostInv, Confirmed
  <1>4. \A i \in ids : i \in Confirmed => was[i] = "delete_pending"
    BY <1>1, <1>3 DEF Marked
  <1>5. job'[a].was = was /\ job'[a].sure = FALSE
    BY DEF SoftDelete, SoftDeleteFails, Learn, Idle, IInv
  <1> HIDE DEF was
  <1>6. DOMAIN was = ids
    BY DEF was
  <1>7. Apart(a)
    BY DeletionApart DEF DeletionStep
  <1>8. CASE SoftDelete(a, route, ids)
    <2>1. /\ row' = [i \in DOMAIN row |->
                       IF i \in ids THEN [row[i] EXCEPT !.status = "delete_pending"] ELSE row[i]]
          /\ job'[a].ids = ids
      BY <1>8 DEF SoftDelete, Learn, Idle, IInv
    <2>2. \A i \in ids : row'[i].status = "delete_pending"
      <3>1. \A i \in DOMAIN row : row[i] \in RowType
        BY RowTyped
      <3> QED BY <2>1, <3>1 DEF RowType
    <2>3. \A i \in Confirmed : Marked(i)'
      BY <1>3, <2>1, <2>2 DEF Marked
    <2>4. DeletionKnows(a)'
      BY <1>1, <1>2, <1>4, <1>5, <1>6, <2>1, <2>2 DEF DeletionKnows
    <2> QED BY <1>1, <1>2, <1>7, <2>3, <2>4, LoneDeletion
  <1>9. CASE SoftDeleteFails(a, route, ids)
    <2>1. UNCHANGED row /\ pc'[a] = "restore"
      BY <1>9 DEF SoftDeleteFails, GoTo, IInv
    <2>2. \A i \in Confirmed : Marked(i)'
      BY <1>3, <2>1 DEF Marked
    <2>3. DeletionKnows(a)'
      BY <1>1, <1>2, <1>4, <1>5, <1>6, <2>1 DEF DeletionKnows
    <2> QED BY <1>1, <1>2, <1>7, <2>2, <2>3, LoneDeletion
  <1> QED BY <1>8, <1>9

LEMMA EraseGhost ==
  ASSUME IInv, Shape, GhostInv, OneDeleter, NEW a \in Actors, Erase(a)
  PROVE  GhostInv'
PROOF
  <1> DEFINE files == {i \in job[a].ids : row[i].file}
             j == job[a]
  <1>1. pc[a] = "erase" /\ UNCHANGED row
    BY DEF Erase, At
  <1>2. /\ DeletionKnows(a) /\ a \in Deleters /\ j.ids \subseteq DOMAIN row /\ JobTyped(j)
        /\ \A i \in files : row[i].status = "delete_pending"
        /\ \A i \in DOMAIN j.was : i \in Confirmed => j.was[i] = "delete_pending"
    BY <1>1, Deleting DEF DeletionKnows, IInv
  <1>3. PICK no \in (IF j.op = "file" THEN {{}} ELSE SUBSET files) :
          LET kept == IF j.op = "files" THEN no ELSE {} IN
          /\ store' = [store EXCEPT !.erased = @ \union (files \ no), !.refused = @ \union (no \ kept)]
          /\ IF kept = {}
             THEN Learn(a, [j EXCEPT !.sure = TRUE]) /\ GoTo(a, "finalise")
             ELSE /\ Learn(a, [j EXCEPT !.sure = TRUE, !.ids = @ \ kept, !.was = Without(@, j.ids \ kept)])
                  /\ GoTo(a, "restore")
    BY DEF Erase
  <1> DEFINE kept == IF j.op = "files" THEN no ELSE {}
  <1>4. no \subseteq files /\ (kept = no \/ kept = {})
    BY <1>3
  <1>5. store' = [store EXCEPT !.erased = @ \union (files \ no), !.refused = @ \union (no \ kept)]
    BY <1>3
  <1>6. IF kept = {}
        THEN job'[a] = [j EXCEPT !.sure = TRUE] /\ pc'[a] = "finalise"
        ELSE /\ job'[a] = [j EXCEPT !.sure = TRUE, !.ids = @ \ kept, !.was = Without(@, j.ids \ kept)]
             /\ pc'[a] = "restore"
    BY <1>3 DEF Learn, GoTo, IInv
  <1> HIDE DEF kept
  <1> HIDE DEF files
  <1>7. /\ store'.erased = store.erased \union (files \ no) /\ store'.unanswered = store.unanswered
        /\ Confirmed' = Confirmed \union ((files \ no) \ store.unanswered)
    BY <1>4, <1>5 DEF Confirmed, IInv, StoreOK
  <1>8. \A i \in Confirmed' : Marked(i)'
    BY <1>1, <1>2, <1>7 DEF GhostInv, Marked
  <1>9. \A i \in store'.erased : i \in store.erased \/ (i \in DOMAIN row /\ row[i].file)
    BY <1>2, <1>7 DEF files
  <1>10. DeletionKnows(a)'
    <2>1. CASE kept = {}
      <3>1. job'[a].sure = TRUE /\ pc'[a] = "finalise"
        BY <1>2, <1>6, <2>1 DEF JobTyped
      <3> QED BY <1>2, <3>1 DEF DeletionKnows
    <2>2. CASE kept # {}
      <3>1. job'[a].was = Without(j.was, j.ids \ kept) /\ pc'[a] = "restore" /\ kept = no
        BY <1>2, <1>4, <1>6, <2>2 DEF JobTyped
      <3>2. ASSUME NEW i \in DOMAIN job'[a].was, i \in Confirmed' PROVE job'[a].was[i] = "delete_pending"
        <4>1. i \in DOMAIN j.was /\ i \notin j.ids \ no /\ job'[a].was[i] = j.was[i]
          BY <3>1, <3>2 DEF Without
        <4>2. i \notin files \ no
          BY <4>1 DEF files
        <4> QED BY <1>2, <1>7, <3>2, <4>1, <4>2
      <3> QED BY <1>2, <3>1, <3>2 DEF DeletionKnows
    <2> QED BY <2>1, <2>2
  <1>11. Apart(a)
    BY DeletionApart DEF DeletionStep
  <1> QED BY <1>2, <1>8, <1>9, <1>10, <1>11, LoneDeletion

\* A deletion that only fails or restores forgets some of what it has to restore.
LEMMA RestoresLess ==
  ASSUME IInv, GhostInv, NEW a \in Actors, DeletionKnows(a), pc[a] # "finalise" \/ ~job[a].sure,
         pc'[a] # "erase", Confirmed' \subseteq Confirmed,
         NEW S, job'[a].was = job[a].was \/ job'[a].was = Without(job[a].was, S)
  PROVE  DeletionKnows(a)'
BY DEF DeletionKnows, Without

LEMMA FailedDeletionGhost ==
  ASSUME IInv, Shape, GhostInv, OneDeleter, NEW a \in Actors, EraseFails(a) \/ FinaliseFails(a)
  PROVE  GhostInv'
PROOF
  <1>1. pc[a] \in {"erase", "finalise"} /\ UNCHANGED row
    BY DEF EraseFails, FinaliseFails, At
  <1>2. DeletionKnows(a) /\ a \in Deleters /\ job[a].ids \subseteq DOMAIN row /\ JobTyped(job[a])
    BY <1>1, Deleting DEF IInv
  <1>3. Apart(a)
    BY DeletionApart DEF DeletionStep
  <1>4. /\ \A i \in store'.erased : i \in store.erased \/ (i \in DOMAIN row /\ row[i].file)
        /\ Confirmed' \subseteq Confirmed
    <2>1. CASE UNCHANGED store
      BY <2>1 DEF Confirmed
    <2>2. CASE EraseFails(a)
      <3> DEFINE files == {i \in job[a].ids : row[i].file}
      <3>1. \/ UNCHANGED store
            \/ store' = [store EXCEPT !.erased = @ \union files, !.unanswered = @ \union files]
        BY <2>2 DEF EraseFails
      <3>2. \A i \in files : i \in DOMAIN row /\ row[i].file
        BY <1>2
      <3> HIDE DEF files
      <3> QED BY <2>1, <3>1, <3>2 DEF Confirmed, IInv, StoreOK
    <2> QED BY <2>1, <2>2 DEF FinaliseFails, Upstream
  <1>5. \A i \in Confirmed' : Marked(i)'
    BY <1>1, <1>4 DEF GhostInv, Marked
  <1>6. CASE pc'[a] = "restore" /\ job'[a] = [job[a] EXCEPT !.ids = {}] /\ (pc[a] = "finalise" => ~job[a].sure)
    <2>1. job'[a].was = job[a].was
      BY <1>2, <1>6 DEF JobTyped
    <2>2. DeletionKnows(a)'
      BY <1>1, <1>2, <1>4, <1>6, <2>1, RestoresLess
    <2> QED BY <1>2, <1>3, <1>4, <1>5, <2>2, LoneDeletion
  <1>7. CASE job'[a] = Idle
    <2>1. job'[a].op \notin Deletions
      BY <1>7 DEF Idle, Deletions
    <2> QED BY <1>2, <1>3, <1>4, <1>5, <2>1, LoneDeletion
  <1>8. CASE EraseFails(a)
    BY <1>6, <1>8 DEF EraseFails, At, GoTo, Learn, IInv
  <1>9. CASE FinaliseFails(a)
    BY <1>6, <1>7, <1>9 DEF FinaliseFails, GoTo, Learn, IInv, End
  <1> QED BY <1>8, <1>9

LEMMA RestoreGhost ==
  ASSUME IInv, Shape, GhostInv, OneDeleter, NEW a \in Actors, RestoreStatus(a) \/ RestoreFails(a)
  PROVE  GhostInv'
PROOF
  <1>1. pc[a] = "restore" /\ UNCHANGED store /\ Confirmed' = Confirmed
    BY DEF RestoreStatus, RestoreFails, At, Upstream, Confirmed
  <1>2. DeletionKnows(a) /\ a \in Deleters /\ DOMAIN job[a].was \subseteq DOMAIN row /\ JobTyped(job[a])
    BY <1>1, Deleting DEF IInv
  <1>3. Apart(a)
    BY DeletionApart DEF DeletionStep
  <1>4. PICK i \in DOMAIN job[a].was : Restored(a, i) /\ (UNCHANGED row \/ SetStatus(i, job[a].was[i]))
    BY DEF RestoreStatus, RestoreFails
  <1>5. \A k \in Confirmed' : Marked(k)'
    <2>1. CASE UNCHANGED row
      BY <1>1, <2>1 DEF GhostInv, Marked
    <2>2. CASE SetStatus(i, job[a].was[i])
      <3>1. i \in Confirmed => job[a].was[i] = "delete_pending"
        BY <1>1, <1>2, <1>4 DEF DeletionKnows
      <3>2. row' = [row EXCEPT ![i] = [row[i] EXCEPT !.status = job[a].was[i]]] /\ row[i] \in RowType /\ i \in DOMAIN row
        BY <1>2, <2>2, RowTyped DEF SetStatus
      <3>3. row'[i].status = job[a].was[i] /\ \A k \in DOMAIN row \ {i} : row'[k] = row[k]
        BY <3>2 DEF RowType
      <3>4. \A k \in Confirmed : k \in DOMAIN row /\ Marked(k)
        BY DEF GhostInv, Confirmed
      <3> QED BY <1>1, <3>1, <3>3, <3>4 DEF Marked
    <2> QED BY <1>4, <2>1, <2>2
  <1>6. ASSUME job'[a].op \in Deletions PROVE DeletionKnows(a)'
    <2>1. job'[a] # Idle
      BY <1>6 DEF Idle, Deletions
    <2>2. /\ job'[a] = [job[a] EXCEPT !.was = Without(job[a].was, {i})]
          /\ pc'[a] \in {"restore", "finalise"}
      BY <1>1, <1>4, <2>1 DEF Restored, End, Learn, GoTo, IInv
    <2>3. job'[a].was = Without(job[a].was, {i})
      BY <1>2, <2>2 DEF JobTyped
    <2> QED BY <1>1, <1>2, <2>2, <2>3, RestoresLess
  <1> QED BY <1>1, <1>2, <1>3, <1>5, <1>6, LoneDeletion

LEMMA FinaliseGhost ==
  ASSUME IInv, Shape, GhostInv, OneDeleter, NEW a \in Actors, FinaliseDelete(a)
  PROVE  GhostInv'
PROOF
  <1>1. /\ pc[a] = "finalise" /\ UNCHANGED store /\ Confirmed' = Confirmed
        /\ row' = [i \in DOMAIN row |->
                     IF i \in job[a].ids /\ row[i].status = "delete_pending"
                     THEN [row[i] EXCEPT !.status = "deleted"] ELSE row[i]]
    BY DEF FinaliseDelete, At, Upstream, Confirmed
  <1>2. a \in Deleters
    BY <1>1, Deleting
  <1>3. Apart(a)
    BY DeletionApart DEF DeletionStep
  <1>4. ASSUME NEW i \in Confirmed' PROVE Marked(i)'
    <2>1. i \in DOMAIN row /\ Marked(i)
      BY <1>1, <1>4 DEF GhostInv, Confirmed
    <2>2. row[i] \in RowType
      BY <2>1, RowTyped
    <2> QED BY <1>1, <2>1, <2>2 DEF Marked, RowType
  <1>5. job'[a].op \notin Deletions
    BY DEF FinaliseDelete, End, Learn, IInv, Idle, Deletions
  <1> QED BY <1>1, <1>2, <1>3, <1>4, <1>5, LoneDeletion

LEMMA GhostStep ==
  ASSUME IInv, GhostInv, OneDeleter, [Next]_vars
  PROVE  GhostInv'
PROOF
  <1>1. IInv' /\ Shape
    BY NextKeeps, StepShape
  <1>2. ASSUME Calm, UNCHANGED store PROVE GhostInv'
    BY <1>1, <1>2, CalmKeeps
  <1>3. ASSUME NEW a \in Actors, DeletionStep(a) PROVE GhostInv'
    BY <1>1, <1>3, SoftDeleteGhost, EraseGhost, FailedDeletionGhost, RestoreGhost, FinaliseGhost DEF DeletionStep
  <1>4. ASSUME NEW w \in Workers, Arrive(w) PROVE GhostInv'
    <2>1. w \in Actors
      BY DEF Actors
    <2> QED BY <1>1, <1>2, <1>3, <1>4, <2>1, CalmArrives
  <1>5. ASSUME NEW a \in Actors, Proceed(a) \/ Fails(a) PROVE GhostInv'
    BY <1>1, <1>2, <1>3, <1>5, CalmProceeds, CalmFails
  <1>6. ASSUME NEW t \in Threads, RunSubmission(t) PROVE GhostInv'
    <2>1. t \in Actors /\ UNCHANGED <<row, store>> /\ pc'[t] = "submit"
      BY <1>6 DEF RunSubmission, Actors, Upstream, GoTo, IInv
    <2> QED BY <1>1, <1>2, <1>6, <2>1, SubmissionApart, CalmStep
  <1>7. ASSUME NEW i \in DOMAIN row, LinkEnds(i) PROVE GhostInv'
    BY <1>2, <1>7 DEF LinkEnds, Calm
  <1>8. CASE Crash
    <2>1. UNCHANGED <<row, store>> /\ \A a \in Actors : job'[a].op \notin Deletions
      BY <1>8 DEF Crash, Upstream, Idle, Deletions
    <2> QED BY <1>2, <2>1 DEF Calm
  <1>9. CASE UNCHANGED vars
    <2>1. UNCHANGED <<row, store, pc, job>>
      BY <1>9 DEF vars
    <2> QED BY <1>2, <2>1 DEF Calm
  <1> QED BY <1>4, <1>5, <1>6, <1>7, <1>8, <1>9 DEF Next

\* The client is never shown a file upstream has said it erased: whatever fails afterwards,
\* what a deletion restores is only what upstream has not confirmed (service.py: once the
\* files are erased the rows stay marked).  It holds as long as one client at a time deletes:
\* two deletions of the same file restore each other's rows.
THEOREM NothingErasedIsShown == ASSUME OneDeleter PROVE Spec => []NoGhost
PROOF
  <1>1. Init => GhostInv
    <2>1. ASSUME Init PROVE store.erased = {} /\ \A a \in Actors : job[a].op \notin Deletions
      BY <2>1 DEF Init, Idle, Deletions
    <2> QED BY <2>1 DEF GhostInv, Confirmed
  <1>2. IInv /\ GhostInv /\ [Next]_vars => GhostInv'
    BY GhostStep
  <1>3. IInv /\ GhostInv => NoGhost
    BY DEF NoGhost, GhostInv, Confirmed, Marked, Listed
  <1> QED BY <1>1, <1>2, <1>3, DriveIsSound, PTL DEF Spec

-----------------------------------------------------------------------------
(* Pending links, when the client deletes none of them and one client deletes. *)

Pending(i) == row[i].status = "transfer_pending"

\* What is bound or to be bound is pending until it is settled or given up, a refresh
\* knows what its links reserve, and nobody else finalises what a deletion may restore.
LinksInv ==
  /\ \A i \in DOMAIN row : row[i].kind = "link" /\ row[i].upload /\ ~row[i].settled => Pending(i)
  /\ \A a \in Actors :
       /\ Owner(a) /\ job[a].op = "link" => Pending(job[a].row)
       /\ job[a].op = "refresh" => \A i \in DOMAIN job[a].todo : row[i].settled \/ row[i].size = job[a].todo[i]
       /\ job[a].op \in Deletions => \A i \in DOMAIN job[a].was : row[i].status # "deleted"
  /\ \A k \in 1..Len(queue) : Pending(queue[k])

\* Row i is not bound, not resized and not given up.
Minor(i) ==
  /\ row'[i].upload = row[i].upload /\ row'[i].size = row[i].size
  /\ Pending(i) => row'[i].status # "failed"

WritesRow(a, i) ==
  job[a].row = i /\ (MarkFailed(a) \/ AttachLink(a) \/ GrowLink(a) \/ GrowUpload(a))

LEMMA StatusIsMinor ==
  ASSUME IInv, NEW i \in DOMAIN row, NEW s, row'[i] = [row[i] EXCEPT !.status = s], Pending(i) => s # "failed"
  PROVE  Minor(i)
BY RowTyped DEF Minor, RowType

LEMMA OneWriter ==
  ASSUME IInv, [Next]_vars, NEW i \in DOMAIN row
  PROVE  Minor(i) \/ SplitOf(i) \/ \E a \in Actors : WritesRow(a, i)
PROOF
  <1>0. ASSUME row'[i] = row[i] PROVE Minor(i)
    BY <1>0 DEF Minor, Pending
  <1>1. ASSUME NEW a \in Actors, Proceed(a), ~WritesRow(a, i), ~SplitOf(i) PROVE Minor(i)
    <2>1. CASE Insert(a)
      <3>1. PICK r : row' = Append(row, r)
        BY <2>1 DEF Insert
      <3>2. row'[i] = row[i]
        BY <3>1, AppendStays, LenProperties DEF IInv, RowsOK
      <3> QED BY <1>0, <3>2
    <2>2. CASE AttachUpload(a)
      <3>1. row' = [row EXCEPT ![job[a].row] = [row[job[a].row] EXCEPT !.file = TRUE]]
        BY <2>2 DEF AttachUpload
      <3>2. row[i] \in RowType
        BY RowTyped
      <3>3. row'[i].upload = row[i].upload /\ row'[i].size = row[i].size /\ row'[i].status = row[i].status
        BY <3>1, <3>2 DEF RowType
      <3> QED BY <3>3 DEF Minor, Pending
    <2>3. CASE MarkFailed(a) \/ AttachLink(a) \/ GrowLink(a) \/ GrowUpload(a)
      <3>1. i # job[a].row
        BY <1>1, <2>3 DEF WritesRow
      <3>2. row'[i] = row[i]
        BY <2>3, <3>1 DEF MarkFailed, AttachLink, GrowLink, GrowUpload, SetStatus
      <3> QED BY <1>0, <3>2
    <2>4. CASE Enqueue(a) \/ EnsureGrowth(a) \/ Erase(a)
      BY <1>0, <2>4 DEF Enqueue, EnsureGrowth, Erase
    <2>5. CASE CompleteUpload(a)
      <3>1. CASE row'[i] # row[i]
        <4>1. PICK s : row' = [row EXCEPT ![job[a].row].status = s] /\ row[job[a].row].status = "reserved"
          BY <2>5, <3>1 DEF CompleteUpload, SetStatus
        <4>2. row'[i] = [row[i] EXCEPT !.status = s] /\ ~Pending(i)
          BY <3>1, <4>1 DEF Pending
        <4> QED BY <4>2, StatusIsMinor
      <3> QED BY <1>0, <3>1
    <2>6. CASE Settle(a) \/ SettleGrown(a)
      <3>1. ASSUME NEW p \in DOMAIN row, SplitOf(p) PROVE row'[i] = row[i]
        <4>1. PICK kept : Fanned(p, kept)
          BY <3>1, FanOutShape DEF SplitOf
        <4>2. i # p
          BY <1>1, <3>1
        <4> QED BY <4>1, <4>2 DEF Fanned
      <3> QED BY <1>0, <2>6, <3>1, SplitsOrStays
    <2>7. CASE RestoreStatus(a)
      <3>1. PICK k \in DOMAIN job[a].was :
              UNCHANGED row \/ (SetStatus(k, job[a].was[k]) /\ row[k].status \in {"delete_pending", "deleted"})
        BY <2>7 DEF RestoreStatus
      <3>2. CASE row'[i] # row[i]
        <4>1. row'[i] = [row[i] EXCEPT !.status = job[a].was[k]] /\ ~Pending(i)
          BY <3>1, <3>2 DEF SetStatus, Pending
        <4> QED BY <4>1, StatusIsMinor
      <3> QED BY <1>0, <3>2
    <2>8. CASE FinaliseDelete(a)
      <3>1. row'[i] = row[i] \/ row'[i] = [row[i] EXCEPT !.status = "deleted"]
        BY <2>8 DEF FinaliseDelete
      <3> QED BY <1>0, <3>1, StatusIsMinor
    <2> QED BY <1>1, <2>1, <2>2, <2>3, <2>4, <2>5, <2>6, <2>7, <2>8 DEF Proceed
  <1>2. ASSUME NEW w \in Workers, Arrive(w) PROVE Minor(i)
    <2>1. row'[i] = row[i] \/ row'[i] = [row[i] EXCEPT !.status = "delete_pending"]
      BY <1>2 DEF Arrive, EnsureQuota, ReserveSlot, Callback, Refresh, SoftDelete, SoftDeleteFails
    <2> QED BY <1>0, <2>1, StatusIsMinor
  <1>3. ASSUME NEW a \in Actors, Fails(a) PROVE Minor(i)
    BY <1>0, <1>3 DEF Fails, InsertFails, MarkFailedFails, EnqueueFails, RequestFails, PollFails, EraseFails,
           RestoreFails, FinaliseFails
  <1>4. ASSUME (\E t \in Threads : RunSubmission(t)) \/ Crash \/ UNCHANGED vars
                 \/ \E k \in DOMAIN row : LinkEnds(k)
        PROVE  Minor(i)
    BY <1>0, <1>4 DEF RunSubmission, Crash, vars, LinkEnds
  <1> QED BY <1>1, <1>2, <1>3, <1>4 DEF Next

\* A link that nobody gives up stays pending.
LEMMA PendingKept ==
  ASSUME IInv, [Next]_vars, PendingLinksStay, NEW i \in DOMAIN row, row[i].kind = "link", Pending(i),
         ~row[i].upload, \A a \in Actors : MarkFailed(a) => job[a].row # i
  PROVE  i \in DOMAIN row' /\ Pending(i)'
PROOF
  <1> DEFINE r == row[i]
             s == row'[i]
  <1>1. /\ r \in RowType /\ RowStep(i, r, s, Answered) /\ i \in DOMAIN row'
        /\ r.kind = "link" /\ r.status = "transfer_pending" /\ ~r.file /\ ~r.upload
    BY RowTyped, StepShape DEF Shape, Pending, IInv, RowsOK
  <1> HIDE DEF r, s
  <1>2. s.status = "transfer_pending" \/ s = [r EXCEPT !.status = "failed"]
    BY <1>1 DEF RowStep, Binds, Gives, SizeGiven, Splits, PendingLinksStay
  <1>3. ASSUME s = [r EXCEPT !.status = "failed"] PROVE s.status = "transfer_pending"
    <2>1. s.status = "failed" /\ s.upload = r.upload /\ s.kind = "link"
      BY <1>1, <1>3 DEF RowType
    <2>2. ~Minor(i) /\ ~SplitOf(i)
      BY <1>1, <2>1 DEF Minor, Pending, r, s, SplitOf
    <2>3. PICK a \in Actors : WritesRow(a, i)
      BY <2>2, OneWriter
    <2>4. CASE AttachLink(a)
      <3>1. row' = row \/ row' = [row EXCEPT ![i] = [row[i] EXCEPT !.upload = TRUE]]
        BY <2>3, <2>4 DEF AttachLink, WritesRow
      <3> QED BY <1>1, <2>1, <3>1 DEF RowType, r, s
    <2>5. CASE GrowLink(a)
      <3>1. row' = [row EXCEPT ![i] = [row[i] EXCEPT !.upload = TRUE, !.size = job[a].size]]
        BY <2>3, <2>5 DEF GrowLink, WritesRow
      <3> QED BY <1>1, <2>1, <3>1 DEF RowType, r, s
    <2>6. CASE GrowUpload(a)
      <3>1. job[a].op = "callback" /\ job[a].row = i
        BY <2>3, <2>6 DEF GrowUpload, WritesRow
      <3> QED BY <1>1, <3>1 DEF IInv, KnowsRows, r
    <2> QED BY <2>3, <2>4, <2>5, <2>6 DEF WritesRow
  <1> QED BY <1>1, <1>2, <1>3 DEF Pending, s

\* The job goes on: some of what is left to do may be done.
JobGoesOn(a) ==
  /\ pc[a] \notin {"idle", "insert"} /\ job'[a].op = job[a].op
  /\ job[a].op \in {"upload", "link"} => job'[a].row = job[a].row
  /\ \A i \in DOMAIN job'[a].todo : i \in DOMAIN job[a].todo /\ job'[a].todo[i] = job[a].todo[i]
  /\ \A i \in DOMAIN job'[a].was : i \in DOMAIN job[a].was /\ job'[a].was[i] = job[a].was[i]

LEMMA SameJobGoesOn ==
  ASSUME IInv, NEW a \in Actors, pc[a] \notin {"idle", "insert"},
         \/ UNCHANGED job
         \/ \E s : Learn(a, [job[a] EXCEPT !.size = s])
         \/ \E r, s : Learn(a, [job[a] EXCEPT !.row = r, !.size = s]) /\ job[a].op = "refresh"
         \/ Learn(a, [job[a] EXCEPT !.slot = FALSE])
         \/ \E s : Learn(a, [job[a] EXCEPT !.ids = s]) 
         \/ \E b : Learn(a, [job[a] EXCEPT !.sure = b])
  PROVE  JobGoesOn(a)
PROOF
  <1>1. JobTyped(job[a]) /\ DOMAIN job = Actors
    BY DEF IInv
  <1> DEFINE j == job[a]
             j2 == job'[a]
  <1>2. \/ j2 = j
        \/ \E s : j2 = [j EXCEPT !.size = s]
        \/ \E r, s : j2 = [j EXCEPT !.row = r, !.size = s] /\ j.op = "refresh"
        \/ j2 = [j EXCEPT !.slot = FALSE]
        \/ \E s : j2 = [j EXCEPT !.ids = s]
        \/ \E b : j2 = [j EXCEPT !.sure = b]
    BY <1>1 DEF Learn
  <1> HIDE DEF j2
  <1>3. j2.op = j.op /\ j2.todo = j.todo /\ j2.was = j.was /\ (j.op \in {"upload", "link"} => j2.row = j.row)
    BY <1>1, <1>2 DEF JobTyped
  <1> QED BY <1>3 DEF JobGoesOn, j2

LEMMA EndsIdle == ASSUME IInv, NEW a \in Actors, End(a) PROVE job'[a] = Idle
BY DEF End, Learn, IInv

LEMMA NextParentGoesOn ==
  ASSUME IInv, NEW a \in Actors, NEW i, NextParent(a, i), job[a].op = "refresh", pc[a] \notin {"idle", "insert"}
  PROVE  job'[a] = Idle \/ JobGoesOn(a)
PROOF
  <1>1. CASE End(a)
    BY <1>1, EndsIdle
  <1>2. CASE Learn(a, [Idle EXCEPT !.op = "refresh", !.todo = Without(job[a].todo, {i})])
    <2>1. /\ job'[a].op = "refresh" /\ job'[a].todo = Without(job[a].todo, {i}) /\ job'[a].was = <<>>
      BY <1>2 DEF Learn, IInv, Idle
    <2>2. DOMAIN <<>> = {}
      OBVIOUS
    <2>3. \A k \in DOMAIN job'[a].todo : k \in DOMAIN job[a].todo /\ job'[a].todo[k] = job[a].todo[k]
      BY <2>1 DEF Without
    <2> QED BY <2>1, <2>2, <2>3 DEF JobGoesOn
  <1> QED BY <1>1, <1>2 DEF NextParent

LEMMA WithoutGoesOn ==
  ASSUME IInv, NEW a \in Actors, pc[a] \notin {"idle", "insert"}, job[a].op \in Deletions, NEW S,
         job'[a].op = job[a].op, job'[a].todo = job[a].todo, job'[a].was = Without(job[a].was, S)
  PROVE  JobGoesOn(a)
BY DEF JobGoesOn, Without, Deletions

LEMMA RestoredGoesOn ==
  ASSUME IInv, NEW a \in Actors, NEW i, Restored(a, i), pc[a] = "restore"
  PROVE  job'[a] = Idle \/ JobGoesOn(a)
PROOF
  <1>1. CASE End(a)
    BY <1>1, EndsIdle
  <1>2. CASE Learn(a, [job[a] EXCEPT !.was = Without(job[a].was, {i})])
    <2>1. /\ job[a].op \in Deletions /\ JobTyped(job[a])
          /\ job'[a] = [job[a] EXCEPT !.was = Without(job[a].was, {i})]
      BY <1>2 DEF Learn, IInv, OnRoute
    <2>2. /\ job'[a].op = job[a].op /\ job'[a].todo = job[a].todo /\ job'[a].was = Without(job[a].was, {i})
      BY <2>1 DEF JobTyped
    <2> QED BY <2>1, <2>2, WithoutGoesOn
  <1> QED BY <1>1, <1>2 DEF Restored

LEMMA EraseGoesOn ==
  ASSUME IInv, NEW a \in Actors, Erase(a)
  PROVE  JobGoesOn(a)
PROOF
  <1>1. pc[a] = "erase" /\ job[a].op \in Deletions /\ JobTyped(job[a])
    BY DEF Erase, At, IInv, OnRoute
  <1>2. \/ Learn(a, [job[a] EXCEPT !.sure = TRUE])
        \/ \E kept : Learn(a, [job[a] EXCEPT !.sure = TRUE, !.ids = @ \ kept, !.was = Without(@, job[a].ids \ kept)])
    BY DEF Erase
  <1>3. ASSUME NEW kept,
               Learn(a, [job[a] EXCEPT !.sure = TRUE, !.ids = @ \ kept, !.was = Without(@, job[a].ids \ kept)])
        PROVE  JobGoesOn(a)
    <2>1. job'[a] = [job[a] EXCEPT !.sure = TRUE, !.ids = @ \ kept, !.was = Without(@, job[a].ids \ kept)]
      BY <1>3 DEF Learn, IInv
    <2>2. /\ job'[a].op = job[a].op /\ job'[a].todo = job[a].todo
          /\ job'[a].was = Without(job[a].was, job[a].ids \ kept)
      BY <1>1, <2>1 DEF JobTyped
    <2> QED BY <1>1, <2>2, WithoutGoesOn
  <1> QED BY <1>1, <1>2, <1>3, SameJobGoesOn

LEMMA ProceedGoesOn ==
  ASSUME IInv, NEW a \in Actors, Proceed(a)
  PROVE  Insert(a) \/ job'[a] = Idle \/ JobGoesOn(a)
PROOF
  <1>1. CASE AttachUpload(a) \/ MarkFailed(a) \/ GrowLink(a) \/ GrowUpload(a) \/ FinaliseDelete(a)
    BY <1>1, EndsIdle DEF AttachUpload, MarkFailed, GrowLink, GrowUpload, FinaliseDelete
  <1>2. CASE Enqueue(a)
    BY <1>2 DEF Enqueue, Learn, IInv
  <1>3. CASE AttachLink(a)
    <2>1. pc[a] = "submit" /\ (UNCHANGED job \/ End(a) \/ \E s : Learn(a, [job[a] EXCEPT !.size = s]))
      BY <1>3 DEF AttachLink, At
    <2> QED BY <2>1, EndsIdle, SameJobGoesOn
  <1>4. CASE EnsureGrowth(a)
    <2>1. job[a].op \in {"link", "callback", "refresh"} /\ pc[a] = "grow"
      BY <1>4 DEF EnsureGrowth, At, IInv, OnRoute
    <2>2. UNCHANGED job \/ End(a) \/ (job[a].op = "refresh" /\ NextParent(a, job[a].row))
      BY <1>4, <2>1 DEF EnsureGrowth
    <2> QED BY <2>1, <2>2, EndsIdle, SameJobGoesOn, NextParentGoesOn
  <1>5. CASE CompleteUpload(a)
    <2>1. pc[a] = "complete" /\ (UNCHANGED job \/ End(a))
      BY <1>5 DEF CompleteUpload, At
    <2> QED BY <2>1, EndsIdle, SameJobGoesOn
  <1>6. CASE Settle(a)
    <2>1. pc[a] = "poll" /\ job[a].op = "refresh"
      BY <1>6 DEF Settle, At, IInv, OnRoute
    <2>2. (\E i : NextParent(a, i)) \/ \E r, s : Learn(a, [job[a] EXCEPT !.row = r, !.size = s])
      BY <1>6 DEF Settle
    <2> QED BY <2>1, <2>2, SameJobGoesOn, NextParentGoesOn
  <1>7. CASE SettleGrown(a)
    <2>1. pc[a] = "write" /\ job[a].op = "refresh" /\ NextParent(a, job[a].row)
      BY <1>7 DEF SettleGrown, At
    <2> QED BY <2>1, NextParentGoesOn
  <1>8. CASE Erase(a)
    BY <1>8, EraseGoesOn
  <1>9. CASE RestoreStatus(a)
    <2>1. pc[a] = "restore" /\ \E i : Restored(a, i)
      BY <1>9 DEF RestoreStatus, At
    <2> QED BY <2>1, RestoredGoesOn
  <1> QED BY <1>1, <1>2, <1>3, <1>4, <1>5, <1>6, <1>7, <1>8, <1>9 DEF Proceed

LEMMA FailsGoesOn ==
  ASSUME IInv, NEW a \in Actors, Fails(a)
  PROVE  job'[a] = Idle \/ JobGoesOn(a)
PROOF
  <1>1. CASE InsertFails(a) \/ MarkFailedFails(a)
    BY <1>1, EndsIdle DEF InsertFails, MarkFailedFails
  <1>2. CASE EnqueueFails(a)
    <2>1. pc[a] = "enqueue" /\ Learn(a, [job[a] EXCEPT !.slot = FALSE])
      BY <1>2 DEF EnqueueFails, At
    <2> QED BY <2>1, SameJobGoesOn
  <1>3. CASE RequestFails(a)
    <2>1. pc[a] \notin {"idle", "insert"} /\ (UNCHANGED job \/ End(a))
      BY <1>3 DEF RequestFails
    <2> QED BY <2>1, EndsIdle, SameJobGoesOn
  <1>4. CASE PollFails(a)
    <2>1. pc[a] = "poll" /\ job[a].op = "refresh"
      BY <1>4 DEF PollFails, At, IInv, OnRoute
    <2>2. End(a) \/ \E i : NextParent(a, i)
      BY <1>4 DEF PollFails
    <2> QED BY <2>1, <2>2, EndsIdle, NextParentGoesOn
  <1>5. CASE EraseFails(a)
    <2>1. pc[a] = "erase" /\ Learn(a, [job[a] EXCEPT !.ids = {}])
      BY <1>5 DEF EraseFails, At
    <2> QED BY <2>1, SameJobGoesOn
  <1>6. CASE RestoreFails(a)
    <2>1. pc[a] = "restore" /\ \E i : Restored(a, i)
      BY <1>6 DEF RestoreFails, At
    <2> QED BY <2>1, RestoredGoesOn
  <1>7. CASE FinaliseFails(a)
    <2>1. pc[a] = "finalise" /\ (End(a) \/ Learn(a, [job[a] EXCEPT !.ids = {}]))
      BY <1>7 DEF FinaliseFails, At
    <2> QED BY <2>1, EndsIdle, SameJobGoesOn
  <1> QED BY <1>1, <1>2, <1>3, <1>4, <1>5, <1>6, <1>7 DEF Fails

\* What an actor works on after a step: what it did, or what it takes up.
LEMMA JobFrom ==
  ASSUME IInv, [Next]_vars, NEW a \in Actors
  PROVE  \/ job'[a] = job[a] /\ pc'[a] = pc[a]
         \/ job'[a] = Idle
         \/ JobGoesOn(a)
         \/ Insert(a)
         \/ (a \in Workers /\ Arrive(a)) \/ (a \in Threads /\ RunSubmission(a))
PROOF
  <1>1. ASSUME NEW b \in Actors, b # a, Apart(b) PROVE job'[a] = job[a] /\ pc'[a] = pc[a]
    BY <1>1 DEF Apart
  <1>2. ASSUME NEW w \in Workers, Arrive(w), w # a PROVE job'[a] = job[a] /\ pc'[a] = pc[a]
    <2>1. w \in Actors
      BY DEF Actors
    <2> QED BY <1>1, <1>2, <2>1, ArriveApart
  <1>3. ASSUME NEW t \in Threads, RunSubmission(t), t # a PROVE job'[a] = job[a] /\ pc'[a] = pc[a]
    <2>1. t \in Actors
      BY DEF Actors
    <2> QED BY <1>1, <1>3, <2>1, SubmissionApart
  <1>4. ASSUME NEW b \in Actors, b # a, Proceed(b) \/ Fails(b) PROVE job'[a] = job[a] /\ pc'[a] = pc[a]
    BY <1>1, <1>4, ProceedApart, FailsApart
  <1>5. ASSUME NEW i \in DOMAIN row, LinkEnds(i) PROVE job'[a] = job[a] /\ pc'[a] = pc[a]
    BY <1>5 DEF LinkEnds
  <1>6. CASE Crash
    BY <1>6 DEF Crash
  <1>7. CASE UNCHANGED vars
    BY <1>7 DEF vars
  <1> QED BY <1>2, <1>3, <1>4, <1>5, <1>6, <1>7, ProceedGoesOn, FailsGoesOn DEF Next

\* Who changes the status of a row.
LEMMA StatusBy ==
  ASSUME IInv, [Next]_vars, NEW i \in DOMAIN row
  PROVE  \/ row'[i].status \in {row[i].status, "failed"}
         \/ row[i].status = "reserved" /\ row'[i].status = "completed"
         \/ SplitOf(i) /\ row'[i].status = "transfer_completed"
         \/ row'[i].status = "delete_pending" /\ \E b \in Workers, route \in Deletions, ids \in SUBSET DOMAIN row : SoftDelete(b, route, ids)
         \/ /\ row[i].status \in {"delete_pending", "deleted"}
            /\ \E b \in Actors : /\ RestoreStatus(b) /\ i \in DOMAIN job[b].was
                                /\ row'[i].status = job[b].was[i]
         \/ row'[i].status = "deleted" /\ \E b \in Actors : FinaliseDelete(b)
PROOF
  <1>1. row[i] \in RowType
    BY RowTyped
  <1>2. ASSUME NEW k, NEW s, row' = [row EXCEPT ![k].status = s], row'[i].status # row[i].status
        PROVE  k = i /\ row'[i].status = s
    BY <1>1, <1>2 DEF RowType
  <1>3. ASSUME NEW b \in Actors, Proceed(b), row'[i].status \notin {row[i].status, "failed"}
        PROVE  \/ row[i].status = "reserved" /\ row'[i].status = "completed"
               \/ SplitOf(i) /\ row'[i].status = "transfer_completed"
               \/ /\ row[i].status \in {"delete_pending", "deleted"}
                  /\ RestoreStatus(b) /\ i \in DOMAIN job[b].was /\ row'[i].status = job[b].was[i]
               \/ row'[i].status = "deleted" /\ FinaliseDelete(b)
    <2>1. CASE Insert(b)
      <3>1. PICK r : row' = Append(row, r)
        BY <2>1 DEF Insert
      <3>2. row'[i] = row[i]
        BY <3>1, AppendStays, LenProperties DEF IInv, RowsOK
      <3> QED BY <1>3, <3>2
    <2>2. CASE AttachUpload(b)
      <3>1. row' = [row EXCEPT ![job[b].row] = [row[job[b].row] EXCEPT !.file = TRUE]]
        BY <2>2 DEF AttachUpload
      <3> QED BY <1>1, <1>3, <3>1 DEF RowType
    <2>3. CASE AttachLink(b)
      <3>1. row' = row \/ row' = [row EXCEPT ![job[b].row] = [row[job[b].row] EXCEPT !.upload = TRUE]]
        BY <2>3 DEF AttachLink
      <3> QED BY <1>1, <1>3, <3>1 DEF RowType
    <2>4. CASE GrowLink(b)
      <3>1. row' = [row EXCEPT ![job[b].row] = [row[job[b].row] EXCEPT !.upload = TRUE, !.size = job[b].size]]
        BY <2>4 DEF GrowLink
      <3> QED BY <1>1, <1>3, <3>1 DEF RowType
    <2>5. CASE GrowUpload(b)
      <3>1. row' = [row EXCEPT ![job[b].row] = [row[job[b].row] EXCEPT !.status = "completed", !.size = job[b].size]]
        BY <2>5 DEF GrowUpload
      <3>2. job[b].row \in DOMAIN row /\ row[job[b].row].status = "reserved"
        BY <2>5 DEF GrowUpload, At, IInv, KnowsRows
      <3> QED BY <1>1, <1>3, <3>1, <3>2 DEF RowType
    <2>6. CASE Enqueue(b) \/ EnsureGrowth(b) \/ Erase(b)
      BY <1>3, <2>6 DEF Enqueue, EnsureGrowth, Erase
    <2>7. CASE MarkFailed(b)
      BY <1>2, <1>3, <2>7 DEF MarkFailed, SetStatus
    <2>8. CASE CompleteUpload(b)
      <3>1. \/ row' = row
            \/ row' = [row EXCEPT ![job[b].row].status = "failed"]
            \/ row' = [row EXCEPT ![job[b].row].status = "completed"] /\ row[job[b].row].status = "reserved"
        BY <2>8 DEF CompleteUpload, SetStatus
      <3> QED BY <1>2, <1>3, <3>1
    <2>9. CASE Settle(b) \/ SettleGrown(b)
      <3>1. ASSUME NEW p \in DOMAIN row, SplitOf(p)
            PROVE  (p = i /\ row'[i].status = "transfer_completed") \/ row'[i] = row[i]
        <4>1. PICK kept : Fanned(p, kept)
          BY <3>1, FanOutShape DEF SplitOf
        <4>2. /\ row'[p] = [row[p] EXCEPT !.settled = TRUE, !.size = 0, !.status = "transfer_completed"]
              /\ \A k \in DOMAIN row \ {p} : row'[k] = row[k]
          BY <4>1 DEF Fanned
        <4> QED BY <1>1, <4>2 DEF RowType
      <3> QED BY <1>3, <2>9, <3>1, SplitsOrStays
    <2>10. CASE RestoreStatus(b)
      <3>1. PICK k \in DOMAIN job[b].was :
              \/ UNCHANGED row
              \/ SetStatus(k, job[b].was[k]) /\ row[k].status \in {"delete_pending", "deleted"}
        BY <2>10 DEF RestoreStatus
      <3> QED BY <1>2, <1>3, <2>10, <3>1 DEF SetStatus
    <2>11. CASE FinaliseDelete(b)
      <3>1. row'[i] = row[i] \/ row'[i] = [row[i] EXCEPT !.status = "deleted"]
        BY <2>11 DEF FinaliseDelete
      <3> QED BY <1>1, <1>3, <2>11, <3>1 DEF RowType
    <2> QED BY <1>3, <2>1, <2>2, <2>3, <2>4, <2>5, <2>6, <2>7, <2>8, <2>9, <2>10, <2>11 DEF Proceed
  <1>4. ASSUME NEW w \in Workers, Arrive(w), row'[i].status # row[i].status
        PROVE  row'[i].status = "delete_pending" /\ \E route \in Deletions, ids \in SUBSET DOMAIN row : SoftDelete(w, route, ids)
    <2>1. \E route \in Deletions, ids \in SUBSET DOMAIN row : SoftDelete(w, route, ids)
      BY <1>4 DEF Arrive, EnsureQuota, ReserveSlot, Callback, Refresh, SoftDeleteFails, Deletions
    <2>2. row'[i] = row[i] \/ row'[i] = [row[i] EXCEPT !.status = "delete_pending"]
      BY <2>1 DEF SoftDelete
    <2> QED BY <1>1, <1>4, <2>1, <2>2 DEF RowType
  <1>5. ASSUME NEW a \in Actors, Fails(a) PROVE row'[i] = row[i]
    BY <1>5 DEF Fails, InsertFails, MarkFailedFails, EnqueueFails, RequestFails, PollFails, EraseFails,
           RestoreFails, FinaliseFails
  <1>6. ASSUME (\E t \in Threads : RunSubmission(t)) \/ Crash \/ UNCHANGED vars
                 \/ \E k \in DOMAIN row : LinkEnds(k)
        PROVE  row'[i] = row[i]
    BY <1>6 DEF RunSubmission, Crash, vars, LinkEnds
  <1> QED BY <1>3, <1>4, <1>5, <1>6 DEF Next

LEMMA FinalisedBy ==
  ASSUME IInv, [Next]_vars, NEW i \in DOMAIN row, row'[i].status = "deleted", row[i].status # "deleted"
  PROVE  \E b \in Actors : FinaliseDelete(b)
PROOF
  <1>1. ASSUME NEW b \in Actors, RestoreStatus(b), i \in DOMAIN job[b].was PROVE job[b].was[i] # "deleted"
    BY <1>1, InDeletion DEF KnowsDeleted, RestoreStatus, At
  <1> QED BY <1>1, StatusBy

\* What a deletion may restore is finalised by nobody else.
LEMMA NotFinalised ==
  ASSUME IInv, GhostInv, OneDeleter, [Next]_vars, NEW a \in Actors, job[a].op \in Deletions,
         job'[a].op \in Deletions, NEW i \in DOMAIN row, row[i].status # "deleted"
  PROVE  row'[i].status # "deleted"
PROOF
  <1> SUFFICES ASSUME row'[i].status = "deleted" PROVE FALSE
    OBVIOUS
  <1>1. PICK b \in Actors : FinaliseDelete(b)
    BY FinalisedBy
  <1>2. b \in Deleters /\ job'[b] = Idle
    BY <1>1, Deleting, EndsIdle DEF FinaliseDelete, At
  <1>3. a \in Deleters
    BY DEF GhostInv, DeletionKnows
  <1> QED BY <1>2, <1>3 DEF OneDeleter, Idle, Deletions

\* A link that is being bound is given up by its owner only.
LEMMA OwnersGiveUp ==
  ASSUME IInv, NEW b \in Actors, MarkFailed(b)
  PROVE  /\ Owner(b) /\ job'[b] = Idle
         /\ \A a \in Actors : Owner(a) /\ job[a].row = job[b].row => a = b
         /\ \A k \in 1..Len(queue) : queue[k] # job[b].row
PROOF
  <1>1. Owner(b) /\ job'[b] = Idle
    BY EndsIdle DEF MarkFailed, At, Owner, IInv, OnRoute
  <1> QED BY <1>1 DEF IInv, OwnedOnce

\* So is a queued one.
LEMMA QueuePending ==
  ASSUME IInv, LinksInv, PendingLinksStay, [Next]_vars, NEW k \in 1..Len(queue), NEW i, i = queue[k]
  PROVE  i \in DOMAIN row' /\ row'[i].status = "transfer_pending"
PROOF
  <1>1. i \in DOMAIN row /\ row[i].kind = "link" /\ ~row[i].upload /\ Pending(i)
    BY DEF IInv, OwnedOnce, LinksInv
  <1>2. \A b \in Actors : MarkFailed(b) => job[b].row # i
    BY OwnersGiveUp
  <1> QED BY <1>1, <1>2, PendingKept DEF Pending

\* Only binding a row says that upstream has it.
LEMMA BindsKeepStatus ==
  ASSUME NEW i, NEW r \in RowType, NEW s, NEW done, RowStep(i, r, s, done), s.upload # r.upload
  PROVE  s.status = r.status /\ s.kind = r.kind
BY DEF RowStep, Binds, Gives, SizeGiven, Splits, RowType

LEMMA UploadedPending ==
  ASSUME IInv, LinksInv, PendingLinksStay, [Next]_vars, NEW i \in DOMAIN row',
         row'[i].kind = "link", row'[i].upload, ~row'[i].settled
  PROVE  row'[i].status = "transfer_pending"
PROOF
  <1> DEFINE r == row[i]
             s == row'[i]
  <1>1. CASE i \in DOMAIN row
    <2>1. /\ r \in RowType /\ RowStep(i, r, s, Answered) /\ s.kind = "link" /\ s.upload = TRUE /\ ~s.settled
          /\ ~(r.kind = "link" /\ r.file)
      BY <1>1, RowTyped, StepShape, NextKeeps DEF Shape, IInv, RowsOK, RowType
    <2>2. r.kind = "link" /\ r.upload /\ ~r.settled => r.status = "transfer_pending"
      BY <1>1 DEF LinksInv, Pending
    <2>3. CASE r.upload
      <3> HIDE DEF r, s
      <3>1. r.kind = "link" /\ ~r.settled
        BY <2>1, <2>3 DEF RowStep, Binds, Gives, SizeGiven, Splits, RowType
      <3>2. r.status = "transfer_pending" /\ ~r.file /\ r.status \notin DeletedLinks
        BY <2>1, <2>2, <2>3, <3>1 DEF PendingLinksStay
      <3>3. s = r \/ Splits(r, s)
        BY <2>1, <2>3, <3>2 DEF RowStep, Binds
      <3>4. s.status = "transfer_pending"
        BY <2>1, <3>2, <3>3 DEF Splits, RowType
      <3> QED BY <3>4 DEF s
    <2>4. CASE ~r.upload
      <3>1. s.status = r.status /\ r.kind = "link" /\ r.upload = FALSE
        <4>1. r.upload \in BOOLEAN
          BY <2>1 DEF RowType
        <4> HIDE DEF r, s
        <4> QED BY <2>1, <2>4, <4>1, BindsKeepStatus
      <3>2. ~Minor(i) /\ ~SplitOf(i)
        BY <2>1, <2>4 DEF Minor, SplitOf
      <3>3. PICK a \in Actors : WritesRow(a, i)
        BY <1>1, <3>2, OneWriter
      <3>4. CASE MarkFailed(a)
        <4>1. row' = [row EXCEPT ![i] = [row[i] EXCEPT !.status = "failed"]]
          BY <3>3, <3>4 DEF MarkFailed, SetStatus, WritesRow
        <4> QED BY <1>1, <2>1, <3>1, <4>1 DEF RowType
      <3>5. CASE AttachLink(a) \/ GrowLink(a)
        <4>1. Owner(a) /\ job[a].op = "link" /\ job[a].row = i
          BY <3>3, <3>5 DEF AttachLink, GrowLink, At, IInv, OnRoute, Owner, WritesRow
        <4>2. Pending(i)
          BY <4>1 DEF LinksInv
        <4> QED BY <3>1, <4>2 DEF Pending
      <3>6. CASE GrowUpload(a)
        <4>1. job[a].op = "callback" /\ job[a].row = i
          BY <3>3, <3>6 DEF GrowUpload, WritesRow
        <4> QED BY <3>1, <4>1 DEF IInv, KnowsRows
      <3> QED BY <3>3, <3>4, <3>5, <3>6 DEF WritesRow
    <2> QED BY <2>3, <2>4
  <1>2. CASE i \notin DOMAIN row
    <2>1. DOMAIN row' # DOMAIN row
      BY <1>2
    <2>2. ASSUME NEW a \in Actors, Insert(a) PROVE FALSE
      <3>1. /\ row' = Append(row, Row(job[a].op, IF job[a].op = "upload" THEN "reserved" ELSE "transfer_pending",
                                      job[a].size))
        BY <2>2 DEF Insert
      <3>2. i = Len(row) + 1 /\ row'[i] = Row(job[a].op, IF job[a].op = "upload" THEN "reserved" ELSE "transfer_pending",
                                              job[a].size)
        BY <1>2, <3>1, AppendAtEnd DEF IInv, RowsOK
      <3> QED BY <3>2 DEF Row
    <2>3. ASSUME NEW p \in DOMAIN row, SplitOf(p) PROVE FALSE
      <3>1. PICK kept : Fanned(p, kept)
        BY <2>3, FanOutShape DEF SplitOf
      <3> DEFINE n == Cardinality(Kept(listing[p]))
      <3>2. /\ n \in Nat /\ Len(row) \in Nat /\ DOMAIN row = 1..Len(row) /\ DOMAIN row' = 1..(Len(row) + n)
            /\ \A k \in 1..n : row'[Len(row) + k] = Child(p, listing[p][kept[k]])
        BY <3>1 DEF Fanned
      <3> HIDE DEF n
      <3>3. i - Len(row) \in 1..n /\ Len(row) + (i - Len(row)) = i
        BY <1>2, <3>2
      <3>4. row'[i] = Child(p, listing[p][kept[i - Len(row)]])
        BY <3>2, <3>3
      <3>5. row'[i].kind = "child"
        BY <3>4 DEF Child, Row
      <3> QED BY <3>5
    <2> QED BY <2>1, <2>2, <2>3, RowsComeFrom
  <1> QED BY <1>1, <1>2

LEMMA OwnedPending ==
  ASSUME IInv, LinksInv, PendingLinksStay, [Next]_vars, NEW a \in Actors, Owner(a)', job'[a].op = "link"
  PROVE  Pending(job[a].row)'
PROOF
  <1>1. job'[a] # Idle
    BY DEF Owner, Idle
  <1>2. CASE Owner(a) /\ job'[a].row = job[a].row /\ job[a].op = "link"
    <2> DEFINE i == job[a].row
    <2>1. i \in DOMAIN row /\ row[i].kind = "link" /\ ~row[i].upload /\ Pending(i)
      BY <1>2 DEF IInv, KnowsRows, LinksInv
    <2>2. \A b \in Actors : MarkFailed(b) => job[b].row # i
      BY <1>1, <1>2, OwnersGiveUp
    <2> HIDE DEF i
    <2>3. row'[i].status = "transfer_pending"
      BY <2>1, <2>2, PendingKept DEF Pending
    <2> QED BY <1>2, <2>3 DEF Pending, i
  <1>3. CASE job'[a] = job[a] /\ pc'[a] = pc[a]
    BY <1>2, <1>3 DEF Owner
  <1>4. CASE JobGoesOn(a)
    <2>1. pc[a] \in Labels \ {"idle", "insert"} /\ job[a].op = "link" /\ job'[a].row = job[a].row
      BY <1>4 DEF JobGoesOn, IInv
    <2>2. Owner(a)
      BY <2>1 DEF Labels, IInv, OnRoute, Owner, Deletions
    <2> QED BY <1>2, <2>1, <2>2
  <1>5. CASE Insert(a)
    <2>1. /\ row' = Append(row, Row(job[a].op, IF job[a].op = "upload" THEN "reserved" ELSE "transfer_pending",
                                    job[a].size))
          /\ job'[a] = [job[a] EXCEPT !.row = Len(row) + 1, !.size = 0] /\ JobTyped(job[a])
      BY <1>5 DEF Insert, Learn, IInv
    <2>2. job'[a].row = Len(row) + 1 /\ job[a].op = "link"
      BY <2>1 DEF JobTyped
    <2>3. row'[Len(row) + 1] = Row("link", "transfer_pending", job[a].size)
      BY <2>1, <2>2, AppendAtEnd DEF IInv, RowsOK
    <2> QED BY <2>2, <2>3 DEF Pending, Row
  <1>6. CASE a \in Workers /\ Arrive(a)
    <2>1. pc'[a] \in {"insert", "poll", "complete", "erase", "finalise", "restore"}
      BY <1>6 DEF Arrive, EnsureQuota, ReserveSlot, Callback, Refresh, SoftDelete, SoftDeleteFails, GoTo, IInv
    <2> QED BY <2>1 DEF Owner
  <1>7. CASE a \in Threads /\ RunSubmission(a)
    <2>1. /\ job' = [job EXCEPT ![a] = [Idle EXCEPT !.op = "link", !.row = Head(queue), !.slot = TRUE]]
          /\ queue # <<>>
      BY <1>7 DEF RunSubmission, Learn
    <2>2. job'[a].row = queue[1] /\ 1 \in 1..Len(queue)
      BY <2>1 DEF IInv, OwnedOnce, Idle
    <2> QED BY <2>2, QueuePending DEF Pending
  <1> QED BY <1>1, <1>3, <1>4, <1>5, <1>6, <1>7, JobFrom

LEMMA TodoKnown ==
  ASSUME IInv, LinksInv, [Next]_vars, NEW a \in Actors, job'[a].op = "refresh", NEW i \in DOMAIN job'[a].todo
  PROVE  row'[i].settled \/ row'[i].size = job'[a].todo[i]
PROOF
  <1> DEFINE r == row[i]
             s == row'[i]
  <1>1. ASSUME i \in DOMAIN row, r.kind = "link", r.upload, r.settled \/ r.size = job'[a].todo[i]
        PROVE  s.settled \/ s.size = job'[a].todo[i]
    <2>1. r \in RowType /\ RowStep(i, r, s, Answered) /\ (~r.settled => r.status = "transfer_pending")
      BY <1>1, RowTyped, StepShape DEF Shape, LinksInv, Pending
    <2> HIDE DEF r, s
    <2> QED BY <1>1, <2>1 DEF RowStep, Binds, Gives, SizeGiven, Splits, RowType
  <1>2. CASE (job'[a] = job[a] /\ pc'[a] = pc[a]) \/ JobGoesOn(a)
    <2>1. job[a].op = "refresh" /\ i \in DOMAIN job[a].todo /\ job'[a].todo[i] = job[a].todo[i]
      BY <1>2 DEF JobGoesOn
    <2>2. i \in DOMAIN row /\ r.kind = "link" /\ r.upload /\ (r.settled \/ r.size = job[a].todo[i])
      BY <2>1 DEF IInv, KnowsRows, LinksInv
    <2> QED BY <1>1, <2>1, <2>2
  <1>3. CASE Insert(a)
    <2>1. job'[a] = [job[a] EXCEPT !.row = Len(row) + 1, !.size = 0] /\ JobTyped(job[a])
          /\ job[a].op \in {"upload", "link"}
      BY <1>3 DEF Insert, Learn, IInv, At, OnRoute
    <2> QED BY <2>1 DEF JobTyped
  <1>4. CASE a \in Workers /\ Arrive(a)
    <2>1. Refresh(a)
      BY <1>4 DEF Arrive, EnsureQuota, ReserveSlot, Callback, SoftDelete, SoftDeleteFails, Learn, Idle, IInv
    <2>2. PICK parents \in SUBSET DOMAIN row :
            Learn(a, [Idle EXCEPT !.op = "refresh", !.todo = [k \in parents |-> row[k].size]])
      BY <2>1 DEF Refresh
    <2>3. job'[a].todo = [k \in parents |-> row[k].size]
      BY <2>2 DEF Learn, IInv, Idle
    <2> QED BY <2>1, <2>3 DEF Refresh
  <1>5. CASE a \in Threads /\ RunSubmission(a)
    BY <1>5 DEF RunSubmission, Learn, Idle, IInv
  <1>6. job'[a] # Idle
    BY DEF Idle
  <1> QED BY <1>2, <1>3, <1>4, <1>5, <1>6, JobFrom

\* Who takes up a deletion marks its files, or fails to.
LEMMA DeletionArrives ==
  ASSUME IInv, NEW a \in Workers, Arrive(a), job'[a].op \in Deletions
  PROVE  \E route \in Deletions, ids \in SUBSET DOMAIN row :
           SoftDelete(a, route, ids) \/ SoftDeleteFails(a, route, ids)
PROOF
  <1>0. a \in Actors
    BY DEF Actors
  <1>1. ASSUME NEW op \in {"upload", "link", "callback", "report", "refresh"}, job'[a].op = op PROVE FALSE
    BY <1>1 DEF Deletions
  <1>2. ASSUME NEW op \in {"upload", "link"}, NEW size, EnsureQuota(a, op, size) PROVE FALSE
    BY <1>0, <1>1, <1>2 DEF EnsureQuota, Learn, Idle, IInv
  <1>3. ASSUME NEW op \in {"callback", "report"}, NEW k, NEW size, Callback(a, op, k, size) PROVE FALSE
    BY <1>0, <1>1, <1>3 DEF Callback, Learn, Idle, IInv
  <1>4. ASSUME ReserveSlot(a) PROVE FALSE
    <2>1. job'[a].op = "link"
      BY <1>0, <1>4 DEF ReserveSlot, Learn, Idle, IInv
    <2> QED BY <1>1, <2>1
  <1>5. ASSUME Refresh(a) PROVE FALSE
    <2>1. PICK todo : Learn(a, [Idle EXCEPT !.op = "refresh", !.todo = todo])
      BY <1>5 DEF Refresh
    <2>2. job'[a].op = "refresh"
      BY <1>0, <2>1 DEF Learn, Idle, IInv
    <2> QED BY <1>1, <2>2
  <1>6. CASE \E op \in {"upload", "link"}, size \in Sizes : EnsureQuota(a, op, size)
    BY <1>2, <1>6
  <1>7. CASE \E k \in DOMAIN row, size \in Reports : Callback(a, "callback", k, size)
    BY <1>3, <1>7
  <1>8. CASE \E k \in DOMAIN row : Callback(a, "report", k, 0)
    BY <1>3, <1>8
  <1> QED BY <1>4, <1>5, <1>6, <1>7, <1>8 DEF Arrive, Deletions

LEMMA WasKept ==
  ASSUME IInv, GhostInv, LinksInv, OneDeleter, [Next]_vars, NEW a \in Actors, job'[a].op \in Deletions,
         NEW i \in DOMAIN job'[a].was
  PROVE  row'[i].status # "deleted"
PROOF
  <1>1. CASE (job'[a] = job[a] /\ pc'[a] = pc[a]) \/ JobGoesOn(a)
    <2>1. job[a].op \in Deletions /\ i \in DOMAIN job[a].was
      BY <1>1 DEF JobGoesOn
    <2>2. i \in DOMAIN row /\ row[i].status # "deleted"
      BY <2>1 DEF IInv, KnowsRows, KnowsDeleted, LinksInv
    <2> QED BY <2>1, <2>2, NotFinalised
  <1>2. CASE Insert(a)
    <2>1. job'[a] = [job[a] EXCEPT !.row = Len(row) + 1, !.size = 0] /\ JobTyped(job[a])
          /\ job[a].op \in {"upload", "link"}
      BY <1>2 DEF Insert, Learn, IInv, At, OnRoute
    <2>2. job'[a].op = job[a].op
      BY <2>1 DEF JobTyped
    <2> QED BY <2>1, <2>2 DEF Deletions
  <1>3. CASE a \in Workers /\ Arrive(a)
    <2>1. PICK route \in Deletions, ids \in SUBSET DOMAIN row : SoftDelete(a, route, ids) \/ SoftDeleteFails(a, route, ids)
      BY <1>3, DeletionArrives
    <2>2. job'[a].was = [k \in ids |-> row[k].status]
      BY <2>1 DEF SoftDelete, SoftDeleteFails, Learn, Idle, IInv
    <2>3. row[i].status # "deleted" /\ i \in DOMAIN row /\ row[i] \in RowType
      BY <2>1, <2>2, RowTyped DEF SoftDelete, SoftDeleteFails, Deletion, Deletable
    <2>4. row'[i] = row[i] \/ row'[i] = [row[i] EXCEPT !.status = "delete_pending"]
      BY <2>1, <2>3 DEF SoftDelete, SoftDeleteFails
    <2> QED BY <2>3, <2>4 DEF RowType
  <1>4. CASE a \in Threads /\ RunSubmission(a)
    BY <1>4 DEF RunSubmission, Learn, Idle, IInv, Deletions
  <1>5. job'[a] # Idle
    BY DEF Idle, Deletions
  <1> QED BY <1>1, <1>2, <1>3, <1>4, <1>5, JobFrom

\* What waits for a thread waited before, or has just been handed over.
LEMMA QueueFrom ==
  ASSUME IInv, [Next]_vars, NEW k \in 1..Len(queue')
  PROVE  \/ \E l \in 1..Len(queue) : queue'[k] = queue[l]
         \/ \E a \in Actors : Enqueue(a) /\ queue'[k] = job[a].row
PROOF
  <1>0. queue \in Seq(Nat) /\ Len(queue) \in Nat
    BY LenProperties DEF IInv, OwnedOnce
  <1>1. CASE UNCHANGED queue
    BY <1>1
  <1>2. ASSUME NEW a \in Actors, Enqueue(a)
        PROVE  (\E l \in 1..Len(queue) : queue'[k] = queue[l]) \/ queue'[k] = job[a].row
    <2>1. job[a].row \in Nat /\ queue' = Append(queue, job[a].row)
      BY <1>2 DEF Enqueue, IInv, JobTyped
    <2>2. /\ Len(queue') = Len(queue) + 1 /\ queue'[Len(queue) + 1] = job[a].row
          /\ \A l \in 1..Len(queue) : queue'[l] = queue[l]
      BY <1>0, <2>1, AppendProperties
    <2> QED BY <1>0, <1>2, <2>2
  <1>3. ASSUME NEW t \in Threads, RunSubmission(t) PROVE \E l \in 1..Len(queue) : queue'[k] = queue[l]
    <2>1. queue # <<>> /\ queue' = Tail(queue)
      BY <1>3 DEF RunSubmission
    <2>2. Len(queue') = Len(queue) - 1 /\ \A l \in 1..Len(queue') : queue'[l] = queue[l + 1]
      BY <1>0, <2>1, HeadTailProperties
    <2>3. k + 1 \in 1..Len(queue)
      BY <1>0, <2>2
    <2> QED BY <2>2, <2>3
  <1>4. CASE Crash
    <2>1. queue' = <<>>
      BY <1>4 DEF Crash
    <2> QED BY <2>1
  <1>5. ASSUME NEW w \in Workers, Arrive(w) PROVE UNCHANGED queue
    BY <1>5 DEF Arrive, EnsureQuota, ReserveSlot, Callback, Refresh, SoftDelete, SoftDeleteFails, Pool
  <1>6. ASSUME NEW a \in Actors, Proceed(a), ~Enqueue(a) PROVE UNCHANGED queue
    BY <1>6 DEF Proceed, Insert, AttachUpload, MarkFailed, AttachLink, EnsureGrowth, GrowLink, CompleteUpload,
           GrowUpload, Settle, SettleGrown, Erase, RestoreStatus, FinaliseDelete, Pool
  <1>7. ASSUME NEW a \in Actors, Fails(a) PROVE UNCHANGED queue
    BY <1>7 DEF Fails, InsertFails, MarkFailedFails, EnqueueFails, RequestFails, PollFails, EraseFails,
           RestoreFails, FinaliseFails, Pool
  <1>8. ASSUME NEW i, LinkEnds(i) PROVE UNCHANGED queue
    BY <1>8 DEF LinkEnds, Pool
  <1>9. UNCHANGED vars => UNCHANGED queue
    BY DEF vars
  <1> QED BY <1>1, <1>2, <1>3, <1>4, <1>5, <1>6, <1>7, <1>8, <1>9 DEF Next

LEMMA LinksStep ==
  ASSUME IInv, GhostInv, LinksInv, OneDeleter, PendingLinksStay, [Next]_vars
  PROVE  LinksInv'
PROOF
  <1>1. ASSUME NEW i \in DOMAIN row', row'[i].kind = "link", row'[i].upload, ~row'[i].settled
        PROVE  Pending(i)'
    BY <1>1, UploadedPending DEF Pending
  <1>2. ASSUME NEW k \in 1..Len(queue') PROVE row'[queue'[k]].status = "transfer_pending"
    <2>1. ASSUME NEW l \in 1..Len(queue), queue'[k] = queue[l] PROVE row'[queue'[k]].status = "transfer_pending"
      BY <2>1, QueuePending
    <2>2. ASSUME NEW a \in Actors, Enqueue(a), queue'[k] = job[a].row
          PROVE  row'[queue'[k]].status = "transfer_pending"
      <3>1. Owner(a) /\ job[a].op = "link" /\ row' = row
        BY <2>2 DEF Enqueue, At, IInv, OnRoute, Owner
      <3> QED BY <2>2, <3>1 DEF LinksInv, Pending
    <2> QED BY <2>1, <2>2, QueueFrom
  <1>3. ASSUME NEW a \in Actors
        PROVE  /\ Owner(a)' /\ job'[a].op = "link" => Pending(job[a].row)'
               /\ job'[a].op = "refresh" =>
                    \A i \in DOMAIN job'[a].todo : row'[i].settled \/ row'[i].size = job'[a].todo[i]
               /\ job'[a].op \in Deletions => \A i \in DOMAIN job'[a].was : row'[i].status # "deleted"
    BY OwnedPending, TodoKnown, WasKept
  <1> QED BY <1>1, <1>2, <1>3 DEF LinksInv, Pending

LEMMA LinksInit == ASSUME Init PROVE LinksInv
PROOF
  <1>1. \A a \in Actors : job[a] = Idle
    BY DEF Init
  <1>2. DOMAIN row = {} /\ Len(queue) = 0
    BY DEF Init
  <1> QED BY <1>1, <1>2 DEF LinksInv, Owner, Idle, Deletions

-----------------------------------------------------------------------------
(* What counts against the quota, and what may count again. *)

Counting == Active \ {"delete_pending"}

\* A marked row counts while a deletion may restore it to a status that counts.
Counted(i) ==
  \/ row[i].status \in Counting
  \/ /\ row[i].status = "delete_pending"
     /\ \E a \in Actors : /\ job[a].op \in Deletions /\ i \in DOMAIN job[a].was
                          /\ job[a].was[i] \in Counting

LEMMA CountingKnown ==
  /\ Counting = {"reserved", "completed", "transfer_pending", "transfer_running", "transfer_completed"}
  /\ "delete_pending" \notin Counting /\ "failed" \notin Counting /\ "deleted" \notin Counting
BY DEF Counting, Active

\* While a client deletes, nobody else does.
LEMMA LoneDeleter ==
  ASSUME IInv, GhostInv, OneDeleter, NEW a \in Actors, job[a].op \in Deletions, NEW b \in Workers,
         NEW route, NEW ids, SoftDelete(b, route, ids)
  PROVE  FALSE
PROOF
  <1>1. pc[b] = "idle" /\ b \in Deleters /\ b \in Actors
    BY DEF SoftDelete, Deletion, At, Actors
  <1>2. a \in Deleters
    BY DEF GhostInv, DeletionKnows
  <1>3. a = b
    BY <1>1, <1>2 DEF OneDeleter
  <1> QED BY <1>1, <1>3 DEF IInv, OnRoute, Idle, Deletions

\* A row that counts after a step has counted before.
LEMMA CountedBefore ==
  ASSUME IInv, GhostInv, LinksInv, OneDeleter, [Next]_vars, NEW i \in DOMAIN row, Counted(i)'
  PROVE  Counted(i)
PROOF
  <1>1. CASE row'[i].status \in Counting
    <2>1. CASE SplitOf(i)
      <3>1. row[i].status = "transfer_pending"
        BY <2>1 DEF SplitOf, LinksInv, Pending
      <3> QED BY <3>1, CountingKnown DEF Counted
    <2>2. ASSUME NEW b \in Actors, RestoreStatus(b), i \in DOMAIN job[b].was, row'[i].status = job[b].was[i],
                 row[i].status \in {"delete_pending", "deleted"}
          PROVE  Counted(i)
      <3>1. job[b].op \in Deletions
        BY <2>2, InDeletion DEF RestoreStatus, At
      <3>2. row[i].status = "delete_pending"
        BY <2>2, <3>1 DEF LinksInv
      <3> QED BY <1>1, <2>2, <3>1, <3>2 DEF Counted
    <2>3. CASE row[i].status = "reserved" \/ row'[i].status = row[i].status
      BY <1>1, <2>3, CountingKnown DEF Counted
    <2>4. row'[i].status \notin {"delete_pending", "deleted", "failed"}
      BY <1>1, CountingKnown
    <2> QED BY <2>1, <2>2, <2>3, <2>4, StatusBy
  <1>2. ASSUME row'[i].status = "delete_pending", NEW a \in Actors, job'[a].op \in Deletions,
               i \in DOMAIN job'[a].was, job'[a].was[i] \in Counting
        PROVE  Counted(i)
    <2>1. CASE job[a].op \in Deletions /\ i \in DOMAIN job[a].was /\ job'[a].was[i] = job[a].was[i]
      <3>1. row[i].status # "deleted"
        BY <2>1 DEF LinksInv
      <3>2. CASE row[i].status = "delete_pending"
        BY <1>2, <2>1, <3>2 DEF Counted
      <3>3. CASE row[i].status # "delete_pending"
        <4>1. ~SplitOf(i) \/ row'[i].status # "transfer_completed"
          BY <1>2
        <4> QED BY <1>2, <2>1, <3>1, <3>3, StatusBy, LoneDeleter
      <3> QED BY <3>2, <3>3
    <2>2. CASE (job'[a] = job[a] /\ pc'[a] = pc[a]) \/ JobGoesOn(a)
      <3>1. job'[a].op = job[a].op /\ i \in DOMAIN job[a].was /\ job'[a].was[i] = job[a].was[i]
        BY <1>2, <2>2 DEF JobGoesOn
      <3> QED BY <1>2, <2>1, <3>1
    <2>3. CASE Insert(a)
      <3>1. job'[a] = [job[a] EXCEPT !.row = Len(row) + 1, !.size = 0] /\ JobTyped(job[a])
            /\ job[a].op \in {"upload", "link"}
        BY <2>3 DEF Insert, Learn, IInv, At, OnRoute
      <3>2. job'[a].op = job[a].op
        BY <3>1 DEF JobTyped
      <3> QED BY <1>2, <3>1, <3>2 DEF Deletions
    <2>4. CASE a \in Workers /\ Arrive(a)
      <3>1. PICK route \in Deletions, ids \in SUBSET DOMAIN row :
              SoftDelete(a, route, ids) \/ SoftDeleteFails(a, route, ids)
        BY <1>2, <2>4, DeletionArrives
      <3>2. job'[a].was = [k \in ids |-> row[k].status]
        BY <3>1 DEF SoftDelete, SoftDeleteFails, Learn, Idle, IInv
      <3> QED BY <1>2, <3>2 DEF Counted
    <2>5. CASE a \in Threads /\ RunSubmission(a)
      BY <1>2, <2>5 DEF RunSubmission, Learn, Idle, IInv, Deletions
    <2>6. job'[a] # Idle
      BY <1>2 DEF Idle, Deletions
    <2> QED BY <2>2, <2>3, <2>4, <2>5, <2>6, JobFrom
  <1> QED BY <1>1, <1>2 DEF Counted

\* Only a write of a grown size or a split changes the size of a row.
LEMMA SizeBy ==
  ASSUME IInv, [Next]_vars, NEW i \in DOMAIN row
  PROVE  \/ row'[i].size = row[i].size
         \/ SplitOf(i)
         \/ \E a \in Actors : (GrowLink(a) \/ GrowUpload(a)) /\ job[a].row = i
PROOF
  <1>1. CASE \E a \in Actors : WritesRow(a, i)
    <2>1. PICK a \in Actors : WritesRow(a, i)
      BY <1>1
    <2>2. CASE MarkFailed(a)
      <3>1. row' = [row EXCEPT ![i] = [row[i] EXCEPT !.status = "failed"]]
        BY <2>1, <2>2 DEF MarkFailed, SetStatus, WritesRow
      <3> QED BY <3>1, RowTyped DEF RowType
    <2>3. CASE AttachLink(a)
      <3>1. row' = row \/ row' = [row EXCEPT ![i] = [row[i] EXCEPT !.upload = TRUE]]
        BY <2>1, <2>3 DEF AttachLink, WritesRow
      <3> QED BY <3>1, RowTyped DEF RowType
    <2> QED BY <2>1, <2>2, <2>3 DEF WritesRow
  <1> QED BY <1>1, OneWriter DEF Minor

\* A job that is about to write comes from a check of the quota.
LEMMA WriteFrom ==
  ASSUME IInv, [Next]_vars, NEW a \in Actors, pc'[a] \in {"insert", "write"}
  PROVE  \/ job'[a] = job[a] /\ pc'[a] = pc[a]
         \/ \E op \in {"upload", "link"}, size \in Sizes : a \in Workers /\ EnsureQuota(a, op, size)
         \/ a \in Workers /\ ReserveSlot(a)
         \/ EnsureGrowth(a)
PROOF
  <1>0. pc \in [Actors -> Labels]
    BY DEF IInv
  <1>1. ASSUME End(a) PROVE FALSE
    BY <1>0, <1>1 DEF End, GoTo
  <1>2. ASSUME NEW i, NextParent(a, i) PROVE FALSE
    BY <1>0, <1>1, <1>2 DEF NextParent, GoTo
  <1>3. ASSUME NEW i, Restored(a, i), pc[a] = "restore" PROVE FALSE
    BY <1>0, <1>1, <1>3 DEF Restored, GoTo
  <1>4. ASSUME Proceed(a), ~EnsureGrowth(a) PROVE FALSE
    <2>1. CASE Insert(a) \/ Enqueue(a)
      BY <1>0, <2>1 DEF Insert, Enqueue, GoTo
    <2>2. CASE AttachUpload(a) \/ MarkFailed(a) \/ GrowLink(a) \/ GrowUpload(a) \/ FinaliseDelete(a)
      BY <1>1, <2>2 DEF AttachUpload, MarkFailed, GrowLink, GrowUpload, FinaliseDelete
    <2>3. CASE AttachLink(a) \/ CompleteUpload(a)
      BY <1>0, <1>1, <2>3 DEF AttachLink, CompleteUpload, GoTo
    <2>4. CASE Settle(a) \/ SettleGrown(a)
      BY <1>0, <1>2, <2>4 DEF Settle, SettleGrown, GoTo
    <2>5. CASE Erase(a)
      BY <1>0, <2>5 DEF Erase, GoTo
    <2>6. CASE RestoreStatus(a)
      BY <1>3, <2>6 DEF RestoreStatus, At
    <2> QED BY <1>4, <2>1, <2>2, <2>3, <2>4, <2>5, <2>6 DEF Proceed
  <1>5. ASSUME Fails(a) PROVE FALSE
    <2>1. CASE InsertFails(a) \/ MarkFailedFails(a)
      BY <1>1, <2>1 DEF InsertFails, MarkFailedFails
    <2>2. CASE EnqueueFails(a) \/ EraseFails(a)
      BY <1>0, <2>2 DEF EnqueueFails, EraseFails, GoTo
    <2>3. CASE RequestFails(a) \/ FinaliseFails(a)
      BY <1>0, <1>1, <2>3 DEF RequestFails, FinaliseFails, GoTo
    <2>4. CASE PollFails(a)
      BY <1>1, <1>2, <2>4 DEF PollFails
    <2>5. CASE RestoreFails(a)
      BY <1>3, <2>5 DEF RestoreFails, At
    <2> QED BY <1>5, <2>1, <2>2, <2>3, <2>4, <2>5 DEF Fails
  <1>6. ASSUME Arrive(a)
        PROVE  (\E op \in {"upload", "link"}, size \in Sizes : EnsureQuota(a, op, size)) \/ ReserveSlot(a)
    BY <1>0, <1>6 DEF Arrive, Callback, Refresh, SoftDelete, SoftDeleteFails, GoTo
  <1>7. ASSUME RunSubmission(a) PROVE FALSE
    BY <1>0, <1>7 DEF RunSubmission, GoTo
  <1>8. ASSUME NEW b \in Actors, b # a, Proceed(b) \/ Fails(b) PROVE job'[a] = job[a] /\ pc'[a] = pc[a]
    BY <1>8, ProceedApart, FailsApart DEF Apart
  <1>9. ASSUME NEW w \in Workers, Arrive(w), w # a PROVE job'[a] = job[a] /\ pc'[a] = pc[a]
    <2>1. w \in Actors
      BY DEF Actors
    <2> QED BY <1>9, <2>1, ArriveApart DEF Apart
  <1>10. ASSUME NEW t \in Threads, RunSubmission(t), t # a PROVE job'[a] = job[a] /\ pc'[a] = pc[a]
    <2>1. t \in Actors
      BY DEF Actors
    <2> QED BY <1>10, <2>1, SubmissionApart DEF Apart
  <1>11. ASSUME NEW i \in DOMAIN row, LinkEnds(i) PROVE job'[a] = job[a] /\ pc'[a] = pc[a]
    BY <1>11 DEF LinkEnds
  <1>12. ASSUME Crash PROVE FALSE
    BY <1>12 DEF Crash
  <1>13. CASE UNCHANGED vars
    BY <1>13 DEF vars
  <1> QED BY <1>4, <1>5, <1>6, <1>7, <1>8, <1>9, <1>10, <1>11, <1>12, <1>13 DEF Next

-----------------------------------------------------------------------------
(* Sums of the sizes that count. *)

\* What the rows r claim when those of C count.
ClaimOf(r, C) == [i \in DOMAIN r |-> IF i \in C THEN r[i].size ELSE 0]
ClaimsOf(r, C) == SumFunctionOnSet(ClaimOf(r, C), DOMAIN r)

LEMMA ClaimTyped ==
  ASSUME NEW r \in Seq(RowType), NEW C
  PROVE  /\ IsFiniteSet(DOMAIN r) /\ \A i \in DOMAIN r : r[i].size \in Nat
         /\ \A i \in DOMAIN r : /\ ClaimOf(r, C)[i] = IF i \in C THEN r[i].size ELSE 0
                                /\ ClaimOf(r, C)[i] \in Nat
         /\ ClaimsOf(r, C) \in Nat
PROOF
  <1>1. DOMAIN r = 1..Len(r) /\ Len(r) \in Nat
    BY LenProperties
  <1>2. IsFiniteSet(1..Len(r))
    BY <1>1, FS_Interval
  <1>3. IsFiniteSet(DOMAIN r)
    BY <1>1, <1>2
  <1>4. \A i \in DOMAIN r : r[i] \in RowType
    BY <1>1, ElementOfSeq
  <1>5. \A i \in DOMAIN r : r[i].size \in Nat
    BY <1>4 DEF RowType
  <1>6. \A i \in DOMAIN r : /\ ClaimOf(r, C)[i] = IF i \in C THEN r[i].size ELSE 0
                            /\ ClaimOf(r, C)[i] \in Nat
    BY <1>5 DEF ClaimOf
  <1>7. ClaimsOf(r, C) \in Nat
    BY <1>3, <1>6, SumIsNat DEF ClaimsOf
  <1> QED BY <1>3, <1>5, <1>6, <1>7

\* The old rows claim no more as long as none grows and none counts anew.
LEMMA OldClaims ==
  ASSUME NEW r \in Seq(RowType), NEW s \in Seq(RowType), NEW C, NEW D, DOMAIN r \subseteq DOMAIN s,
         \A i \in DOMAIN r : (i \in D => i \in C) /\ s[i].size = r[i].size
  PROVE  SumFunctionOnSet(ClaimOf(s, D), DOMAIN r) <= ClaimsOf(r, C)
PROOF
  <1>1. IsFiniteSet(DOMAIN r) /\ \A i \in DOMAIN r : ClaimOf(r, C)[i] \in Nat
    BY ClaimTyped
  <1>2. \A i \in DOMAIN r : ClaimOf(s, D)[i] \in Nat
    BY ClaimTyped
  <1>3. ASSUME NEW i \in DOMAIN r PROVE ClaimOf(s, D)[i] <= ClaimOf(r, C)[i]
    <2>1. ClaimOf(r, C)[i] = IF i \in C THEN r[i].size ELSE 0
      BY ClaimTyped
    <2>2. ClaimOf(s, D)[i] = IF i \in D THEN s[i].size ELSE 0
      BY ClaimTyped
    <2>3. r[i].size \in Nat /\ s[i].size = r[i].size /\ (i \in D => i \in C)
      BY ClaimTyped
    <2> QED BY <2>1, <2>2, <2>3
  <1> QED BY <1>1, <1>2, <1>3, SumAtMost DEF ClaimsOf

\* One of them, which counted, may change its size.
LEMMA ResizedClaims ==
  ASSUME NEW r \in Seq(RowType), NEW s \in Seq(RowType), NEW C, NEW D, DOMAIN r \subseteq DOMAIN s,
         NEW k \in DOMAIN r, k \in C,
         \A i \in DOMAIN r \ {k} : (i \in D => i \in C) /\ s[i].size = r[i].size
  PROVE  SumFunctionOnSet(ClaimOf(s, D), DOMAIN r) + r[k].size <= ClaimsOf(r, C) + s[k].size
PROOF
  <1> DEFINE S == DOMAIN r
             f == ClaimOf(r, C)
             g == [i \in S |-> IF i = k THEN s[k].size ELSE f[i]]
             c == ClaimOf(s, D)
  <1>1. /\ IsFiniteSet(S) /\ \A i \in S : f[i] \in Nat
        /\ f[k] = r[k].size /\ r[k].size \in Nat /\ s[k].size \in Nat
    BY ClaimTyped
  <1>2. f \in [S -> Nat] /\ g \in [S -> Nat] /\ \A i \in S \ {k} : f[i] = g[i]
    BY <1>1 DEF ClaimOf
  <1>3. \A i \in S : c[i] \in Nat
    BY ClaimTyped
  <1>4. ASSUME NEW i \in S PROVE c[i] <= g[i]
    <2>1. /\ f[i] = IF i \in C THEN r[i].size ELSE 0
          /\ c[i] = IF i \in D THEN s[i].size ELSE 0
      BY ClaimTyped
    <2>2. /\ r[i].size \in Nat /\ s[i].size \in Nat
          /\ i # k => s[i].size = r[i].size /\ (i \in D => i \in C)
      BY ClaimTyped
    <2>3. g[i] = IF i = k THEN s[k].size ELSE f[i]
      OBVIOUS
    <2> HIDE DEF c, f, g
    <2> QED BY <2>1, <2>2, <2>3
  <1>5. g[k] = s[k].size
    OBVIOUS
  <1> HIDE DEF c, f, g
  <1>6. SumFunctionOnSet(c, S) <= SumFunctionOnSet(g, S)
    BY <1>1, <1>2, <1>3, <1>4, SumAtMost
  <1>7. /\ SumFunctionOnSet(f, S) \in Nat /\ SumFunctionOnSet(g, S) \in Nat
        /\ SumFunctionOnSet(g, S) = SumFunctionOnSet(f, S) - f[k] + g[k]
    BY <1>1, <1>2, SumUpdate
  <1>8. SumFunctionOnSet(c, S) \in Nat
    BY <1>1, <1>3, SumIsNat
  <1>9. SumFunctionOnSet(c, S) + r[k].size <= SumFunctionOnSet(f, S) + s[k].size
    BY <1>1, <1>5, <1>6, <1>7, <1>8
  <1> QED BY <1>9 DEF c, f, ClaimsOf

\* The claims of all rows are those of the old ones and those of the new ones.
LEMMA LongerClaims ==
  ASSUME NEW r \in Seq(RowType), NEW s \in Seq(RowType), NEW D, DOMAIN r \subseteq DOMAIN s
  PROVE  /\ SumFunctionOnSet(ClaimOf(s, D), DOMAIN r) \in Nat
         /\ SumFunctionOnSet(ClaimOf(s, D), DOMAIN s \ DOMAIN r) \in Nat
         /\ ClaimsOf(s, D) = SumFunctionOnSet(ClaimOf(s, D), DOMAIN r)
                             + SumFunctionOnSet(ClaimOf(s, D), DOMAIN s \ DOMAIN r)
PROOF
  <1> DEFINE S == DOMAIN r
             T == DOMAIN s \ DOMAIN r
             c == ClaimOf(s, D)
  <1>1. IsFiniteSet(DOMAIN s) /\ \A i \in DOMAIN s : c[i] \in Nat
    BY ClaimTyped
  <1>2. IsFiniteSet(S) /\ IsFiniteSet(T)
    BY <1>1, FS_Subset
  <1>3. S \cap T = {} /\ S \cup T = DOMAIN s
    OBVIOUS
  <1>4. \A i \in S \cup T : c[i] \in Nat
    BY <1>1, <1>3
  <1>5. ClaimsOf(s, D) = SumFunctionOnSet(c, S \cup T)
    BY <1>3 DEF ClaimsOf
  <1> HIDE DEF c, S, T
  <1>6. SumFunctionOnSet(c, S \cup T) = SumFunctionOnSet(c, S) + SumFunctionOnSet(c, T)
    BY <1>2, <1>3, <1>4, SumOfUnion
  <1>7. SumFunctionOnSet(c, S) \in Nat /\ SumFunctionOnSet(c, T) \in Nat
    BY <1>2, <1>4, SumIsNat
  <1> QED BY <1>5, <1>6, <1>7 DEF c, S, T

\* The files of a link claim what upstream has realised of them.
LEMMA FilesClaim ==
  ASSUME IInv, NEW p \in DOMAIN listing, NEW kept, Fanned(p, kept), NEW D,
         \A i \in D : row'[i].status # "failed"
  PROVE  SumFunctionOnSet(ClaimOf(row', D), DOMAIN row' \ DOMAIN row) <= Realized(listing[p])
PROOF
  <1> DEFINE l == listing[p]
             K == Kept(l)
             n == Cardinality(K)
             m == Len(row)
             New == DOMAIN row' \ DOMAIN row
             done == {k \in DOMAIN l : l[k].outcome = "done"}
             size == [k \in DOMAIN l |-> l[k].size]
             I == 1..n
             f == [k \in K |-> IF k \in done THEN l[k].size ELSE 0]
             f1 == [k \in 1..n |-> f[kept[k]]]
             shift == [k \in 1..n |-> m + k]
             g == [i \in New |-> f1[i - m]]
             c == ClaimOf(row', D)
  <1>1. /\ kept \in Bijection(1..n, K) /\ n \in Nat /\ row' \in Seq(RowType) /\ m \in Nat
        /\ DOMAIN row = 1..m /\ DOMAIN row' = 1..(m + n)
        /\ \A k \in 1..n : kept[k] \in K /\ row'[m + k] = Child(p, l[kept[k]])
    BY DEF Fanned
  <1>2. IsFiniteSet(K) /\ (\A k \in DOMAIN l : l[k].size \in Nat) /\ K \subseteq DOMAIN l /\ done \subseteq K
    BY ListingTyped DEF Kept
  <1>3. (\A k \in K : f[k] \in Nat) /\ IsFiniteSet(1..n)
    BY <1>1, <1>2, FS_Interval
  <1>4. Realized(l) = SumFunctionOnSet(size, done)
    BY DEF Realized
  <1>5. \A i \in New : i - m \in 1..n /\ m + (i - m) = i
    <2> HIDE DEF n, m
    <2> QED BY <1>1
  <1>6. \A k \in 1..n : m + k \in New /\ (m + k) - m = k
    <2> HIDE DEF n, m
    <2> QED BY <1>1
  <1>7. SumFunctionOnSet(size, done) = SumFunctionOnSet(f, K)
    <2>1. /\ \A k \in done : size[k] = f[k]
          /\ \A k \in K \ done : f[k] = 0
      BY <1>2
    <2> HIDE DEF size, f, K, done
    <2> QED BY <1>2, <1>3, <2>1, SumOfSupport
  <1>8. SumFunctionOnSet(f, K) = SumFunctionOnSet(f1, I)
    <2>1. \A k \in I : f[kept[k]] = f1[k]
      OBVIOUS
    <2>2. \A k \in I : f1[k] \in Nat
      BY <1>1, <1>3, <2>1
    <2>3. kept \in Bijection(I, K) /\ IsFiniteSet(I)
      BY <1>1, <1>3
    <2> HIDE DEF f, f1, K, n, I
    <2> QED BY ONLY <2>1, <2>2, <2>3, SumRenamed, Zenon
  <1>9. SumFunctionOnSet(g, New) = SumFunctionOnSet(f1, I)
    <2>1. shift \in Bijection(I, New)
      <3>1. \A k \in 1..n : shift[k] \in New
        BY <1>6
      <3>2. \A k, j \in 1..n : shift[k] = shift[j] => k = j
        <4> HIDE DEF n, m, New
        <4> QED BY <1>1
      <3>3. \A i \in New : \E k \in 1..n : shift[k] = i
        BY <1>5
      <3> HIDE DEF New, n, m
      <3> QED BY <3>1, <3>2, <3>3 DEF Bijection, Injection, Surjection, IsInjective
    <2>2. \A k \in I : g[shift[k]] = f1[k]
      BY <1>6
    <2>3. \A k \in I : f1[k] \in Nat
      BY <1>1, <1>3
    <2>4. IsFiniteSet(I)
      BY <1>3
    <2> HIDE DEF g, f1, New, n, shift, I
    <2> QED BY ONLY <2>1, <2>2, <2>3, <2>4, SumRenamed, Zenon
  <1>10. SumFunctionOnSet(c, New) <= SumFunctionOnSet(g, New)
    <2>1. IsFiniteSet(New)
      <3>1. IsFiniteSet(DOMAIN row')
        BY <1>1, ClaimTyped
      <3> QED BY <3>1, FS_Subset
    <2>2. ASSUME NEW i \in New PROVE c[i] \in Nat /\ g[i] \in Nat /\ c[i] <= g[i]
      <3>1. PICK k \in 1..n : k = i - m /\ m + k = i
        BY <1>5
      <3>2. g[i] = (IF kept[k] \in done THEN l[kept[k]].size ELSE 0) /\ kept[k] \in K
        BY <1>1, <3>1
      <3>3. row'[i] = Child(p, l[kept[k]])
        BY <1>1, <3>1
      <3>4. row'[i].size = l[kept[k]].size /\ (kept[k] \notin done => row'[i].status = "failed")
        BY <1>2, <3>2, <3>3 DEF Child, Row
      <3>5. c[i] = IF i \in D THEN row'[i].size ELSE 0
        BY <1>1, ClaimTyped
      <3>6. l[kept[k]].size \in Nat
        BY <1>2, <3>2
      <3> HIDE DEF c, g, l, K, done
      <3> QED BY <3>2, <3>4, <3>5, <3>6
    <2> HIDE DEF c, g, New
    <2> QED BY <2>1, <2>2, SumAtMost
  <1> QED BY <1>4, <1>7, <1>8, <1>9, <1>10

CountedRows == {i \in DOMAIN row : Counted(i)}
Claims == ClaimsOf(row, CountedRows)

LEMMA TotalIsClaims ==
  ASSUME IInv, NEW S
  PROVE  TotalSize(S) = ClaimsOf(row, {i \in DOMAIN row : row[i].status \in S})
PROOF
  <1> DEFINE R == DOMAIN row
             T == {i \in R : row[i].status \in S}
             f == ClaimOf(row, T)
             g == [i \in R |-> row[i].size]
  <1>1. row \in Seq(RowType)
    BY DEF IInv, RowsOK
  <1>2. /\ IsFiniteSet(R)
        /\ \A i \in R : f[i] \in Nat /\ f[i] = IF i \in T THEN row[i].size ELSE 0
    BY <1>1, ClaimTyped
  <1>3. T \in SUBSET R /\ (\A i \in T : g[i] = f[i]) /\ \A i \in R \ T : f[i] = 0
    BY <1>2
  <1>4. TotalSize(S) = SumFunctionOnSet(g, T)
    BY DEF TotalSize
  <1>5. ClaimsOf(row, T) = SumFunctionOnSet(f, R)
    BY DEF ClaimsOf
  <1> HIDE DEF f, g, T, R
  <1>6. SumFunctionOnSet(g, T) = SumFunctionOnSet(f, R)
    BY <1>2, <1>3, SumOfSupport
  <1>7. TotalSize(S) = ClaimsOf(row, T)
    BY <1>4, <1>5, <1>6
  <1> QED BY <1>7 DEF T, R

\* What the code sums up is at least what counts, which is at least what the user has.
LEMMA ClaimsBounds ==
  ASSUME IInv
  PROVE  /\ Claims \in Nat /\ Used \in Nat /\ TotalSize(Counting) \in Nat
         /\ TotalSize(Counting) <= Claims /\ Claims <= Used
PROOF
  <1> DEFINE C == {i \in DOMAIN row : row[i].status \in Counting}
             A == {i \in DOMAIN row : row[i].status \in Active}
  <1>1. row \in Seq(RowType)
    BY DEF IInv, RowsOK
  <1>2. Claims \in Nat /\ ClaimsOf(row, C) \in Nat /\ ClaimsOf(row, A) \in Nat
    BY <1>1, ClaimTyped DEF Claims
  <1>3. TotalSize(Counting) = ClaimsOf(row, C) /\ Used = ClaimsOf(row, A)
    BY TotalIsClaims DEF Used
  <1>4. C \subseteq CountedRows /\ CountedRows \subseteq A
    BY DEF CountedRows, Counted, Counting, Active
  <1> HIDE DEF C, A
  <1>5. ClaimsOf(row, C) <= Claims
    BY <1>1, <1>4, OldClaims DEF Claims, ClaimsOf
  <1>6. Claims <= ClaimsOf(row, A)
    BY <1>1, <1>4, OldClaims DEF Claims, ClaimsOf
  <1> QED BY <1>2, <1>3, <1>5, <1>6

\* Rows keep their sizes: the claims do not grow.
SizesKept == DOMAIN row' = DOMAIN row /\ \A i \in DOMAIN row : row'[i].size = row[i].size

LEMMA RowsTyped == ASSUME IInv, [Next]_vars PROVE row \in Seq(RowType) /\ row' \in Seq(RowType) /\ DOMAIN row \subseteq DOMAIN row'
PROOF
  <1>1. IInv' /\ Shape
    BY NextKeeps, StepShape
  <1> QED BY <1>1 DEF IInv, RowsOK, Shape

LEMMA ClaimsKept ==
  ASSUME IInv, GhostInv, LinksInv, OneDeleter, [Next]_vars, SizesKept
  PROVE  Claims' <= Claims
PROOF
  <1>1. row \in Seq(RowType) /\ row' \in Seq(RowType) /\ DOMAIN row' = DOMAIN row
    BY RowsTyped DEF SizesKept
  <1>2. \A i \in DOMAIN row : (i \in CountedRows' => i \in CountedRows) /\ row'[i].size = row[i].size
    BY <1>1, CountedBefore DEF CountedRows, SizesKept
  <1>3. Claims' = SumFunctionOnSet(ClaimOf(row', CountedRows'), DOMAIN row)
    BY <1>1 DEF Claims, ClaimsOf
  <1> QED BY <1>1, <1>2, <1>3, OldClaims DEF Claims

LEMMA InsertClaims ==
  ASSUME IInv, GhostInv, LinksInv, OneDeleter, [Next]_vars, NEW a \in Actors, Insert(a)
  PROVE  Claims' <= Claims + job[a].size
PROOF
  <1> DEFINE r == Row(job[a].op, IF job[a].op = "upload" THEN "reserved" ELSE "transfer_pending", job[a].size)
             k == Len(row) + 1
             D == CountedRows'
             c == ClaimOf(row', D)
             New == DOMAIN row' \ DOMAIN row
  <1>1. row \in Seq(RowType) /\ row' \in Seq(RowType) /\ DOMAIN row \subseteq DOMAIN row'
    BY RowsTyped
  <1>2. row' = Append(row, r) /\ r.size = job[a].size /\ job[a].size \in Nat
    BY DEF Insert, Row, IInv, JobTyped
  <1> HIDE DEF r
  <1>3. row'[k] = r /\ New \subseteq {k}
    BY <1>1, <1>2, AppendAtEnd
  <1>4. \A i \in DOMAIN row : row'[i] = row[i]
    BY <1>1, <1>2, AppendStays, LenProperties
  <1>5. \A i \in DOMAIN row : (i \in D => i \in CountedRows) /\ row'[i].size = row[i].size
    BY <1>4, CountedBefore DEF CountedRows
  <1>6. IsFiniteSet(DOMAIN row') /\ \A i \in DOMAIN row' : c[i] \in Nat /\ c[i] = IF i \in D THEN row'[i].size ELSE 0
    BY <1>1, ClaimTyped
  <1>7. /\ Claims' = SumFunctionOnSet(c, DOMAIN row) + SumFunctionOnSet(c, New)
        /\ SumFunctionOnSet(c, DOMAIN row) \in Nat /\ SumFunctionOnSet(c, New) \in Nat
    BY <1>1, LongerClaims DEF Claims
  <1>8. SumFunctionOnSet(c, DOMAIN row) <= Claims
    BY <1>1, <1>5, OldClaims DEF Claims
  <1>9. SumFunctionOnSet(c, New) <= job[a].size
    <2>1. New = {} \/ New = {k}
      BY <1>3
    <2>2. CASE New = {}
      <3>1. SumFunctionOnSet(c, New) = 0
        <4> HIDE DEF c, New
        <4> QED BY <2>2, FS_EmptySet, SumOfZeroes
      <3> QED BY <1>2, <3>1
    <2>3. CASE New = {k}
      <3>1. c[k] \in Nat /\ c[k] <= job[a].size
        <4> HIDE DEF c, D
        <4> QED BY <1>2, <1>3, <1>6, <2>3
      <3> HIDE DEF c, New, k
      <3>2. IsFiniteSet({k}) /\ UnitCount(c, {k} \ {k}) = 0
        <4>1. {k} \ {k} = {} /\ Units(c, {}) = {}
          BY DEF Units
        <4> QED BY <4>1, FS_Singleton, FS_EmptySet DEF UnitCount
      <3>3. SumFunctionOnSet(c, {k}) = UnitCount(c, {k} \ {k}) + (IF k \in {k} THEN c[k] ELSE 0)
        BY <3>1, <3>2, SumWithout
      <3> QED BY <2>3, <3>1, <3>2, <3>3
    <2> QED BY <2>1, <2>2, <2>3
  <1>10. Claims \in Nat
    BY ClaimsBounds
  <1> HIDE DEF c, New
  <1> QED BY <1>2, <1>7, <1>8, <1>9, <1>10

LEMMA GrownClaims ==
  ASSUME IInv, GhostInv, LinksInv, OneDeleter, [Next]_vars, NEW a \in Actors, GrowLink(a) \/ GrowUpload(a)
  PROVE  /\ job[a].row \in DOMAIN row /\ row[job[a].row].size \in Nat
         /\ Claims' + row[job[a].row].size <= Claims + job[a].size
PROOF
  <1> DEFINE k == job[a].row
  <1>1. row \in Seq(RowType) /\ row' \in Seq(RowType)
    BY RowsTyped
  <1>2. k \in DOMAIN row /\ row[k].status \in {"transfer_pending", "reserved"} /\ row[k] \in RowType
    <2>1. CASE GrowLink(a)
      <3>1. Owner(a) /\ job[a].op = "link"
        BY <2>1 DEF GrowLink, At, Owner
      <3> QED BY <3>1, RowTyped DEF IInv, KnowsRows, LinksInv, Pending
    <2>2. CASE GrowUpload(a)
      <3>1. job[a].op = "callback" /\ pc[a] = "write"
        BY <2>2 DEF GrowUpload, At
      <3> QED BY <3>1, RowTyped DEF IInv, KnowsRows
    <2> QED BY <2>1, <2>2
  <1>3. k \in CountedRows
    BY <1>2, CountingKnown DEF CountedRows, Counted
  <1>4. /\ DOMAIN row' = DOMAIN row /\ row'[k].size = job[a].size
        /\ \A i \in DOMAIN row \ {k} : row'[i] = row[i]
    <2>1. CASE GrowLink(a)
      <3>1. row' = [row EXCEPT ![k] = [row[k] EXCEPT !.upload = TRUE, !.size = job[a].size]]
        BY <2>1 DEF GrowLink
      <3> HIDE DEF k
      <3> QED BY <1>2, <3>1 DEF RowType
    <2>2. CASE GrowUpload(a)
      <3>1. row' = [row EXCEPT ![k] = [row[k] EXCEPT !.status = "completed", !.size = job[a].size]]
        BY <2>2 DEF GrowUpload
      <3> HIDE DEF k
      <3> QED BY <1>2, <3>1 DEF RowType
    <2> QED BY <2>1, <2>2
  <1> HIDE DEF k
  <1>5. \A i \in DOMAIN row \ {k} : (i \in CountedRows' => i \in CountedRows) /\ row'[i].size = row[i].size
    BY <1>4, CountedBefore DEF CountedRows
  <1>6. SumFunctionOnSet(ClaimOf(row', CountedRows'), DOMAIN row) + row[k].size <= Claims + row'[k].size
    BY <1>1, <1>2, <1>3, <1>4, <1>5, ResizedClaims DEF Claims
  <1>7. Claims' = SumFunctionOnSet(ClaimOf(row', CountedRows'), DOMAIN row)
    BY <1>4 DEF Claims, ClaimsOf
  <1> QED BY <1>2, <1>4, <1>6, <1>7 DEF k, RowType

LEMMA SplitClaims ==
  ASSUME IInv, GhostInv, LinksInv, OneDeleter, [Next]_vars, NEW p, SplitOf(p)
  PROVE  /\ p \in DOMAIN row /\ row[p].size \in Nat /\ Realized(listing[p]) \in Nat
         /\ Claims' + row[p].size <= Claims + Realized(listing[p])
PROOF
  <1> DEFINE D == CountedRows'
             c == ClaimOf(row', D)
             New == DOMAIN row' \ DOMAIN row
  <1>1. row \in Seq(RowType) /\ row' \in Seq(RowType) /\ DOMAIN row \subseteq DOMAIN row'
    BY RowsTyped
  <1>2. p \in DOMAIN row /\ p \in DOMAIN listing /\ row[p].status = "transfer_pending" /\ row[p] \in RowType
    BY RowTyped DEF SplitOf, LinksInv, Pending
  <1>3. p \in CountedRows
    BY <1>2, CountingKnown DEF CountedRows, Counted
  <1>4. PICK kept : Fanned(p, kept)
    BY <1>2, FanOutShape DEF SplitOf
  <1>5. row'[p].size = 0 /\ \A i \in DOMAIN row \ {p} : row'[i] = row[i]
    <2>1. row'[p] = [row[p] EXCEPT !.settled = TRUE, !.size = 0, !.status = "transfer_completed"]
          /\ \A i \in DOMAIN row \ {p} : row'[i] = row[i]
      BY <1>4 DEF Fanned
    <2> QED BY <1>2, <2>1 DEF RowType
  <1>6. \A i \in DOMAIN row \ {p} : (i \in D => i \in CountedRows) /\ row'[i].size = row[i].size
    BY <1>5, CountedBefore DEF CountedRows
  <1>7. SumFunctionOnSet(c, DOMAIN row) + row[p].size <= Claims + 0
    <2> HIDE DEF D
    <2>1. SumFunctionOnSet(ClaimOf(row', D), DOMAIN row) + row[p].size <= ClaimsOf(row, CountedRows) + row'[p].size
      BY <1>1, <1>2, <1>3, <1>6, ResizedClaims
    <2> QED BY <1>5, <2>1 DEF Claims
  <1>8. \A i \in D : row'[i].status # "failed"
    BY CountingKnown DEF CountedRows, Counted
  <1>9. SumFunctionOnSet(c, New) <= Realized(listing[p])
    <2> HIDE DEF D
    <2> QED BY <1>2, <1>4, <1>8, FilesClaim
  <1>10. /\ Claims' = SumFunctionOnSet(c, DOMAIN row) + SumFunctionOnSet(c, New)
         /\ SumFunctionOnSet(c, DOMAIN row) \in Nat /\ SumFunctionOnSet(c, New) \in Nat
    BY <1>1, LongerClaims DEF Claims
  <1>11. Claims \in Nat /\ Realized(listing[p]) \in Nat /\ row[p].size \in Nat
    BY <1>2, ClaimsBounds, ListingTyped DEF RowType
  <1> HIDE DEF c, New, D
  <1> QED BY <1>2, <1>7, <1>9, <1>10, <1>11

-----------------------------------------------------------------------------
(* The quota is kept. *)

\* What counts is within the quota, with what is about to be inserted or written.
RoomInv ==
  /\ Claims <= Quota
  /\ \A a \in Actors :
       /\ pc[a] = "insert" /\ ~job[a].slot => Claims + job[a].size <= Quota
       /\ pc[a] = "write" => Claims + job[a].size <= Quota + Reserved(a)

\* Only a refresh splits a link.
LEMMA SplitBy ==
  ASSUME IInv, [Next]_vars, NEW p, SplitOf(p)
  PROVE  \E a \in Actors : Settle(a) \/ SettleGrown(a)
PROOF
  <1>1. /\ p \in DOMAIN row /\ row[p] \in RowType /\ row[p].settled = FALSE
        /\ row'[p] = [row[p] EXCEPT !.settled = TRUE, !.size = 0, !.status = "transfer_completed"]
    <2>1. p \in DOMAIN row /\ p \in DOMAIN listing /\ FanOut(p) /\ ~row[p].settled
      BY DEF SplitOf
    <2>2. \E kept : Fanned(p, kept)
      BY <2>1, FanOutShape
    <2> QED BY <2>1, <2>2, RowTyped DEF Fanned, RowType
  <1>2. row'[p].settled = TRUE
    BY <1>1 DEF RowType
  <1>3. ASSUME NEW k, NEW s, row' = [row EXCEPT ![k].status = s] PROVE FALSE
    BY <1>1, <1>2, <1>3 DEF RowType
  <1>4. ASSUME NEW b \in Actors, Proceed(b), ~Settle(b), ~SettleGrown(b) PROVE FALSE
    <2>1. CASE Insert(b)
      <3>1. PICK r : row' = Append(row, r)
        BY <2>1 DEF Insert
      <3>2. row'[p] = row[p]
        BY <1>1, <3>1, AppendStays, LenProperties DEF IInv, RowsOK
      <3> QED BY <1>1, <1>2, <3>2
    <2>2. CASE AttachUpload(b)
      <3>1. row' = [row EXCEPT ![job[b].row] = [row[job[b].row] EXCEPT !.file = TRUE]]
        BY <2>2 DEF AttachUpload
      <3>2. row'[p] = row[p] \/ row'[p] = [row[p] EXCEPT !.file = TRUE]
        BY <1>1, <3>1
      <3> QED BY <1>1, <1>2, <3>2 DEF RowType
    <2>3. CASE AttachLink(b)
      <3>1. row' = row \/ row' = [row EXCEPT ![job[b].row] = [row[job[b].row] EXCEPT !.upload = TRUE]]
        BY <2>3 DEF AttachLink
      <3>2. row'[p] = row[p] \/ row'[p] = [row[p] EXCEPT !.upload = TRUE]
        BY <1>1, <3>1
      <3> QED BY <1>1, <1>2, <3>2 DEF RowType
    <2>4. CASE GrowLink(b)
      <3>1. row' = [row EXCEPT ![job[b].row] = [row[job[b].row] EXCEPT !.upload = TRUE, !.size = job[b].size]]
        BY <2>4 DEF GrowLink
      <3> QED BY <1>1, <1>2, <3>1 DEF RowType
    <2>5. CASE GrowUpload(b)
      <3>1. row' = [row EXCEPT ![job[b].row] = [row[job[b].row] EXCEPT !.status = "completed", !.size = job[b].size]]
        BY <2>5 DEF GrowUpload
      <3> QED BY <1>1, <1>2, <3>1 DEF RowType
    <2>6. CASE Enqueue(b) \/ EnsureGrowth(b) \/ Erase(b)
      BY <1>1, <1>2, <2>6 DEF Enqueue, EnsureGrowth, Erase
    <2>7. CASE MarkFailed(b) \/ CompleteUpload(b) \/ RestoreStatus(b)
      <3>1. row' = row \/ \E k, s : row' = [row EXCEPT ![k].status = s]
        BY <2>7 DEF MarkFailed, CompleteUpload, RestoreStatus, SetStatus
      <3> QED BY <1>1, <1>2, <1>3, <3>1
    <2>8. CASE FinaliseDelete(b)
      <3>1. row'[p] = row[p] \/ row'[p] = [row[p] EXCEPT !.status = "deleted"]
        BY <1>1, <2>8 DEF FinaliseDelete
      <3> QED BY <1>1, <1>2, <3>1 DEF RowType
    <2> QED BY <1>4, <2>1, <2>2, <2>3, <2>4, <2>5, <2>6, <2>7, <2>8 DEF Proceed
  <1>5. ASSUME NEW w \in Workers, Arrive(w) PROVE FALSE
    <2>1. row'[p] = row[p] \/ row'[p] = [row[p] EXCEPT !.status = "delete_pending"]
      BY <1>1, <1>5 DEF Arrive, EnsureQuota, ReserveSlot, Callback, Refresh, SoftDelete, SoftDeleteFails
    <2> QED BY <1>1, <1>2, <2>1 DEF RowType
  <1>6. ASSUME NEW a \in Actors, Fails(a) PROVE FALSE
    <2>1. row' = row
      BY <1>6 DEF Fails, InsertFails, MarkFailedFails, EnqueueFails, RequestFails, PollFails, EraseFails,
             RestoreFails, FinaliseFails
    <2> QED BY <1>1, <1>2, <2>1
  <1>7. ASSUME (\E t \in Threads : RunSubmission(t)) \/ Crash \/ UNCHANGED vars
                 \/ \E k \in DOMAIN row : LinkEnds(k)
        PROVE  FALSE
    <2>1. row' = row
      BY <1>7 DEF RunSubmission, Crash, vars, LinkEnds
    <2> QED BY <1>1, <1>2, <2>1
  <1> QED BY <1>4, <1>5, <1>6, <1>7 DEF Next

\* A link is split with room for its files, or after the check of the quota.
LEMMA SplitFits ==
  ASSUME IInv, LinksInv, NEW a \in Actors, Settle(a) \/ SettleGrown(a)
  PROVE  \/ SizesKept
         \/ /\ pc[a] = "poll" /\ Free(a, {Users})
            /\ \E p : SplitOf(p) /\ Realized(listing[p]) <= row[p].size
         \/ /\ pc[a] = "write" /\ SplitOf(job[a].row)
            /\ job[a].size = Realized(listing[job[a].row]) /\ Reserved(a) = row[job[a].row].size
            /\ pc'[a] \in {"idle", "poll"}
PROOF
  <1>1. CASE Settle(a)
    <2>1. PICK i \in DOMAIN job[a].todo :
            \/ UNCHANGED row
            \/ /\ i \in DOMAIN listing /\ ~row[i].settled /\ Realized(listing[i]) <= job[a].todo[i]
               /\ Free(a, {i, Users}) /\ FanOut(i)
      BY <1>1 DEF Settle, SettledAlready
    <2>2. CASE UNCHANGED row
      BY <2>2 DEF SizesKept
    <2>3. CASE i \in DOMAIN listing /\ ~row[i].settled /\ Realized(listing[i]) <= job[a].todo[i]
               /\ Free(a, {i, Users}) /\ FanOut(i)
      <3>1. pc[a] = "poll" /\ job[a].op = "refresh"
        BY <1>1 DEF Settle, At, IInv, OnRoute
      <3>2. i \in DOMAIN row /\ row[i].kind = "link" /\ row[i].upload /\ row[i].size = job[a].todo[i]
        BY <2>3, <3>1 DEF IInv, KnowsRows, LinksInv
      <3>3. Free(a, {Users})
        BY <2>3 DEF Free
      <3>4. SplitOf(i)
        BY <2>3, <3>2 DEF SplitOf
      <3>5. SplitOf(i) /\ Realized(listing[i]) <= row[i].size
        BY <2>3, <3>2, <3>4
      <3> QED BY <3>1, <3>3, <3>5
    <2> QED BY <2>1, <2>2, <2>3
  <1>2. CASE SettleGrown(a)
    <2> DEFINE i == job[a].row
    <2>1. pc[a] = "write" /\ job[a].op = "refresh" /\ FanOut(i) /\ NextParent(a, i)
      BY <1>2 DEF SettleGrown, At
    <2>2. /\ i \in DOMAIN job[a].todo /\ i \in DOMAIN listing /\ ~row[i].settled
          /\ job[a].size = Realized(listing[i])
          /\ \A k \in DOMAIN job[a].todo : k \in DOMAIN row /\ row[k].kind = "link" /\ row[k].upload
      BY <2>1 DEF IInv, KnowsRows
    <2>3. row[i].size = job[a].todo[i]
      BY <2>1, <2>2 DEF LinksInv
    <2>4. SplitOf(i)
      BY <2>1, <2>2 DEF SplitOf
    <2>5. pc'[a] \in {"idle", "poll"}
      BY <2>1, NextParentGoes
    <2> QED BY <2>1, <2>2, <2>3, <2>4, <2>5 DEF Reserved
  <1> QED BY <1>1, <1>2

\* A step that is none of these leaves all sizes as they are.
LEMMA SizesStay ==
  ASSUME IInv, [Next]_vars,
         \A a \in Actors : ~Insert(a) /\ ~GrowLink(a) /\ ~GrowUpload(a)
                           /\ (Settle(a) \/ SettleGrown(a) => SizesKept)
  PROVE  SizesKept
PROOF
  <1>1. CASE \E p : SplitOf(p)
    BY <1>1, SplitBy
  <1>2. CASE \A p : ~SplitOf(p)
    BY <1>2, RowsComeFrom, SizeBy DEF SizesKept
  <1> QED BY <1>1, <1>2

LEMMA ClaimsFit ==
  ASSUME IInv, GhostInv, LinksInv, RoomInv, OneDeleter, [Next]_vars
  PROVE  Claims' <= Quota
PROOF
  <1>1. Claims \in Nat /\ Claims' \in Nat /\ Claims <= Quota /\ Quota \in Nat
    <2>1. Claims' \in Nat
      BY RowsTyped, ClaimTyped DEF Claims
    <2> QED BY <2>1, ClaimsBounds, NumbersAssumption DEF RoomInv
  <1>2. ASSUME NEW a \in Actors, Insert(a) PROVE Claims' <= Quota
    <2>1. pc[a] = "insert" /\ job[a].size \in Nat /\ (job[a].slot => job[a].size = 0)
      BY <1>2 DEF Insert, At, IInv, OnRoute, JobTyped
    <2>2. Claims' <= Claims + job[a].size
      BY <1>2, InsertClaims
    <2>3. ~job[a].slot => Claims + job[a].size <= Quota
      BY <2>1 DEF RoomInv
    <2> QED BY <1>1, <2>1, <2>2, <2>3
  <1>3. ASSUME NEW a \in Actors, GrowLink(a) \/ GrowUpload(a) PROVE Claims' <= Quota
    <2>1. pc[a] = "write" /\ job[a].op # "refresh" /\ job[a].size \in Nat
      BY <1>3 DEF GrowLink, GrowUpload, At, IInv, JobTyped
    <2>2. Claims + job[a].size <= Quota + row[job[a].row].size
      BY <2>1 DEF RoomInv, Reserved
    <2>3. row[job[a].row].size \in Nat /\ Claims' + row[job[a].row].size <= Claims + job[a].size
      BY <1>3, GrownClaims
    <2> QED BY <1>1, <2>1, <2>2, <2>3
  <1>4. ASSUME NEW a \in Actors, Settle(a) \/ SettleGrown(a), ~SizesKept PROVE Claims' <= Quota
    <2>1. ASSUME NEW p, SplitOf(p), Realized(listing[p]) <= row[p].size PROVE Claims' <= Quota
      BY <1>1, <2>1, SplitClaims
    <2>2. ASSUME pc[a] = "write", SplitOf(job[a].row), job[a].size = Realized(listing[job[a].row]),
                 Reserved(a) = row[job[a].row].size
          PROVE  Claims' <= Quota
      <3>1. Claims + job[a].size <= Quota + Reserved(a)
        BY <2>2 DEF RoomInv
      <3>2. /\ row[job[a].row].size \in Nat /\ job[a].size \in Nat
            /\ Claims' + row[job[a].row].size <= Claims + job[a].size
        BY <2>2, SplitClaims
      <3> QED BY <1>1, <2>2, <3>1, <3>2
    <2> QED BY <1>4, <2>1, <2>2, SplitFits
  <1>5. CASE SizesKept
    BY <1>1, <1>5, ClaimsKept
  <1> QED BY <1>2, <1>3, <1>4, <1>5, SizesStay

\* While somebody has the row of users locked to insert or to write, nothing else grows.
LEMMA OthersWait ==
  ASSUME IInv, LinksInv, [Next]_vars, NEW b \in Actors, pc[b] \in {"insert", "write"}, pc'[b] = pc[b],
         Users \in locks[b]
  PROVE  SizesKept
PROOF
  <1>1. \A a \in Actors : Users \in locks[a] => a = b
    BY DEF IInv, LocksOK
  <1>2. \A a \in Actors : Free(a, {Users}) => a = b
    BY DEF Free
  <1>3. ASSUME NEW a \in Actors, Insert(a) PROVE FALSE
    <2>1. a = b
      BY <1>2, <1>3 DEF Insert
    <2>2. pc[a] = "insert" /\ pc'[a] \in {"attach", "enqueue", "submit"}
      BY <1>3 DEF Insert, At, GoTo, IInv
    <2> QED BY <2>1, <2>2
  <1>4. ASSUME NEW a \in Actors, GrowLink(a) \/ GrowUpload(a) PROVE FALSE
    <2>1. pc[a] = "write" /\ End(a)
      BY <1>4 DEF GrowLink, GrowUpload, At
    <2>2. a = b
      BY <1>1, <2>1 DEF IInv, OnRoute
    <2> QED BY <2>1, <2>2, EndIdle
  <1>5. ASSUME NEW a \in Actors, Settle(a) \/ SettleGrown(a), ~SizesKept PROVE FALSE
    <2>1. CASE pc[a] = "poll" /\ Free(a, {Users})
      BY <1>2, <2>1
    <2>2. CASE pc[a] = "write" /\ pc'[a] \in {"idle", "poll"}
      <3>1. a = b
        BY <1>1, <2>2 DEF IInv, OnRoute
      <3> QED BY <2>2, <3>1
    <2> QED BY <1>5, <2>1, <2>2, SplitFits
  <1> QED BY <1>3, <1>4, <1>5, SizesStay

LEMMA RoomStep ==
  ASSUME IInv, GhostInv, LinksInv, RoomInv, OneDeleter, [Next]_vars
  PROVE  RoomInv'
PROOF
  <1>1. Claims' <= Quota
    BY ClaimsFit
  <1>2. Claims \in Nat /\ Claims' \in Nat /\ Used \in Nat /\ Claims <= Used /\ Quota \in Nat
    <2>1. Claims' \in Nat
      BY RowsTyped, ClaimTyped DEF Claims
    <2> QED BY <2>1, ClaimsBounds, NumbersAssumption
  <1>3. ASSUME NEW b \in Actors, pc'[b] \in {"insert", "write"}, pc'[b] = "insert" => ~job'[b].slot
        PROVE  /\ pc'[b] = "insert" => Claims' + job'[b].size <= Quota
               /\ pc'[b] = "write" => Claims' + job'[b].size <= Quota + Reserved(b)'
    <2>0. JobTyped(job[b])
      BY DEF IInv
    <2>1. CASE job'[b] = job[b] /\ pc'[b] = pc[b]
      <3>1. Users \in locks[b]
        BY <1>3, <2>1 DEF IInv, OnRoute
      <3>2. SizesKept
        BY <1>3, <2>1, <3>1, OthersWait
      <3>3. Claims' <= Claims
        BY <3>2, ClaimsKept
      <3>4. job[b].size \in Nat
        BY <2>0 DEF JobTyped
      <3>5. CASE pc[b] = "insert"
        <4>1. Claims + job[b].size <= Quota
          BY <1>3, <2>1, <3>5 DEF RoomInv
        <4> QED BY <1>2, <2>1, <3>3, <3>4, <3>5, <4>1
      <3>6. CASE pc[b] = "write"
        <4>1. Claims + job[b].size <= Quota + Reserved(b)
          BY <3>6 DEF RoomInv
        <4>2. Reserved(b)' = Reserved(b) /\ Reserved(b) \in Nat
          <5>1. CASE job[b].op = "refresh"
            <6>1. job[b].row \in DOMAIN job[b].todo /\ Reserved(b) = job[b].todo[job[b].row]
                  /\ Reserved(b)' = job[b].todo[job[b].row]
              BY <2>1, <3>6, <5>1 DEF IInv, KnowsRows, Reserved
            <6> QED BY <2>0, <6>1 DEF JobTyped
          <5>2. CASE job[b].op # "refresh"
            <6>1. job[b].row \in DOMAIN row
              BY <3>6, <5>2 DEF IInv, OnRoute, KnowsRows, Owner
            <6>2. row'[job[b].row].size = row[job[b].row].size /\ row[job[b].row].size \in Nat
              BY <3>2, <6>1, RowTyped DEF SizesKept, RowType
            <6> QED BY <2>1, <5>2, <6>2 DEF Reserved
          <5> QED BY <5>1, <5>2
        <4> QED BY <1>2, <2>1, <3>3, <3>4, <3>6, <4>1, <4>2
      <3> QED BY <1>3, <2>1, <3>5, <3>6
    <2>2. ASSUME NEW op, NEW size \in Sizes, EnsureQuota(b, op, size)
          PROVE  pc'[b] = "insert" /\ Claims' + job'[b].size <= Quota
      <3>1. /\ pc'[b] = "insert" /\ job'[b].size = size /\ Used + size <= Quota /\ UNCHANGED row
        BY <2>2 DEF EnsureQuota, GoTo, Learn, Idle, IInv
      <3>2. Claims' <= Claims
        BY <3>1, ClaimsKept DEF SizesKept
      <3>3. size \in Nat
        BY NumbersAssumption
      <3>4. Claims' + size <= Quota
        BY <1>2, <3>1, <3>2, <3>3
      <3> QED BY <3>1, <3>4
    <2>3. ASSUME ReserveSlot(b) PROVE FALSE
      BY <1>3, <2>3 DEF ReserveSlot, GoTo, Learn, Idle, IInv
    <2>4. ASSUME EnsureGrowth(b)
          PROVE  pc'[b] = "write" /\ Claims' + job'[b].size <= Quota + Reserved(b)'
      <3>1. pc[b] = "grow" /\ UNCHANGED row
        BY <2>4 DEF EnsureGrowth, At
      <3>2. ASSUME End(b) \/ NextParent(b, job[b].row) \/ GoTo(b, "fail") PROVE FALSE
        BY <1>3, <3>2, EndIdle, NextParentGoes DEF GoTo, IInv
      <3>3. job[b].op \in {"link", "callback", "refresh"}
        BY <3>1 DEF IInv, OnRoute
      <3>4. ~(Used + job[b].size > Quota + Reserved(b)) /\ GoTo(b, "write") /\ UNCHANGED job
        BY <2>4, <3>2, <3>3 DEF EnsureGrowth
      <3>5. job[b].size \in Nat /\ Reserved(b) \in Nat
        <4>1. CASE job[b].op = "refresh"
          <5>1. job[b].row \in DOMAIN job[b].todo /\ Reserved(b) = job[b].todo[job[b].row]
            BY <3>1, <4>1 DEF IInv, KnowsRows, Reserved
          <5> QED BY <2>0, <5>1 DEF JobTyped
        <4>2. CASE job[b].op # "refresh"
          <5>1. job[b].row \in DOMAIN row /\ Reserved(b) = row[job[b].row].size
            BY <3>1, <4>2 DEF IInv, OnRoute, KnowsRows, Owner, Reserved
          <5> QED BY <2>0, <5>1, RowTyped DEF JobTyped, RowType
        <4> QED BY <4>1, <4>2
      <3>6. Claims' <= Claims
        BY <3>1, ClaimsKept DEF SizesKept
      <3>7. pc'[b] = "write" /\ job'[b] = job[b] /\ Reserved(b)' = Reserved(b)
        BY <3>1, <3>4 DEF GoTo, Reserved, IInv
      <3> QED BY <1>2, <3>4, <3>5, <3>6, <3>7
    <2> QED BY <1>3, <2>1, <2>2, <2>3, <2>4, WriteFrom
  <1> QED BY <1>1, <1>3 DEF RoomInv

\* What is counted is what there is: no transfer's permit leaks, and what the user stores and
\* has reserved never exceeds the quota, whoever reserves, grows or splits at the same time
\* (store.py: paths that change the sum serialise on the users row).  It holds as long as the
\* client deletes one thing at a time and no pending link: a link deleted before it is bound
\* is bound and grows all the same, and two deletions may restore a row to what it was before
\* either of them.
THEOREM QuotaHolds == ASSUME OneDeleter, PendingLinksStay PROVE Spec => []Accounted
PROOF
  <1> DEFINE Inv == IInv /\ GhostInv /\ LinksInv /\ RoomInv
  <1>1. Init => RoomInv
    <2>1. ASSUME Init PROVE RoomInv
      <3>1. row = <<>> /\ \A a \in Actors : pc[a] = "idle"
        BY <2>1 DEF Init
      <3>2. DOMAIN row = {}
        BY <3>1
      <3>3. Claims = 0
        BY <3>2, FS_EmptySet, SumOfZeroes DEF Claims, ClaimsOf
      <3> QED BY <3>1, <3>3, NumbersAssumption DEF RoomInv
    <2> QED BY <2>1
  <1>2. Init => GhostInv
    <2>1. ASSUME Init PROVE store.erased = {} /\ \A a \in Actors : job[a].op \notin Deletions
      BY <2>1 DEF Init, Idle, Deletions
    <2> QED BY <2>1 DEF GhostInv, Confirmed
  <1>3. Inv /\ [Next]_vars => Inv'
    BY NextKeeps, GhostStep, LinksStep, RoomStep
  <1>4. Inv => WithinQuota
    <2>1. ASSUME IInv, RoomInv PROVE WithinQuota
      <3>1. TotalSize(Counting) <= Claims /\ Claims <= Quota
            /\ TotalSize(Counting) \in Nat /\ Claims \in Nat /\ Quota \in Nat
        BY <2>1, ClaimsBounds, NumbersAssumption DEF RoomInv
      <3>2. TotalSize(Counting) <= Quota
        BY <3>1
      <3> QED BY <3>2 DEF WithinQuota, Counting
    <2> QED BY <2>1
  <1> HIDE DEF Inv
  <1>5. Init => Inv
    BY <1>1, <1>2, InitHolds, LinksInit DEF Inv
  <1> QED BY <1>3, <1>4, <1>5, PermitsAreHeld, PTL DEF Spec, Accounted
=============================================================================
