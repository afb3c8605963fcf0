----------------------------- MODULE PollerProofs -----------------------------
(***************************************************************************)
(* The leader lock has one holder and is free between ticks, but for       *)
(* sessions that were refused to give it back: for any number of machines, *)
(* connections, tasks and failures.                                        *)
(*                                                                         *)
(* A connection is in the pool, with another thread or with the scan, and  *)
(* in one of them only; so what is closed for its age when it is drawn is  *)
(* never the session a scan lists with.                                    *)
(*                                                                         *)
(* A session may hold the lock more than once: it is granted to a session  *)
(* that already has it.  What makes the release enough is that a lock held *)
(* more often than the listing under way accounts for is a leaked one.     *)
(*                                                                         *)
(* The values of the other variables follow in a third part: the queue of  *)
(* running tasks stays a sequence of those that are not settled.           *)
(***************************************************************************)
EXTENDS Poller, FiniteSetTheorems, SequenceTheorems, TLAPS

(* Where connections are.                                                   *)

InStack(s, q) == \E i \in 1..Len(q) : q[i] = s

\* A stack of connections of one machine, each once.
Stacked(q, m) ==
  /\ q \in Seq(Sessions)
  /\ \A i \in 1..Len(q) : q[i][1] = m
  /\ \A i, k \in 1..Len(q) : q[i] = q[k] => i = k

\* The scan has a connection of its own exactly while it is connected.
Placed(m) ==
  /\ Stacked(idle[m], m)
  /\ \A s \in lent[m] : s[1] = m /\ ~InStack(s, idle[m])
  /\ IF pc[m] \in Connected
     THEN /\ conn[m] \in Sessions /\ conn[m][1] = m
          /\ conn[m] \notin lent[m] /\ ~InStack(conn[m], idle[m])
     ELSE conn[m] = None

PoolInv ==
  /\ pc \in [Machines -> {"off", "disabled", "idle", "drive"} \union Connected]
  /\ conn \in [Machines -> Sessions \union {None}]
  /\ idle \in [Machines -> Seq(Sessions)]
  /\ lent \in [Machines -> SUBSET Sessions]
  /\ \A m \in Machines : Placed(m)

\* Sessions belong to machines.
LEMMA SessionOf == \A s \in Sessions : s[1] \in Machines
BY DEF Sessions

\* A stack may be empty.
LEMMA EmptyStack == \A m : Stacked(<< >>, m)
BY EmptySeq DEF Stacked

\* Without its top a stack is a stack of the others.
LEMMA PoppedStack ==
  ASSUME NEW m, NEW q, Stacked(q, m), q # << >>
  PROVE  /\ Stacked(Tail(q), m) /\ InStack(Head(q), q) /\ ~InStack(Head(q), Tail(q))
         /\ Head(q) \in Sessions /\ Head(q)[1] = m
         /\ \A s : InStack(s, Tail(q)) => InStack(s, q)
<1>1. q \in Seq(Sessions) /\ Len(q) \in Nat
  BY LenProperties DEF Stacked
<1>2. /\ Head(q) \in Sessions /\ Tail(q) \in Seq(Sessions)
      /\ Len(Tail(q)) = Len(q) - 1 /\ Len(q) \in Nat \ {0} /\ Head(q) = q[1]
      /\ \A i \in 1..Len(Tail(q)) : Tail(q)[i] = q[i + 1]
  <2>1. Len(q) # 0
    BY <1>1, EmptySeq, LenProperties
  <2>. QED
    BY <1>1, <2>1, HeadTailProperties
<1>3. 1 \in 1..Len(q) /\ \A i \in 1..Len(Tail(q)) : i + 1 \in 1..Len(q) /\ i + 1 # 1
  BY <1>2
<1>4. \A i, k \in 1..Len(Tail(q)) : Tail(q)[i] = Tail(q)[k] => i = k
  <2>. SUFFICES ASSUME NEW i \in 1..Len(Tail(q)), NEW k \in 1..Len(Tail(q)), Tail(q)[i] = Tail(q)[k]
                PROVE  i = k
    OBVIOUS
  <2>1. i + 1 = k + 1
    BY <1>2, <1>3 DEF Stacked
  <2>. QED
    BY <1>2, <2>1
<1>. QED
  BY <1>2, <1>3, <1>4 DEF Stacked, InStack

\* A connection that is not in the stack may be put on it.
LEMMA PushedStack ==
  ASSUME NEW m, NEW q, Stacked(q, m), NEW s \in Sessions, s[1] = m, ~InStack(s, q)
  PROVE  /\ Stacked(<<s>> \o q, m)
         /\ \A r : InStack(r, <<s>> \o q) => r = s \/ InStack(r, q)
<1>. DEFINE p == <<s>> \o q
<1>1. <<s>> \in Seq(Sessions) /\ Len(<<s>>) = 1 /\ <<s>>[1] = s /\ q \in Seq(Sessions) /\ Len(q) \in Nat
  BY LenProperties DEF Stacked
<1>2. /\ p \in Seq(Sessions) /\ Len(p) = Len(<<s>>) + Len(q)
      /\ \A i \in 1..(Len(<<s>>) + Len(q)) :
           p[i] = IF i <= Len(<<s>>) THEN <<s>>[i] ELSE q[i - Len(<<s>>)]
  BY <1>1, ConcatProperties
<1>. HIDE DEF p
<1>3. /\ Len(p) = 1 + Len(q)
      /\ \A i \in 1..Len(p) : IF i = 1 THEN p[i] = s ELSE i - 1 \in 1..Len(q) /\ p[i] = q[i - 1]
  BY <1>1, <1>2
<1>4. \A i \in 1..Len(p) : p[i][1] = m
  BY <1>3 DEF Stacked
<1>5. ASSUME NEW i \in 1..Len(p), NEW k \in 1..Len(p), p[i] = p[k] PROVE i = k
  <2>1. CASE i = 1 \/ k = 1
    BY <1>3, <1>5, <2>1 DEF InStack
  <2>2. CASE i # 1 /\ k # 1
    <3>1. i - 1 = k - 1
      BY <1>3, <1>5, <2>2 DEF Stacked
    <3>. QED
      BY <1>1, <1>3, <3>1
  <2>. QED
    BY <2>1, <2>2
<1>6. ASSUME NEW r, InStack(r, p) PROVE r = s \/ InStack(r, q)
  BY <1>3, <1>6 DEF InStack
<1>. QED
  BY <1>2, <1>4, <1>5, <1>6 DEF Stacked, p

\* What is drawn was nowhere else, and is not in the pool any more.
LEMMA DrawnFromPool ==
  ASSUME PoolInv, NEW m \in Machines, NEW s \in Sessions, Drawn(m, s)
  PROVE  /\ s[1] = m /\ idle' \in [Machines -> Seq(Sessions)]
         /\ \A n \in Machines \ {m} : idle'[n] = idle[n]
         /\ Stacked(idle'[m], m) /\ ~InStack(s, idle'[m])
         /\ \A r : InStack(r, idle'[m]) => InStack(r, idle[m])
         /\ s \notin lent[m] /\ (pc[m] \in Connected => conn[m] # s)
<1>1. Placed(m) /\ Stacked(idle[m], m) /\ idle \in [Machines -> Seq(Sessions)] /\ s[1] = m
  BY DEF PoolInv, Placed, Drawn
<1>2. CASE idle[m] # << >> /\ s = Head(idle[m]) /\ idle' = [idle EXCEPT ![m] = Tail(@)]
  <2>1. /\ Stacked(Tail(idle[m]), m) /\ InStack(s, idle[m]) /\ ~InStack(s, Tail(idle[m]))
        /\ \A r : InStack(r, Tail(idle[m])) => InStack(r, idle[m])
    BY <1>1, <1>2, PoppedStack
  <2>2. Tail(idle[m]) \in Seq(Sessions)
    BY <2>1 DEF Stacked
  <2>3. idle'[m] = Tail(idle[m]) /\ idle' \in [Machines -> Seq(Sessions)]
        /\ \A n \in Machines \ {m} : idle'[n] = idle[n]
    BY <1>1, <1>2, <2>2
  <2>4. s \notin lent[m] /\ (pc[m] \in Connected => conn[m] # s)
    BY <1>1, <2>1 DEF Placed
  <2>. QED
    BY <1>1, <2>1, <2>3, <2>4
<1>3. CASE idle[m] = << >> /\ OpenedNext(m, s) /\ UNCHANGED idle
  <2>1. s \notin lent[m] /\ conn[m] # s
    BY <1>3 DEF OpenedNext
  <2>2. ~InStack(s, << >>)
    BY EmptySeq DEF InStack
  <2>. QED
    BY <1>1, <1>3, <2>1, <2>2
<1>. QED
  BY <1>2, <1>3 DEF Drawn

\* Nothing moves unless one of these variables changes.
LEMMA PoolUntouched ==
  ASSUME PoolInv, UNCHANGED <<conn, idle, lent>>,
         pc' \in [Machines -> {"off", "disabled", "idle", "drive"} \union Connected],
         \A m \in Machines : pc'[m] \in Connected <=> pc[m] \in Connected
  PROVE  PoolInv'
BY DEF PoolInv, Placed

\* The scan takes its connection, and other threads take theirs.
LEMMA CheckOutKeepsPool ==
  ASSUME PoolInv, NEW m \in Machines, Tick(m) \/ Borrow(m)
  PROVE  PoolInv'
<1>1. CASE Tick(m)
  <2>1. PICK s \in Sessions : Drawn(m, s) /\ conn' = [conn EXCEPT ![m] = s]
    BY <1>1 DEF Tick, CheckOut
  <2>2. pc[m] = "idle" /\ pc' = [pc EXCEPT ![m] = "connected"] /\ UNCHANGED lent
    BY <1>1 DEF Tick
  <2>3. /\ s[1] = m /\ idle' \in [Machines -> Seq(Sessions)]
        /\ \A n \in Machines \ {m} : idle'[n] = idle[n]
        /\ Stacked(idle'[m], m) /\ ~InStack(s, idle'[m])
        /\ \A r : InStack(r, idle'[m]) => InStack(r, idle[m])
        /\ s \notin lent[m]
    BY <2>1, DrawnFromPool
  <2>4. /\ conn' \in [Machines -> Sessions \union {None}] /\ conn'[m] = s
        /\ pc' \in [Machines -> {"off", "disabled", "idle", "drive"} \union Connected]
        /\ pc'[m] = "connected"
        /\ \A n \in Machines \ {m} : pc'[n] = pc[n] /\ conn'[n] = conn[n]
    BY <2>1, <2>2 DEF PoolInv, Connected
  <2>5. Placed(m)'
    BY <2>2, <2>3, <2>4 DEF PoolInv, Placed, Connected
  <2>6. \A n \in Machines \ {m} : Placed(n)'
    BY <2>2, <2>3, <2>4 DEF PoolInv, Placed
  <2>. QED
    BY <2>2, <2>3, <2>4, <2>5, <2>6 DEF PoolInv
<1>2. CASE Borrow(m)
  <2>1. PICK s \in Sessions : Drawn(m, s) /\ lent' = [lent EXCEPT ![m] = @ \union {s}]
    BY <1>2 DEF Borrow, CheckOut
  <2>2. UNCHANGED <<pc, conn>>
    BY <1>2 DEF Borrow
  <2>3. /\ s[1] = m /\ idle' \in [Machines -> Seq(Sessions)]
        /\ \A n \in Machines \ {m} : idle'[n] = idle[n]
        /\ Stacked(idle'[m], m) /\ ~InStack(s, idle'[m])
        /\ \A r : InStack(r, idle'[m]) => InStack(r, idle[m])
        /\ pc[m] \in Connected => conn[m] # s
    BY <2>1, DrawnFromPool
  <2>4. /\ lent' \in [Machines -> SUBSET Sessions] /\ lent'[m] = lent[m] \union {s}
        /\ \A n \in Machines \ {m} : lent'[n] = lent[n]
    BY <2>1 DEF PoolInv
  <2>5. Placed(m)'
    BY <2>2, <2>3, <2>4 DEF PoolInv, Placed
  <2>6. \A n \in Machines \ {m} : Placed(n)'
    BY <2>2, <2>3, <2>4 DEF PoolInv, Placed
  <2>. QED
    BY <2>2, <2>3, <2>4, <2>5, <2>6 DEF PoolInv
<1>. QED
  BY <1>1, <1>2

\* What the scan gives back goes on top of the pool.
LEMMA ScanReturns ==
  ASSUME PoolInv, NEW m \in Machines, pc[m] \in Connected,
         CheckIn(m, conn[m]), conn' = [conn EXCEPT ![m] = None],
         NEW l \in {"idle", "drive"}, pc' = [pc EXCEPT ![m] = l], UNCHANGED lent
  PROVE  PoolInv'
<1>. DEFINE s == conn[m]
            q == <<s>> \o idle[m]
<1>1. /\ s \in Sessions /\ s[1] = m /\ s \notin lent[m] /\ ~InStack(s, idle[m])
      /\ Stacked(idle[m], m) /\ \A r \in lent[m] : r[1] = m /\ ~InStack(r, idle[m])
  BY DEF PoolInv, Placed
<1>2. idle' = [idle EXCEPT ![m] = q]
  BY DEF CheckIn
<1>3. Stacked(q, m) /\ \A r : InStack(r, q) => r = s \/ InStack(r, idle[m])
  BY <1>1, PushedStack
<1>. HIDE DEF s, q
<1>4. /\ idle' \in [Machines -> Seq(Sessions)] /\ idle'[m] = q
      /\ \A n \in Machines \ {m} : idle'[n] = idle[n]
  BY <1>2, <1>3 DEF PoolInv, Stacked
<1>5. /\ conn' \in [Machines -> Sessions \union {None}] /\ conn'[m] = None
      /\ pc' \in [Machines -> {"off", "disabled", "idle", "drive"} \union Connected]
      /\ pc'[m] = l /\ l \notin Connected
      /\ \A n \in Machines \ {m} : pc'[n] = pc[n] /\ conn'[n] = conn[n]
  BY DEF PoolInv, Connected, Listing
<1>6. Placed(m)'
  BY <1>1, <1>3, <1>4, <1>5 DEF Placed
<1>7. \A n \in Machines \ {m} : Placed(n)'
  BY <1>4, <1>5 DEF PoolInv, Placed
<1>. QED
  BY <1>4, <1>5, <1>6, <1>7 DEF PoolInv

\* What another thread gives back goes there too.
LEMMA GiveBackKeepsPool ==
  ASSUME PoolInv, NEW s \in Sessions, GiveBack(s)
  PROVE  PoolInv'
<1>. DEFINE m == s[1]
            q == <<s>> \o idle[m]
<1>1. /\ m \in Machines /\ s \in lent[m] /\ ~InStack(s, idle[m])
      /\ Stacked(idle[m], m) /\ \A r \in lent[m] : r[1] = m /\ ~InStack(r, idle[m])
      /\ pc[m] \in Connected => conn[m] # s
  BY SessionOf DEF GiveBack, PoolInv, Placed
<1>2. /\ idle' = [idle EXCEPT ![m] = q] /\ lent' = [lent EXCEPT ![m] = @ \ {s}]
      /\ UNCHANGED <<pc, conn>>
  BY DEF GiveBack, CheckIn
<1>3. Stacked(q, m) /\ \A r : InStack(r, q) => r = s \/ InStack(r, idle[m])
  BY <1>1, PushedStack
<1>. HIDE DEF m, q
<1>4. /\ idle' \in [Machines -> Seq(Sessions)] /\ idle'[m] = q
      /\ lent' \in [Machines -> SUBSET Sessions] /\ lent'[m] = lent[m] \ {s}
      /\ \A n \in Machines \ {m} : idle'[n] = idle[n] /\ lent'[n] = lent[n]
  BY <1>1, <1>2, <1>3 DEF PoolInv, Stacked
<1>5. Placed(m)'
  BY <1>1, <1>2, <1>3, <1>4 DEF PoolInv, Placed
<1>6. \A n \in Machines \ {m} : Placed(n)'
  BY <1>2, <1>4 DEF PoolInv, Placed
<1>. QED
  BY <1>2, <1>4, <1>5, <1>6 DEF PoolInv

\* A process that ends has no connections.
LEMMA StopKeepsPool ==
  ASSUME PoolInv, NEW m \in Machines, Stop(m)
  PROVE  PoolInv'
<1>1. /\ pc' = [pc EXCEPT ![m] = "off"] /\ conn' = [conn EXCEPT ![m] = None]
      /\ idle' = [idle EXCEPT ![m] = << >>] /\ lent' = [lent EXCEPT ![m] = {}]
  BY DEF Stop
<1>2. << >> \in Seq(Sessions)
  BY EmptySeq
<1>3. /\ idle' \in [Machines -> Seq(Sessions)] /\ idle'[m] = << >>
      /\ lent' \in [Machines -> SUBSET Sessions] /\ lent'[m] = {}
      /\ conn' \in [Machines -> Sessions \union {None}] /\ conn'[m] = None
      /\ pc' \in [Machines -> {"off", "disabled", "idle", "drive"} \union Connected]
      /\ pc'[m] = "off"
      /\ \A n \in Machines \ {m} : /\ pc'[n] = pc[n] /\ conn'[n] = conn[n]
                                   /\ idle'[n] = idle[n] /\ lent'[n] = lent[n]
  BY <1>1, <1>2 DEF PoolInv
<1>4. Placed(m)'
  BY <1>3, EmptyStack DEF Placed, Connected, Listing
<1>5. \A n \in Machines \ {m} : Placed(n)'
  BY <1>3 DEF PoolInv, Placed
<1>. QED
  BY <1>3, <1>4, <1>5 DEF PoolInv

\* No process has connections at the start.
LEMMA PoolInit == Init => PoolInv
<1>. SUFFICES ASSUME Init PROVE PoolInv
  OBVIOUS
<1>1. /\ pc = [m \in Machines |-> "off"] /\ conn = [m \in Machines |-> None]
      /\ idle = [m \in Machines |-> << >>] /\ lent = [m \in Machines |-> {}]
      /\ << >> \in Seq(Sessions)
  BY EmptySeq DEF Init
<1>. QED
  BY <1>1, EmptyStack DEF PoolInv, Placed, Connected, Listing

\* Every step keeps connections where they may be.
LEMMA PoolNext == PoolInv /\ [Next]_vars => PoolInv'
<1>. SUFFICES ASSUME PoolInv, [Next]_vars PROVE PoolInv'
  OBVIOUS
<1>1. ASSUME NEW m \in Machines, Boot(m) \/ ListTasks(m) \/ ListFails(m) \/ Drive(m) \/ Finish(m)
      PROVE  PoolInv'
  <2>1. UNCHANGED <<conn, idle, lent>>
    BY <1>1 DEF Boot, ListTasks, ListFails, Drive, Finish, pool
  <2>2. /\ pc' \in [Machines -> {"off", "disabled", "idle", "drive"} \union Connected]
        /\ \A n \in Machines : pc'[n] \in Connected <=> pc[n] \in Connected
    BY <1>1 DEF Boot, ListTasks, ListFails, Drive, Finish, PoolInv, Connected, Listing
  <2>. QED
    BY <2>1, <2>2, PoolUntouched
<1>2. ASSUME NEW m \in Machines, TryLock(m) PROVE PoolInv'
  <2>1. CASE pc' = [pc EXCEPT ![m] = "list"] /\ UNCHANGED <<conn, idle>>
    <3>1. pc[m] = "connected" /\ UNCHANGED <<conn, idle, lent>>
      BY <1>2, <2>1 DEF TryLock
    <3>. QED
      BY <2>1, <3>1, PoolUntouched DEF PoolInv, Connected, Listing
  <2>2. CASE CheckIn(m, conn[m]) /\ conn' = [conn EXCEPT ![m] = None] /\ pc' = [pc EXCEPT ![m] = "idle"]
    <3>1. pc[m] \in Connected /\ UNCHANGED lent
      BY <1>2 DEF TryLock, Connected
    <3>. QED
      BY <2>2, <3>1, ScanReturns
  <2>. QED
    BY <1>2, <2>1, <2>2 DEF TryLock
<1>3. ASSUME NEW m \in Machines, Release(m) \/ ReleaseRefused(m) PROVE PoolInv'
  <2>1. /\ pc[m] \in Connected /\ UNCHANGED lent
        /\ CheckIn(m, conn[m]) /\ conn' = [conn EXCEPT ![m] = None]
        /\ \E l \in {"idle", "drive"} : pc' = [pc EXCEPT ![m] = l]
    BY <1>3 DEF Release, ReleaseRefused, Connected, Listing
  <2>. QED
    BY <2>1, ScanReturns
<1>4. CASE (\E t \in Tasks : JobEnds(t)) \/ (\E s \in Sessions : Age(s)) \/ UNCHANGED vars
  BY <1>4, PoolUntouched DEF JobEnds, Age, vars, pool, PoolInv
<1>. QED
  BY <1>1, <1>2, <1>3, <1>4, CheckOutKeepsPool, GiveBackKeepsPool, StopKeepsPool DEF Next, Scan

-----------------------------------------------------------------------------
(* The lock.                                                                *)

\* The scan of the session's machine lists with this session.
ListsWith(s) == pc[s[1]] \in Listing /\ conn[s[1]] = s

\* A listing machine holds the lock.
ListersHold == \A m \in Machines : pc[m] \in Listing => held[conn[m]] > 0

OneHolder == \A r, s \in Sessions : held[r] > 0 /\ held[s] > 0 => r = s

\* The listing under way accounts for one hold, a leak for the rest.
HoldsAccounted ==
  \A s \in Sessions :
    /\ held[s] > 0 => ListsWith(s) \/ s \in leaked
    /\ held[s] > 1 => s \in leaked

LockInv == held \in [Sessions -> Nat] /\ ListersHold /\ OneHolder /\ HoldsAccounted

\* A listing machine lists with a session of its own.
LEMMA ListsWithOwn ==
  ASSUME PoolInv, NEW m \in Machines, pc[m] \in Listing
  PROVE  conn[m] \in Sessions /\ conn[m][1] = m
BY DEF PoolInv, Placed, Connected

\* Nothing about the lock changes unless one of these variables does.
LEMMA LockUntouched ==
  ASSUME LockInv, UNCHANGED <<held, leaked>>,
         \A m \in Machines : /\ pc'[m] \in Listing <=> pc[m] \in Listing
                             /\ pc[m] \in Listing => conn'[m] = conn[m]
  PROVE  LockInv'
BY SessionOf DEF LockInv, ListersHold, OneHolder, HoldsAccounted, ListsWith

\* What is closed for its age when it is drawn is not the session of a listing.
LEMMA CheckOutKeepsLock ==
  ASSUME PoolInv, LockInv, NEW m \in Machines, Tick(m) \/ Borrow(m)
  PROVE  LockInv'
<1>1. PICK s \in Sessions : CheckOut(m, s)
  BY DEF Tick, Borrow
<1>2. /\ Drawn(m, s) /\ held' = [held EXCEPT ![s] = IF s \in old THEN 0 ELSE @]
      /\ leaked' = leaked \ (old \intersect {s})
  BY <1>1 DEF CheckOut
<1>3. s[1] = m /\ (pc[m] \in Connected => conn[m] # s)
  BY <1>2, DrawnFromPool
<1>4. \A n \in Machines : /\ pc'[n] \in Listing <=> pc[n] \in Listing
                          /\ pc[n] \in Listing => conn'[n] = conn[n]
  <2>1. CASE Tick(m)
    <3>1. /\ pc[m] = "idle" /\ pc' = [pc EXCEPT ![m] = "connected"]
          /\ \E r \in Sessions : conn' = [conn EXCEPT ![m] = r]
      BY <2>1 DEF Tick
    <3>. QED
      BY <3>1 DEF PoolInv, Listing
  <2>2. CASE Borrow(m)
    BY <2>2 DEF Borrow
  <2>. QED
    BY <2>1, <2>2
<1>5. \A n \in Machines : pc[n] \in Listing => conn[n] \in Sessions /\ conn[n] # s
  <2>. SUFFICES ASSUME NEW n \in Machines, pc[n] \in Listing
                PROVE  conn[n] \in Sessions /\ conn[n] # s
    OBVIOUS
  <2>1. conn[n] \in Sessions /\ conn[n][1] = n
    BY ListsWithOwn
  <2>. QED
    BY <1>3, <2>1 DEF Connected
<1>6. /\ held' \in [Sessions -> Nat] /\ held'[s] \in {held[s], 0} /\ (s \in old => held'[s] = 0)
      /\ \A r \in Sessions \ {s} : held'[r] = held[r]
  BY <1>2 DEF LockInv
<1>7. ListersHold'
  BY <1>4, <1>5, <1>6 DEF LockInv, ListersHold
<1>8. OneHolder'
  <2>. SUFFICES ASSUME NEW q \in Sessions, NEW r \in Sessions, held'[q] > 0, held'[r] > 0
                PROVE  q = r
    BY DEF OneHolder
  <2>1. held[q] > 0 /\ held[r] > 0
    BY <1>6
  <2>. QED
    BY <2>1 DEF LockInv, OneHolder
<1>9. ASSUME NEW r \in Sessions
      PROVE  /\ held'[r] > 0 => ListsWith(r)' \/ r \in leaked'
             /\ held'[r] > 1 => r \in leaked'
  <2>1. CASE r = s /\ s \in old
    BY <1>6, <2>1
  <2>2. CASE ~(r = s /\ s \in old)
    <3>1. held'[r] \in {held[r], 0} /\ (r \in leaked => r \in leaked')
      BY <1>2, <1>6, <2>2
    <3>2. ListsWith(r) => ListsWith(r)'
      BY <1>4, SessionOf DEF ListsWith
    <3>3. (held[r] > 0 => ListsWith(r) \/ r \in leaked) /\ (held[r] > 1 => r \in leaked)
      BY DEF LockInv, HoldsAccounted
    <3>4. CASE held'[r] = 0
      BY <3>4
    <3>5. CASE held'[r] = held[r]
      BY <3>1, <3>2, <3>3, <3>5
    <3>. QED
      BY <3>1, <3>4, <3>5
  <2>. QED
    BY <2>1, <2>2
<1>. QED
  BY <1>6, <1>7, <1>8, <1>9 DEF LockInv, HoldsAccounted

\* The lock is granted to a session that no other session keeps it from.
LEMMA TryLockKeepsLock ==
  ASSUME PoolInv, LockInv, NEW m \in Machines, TryLock(m)
  PROVE  LockInv'
<1>0. PICK s \in Sessions : s = conn[m]
  BY DEF TryLock, PoolInv, Placed, Connected
<1>1. /\ pc[m] = "connected" /\ UNCHANGED leaked
      /\ s[1] = m /\ held \in [Sessions -> Nat]
  BY <1>0 DEF TryLock, PoolInv, LockInv, Placed, Connected
<1>2. CASE /\ LockGranted(s) /\ held' = [held EXCEPT ![s] = @ + 1]
           /\ pc' = [pc EXCEPT ![m] = "list"] /\ UNCHANGED conn
  <2>1. held[s] \in Nat /\ \A r \in Sessions \ {s} : held[r] = 0
    BY <1>1, <1>2 DEF LockGranted
  <2>2. /\ held' \in [Sessions -> Nat] /\ held'[s] = held[s] + 1
        /\ \A r \in Sessions \ {s} : held'[r] = 0
    BY <1>1, <1>2, <2>1
  <2>3. pc'[m] = "list" /\ \A n \in Machines \ {m} : pc'[n] = pc[n]
    BY <1>2 DEF PoolInv
  <2>4. ASSUME NEW n \in Machines, n # m PROVE pc'[n] \notin Listing
    <3>1. SUFFICES ASSUME pc[n] \in Listing PROVE FALSE
      BY <2>3, <2>4
    <3>2. conn[n] \in Sessions /\ conn[n][1] = n /\ held[conn[n]] > 0
      BY <3>1, ListsWithOwn DEF LockInv, ListersHold
    <3>. QED
      BY <1>1, <2>1, <2>4, <3>2
  <2>5. ListersHold'
    <3>1. conn'[m] = s
      BY <1>0, <1>2
    <3>. QED
      BY <2>1, <2>2, <2>4, <3>1 DEF ListersHold
  <2>6. OneHolder'
    BY <2>2 DEF OneHolder
  <2>7. HoldsAccounted'
    <3>1. held[s] > 0 => s \in leaked
      BY <1>1 DEF LockInv, HoldsAccounted, ListsWith, Listing
    <3>2. ListsWith(s)'
      BY <1>0, <1>1, <1>2, <2>3 DEF ListsWith, Listing
    <3>. QED
      BY <1>1, <2>1, <2>2, <3>1, <3>2 DEF HoldsAccounted
  <2>. QED
    BY <2>2, <2>5, <2>6, <2>7 DEF LockInv
<1>3. CASE conn' = [conn EXCEPT ![m] = None] /\ pc' = [pc EXCEPT ![m] = "idle"] /\ UNCHANGED held
  <2>1. \A n \in Machines : /\ pc'[n] \in Listing <=> pc[n] \in Listing
                            /\ pc[n] \in Listing => conn'[n] = conn[n]
    BY <1>1, <1>3 DEF PoolInv, Listing
  <2>. QED
    BY <1>1, <1>3, <2>1, LockUntouched
<1>. QED
  BY <1>0, <1>2, <1>3 DEF TryLock

\* Giving the lock back leaves nothing of it that is not a leak.
LEMMA ReleaseKeepsLock ==
  ASSUME PoolInv, LockInv, NEW m \in Machines, Release(m)
  PROVE  LockInv'
<1>. DEFINE s == conn[m]
<1>1. /\ pc[m] \in Listing /\ UNCHANGED leaked
      /\ held' = [held EXCEPT ![s] = @ - 1]
      /\ pc' = [pc EXCEPT ![m] = "drive"]
  BY DEF Release, Listing
<1>2. s \in Sessions /\ s[1] = m /\ held[s] \in Nat /\ held[s] > 0
  BY <1>1, ListsWithOwn DEF LockInv, ListersHold
<1>. HIDE DEF s
<1>3. /\ held' \in [Sessions -> Nat] /\ held'[s] = held[s] - 1
      /\ \A r \in Sessions \ {s} : held'[r] = held[r]
  BY <1>1, <1>2 DEF LockInv
<1>4. \A r \in Sessions \ {s} : held[r] = 0
  BY <1>2 DEF LockInv, OneHolder
<1>5. ASSUME NEW n \in Machines PROVE pc'[n] \notin Listing
  <2>1. CASE n = m
    BY <1>1, <2>1 DEF PoolInv, Listing
  <2>2. CASE n # m
    <3>1. SUFFICES ASSUME pc[n] \in Listing PROVE FALSE
      BY <1>1, <2>2 DEF PoolInv
    <3>2. conn[n] \in Sessions /\ conn[n][1] = n /\ held[conn[n]] > 0
      BY <3>1, ListsWithOwn DEF LockInv, ListersHold
    <3>. QED
      BY <1>2, <1>4, <2>2, <3>2
  <2>. QED
    BY <2>1, <2>2
<1>6. ListersHold'
  BY <1>5 DEF ListersHold
<1>7. OneHolder'
  BY <1>3, <1>4 DEF OneHolder
<1>8. HoldsAccounted'
  <2>1. held[s] > 1 => s \in leaked
    BY <1>2 DEF LockInv, HoldsAccounted
  <2>. QED
    BY <1>1, <1>2, <1>3, <1>4, <2>1 DEF HoldsAccounted
<1>. QED
  BY <1>3, <1>6, <1>7, <1>8 DEF LockInv

\* A session that is refused keeps what it holds, and is a leaked one.
LEMMA RefusalKeepsLock ==
  ASSUME PoolInv, LockInv, NEW m \in Machines, ReleaseRefused(m)
  PROVE  LockInv'
<1>1. /\ pc[m] \in Listing /\ UNCHANGED held
      /\ leaked' = leaked \union {conn[m]}
      /\ conn' = [conn EXCEPT ![m] = None]
      /\ pc' = [pc EXCEPT ![m] = "idle"]
  BY DEF ReleaseRefused, Listing
<1>2. ListersHold'
  BY <1>1 DEF PoolInv, LockInv, ListersHold, Listing
<1>3. OneHolder'
  BY <1>1 DEF LockInv, OneHolder
<1>4. ASSUME NEW s \in Sessions, held[s] > 0, s \notin leaked'
      PROVE  held[s] <= 1 /\ ListsWith(s)'
  <2>1. s \notin leaked /\ s # conn[m] /\ ListsWith(s) /\ ~(held[s] > 1) /\ held[s] \in Nat
    BY <1>1, <1>4 DEF LockInv, HoldsAccounted
  <2>2. s[1] # m /\ s[1] \in Machines
    BY <2>1, SessionOf DEF ListsWith
  <2>. QED
    BY <1>1, <2>1, <2>2 DEF PoolInv, ListsWith
<1>5. HoldsAccounted'
  BY <1>1, <1>4 DEF LockInv, HoldsAccounted
<1>. QED
  BY <1>1, <1>2, <1>3, <1>5 DEF LockInv

\* Sessions that end hold nothing any more.
LEMMA StopKeepsLock ==
  ASSUME PoolInv, LockInv, NEW m \in Machines, Stop(m)
  PROVE  LockInv'
<1>1. /\ pc' = [pc EXCEPT ![m] = "off"]
      /\ conn' = [conn EXCEPT ![m] = None]
      /\ held' = [s \in Sessions |-> IF s[1] = m THEN 0 ELSE held[s]]
      /\ leaked' = {s \in leaked : s[1] # m}
  BY DEF Stop
<1>2. /\ pc'[m] = "off"
      /\ \A n \in Machines \ {m} : pc'[n] = pc[n] /\ conn'[n] = conn[n]
  BY <1>1 DEF PoolInv
<1>3. ListersHold'
  <2>. SUFFICES ASSUME NEW n \in Machines, pc'[n] \in Listing PROVE held'[conn'[n]] > 0
    BY DEF ListersHold
  <2>1. n # m /\ pc[n] \in Listing /\ conn'[n] = conn[n]
    BY <1>2 DEF Listing
  <2>2. conn[n] \in Sessions /\ conn[n][1] = n /\ held[conn[n]] > 0
    BY <2>1, ListsWithOwn DEF LockInv, ListersHold
  <2>. QED
    BY <1>1, <2>1, <2>2
<1>4. held' \in [Sessions -> Nat] /\ OneHolder'
  BY <1>1 DEF LockInv, OneHolder
<1>5. HoldsAccounted'
  BY <1>1, <1>2, SessionOf DEF LockInv, HoldsAccounted, ListsWith
<1>. QED
  BY <1>3, <1>4, <1>5 DEF LockInv

\* Nobody holds the lock at the start.
LEMMA LockInit == Init => LockInv
BY DEF Init, LockInv, ListersHold, OneHolder, HoldsAccounted, Listing

\* Every step keeps the invariant.
LEMMA LockNext == PoolInv /\ LockInv /\ [Next]_vars => LockInv'
<1>. SUFFICES ASSUME PoolInv, LockInv, [Next]_vars PROVE LockInv'
  OBVIOUS
<1>1. ASSUME NEW m \in Machines, Boot(m) \/ ListTasks(m) \/ ListFails(m) \/ Drive(m) \/ Finish(m)
      PROVE  LockInv'
  <2>1. UNCHANGED <<conn, held, leaked>>
    BY <1>1 DEF Boot, ListTasks, ListFails, Drive, Finish
  <2>2. \A n \in Machines : pc'[n] \in Listing <=> pc[n] \in Listing
    BY <1>1 DEF Boot, ListTasks, ListFails, Drive, Finish, PoolInv, Listing
  <2>. QED
    BY <2>1, <2>2, LockUntouched
<1>2. ASSUME NEW m \in Machines,
             Tick(m) \/ TryLock(m) \/ Release(m) \/ ReleaseRefused(m) \/ Borrow(m) \/ Stop(m)
      PROVE  LockInv'
  BY <1>2, CheckOutKeepsLock, TryLockKeepsLock, ReleaseKeepsLock, RefusalKeepsLock, StopKeepsLock
<1>3. CASE \/ \E t \in Tasks : JobEnds(t)
           \/ \E s \in Sessions : GiveBack(s) \/ Age(s)
           \/ UNCHANGED vars
  <2>1. UNCHANGED <<pc, conn, held, leaked>>
    BY <1>3 DEF JobEnds, GiveBack, Age, vars
  <2>. QED
    BY <2>1, LockUntouched
<1>. QED
  BY <1>1, <1>2, <1>3 DEF Next, Scan

(* Two machines never list at the same time, and between ticks the lock is free
   unless a session was refused to give it back: neither re-entrant grants nor
   crashes, failed lists and replaced connections change that
   (scan_and_advance, _release_lock). *)
THEOREM LockHasOneHolder == Spec => [](OneLister /\ LockIsFreeBetweenTicks)
<1>1. PoolInv /\ LockInv => OneLister
  <2>. SUFFICES ASSUME PoolInv, LockInv, NEW m \in Machines, NEW n \in Machines,
                       pc[m] \in Listing, pc[n] \in Listing
                PROVE  m = n
    BY DEF OneLister
  <2>1. /\ conn[m] \in Sessions /\ conn[m][1] = m /\ held[conn[m]] > 0
        /\ conn[n] \in Sessions /\ conn[n][1] = n /\ held[conn[n]] > 0
    BY ListsWithOwn DEF LockInv, ListersHold
  <2>. QED
    BY <2>1 DEF LockInv, OneHolder
<1>2. LockInv => LockIsFreeBetweenTicks
  BY DEF LockInv, HoldsAccounted, ListsWith, LockIsFreeBetweenTicks
<1>. QED
  BY PoolInit, PoolNext, LockInit, LockNext, <1>1, <1>2, PTL DEF Spec

-----------------------------------------------------------------------------
(* The values of the variables.                                             *)

\* The queue is a sequence of the tasks that are not settled, each once.
Queued(q, rest) ==
  /\ q \in Seq(Tasks)
  /\ \A i, k \in 1..Len(q) : q[i] = q[k] => i = k
  /\ \A t \in Tasks : rest[t] > 0 <=> \E i \in 1..Len(q) : q[i] = t

\* Every hold that the listing under way does not account for is a failed list.
HoldsCounted ==
  /\ held \in [Sessions -> Nat] /\ faults \in 0..MaxFaults
  /\ \A s \in Sessions : held[s] <= faults + (IF pc[s[1]] \in {"list", "release"} /\ conn[s[1]] = s
                                              THEN 1 ELSE 0)

ValuesOK ==
  /\ batch \in [Machines -> Seq(Tasks)]
  /\ \A m \in Machines : Len(batch[m]) <= BatchSize
  /\ left \in [Tasks -> 0..Length] /\ Queued(order, left)
  /\ ready \subseteq Tasks /\ leaked \subseteq Sessions /\ old \subseteq leaked
  /\ HoldsCounted

\* Listing all tasks once each lists every one of them.
LEMMA InitQueued ==
  ASSUME NEW q \in SetToSeqs(Tasks), NEW rest, \A t \in Tasks : rest[t] > 0
  PROVE  Queued(q, rest)
<1>. DEFINE n == Cardinality(Tasks)
<1>1. n \in Nat /\ IsFiniteSet(Tasks)
  BY FS_CardinalityType, PollerTasksAssumption
<1>2. q \in [1..n -> Tasks] /\ \A i, k \in 1..n : i # k => q[i] # q[k]
  BY DEF SetToSeqs
<1>3. q \in Seq(Tasks) /\ Len(q) = n
  BY <1>1, <1>2, SeqDef
<1>4. q \in Injection(1..n, Tasks)
  BY <1>2 DEF Injection, IsInjective
<1>5. IsFiniteSet(1..n) /\ Cardinality(1..n) = n
  BY <1>1, FS_Interval
<1>6. q \in Surjection(1..n, Tasks)
  BY <1>1, <1>4, <1>5, FS_Injection
<1>7. \A t \in Tasks : \E i \in 1..n : q[i] = t
  BY <1>6 DEF Surjection
<1>. QED
  BY <1>2, <1>3, <1>7 DEF Queued

\* A position is taken out of a sequence.
LEMMA RemovedAt ==
  ASSUME NEW q \in Seq(Tasks), NEW i \in 1..Len(q)
  PROVE  /\ RemoveAt(q, i) \in Seq(Tasks) /\ Len(RemoveAt(q, i)) = Len(q) - 1
         /\ \A k \in 1..(i - 1) : RemoveAt(q, i)[k] = q[k]
         /\ \A k \in i..(Len(q) - 1) : RemoveAt(q, i)[k] = q[k + 1]
<1>. DEFINE a == SubSeq(q, 1, i - 1)
            b == SubSeq(q, i + 1, Len(q))
<1>1. Len(q) \in Nat /\ \A k \in 1..Len(q) : q[k] \in Tasks
  BY ElementOfSeq, LenProperties
<1>2. /\ a \in Seq(Tasks) /\ Len(a) = i - 1
      /\ \A k \in 1..(i - 1) : a[k] = q[k]
  <2>1. \A k \in 1..(i - 1) : q[k] \in Tasks
    BY <1>1
  <2>2. /\ a \in Seq(Tasks) /\ Len(a) = IF 1 <= i - 1 THEN i - 1 - 1 + 1 ELSE 0
        /\ \A k \in 1..(i - 1 - 1 + 1) : a[k] = q[1 + k - 1]
    BY <2>1, SubSeqProperties
  <2>. QED
    BY <2>2
<1>3. /\ b \in Seq(Tasks) /\ Len(b) = Len(q) - i
      /\ \A k \in 1..(Len(q) - i) : b[k] = q[k + i]
  <2>1. \A k \in (i + 1)..Len(q) : q[k] \in Tasks
    BY <1>1
  <2>2. /\ b \in Seq(Tasks) /\ Len(b) = IF i + 1 <= Len(q) THEN Len(q) - (i + 1) + 1 ELSE 0
        /\ \A k \in 1..(Len(q) - (i + 1) + 1) : b[k] = q[(i + 1) + k - 1]
    BY <1>1, <2>1, SubSeqProperties
  <2>. QED
    BY <1>1, <2>2
<1>4. RemoveAt(q, i) = a \o b
  BY DEF RemoveAt
<1>. HIDE DEF a, b
<1>5. /\ a \o b \in Seq(Tasks) /\ Len(a \o b) = Len(a) + Len(b)
      /\ \A k \in 1..(Len(a) + Len(b)) : (a \o b)[k] = IF k <= Len(a) THEN a[k] ELSE b[k - Len(a)]
  BY <1>2, <1>3, ConcatProperties
<1>6. Len(a \o b) = Len(q) - 1
  BY <1>1, <1>2, <1>3, <1>5
<1>7. ASSUME NEW k \in 1..(i - 1) PROVE (a \o b)[k] = q[k]
  <2>1. k \in 1..(Len(a) + Len(b)) /\ k <= Len(a)
    BY <1>1, <1>2, <1>3
  <2>. QED
    BY <1>2, <1>5, <2>1
<1>8. ASSUME NEW k \in i..(Len(q) - 1) PROVE (a \o b)[k] = q[k + 1]
  <2>1. k \in 1..(Len(a) + Len(b)) /\ ~(k <= Len(a))
    BY <1>1, <1>2, <1>3
  <2>2. k - (i - 1) \in 1..(Len(q) - i) /\ (k - (i - 1)) + i = k + 1
    BY <1>1
  <2>. QED
    BY <1>2, <1>3, <1>5, <2>1, <2>2
<1>. QED
  BY <1>4, <1>5, <1>6, <1>7, <1>8

\* A settled task leaves the queue, one that was written goes to its end.
LEMMA WriteQueued ==
  ASSUME left \in [Tasks -> 0..Length], Queued(order, left), NEW t \in Tasks, Write(t)
  PROVE  left' \in [Tasks -> 0..Length] /\ Queued(order', left')
<1>1. PICK i \in DOMAIN order :
         order[i] = t /\ order' = IF left[t] = 1 THEN RemoveAt(order, i) ELSE Append(RemoveAt(order, i), t)
  BY DEF Write
<1>2. order \in Seq(Tasks) /\ Len(order) \in Nat /\ i \in 1..Len(order)
  BY <1>1, LenProperties DEF Queued
<1>. DEFINE r == RemoveAt(order, i)
<1>3. /\ r \in Seq(Tasks) /\ Len(r) = Len(order) - 1
      /\ \A k \in 1..(i - 1) : r[k] = order[k]
      /\ \A k \in i..(Len(order) - 1) : r[k] = order[k + 1]
  BY <1>2, RemovedAt
<1>4. order' = IF left[t] = 1 THEN r ELSE Append(r, t)
  BY <1>1
<1>. HIDE DEF r
<1>5. /\ Length \in Nat /\ left[t] \in 1..Length
      /\ left' \in [Tasks -> 0..Length] /\ left'[t] = left[t] - 1
      /\ \A x \in Tasks \ {t} : left'[x] = left[x]
  BY BatchAssumption DEF Write
<1>. DEFINE n == Len(order)
            from(k) == IF k < i THEN k ELSE k + 1
<1>13. n \in Nat /\ i \in 1..n /\ Len(r) = n - 1
  BY <1>2, <1>3
<1>6. ASSUME NEW k \in 1..Len(r)
      PROVE  from(k) \in 1..n /\ from(k) # i /\ r[k] = order[from(k)]
  <2>1. n \in Nat /\ i \in 1..n /\ k \in 1..(n - 1)
    BY <1>6, <1>13
  <2>. HIDE DEF n
  <2>2. CASE k < i
    <3>1. k \in 1..(i - 1) /\ from(k) = k
      BY <2>1, <2>2
    <3>2. r[k] = order[k]
      BY <1>3, <3>1
    <3>. QED
      BY <2>1, <2>2, <3>1, <3>2
  <2>3. CASE k >= i
    <3>1. k \in i..(n - 1) /\ from(k) = k + 1
      BY <2>1, <2>3
    <3>2. r[k] = order[k + 1]
      BY <1>3, <3>1 DEF n
    <3>. QED
      BY <2>1, <2>3, <3>1, <3>2
  <2>. QED
    BY <2>1, <2>2, <2>3
<1>7. /\ \A j, k \in 1..Len(r) : from(j) = from(k) => j = k
      /\ \A j, k \in 1..n : order[j] = order[k] => j = k
  <2>1. \A j, k \in 1..n : order[j] = order[k] => j = k
    BY DEF Queued
  <2>2. ASSUME NEW j \in 1..Len(r), NEW k \in 1..Len(r), from(j) = from(k) PROVE j = k
    BY <1>13, <2>2
  <2>. QED
    BY <2>1, <2>2
<1>. HIDE DEF from
<1>11. \A j, k \in 1..Len(r) : r[j] = r[k] => j = k
  BY <1>6, <1>7
<1>12. \A j \in 1..Len(r) : r[j] # t
  BY <1>1, <1>2, <1>6, <1>7
<1>8. \A x \in Tasks \ {t} : left[x] > 0 <=> \E j \in 1..Len(r) : r[j] = x
  <2>. TAKE x \in Tasks \ {t}
  <2>1. ASSUME left[x] > 0 PROVE \E j \in 1..Len(r) : r[j] = x
    <3>1. PICK k \in 1..Len(order) : order[k] = x
      BY <2>1 DEF Queued
    <3>2. k # i
      BY <1>1, <3>1
    <3>3. CASE k < i
      <4>1. k \in 1..(i - 1) /\ k \in 1..Len(r)
        BY <1>13, <3>3
      <4>2. r[k] = order[k]
        BY <1>3, <4>1
      <4>. QED
        BY <3>1, <4>1, <4>2
    <3>4. CASE k > i
      <4>1. k - 1 \in 1..Len(r) /\ r[k - 1] = order[k]
        <5>1. k - 1 \in i..(n - 1) /\ (k - 1) + 1 = k
          BY <1>13, <3>4
        <5>2. r[k - 1] = order[(k - 1) + 1]
          BY <1>3, <5>1
        <5>. QED
          BY <1>13, <5>1, <5>2
      <4>. QED
        BY <3>1, <4>1
    <3>. QED
      BY <1>2, <3>2, <3>3, <3>4
  <2>2. ASSUME NEW j \in 1..Len(r), r[j] = x PROVE left[x] > 0
    <3>1. PICK k \in 1..Len(order) : r[j] = order[k]
      BY <1>6
    <3>. QED
      BY <2>2, <3>1 DEF Queued
  <2>. QED
    BY <2>1, <2>2
<1>9. CASE left[t] = 1
  <2>1. order' = r /\ left'[t] = 0
    BY <1>4, <1>5, <1>9
  <2>. QED
    <3>1. r \in Seq(Tasks)
      BY <1>3
    <3>2. \A x \in Tasks : left'[x] > 0 <=> \E j \in 1..Len(r) : r[j] = x
      BY <1>5, <1>8, <1>12, <2>1
    <3>3. Queued(r, left')
      BY <1>11, <3>1, <3>2 DEF Queued
    <3>. QED
      BY <1>5, <2>1, <3>3
<1>10. CASE left[t] # 1
  <2>1. /\ order' \in Seq(Tasks) /\ Len(order') = Len(r) + 1
        /\ \A j \in 1..Len(r) : order'[j] = r[j]
        /\ order'[Len(r) + 1] = t
    BY <1>3, <1>4, <1>10, AppendProperties
  <2>2. left'[t] > 0 /\ Len(r) \in Nat
    BY <1>2, <1>3, <1>5, <1>10
  <2>3. \A j, k \in 1..Len(order') : order'[j] = order'[k] => j = k
    BY <1>11, <1>12, <2>1, <2>2
  <2>4. \A x \in Tasks : left'[x] > 0 <=> \E j \in 1..Len(order') : order'[j] = x
    <3>1. \A x \in Tasks \ {t} : (\E j \in 1..Len(r) : r[j] = x)
                                   <=> \E j \in 1..Len(order') : order'[j] = x
      BY <2>1, <2>2
    <3>2. \E j \in 1..Len(order') : order'[j] = t
      BY <2>1, <2>2
    <3>. QED
      BY <1>5, <1>8, <2>2, <3>1, <3>2
  <2>. QED
    BY <1>5, <2>1, <2>3, <2>4 DEF Queued
<1>. QED
  BY <1>9, <1>10

\* The listing under way is the same, and no session holds more.
LEMMA HoldsNoMore ==
  ASSUME ValuesOK, UNCHANGED faults, held' \in [Sessions -> Nat],
         \A s \in Sessions : held'[s] <= held[s],
         \A s \in Sessions :
           pc'[s[1]] \in {"list", "release"} /\ conn'[s[1]] = s
             <=> pc[s[1]] \in {"list", "release"} /\ conn[s[1]] = s
  PROVE  HoldsCounted'
<1>1. faults \in Nat /\ faults' = faults /\ faults \in 0..MaxFaults
  BY BatchAssumption DEF ValuesOK, HoldsCounted
<1>2. ASSUME NEW s \in Sessions
      PROVE  held'[s] <= faults + (IF pc'[s[1]] \in {"list", "release"} /\ conn'[s[1]] = s
                                   THEN 1 ELSE 0)
  <2>1. held'[s] \in Nat /\ held[s] \in Nat /\ held'[s] <= held[s]
    BY DEF ValuesOK, HoldsCounted
  <2>2. held[s] <= faults + (IF pc'[s[1]] \in {"list", "release"} /\ conn'[s[1]] = s THEN 1 ELSE 0)
    BY DEF ValuesOK, HoldsCounted
  <2>. QED
    BY <1>1, <2>1, <2>2
<1>. QED
  BY <1>1, <1>2 DEF HoldsCounted

\* The scan of a machine that neither lists nor gives back holds nothing new.
LEMMA HoldsUntouched ==
  ASSUME ValuesOK, UNCHANGED <<held, faults>>,
         \A s \in Sessions :
           pc'[s[1]] \in {"list", "release"} /\ conn'[s[1]] = s
             <=> pc[s[1]] \in {"list", "release"} /\ conn[s[1]] = s
  PROVE  HoldsCounted'
BY DEF ValuesOK, HoldsCounted

\* Booting, finishing, other threads giving back, and what happens outside.
LEMMA IdleStepsTyped ==
  ASSUME ValuesOK, PoolInv,
         \/ \E m \in Machines : Boot(m) \/ Finish(m)
         \/ \E s \in Sessions : GiveBack(s) \/ Age(s)
         \/ \E t \in Tasks : JobEnds(t)
         \/ UNCHANGED vars
  PROVE  ValuesOK'
<1>1. ASSUME NEW m \in Machines, Boot(m) \/ Finish(m) PROVE ValuesOK'
  <2>1. /\ pc[m] \in {"off", "drive"} /\ UNCHANGED <<conn, held, batch, order, left, ready, leaked, old, faults>>
        /\ \E l \in {"idle", "disabled"} : pc' = [pc EXCEPT ![m] = l]
    BY <1>1 DEF Boot, Finish, queue
  <2>2. HoldsCounted'
    BY <2>1, HoldsUntouched, SessionOf DEF PoolInv
  <2>. QED
    BY <2>1, <2>2 DEF ValuesOK, Queued
<1>2. ASSUME \/ \E s \in Sessions : GiveBack(s) \/ Age(s)
             \/ \E t \in Tasks : JobEnds(t)
             \/ UNCHANGED vars
      PROVE  ValuesOK'
  <2>1. UNCHANGED <<pc, conn, held, batch, order, left, leaked, faults>>
    BY <1>2 DEF GiveBack, Age, JobEnds, vars, queue
  <2>2. ready' \subseteq Tasks /\ old' \subseteq leaked
    BY <1>2 DEF GiveBack, Age, JobEnds, vars, queue, ValuesOK
  <2>3. HoldsCounted'
    BY <2>1, HoldsUntouched
  <2>. QED
    BY <2>1, <2>2, <2>3 DEF ValuesOK, Queued
<1>. QED
  BY <1>1, <1>2

\* A connection that is drawn holds what it held, or nothing.
LEMMA CheckOutTyped ==
  ASSUME ValuesOK, PoolInv, NEW m \in Machines, Tick(m) \/ Borrow(m)
  PROVE  ValuesOK'
<1>1. PICK s \in Sessions : CheckOut(m, s)
  BY DEF Tick, Borrow
<1>2. /\ held' = [held EXCEPT ![s] = IF s \in old THEN 0 ELSE @]
      /\ leaked' = leaked \ (old \intersect {s}) /\ old' = old \ {s}
      /\ UNCHANGED <<batch, order, left, ready, faults>>
  BY <1>1 DEF CheckOut, Tick, Borrow, queue
<1>3. held' \in [Sessions -> Nat] /\ \A r \in Sessions : held'[r] <= held[r]
  <2>1. ASSUME NEW r \in Sessions PROVE held[r] \in Nat /\ held'[r] \in {0, held[r]}
    BY <1>2 DEF ValuesOK, HoldsCounted
  <2>2. \A r \in Sessions : held'[r] \in Nat /\ held'[r] <= held[r]
    BY <2>1
  <2>. QED
    BY <1>2, <2>1, <2>2 DEF ValuesOK, HoldsCounted
<1>4. \A r \in Sessions :
        pc'[r[1]] \in {"list", "release"} /\ conn'[r[1]] = r
          <=> pc[r[1]] \in {"list", "release"} /\ conn[r[1]] = r
  <2>1. CASE Tick(m)
    <3>1. /\ pc[m] = "idle" /\ pc' = [pc EXCEPT ![m] = "connected"]
          /\ \E r \in Sessions : conn' = [conn EXCEPT ![m] = r]
      BY <2>1 DEF Tick
    <3>. QED
      BY <3>1, SessionOf DEF PoolInv
  <2>2. CASE Borrow(m)
    BY <2>2 DEF Borrow
  <2>. QED
    BY <2>1, <2>2
<1>5. HoldsCounted'
  BY <1>2, <1>3, <1>4, HoldsNoMore
<1>. QED
  BY <1>2, <1>5 DEF ValuesOK, Queued

\* A session that leads the tick holds the lock once more than faults explain.
LEMMA TryLockTyped ==
  ASSUME ValuesOK, PoolInv, NEW m \in Machines, TryLock(m)
  PROVE  ValuesOK'
<1>0. PICK s \in Sessions : s = conn[m] /\ s[1] = m
  BY DEF TryLock, PoolInv, Placed, Connected
<1>1. pc[m] = "connected" /\ UNCHANGED <<batch, order, left, ready, leaked, old, faults>>
  BY DEF TryLock, queue
<1>2. CASE /\ held' = [held EXCEPT ![s] = @ + 1] /\ pc' = [pc EXCEPT ![m] = "list"]
           /\ UNCHANGED conn
  <2>1. pc'[m] = "list" /\ \A n \in Machines \ {m} : pc'[n] = pc[n]
    BY <1>2 DEF PoolInv
  <2>2. /\ held' \in [Sessions -> Nat] /\ held'[s] = held[s] + 1
        /\ \A r \in Sessions \ {s} : held'[r] = held[r]
    BY <1>2 DEF ValuesOK, HoldsCounted
  <2>3. faults' \in 0..MaxFaults /\ faults \in Nat /\ faults' = faults
    BY <1>1, BatchAssumption DEF ValuesOK, HoldsCounted
  <2>4. ASSUME NEW r \in Sessions
        PROVE  held'[r] <= faults + (IF pc'[r[1]] \in {"list", "release"} /\ conn'[r[1]] = r
                                     THEN 1 ELSE 0)
    <3>1. held[r] \in Nat
      BY DEF ValuesOK, HoldsCounted
    <3>2. CASE r = s
      <4>1. ~(pc[r[1]] \in {"list", "release"} /\ conn[r[1]] = r)
        BY <1>0, <1>1, <3>2
      <4>2. held[r] <= faults
        BY <2>3, <3>1, <4>1 DEF ValuesOK, HoldsCounted
      <4>3. held'[r] = held[r] + 1 /\ pc'[r[1]] \in {"list", "release"} /\ conn'[r[1]] = r
        BY <1>0, <1>2, <2>1, <2>2, <3>2
      <4>. QED
        BY <2>3, <3>1, <4>2, <4>3
    <3>3. CASE r # s
      <4>1. held'[r] = held[r]
        BY <2>2, <3>3
      <4>2. pc'[r[1]] \in {"list", "release"} /\ conn'[r[1]] = r
              <=> pc[r[1]] \in {"list", "release"} /\ conn[r[1]] = r
        BY <1>0, <1>2, <2>1, <3>3, SessionOf
      <4>. QED
        BY <4>1, <4>2 DEF ValuesOK, HoldsCounted
    <3>. QED
      BY <3>2, <3>3
  <2>5. HoldsCounted'
    BY <2>2, <2>3, <2>4 DEF HoldsCounted
  <2>. QED
    BY <1>1, <2>5 DEF ValuesOK, Queued
<1>3. CASE conn' = [conn EXCEPT ![m] = None] /\ pc' = [pc EXCEPT ![m] = "idle"] /\ UNCHANGED held
  <2>1. HoldsCounted'
    BY <1>1, <1>3, HoldsUntouched, SessionOf DEF PoolInv
  <2>. QED
    BY <1>1, <1>3, <2>1 DEF ValuesOK, Queued
<1>. QED
  BY <1>0, <1>2, <1>3 DEF TryLock

\* The oldest tasks are listed, or the list fails, which is a fault.
LEMMA ListTyped ==
  ASSUME ValuesOK, PoolInv, NEW m \in Machines, ListTasks(m) \/ ListFails(m)
  PROVE  ValuesOK'
<1>1. CASE ListTasks(m)
  <2>1. /\ pc[m] = "list" /\ pc' = [pc EXCEPT ![m] = "release"]
        /\ UNCHANGED <<conn, held, order, left, ready, leaked, old, faults>>
    BY <1>1 DEF ListTasks, queue
  <2>2. HoldsCounted'
    BY <2>1, HoldsUntouched, SessionOf DEF PoolInv
  <2>. DEFINE k == IF Len(order) > BatchSize THEN BatchSize ELSE Len(order)
  <2>3. /\ k \in Nat /\ k <= BatchSize /\ k <= Len(order)
        /\ batch' = [batch EXCEPT ![m] = SubSeq(order, 1, k)]
    <3>1. Len(order) \in Nat /\ BatchSize \in Nat
      BY BatchAssumption, LenProperties DEF ValuesOK, Queued
    <3>2. batch' = [batch EXCEPT ![m] = SubSeq(order, 1, k)]
      BY <1>1 DEF ListTasks
    <3>. QED
      BY <3>1, <3>2
  <2>. HIDE DEF k
  <2>4. SubSeq(order, 1, k) \in Seq(Tasks) /\ Len(SubSeq(order, 1, k)) <= BatchSize
    <3>1. \A i \in 1..k : order[i] \in Tasks
      BY <2>3, ElementOfSeq, LenProperties DEF ValuesOK, Queued
    <3>2. /\ SubSeq(order, 1, k) \in Seq(Tasks)
          /\ Len(SubSeq(order, 1, k)) = IF 1 <= k THEN k - 1 + 1 ELSE 0
      BY <2>3, <3>1, SubSeqProperties
    <3>. QED
      BY <2>3, <3>2, BatchAssumption
  <2>. DEFINE new == SubSeq(order, 1, k)
  <2>5. new \in Seq(Tasks) /\ Len(new) <= BatchSize /\ batch' = [batch EXCEPT ![m] = new]
    BY <2>3, <2>4
  <2>. HIDE DEF new
  <2>6. batch' \in [Machines -> Seq(Tasks)] /\ \A n \in Machines : Len(batch'[n]) <= BatchSize
    BY <2>5 DEF ValuesOK
  <2>. QED
    BY <2>1, <2>2, <2>6 DEF ValuesOK, Queued
<1>2. CASE ListFails(m)
  <2>1. /\ pc[m] = "list" /\ pc' = [pc EXCEPT ![m] = "failed"]
        /\ faults < MaxFaults /\ faults' = faults + 1
        /\ UNCHANGED <<conn, held, batch, order, left, ready, leaked, old>>
    BY <1>2 DEF ListFails, Fault, queue
  <2>2. HoldsCounted'
    <3>1. faults \in Nat /\ MaxFaults \in Nat /\ held \in [Sessions -> Nat]
      BY BatchAssumption DEF ValuesOK, HoldsCounted
    <3>2. ASSUME NEW s \in Sessions
          PROVE  held[s] <= faults + 1 + (IF pc'[s[1]] \in {"list", "release"} /\ conn[s[1]] = s
                                          THEN 1 ELSE 0)
      <4>1. held[s] \in Nat /\ held[s] <= faults + 1
        BY <3>1 DEF ValuesOK, HoldsCounted
      <4>. QED
        BY <3>1, <4>1
    <3>. QED
      BY <2>1, <3>1, <3>2 DEF HoldsCounted
  <2>. QED
    BY <2>1, <2>2 DEF ValuesOK, Queued
<1>. QED
  BY <1>1, <1>2

\* Giving back undoes one hold; being refused leaves a failed list's.
LEMMA ReleaseTyped ==
  ASSUME ValuesOK, PoolInv, LockInv, NEW m \in Machines, Release(m) \/ ReleaseRefused(m)
  PROVE  ValuesOK'
<1>1. CASE Release(m)
  <2>. DEFINE s == conn[m]
  <2>1. /\ pc[m] = "release" /\ pc' = [pc EXCEPT ![m] = "drive"]
        /\ held' = [held EXCEPT ![s] = @ - 1] /\ conn' = [conn EXCEPT ![m] = None]
        /\ UNCHANGED <<batch, order, left, ready, leaked, old, faults>>
    BY <1>1 DEF Release, queue
  <2>2. s \in Sessions /\ s[1] = m /\ held[s] \in Nat /\ held[s] > 0
    BY <2>1, ListsWithOwn DEF LockInv, ListersHold, Listing
  <2>. HIDE DEF s
  <2>3. /\ held' \in [Sessions -> Nat] /\ held'[s] = held[s] - 1
        /\ \A r \in Sessions \ {s} : held'[r] = held[r]
    BY <2>1, <2>2 DEF ValuesOK, HoldsCounted
  <2>4. HoldsCounted'
    <3>1. faults' \in 0..MaxFaults /\ faults \in Nat /\ faults' = faults
      BY <2>1, BatchAssumption DEF ValuesOK, HoldsCounted
    <3>2. ASSUME NEW r \in Sessions
          PROVE  held'[r] <= faults + (IF pc'[r[1]] \in {"list", "release"} /\ conn'[r[1]] = r
                                       THEN 1 ELSE 0)
      <4>1. held[r] \in Nat /\ held'[r] \in Nat
        BY <2>3 DEF ValuesOK, HoldsCounted
      <4>2. CASE r = s
        <5>1. held[s] <= faults + 1
          BY <2>2, <3>1 DEF ValuesOK, HoldsCounted
        <5>. QED
          BY <2>2, <2>3, <3>1, <4>1, <4>2, <5>1
      <4>3. CASE r # s
        <5>1. held'[r] = held[r]
          BY <2>3, <4>3
        <5>2. CASE r[1] = m
          <6>1. held[r] <= faults
            BY <2>2, <4>3, <5>2 DEF ValuesOK, HoldsCounted, s
          <6>. QED
            BY <3>1, <4>1, <5>1, <6>1
        <5>3. CASE r[1] # m
          <6>1. pc'[r[1]] = pc[r[1]] /\ conn'[r[1]] = conn[r[1]]
            BY <2>1, <5>3, SessionOf DEF PoolInv
          <6>. QED
            BY <5>1, <6>1 DEF ValuesOK, HoldsCounted
        <5>. QED
          BY <5>2, <5>3
      <4>. QED
        BY <4>2, <4>3
    <3>. QED
      BY <2>3, <3>1, <3>2 DEF HoldsCounted
  <2>. QED
    BY <2>1, <2>4 DEF ValuesOK, Queued
<1>2. CASE ReleaseRefused(m)
  <2>1. /\ pc[m] = "failed" /\ pc' = [pc EXCEPT ![m] = "idle"]
        /\ leaked' = leaked \union {conn[m]} /\ conn' = [conn EXCEPT ![m] = None]
        /\ UNCHANGED <<held, batch, order, left, ready, old, faults>>
    BY <1>2 DEF ReleaseRefused, queue
  <2>2. conn[m] \in Sessions
    BY <2>1, ListsWithOwn DEF Listing
  <2>3. HoldsCounted'
    <3>1. ASSUME NEW s \in Sessions
          PROVE  pc'[s[1]] \in {"list", "release"} /\ conn'[s[1]] = s
                   <=> pc[s[1]] \in {"list", "release"} /\ conn[s[1]] = s
      BY <2>1, SessionOf DEF PoolInv
    <3>. QED
      BY <2>1, <3>1, HoldsUntouched
  <2>. QED
    BY <2>1, <2>2, <2>3 DEF ValuesOK, Queued
<1>. QED
  BY <1>1, <1>2

\* Advancing a task shortens the batch and may write the task's row.
LEMMA DriveTyped ==
  ASSUME ValuesOK, NEW m \in Machines, Drive(m)
  PROVE  ValuesOK'
<1>. DEFINE t == Head(batch[m])
<1>1. /\ batch[m] # << >> /\ batch' = [batch EXCEPT ![m] = Tail(@)]
      /\ UNCHANGED <<order, left, ready>> \/ Write(t)
      /\ UNCHANGED <<pc, conn, held, leaked, old, faults>>
  BY DEF Drive, queue
<1>2. batch[m] \in Seq(Tasks) /\ Len(batch[m]) <= BatchSize /\ Len(batch[m]) \in Nat /\ BatchSize \in Nat
  BY BatchAssumption, LenProperties DEF ValuesOK
<1>3. t \in Tasks /\ Tail(batch[m]) \in Seq(Tasks) /\ Len(Tail(batch[m])) = Len(batch[m]) - 1
  BY <1>1, <1>2, HeadTailProperties
<1>4. batch' \in [Machines -> Seq(Tasks)] /\ \A n \in Machines : Len(batch'[n]) <= BatchSize
  BY <1>1, <1>2, <1>3 DEF ValuesOK
<1>. HIDE DEF t
<1>5. left' \in [Tasks -> 0..Length] /\ Queued(order', left') /\ ready' \subseteq Tasks
  <2>1. CASE UNCHANGED <<order, left, ready>>
    BY <2>1 DEF ValuesOK
  <2>2. CASE Write(t)
    <3>1. left' \in [Tasks -> 0..Length] /\ Queued(order', left')
      BY <1>3, <2>2, WriteQueued DEF ValuesOK
    <3>2. ready' \subseteq Tasks
      BY <2>2 DEF Write, ValuesOK
    <3>. QED
      BY <3>1, <3>2
  <2>. QED
    BY <1>1, <2>1, <2>2
<1>6. HoldsCounted'
  BY <1>1, HoldsUntouched
<1>. QED
  BY <1>1, <1>4, <1>5, <1>6 DEF ValuesOK

\* Sessions that end hold less; a stopped machine lists nothing.
LEMMA StopTyped ==
  ASSUME ValuesOK, NEW m \in Machines, Stop(m)
  PROVE  ValuesOK'
<1>0. faults \in Nat /\ MaxFaults \in Nat /\ faults \in 0..MaxFaults /\ held \in [Sessions -> Nat]
  BY BatchAssumption DEF ValuesOK, HoldsCounted
<1>1. /\ pc' = [pc EXCEPT ![m] = "off"] /\ conn' = [conn EXCEPT ![m] = None]
      /\ held' = [s \in Sessions |-> IF s[1] = m THEN 0 ELSE held[s]]
      /\ batch' = [batch EXCEPT ![m] = << >>]
      /\ old' = {s \in old : s[1] # m}
      /\ leaked' = {s \in leaked : s[1] # m}
      /\ faults < MaxFaults /\ faults' = faults + 1
      /\ UNCHANGED <<order, left, ready>>
  BY DEF Stop, Fault, queue
<1>2. HoldsCounted'
  <2>1. ASSUME NEW s \in Sessions
        PROVE  held'[s] <= faults + 1 + (IF pc'[s[1]] \in {"list", "release"} /\ conn'[s[1]] = s
                                         THEN 1 ELSE 0)
    <3>1. held[s] \in Nat /\ held[s] <= faults + 1
      BY <1>0 DEF ValuesOK, HoldsCounted
    <3>2. held'[s] <= faults + 1
      BY <1>0, <1>1, <3>1
    <3>3. held'[s] \in Nat
      BY <1>1, <3>1
    <3>. QED
      BY <1>0, <3>2, <3>3
  <2>. QED
    BY <1>0, <1>1, <2>1 DEF HoldsCounted
<1>3. batch' \in [Machines -> Seq(Tasks)] /\ \A n \in Machines : Len(batch'[n]) <= BatchSize
  <2>1. << >> \in Seq(Tasks) /\ Len(<< >>) = 0 /\ 0 <= BatchSize
    BY EmptySeq, BatchAssumption
  <2>. QED
    BY <1>1, <2>1 DEF ValuesOK
<1>. QED
  BY <1>1, <1>2, <1>3 DEF ValuesOK, Queued
\* The variables start within their types.
LEMMA ValuesInit == Init => ValuesOK
<1>. SUFFICES ASSUME Init PROVE ValuesOK
  OBVIOUS
<1>1. Queued(order, left)
  <2>1. order \in SetToSeqs(Tasks) /\ \A t \in Tasks : left[t] > 0
    BY BatchAssumption DEF Init
  <2>. QED
    BY <2>1, InitQueued
<1>2. HoldsCounted
  BY BatchAssumption DEF Init, HoldsCounted
<1>3. batch \in [Machines -> Seq(Tasks)] /\ \A m \in Machines : Len(batch[m]) <= BatchSize
  <2>1. << >> \in Seq(Tasks) /\ Len(<< >>) = 0 /\ 0 <= BatchSize
    BY EmptySeq, BatchAssumption
  <2>. QED
    BY <2>1 DEF Init
<1>4. left \in [Tasks -> 0..Length]
  BY BatchAssumption DEF Init
<1>5. ready = {} /\ leaked = {} /\ old = {}
  BY DEF Init
<1>. QED
  BY <1>1, <1>2, <1>3, <1>4, <1>5 DEF ValuesOK

\* Every step keeps them there.
LEMMA ValuesNext == ValuesOK /\ PoolInv /\ LockInv /\ [Next]_vars => ValuesOK'
BY IdleStepsTyped, CheckOutTyped, TryLockTyped, ListTyped, ReleaseTyped, DriveTyped, StopTyped
   DEF Next, Scan

(* The lock has one holder, is free between ticks but for sessions refused to give
   it back, and no session holds it more often than failed lists explain; the queue
   is the tasks that are not settled, each once, whatever order machines write
   their rows in (scan_and_advance, list_running_auto_tasks). *)
THEOREM LockIsDisciplined == Spec => []LockDiscipline
<1>1. ValuesOK /\ PoolInv => TypeOK
  <2>. SUFFICES ASSUME ValuesOK, PoolInv PROVE TypeOK
    OBVIOUS
  <2>1. held \in [Sessions -> 0..(MaxFaults + 1)]
    <3>1. ASSUME NEW s \in Sessions PROVE held[s] \in 0..(MaxFaults + 1)
      <4>1. /\ held[s] \in Nat /\ faults \in Nat /\ MaxFaults \in Nat /\ faults <= MaxFaults
            /\ held[s] <= faults + 1
        BY BatchAssumption DEF ValuesOK, HoldsCounted
      <4>. QED
        BY <4>1
    <3>. QED
      BY <3>1 DEF ValuesOK, HoldsCounted
  <2>2. ASSUME NEW m \in Machines PROVE ToSet(batch[m]) \subseteq Tasks
    <3>1. batch[m] \in Seq(Tasks)
      BY DEF ValuesOK
    <3>2. \A i \in DOMAIN batch[m] : batch[m][i] \in Tasks
      BY <3>1, LenProperties, ElementOfSeq
    <3>. QED
      BY <3>2 DEF ToSet
  <2>3. order \in Seq(Tasks) /\ DOMAIN order = 1..Len(order)
    BY LenProperties DEF ValuesOK, Queued
  <2>4. IsInjective(order)
    BY <2>3 DEF IsInjective, ValuesOK, Queued
  <2>5. ToSet(order) = {t \in Tasks : left[t] > 0}
    <3>1. \A i \in 1..Len(order) : order[i] \in Tasks
      BY <2>3, ElementOfSeq
    <3>2. \A t \in Tasks : left[t] > 0 <=> \E i \in 1..Len(order) : order[i] = t
      BY DEF ValuesOK, Queued
    <3>3. ToSet(order) = {order[i] : i \in 1..Len(order)}
      BY <2>3 DEF ToSet
    <3>. QED
      BY <3>1, <3>2, <3>3
  <2>6. ASSUME NEW m \in Machines
        PROVE  LET free == ToSet(idle[m]) IN
               /\ IsInjective(idle[m]) /\ free \intersect lent[m] = {}
               /\ free \union lent[m] \subseteq {s \in Sessions : s[1] = m}
               /\ IF pc[m] \in Connected
                  THEN conn[m] \in Sessions \ (free \union lent[m]) /\ conn[m][1] = m
                  ELSE conn[m] = None
    <3>1. /\ idle[m] \in Seq(Sessions) /\ DOMAIN idle[m] = 1..Len(idle[m])
          /\ lent[m] \subseteq Sessions /\ Placed(m) /\ Stacked(idle[m], m)
      BY LenProperties DEF PoolInv, Placed
    <3>2. \A i \in 1..Len(idle[m]) : idle[m][i] \in Sessions
      BY <3>1, ElementOfSeq
    <3>3. ToSet(idle[m]) = {idle[m][i] : i \in 1..Len(idle[m])}
      BY <3>1 DEF ToSet
    <3>4. \A s : s \in ToSet(idle[m]) <=> InStack(s, idle[m])
      BY <3>3 DEF InStack
    <3>5. IsInjective(idle[m])
      BY <3>1 DEF IsInjective, Stacked
    <3>6. ToSet(idle[m]) \subseteq {s \in Sessions : s[1] = m}
      BY <3>1, <3>2, <3>3 DEF Stacked
    <3>. QED
      BY <3>1, <3>4, <3>5, <3>6 DEF Placed
  <2>. QED
    BY <2>1, <2>2, <2>4, <2>5, <2>6 DEF TypeOK, ValuesOK, HoldsCounted, PoolInv
<1>. QED
  BY PoolInit, PoolNext, LockInit, LockNext, ValuesInit, ValuesNext, LockHasOneHolder, <1>1, PTL
     DEF Spec, LockDiscipline

=============================================================================
