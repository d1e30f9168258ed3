------------------------ MODULE SignalDispatch_proofs ------------------------
(***************************************************************************)
(* For every set of news ids, every batch size, lease duration and queue   *)
(* bound: the types, the lease protection of a batch in progress, the      *)
(* agreement of memory with the database, and the safety part of the       *)
(* refinement of SignalLifecycle.                                          *)
(***************************************************************************)
EXTENDS SignalDispatch, TLAPS

\* The newest of some ids are among them.
LEMMA NewestSubset == \A S, k : Newest(S, k) \subseteq S
BY DEF Newest

\* acquire grants ids whose lease has run out.
LEMMA GrantableUnleased ==
  \A ids, limit : Grantable(ids, limit) \subseteq {n \in ids : lease[n] = 0}
BY NewestSubset DEF Grantable

\* A lease, granted or extended, is within its bound.
LEMMA TimedType ==
  ASSUME lease \in [NewsIds -> 0..LeaseTicks], NEW S
  PROVE  Timed(S) \in [NewsIds -> 0..LeaseTicks]
BY SizesAssumption DEF Timed

\* Every variable keeps its type: in particular lease counters never exceed the
\* lease duration, and every chunk on analysis_queue is a set of ids.
THEOREM TypeCorrect == Spec => []TypeOK
<1>. USE SizesAssumption DEF TypeOK, Statuses, InPipeline
<1>1. Init => TypeOK
  BY DEF Init
<1>2. TypeOK /\ [Next]_vars => TypeOK'
  <2>. SUFFICES ASSUME TypeOK, [Next]_vars PROVE TypeOK'
    OBVIOUS
  <2>. USE DEF dbVars, outcome, schedVars, workVars, bounds
  <2>1. ASSUME NEW S \in SUBSET NewsIds, Insert(S) PROVE TypeOK'
    BY <2>1 DEF Insert
  <2>2. CASE PublishCreated
    BY <2>2 DEF PublishCreated
  <2>3. CASE SchedList
    <3>1. Newest(Pending, BacklogSize + ActiveCount) \in SUBSET NewsIds
      BY NewestSubset DEF Pending
    <3>. QED
      BY <2>3, <3>1 DEF SchedList
  <2>4. CASE SchedAcquire
    <3>1. Grantable(listed, BacklogSize) \in SUBSET NewsIds
      BY GrantableUnleased
    <3>. QED
      BY <2>4, <3>1, TimedType DEF SchedAcquire
  <2>5. CASE SchedPut
    BY <2>5 DEF SchedPut
  <2>6. CASE WorkerTake
    <3>. PICK taken \in SUBSET (Head(queue) \ batch) :
           /\ batch' = batch \cup taken
           /\ queue' = IF taken = Head(queue) \ batch THEN Tail(queue)
                       ELSE Append(Tail(queue), (Head(queue) \ batch) \ taken)
      BY <2>6 DEF WorkerTake
    <3>1. Head(queue) \in SUBSET NewsIds /\ Tail(queue) \in Seq(SUBSET NewsIds)
      BY <2>6 DEF WorkerTake
    <3>2. (Head(queue) \ batch) \ taken \in SUBSET NewsIds
      BY <3>1
    <3>3. Append(Tail(queue), (Head(queue) \ batch) \ taken) \in Seq(SUBSET NewsIds)
      BY <3>1, <3>2
    <3>4. queue' \in Seq(SUBSET NewsIds)
      BY <3>1, <3>3
    <3>5. batch' \in SUBSET NewsIds
      BY <3>1
    <3>. QED
      BY <2>6, <3>4, <3>5 DEF WorkerTake
  <2>7. CASE WorkerTouch
    BY <2>7, TimedType DEF WorkerTouch
  <2>8. CASE FallbackList
    <3>1. Newest(Pending, BatchSize + ActiveCount) \in SUBSET NewsIds
      BY NewestSubset DEF Pending
    <3>. QED
      BY <2>8, <3>1 DEF FallbackList
  <2>9. CASE FallbackAcquire
    <3>1. Grantable(scanned, BatchSize) \in SUBSET NewsIds
      BY GrantableUnleased
    <3>. QED
      BY <2>9, <3>1, TimedType DEF FallbackAcquire
  <2>10. CASE WorkerCommit
    BY <2>10 DEF WorkerCommit
  <2>11. CASE WorkerFail
    BY <2>11 DEF WorkerFail
  <2>12. CASE WorkerAnnounce \/ WorkerAnnounceFails
    <3>1. CASE WorkerAnnounce
      BY <3>1 DEF WorkerAnnounce
    <3>2. CASE WorkerAnnounceFails
      BY <3>2 DEF WorkerAnnounceFails
    <3>. QED
      BY <2>12, <3>1, <3>2
  <2>13. CASE WorkerRelease
    BY <2>13 DEF WorkerRelease, Released
  <2>14. CASE Tick
    BY <2>14 DEF Tick, Less
  <2>15. CASE Crash
    BY <2>15 DEF Crash
  <2>16. CASE UNCHANGED vars
    BY <2>16 DEF vars
  <2>. QED
    BY <2>1, <2>2, <2>3, <2>4, <2>5, <2>6, <2>7, <2>8, <2>9, <2>10, <2>11, <2>12,
       <2>13, <2>14, <2>15, <2>16 DEF Next, Scheduler, Worker
<1>. QED
  BY <1>1, <1>2, PTL DEF Spec

\* From touch() to release() no other thread shortens the lease of an id the
\* worker is processing.
THEOREM LeaseProtection == Spec => []LeaseCoversBatch
<1>. USE SizesAssumption DEF LeaseCoversBatch, InPipeline
<1>1. Init => LeaseCoversBatch
  BY DEF Init
<1>2. TypeOK /\ LeaseCoversBatch /\ [Next]_vars => LeaseCoversBatch'
  <2>. SUFFICES ASSUME TypeOK, LeaseCoversBatch, [Next]_vars,
                       workPc' \in InPipeline, NEW n \in batch'
                PROVE  lease'[n] + held' >= LeaseTicks
    OBVIOUS
  <2>. USE DEF dbVars, schedVars, workVars, bounds
  <2>0. lease \in [NewsIds -> 0..LeaseTicks] /\ held \in 0..LeaseTicks /\ batch \in SUBSET NewsIds
    BY DEF TypeOK
  <2>1. CASE /\ workPc \in InPipeline
             /\ UNCHANGED <<batch, lease, held>>
    BY <2>1, <2>0
  <2>2. CASE SchedAcquire
    <3>1. workPc \in InPipeline /\ n \in batch /\ held' = held
      BY <2>2 DEF SchedAcquire
    <3>2. lease'[n] = LeaseTicks \/ lease'[n] = lease[n]
      BY <2>2, <2>0, <3>1 DEF SchedAcquire, Timed
    <3>. QED
      BY <3>1, <3>2, <2>0
  <2>3. CASE WorkerTouch
    <3>1. lease'[n] = LeaseTicks /\ held' = 0
      BY <2>3, <2>0 DEF WorkerTouch, Timed
    <3>. QED
      BY <3>1
  <2>4. CASE FallbackAcquire
    <3>1. batch' \subseteq NewsIds /\ lease' = Timed(batch') /\ held' = 0
      BY <2>4, GrantableUnleased DEF FallbackAcquire, TypeOK
    <3>2. lease'[n] = LeaseTicks
      BY <3>1 DEF Timed
    <3>. QED
      BY <3>1, <3>2
  <2>5. CASE Tick
    <3>1. workPc \in InPipeline /\ n \in batch /\ n \in NewsIds
      BY <2>5, <2>0 DEF Tick
    <3>2. lease[n] + held >= LeaseTicks
      BY <3>1
    <3>3. lease'[n] = Less(lease[n]) /\ held' = IF held < LeaseTicks THEN held + 1 ELSE held
      BY <2>5, <3>1 DEF Tick
    <3>4. lease[n] \in 0..LeaseTicks
      BY <3>1, <2>0
    <3>. QED
      BY <3>2, <3>3, <3>4, <2>0 DEF Less
  <2>6. CASE \/ WorkerTake \/ FallbackList \/ WorkerRelease \/ Crash
    BY <2>6 DEF WorkerTake, FallbackList, WorkerRelease, Crash
  <2>7. CASE \/ \E S \in SUBSET NewsIds : Insert(S)
             \/ PublishCreated \/ SchedList \/ SchedPut
             \/ WorkerCommit \/ WorkerFail \/ WorkerAnnounce \/ WorkerAnnounceFails
             \/ UNCHANGED vars
    <3>1. workPc \in InPipeline /\ UNCHANGED <<batch, lease, held>>
      BY <2>7 DEF Insert, PublishCreated, SchedList, SchedPut, WorkerCommit, WorkerFail,
                  WorkerAnnounce, WorkerAnnounceFails, vars
    <3>. QED
      BY <2>1, <3>1
  <2>. QED
    BY <2>2, <2>3, <2>4, <2>5, <2>6, <2>7 DEF Next, Scheduler, Worker
<1>. QED
  BY <1>1, <1>2, TypeCorrect, PTL DEF Spec

\* The scheduler's acquire() never hands out an id the worker is processing
\* within the lease duration.
THEOREM NoRedelivery == Spec => NoRedeliveryInProgress
<1>1. TypeOK /\ LeaseCoversBatch /\ [Next]_vars
        => [\A n \in claimed' \ claimed :
               workPc \in InPipeline /\ n \in batch => held >= LeaseTicks]_vars
  <2>. SUFFICES ASSUME TypeOK, LeaseCoversBatch, Next,
                       NEW n \in claimed' \ claimed, workPc \in InPipeline, n \in batch
                PROVE  held >= LeaseTicks
    OBVIOUS
  <2>1. CASE SchedAcquire
    <3>1. lease[n] = 0
      BY <2>1, GrantableUnleased DEF SchedAcquire
    <3>2. lease[n] + held >= LeaseTicks /\ held \in Nat
      BY SizesAssumption DEF LeaseCoversBatch, TypeOK
    <3>. QED
      BY <3>1, <3>2
  <2>2. CASE ~SchedAcquire
    <3>1. claimed' \subseteq claimed
      BY <2>2 DEF Next, Scheduler, Worker, Insert, PublishCreated, SchedList, SchedPut, WorkerTake,
                  WorkerTouch, FallbackList, FallbackAcquire, WorkerCommit, WorkerFail,
                  WorkerAnnounce, WorkerAnnounceFails, WorkerRelease, Tick, Crash, schedVars
    <3>. QED
      BY <3>1
  <2>. QED
    BY <2>1, <2>2
<1>. QED
  BY <1>1, TypeCorrect, LeaseProtection, PTL DEF Spec, NoRedeliveryInProgress

-----------------------------------------------------------------------------
(***************************************************************************)
(* Memory follows the database                                             *)
(***************************************************************************)
\* A row never disappears and a processed row stays processed.
Grows == \A n \in NewsIds :
  /\ status[n] # "absent" => status'[n] # "absent"
  /\ status[n] = "processed" => status'[n] = "processed"

\* A row that is committed stays committed.
LEMMA StatusGrows == TypeOK /\ [Next]_vars => Grows
<1>. SUFFICES ASSUME TypeOK, [Next]_vars PROVE Grows
  OBVIOUS
<1>. USE DEF Grows, TypeOK
<1>1. ASSUME NEW S \in SUBSET NewsIds, Insert(S) PROVE Grows
  BY <1>1 DEF Insert
<1>2. CASE WorkerCommit
  BY <1>2 DEF WorkerCommit
<1>3. CASE UNCHANGED status
  BY <1>3
<1>. QED
  BY <1>1, <1>2, <1>3 DEF Next, vars, dbVars, Scheduler, Worker, PublishCreated, SchedList,
     SchedAcquire, SchedPut, WorkerTake, WorkerTouch, FallbackList, FallbackAcquire, WorkerFail,
     WorkerAnnounce, WorkerAnnounceFails, WorkerRelease, Tick, Crash

\* Every id in memory has a row, and only committed results are announced.
THEOREM MemoryTheorem == Spec => []MemoryFollowsDatabase
<1>. USE DEF MemoryFollowsDatabase, InPipeline
<1>1. Init => MemoryFollowsDatabase
  BY DEF Init
<1>2. TypeOK /\ TypeOK' /\ MemoryFollowsDatabase /\ [Next]_vars => MemoryFollowsDatabase'
  <2>. SUFFICES ASSUME TypeOK, TypeOK', MemoryFollowsDatabase, [Next]_vars
                PROVE  MemoryFollowsDatabase'
    OBVIOUS
  <2>. USE StatusGrows DEF dbVars, outcome, schedVars, workVars, bounds
  <2>0. Grows
    OBVIOUS
  <2>t. /\ queue \in Seq(SUBSET NewsIds) /\ status \in [NewsIds -> Statuses]
        /\ matched \cup missed \subseteq NewsIds /\ batch \subseteq NewsIds
        /\ fresh \cup listed \cup claimed \cup scanned \subseteq NewsIds
    BY DEF TypeOK
  <2>1. ASSUME NEW S \in SUBSET NewsIds, Insert(S) PROVE MemoryFollowsDatabase'
    BY <2>0, <2>1, <2>t DEF Insert, Grows
  <2>2. CASE PublishCreated
    <3>1. \A i \in 1..Len(queue') : queue'[i] = fresh \/ \E j \in 1..Len(queue) : queue'[i] = queue[j]
      BY <2>2, <2>t DEF PublishCreated
    <3>. QED
      BY <2>2, <3>1 DEF PublishCreated
  <2>3. CASE SchedList
    <3>1. listed' \subseteq Pending
      BY <2>3, NewestSubset DEF SchedList
    <3>. QED
      BY <2>3, <3>1 DEF SchedList, Pending
  <2>4. CASE SchedAcquire
    <3>1. claimed' \subseteq listed
      BY <2>4, GrantableUnleased DEF SchedAcquire
    <3>. QED
      BY <2>4, <3>1 DEF SchedAcquire
  <2>5. CASE SchedPut
    <3>1. \A i \in 1..Len(queue') : queue'[i] = claimed \/ \E j \in 1..Len(queue) : queue'[i] = queue[j]
      BY <2>5, <2>t DEF SchedPut, TypeOK
    <3>. QED
      BY <2>5, <3>1 DEF SchedPut
  <2>6. CASE WorkerTake
    <3>. PICK taken \in SUBSET (Head(queue) \ batch) :
           /\ batch' = batch \cup taken
           /\ queue' = IF taken = Head(queue) \ batch THEN Tail(queue)
                       ELSE Append(Tail(queue), (Head(queue) \ batch) \ taken)
      BY <2>6 DEF WorkerTake
    <3>1. queue # <<>> /\ Head(queue) = queue[1] /\ 1 \in 1..Len(queue)
      BY <2>6, <2>t DEF WorkerTake
    <3>2. \A n \in Head(queue) : status[n] # "absent"
      BY <3>1
    <3>3. Tail(queue) \in Seq(SUBSET NewsIds) /\ Head(queue) \subseteq NewsIds
      BY <3>1, <2>t
    <3>4. \A i \in 1..Len(Tail(queue)) : \E j \in 1..Len(queue) : Tail(queue)[i] = queue[j]
      <4>1. TAKE i \in 1..Len(Tail(queue))
      <4>2. i+1 \in 1..Len(queue) /\ Tail(queue)[i] = queue[i+1]
        BY <3>1, <2>t
      <4>. QED
        BY <4>2
    <3>5. \A i \in 1..Len(queue') : \/ queue'[i] \subseteq Head(queue)
                                    \/ \E j \in 1..Len(queue) : queue'[i] = queue[j]
      <4>1. CASE taken = Head(queue) \ batch
        BY <4>1, <3>4
      <4>2. CASE taken # Head(queue) \ batch
        <5>. DEFINE rest == (Head(queue) \ batch) \ taken
        <5>1. queue' = Append(Tail(queue), rest) /\ rest \in SUBSET NewsIds /\ rest \subseteq Head(queue)
          BY <4>2, <3>3
        <5>. HIDE DEF rest
        <5>2. \A i \in 1..Len(queue') : queue'[i] = rest \/ (i \in 1..Len(Tail(queue)) /\ queue'[i] = Tail(queue)[i])
          BY <5>1, <3>3
        <5>. QED
          BY <5>1, <5>2, <3>4
      <4>. QED
        BY <4>1, <4>2
    <3>6. UNCHANGED <<status, matched, missed, fresh, listed, claimed, scanned>> /\ workPc' = "draining"
      BY <2>6 DEF WorkerTake
    <3>. QED
      BY <3>2, <3>5, <3>6
  <2>7. CASE WorkerTouch
    BY <2>7 DEF WorkerTouch
  <2>8. CASE FallbackList
    <3>1. scanned' \subseteq Pending
      BY <2>8, NewestSubset DEF FallbackList
    <3>. QED
      BY <2>8, <3>1 DEF FallbackList, Pending
  <2>9. CASE FallbackAcquire
    <3>1. batch' \subseteq scanned
      BY <2>9, GrantableUnleased DEF FallbackAcquire
    <3>. QED
      BY <2>9, <3>1 DEF FallbackAcquire
  <2>10. CASE WorkerCommit
    <3>1. \A n \in NewsIds : status'[n] = IF n \in batch THEN "processed" ELSE status[n]
      BY <2>10 DEF WorkerCommit
    <3>2. UNCHANGED <<matched, missed, queue, fresh, schedVars, scanned, batch>>
      BY <2>10 DEF WorkerCommit
    <3>3. \A i \in 1..Len(queue) : queue[i] \subseteq NewsIds
      BY <2>t
    <3>. QED
      BY <3>1, <3>2, <3>3, <2>t
  <2>11. CASE WorkerFail
    BY <2>11 DEF WorkerFail
  <2>12. CASE WorkerAnnounce \/ WorkerAnnounceFails
    BY <2>12 DEF WorkerAnnounce, WorkerAnnounceFails
  <2>13. CASE WorkerRelease
    BY <2>13 DEF WorkerRelease
  <2>14. CASE Tick
    BY <2>14 DEF Tick
  <2>15. CASE Crash
    BY <2>15 DEF Crash
  <2>16. CASE UNCHANGED vars
    BY <2>16 DEF vars
  <2>. QED
    BY <2>1, <2>2, <2>3, <2>4, <2>5, <2>6, <2>7, <2>8, <2>9, <2>10, <2>11, <2>12,
       <2>13, <2>14, <2>15, <2>16 DEF Next, Scheduler, Worker
<1>. QED
  BY <1>1, <1>2, TypeCorrect, PTL DEF Spec

\* Every step of the three threads is a step of the item lifecycle or leaves
\* status and announcements alone.
THEOREM LifecycleSafety == Spec => Lifecycle!Init /\ [][Lifecycle!Next]_Lifecycle!vars
<1>1. Init => Lifecycle!Init
  BY DEF Init, Lifecycle!Init
<1>2. TypeOK /\ MemoryFollowsDatabase /\ [Next]_vars => [Lifecycle!Next]_Lifecycle!vars
  <2>. SUFFICES ASSUME TypeOK, MemoryFollowsDatabase, [Next]_vars
                PROVE  Lifecycle!Next \/ UNCHANGED <<status, matched, missed>>
    BY DEF Lifecycle!vars
  <2>1. ASSUME NEW S \in SUBSET NewsIds, Insert(S) PROVE Lifecycle!Next
    <3>1. Lifecycle!Arrive(S)
      BY <2>1 DEF Insert, outcome, Lifecycle!Arrive
    <3>. QED
      BY <3>1 DEF Lifecycle!Next
  <2>2. CASE WorkerCommit
    <3>1. Lifecycle!Process(batch) /\ batch \in SUBSET NewsIds
      BY <2>2 DEF WorkerCommit, outcome, Lifecycle!Process, MemoryFollowsDatabase, TypeOK
    <3>. QED
      BY <3>1 DEF Lifecycle!Next
  <2>3. CASE WorkerAnnounce \/ WorkerAnnounceFails
    <3>1. Lifecycle!Announce(batch) /\ batch \in SUBSET NewsIds
      BY <2>3 DEF WorkerAnnounce, WorkerAnnounceFails, Lifecycle!Announce,
             MemoryFollowsDatabase, TypeOK
    <3>. QED
      BY <3>1 DEF Lifecycle!Next
  <2>. QED
    BY <2>1, <2>2, <2>3 DEF Next, vars, dbVars, outcome, Scheduler, Worker, PublishCreated,
       SchedList, SchedAcquire, SchedPut, WorkerTake, WorkerTouch, FallbackList, FallbackAcquire, WorkerFail,
       WorkerRelease, Tick, Crash
<1>. QED
  BY <1>1, <1>2, TypeCorrect, MemoryTheorem, PTL DEF Spec
=============================================================================
