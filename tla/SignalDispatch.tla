---------------------------- MODULE SignalDispatch ----------------------------
(***************************************************************************)
(* How a freshly ingested news item reaches the signal pipeline, in the    *)
(* single-process deployment. Three threads meet here:                     *)
(*                                                                         *)
(*   - ingestion commits new rows and publishes news.created_batch, whose  *)
(*     handler puts the ids on analysis_queue WITHOUT taking a lease;      *)
(*   - the scheduler lists the pending rows each tick, takes leases on     *)
(*     them and puts the granted ids on analysis_queue;                    *)
(*   - the queue worker drains analysis_queue (or scans the database when  *)
(*     the queue is empty), re-times the leases of its batch, runs the     *)
(*     pipeline, commits, announces, runs the alert rules, and releases.   *)
(*                                                                         *)
(* The database (status) survives a crash; the queue and the lease table   *)
(* are process memory and do not.                                          *)
(*                                                                         *)
(* Time: lease[n] is the number of ticks before n's lease expires (0: no   *)
(* lease). The code stores the grant time and purges entries of age >= ttl *)
(* at the head of every operation that reads the table, so an entry is     *)
(* visible exactly while this number is positive.                          *)
(***************************************************************************)
EXTENDS Integers, Sequences, FiniteSets

CONSTANTS
  NewsIds,      \* news ids; a larger id is listed first (more recent)
  BatchSize,    \* queue worker batch_size
  BacklogSize,  \* scheduler backlog_batch_size
  LeaseTicks,   \* lease duration
  ScanTicks,    \* interval of the worker's fallback scan
  MaxQueue,     \* bound: chunks on analysis_queue
  MaxFailures,  \* bound: pipeline runs and evaluations of the alert rules that raise
  MaxCrashes    \* bound: process restarts

ASSUME SizesAssumption ==
  /\ NewsIds \subseteq Nat
  /\ BatchSize \in Nat \ {0}
  /\ BacklogSize \in Nat \ {0}
  /\ LeaseTicks \in Nat \ {0}
  /\ ScanTicks \in Nat
  /\ MaxQueue \in Nat \ {0}
  /\ MaxFailures \in Nat
  /\ MaxCrashes \in Nat

VARIABLES
  status,     \* database: signal_status of each id
  matched,    \* ids whose results were published and seen by the alert rules
  missed,     \* ids whose results were published, but the alert rules raised
  queue,      \* analysis_queue: a sequence of chunks (sets of ids)
  lease,      \* InflightLeaseRegistry: ticks left of each id's lease
  fresh,      \* ingestion: rows committed whose created event is not out yet
  schedPc, listed, claimed,         \* scheduler thread
  workPc, scanned, batch, scanIn,   \* queue worker thread
  held,       \* history: ticks since the worker timed its batch's leases
  failures, crashes                 \* bounded counters

outcome   == <<matched, missed>>
dbVars    == <<status, outcome>>
schedVars == <<schedPc, listed, claimed>>
workVars  == <<workPc, scanned, batch, scanIn, held>>
bounds    == <<failures, crashes>>
vars == <<dbVars, queue, lease, fresh, schedVars, workVars, bounds>>

Statuses == {"absent", "pending", "processed"}
InPipeline == {"processing", "committed", "releasing"}  \* worker after touch()

TypeOK ==
  /\ status \in [NewsIds -> Statuses]
  /\ matched \in SUBSET NewsIds /\ missed \in SUBSET NewsIds
  /\ queue \in Seq(SUBSET NewsIds)
  /\ lease \in [NewsIds -> 0..LeaseTicks]
  /\ fresh \in SUBSET NewsIds
  /\ schedPc \in {"idle", "listed", "claimed"}
  /\ listed \in SUBSET NewsIds
  /\ claimed \in SUBSET NewsIds
  /\ workPc \in {"idle", "draining", "scanned"} \cup InPipeline
  /\ scanned \in SUBSET NewsIds
  /\ batch \in SUBSET NewsIds
  /\ scanIn \in 0..ScanTicks
  /\ held \in 0..LeaseTicks
  /\ failures \in 0..MaxFailures
  /\ crashes \in 0..MaxCrashes

(***************************************************************************)
(* The database query and the lease table                                  *)
(***************************************************************************)
\* Mutation of Pending: the filter written as "= NULL", never true.
PendingNever == {}

Pending == {n \in NewsIds : status[n] = "pending"}

\* ORDER BY published_at DESC LIMIT k
Newest(S, k) == {n \in S : Cardinality({m \in S : m > n}) < k}

ActiveCount == Cardinality({n \in NewsIds : lease[n] > 0})

\* Mutation of Grantable: acquire() does not look at the table.
GrantableBlind(ids, limit) == Newest(ids, limit)

\* What acquire(ids, limit) hands out: unleased ids in list order, up to limit.
Grantable(ids, limit) == Newest({n \in ids : lease[n] = 0}, limit)

\* Mutation of Timed: touch() keeps the time of a lease that already exists.
TimedOnce(S) == [n \in NewsIds |-> IF n \in S /\ lease[n] = 0 THEN LeaseTicks ELSE lease[n]]

\* The table after acquire() granted S, or after touch(S).
Timed(S) == [n \in NewsIds |-> IF n \in S THEN LeaseTicks ELSE lease[n]]

\* The table after release(S): whoever granted the lease, it is dropped.
Released(S) == [n \in NewsIds |-> IF n \in S THEN 0 ELSE lease[n]]

Init ==
  /\ status \in [NewsIds -> {"absent", "pending"}]
  /\ matched = {} /\ missed = {}
  /\ queue = <<>>
  /\ lease = [n \in NewsIds |-> 0]
  /\ fresh = {}
  /\ schedPc = "idle" /\ listed = {} /\ claimed = {}
  /\ workPc = "idle" /\ scanned = {} /\ batch = {} /\ scanIn = 0 /\ held = 0
  /\ failures = 0 /\ crashes = 0

(***************************************************************************)
(* Ingestion                                                               *)
(***************************************************************************)
\* A refresh commits one source's new rows ...
Insert(S) ==
  /\ fresh = {} /\ S # {}
  /\ \A n \in S : status[n] = "absent"
  /\ status' = [n \in NewsIds |-> IF n \in S THEN "pending" ELSE status[n]]
  /\ fresh' = S
  /\ UNCHANGED <<outcome, queue, lease, schedVars, workVars, bounds>>

\* ... and then publishes news.created_batch, handled in the same thread.
PublishCreated ==
  /\ fresh # {}
  /\ Len(queue) < MaxQueue
  /\ queue' = Append(queue, fresh)
  /\ fresh' = {}
  /\ UNCHANGED <<dbVars, lease, schedVars, workVars, bounds>>

(***************************************************************************)
(* Scheduler: _drain_signal_backlog                                        *)
(***************************************************************************)
SchedList ==
  /\ schedPc = "idle"
  /\ Pending # {}
  /\ listed' = Newest(Pending, BacklogSize + ActiveCount)
  /\ schedPc' = "listed"
  /\ UNCHANGED <<dbVars, queue, lease, fresh, claimed, workVars, bounds>>

SchedAcquire ==
  /\ schedPc = "listed"
  /\ LET granted == Grantable(listed, BacklogSize) IN
       /\ lease' = Timed(granted)
       /\ claimed' = granted
       /\ schedPc' = IF granted = {} THEN "idle" ELSE "claimed"
  /\ listed' = {}
  /\ UNCHANGED <<dbVars, queue, fresh, workVars, bounds>>

SchedPut ==
  /\ schedPc = "claimed"
  /\ Len(queue) < MaxQueue
  /\ queue' = Append(queue, claimed)
  /\ claimed' = {}
  /\ schedPc' = "idle"
  /\ UNCHANGED <<dbVars, lease, fresh, listed, workVars, bounds>>

(***************************************************************************)
(* Queue worker: do_cycle                                                  *)
(***************************************************************************)
\* _drain_queue, one get_nowait(): ids already in hand are skipped; a chunk
\* that does not fit is split and its rest goes back to the tail.
WorkerTake ==
  /\ workPc \in {"idle", "draining"}
  /\ queue # <<>>
  /\ Cardinality(batch) < BatchSize
  /\ LET unseen == Head(queue) \ batch
         room   == BatchSize - Cardinality(batch)
     IN \E taken \in SUBSET unseen :
          /\ \/ Cardinality(unseen) <= room /\ taken = unseen
             \/ Cardinality(unseen) > room /\ Cardinality(taken) = room
          /\ batch' = batch \cup taken
          /\ queue' = IF taken = unseen THEN Tail(queue)
                      ELSE Append(Tail(queue), unseen \ taken)
  /\ workPc' = "draining"
  /\ UNCHANGED <<dbVars, lease, fresh, schedVars, scanned, scanIn, held, bounds>>

\* The drain loop ends; touch() times the leases of the whole batch from now,
\* granting them to ids that came from the event handler without one.
WorkerTouch ==
  /\ workPc = "draining"
  /\ queue = <<>> \/ Cardinality(batch) >= BatchSize
  /\ batch # {}
  /\ lease' = Timed(batch)
  /\ held' = 0
  /\ workPc' = "processing"
  /\ UNCHANGED <<dbVars, queue, fresh, schedVars, scanned, batch, scanIn, bounds>>

\* Nothing queued and the scan interval is over: list pending rows ...
FallbackList ==
  /\ workPc = "idle"
  /\ queue = <<>>
  /\ scanIn = 0
  /\ scanIn' = ScanTicks
  /\ scanned' = Newest(Pending, BatchSize + ActiveCount)
  /\ workPc' = "scanned"
  /\ UNCHANGED <<dbVars, queue, lease, fresh, schedVars, batch, held, bounds>>

\* ... and acquire (then touch) the ones nobody holds.
FallbackAcquire ==
  /\ workPc = "scanned"
  /\ LET granted == Grantable(scanned, BatchSize) IN
       /\ lease' = Timed(granted)
       /\ batch' = granted
       /\ workPc' = IF granted = {} THEN "idle" ELSE "processing"
  /\ held' = 0
  /\ scanned' = {}
  /\ UNCHANGED <<dbVars, queue, fresh, schedVars, scanIn, bounds>>

\* Mutation of WorkerCommit: only part of the batch reaches the database.
WorkerCommitPart ==
  /\ workPc = "processing"
  /\ \E kept \in SUBSET batch :
       status' = [n \in NewsIds |-> IF n \in kept THEN "processed" ELSE status[n]]
  /\ workPc' = "committed"
  /\ UNCHANGED <<outcome, queue, lease, fresh, schedVars, scanned, batch, scanIn, held, bounds>>

\* process_news_ids and session.commit(): the ids are not filtered by status.
WorkerCommit ==
  /\ workPc = "processing"
  /\ status' = [n \in NewsIds |-> IF n \in batch THEN "processed" ELSE status[n]]
  /\ workPc' = "committed"
  /\ UNCHANGED <<outcome, queue, lease, fresh, schedVars, scanned, batch, scanIn, held, bounds>>

\* Anything up to the commit raises: the transaction rolls back.
WorkerFail ==
  /\ workPc = "processing"
  /\ failures < MaxFailures
  /\ failures' = failures + 1
  /\ workPc' = "releasing"
  /\ UNCHANGED <<dbVars, queue, lease, fresh, schedVars, scanned, batch, scanIn, held, crashes>>

\* publish_batch("news.updated"), the alert rules (on_news_batch), and
\* news.signals_processed. The bus keeps the errors of Redis and of subscribers
\* to itself. No other thread reads what this step writes.
WorkerAnnounce ==
  /\ workPc = "committed"
  /\ matched' = matched \cup batch
  /\ workPc' = "releasing"
  /\ UNCHANGED <<status, missed, queue, lease, fresh, schedVars, scanned, batch, scanIn, held,
                 bounds>>

\* The same when on_news_batch raises: the exception is counted and goes no
\* further, the results stay committed and published, and nobody runs the rules
\* for this batch again.
WorkerAnnounceFails ==
  /\ workPc = "committed"
  /\ failures < MaxFailures
  /\ failures' = failures + 1
  /\ missed' = missed \cup batch
  /\ workPc' = "releasing"
  /\ UNCHANGED <<status, matched, queue, lease, fresh, schedVars, scanned, batch, scanIn, held,
                 crashes>>

\* finally: release(target_ids), whatever the outcome.
WorkerRelease ==
  /\ workPc = "releasing"
  /\ lease' = Released(batch)
  /\ batch' = {}
  /\ held' = 0
  /\ workPc' = "idle"
  /\ UNCHANGED <<dbVars, queue, fresh, schedVars, scanned, scanIn, bounds>>

(***************************************************************************)
(* Environment                                                             *)
(***************************************************************************)
\* Mutation of Less: an expired entry is counted on instead of purged.
LessUnpurged(k) == k - 1

Less(k) == IF k = 0 THEN 0 ELSE k - 1

Tick ==
  /\ lease' = [n \in NewsIds |-> Less(lease[n])]
  /\ scanIn' = Less(scanIn)
  /\ held' = IF held < LeaseTicks THEN held + 1 ELSE held
  /\ UNCHANGED <<dbVars, queue, fresh, schedVars, workPc, scanned, batch, bounds>>

\* The process dies and is started again on the same database.
Crash ==
  /\ crashes < MaxCrashes
  /\ crashes' = crashes + 1
  /\ queue' = <<>>
  /\ lease' = [n \in NewsIds |-> 0]
  /\ fresh' = {}
  /\ schedPc' = "idle" /\ listed' = {} /\ claimed' = {}
  /\ workPc' = "idle" /\ scanned' = {} /\ batch' = {} /\ scanIn' = 0 /\ held' = 0
  /\ UNCHANGED <<dbVars, failures>>

Scheduler == SchedList \/ SchedAcquire \/ SchedPut

Worker ==
  \/ WorkerTake \/ WorkerTouch
  \/ FallbackList \/ FallbackAcquire
  \/ WorkerCommit \/ WorkerFail
  \/ WorkerAnnounce \/ WorkerAnnounceFails \/ WorkerRelease

Next ==
  \/ \E S \in SUBSET NewsIds : Insert(S)
  \/ PublishCreated
  \/ Scheduler
  \/ Worker
  \/ Tick
  \/ Crash

\* Both threads run in a loop (BaseWorker.run_loop) and time passes; rows need
\* not arrive and crashes need not happen.
Fairness ==
  /\ WF_vars(PublishCreated)
  /\ WF_vars(Scheduler)
  /\ WF_vars(Worker)
  /\ WF_vars(Tick)

Spec == Init /\ [][Next]_vars /\ Fairness

-----------------------------------------------------------------------------
(***************************************************************************)
(* Properties                                                              *)
(***************************************************************************)
\* From touch() on, the worker's batch keeps its leases for the whole lease
\* duration: no other thread's acquire, touch or release shortens them.
LeaseCoversBatch ==
  workPc \in InPipeline =>
    \A n \in batch : lease[n] + held >= LeaseTicks

\* The scheduler never claims an item the worker is processing, unless that
\* run has outlived its lease (InflightLeaseRegistry: "blocks ids in progress
\* from the enqueue side").
NoRedeliveryInProgress ==
  [][\A n \in claimed' \ claimed :
        workPc \in InPipeline /\ n \in batch => held >= LeaseTicks]_vars

\* Only ids with a committed row travel through memory (event chunks, listings,
\* claims, batches), and a batch that is about to be announced has its result
\* in the database: no crash and no failed evaluation of the alert rules can
\* leave an announcement without its row.
MemoryFollowsDatabase ==
  /\ \A n \in fresh \cup listed \cup claimed \cup scanned \cup batch : status[n] # "absent"
  /\ \A i \in 1..Len(queue) : \A n \in queue[i] : status[n] # "absent"
  /\ workPc = "committed" => \A n \in batch : status[n] = "processed"
  /\ \A n \in matched \cup missed : status[n] = "processed"

\* Nothing is lost: every pending item is eventually processed, through failed
\* runs, overflowing batches and a restart that empties the queue and leases.
\* Rows are finitely many and "processed" is final, so this is that again and
\* again, and in the end always, none is pending.
EveryPendingIsProcessed == []<>(\A n \in NewsIds : status[n] # "pending")

\* Once rows stop arriving the pipeline comes to rest: duplicate deliveries
\* die out instead of feeding each other.
ComesToRest == <>[](queue = <<>> /\ batch = {} /\ claimed = {})

\* Without a crash every processed item is announced and reaches the alert
\* rules, and only an evaluation that raised takes the alerts away from it: the
\* worker never drops a batch between its commit and its notifications.
EveryProcessedIsAnnounced ==
  []<>(\A n \in NewsIds :
         status[n] = "processed" => n \in matched \cup missed \/ crashes > 0)

\* Nothing is lost and nothing circulates for ever: the pipeline processes,
\* announces and comes to rest, whether or not the alert rules raise.
WorkIsDone == EveryPendingIsProcessed /\ EveryProcessedIsAnnounced /\ ComesToRest

\* The threads, queue and leases implement the item's lifecycle.
Lifecycle == INSTANCE SignalLifecycle
ImplementsLifecycle == Lifecycle!Spec
=============================================================================
