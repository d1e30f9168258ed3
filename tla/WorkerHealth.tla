---------------------------- MODULE WorkerHealth ----------------------------
(***************************************************************************)
(* What the health page says of one background worker                      *)
(* (app/workers/base_worker.py, queue_worker.py, services/ops_health.py,   *)
(* repositories/worker_runtime_status_repository.py): the heartbeat and    *)
(* failure writes with their throttles, and the alarms.                    *)
(*                                                                         *)
(* Time is kept as what has passed since an event, in ticks, and counted   *)
(* as far as a condition asks for it.  A cycle takes time, in which the    *)
(* worker gives no sign of life: the row is written at its end.            *)
(***************************************************************************)
EXTENDS Naturals

CONSTANTS
    Interval,      \* get_interval()
    Heartbeat,     \* heartbeat_interval_seconds
    FailureEvery,  \* FAILURE_RECORD_MIN_INTERVAL_SECONDS; 0 where failures are not throttled
    Timeout,       \* WORKER_HEARTBEAT_TIMEOUT_SECONDS
    Longest        \* bound: ticks a cycle takes at most, unless it hangs

ASSUME HealthAssumption ==
    /\ Interval \in Nat \ {0} /\ Heartbeat \in Nat /\ FailureEvery \in Nat
    /\ Timeout \in Nat /\ Longest \in Nat

VARIABLES
    wait,      \* ticks until the next cycle
    cycle,     \* "none"; "runs"; "hangs": it does not come back
    elapsed,   \* ticks the running cycle has taken
    beat,      \* ticks since _last_heartbeat_at, up to Heartbeat
    failed,    \* ticks since _last_failure_record_at, up to FailureEvery
    row,       \* the worker's row: its status ("none": no row) and the age of its heartbeat
    well, bad  \* history: ticks since the last trouble, and since the last success

vars == <<wait, cycle, elapsed, beat, failed, row, well, bad>>

Statuses == {"none", "ok", "degraded"}
Least(a, b) == IF a < b THEN a ELSE b

\* the times after which a reader may rely on what the page says
Quiet == Heartbeat + Interval + Longest
Noticed == Timeout

-----------------------------------------------------------------------------
(* The loop: run_cycle, the bookkeeping, then what the cycle has left of   *)
(* the interval.  "written" says whether the database accepts the write.   *)

BeginCycle ==
    /\ cycle = "none" /\ wait = 0
    /\ cycle' = "runs" /\ elapsed' = 0
    /\ UNCHANGED <<wait, beat, failed, row, well, bad>>

\* the 0.1 s after a cycle that took the whole interval count as a tick
Pause == IF elapsed < Interval THEN Interval - elapsed ELSE 1

EndCycle ==
    /\ cycle = "runs"
    /\ cycle' = "none" /\ elapsed' = 0 /\ wait' = Pause

\* _record_success: an idle cycle writes only once in a heartbeat interval, and
\* the time is set before the write
RecordSuccess(some, written) ==
    IF ~some /\ beat < Heartbeat THEN UNCHANGED <<beat, row>>
    ELSE /\ beat' = 0
         /\ row' = IF written THEN [status |-> "ok", age |-> 0] ELSE row

\* Mutation of RecordFailure: a failure is a sign of life and no more.
RecordFailureAlive(written) ==
    IF failed < FailureEvery THEN UNCHANGED <<failed, row>>
    ELSE /\ failed' = 0
         /\ row' = IF written THEN [status |-> IF row.status = "none" THEN "ok" ELSE row.status, age |-> 0]
                   ELSE row

\* _record_failure of the queue worker; the base class has no throttle
RecordFailure(written) ==
    IF failed < FailureEvery THEN UNCHANGED <<failed, row>>
    ELSE /\ failed' = 0
         /\ row' = IF written THEN [status |-> "degraded", age |-> 0] ELSE row

CycleSucceeds ==
    /\ EndCycle
    /\ \E some, written \in BOOLEAN :
         /\ RecordSuccess(some, written)
         /\ well' = IF written THEN well ELSE 0
    /\ bad' = 0
    /\ UNCHANGED failed

CycleFails ==
    /\ EndCycle
    /\ \E written \in BOOLEAN : RecordFailure(written)
    /\ well' = 0
    /\ UNCHANGED <<beat, bad>>

\* a call without a time limit
CycleHangs ==
    /\ cycle = "runs"
    /\ cycle' = "hangs" /\ elapsed' = 0 /\ well' = 0
    /\ UNCHANGED <<wait, beat, failed, row, bad>>

\* a new process: the throttles start again, the row stays
Restart ==
    /\ wait' = 0 /\ cycle' = "none" /\ elapsed' = 0
    /\ beat' = Heartbeat /\ failed' = FailureEvery
    /\ well' = 0 /\ bad' = 0
    /\ UNCHANGED row

Tick ==
    /\ wait > 0 \/ cycle # "none"
    /\ elapsed < Longest \/ cycle # "runs"
    /\ wait' = IF wait = 0 THEN 0 ELSE wait - 1
    /\ elapsed' = IF cycle = "runs" THEN elapsed + 1 ELSE 0
    /\ beat' = Least(beat + 1, Heartbeat)
    /\ failed' = Least(failed + 1, FailureEvery)
    /\ row' = [row EXCEPT !.age = IF row.status = "none" THEN 0 ELSE Least(@ + 1, Timeout + 1)]
    /\ well' = Least(well + 1, Quiet + 1) /\ bad' = Least(bad + 1, Noticed + 1)
    /\ UNCHANGED cycle

Init ==
    /\ wait = 0 /\ cycle = "none" /\ elapsed = 0
    /\ beat = Heartbeat /\ failed = FailureEvery
    /\ row = [status |-> "none", age |-> 0]
    /\ well = 0 /\ bad = 0

Next == BeginCycle \/ CycleSucceeds \/ CycleFails \/ CycleHangs \/ Restart \/ Tick

Spec == Init /\ [][Next]_vars

-----------------------------------------------------------------------------
\* _evaluate_alerts
Alarm == row.status # "none" /\ (row.age > Timeout \/ row.status = "degraded")

TypeOK ==
    /\ wait \in 0..Interval /\ cycle \in {"none", "runs", "hangs"} /\ elapsed \in 0..Longest
    /\ beat \in 0..Heartbeat /\ failed \in 0..FailureEvery
    /\ well \in 0..Quiet + 1 /\ bad \in 0..Noticed + 1
    /\ row \in [status : Statuses, age : 0..Timeout + 1]

\* A worker whose cycles come back and succeed and whose writes are accepted is not
\* reported, a heartbeat interval, a pause and its longest cycle after the last trouble at
\* the latest, although a lost write silences it for another interval and it says nothing
\* while a cycle runs.
HealthyIsQuiet == cycle # "hangs" /\ well > Quiet => ~Alarm

\* A worker with a row of which no cycle has succeeded for longer than the timeout, because
\* they fail, hang or take long, is reported, whatever writes the throttles swallow and the
\* database refuses.
TroubleIsReported == row.status # "none" /\ bad > Noticed => Alarm

\* The health page reports the workers that are in trouble, and only them: where a cycle may
\* take longer than the time limit leaves room for, it reports healthy ones too.
WorkersAreReported == TypeOK /\ HealthyIsQuiet /\ TroubleIsReported
=============================================================================
