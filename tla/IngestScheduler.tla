--------------------------- MODULE IngestScheduler ---------------------------
(***************************************************************************)
(* When a news source is fetched and how its state is shown: the due table *)
(* of the scheduler with its start-up jitter and backoff, the lease of the *)
(* manual refresh, the rows of source_health both write, and the statuses  *)
(* the runtime view computes from them (news_ingest_scheduler.py,          *)
(* news_refresh_lease.py, persister.py, news_runtime.py).                  *)
(*                                                                         *)
(* Time passes in ticks of tick_seconds and is kept as what is left or has *)
(* passed, not as a clock.  A cycle of the scheduler takes at most         *)
(* Duration ticks from its first fetch to its last outcome.  Each outcome  *)
(* is stored as its fetch completes; the scheduler learns of all of them   *)
(* when the cycle ends.                                                    *)
(***************************************************************************)
EXTENDS Integers, FiniteSets

CONSTANTS
    Sources,
    Watched,         \* the source whose row and status are followed
    Cadence,         \* cadence_seconds of each source
    MaxMultiplier,   \* news_backoff_max_multiplier
    EmptyThreshold,  \* empty_circuit_threshold
    Jitter,          \* news_scheduler_startup_jitter_seconds
    Cooldown,        \* news_refresh_cooldown_seconds
    Duration,        \* bound: ticks a cycle takes
    MaxStreak,       \* bound: streaks are counted up to it
    MaxAge           \* bound: ages are counted up to it

VARIABLES
    due,             \* _next_due_at: ticks left
    fails, empties,  \* _failure_streak, _empty_streak
    cycle,           \* the sources the running cycle fetches, {} when none runs
    taken,           \* the ticks it has taken
    stored,          \* the outcomes of its sources stored so far, "none" for the others
    aborted,         \* the last cycle raised in this tick; the loop sleeps until the next
    lease,           \* ticks left of the manual refresh's lease
    success,         \* source_health.last_success_at of Watched: ticks ago
    failures,        \* source_health.consecutive_failures of it, up to 4
    tried,           \* history: ticks since the scheduler last began to fetch Watched
    answering        \* history: its outcomes since one of a cycle are good, and the cycles end

vars == <<due, fails, empties, cycle, taken, stored, aborted, lease, success, failures, tried,
          answering>>
memory == <<due, fails, empties>>
loop == <<cycle, taken, stored, aborted>>
health == <<success, failures>>

Outcomes == {"ok", "empty", "error"}     \* "ok" stands for "not_modified" too
Least(a, b) == IF a < b THEN a ELSE b

-----------------------------------------------------------------------------
(* source_health (persist_outcome, record_failure) *)

\* "o" is the outcome of a fetch of s that has just completed
Record(s, o) ==
    IF s # Watched THEN UNCHANGED health
    ELSE /\ success' = IF o = "ok" THEN 0 ELSE success
         /\ failures' = IF o = "error" THEN Least(failures + 1, 4) ELSE 0

-----------------------------------------------------------------------------
(* The scheduler *)

\* Mutation of Multiplier: the backoff has no upper bound.
UnboundedMultiplier(f, e) ==
    IF f > 0 THEN 2 ^ f
    ELSE IF e >= EmptyThreshold THEN 2 ^ (e - EmptyThreshold + 1) ELSE 1

\* backoff_delay_seconds: failures first, then the probing of an empty source
Multiplier(f, e) ==
    IF f > 0 THEN Least(2 ^ f, MaxMultiplier)
    ELSE IF e >= EmptyThreshold THEN Least(2 ^ (e - EmptyThreshold + 1), MaxMultiplier)
    ELSE 1

Due == {s \in Sources : due[s] = 0}

Nothing == [s \in Sources |-> "none"]

BeginCycle ==
    /\ cycle = {} /\ ~aborted /\ Due # {}
    /\ cycle' = Due /\ taken' = 0
    /\ tried' = IF Watched \in Due THEN 0 ELSE tried
    /\ UNCHANGED <<memory, stored, aborted, lease, health, answering>>

\* a fetch completes, and its outcome is stored while others still run
StoreOutcome(s, o) ==
    /\ s \in cycle /\ stored[s] = "none"
    /\ stored' = [stored EXCEPT ![s] = o]
    /\ Record(s, o)
    /\ answering' = IF s = Watched THEN o = "ok" ELSE answering
    /\ UNCHANGED <<memory, cycle, taken, aborted, lease, tried>>

FailStreak(s, o) == IF o = "error" THEN Least(fails[s] + 1, MaxStreak) ELSE 0
EmptyStreak(s, o) == IF o = "empty" THEN Least(empties[s] + 1, MaxStreak) ELSE 0

\* every outcome is stored: the streaks and the due table follow, counted from now
EndCycle ==
    /\ cycle # {} /\ \A s \in cycle : stored[s] # "none"
    /\ fails' = [s \in Sources |-> IF s \in cycle THEN FailStreak(s, stored[s]) ELSE fails[s]]
    /\ empties' = [s \in Sources |-> IF s \in cycle THEN EmptyStreak(s, stored[s]) ELSE empties[s]]
    /\ due' = [s \in Sources |-> IF s \in cycle THEN Cadence[s] * Multiplier(fails'[s], empties'[s])
                                 ELSE due[s]]
    /\ cycle' = {} /\ taken' = 0 /\ stored' = Nothing
    /\ UNCHANGED <<aborted, lease, health, tried, answering>>

\* an exception in refresh_all, after some of the outcomes were stored: the
\* due table stays, and all of the due sources are fetched again
Abort ==
    /\ \E s \in cycle : stored[s] = "none"
    /\ answering' = (answering /\ Watched \notin cycle)
    /\ cycle' = {} /\ taken' = 0 /\ stored' = Nothing /\ aborted' = TRUE
    /\ UNCHANGED <<memory, lease, health, tried>>

-----------------------------------------------------------------------------
(* POST /news/refresh *)

\* try_acquire_news_refresh_lease
LeaseFree == lease = 0

\* refresh_all of every source, served at once or as a background task: its
\* outcomes reach source_health only, that of Watched too
Manual ==
    /\ LeaseFree
    /\ lease' = Cooldown
    /\ \E o \in Outcomes :
         /\ Record(Watched, o)
         /\ answering' = (answering /\ o = "ok")
    /\ UNCHANGED <<memory, loop, tried>>

-----------------------------------------------------------------------------
(* The runtime view *)

\* _source_status; a source that never succeeded, "offline" there, is one that
\* has not for as long as ages are counted
Status ==
    IF failures >= 4 THEN "offline"
    ELSE IF failures >= 2 THEN "degraded"
    ELSE IF success > 2 * Cadence[Watched] THEN "delayed"
    ELSE "ok"

-----------------------------------------------------------------------------
\* the loop looks at the due table once a tick unless a cycle is running
Tick ==
    /\ Due = {} \/ cycle # {} \/ aborted
    /\ taken < Duration
    /\ taken' = IF cycle = {} THEN 0 ELSE taken + 1
    /\ aborted' = FALSE
    /\ due' = [s \in Sources |-> IF due[s] = 0 THEN 0 ELSE due[s] - 1]
    /\ lease' = IF lease = 0 THEN 0 ELSE lease - 1
    /\ success' = Least(success + 1, MaxAge)
    /\ tried' = tried + 1
    /\ UNCHANGED <<fails, empties, cycle, stored, failures, answering>>

\* apply_startup_jitter: a new process knows nothing but source_health
Start ==
    /\ due' \in [Sources -> 0..Jitter]
    /\ fails' = [s \in Sources |-> 0] /\ empties' = [s \in Sources |-> 0]
    /\ cycle' = {} /\ taken' = 0 /\ stored' = Nothing /\ aborted' = FALSE
    /\ lease' = 0
    /\ tried' = 0 /\ answering' = FALSE
    /\ UNCHANGED health

Init ==
    /\ due \in [Sources -> 0..Jitter]
    /\ fails = [s \in Sources |-> 0] /\ empties = [s \in Sources |-> 0]
    /\ cycle = {} /\ taken = 0 /\ stored = Nothing /\ aborted = FALSE
    /\ lease = 0
    /\ success = MaxAge /\ failures = 0
    /\ tried = 0 /\ answering = FALSE

Next ==
    \/ BeginCycle \/ EndCycle \/ Abort \/ Manual \/ Tick \/ Start
    \/ \E s \in Sources, o \in Outcomes : StoreOutcome(s, o)

Spec == Init /\ [][Next]_vars

-----------------------------------------------------------------------------
TypeOK ==
    /\ \A s \in Sources : /\ due[s] \in 0..Cadence[s] * MaxMultiplier
                         /\ fails[s] \in 0..MaxStreak /\ empties[s] \in 0..MaxStreak
                         /\ stored[s] \in Outcomes \cup {"none"}
    /\ cycle \subseteq Sources /\ taken \in 0..Duration /\ lease \in 0..Cooldown
    /\ success \in 0..MaxAge /\ failures \in 0..4

\* No source is forgotten: the scheduler fetches it again within its longest
\* backoff, whatever failed, raised or ran long in between.
FetchedInTime == tried <= Cadence[Watched] * MaxMultiplier + 2 * Duration

\* A source that answers is shown as "ok" until it fails, though its row is as old as
\* the answer, its next fetch is counted from the end of the cycle and waits for another:
\* due table, streaks, backoff and the threshold of the runtime view fit together.
AnsweringIsOk == answering => Status = "ok"

\* No source is forgotten, and none that answers is shown as failing.
SourcesAreServed == FetchedInTime /\ AnsweringIsOk
=============================================================================
