-------------------------------- MODULE Takeaways --------------------------------
(***************************************************************************)
(* One-line conclusions of news (services/news_takeaway.py,                *)
(* workers/takeaway_worker.py).  The feed layout puts what it shows        *)
(* without one into a queue; the worker asks the LLM for some of it in     *)
(* each cycle, all in parallel, and stores the answers afterwards.  What   *)
(* fails stays NULL and is asked again.  A daily quota, counted in the     *)
(* process, limits it.                                                     *)
(***************************************************************************)
EXTENDS Naturals, FiniteSets, FiniteSetsExt

CONSTANTS
    News,          \* ids, numbers
    BatchLimit, DailyLimit,
    Enabled,       \* ai_enabled
    Scans,         \* takeaway_fallback_scan_interval_seconds > 0
    None,
    MaxDay, MaxRestarts, MaxCalls

VARIABLES
    takeaway,      \* takeaway[n]: None (NULL), "text", "" or "rules"
    labelled,      \* news whose signal_status is set
    queue,         \* news in takeaway_queue
    configured,    \* an LLM is configured
    cycle,         \* the running cycle
    generated,     \* the day and the number counted: _generated_on, _generated_count
    day,
    published,     \* news.updated of takeaways
    restarts,
    calls          \* history: of each day, LLM calls, answers stored, and if it saw a restart

vars == <<takeaway, labelled, queue, configured, cycle, generated, day, published, restarts, calls>>

Idle == [pc |-> "idle"]
NoCalls == [made |-> 0, answered |-> 0, restarted |-> FALSE]

Init ==
    /\ takeaway = [n \in News |-> None] /\ labelled = {}
    /\ queue = {} /\ configured \in BOOLEAN
    /\ cycle = Idle
    /\ generated = [on |-> None, count |-> 0]
    /\ day = 0 /\ published = {} /\ restarts = 0
    /\ calls = [d \in 0..MaxDay |-> NoCalls]

-----------------------------------------------------------------------------
Label ==
    /\ \E n \in News \ labelled : labelled' = labelled \union {n}
    /\ UNCHANGED <<takeaway, queue, configured, cycle, generated, day, published, restarts, calls>>

\* _enqueue_takeaway_candidates: of what a request shows.
BuildLayout ==
    /\ Enabled
    /\ \E shown \in SUBSET News :
         queue' = queue \union {n \in shown : takeaway[n] = None}
    /\ UNCHANGED <<takeaway, labelled, configured, cycle, generated, day, published, restarts, calls>>

Configure ==
    /\ configured' = ~configured
    /\ UNCHANGED <<takeaway, labelled, queue, cycle, generated, day, published, restarts, calls>>

-----------------------------------------------------------------------------
\* _fallback_scan, if it is due: the latest BatchLimit news that wait.
Scanned ==
    LET waiting == {n \in labelled : takeaway[n] = None}
    IN  {n \in waiting : Cardinality({m \in waiting : m > n}) < BatchLimit}

Counted == IF generated.on = day THEN generated.count ELSE 0
Quota == IF Counted >= DailyLimit THEN 0 ELSE DailyLimit - Counted

\* Mutation of Wanted: those that have a takeaway are asked again.
WantedAgain(ids) == ids

\* generate_for_ids: what still has none when the batch is read.
Wanted(ids) == {n \in ids : takeaway[n] = None}

Few(k, l) == IF k < l THEN k ELSE l
FirstOf(ids, k) == {n \in ids : Cardinality({m \in ids : m < n}) < k}

\* build_structured_takeaway always finds a subject, an event and what it affects.
Structured == "rules"

\* Whatever does not fit into the batch is dropped with the queue.
StartCycle ==
    /\ Enabled /\ cycle.pc = "idle"
    /\ \E ids \in IF queue # {} THEN {queue} ELSE {{}} \union (IF Scans THEN {Scanned} ELSE {}) :
         LET items == FirstOf(Wanted(ids), Few(BatchLimit, Quota))
         IN  /\ ids # {}
             /\ cycle' = IF Quota = 0 \/ items = {} THEN Idle
                         ELSE IF configured
                         THEN [pc |-> "ask", on |-> day, left |-> items, got |-> [n \in items |-> None]]
                         ELSE [pc |-> "store", on |-> day, left |-> {}, got |-> [n \in items |-> Structured]]
    /\ queue' = {}
    /\ generated' = [on |-> day, count |-> Counted]
    /\ UNCHANGED <<takeaway, labelled, configured, day, published, restarts, calls>>

\* Calls end in any order, with a text, with nothing to say, or fail.
Ask ==
    /\ cycle.pc = "ask"
    /\ calls[day].made < MaxCalls
    /\ \E n \in cycle.left, answer \in {"text", "", None} :
         cycle' = [cycle EXCEPT !.left = @ \ {n}, !.got[n] = answer,
                                !.pc = IF cycle.left = {n} THEN "store" ELSE @]
    /\ calls' = [calls EXCEPT ![day].made = @ + 1]
    /\ UNCHANGED <<takeaway, labelled, queue, configured, generated, day, published, restarts>>

Answered == {n \in DOMAIN cycle.got : cycle.got[n] # None}

\* One commit, then the count.
Store ==
    /\ cycle.pc = "store"
    /\ takeaway' = [n \in News |-> IF n \in Answered THEN cycle.got[n] ELSE takeaway[n]]
    /\ generated' = [generated EXCEPT !.count = @ + Cardinality(Answered)]
    /\ calls' = [calls EXCEPT ![cycle.on].answered = @ + Cardinality(Answered)]
    /\ cycle' = [pc |-> "publish", news |-> Answered]
    /\ UNCHANGED <<labelled, queue, configured, day, published, restarts>>

\* The commit fails: the worker goes on with its next cycle.
StoreFails ==
    /\ cycle.pc = "store"
    /\ cycle' = Idle
    /\ UNCHANGED <<takeaway, labelled, queue, configured, generated, day, published, restarts, calls>>

Publish ==
    /\ cycle.pc = "publish"
    /\ published' = published \union cycle.news
    /\ cycle' = Idle
    /\ UNCHANGED <<takeaway, labelled, queue, configured, generated, day, restarts, calls>>

Midnight ==
    /\ day < MaxDay
    /\ day' = day + 1
    /\ UNCHANGED <<takeaway, labelled, queue, configured, cycle, generated, published, restarts, calls>>

\* The queue and the count are lost.
Restart ==
    /\ restarts < MaxRestarts
    /\ restarts' = restarts + 1
    /\ queue' = {} /\ cycle' = Idle
    /\ generated' = [on |-> None, count |-> 0]
    /\ calls' = [calls EXCEPT ![day].restarted = TRUE]
    /\ UNCHANGED <<takeaway, labelled, configured, day, published>>

Next ==
    \/ Label \/ BuildLayout \/ Configure
    \/ StartCycle \/ Ask \/ Store \/ StoreFails \/ Publish
    \/ Midnight \/ Restart

Spec == Init /\ [][Next]_vars

-----------------------------------------------------------------------------
TypeOK ==
    /\ queue \subseteq News /\ labelled \subseteq News
    /\ \A n \in published : takeaway[n] # None
    /\ cycle.pc = "ask" => cycle.left # {}

\* A conclusion is generated once and stays; the answers of cycles begun on a day are
\* within its quota unless the process was restarted.
SoundStep ==
    /\ TypeOK'
    /\ \A n \in News : takeaway[n] # None => takeaway'[n] = takeaway[n]
    /\ \A d \in 0..MaxDay : ~calls'[d].restarted => calls'[d].answered <= DailyLimit

TakeawaysAreSound == [][SoundStep]_vars
=============================================================================
