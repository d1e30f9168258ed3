------------------------------- MODULE NewsAlerts -------------------------------
(***************************************************************************)
(* How a news item that names a stock of the user becomes an alert:        *)
(* AlertService with its callers, the queue worker (keyword rules, the     *)
(* deferrals of AI mode and their sweep), the AI funnel worker (screening, *)
(* deep reading, alerts on its verdicts) and the quote producer (which     *)
(* only pushes the digest windows on).                                     *)
(*                                                                         *)
(* Every item here has a hit on one stock. While the user holds it, a hit  *)
(* alerts at once; while it is only watched, the hit is buffered in memory *)
(* and merged into one digest per window. A digest alert is represented by *)
(* the hits it contains; its dedupe key is its window.                     *)
(***************************************************************************)
EXTENDS Integers, FiniteSets

CONSTANTS
  News,            \* items with a hit on the stock
  DigestMinutes,   \* length of a digest window
  Timeout,         \* DEFERRAL_TIMEOUT
  DailyLimit,      \* ai_stock_alert_daily_limit
  MaxAttempts,     \* tries of L1 and of L2
  LastArrival,     \* bound: latest time an item is scored
  MaxClock,        \* bound: end of time, within one day
  MaxFaults,       \* bound: failed database writes and restarts
  HeldAtStart,     \* whether the user holds the stock at first
  MaxTrades        \* bound: changes of the position

ASSUME AlertsAssumption ==
  /\ IsFiniteSet(News) /\ MaxTrades \in Nat /\ HeldAtStart \in BOOLEAN
  /\ DigestMinutes \in Nat \ {0} /\ Timeout \in Nat /\ DailyLimit \in Nat
  /\ MaxAttempts \in Nat \ {0} /\ LastArrival \in Nat /\ MaxClock \in Nat /\ MaxFaults \in Nat

VARIABLES
  clock, faults,
  held, trades,   \* the user has a position in the stock
  scored,      \* items the queue worker has passed to on_news_batch
  screen, screenTries,       \* news_ai_screen: status with verdict, attempts
  analysis, analysisTries,   \* news_ai_analysis
  deferredAt,  \* ai_alert_deferral: deferred_at of each row; NoRow
  immediate,   \* alert rows of kind holding_news
  byAi,        \* history: those created by on_news_impacts
  digests,     \* hits in digest alerts
  windows,     \* _digest_windows: hits waiting in memory
  pc, job,     \* each thread: idle, flushing, then doing its job
  taken,       \* hits in the windows a thread has popped for flushing
  calls,       \* the funnel's verdicts not passed to on_news_impacts yet
  buffered,    \* history: hits ever buffered, less those a restart wiped out
  expired      \* history: deferrals deleted for timing out

dbVars  == <<screen, screenTries, analysis, analysisTries, deferredAt, immediate, byAi, digests>>
memVars == <<windows, pc, job, taken, calls, buffered>>
position == <<held, trades>>
vars    == <<clock, faults, position, scored, dbVars, memVars, expired>>

Threads == {"queue", "funnel", "quote"}
NoRow   == -1
Hit     == [news : News, win : 0..MaxClock \div DigestMinutes]
Job     == [kind : {"none", "flush", "keyword", "defer", "impact"}, ids : SUBSET News]
NoJob   == [kind |-> "none", ids |-> {}]

TypeOK ==
  /\ clock \in 0..MaxClock /\ faults \in 0..MaxFaults
  /\ held \in BOOLEAN /\ trades \in 0..MaxTrades
  /\ scored \subseteq News
  /\ screen \in [News -> {"none", "error", "low", "deep"}]
  /\ analysis \in [News -> {"none", "error", "ok"}]
  /\ screenTries \in [News -> 0..MaxAttempts] /\ analysisTries \in [News -> 0..MaxAttempts]
  /\ deferredAt \in [News -> {NoRow} \cup 0..MaxClock]
  /\ byAi \subseteq immediate /\ immediate \subseteq News
  /\ digests \subseteq Hit /\ windows \subseteq Hit /\ buffered \subseteq Hit
  /\ pc \in [Threads -> {"idle", "flush", "run"}]
  /\ job \in [Threads -> Job]
  /\ taken \in [Threads -> SUBSET Hit]
  /\ calls \subseteq News /\ expired \subseteq News

Init ==
  /\ clock = 0 /\ faults = 0 /\ held = HeldAtStart /\ trades = 0 /\ scored = {}
  /\ screen = [n \in News |-> "none"] /\ screenTries = [n \in News |-> 0]
  /\ analysis = [n \in News |-> "none"] /\ analysisTries = [n \in News |-> 0]
  /\ deferredAt = [n \in News |-> NoRow]
  /\ immediate = {} /\ byAi = {} /\ digests = {}
  /\ windows = {} /\ pc = [t \in Threads |-> "idle"] /\ job = [t \in Threads |-> NoJob]
  /\ taken = [t \in Threads |-> {}] /\ calls = {}
  /\ buffered = {} /\ expired = {}

(***************************************************************************)
(* Digest windows                                                          *)
(***************************************************************************)
Ended(w) == (w + 1) * DigestMinutes <= clock

Hits(ids) == [news : ids, win : {clock \div DigestMinutes}]

\* Mutation of Buffered: the clock is read before the lock, a window ago.
BufferedStale(ids) ==
  LET w == IF clock < DigestMinutes THEN 0 ELSE (clock \div DigestMinutes) - 1 IN
  /\ windows' = windows \cup [news : ids, win : {w}]
  /\ buffered' = buffered \cup [news : ids, win : {w}]

\* _buffer_hit for each of ids: into the window of the clock read under the lock.
Buffered(ids) ==
  /\ windows' = windows \cup Hits(ids)
  /\ buffered' = buffered \cup Hits(ids)

\* Every entry point begins with flush_watch_digest, which pops the ended windows.
Enter(t, j) ==
  /\ pc' = [pc EXCEPT ![t] = "flush"]
  /\ job' = [job EXCEPT ![t] = j]
  /\ LET due == {h \in windows : Ended(h.win)} IN
       /\ taken' = [taken EXCEPT ![t] = due]
       /\ windows' = windows \ due

Leave(t) ==
  /\ pc' = [pc EXCEPT ![t] = "idle"]
  /\ job' = [job EXCEPT ![t] = NoJob]

Fault == faults < MaxFaults /\ faults' = faults + 1

\* The digest of a window is created once; create_if_absent drops a second one.
FlushCommit(t) ==
  /\ pc[t] = "flush"
  /\ digests' = digests \cup {h \in taken[t] : \A d \in digests : d.win # h.win}
  /\ taken' = [taken EXCEPT ![t] = {}]
  /\ IF job[t].kind = "flush"
       THEN Leave(t)
       ELSE pc' = [pc EXCEPT ![t] = "run"] /\ UNCHANGED job
  /\ UNCHANGED <<position, clock, faults, scored, screen, screenTries, analysis, analysisTries,
                 deferredAt, immediate, byAi, windows, calls, buffered, expired>>

\* The transaction fails: _restore_windows, and the caller goes on.
FlushFail(t) ==
  /\ pc[t] = "flush" /\ taken[t] # {} /\ Fault
  /\ windows' = windows \cup taken[t]
  /\ taken' = [taken EXCEPT ![t] = {}]
  /\ IF job[t].kind = "flush"
       THEN Leave(t)
       ELSE pc' = [pc EXCEPT ![t] = "run"] /\ UNCHANGED job
  /\ UNCHANGED <<position, clock, scored, dbVars, calls, buffered, expired>>

\* A cycle of the queue worker, or a quote refresh, pushes the windows on.
FlushDue(t) ==
  /\ t \in {"queue", "quote"} /\ pc[t] = "idle"
  /\ \E h \in windows : Ended(h.win)
  /\ Enter(t, [kind |-> "flush", ids |-> {}])
  /\ UNCHANGED <<position, clock, faults, scored, dbVars, calls, buffered, expired>>

(***************************************************************************)
(* The queue worker: on_news_batch, deferrals, keyword rules               *)
(***************************************************************************)
\* on_news_batch; the AI mode it sees is cached and may be out of date.
NewsBatch ==
  /\ pc["queue"] = "idle" /\ clock <= LastArrival
  /\ \E ids \in (SUBSET (News \ scored)) \ {{}}, ai \in BOOLEAN :
       /\ scored' = scored \cup ids
       /\ Enter("queue", [kind |-> IF ai THEN "defer" ELSE "keyword", ids |-> ids])
  /\ UNCHANGED <<position, clock, faults, dbVars, calls, buffered, expired>>

Running(t, kind) == pc[t] = "run" /\ job[t].kind = kind

Defer ==
  /\ Running("queue", "defer")
  /\ deferredAt' = [n \in News |->
       IF n \in job["queue"].ids /\ deferredAt[n] = NoRow THEN clock ELSE deferredAt[n]]
  /\ Leave("queue")
  /\ UNCHANGED <<position, clock, faults, scored, screen, screenTries, analysis, analysisTries,
                 immediate, byAi, digests, windows, taken, calls, buffered, expired>>

\* The deferrals cannot be written: keyword rules at once.
DeferFail ==
  /\ Running("queue", "defer") /\ Fault
  /\ Enter("queue", [kind |-> "keyword", ids |-> job["queue"].ids])
  /\ UNCHANGED <<position, clock, scored, dbVars, calls, buffered, expired>>

\* on_news_keyword_fallback.
Keyword ==
  /\ Running("queue", "keyword")
  /\ IF held
       THEN immediate' = immediate \cup job["queue"].ids /\ UNCHANGED <<windows, buffered>>
       ELSE Buffered(job["queue"].ids) /\ UNCHANGED immediate
  /\ Leave("queue")
  /\ UNCHANGED <<position, clock, faults, scored, screen, screenTries, analysis, analysisTries,
                 deferredAt, byAi, digests, taken, calls, expired>>

\* Its transaction fails: no alert row, some hits may be in the window already.
KeywordFail ==
  /\ Running("queue", "keyword") /\ Fault
  /\ \E ids \in IF held THEN {{}} ELSE SUBSET job["queue"].ids : Buffered(ids)
  /\ Leave("queue")
  /\ UNCHANGED <<position, clock, scored, dbVars, taken, calls, expired>>

\* Mutation of Handled: an item that passed the screening counts as concluded.
HandledScreened(n) == analysis[n] = "ok" \/ screen[n] \in {"low", "deep"}

\* The AI has concluded: read, or found not worth reading.
Handled(n) == analysis[n] = "ok" \/ screen[n] = "low"

\* sweep_deferred: delete what is concluded or too old and commit; then alert by
\* keyword for the old ones.
Sweep ==
  /\ pc["queue"] = "idle"
  /\ LET rows == {n \in News : deferredAt[n] # NoRow}
         late == {n \in rows : ~Handled(n) /\ clock - deferredAt[n] >= Timeout}
         done == late \cup {n \in rows : Handled(n)}
     IN /\ done # {}
        /\ deferredAt' = [n \in News |-> IF n \in done THEN NoRow ELSE deferredAt[n]]
        /\ expired' = expired \cup late
        /\ IF late # {}
             THEN Enter("queue", [kind |-> "keyword", ids |-> late])
             ELSE UNCHANGED <<pc, job, taken, windows>>
  /\ UNCHANGED <<position, clock, faults, scored, screen, screenTries, analysis, analysisTries,
                 immediate, byAi, digests, calls, buffered>>

(***************************************************************************)
(* The AI funnel worker                                                    *)
(***************************************************************************)
FunnelFree == pc["funnel"] = "idle" /\ calls = {}

\* Failed, with tries left.
Retryable(status, tries, n) == status[n] = "error" /\ tries[n] < MaxAttempts

\* screen_once: error, or a verdict.
Screen(n) ==
  /\ FunnelFree
  /\ screen[n] = "none" \/ Retryable(screen, screenTries, n)
  /\ \E v \in {"error", "low", "deep"} : screen' = [screen EXCEPT ![n] = v]
  /\ screenTries' = [screenTries EXCEPT ![n] = @ + 1]
  /\ UNCHANGED <<position, clock, faults, scored, analysis, analysisTries, deferredAt, immediate,
                 byAi, digests, memVars, expired>>

\* analyze_pending with its commit: error, or a result that calls for an alert or not.
Analyze(n) ==
  /\ FunnelFree /\ screen[n] = "deep"
  /\ analysis[n] = "none" \/ Retryable(analysis, analysisTries, n)
  /\ analysisTries' = [analysisTries EXCEPT ![n] = @ + 1]
  /\ \/ analysis' = [analysis EXCEPT ![n] = "error"] /\ UNCHANGED calls
     \/ analysis' = [analysis EXCEPT ![n] = "ok"] /\ calls' \in {calls, {n}}
  /\ UNCHANGED <<position, clock, faults, scored, screen, screenTries, deferredAt, immediate,
                 byAi, digests, windows, pc, job, taken, buffered, expired>>

\* do_cycle calls on_news_impacts for each verdict.
NewsImpacts(n) ==
  /\ pc["funnel"] = "idle" /\ n \in calls
  /\ calls' = calls \ {n}
  /\ Enter("funnel", [kind |-> "impact", ids |-> {n}])
  /\ UNCHANGED <<position, clock, faults, scored, dbVars, buffered, expired>>

\* _count_today counts the alerts of the stock, whoever created them.
UnderLimit == Cardinality(immediate) < DailyLimit

\* on_news_impacts: a holding alerts at once up to the daily limit, the rest is merged.
Impact ==
  /\ Running("funnel", "impact")
  /\ LET n == CHOOSE i \in News : job["funnel"].ids = {i} IN
       IF held /\ UnderLimit
         THEN /\ immediate' = immediate \cup {n}
              /\ byAi' = IF n \in immediate THEN byAi ELSE byAi \cup {n}
              /\ UNCHANGED <<windows, buffered>>
         ELSE Buffered({n}) /\ UNCHANGED <<immediate, byAi>>
  /\ Leave("funnel")
  /\ UNCHANGED <<position, clock, faults, scored, screen, screenTries, analysis, analysisTries,
                 deferredAt, digests, taken, calls, expired>>

\* Its transaction fails, after or before a hit was buffered; do_cycle logs it and
\* goes on with the next verdict.
ImpactFail ==
  /\ Running("funnel", "impact") /\ Fault
  /\ \E ids \in SUBSET job["funnel"].ids : Buffered(ids)
  /\ Leave("funnel")
  /\ UNCHANGED <<position, clock, scored, dbVars, taken, calls, expired>>

(***************************************************************************)
(* Restart and time                                                        *)
(***************************************************************************)
Restart ==
  /\ Fault
  /\ windows' = {} /\ taken' = [t \in Threads |-> {}] /\ calls' = {}
  /\ pc' = [t \in Threads |-> "idle"] /\ job' = [t \in Threads |-> NoJob]
  /\ buffered' = digests
  /\ UNCHANGED <<position, clock, scored, dbVars, expired>>

\* The user opens or closes the position; every rule reads it anew.
Trade ==
  /\ trades < MaxTrades
  /\ trades' = trades + 1 /\ held' = ~held
  /\ UNCHANGED <<clock, faults, scored, dbVars, memVars, expired>>

Tick ==
  /\ clock < MaxClock
  /\ clock' = clock + 1
  /\ UNCHANGED <<position, faults, scored, dbVars, memVars, expired>>

Flusher(t) == FlushCommit(t) \/ FlushFail(t) \/ FlushDue(t)

Queue == Flusher("queue") \/ Defer \/ DeferFail \/ Keyword \/ KeywordFail \/ Sweep

Funnel ==
  \/ FlushCommit("funnel") \/ FlushFail("funnel")
  \/ Impact \/ ImpactFail
  \/ \E n \in News : Screen(n) \/ Analyze(n) \/ NewsImpacts(n)

Next == NewsBatch \/ Queue \/ Funnel \/ Flusher("quote") \/ Restart \/ Trade \/ Tick

\* The queue worker cycles and time passes. Nothing is assumed of the funnel (the
\* model may be unconfigured, over budget, out of quota or failing) except that a
\* thread inside AlertService gets out again.
Fairness ==
  /\ WF_vars(Queue) /\ WF_vars(Tick)
  /\ WF_vars(FlushCommit("funnel")) /\ WF_vars(Impact) /\ WF_vars(FlushCommit("quote"))

Spec == Init /\ [][Next]_vars /\ Fairness

-----------------------------------------------------------------------------
(***************************************************************************)
(* Properties                                                              *)
(***************************************************************************)
\* A buffered hit is in a window, in a flush under way or in a digest alert until
\* the process restarts: no flush, failed flush or late hit loses it.
HitsKept ==
  buffered \subseteq windows \cup digests \cup UNION {taken[t] : t \in Threads}

\* Two threads never flush the same window at once, and no digested window is
\* flushed again: create_if_absent would drop the second digest.
WindowFlushedOnce ==
  \A s, t \in Threads : \A h \in taken[t] :
    /\ \A d \in digests : d.win # h.win
    /\ s # t => \A g \in taken[s] : g.win # h.win

\* The funnel creates at most DailyLimit immediate alerts for the stock, whatever
\* the keyword rules add in between.
AiAlertsLimited == Cardinality(byAi) <= DailyLimit

Alerted(n) == n \in immediate \/ \E h \in digests \cup windows : h.news = n

Concluded(n) == analysis[n] = "ok" \/ screen[n] = "low"

\* Without database failures and restarts no keyword hit falls between the two
\* modes: it is alerted, or the AI concludes on it, however stale the AI mode seen
\* (or it is deferred too late for its timeout to come before the end of time).
EveryHitIsSettled ==
  \A n \in News :
    n \in scored ~> \/ Alerted(n) \/ Concluded(n)
                    \/ deferredAt[n] + Timeout > MaxClock
                    \/ faults > 0

\* A hit in a window that ends in time gets into a digest, or a restart wipes it out.
HitsReachDigest ==
  \A h \in Hit :
    (h \in buffered /\ (h.win + 1) * DigestMinutes <= MaxClock)
      ~> (h \in digests \/ h \notin buffered)

\* Hits survive flushes, each window is written once, and the funnel keeps to
\* its limit, in whatever order the three threads get at the windows.
WindowsAreSafe == TypeOK /\ HitsKept /\ WindowFlushedOnce /\ AiAlertsLimited

\* Every hit comes to something: an alert, a conclusion, a digest.
HitsComeToAnEnd == EveryHitIsSettled /\ HitsReachDigest

\* "what is past DEFERRAL_TIMEOUT without a conclusion is alerted by keyword"
\* (sweep_deferred): a hit on a holding taken out of the table is alerted or in hand.
ExpiredIsAlerted ==
  held /\ trades = 0 => expired \subseteq immediate \cup job["queue"].ids
=============================================================================
