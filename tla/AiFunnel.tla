-------------------------------- MODULE AiFunnel --------------------------------
(***************************************************************************)
(* The AI funnel worker and what it shares with the rest of the process:   *)
(*   - a cycle passes the spend gate, infers the sectors of a stock (one   *)
(*     call), screens batches of news (L1, one call each), reads chosen    *)
(*     items one by one (L2, a call each) in one transaction, and after    *)
(*     the commit alerts on the verdicts;                                  *)
(*   - every answered call adds a row to TokenUsageBuffer, whose lock is   *)
(*     held while a full batch is written, by the calling thread or by the *)
(*     periodic flusher of the event loop;                                 *)
(*   - the user corrects the impacts of an item;                           *)
(*   - SQLite lets one transaction write.  The funnel's session does not   *)
(*     autoflush: the first reading takes the write lock with the flush of *)
(*     its outcome and keeps it, through the calls for the other items,    *)
(*     until the commit.  All other writes are short and atomic here;      *)
(*     while the lock is held they wait, at most busy_timeout.             *)
(* The funnel is enabled, all is within one month and the lookback, and a  *)
(* call costs 1.                                                           *)
(***************************************************************************)
EXTENDS Integers, FiniteSets

CONSTANTS
  News,          \* items
  BatchSize,     \* ai_screen_batch_size
  ScreenBatches, \* SCREEN_BATCHES_PER_CYCLE
  PerCycle,      \* ai_impact_per_cycle
  DailyLimit,    \* ai_impact_daily_limit
  MaxAttempts,   \* ai_max_attempts
  Budget,        \* monthly_budget_usd, in calls
  FlushAt,       \* token_usage_flush_n
  MaxCorrected,  \* bound: items the user corrects
  MaxFaults      \* bound: failed cycles and restarts

ASSUME FunnelAssumption ==
  /\ IsFiniteSet(News)
  /\ {BatchSize, ScreenBatches, PerCycle, MaxAttempts, FlushAt} \subseteq Nat \ {0}
  /\ {DailyLimit, Budget, MaxCorrected, MaxFaults} \subseteq Nat

VARIABLES
  screen,     \* news_ai_screen: attempts left, 0 when there is a verdict
  deep,       \* its verdict is to read the item in depth
  analysis,   \* news_ai_analysis: read, or the failed attempts; analyzed today
  impacts,    \* news_impact: the sources of the item's rows
  corrected,  \* impact_correction: items the user has corrected
  saved,      \* llm_token_usage: cost of the month, at most Budget
  buffer,     \* rows in TokenUsageBuffer._buf
  taken,      \* rows taken out of it by the flush under way
  flushing,   \* thread that holds TokenUsageBuffer._lock, or "nobody"
  phase, step,\* the funnel: part of the cycle, progress of its call
  reply,      \* what the call was good for
  rounds,     \* batches screened in this cycle
  todo,       \* items of the batch being screened, or still to be read
  draft,      \* uncommitted analysis rows of this cycle
  alerts,     \* verdicts not yet passed to on_news_impacts
  spent,      \* history: cost of the calls that left the buffer, at most Budget
  faults

rows   == <<screen, deep, analysis, impacts, corrected>>
usage  == <<saved, buffer, taken, flushing>>
funnel == <<phase, step, reply, rounds, todo, draft, alerts>>
vars   == <<rows, usage, funnel, spent, faults>>

NoDraft == [n \in News |-> [status |-> "none", today |-> FALSE]]

Init ==
  /\ screen = [n \in News |-> MaxAttempts] /\ deep = {}
  /\ analysis = [n \in News |-> [read |-> FALSE, failed |-> 0, today |-> FALSE]]
  /\ impacts = [n \in News |-> {}] /\ corrected = {}
  /\ saved = 0 /\ buffer = 0 /\ taken = 0 /\ flushing = "nobody"
  /\ phase = "idle" /\ step = "pick" /\ reply = "bad" /\ rounds = 0
  /\ todo = {} /\ draft = NoDraft /\ alerts = {}
  /\ spent = 0 /\ faults = 0

Fault == faults < MaxFaults /\ faults' = faults + 1
Smaller(a, b) == IF a < b THEN a ELSE b

\* The funnel's transaction has written, and so holds SQLite's write lock.
Locked == \E n \in News : draft[n].status \in {"error", "kept", "ok"}

\* Which of some items a query with a limit returns.
Limited(items, limit) ==
  {S \in SUBSET items : Cardinality(S) = Smaller(limit, Cardinality(items))}

-----------------------------------------------------------------------------
(***************************************************************************)
(* One call to the model                                                   *)
(***************************************************************************)

\* complete_json: no answer, a useless one, or a good one.  What is answered
\* is paid for.
Reply ==
  /\ step = "call"
  /\ \/ reply' = "bad" /\ step' = "over"
     \/ reply' \in {"bad", "good"} /\ step' = "log"
  /\ UNCHANGED <<rows, usage, spent, phase, rounds, todo, draft, alerts, faults>>

\* TokenUsageBuffer.add: a full or old buffer is taken and written.
Log ==
  /\ step = "log" /\ flushing = "nobody"
  /\ \/ /\ buffer' = 0 /\ taken' = buffer + 1 /\ flushing' = "funnel"
        /\ step' = "flush"
     \/ /\ buffer + 1 < FlushAt
        /\ buffer' = buffer + 1 /\ step' = "over"
        /\ UNCHANGED <<taken, flushing>>
  /\ UNCHANGED <<rows, saved, phase, reply, rounds, todo, draft, alerts,
                 spent, faults>>

\* Mutation of Flush: the wait for the write lock never times out.
FlushPatient ==
  /\ ~Locked
  /\ spent' = Smaller(Budget, spent + taken)
  /\ saved' = Smaller(Budget, saved + taken)
  /\ taken' = 0 /\ flushing' = "nobody"

\* _flush_locked by either thread.  When the wait for the write lock times out
\* the rows are dropped: its holder is in a call, or waits itself.
Flush ==
  /\ Locked => step \in {"call", "log", "flush"}
  /\ spent' = Smaller(Budget, spent + taken)
  /\ saved' = IF Locked THEN saved ELSE Smaller(Budget, saved + taken)
  /\ taken' = 0 /\ flushing' = "nobody"

FunnelFlush ==
  /\ step = "flush" /\ flushing = "funnel"
  /\ Flush
  /\ step' = "over"
  /\ UNCHANGED <<rows, buffer, phase, reply, rounds, todo, draft, alerts, faults>>

\* _flush_token_usage_periodically
FlusherTake ==
  /\ flushing = "nobody" /\ buffer > 0
  /\ flushing' = "flusher" /\ taken' = buffer /\ buffer' = 0
  /\ UNCHANGED <<rows, saved, funnel, spent, faults>>

FlusherFlush ==
  /\ flushing = "flusher"
  /\ Flush
  /\ UNCHANGED <<rows, buffer, funnel, faults>>

-----------------------------------------------------------------------------
(***************************************************************************)
(* The cycle                                                               *)
(***************************************************************************)

\* spend_blocked_reason: the usage that is stored is under the budget.  Then
\* infer_missing: a call when a stock has no sectors and has not failed too often.
Begin ==
  /\ phase = "idle" /\ saved < Budget
  /\ \/ phase' = "sector" /\ step' = "call"
     \/ phase' = "screen" /\ step' = "pick"
  /\ UNCHANGED <<rows, usage, reply, rounds, todo, draft, alerts, spent, faults>>

SectorOver ==
  /\ phase = "sector" /\ step = "over"
  /\ phase' = "screen" /\ step' = "pick" /\ reply' = "bad"
  /\ UNCHANGED <<rows, usage, rounds, todo, draft, alerts, spent, faults>>

\* NewsScreenService.pending_news
Unscreened == {n \in News : screen[n] > 0}

\* screen_once up to its call, in the loop of do_cycle
ScreenBatch ==
  /\ phase = "screen" /\ step = "pick"
  /\ \/ /\ rounds < ScreenBatches /\ Unscreened # {}
        /\ todo' \in Limited(Unscreened, BatchSize)
        /\ step' = "call" /\ rounds' = rounds + 1
        /\ UNCHANGED phase
     \/ /\ rounds = ScreenBatches \/ Unscreened = {}
        /\ phase' = "quota" /\ rounds' = 0
        /\ UNCHANGED <<todo, step>>
  /\ UNCHANGED <<rows, usage, reply, draft, alerts, spent, faults>>

\* The verdicts are stored and committed; a batch that is not full is the last.
ScreenStore ==
  /\ phase = "screen" /\ step = "over"
  /\ \E screened \in IF reply = "good" THEN SUBSET todo ELSE {{}} :
       /\ screen' = [n \in News |-> CASE n \in screened -> 0
                                      [] n \in todo \ screened -> screen[n] - 1
                                      [] OTHER -> screen[n]]
       /\ \E worth \in SUBSET screened : deep' = deep \cup worth
  /\ IF Cardinality(todo) < BatchSize THEN phase' = "quota" /\ rounds' = 0
                                      ELSE UNCHANGED <<phase, rounds>>
  /\ todo' = {} /\ step' = "pick" /\ reply' = "bad"
  /\ UNCHANGED <<analysis, impacts, corrected, usage, draft, alerts, spent, faults>>

\* NewsImpactService.pending_news
Wanted == {n \in deep : ~analysis[n].read /\ analysis[n].failed < MaxAttempts}

AnalyzedToday == {n \in News : analysis[n].today}

Remaining == DailyLimit - Cardinality(AnalyzedToday)

\* analyze_pending: the items to read in this cycle
Choose ==
  /\ phase = "quota"
  /\ todo' \in Limited(Wanted, Smaller(PerCycle, Remaining))
  /\ phase' = "read"
  /\ UNCHANGED <<rows, usage, step, reply, rounds, draft, alerts, spent, faults>>

\* _analyze up to its call: the row is changed in memory only.
Read(n) ==
  /\ phase = "read" /\ step = "pick" /\ n \in todo
  /\ todo' = todo \ {n} /\ step' = "call"
  /\ draft' = [draft EXCEPT ![n] = [status |-> "reading", today |-> TRUE]]
  /\ UNCHANGED <<rows, usage, phase, reply, rounds, alerts, spent, faults>>

\* A failed reading is flushed as an error ...
ReadFailed(n) ==
  /\ phase = "read" /\ step = "over" /\ draft[n].status = "reading" /\ reply = "bad"
  /\ draft' = [draft EXCEPT ![n].status = "error"]
  /\ step' = "pick"
  /\ UNCHANGED <<rows, usage, phase, reply, rounds, todo, alerts, spent, faults>>

\* ... a good one first asks whether the user has corrected the item ...
Check(n) ==
  /\ phase = "read" /\ step = "over" /\ draft[n].status = "reading" /\ reply = "good"
  /\ draft' = [draft EXCEPT ![n].status = IF n \in corrected THEN "kept" ELSE "checked"]
  /\ step' = IF n \in corrected THEN "pick" ELSE "over"
  /\ reply' = "bad"
  /\ UNCHANGED <<rows, usage, phase, rounds, todo, alerts, spent, faults>>

\* ... and if not, replaces the item's AI rows, as of the commit.
Replace(n) ==
  /\ phase = "read" /\ draft[n].status = "checked"
  /\ draft' = [draft EXCEPT ![n].status = "ok"]
  /\ step' = "pick"
  /\ UNCHANGED <<rows, usage, phase, reply, rounds, todo, alerts, spent, faults>>

\* Mutation of Replaced: the delete lacks the condition on the source.
ReplacedAll(sources) == {"ai"}

\* Delete the AI rows, insert those of the reading.
Replaced(sources) == (sources \ {"ai"}) \cup {"ai"}

\* The commit of the cycle; alerts are for items the user left alone.
Commit ==
  /\ phase = "read" /\ step = "pick" /\ todo = {}
  /\ analysis' = [n \in News |-> CASE draft[n].status = "none" -> analysis[n]
       [] draft[n].status = "error" -> [analysis[n] EXCEPT !.failed = @ + 1,
                                                           !.today = draft[n].today]
       [] OTHER -> [read |-> TRUE, failed |-> 0, today |-> draft[n].today]]
  /\ impacts' = [n \in News |->
       IF draft[n].status = "ok" THEN Replaced(impacts[n]) ELSE impacts[n]]
  /\ alerts' = {n \in News : draft[n].status = "ok"}
  /\ draft' = NoDraft /\ phase' = "alert"
  /\ UNCHANGED <<screen, deep, corrected, usage, step, reply, rounds, todo, spent, faults>>

\* on_news_impacts for each verdict, or its failure (module NewsAlerts).
Alert(n) ==
  /\ phase = "alert" /\ n \in alerts
  /\ alerts' = alerts \ {n}
  /\ UNCHANGED <<rows, usage, phase, step, reply, rounds, todo, draft, spent, faults>>

End ==
  /\ phase = "alert" /\ alerts = {}
  /\ phase' = "idle"
  /\ UNCHANGED <<rows, usage, step, reply, rounds, todo, draft, alerts, spent, faults>>

-----------------------------------------------------------------------------
(***************************************************************************)
(* The user, the calendar and faults                                       *)
(***************************************************************************)

\* replace_impacts_by_user, with or without rows
Correct(n) ==
  /\ ~Locked
  /\ corrected' = corrected \cup {n}
  /\ Cardinality(corrected') <= MaxCorrected
  /\ \E new \in {{}, {"user"}} : impacts' = [impacts EXCEPT ![n] = new]
  /\ UNCHANGED <<screen, deep, analysis, usage, funnel, spent, faults>>

\* Midnight in QUOTA_TZ
NewDay ==
  /\ analysis' = [n \in News |-> [analysis[n] EXCEPT !.today = FALSE]]
  /\ draft' = [n \in News |-> [draft[n] EXCEPT !.today = FALSE]]
  /\ UNCHANGED <<screen, deep, impacts, corrected, usage, phase, step, reply, rounds,
                 todo, alerts, spent, faults>>

Abandon ==
  /\ phase' = "idle" /\ step' = "pick" /\ todo' = {} /\ draft' = NoDraft
  /\ alerts' = {} /\ reply' = "bad" /\ rounds' = 0
  /\ UNCHANGED <<rows, saved, spent>>

\* A statement of the cycle raises: run_cycle catches it, the session is closed.
CycleFails ==
  /\ phase \in {"sector", "screen", "quota", "read"} /\ step \in {"pick", "over"}
  /\ Fault /\ Abandon
  /\ UNCHANGED <<buffer, taken, flushing>>

Restart ==
  /\ Fault /\ Abandon
  /\ buffer' = 0 /\ taken' = 0 /\ flushing' = "nobody"

-----------------------------------------------------------------------------
FunnelStep ==
  \/ Reply \/ Log \/ FunnelFlush
  \/ Begin \/ SectorOver \/ ScreenBatch \/ ScreenStore \/ Choose
  \/ \E n \in News : Read(n) \/ ReadFailed(n) \/ Check(n) \/ Replace(n) \/ Alert(n)
  \/ Commit \/ End

Next ==
  \/ FunnelStep
  \/ FlusherTake \/ FlusherFlush
  \/ \E n \in News : Correct(n)
  \/ NewDay \/ CycleFails \/ Restart

\* Both threads run on, a wait for the lock ends, and midnight comes.
Fairness == WF_vars(FunnelStep) /\ WF_vars(FlusherFlush) /\ WF_vars(NewDay)

Spec == Init /\ [][Next]_vars /\ Fairness

-----------------------------------------------------------------------------
\* Every variable has the values the code can give it.
TypeOK ==
  /\ screen \in [News -> 0..MaxAttempts] /\ deep \subseteq News
  /\ analysis \in [News -> [read : BOOLEAN, failed : 0..MaxAttempts, today : BOOLEAN]]
  /\ impacts \in [News -> SUBSET {"ai", "user"}] /\ corrected \subseteq News
  /\ saved \in 0..spent /\ spent \in 0..Budget
  /\ buffer \in 0..FlushAt - 1 /\ taken \in 0..FlushAt
  /\ flushing \in {"nobody", "funnel", "flusher"}
  /\ phase \in {"idle", "sector", "screen", "quota", "read", "alert"}
  /\ step \in {"pick", "call", "log", "flush", "over"} /\ reply \in {"bad", "good"}
  /\ rounds \in 0..ScreenBatches /\ todo \subseteq News /\ alerts \subseteq News
  /\ draft \in [News -> [status : {"none", "reading", "error", "checked", "kept", "ok"},
                         today : BOOLEAN]]
  /\ faults \in 0..MaxFaults

\* Only the user takes the user's rows away (a correction may leave none): a
\* reading that asked before the correction was made does not.
UserRowsStay ==
  [][/\ TypeOK'
     /\ \A n \in News : "user" \in impacts[n] =>
          "user" \in impacts'[n] \/ impacts'[n] = {}]_vars

\* A cycle comes to its end, although its thread may wait for the write lock it
\* holds itself, or for the buffer's lock while the flusher waits for its own.
CycleEnds == (phase # "idle") ~> (phase = "idle")

\* An item chosen for deep reading is read or has used up its attempts, unless
\* the budget is spent: quotas, failures and restarts only delay it.
WantedIsRead ==
  \A n \in News : n \in deep ~>
    (analysis[n].read \/ analysis[n].failed = MaxAttempts \/ saved >= Budget)

\* Every cycle ends, and between them they read what was chosen.
FunnelSettles == CycleEnds /\ WantedIsRead

\* "本月未超预算时才调用 LLM" (ai_funnel_worker.py): a cycle begins only if the
\* calls whose usage is not on its way to the database are under the budget.
PausesOverBudget ==
  [][phase = "idle" /\ phase' # "idle" => spent < Budget]_vars
=============================================================================
