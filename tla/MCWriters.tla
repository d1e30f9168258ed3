------------------------------ MODULE MCWriters ------------------------------
(*****************************************************************************)
(* Instances of the modules of which several writers change the same rows.   *)
(* They have no state in common, so one run explores them one at a time:     *)
(* "active" names the one that moves.                                        *)
(*****************************************************************************)
EXTENDS Integers, Sequences, FiniteSets, TLC

CONSTANTS
    Writers, Threads, None,
    Sources, Rank, Urls, Story, Offers, Irrelevant, MaxRefreshes, MaxChanges,   \* of NewsIngest
    Feeds, Watched, Cadence, MaxMultiplier, EmptyThreshold, Jitter, Cooldown,
    Duration, MaxStreak, MaxAge,                                  \* of IngestScheduler
    News, BatchLimit, DailyLimit, Enabled, Scans, MaxDay, MaxRestarts,   \* of Takeaways
    MaxCalls,                                                \* of it and NewsAnalysis
    SlotsPerDay, QuietStart, QuietEnd,                       \* of QuietHours
    MaxTime, Verdicts, Stocks, ByCode, ByName, Sectors, SectorsOf, Moods, MinMood, MinChange,
    KeywordHits, StockLimit, OverseasLimit, DigestLength, MaxEdits,   \* of ImpactAlerts
    MaxFaults,                                               \* of it and NewsIngest
    RowIds, Links, Normal, Times, BatchSize, MaxRuns         \* of HashBackfill

\* There are sources and news, the sources are ranked by numbers (priority and tier of
\* sources.py), and no writer is called like none.
ASSUME IngestAssumption ==
    /\ Sources # {} /\ Urls # {} /\ Rank \in [Sources -> Int]
    /\ "none" \notin Writers
    /\ MaxRefreshes \in Nat /\ MaxChanges \in Nat /\ MaxFaults \in Nat

\* The scheduler corrects settings below 1, and sources.py refuses a cadence that is
\* not positive.  The start-up jitter (8 s) is shorter than the cadences (100 s and more).
ASSUME SchedulerAssumption ==
    /\ Watched \in Feeds /\ Cadence \in [Feeds -> Nat \ {0}]
    /\ MaxMultiplier \in Nat \ {0} /\ EmptyThreshold \in Nat \ {0}
    /\ Jitter \in Nat /\ \A s \in Feeds : Jitter <= Cadence[s] * MaxMultiplier
    /\ Cooldown \in Nat /\ Duration \in Nat \ {0} /\ MaxStreak \in Nat /\ MaxAge \in Nat

\* A cycle, whose requests time out, takes at most a third of the cadence of a source: from
\* one stored success to the next pass the rest of its cycle, the cadence, one more cycle
\* and the fetch.
ASSUME CyclesAreShort == 3 * Duration <= Cadence[Watched]

\* Arithmetic, of which the provers know no powers.
ASSUME PowersAssumption == \A k \in 1..MaxStreak + 1 : 2 ^ k \in Nat \ {0}

\* The ids of news are numbers, and NULL is none.
ASSUME QuotaAssumption ==
    /\ IsFiniteSet(News) /\ News \subseteq Nat /\ BatchLimit \in Nat /\ DailyLimit \in Nat
    /\ MaxDay \in Nat /\ None \notin Nat

\* The quiet hours are times of the day; a digest takes some time.
ASSUME VerdictsAssumption ==
    /\ SlotsPerDay \in Nat \ {0}
    /\ QuietStart \in 0..(SlotsPerDay - 1) /\ QuietEnd \in 0..(SlotsPerDay - 1)
    /\ MaxTime \in Nat /\ StockLimit \in Nat /\ OverseasLimit \in Nat
    /\ DigestLength \in Nat \ {0} /\ MaxEdits \in Nat /\ MaxFaults \in Nat
    /\ IsFiniteSet(DOMAIN Stocks)
    /\ \A v \in Verdicts : v.impacts \in Seq({v.impacts[k] : k \in DOMAIN v.impacts})

VARIABLES
    active,
    feed, changes, newsRows, etag, lock, view, writerPc, cached, pending, got, outcome,
    refreshes, faults, overlapped,
    due, fails, empties, fetching, taken, stored, aborted, lease, success, failuresInARow, tried,
    answering,
    hashed, stage, plan, retry, failed, duplicates, runs, edits, edited, quiet, clean,
    takeaway, labelled, queue, configured, cycle, generated, day, toldOf, restarts, calls,
    row, call, writer, made, announced, committed, clashes,
    alertClock, alertFaults, alertEdits, watch, override, told, alertRows, windows, byAi,
    sent, dueAlerts

\* Every source is fetched as often.
EveryThree == [s \in Feeds |-> 3]

\* Of HashBackfill: two links of the same page.
Pages == [a |-> "a", a1 |-> "a", a2 |-> "a", b |-> "b"]

\* Of ImpactAlerts: two verdicts on a holding; one names its sector, the other a share
\* that is not on the list yet, of which the keyword rules know.
Impact(type, name, direction, strength) ==
    [type |-> type, name |-> name, direction |-> direction, strength |-> strength]
Answers == { [news |-> "n", major |-> TRUE,
              impacts |-> <<Impact("stock", "mine", "bullish", "strong"),
                            Impact("sector", "chip", "bearish", "medium")>>],
             [news |-> "o", major |-> TRUE,
              impacts |-> <<Impact("stock", "mine", "bearish", "medium"),
                            Impact("stock", "other", "bullish", "strong")>>] }
List == <<"mine", "other">>
Codes == {<<"mine", "mine">>}
Names == {<<"other", "other">>}
Rules == {<<"o", "other">>}
InSectors == [mine |-> {"chip"}, other |-> {}]
Divergent == [mine |-> {[scores |-> <<1, 1, -1>>, prices |-> <<10, 8>>]},
              other |-> {[scores |-> <<1, 1, 1>>, prices |-> <<10, 9, 8>>]}]

\* Of NewsIngest: an official source, and an aggregator of lower rank that reprints the
\* official story under a link of its own.
Ranks == [official |-> 2, reprint |-> 1]
Stories == [o1 |-> "fine", r1 |-> "fine", r2 |-> "spam"]
Items == {<<"official", "o1">>, <<"reprint", "r1">>, <<"reprint", "r2">>}

Ingest == INSTANCE NewsIngest WITH
    rows <- newsRows, pc <- writerPc, batch <- outcome

Scheduler == INSTANCE IngestScheduler WITH
    failures <- failuresInARow, cycle <- fetching, Sources <- Feeds

Backfill == INSTANCE HashBackfill WITH
    row <- hashed, pc <- stage, touched <- edited, changes <- edits,
    Ids <- RowIds

\* The ids of rows and the times are numbers, a normalized link is one and its own
\* normal form, and NULL is no row.
ASSUME BackfillAssumption ==
    /\ RowIds \subseteq Nat /\ Times \subseteq Nat
    /\ Normal \in [Links -> Links] /\ \A link \in Links : Normal[Normal[link]] = Normal[link]
    /\ None \notin Backfill!Rows

Conclusions == INSTANCE Takeaways WITH
    published <- toldOf

Analyses == INSTANCE NewsAnalysis WITH
    calls <- made, published <- announced

\* NULL is no row, no call and no thread.
ASSUME ResultsAssumption ==
    None \notin Threads /\ None \notin Analyses!Rows /\ None \notin Analyses!Calls

Answered == INSTANCE ImpactAlerts WITH
    clock <- alertClock, faults <- alertFaults, edits <- alertEdits, rows <- alertRows,
    owed <- dueAlerts, MaxClock <- MaxTime

ingestVars == <<feed, changes, newsRows, etag, lock, view, writerPc, cached, pending, got,
    outcome, refreshes, faults, overlapped>>
schedulerVars == <<due, fails, empties, fetching, taken, stored, aborted, lease, success,
    failuresInARow, tried, answering>>
backfillVars == <<hashed, stage, plan, retry, failed, duplicates, runs, edits, edited,
    quiet, clean>>
takeawaysVars == <<takeaway, labelled, queue, configured, cycle, generated, day, toldOf,
    restarts, calls>>
analysesVars == <<row, call, writer, made, announced, committed, clashes>>
verdictsVars == <<alertClock, alertFaults, alertEdits, watch, override, told, alertRows,
    windows, byAi, sent, dueAlerts>>
allVars == <<active, ingestVars, schedulerVars, backfillVars, takeawaysVars, analysesVars,
    verdictsVars>>

OneInit ==
    /\ active \in {"ingest", "scheduler", "backfill", "takeaways", "analyses", "verdicts"}
    /\ IF active = "ingest" THEN TRUE ELSE feed = [s \in Sources |-> {}]
    /\ IF active = "scheduler" THEN TRUE ELSE due = [s \in Feeds |-> 0]
    /\ IF active = "backfill" THEN TRUE ELSE hashed = [id \in RowIds |-> None]
    /\ IF active = "takeaways" THEN TRUE ELSE configured = TRUE
    /\ Ingest!Init /\ Scheduler!Init /\ Backfill!Init /\ Conclusions!Init /\ Analyses!Init
    /\ Answered!Init

OneNext ==
    /\ UNCHANGED active
    /\ \/ active = "ingest" /\ Ingest!Next
          /\ UNCHANGED <<schedulerVars, backfillVars, takeawaysVars, analysesVars, verdictsVars>>
       \/ active = "scheduler" /\ Scheduler!Next
          /\ UNCHANGED <<ingestVars, backfillVars, takeawaysVars, analysesVars, verdictsVars>>
       \/ active = "backfill" /\ Backfill!Next
          /\ UNCHANGED <<ingestVars, schedulerVars, takeawaysVars, analysesVars, verdictsVars>>
       \/ active = "takeaways" /\ Conclusions!Next
          /\ UNCHANGED <<ingestVars, schedulerVars, backfillVars, analysesVars, verdictsVars>>
       \/ active = "analyses" /\ Analyses!Next
          /\ UNCHANGED <<ingestVars, schedulerVars, backfillVars, takeawaysVars, verdictsVars>>
       \/ active = "verdicts" /\ Answered!Next
          /\ UNCHANGED <<ingestVars, schedulerVars, backfillVars, takeawaysVars, analysesVars>>

OneSpec == OneInit /\ [][OneNext]_allVars

Symmetry == Permutations(Writers) \union Permutations(Threads)

-----------------------------------------------------------------------------
\* NewsIngest: what a feed may leave out is stored, once, and keeps its best
\* source.
StoriesAreKept == [][active = "ingest" => Ingest!SoundStep]_ingestVars

\* IngestScheduler: no source is forgotten, none that answers is shown as
\* failing.
SourcesAreServed == active = "scheduler" => Scheduler!TypeOK /\ Scheduler!SourcesAreServed

\* HashBackfill: no run makes a known link unknown.
BackfillIsSafe == [][active = "backfill" => Backfill!SoundStep]_backfillVars

\* Takeaways: a conclusion stays, and the quota holds.
TakeawaysAreSound == [][active = "takeaways" => Conclusions!SoundStep]_takeawaysVars

\* NewsAnalysis: the last committed result is never lost.
ResultsAreKept == [][active = "analyses" => Analyses!SoundStep]_analysesVars

\* ImpactAlerts: verdicts come to the alerts they call for, in number and time.
VerdictsAreSound == active = "verdicts" => Answered!TypeOK /\ Answered!VerdictsAreSound
=============================================================================
