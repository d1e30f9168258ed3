------------------------------ MODULE MCServices ------------------------------
(*****************************************************************************)
(* Instances of the modules about the services around the news: the health   *)
(* of workers, quotes and what is made of them, digests, the news of a       *)
(* share, the configurations of models, clean-up and backup. They have no    *)
(* state in common, so one run explores them one at a time: "active" names   *)
(* the one that moves.                                                       *)
(*****************************************************************************)
EXTENDS WorkerHealth, Integers, Sequences, FiniteSets, TLC

CONSTANTS
    Threads, None, Absent,
    Configs, Admins, MaxEdits,      \* of LlmConfigs
    Retention, BatchSize, Inflow, Keep, MaxRows, MaxSlips, MaxBackups,  \* of Housekeeping
    News, Entries, Normal, Naming, Hits, MinCount,
    MaxRequests, MaxSearches, MaxHits,                                  \* of StockNews
    Slots, Offset, Target, DayLength, Grace, TickEvery, Posts, MaxTime, \* of Digests
    Requests, Sources, BoardTtl, FlowTtl, FailureTtl, CandleTtl, UpstreamTimeout,
    MaxNow, MaxFetches,                                                 \* of MarketCaches
    SlotsPerDay, QuietStart, QuietEnd, OpenSlots, DateShift, TradingDays, ForceWindow,
    Prices, BigPrices, MaxClock,                                        \* of QuoteAlerts
    MaxRestarts,                                                \* of these three
    Indices, Changes, Volatilities, Boards, Quotes, BoardLimit,         \* of MarketSentiment
    CoveredNews, ShownMarkets, RawMarkets, MarketOf, Scores, Labels, Lookback, MinSample,
    MaxMentions, MaxNewsNow                                             \* of NewsSentiment

ASSUME ConfigsAssumption == MaxEdits \in Nat
ASSUME HouseAssumption ==
    /\ Retention \in Nat /\ BatchSize \in Nat /\ Inflow \in Nat
    /\ Keep \in Nat \ {0}          \* backup_retention_count = max(1, ...)
    /\ MaxRows \in Nat /\ MaxSlips \in Nat /\ MaxBackups \in Nat
\* The shares, news and hits are of the kinds the tables have.
ASSUME SharesAssumption ==
    /\ None \notin Threads /\ \A name \in DOMAIN Normal : Normal[name] \in DOMAIN Normal
    /\ Entries \subseteq [name : DOMAIN Normal, market : STRING]
    /\ Hits \subseteq [news : News, name : DOMAIN Normal, confidence : Nat]

VARIABLES
    active,
    clock, restarts, market, real, lagging, snapshot, pc, seen, first, live, quoteAlerts,
    cacheNow, boards, flow, redis, memory, reachable, request, answer, fetches,
    cacheRestarts, loaded,
    change, vix, board,
    newsNow, news, counts, score, analysis,
    watched, found, mentions, task, waiting, shareWriter, requests, searches, applied,
    outrun,
    digestNow, fired, round, waited, generation, latest, file, asked, digestRestarts,
    triggered, since, overlapped,
    config, admin, edits,
    age, arrived, today, attached, kind, archived, deleted, cascaded, cleaning, chosen,
    backups, made, backingUp, slips, safe

\* Of Digests: a day of six slots, the zones of the two markets are three apart.
Phases == <<"hk", "us">>
Offsets == [hk |-> 2, us |-> 5]
Targets == [hk |-> 2, us |-> 2]

\* Of MarketSentiment: values at, between and beyond the ends of the pieces.
IndexChanges == {-18, -12, -4, 0, 4, 16}
BoardQuotes == [change : {-1, 1}, up : {2, 6}]

\* Of NewsSentiment: Hong Kong counts as China, France is not shown.
Shown == [us |-> "us", hk |-> "cn", fr |-> None]

\* Of StockNews: a Chinese share, and a name of it under which it may be entered, also
\* as a share of another market.
Normals == [sh |-> "sh", digits |-> "sh"]
Entered == {[name |-> "digits", market |-> "cn"], [name |-> "digits", market |-> "us"]}
Named == [sh |-> {"n"}, digits |-> {"n"}]
RuleHits == {[news |-> "n", name |-> "sh", confidence |-> c] : c \in {55, 90}}

\* Of QuoteAlerts: cn trades by day, us from the user's evening to early morning.
Openings == [cn |-> {1, 2}, us |-> {3, 0}]
Shifts == [cn |-> 0, us |-> 2]

Alarms == INSTANCE QuoteAlerts WITH
    alerts <- quoteAlerts

\* A day has slots, the quiet hours are two of them, and no session of a market goes over
\* the midnight of its own date (_SESSIONS_UTC).
ASSUME QuotesAssumption ==
    /\ SlotsPerDay \in Nat \ {0}
    /\ QuietStart \in 0..(SlotsPerDay - 1) /\ QuietEnd \in 0..(SlotsPerDay - 1)
    /\ DateShift \in [Alarms!Markets -> Int] /\ MaxClock \in Nat
    /\ \A m \in Alarms!Markets, c \in 0..(MaxClock - 1) :
         {c % SlotsPerDay, (c + 1) % SlotsPerDay} \subseteq OpenSlots[m] =>
            (c + DateShift[m]) \div SlotsPerDay = (c + 1 + DateShift[m]) \div SlotsPerDay
    /\ None \notin Prices /\ None \notin Alarms!Rows

Caches == INSTANCE MarketCaches WITH
    now <- cacheNow, restarts <- cacheRestarts, Timeout <- UpstreamTimeout

\* What is cached lives for a while, a failure not longer than what was fetched, and NULL
\* is no time, entry or request.
ASSUME CachesAssumption ==
    /\ BoardTtl \in Nat \ {0} /\ FlowTtl \in Nat \ {0} /\ CandleTtl \in Nat \ {0}
    /\ FailureTtl \in Nat /\ FailureTtl <= FlowTtl /\ UpstreamTimeout \in Nat
    /\ None \notin Nat /\ None \notin Caches!BoardEntries /\ None \notin Caches!FlowEntries
    /\ None \notin Caches!CandleEntries /\ None \notin Caches!Asked

Mood == INSTANCE MarketSentiment WITH Limit <- BoardLimit

\* Boards are numbered and there are as many as are taken, and NULL is no value.
ASSUME MoodAssumption ==
    /\ IsFiniteSet(Indices) /\ Changes \subseteq Int /\ Volatilities \subseteq Int
    /\ Boards \subseteq Nat /\ IsFiniteSet(Boards) /\ BoardLimit \in 1..Cardinality(Boards)
    /\ Quotes \subseteq [change : Int, up : Nat]
    /\ None \notin Int /\ None \notin [Boards -> Quotes]

Coverage == INSTANCE NewsSentiment WITH
    now <- newsNow, mentions <- counts, News <- CoveredNews, Markets <- ShownMarkets,
    MaxNow <- MaxNewsNow

\* A score is a number, a label one of the analysis, and NULL is no market or row.
ASSUME CoverageAssumption ==
    /\ IsFiniteSet(CoveredNews) /\ IsFiniteSet(ShownMarkets) /\ IsFiniteSet(RawMarkets)
    /\ MarketOf \in [RawMarkets -> ShownMarkets \union {None}]
    /\ Scores \subseteq Int /\ Labels \subseteq {"positive", "neutral", "negative", "unknown"}
    /\ Lookback \in Nat /\ MinSample \in Nat
    /\ None \notin Int /\ None \notin ShownMarkets /\ None \notin Labels
    /\ None \notin [market : RawMarkets, at : Nat] /\ None \notin [sum : Int, count : Nat]

Shares == INSTANCE StockNews WITH
    news <- found, asked <- waiting, writer <- shareWriter, Requests <- Entries

ASSUME TasksAssumption == None \notin Shares!Tasks

Reports == INSTANCE Digests WITH
    now <- digestNow, cycle <- round, restarts <- digestRestarts,
    Requests <- Posts, MaxNow <- MaxTime

\* There are times of the day, the worker's tick is shorter than its grace (a minute, and
\* ten by default), no request is the worker, and NULL is no date, cycle or digest.
ASSUME DigestsAssumption ==
    /\ Slots \in Seq(Reports!SlotNames)
    /\ Offset \in [Reports!SlotNames -> Nat] /\ Target \in [Reports!SlotNames -> Nat]
    /\ DayLength \in Nat \ {0} /\ Grace \in Nat /\ TickEvery \in Nat /\ TickEvery < Grace
    /\ Reports!Worker \notin Posts
    /\ None \notin Nat /\ None \notin Reports!Cycles /\ None \notin Reports!Generations

Models == INSTANCE LlmConfigs

House == INSTANCE Housekeeping

healthVars == <<wait, cycle, elapsed, beat, failed, row, well, bad>>
quotesVars == <<clock, restarts, market, real, lagging, snapshot, pc, seen, first, live,
    quoteAlerts>>
cachesVars == <<cacheNow, boards, flow, redis, memory, reachable, request, answer, fetches,
    cacheRestarts, loaded>>
moodVars == <<change, vix, board>>
coverageVars == <<newsNow, news, counts, score, analysis>>
sharesVars == <<watched, found, mentions, task, waiting, shareWriter, requests, searches,
    applied, outrun>>
digestsVars == <<digestNow, fired, round, waited, generation, latest, file, asked,
    digestRestarts, triggered, since, overlapped>>
configsVars == <<config, admin, edits>>
houseVars == <<age, arrived, today, attached, kind, archived, deleted, cascaded, cleaning,
    chosen, backups, made, backingUp, slips, safe>>
allVars == <<active, healthVars, quotesVars, cachesVars, moodVars, coverageVars, sharesVars,
    digestsVars, configsVars, houseVars>>

OneInit ==
    /\ active \in {"health", "quotes", "caches", "mood", "coverage", "shares", "digests",
       "configs", "house"}
    /\ IF active = "quotes" THEN TRUE
       ELSE market = (CHOOSE m \in DOMAIN OpenSlots : TRUE) /\ real = CHOOSE p \in Prices : TRUE
    /\ IF active = "caches" THEN TRUE ELSE reachable = TRUE
    /\ IF active = "shares" THEN TRUE ELSE found = {}
    /\ IF active = "house" THEN TRUE ELSE kind = "record"
    /\ Init /\ Alarms!Init /\ Caches!Init /\ Mood!Init /\ Coverage!Init /\ Shares!Init
    /\ Reports!Init /\ Models!Init /\ House!Init

OneNext ==
    /\ UNCHANGED active
    /\ \/ active = "health" /\ Next
          /\ UNCHANGED <<quotesVars, cachesVars, moodVars, coverageVars, sharesVars,
                        digestsVars, configsVars, houseVars>>
       \/ active = "quotes" /\ Alarms!Next
          /\ UNCHANGED <<healthVars, cachesVars, moodVars, coverageVars, sharesVars,
                        digestsVars, configsVars, houseVars>>
       \/ active = "caches" /\ Caches!Next
          /\ UNCHANGED <<healthVars, quotesVars, moodVars, coverageVars, sharesVars,
                        digestsVars, configsVars, houseVars>>
       \/ active = "mood" /\ Mood!Next
          /\ UNCHANGED <<healthVars, quotesVars, cachesVars, coverageVars, sharesVars,
                        digestsVars, configsVars, houseVars>>
       \/ active = "coverage" /\ Coverage!Next
          /\ UNCHANGED <<healthVars, quotesVars, cachesVars, moodVars, sharesVars,
                        digestsVars, configsVars, houseVars>>
       \/ active = "shares" /\ Shares!Next
          /\ UNCHANGED <<healthVars, quotesVars, cachesVars, moodVars, coverageVars,
                        digestsVars, configsVars, houseVars>>
       \/ active = "digests" /\ Reports!Next
          /\ UNCHANGED <<healthVars, quotesVars, cachesVars, moodVars, coverageVars,
                        sharesVars, configsVars, houseVars>>
       \/ active = "configs" /\ Models!Next
          /\ UNCHANGED <<healthVars, quotesVars, cachesVars, moodVars, coverageVars,
                        sharesVars, digestsVars, houseVars>>
       \/ active = "house" /\ House!Next
          /\ UNCHANGED <<healthVars, quotesVars, cachesVars, moodVars, coverageVars,
                        sharesVars, digestsVars, configsVars>>

OneSpec == OneInit /\ [][OneNext]_allVars

ThreadSymmetry == Permutations(Threads)

-----------------------------------------------------------------------------
\* QuoteAlerts: quotes do not go back, one alert a session, none at night.
QuotesAreSound == [][active = "quotes" => Alarms!SoundStep]_quotesVars

\* MarketCaches: nothing stale is shown as fresh, nothing known as missing.
CachesAreHonest == [][active = "caches" => Caches!SoundStep]_cachesVars

\* MarketSentiment: good news never makes a market look worse. NewsSentiment:
\* news count for one market, and only what is learnt of them moves it.
SentimentIsSound ==
    [][ /\ active = "mood" => Mood!SoundStep
        /\ active = "coverage" => Coverage!SoundStep ]_<<moodVars, coverageVars>>

\* StockNews: a news and a share are related once, but for writers that
\* overlap.
NewsAreRelatedOnce == [][active = "shares" => Shares!SoundStep]_sharesVars

\* Digests: once a day, in the window, and not missed by a free worker.
DigestsAreSound == [][active = "digests" => Reports!SoundStep]_digestsVars

\* LlmConfigs: at most one configuration is the default.
AtMostOneDefault == active = "configs" => Models!TypeOK /\ Models!AtMostOneDefault

\* Housekeeping: what goes is archived, or depends on what is, or can be computed again;
\* what should go does.
HouseIsInOrder == active = "house" => House!TypeOK /\ House!HouseIsInOrder
=============================================================================
