----------------------------- MODULE ImpactAlerts -----------------------------
(***************************************************************************)
(* What the AI's verdict on a news makes the user see: on_news_impacts of  *)
(* AlertService with its daily limits, its three groups of digests, the    *)
(* focus sectors and the quiet hours, next to the late keyword alerts that *)
(* share the rows. Threads and failed deferrals are in NewsAlerts; here    *)
(* the entry points run one after the other and the content counts.        *)
(*                                                                         *)
(* A verdict is [news, major, impacts]; an impact is [type, name,          *)
(* direction, strength], where name stands for the code and the name the   *)
(* model gave. An alert row is [key, at, visible, hits]; its key is the    *)
(* dedupe key.                                                             *)
(***************************************************************************)
EXTENDS QuietHours, Sequences, SequencesExt, FiniteSets

CONSTANTS
    Verdicts,          \* what the deep readings may say, at most one for a news
    Stocks,            \* sequence: the watchlist in the order it is loaded
    ByCode, ByName,    \* pairs <<name of an impact, stock it denotes>>
    Sectors,           \* names of sectors
    SectorsOf,         \* SectorsOf[s]: the inferred sectors of a stock
    Moods,             \* Moods[s]: the [scores, prices] a stock may have in the last days
    MinMood, MinChange,   \* thresholds of a divergence
    KeywordHits,       \* pairs <<news, stock>> the keyword rules find
    StockLimit,        \* ai_stock_alert_daily_limit
    OverseasLimit,     \* ai_overseas_alert_daily_limit
    DigestLength,      \* alert_watch_digest_minutes, in slots
    MaxClock,          \* bound: end of time
    MaxEdits,          \* bound: edits of the watchlist and the sectors
    MaxFaults,         \* bound: failed transactions and restarts
    None

Groups == {"watch", "sector", "opportunity"}
Listed == {Stocks[k] : k \in DOMAIN Stocks}
NewsKeys == {h[1] : h \in KeywordHits}

VARIABLES
    clock, faults, edits,
    watch,      \* each stock: absent, watched or held
    override,   \* focus_sector_override: none, add or remove
    told,       \* verdicts that have been passed on
    rows,       \* alert rows
    windows,    \* _digest_windows: hits [win, group, news, target]
    byAi,       \* history: keys of the alerts on holdings made by verdicts
    sent,       \* history: keys published as alert.created
    owed        \* history: what verdicts called for, [news, target, group]

vars == <<clock, faults, edits, watch, override, told, rows, windows, byAi, sent, owed>>
user == <<edits, watch, override>>

Init ==
    /\ clock = 0 /\ faults = 0 /\ edits = 0
    /\ watch = [s \in Listed |-> IF s = Stocks[1] THEN "held" ELSE "absent"]
    /\ override = [x \in Sectors |-> "none"]
    /\ told = {} /\ rows = {} /\ windows = {}
    /\ byAi = {} /\ sent = {} /\ owed = {}

Fault == faults < MaxFaults /\ faults' = faults + 1

-----------------------------------------------------------------------------
\* list_focus_sectors: inferred for an active stock and not removed, or added.
Focus ==
    {x \in Sectors : \/ override[x] = "add"
                     \/ override[x] = "none" /\ \E s \in Listed : watch[s] # "absent" /\ x \in SectorsOf[s]}

\* _match_stock: the first active stock by code, else the first by name.
Match(name) ==
    LET First(pairs) ==
            SelectInSeq(Stocks, LAMBDA s : watch[s] # "absent" /\ <<name, s>> \in pairs)
    IN CASE First(ByCode) # 0 -> Stocks[First(ByCode)]
         [] First(ByCode) = 0 /\ First(ByName) # 0 -> Stocks[First(ByName)]
         [] OTHER -> None

Significant(i) == i.direction \in {"bullish", "bearish"} /\ i.strength \in {"strong", "medium"}

\* The group an impact belongs to, or None.
GroupOf(i) ==
    CASE ~Significant(i) -> None
      [] Significant(i) /\ i.type = "sector" -> IF i.name \in Focus THEN "sector" ELSE None
      [] Significant(i) /\ i.type = "stock" /\ Match(i.name) # None -> "watch"
      [] OTHER -> IF i.direction = "bullish" /\ i.strength = "strong" THEN "opportunity" ELSE None

\* The stock, sector or new code the alert is about.
TargetOf(i) == IF GroupOf(i) = "watch" THEN Match(i.name) ELSE i.name

-----------------------------------------------------------------------------
Row(key, hits) == [key |-> key, at |-> clock, visible |-> VisibleAt(clock), hits |-> hits]

KeysOf(rs) == {r.key : r \in rs}

\* create_if_absent, for one row and for several in any order: one of each new key.
Create(rs, r) == IF r.key \in KeysOf(rs) THEN rs ELSE rs \cup {r}
CreateAll(rs, new) ==
    rs \cup {CHOOSE r \in new : r.key = k : k \in KeysOf(new) \ KeysOf(rs)}

\* _count_today: the rows of a kind, of a stock or of all, since local midnight.
CountToday(rs, kind, target) ==
    Cardinality({r \in rs : /\ r.key[1] = kind /\ Day(r.at) = Day(clock)
                            /\ target = None \/ r.key[3] = target})

Hit(group, news, target) ==
    [win |-> clock \div DigestLength, group |-> group, news |-> news, target |-> target]

Ended(h) == (h.win + 1) * DigestLength <= clock

\* Mutation of DigestKey: one key for the window, the second group is dropped.
DigestKeyOfWindow(group, win) == <<"digest", "watch", win>>

DigestKey(group, win) == <<"digest", group, win>>

\* flush_watch_digest: one digest for each ended window and each group with hits.
Digested ==
    LET ended == {h \in windows : Ended(h)}
        Digest(g, w) == Row(DigestKey(g, w), {h \in ended : h.group = g /\ h.win = w})
    IN CreateAll(rows, {Digest(h.group, h.win) : h \in ended})

\* A failed flush puts its windows back; every entry point goes on after it.
RowsAfter(flushed) == IF flushed THEN Digested ELSE rows
WindowsAfter(flushed) == IF flushed THEN {h \in windows : ~Ended(h)} ELSE windows

\* _publish, after the commit: what was created outside the quiet hours.
Publish == sent' = sent \cup (IF Night(clock) THEN {} ELSE KeysOf(rows' \ rows))

\* A worker cycle or a quote refresh pushes the windows on.
FlushDue ==
    /\ \E h \in windows : Ended(h)
    /\ rows' = RowsAfter(TRUE) /\ windows' = WindowsAfter(TRUE)
    /\ Publish
    /\ UNCHANGED <<clock, faults, user, told, byAi, owed>>

FlushFails ==
    /\ \E h \in windows : Ended(h)
    /\ Fault
    /\ UNCHANGED <<clock, user, told, rows, windows, byAi, sent, owed>>

-----------------------------------------------------------------------------
\* One impact of a verdict on news n, after those before it: an alert row while a
\* holding is below its limit, otherwise a hit.
Judge(n, acc, i) ==
    LET g == GroupOf(i)
        t == TargetOf(i)
        now == g = "watch" /\ watch[t] = "held" /\ CountToday(acc.rows, "news", t) < StockLimit
    IN CASE g = None -> acc
         [] g # None /\ now -> [acc EXCEPT !.rows = Create(@, Row(<<"news", n, t>>, {}))]
         [] OTHER -> [acc EXCEPT !.hits = @ \cup {Hit(g, n, t)}]

Judged(v, rs, impacts) ==
    LET after[k \in 0..Len(impacts)] ==
            IF k = 0 THEN [rows |-> rs, hits |-> {}]
            ELSE Judge(v.news, after[k - 1], impacts[k])
    IN after[Len(impacts)]

\* A major news from overseas is an alert of its own.
WithOverseas(v, rs) ==
    IF v.major /\ CountToday(rs, "overseas", None) < OverseasLimit
    THEN Create(rs, Row(<<"overseas", v.news, None>>, {})) ELSE rs

\* on_news_impacts, its flush included.
NewsImpacts(v) ==
    /\ v \notin told
    /\ \E flushed \in BOOLEAN :
         LET judged == Judged(v, RowsAfter(flushed), v.impacts)
         IN /\ IF flushed THEN UNCHANGED faults ELSE Fault
            /\ rows' = WithOverseas(v, judged.rows)
            /\ windows' = WindowsAfter(flushed) \cup judged.hits
            /\ byAi' = byAi \cup KeysOf(judged.rows \ RowsAfter(flushed))
    /\ Publish
    /\ told' = told \cup {v}
    /\ owed' = owed \cup {[news |-> v.news, target |-> TargetOf(i), group |-> GroupOf(i)] :
                            i \in {j \in Range(v.impacts) : GroupOf(j) # None}}
    /\ UNCHANGED <<clock, user>>

\* Its transaction fails at some impact: the rows are rolled back, the hits before it
\* stay in memory, and the funnel goes on with the next verdict.
NewsImpactsFail(v) ==
    /\ v \notin told /\ Fault
    /\ \E k \in 0..Len(v.impacts), flushed \in BOOLEAN :
         LET hits == Judged(v, RowsAfter(flushed), SubSeq(v.impacts, 1, k)).hits
         IN rows' = RowsAfter(flushed) /\ windows' = WindowsAfter(flushed) \cup hits
    /\ Publish
    /\ told' = told \cup {v}
    /\ UNCHANGED <<clock, user, byAi, owed>>

\* on_news_keyword_fallback for a news without a verdict in time: no limit here.
Keyword(n) ==
    LET hit == {s \in Listed : watch[s] # "absent" /\ <<n, s>> \in KeywordHits}
        held == {s \in hit : watch[s] = "held"}
    IN /\ hit # {}
       /\ \A v \in told : v.news # n
       /\ \E flushed \in BOOLEAN :
            /\ IF flushed THEN UNCHANGED faults ELSE Fault
            /\ rows' = CreateAll(RowsAfter(flushed), {Row(<<"news", n, s>>, {}) : s \in held})
            /\ windows' = WindowsAfter(flushed) \cup {Hit("watch", n, s) : s \in hit \ held}
       /\ Publish
       /\ UNCHANGED <<clock, user, told, byAi, owed>>

\* detect_divergence: the mood of enough news goes one way, the price the other.
Status(m) ==
    LET count == Len(m.scores)
        mood == FoldLeft(+, 0, m.scores)
        first == m.prices[1]
        change == 100 * (m.prices[Len(m.prices)] - first)
    IN CASE count < 3 \/ Len(m.prices) < 2 \/ first = 0 -> None
         [] OTHER -> IF mood >= MinMood * count /\ change <= -MinChange * first THEN "bearish"
                     ELSE IF mood <= -MinMood * count /\ change >= MinChange * first THEN "bullish"
                     ELSE None

\* SentimentDivergenceAlertWorker and on_sentiment_divergence: once a day for a stock
\* and a status.
Divergence(s) ==
    /\ watch[s] # "absent"
    /\ \E m \in Moods[s] :
         /\ Status(m) # None
         /\ rows' = Create(rows, Row(<<"divergence", s, <<Status(m), Day(clock)>>>>, {}))
    /\ Publish
    /\ UNCHANGED <<clock, faults, user, told, windows, byAi, owed>>

-----------------------------------------------------------------------------
Edit == edits < MaxEdits /\ edits' = edits + 1

\* The user changes the watchlist or a position.
SetWatch(s) ==
    /\ Edit
    /\ \E w \in {"absent", "watched", "held"} \ {watch[s]} : watch' = [watch EXCEPT ![s] = w]
    /\ UNCHANGED <<clock, faults, override, told, rows, windows, byAi, sent, owed>>

\* add_focus_sector, remove_focus_sector: the last word of the user on a sector.
SetOverride(x) ==
    /\ Edit
    /\ \E o \in {"add", "remove"} : override' = [override EXCEPT ![x] = o]
    /\ UNCHANGED <<clock, faults, watch, told, rows, windows, byAi, sent, owed>>

InRow(o, r) == \/ r.key = <<"news", o.news, o.target>> /\ o.group = "watch"
               \/ \E h \in r.hits : <<h.news, h.target, h.group>> = <<o.news, o.target, o.group>>
InWindow(o, h) == <<h.news, h.target, h.group>> = <<o.news, o.target, o.group>>

\* A restart loses the windows ("at most one window", says the module).
Restart ==
    /\ Fault
    /\ windows' = {}
    /\ owed' = {o \in owed : \E r \in rows : InRow(o, r)}
    /\ UNCHANGED <<clock, user, told, rows, byAi, sent>>

Tick ==
    /\ clock < MaxClock
    /\ clock' = clock + 1
    /\ UNCHANGED <<faults, user, told, rows, windows, byAi, sent, owed>>

Next ==
    \/ FlushDue \/ FlushFails
    \/ \E v \in Verdicts : NewsImpacts(v) \/ NewsImpactsFail(v)
    \/ \E n \in NewsKeys : Keyword(n)
    \/ \E s \in Listed : Divergence(s) \/ SetWatch(s)
    \/ \E x \in Sectors : SetOverride(x)
    \/ Restart \/ Tick

Spec == Init /\ [][Next]_vars

-----------------------------------------------------------------------------
TypeOK ==
    /\ clock \in 0..MaxClock /\ faults \in 0..MaxFaults /\ edits \in 0..MaxEdits
    /\ watch \in [Listed -> {"absent", "watched", "held"}]
    /\ override \in [Sectors -> {"none", "add", "remove"}]
    /\ \A h \in windows : h.group \in Groups
    /\ byAi \cup sent \subseteq KeysOf(rows)

\* What a committed verdict called for is an alert, in a digest or in a window, until
\* a restart wipes the window out: through failed flushes, digests of three groups
\* under keys of their own, the limit of the day and keyword alerts of the same key.
NothingOwedIsDropped ==
    \A o \in owed : (\E r \in rows : InRow(o, r)) \/ (\E h \in windows : InWindow(o, h))

\* However verdicts, keyword alerts and midnight fall, a stock has on a day at most
\* its limit of alerts made by verdicts, and the limit of overseas alerts holds.
LimitsHold ==
    \A d \in 0..Day(MaxClock) :
        LET today == {r \in rows : Day(r.at) = d} IN
        /\ \A s \in Listed : Cardinality({r \in today : r.key \in byAi /\ r.key[3] = s}) <= StockLimit
        /\ Cardinality({r \in today : r.key[1] = "overseas"}) <= OverseasLimit

\* A row is shown at the first moment outside the quiet hours; it has been published
\* if and only if that was at once; nothing rolled back has been published.
QuietAndSent ==
    \A r \in rows :
        /\ r.visible >= r.at /\ ~Night(r.visible)
        /\ \A c \in r.at..(r.visible - 1) : Night(c)
        /\ r.key \in sent <=> r.visible = r.at

\* Verdicts come to the alerts they call for, in their number and in their time.
VerdictsAreSound == TypeOK /\ NothingOwedIsDropped /\ LimitsHold /\ QuietAndSent
=============================================================================
