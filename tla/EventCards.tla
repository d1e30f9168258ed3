------------------------------ MODULE EventCards ------------------------------
(***************************************************************************)
(* The event cards of the feed layout (services/news_feed_layout.py): the  *)
(* topics of a pool of fixed size become cards, cards of one event are     *)
(* fused, and the page opens the detail of a card by the card's key, which *)
(* is made of the keys that were fused.  The detail is computed again from *)
(* the tables.                                                             *)
(***************************************************************************)
EXTENDS Naturals, Sequences, FiniteSets, SequencesExt, FiniteSetsExt

CONSTANTS
    Topics,      \* the topics by falling importance: a sequence of records
                 \*   words (of the title), type, important (a score of 0.55 or more)
    News,        \* numbers: a later news has a higher number
    Story,       \* Story[n]: market, type, mentions (pairs of symbol and market)
    MayLink,     \* the pairs <<topic, news>> the pipeline may link
    Markets,
    All,         \* no filter
    General,     \* the type of an event that fits no pattern: above the others
    PoolSize,    \* TOPIC_CANDIDATE_LIMIT
    CardNews,    \* max_news_items of the layout
    SymbolLimit, \* 5
    None

VARIABLES
    links,       \* topic_news_link
    layout,      \* what the page shows: the filter, its cards, and the links they came from
    detail       \* what opening a card gave

vars == <<links, layout, detail>>

Init ==
    /\ links = {}
    /\ layout = [market |-> All, cards |-> <<>>, from |-> {}]
    /\ detail = None

-----------------------------------------------------------------------------
(* _collect_topic_context, from the links ls that it reads. *)

NewsOf(ls, t, market) == {n \in News : <<t, n>> \in ls /\ market \in {All, Story[n].market}}

\* Symbols of a topic, the most mentioned first: the filter applies to the news
\* and to the mention.
Mentioned(ls, t, market) ==
    LET times(s) == Cardinality({n \in NewsOf(ls, t, market) :
                                   \E x \in Story[n].mentions : x[1] = s /\ market \in {All, x[2]}})
        symbols == {s \in UNION {{x[1] : x \in Story[n].mentions} : n \in News} : times(s) > 0}
    IN  SetToSortSeq(symbols, LAMBDA a, b : times(a) > times(b) \/ (times(a) = times(b) /\ a < b))

AtMost(s, k) == SubSeq(s, 1, IF Len(s) < k THEN Len(s) ELSE k)
Newest(ns, k) == {n \in ns : Cardinality({m \in ns : m > n}) < k}

Size == IF Len(Topics) < PoolSize THEN Len(Topics) ELSE PoolSize

TopicViews(ls, market) == {t \in 1..Size : NewsOf(ls, t, market) # {}}

-----------------------------------------------------------------------------
(* build_event_cards *)

Qualifies(ls, t, market) ==
    \/ Topics[t].important
    \/ Cardinality(NewsOf(ls, t, market)) >= 2
    \/ Mentioned(ls, t, market) # <<>>

\* The first pattern found in the topic's texts and its two newest titles.
EventType(ls, t, market) ==
    Min({Topics[t].type} \union {Story[n].type : n \in Newest(NewsOf(ls, t, market), 2)})

\* max is None for the detail
Shown(ns, max) == IF max = None THEN ns ELSE Newest(ns, max)

Card(ls, t, market, max) ==
    LET symbols == AtMost(Mentioned(ls, t, market), SymbolLimit)
    IN  [key |-> <<t>>, words |-> Topics[t].words, type |-> EventType(ls, t, market),
         primary |-> IF symbols = <<>> THEN None ELSE symbols[1],
         symbols |-> symbols,
         count |-> Cardinality(NewsOf(ls, t, market)),
         news |-> Shown(NewsOf(ls, t, market), max)]

\* Half of the words of both titles, or more, are common.
TitlesOverlap(a, b) ==
    a \union b # {} /\ 2 * Cardinality(a \cap b) >= Cardinality(a \union b)

ShouldFuse(a, b) ==
    /\ a.type # General /\ a.type = b.type
    /\ \/ a.primary # None /\ a.primary = b.primary
       \/ Cardinality(ToSet(a.symbols) \cap ToSet(b.symbols)) >= 2
       \/ TitlesOverlap(a.words, b.words)

MergedSymbols(a, b) == AtMost(a \o SelectSeq(b, LAMBDA s : s \notin ToSet(a)), SymbolLimit)

Merge(a, b, max) ==
    [key |-> a.key \o b.key, words |-> a.words, type |-> a.type,
     primary |-> IF a.primary # None THEN a.primary ELSE b.primary,
     symbols |-> MergedSymbols(a.symbols, b.symbols),
     count |-> Cardinality(a.news \union b.news),
     news |-> Shown(a.news \union b.news, max)]

\* The later cards of one type, by which the loop is pruned.  Cards are numbered by
\* their topics.
Buckets(cards) ==
    [i \in DOMAIN cards |->
        {j \in DOMAIN cards : j > i /\ cards[i].type # General /\ cards[j].type = cards[i].type}]

\* The loop without pruning.
AllLater(cards) == [i \in DOMAIN cards |-> {j \in DOMAIN cards : j > i}]

\* A card takes in another one, unless that is part of a card already.
Absorb(cards, acc, j, later, max) ==
    IF j \in later /\ j \notin acc.fused /\ ShouldFuse(acc.card, cards[j])
    THEN [card |-> Merge(acc.card, cards[j], max), fused |-> acc.fused \union {j}]
    ELSE acc

Grown(cards, fused, i, later, max) ==
    LET upTo[j \in 0..Size] ==
            IF j <= i THEN [card |-> cards[i], fused |-> fused]
            ELSE Absorb(cards, upTo[j - 1], j, later, max)
    IN  upTo[Size]

Collect(cards, acc, i, later, max) ==
    IF i \notin DOMAIN cards \/ i \in acc.fused THEN acc
    ELSE LET end == Grown(cards, acc.fused, i, later[i], max)
         IN  [result |-> Append(acc.result, end.card), fused |-> end.fused]

FuseOver(cards, max, later) ==
    LET upTo[i \in 0..Size] ==
            IF i = 0 THEN [result |-> <<>>, fused |-> {}]
            ELSE Collect(cards, upTo[i - 1], i, later, max)
    IN  upTo[Size].result

Fuse(cards, max) == FuseOver(cards, max, Buckets(cards))

Candidates(ls, market, max) ==
    [t \in {u \in TopicViews(ls, market) : Qualifies(ls, u, market)} |-> Card(ls, t, market, max)]

Cards(ls, market, max) == Fuse(Candidates(ls, market, max), max)

-----------------------------------------------------------------------------
\* The signal pipeline links a news to a topic.
Link ==
    \E l \in MayLink \ links :
        /\ links' = links \union {l}
        /\ UNCHANGED <<layout, detail>>

\* GET /news/feed-layout, with the page's market filter.
LoadLayout ==
    \E market \in Markets \union {All} :
        /\ layout' = [market |-> market, cards |-> Cards(links, market, CardNews), from |-> links]
        /\ detail' = None
        /\ UNCHANGED links

\* The first of some cards that has a key, as a set: empty for the answer 404.
Find(cards, key) ==
    {cards[i] : i \in {j \in DOMAIN cards : /\ cards[j].key = key
                                            /\ \A k \in DOMAIN cards : cards[k].key = key => j <= k}}

\* Mutation of DetailOf: the cards are those before the fusion.
DetailUnfused(ls, key) == [key |-> key, found |-> Find(Candidates(ls, All, None), key)]

\* GET /news/events/{event_key}: the key is all it is given.
DetailOf(ls, key) == [key |-> key, found |-> Find(Cards(ls, All, None), key)]

OpenCard ==
    \E i \in 1..Len(layout.cards) :
        /\ detail' = DetailOf(links, layout.cards[i].key)
        /\ UNCHANGED <<links, layout>>

Next == Link \/ LoadLayout \/ OpenCard

Spec == Init /\ [][Next]_vars

-----------------------------------------------------------------------------
TypeOK ==
    /\ links \subseteq MayLink /\ layout.from \subseteq links
    /\ layout.market \in Markets \union {All}

\* "融合结果与全量两两比较完全一致" (news_feed_layout.py:406): comparing within
\* a type gives the cards that comparing all pairs gives.
PruningChangesNothing ==
    LET all == Candidates(layout.from, layout.market, CardNews)
    IN  layout.cards = FuseOver(all, CardNews, AllLater(all))

\* Every topic that qualifies is in exactly one card.
EveryTopicOnce ==
    \A t \in 1..Size :
        Cardinality({i \in 1..Len(layout.cards) : t \in ToSet(layout.cards[i].key)})
            = IF t \in DOMAIN Candidates(layout.from, layout.market, CardNews) THEN 1 ELSE 0

\* The card opened, computed from the tables the layout was computed from.
OpenedAsLoaded == detail # None /\ layout.from = links

Opened == CHOOSE i \in 1..Len(layout.cards) : layout.cards[i].key = detail.key

\* With no filter the key of a card is found, and the detail has all the news the
\* card shows or counts: cutting a card's news to three does not change what fuses.
UnfilteredKeysResolve ==
    OpenedAsLoaded /\ layout.market = All =>
        LET card == layout.cards[Opened]
        IN  \E whole \in detail.found :
                /\ card.news \subseteq whole.news
                /\ card.count <= Cardinality(whole.news)
                /\ card.type = whole.type /\ card.primary = whole.primary

CardsAreSound == PruningChangesNothing /\ EveryTopicOnce /\ UnfilteredKeysResolve
=============================================================================
