------------------------------ MODULE MCContent ------------------------------
(*****************************************************************************)
(* Instances of the modules about what becomes of an item between its feed   *)
(* and the reader. They have no state in common, so one run explores them    *)
(* one at a time: "active" names the one that moves.                         *)
(*****************************************************************************)
EXTENDS Articles, Integers, Sequences

CONSTANTS
    All,
    SlotsPerDay, QuietStart, QuietEnd,        \* of QuietHours
    Alerts, Requests, MaxClock, MaxAsked,     \* of AlertCentre
    ListRows, At, Labels, Limit, MaxLoads, MaxRelabels,   \* of FeedPages
    Vocabulary, Classified, Readings, TextOf, Themes, Generic, OldTopics,
    BatchSize, MaxTopics, MaxPrunes, MaxRetries,      \* of Topics
    Links, Host, Titles, GateTimes, DuplicateWindow, MaxPrimeWindow, Sources, Rank,
    MaxItems, MaxRows,                        \* of DuplicateGate
    MaxTerms,                                 \* of RelevanceGate
    Urls, ItemLimit, PageLength, FeedSlots, DaysPerYear, Tolerance,
    MaxFeedNow, MaxRecords,                   \* of FeedParsing
    EventTopics, EventNews, Story, Markets, MayLink, General, PoolSize, CardNews,
    SymbolLimit                               \* of EventCards

ASSUME TermsAssumption == MaxTerms \in Nat

ASSUME CentreAssumption ==
    /\ IsFiniteSet(Alerts)
    /\ SlotsPerDay \in Nat \ {0} /\ QuietStart \in Nat /\ QuietEnd \in Nat
    /\ MaxClock \in Nat /\ MaxAsked \in Nat
    /\ None \notin [visible : Int, read : BOOLEAN]
    /\ None \notin [kind : {"list", "count", "mark", "all"}, of : Alerts \cup {None},
                    stage : {"asked", "answered"}, answer : SUBSET (Alerts \X BOOLEAN),
                    calm : BOOLEAN]

\* Rows are numbered as they are stored, a time is a number, a page has rows.
ASSUME PagesAssumption ==
    /\ ListRows \in SUBSET Nat /\ IsFiniteSet(ListRows) /\ At \in [ListRows -> Nat]
    /\ Limit \in Nat \ {0}
    /\ None \notin ListRows /\ None \notin Labels
    /\ None \notin [filter : Labels \cup {All}, after : ListRows \cup {None},
                    answer : [rows : Seq(ListRows), next : ListRows \cup {None}] \cup {None},
                    was : [ListRows -> Labels \cup {None}] \cup {None},
                    hit : BOOLEAN, current : BOOLEAN]

\* News are numbered, what is read in them are lists of words.
ASSUME TopicsAssumption ==
    /\ Classified \subseteq Nat /\ IsFiniteSet(Classified)
    /\ Readings \in [Classified -> SUBSET Seq(Vocabulary)]
    /\ None \notin Vocabulary /\ None \notin Nat /\ MaxTopics \in Nat
    /\ None \notin [key : Seq(Vocabulary), words : Seq(Vocabulary), counted : SUBSET Classified]
    /\ None \notin [rows : SUBSET [id : Nat, words : Seq(Vocabulary)]]

VARIABLES
    active,
    parser, text, page, published, feedNow, stored, since,
    source, title, body,
    rows, visible, saved, index, sourceBatch, seenLinks, judge, persisted, gateNow,
    topics, topicLinks, processed, todo, done, flushed, added, candidates, touched,
    counted, pc, seen, prunes, retries, pruned, owed,
    links, layout, detail,
    db, cache, items, query, cursor, load, more, loads, relabels, unseen, mixed,
    centreClock, askedFor, centreRows, pushed, shown, unread, centreCalls, late, untold,
    exact

\* Of Articles: a news of a feed with detail pages that another feed has with a summary.
Offered == [d |-> {"detail", "summary"}]

\* Its pages: one container; a thin element before or after the news; a notice.
Containers == { <<[matches |-> {1, 2}, text |-> "news"]>>,
                <<[matches |-> {1}, text |-> "thin"], [matches |-> {1, 2}, text |-> "news"]>>,
                <<[matches |-> {2}, text |-> "news"], [matches |-> {1}, text |-> "wall"]>>,
                <<[matches |-> {1}, text |-> "thin"]>> }

\* Of Topics: what the classification may read in three news on two companies, "stock"
\* generic and "chip" a theme.
Classification == << {<<"acme", "chip">>},
                     {<<"acme", "plant", "chip">>, <<"stock">>},
                     {<<"bolt", "acme", "chip">>, <<"acme", "plant">>} >>
Words == << {"acme"}, {"plant"}, {"bolt", "acme"} >>
Old == {[key |-> <<"stock", "chip">>, words |-> <<"stock", "acme", "chip">>, counted |-> {}]}

\* Of EventCards: three topics of two markets may be one event; 9 is the general type.
Ranked == << [words |-> {"acme", "chip"}, type |-> 1, important |-> TRUE],
             [words |-> {"acme", "plant", "chip"}, type |-> 9, important |-> FALSE],
             [words |-> {"bolt"}, type |-> 1, important |-> FALSE],
             [words |-> {"late"}, type |-> 1, important |-> TRUE] >>
Stories == << [market |-> "us", type |-> 9, mentions |-> {<<10, "us">>, <<11, "us">>}],
              [market |-> "us", type |-> 9, mentions |-> {}],
              [market |-> "cn", type |-> 1, mentions |-> {<<20, "cn">>, <<10, "us">>}],
              [market |-> "cn", type |-> 2, mentions |-> {<<20, "cn">>}] >>
Pairs == {<<1, 1>>, <<1, 3>>, <<2, 2>>, <<2, 3>>, <<3, 3>>, <<3, 4>>}

\* Of DuplicateGate: two titles that are alike only for the judge, a site and its mirror,
\* an official source and one that reprints.
TwoTitles == {[words |-> w, numbers |-> 1, short |-> FALSE] : w \in {0, 1}}
Hosts == [page |-> "site", mobile |-> "site"]
Ranks == [official |-> 2, reprint |-> 1]

\* Of FeedPages: two rows of one time, the last one published before the others.
Effective == <<2, 2, 1>>

Parsing == INSTANCE FeedParsing WITH
    now <- feedNow, Limit <- ItemLimit, SlotsPerDay <- FeedSlots, MaxNow <- MaxFeedNow

\* A clock may be ahead by less than a day.
ASSUME FeedAssumption ==
    /\ ItemLimit \in Nat /\ PageLength \in Nat
    /\ FeedSlots \in Nat \ {0} /\ DaysPerYear \in Nat \ {0} /\ Tolerance \in 0..(FeedSlots - 1)
    /\ None \notin Urls /\ None \notin Parsing!Times

Relevance == INSTANCE RelevanceGate

Gate == INSTANCE DuplicateGate WITH
    db <- visible, batch <- sourceBatch, seen <- seenLinks, items <- persisted, now <- gateNow,
    Window <- DuplicateWindow, Times <- GateTimes

\* Times are numbers, sources have a rank, and NULL is neither a time nor a batch.
ASSUME GateAssumption ==
    /\ GateTimes \subseteq Nat /\ DuplicateWindow \in Nat /\ MaxRows \in Nat /\ MaxItems \in Nat
    /\ Rank \in [Sources -> Nat]
    /\ None \notin GateTimes /\ None \notin Gate!Batches

Subjects == INSTANCE Topics WITH
    links <- topicLinks, News <- Classified, Text <- TextOf

\* An old row whose key says something is about the key's first word, too, and has
\* counted none of the news.
ASSUME OldTopicsAssumption ==
    \A old \in OldTopics :
        /\ old \in [key : Seq(Vocabulary), words : Seq(Vocabulary), counted : {{}}]
        /\ Subjects!Clusterable(old.key) => Subjects!Entity(old) = old.key[1]

Cards == INSTANCE EventCards WITH Topics <- EventTopics, News <- EventNews

\* News are numbered, topics are in their order.
ASSUME CardsAssumption ==
    /\ Len(EventTopics) \in Nat /\ PoolSize \in Nat
    /\ EventNews \subseteq Nat /\ IsFiniteSet(EventNews)

Lists == INSTANCE FeedPages WITH Rows <- ListRows

Centre == INSTANCE AlertCentre WITH
    clock <- centreClock, rows <- centreRows, asked <- askedFor, call <- centreCalls

parsingVars == <<parser, text, page, published, feedNow, stored, since>>
relevanceVars == <<source, title, body>>
gateVars == <<rows, visible, saved, index, sourceBatch, seenLinks, judge, persisted,
    gateNow>>
articlesVars == <<signal, dated, article, refresh, failures, batch, now, batches, raced>>
topicsVars == <<topics, topicLinks, processed, todo, done, flushed, added, candidates,
    touched, counted, pc, seen, prunes, retries, pruned, owed>>
cardsVars == <<links, layout, detail>>
pagesVars == <<db, cache, items, query, cursor, load, more, loads, relabels, unseen, mixed>>
centreVars == <<centreClock, askedFor, centreRows, pushed, shown, unread, centreCalls, late,
    untold, exact>>
allVars == <<active, parsingVars, relevanceVars, gateVars, articlesVars, topicsVars,
    cardsVars, pagesVars, centreVars>>

OneInit ==
    /\ active \in {"parsing", "relevance", "gate", "articles", "topics", "cards", "pages",
       "centre"}
    /\ IF active = "parsing" THEN TRUE
       ELSE parser = "skip" /\ text = CHOOSE t \in Parsing!Texts : TRUE
    /\ IF active = "relevance" THEN TRUE ELSE source = "plain"
    /\ IF active = "gate" THEN TRUE ELSE judge = [pair \in Gate!GrayZone |-> TRUE]
    /\ Parsing!Init /\ Relevance!Init /\ Gate!Init /\ Init /\ Subjects!Init /\ Cards!Init
    /\ Lists!Init /\ Centre!Init
    /\ active # "topics" => topics[1] = None

OneNext ==
    /\ UNCHANGED active
    /\ \/ active = "parsing" /\ Parsing!Next
          /\ UNCHANGED <<relevanceVars, gateVars, articlesVars, topicsVars, cardsVars,
                        pagesVars, centreVars>>
       \/ active = "relevance" /\ Relevance!Next
          /\ UNCHANGED <<parsingVars, gateVars, articlesVars, topicsVars, cardsVars,
                        pagesVars, centreVars>>
       \/ active = "gate" /\ Gate!Next
          /\ UNCHANGED <<parsingVars, relevanceVars, articlesVars, topicsVars, cardsVars,
                        pagesVars, centreVars>>
       \/ active = "articles" /\ Next
          /\ UNCHANGED <<parsingVars, relevanceVars, gateVars, topicsVars, cardsVars,
                        pagesVars, centreVars>>
       \/ active = "topics" /\ Subjects!Next
          /\ UNCHANGED <<parsingVars, relevanceVars, gateVars, articlesVars, cardsVars,
                        pagesVars, centreVars>>
       \/ active = "cards" /\ Cards!Next
          /\ UNCHANGED <<parsingVars, relevanceVars, gateVars, articlesVars, topicsVars,
                        pagesVars, centreVars>>
       \/ active = "pages" /\ Lists!Next
          /\ UNCHANGED <<parsingVars, relevanceVars, gateVars, articlesVars, topicsVars,
                        cardsVars, centreVars>>
       \/ active = "centre" /\ Centre!Next
          /\ UNCHANGED <<parsingVars, relevanceVars, gateVars, articlesVars, topicsVars,
                        cardsVars, pagesVars>>

OneSpec == OneInit /\ [][OneNext]_allVars

-----------------------------------------------------------------------------
\* FeedParsing: no record is missed while few appear between two polls, and
\* each gets the right time or none.
FeedsAreRead == [][active = "parsing" => Parsing!SoundStep]_parsingVars

\* RelevanceGate: a relevant item stays relevant when it says more.
MoreIsNotLess == [][active = "relevance" => Relevance!SoundStep]_relevanceVars

\* DuplicateGate: while candidates are prefetched no story is stored twice.
GateIsSound == [][active = "gate" => Gate!SoundStep]_gateVars

\* Topics: links, subjects, statistics and the prune script agree.
TopicsAreSound == active = "topics" => Subjects!TypeOK /\ Subjects!TopicsAreSound

\* news_signal_repository.py:148: "刷新 touched topics 的统计字段": after the
\* commit a topic counts the news linked to it.
StatisticsFollowLinks == [][active = "topics" => Subjects!CountedStep]_topicsVars

\* EventCards: an unfiltered card opens on its own event, each topic is on one
\* card.
CardsAreSound == active = "cards" => Cards!TypeOK /\ Cards!CardsAreSound

\* FeedPages: the list has no row twice and skips none.
PagesAreSound == active = "pages" => Lists!TypeOK /\ Lists!PagesAreSound

\* AlertCentre: the page agrees with the server but for overlaps it does not
\* guard.
CentreIsSound == active = "centre" => Centre!TypeOK /\ Centre!CentreIsSound
=============================================================================
