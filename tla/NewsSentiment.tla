------------------------------ MODULE NewsSentiment ------------------------------
(***************************************************************************)
(* What the news of the last hours say of each market                      *)
(* (aggregate_all_markets in services/market_sentiment_service.py).  News  *)
(* count for the market of most of the shares they mention, else for their *)
(* own.  Their score comes from one classifier, or from the label of the   *)
(* analysis; mentions, scores and analyses are added later and in any      *)
(* order by other services.                                                *)
(***************************************************************************)
EXTENDS Integers, FiniteSets

CONSTANTS
    News,
    Markets,       \* the markets that are shown
    RawMarkets,    \* those of news and mentions
    MarketOf,      \* MarketOf[m]: the shown market of a raw one, or None
    Scores, Labels,
    Lookback, MinSample,
    None,
    MaxMentions, MaxNow

VARIABLES
    now,
    news,          \* news[n]: None, or [market, at]
    mentions,      \* mentions[n][m]: how many shares of a market
    score,         \* score[n]: None, or -1, 0, 1
    analysis       \* analysis[n]: None, "positive", "neutral", "negative" or "unknown"

vars == <<now, news, mentions, score, analysis>>

Stored == {n \in News : news[n] # None}

Total(f, S) ==
    LET sum[T \in SUBSET S] == IF T = {} THEN 0 ELSE LET x == CHOOSE x \in T : TRUE
                                                    IN  f[x] + sum[T \ {x}]
    IN  sum[S]

\* Mentions of shares of a shown market.
Mentioned(n, m) == Total(mentions[n], {raw \in RawMarkets : MarketOf[raw] = m})

\* _attribute_market: three of five, or more, of the mentions.
Attributed(n) ==
    LET all == Total([m \in Markets |-> Mentioned(n, m)], Markets)
        most == {m \in Markets : Mentioned(n, m) > 0 /\ 10 * Mentioned(n, m) >= 6 * all}
    IN  IF most # {} THEN CHOOSE m \in most : TRUE ELSE MarketOf[news[n].market]

LabelScores == [positive |-> 1, neutral |-> 0, negative |-> -1, unknown |-> None]

\* _resolve_score
Score(n) == IF score[n] # None THEN score[n]
            ELSE IF analysis[n] # None THEN LabelScores[analysis[n]] ELSE None

InWindow == {n \in Stored : news[n].at >= now - Lookback}
Bucket(m) == {n \in InWindow : Attributed(n) = m}

\* The sum, and the size of the sample.
Sentiment(m) ==
    LET sample == {n \in Bucket(m) : Score(n) # None}
    IN  IF Cardinality(sample) >= MinSample
        THEN [sum |-> Total([n \in sample |-> Score(n)], sample), count |-> Cardinality(sample)]
        ELSE None

-----------------------------------------------------------------------------
Init ==
    /\ now = 0
    /\ news = [n \in News |-> None]
    /\ mentions = [n \in News |-> [m \in RawMarkets |-> 0]]
    /\ score = [n \in News |-> None] /\ analysis = [n \in News |-> None]

\* effective_at: when it was published, or fetched.
Store(n) ==
    /\ news[n] = None
    /\ \E m \in RawMarkets, at \in 0..now : news' = [news EXCEPT ![n] = [market |-> m, at |-> at]]
    /\ UNCHANGED <<now, mentions, score, analysis>>

Mention(n) ==
    /\ n \in Stored
    /\ Total([o \in News |-> Total(mentions[o], RawMarkets)], News) < MaxMentions
    /\ \E m \in RawMarkets : mentions' = [mentions EXCEPT ![n][m] = @ + 1]
    /\ UNCHANGED <<now, news, score, analysis>>

Classify(n) ==
    /\ n \in Stored
    /\ \E s \in Scores : score' = [score EXCEPT ![n] = s]
    /\ UNCHANGED <<now, news, mentions, analysis>>

Analyse(n) ==
    /\ n \in Stored
    /\ \E a \in Labels : analysis' = [analysis EXCEPT ![n] = a]
    /\ UNCHANGED <<now, news, mentions, score>>

Tick ==
    /\ now < MaxNow
    /\ now' = now + 1
    /\ UNCHANGED <<news, mentions, score, analysis>>

Next == Tick \/ \E n \in News : Store(n) \/ Mention(n) \/ Classify(n) \/ Analyse(n)

Spec == Init /\ [][Next]_vars

-----------------------------------------------------------------------------
Home(n) == IF n \in Stored THEN Attributed(n) ELSE None

TypeOK ==
    \A n \in News : /\ Home(n) \in Markets \union {None}
                    /\ n \notin Stored => score[n] = None /\ analysis[n] = None

Mentions(n, m) == mentions'[n][m] > mentions[n][m]

\* What is learnt of news changes the market they count for, before or after, and no
\* other; a mention never takes news away from the market that it names, nor one of a
\* share elsewhere anything from any; and an analysis changes nothing of news that have
\* a score.
SoundStep ==
    /\ TypeOK'
    /\ \A n \in Stored, m \in RawMarkets : Mentions(n, m) =>
         /\ MarketOf[m] = Home(n) => Home(n)' = Home(n)
         /\ MarketOf[m] = None => Home(n)' = Home(n)
    /\ now' = now => \A m \in Markets : Sentiment(m)' # Sentiment(m) =>
         /\ \E n \in News : m \in {Home(n), Home(n)'}
                            /\ <<news'[n], mentions'[n], Score(n)'>> # <<news[n], mentions[n], Score(n)>>
         /\ \A n \in News : analysis'[n] # analysis[n] => score[n] = None
    /\ now' # now => \A m \in Markets : Sentiment(m)' # None => Sentiment(m) # None

NewsCountForOneMarket == [][SoundStep]_vars
=============================================================================
