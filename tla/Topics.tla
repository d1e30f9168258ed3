-------------------------------- MODULE Topics --------------------------------
(***************************************************************************)
(* How classified news are gathered into topics: the second half of the    *)
(* signal pipeline (services/news_signal_pipeline.py), the repository's    *)
(* matching and statistics, and the script that prunes old topics, which   *)
(* an operator may run while the pipeline works.                           *)
(*                                                                         *)
(* The session does not autoflush (db/session.py:85): what the pipeline    *)
(* adds is written at the next flush, which only create_topic and the      *)
(* commit do, and a SELECT before that does not see it.                    *)
(***************************************************************************)
EXTENDS Naturals, Sequences, FiniteSets, Functions

CONSTANTS
    News,        \* numbers: the pipeline works in the order of the ids
    Readings,    \* Readings[n]: the keyword lists a classification of n may yield
    Text,        \* Text[n]: the words of n's title and summary
    Themes,      \* words that name a theme
    Generic,     \* words that say nothing of the event
    OldTopics,   \* rows an earlier rule may have left
    None,
    BatchSize, MaxTopics, MaxPrunes, MaxRetries

VARIABLES
    topics,      \* topics[t]: the row of topic t: its key, its keywords, and
                 \* the news its statistics were computed from; None if there is none
    links,       \* the rows <<topic, news>>
    processed,   \* the news whose signal_status is written
    todo,        \* the news of the batch still to apply, with their keywords
    done,        \* those applied
    flushed,     \* topics and links written, not yet committed
    added,       \* links the session has not flushed
    candidates,  \* the topics matched by keyword: read once per session
    touched,
    counted,     \* statistics computed, not yet flushed
    pc,          \* of the pipeline
    seen,        \* what the script read: topics to drop, links to drop, topics emptied
    prunes, retries,
    pruned,      \* history: links the script has removed
    owed         \* history: the links topic t had before the batch that last touched it

pipeline == <<todo, done, flushed, added, candidates, touched, counted, pc>>
vars == <<topics, links, processed, todo, done, flushed, added, candidates, touched, counted,
          pc, seen, prunes, retries, pruned, owed>>

TopicIds == 1..MaxTopics
Fallback == <<>>      \* general-market-update

Least(numbers) == CHOOSE i \in numbers : \A j \in numbers : i <= j

Meaningful(words) == Range(words) \ Generic

\* The first meaningful word.
Subject(words) ==
    LET at == {i \in DOMAIN words : words[i] \notin Generic}
    IN  IF at = {} THEN None ELSE words[Least(at)]

\* Entity, then up to two themes, or else the next two keywords.
TopicKey(words) ==
    LET rest == 2..Len(words)
        themes == {i \in rest : words[i] \in Themes}
        chosen == IF themes = {} THEN rest ELSE themes
        first == Least(chosen)
        others == chosen \ {first}
    IN  IF words = <<>> THEN Fallback
        ELSE IF chosen = {} THEN <<words[1]>>
        ELSE IF others = {} THEN <<words[1], words[first]>>
        ELSE <<words[1], words[first], words[Least(others)]>>

Clusterable(key) == key # Fallback /\ key[1] \notin Generic

\* Mutation of KeywordsMatch: the subject need not be shared.
KeywordsMatchLoosely(words, existing) ==
    Cardinality(Meaningful(words) \cap Meaningful(existing)) >= 1

\* At least two meaningful keywords in common, the subject of the topic one of them.
KeywordsMatch(words, existing) ==
    /\ Cardinality(Meaningful(words)) >= 2
    /\ Meaningful(existing) # {} /\ Subject(existing) \in Meaningful(words)
    /\ Cardinality(Meaningful(words) \cap Meaningful(existing)) >= 2

Entity(topic) == IF Subject(topic.words) # None THEN Subject(topic.words) ELSE Subject(topic.key)

Rows == {t \in TopicIds : topics[t] # None}
LinkedIn(rows, t) == {l[2] : l \in {r \in rows : r[1] = t}}

Init ==
    /\ \E old \in OldTopics \union {None} :
         topics = [t \in TopicIds |-> IF t = 1 THEN old ELSE None]
    /\ links = {} /\ processed = {}
    /\ todo = <<>> /\ done = {} /\ flushed = [topics |-> [t \in {} |-> None], links |-> {}]
    /\ added = {} /\ candidates = None /\ touched = {} /\ counted = [t \in {} |-> {}]
    /\ pc = "idle"
    /\ seen = None /\ prunes = 0 /\ retries = 0
    /\ pruned = {} /\ owed = [t \in TopicIds |-> {}]

-----------------------------------------------------------------------------
(* The pipeline. *)

\* A new session takes pending news and classifies them, by rule or by model:
\* no write transaction is open while that goes on.
StartBatch ==
    /\ pc = "idle"
    /\ \E batch \in SUBSET (News \ processed) :
         /\ batch # {} /\ Cardinality(batch) <= BatchSize
         /\ \E reading \in [batch -> UNION {Readings[n] : n \in News}] :
              /\ \A n \in batch : reading[n] \in Readings[n]
              /\ \E order \in [1..Cardinality(batch) -> batch] :
                   /\ \A i, j \in DOMAIN order : i < j => order[i] < order[j]
                   /\ todo' = [i \in DOMAIN order |->
                                 [news |-> order[i], words |-> reading[order[i]]]]
    /\ pc' = "apply"
    /\ UNCHANGED <<topics, links, processed, done, flushed, added, candidates, touched, counted,
                   seen, prunes, retries, pruned, owed>>

\* What a SELECT of the pipeline's session sees.
VisibleTopics == Rows \union DOMAIN flushed.topics
RowOf(t) == IF t \in DOMAIN flushed.topics THEN flushed.topics[t] ELSE topics[t]

Candidates ==
    IF candidates # None THEN candidates.rows
    ELSE {[id |-> t, words |-> RowOf(t).words] : t \in VisibleTopics}
CandidateIds == IF candidates = None THEN {} ELSE {c.id : c \in candidates.rows}

Exact(key) == {t \in VisibleTopics : RowOf(t).key = key}
Matching(words) == {c.id : c \in {d \in Candidates : KeywordsMatch(words, d.words)}}

\* The very key, or else the first candidate that matches, by id: one read earlier in
\* the session may be gone by now.
FindTopic(key, words) ==
    IF Exact(key) # {} THEN CHOOSE t \in Exact(key) : TRUE
    ELSE IF Matching(words) # {} THEN Least(Matching(words)) ELSE None

\* The candidates are read when the first key is not found.
Remember(key) == candidates' = IF Exact(key) = {} THEN [rows |-> Candidates] ELSE candidates

\* Ids rise.  One the database gives again is a new one here.
FreeIds == {t \in TopicIds :
              \A u \in VisibleTopics \union {l[1] : l \in pruned} \union CandidateIds : u < t}

\* create_topic flushes: everything the session holds is written with it.
CreateTopic(key, words, n) ==
    /\ FreeIds # {}
    /\ LET t == Least(FreeIds)
           row == [key |-> key, words |-> words, counted |-> {}]
       IN  /\ flushed' = [topics |-> [x \in DOMAIN flushed.topics \union {t} |->
                                        IF x = t THEN row ELSE flushed.topics[x]],
                          links |-> flushed.links \union added]
           /\ added' = {<<t, n>>}
           /\ touched' = touched \union {t}
           /\ candidates' = [rows |-> Candidates \union {[id |-> t, words |-> words]}]

JoinTopic(t, key, n) ==
    /\ added' = added \union ({<<t, n>>} \ links)
    /\ touched' = touched \union {t}
    /\ Remember(key)
    /\ UNCHANGED flushed

ApplyResult ==
    /\ pc = "apply" /\ todo # <<>>
    /\ LET n == Head(todo).news
           words == Head(todo).words
           key == TopicKey(words)
           found == FindTopic(key, words)
       IN  /\ todo' = Tail(todo)
           /\ done' = done \union {n}
           /\ \/ ~Clusterable(key) /\ UNCHANGED <<flushed, added, candidates, touched>>
              \/ Clusterable(key) /\ found # None /\ JoinTopic(found, key, n)
              \/ Clusterable(key) /\ found = None /\ CreateTopic(key, words, n)
    /\ UNCHANGED <<topics, links, processed, counted, pc, seen, prunes, retries, pruned, owed>>

\* refresh_topic_stats: two SELECTs, which miss the links not flushed.  A topic
\* without news, or whose row has gone, keeps what it has.
RefreshTopicStats(ids, visible) ==
    [t \in {x \in ids : LinkedIn(visible, x) # {}} |-> LinkedIn(visible, t)]

Refresh ==
    /\ pc = "apply" /\ todo = <<>>
    /\ counted' = RefreshTopicStats(touched \cap VisibleTopics, links \union flushed.links)
    /\ pc' = "commit"
    /\ UNCHANGED <<topics, links, processed, todo, done, flushed, added, candidates, touched,
                   seen, prunes, retries, pruned, owed>>

EndSession ==
    /\ pc' = "idle"
    /\ todo' = <<>> /\ done' = {} /\ flushed' = [topics |-> [t \in {} |-> None], links |-> {}]
    /\ added' = {} /\ candidates' = None /\ touched' = {} /\ counted' = [t \in {} |-> {}]

\* A topic the session updates or links to must still be there (foreign key,
\* row count of the UPDATE).
CanCommit == touched \subseteq VisibleTopics

Commit ==
    /\ pc = "commit" /\ CanCommit
    /\ topics' = [t \in TopicIds |->
                    LET row == IF t \in VisibleTopics THEN RowOf(t) ELSE None
                    IN  IF t \in DOMAIN counted THEN [row EXCEPT !.counted = counted[t]] ELSE row]
    /\ links' = links \union flushed.links \union added
    /\ processed' = processed \union done
    /\ owed' = [t \in TopicIds |-> IF t \in touched THEN LinkedIn(links, t) ELSE owed[t]]
    /\ EndSession
    /\ UNCHANGED <<seen, prunes, retries, pruned>>

\* The commit is refused, or anything before it failed: nothing of the batch
\* stays, its news are still pending.
RollBack ==
    /\ pc # "idle"
    /\ (pc = "commit" /\ ~CanCommit) \/ retries < MaxRetries
    /\ retries' = IF retries < MaxRetries THEN retries + 1 ELSE retries
    /\ EndSession
    /\ UNCHANGED <<topics, links, processed, seen, prunes, pruned, owed>>

-----------------------------------------------------------------------------
(* scripts/prune_topic_clusters.py *)

Unrelated(t, n) == Entity(topics[t]) # None /\ Entity(topics[t]) \notin Text[n]

\* The script's SELECTs hold no lock: the pipeline may commit before it deletes.
PruneReads ==
    /\ seen = None /\ prunes < MaxPrunes
    /\ prunes' = prunes + 1
    /\ LET drop == {t \in Rows : ~Clusterable(topics[t].key)}
           unrelated == {l \in links : l[1] \notin drop /\ Unrelated(l[1], l[2])}
           kept == {l \in links : l[1] \notin drop /\ ~Unrelated(l[1], l[2])}
           hit == {l[1] : l \in unrelated}
       IN  seen' = [drop |-> drop, unrelated |-> unrelated, hit |-> hit,
                    emptied |-> {t \in hit : LinkedIn(kept, t) = {}}]
    /\ UNCHANGED <<topics, links, processed, pipeline, retries, pruned, owed>>

\* One write transaction.  It waits for a session that has flushed.
PruneWrites ==
    /\ seen # None
    /\ DOMAIN flushed.topics = {}
    /\ LET doomed == seen.drop \union seen.emptied
           gone == {l \in links : l[1] \in doomed} \union seen.unrelated
           rest == links \ gone
           fresh == RefreshTopicStats((seen.hit \ seen.emptied) \cap Rows, rest)
       IN  /\ links' = rest
           /\ topics' = [t \in TopicIds |->
                           IF t \in doomed THEN None
                           ELSE IF t \in DOMAIN fresh THEN [topics[t] EXCEPT !.counted = fresh[t]]
                           ELSE topics[t]]
           /\ pruned' = pruned \union gone
    /\ seen' = None
    /\ UNCHANGED <<processed, pipeline, prunes, retries, owed>>

Next ==
    \/ StartBatch \/ ApplyResult \/ Refresh \/ Commit \/ RollBack
    \/ PruneReads \/ PruneWrites

Spec == Init /\ [][Next]_vars

-----------------------------------------------------------------------------
TypeOK ==
    /\ links \subseteq TopicIds \X News
    /\ processed \subseteq News
    /\ pc \in {"idle", "apply", "commit"}
    /\ touched \subseteq TopicIds

\* No link points at a topic that is gone, and no two topics have one key,
\* however the script and the pipeline overlap.
LinksHold ==
    /\ \A l \in links : topics[l[1]] # None
    /\ \A t, u \in Rows : topics[t].key = topics[u].key => t = u

\* A member of a topic shares its subject: a news is in a topic only if some
\* reading of it names the subject of the topic.
MembersShareTheSubject ==
    \A l \in links : \E w \in Readings[l[2]] : Entity(topics[l[1]]) \in Range(w)

\* A topic's statistics lag by no more than the last batch that touched it:
\* they count every news linked before, unless the script removed the link.
StatisticsLagOneBatch ==
    \A t \in Rows : owed[t] \subseteq topics[t].counted \union LinkedIn(pruned, t)

\* They count only news that are, or were, linked to the topic.
StatisticsAreOwn ==
    \A t \in Rows : topics[t].counted \subseteq LinkedIn(links \union pruned, t)

\* A processed news has its link unless its key is not clusterable under some
\* reading, or the script took the link away.
ProcessedIsLinked ==
    \A n \in processed :
        \/ \E l \in links \union pruned : l[2] = n
        \/ \E w \in Readings[n] : ~Clusterable(TopicKey(w))

TopicsAreSound ==
    /\ LinksHold /\ MembersShareTheSubject
    /\ StatisticsLagOneBatch /\ StatisticsAreOwn
    /\ ProcessedIsLinked

\* news_signal_repository.py:148: "刷新 touched topics 的统计字段", from the
\* topic's own news: after the commit a topic counts the news linked to it.
CountedStep ==
    \A t \in touched : pc = "commit" /\ pc' = "idle" /\ processed' # processed
      => topics'[t].counted = LinkedIn(links', t)

StatisticsFollowLinks == [][CountedStep]_vars
=============================================================================
