------------------------------- MODULE StockNews -------------------------------
(***************************************************************************)
(* The watchlist and the news of its shares (api/routes/watchlist.py,      *)
(* services/stock_news_search.py, services/a_share_mentions.py).  A share  *)
(* that is added gets the stored news that name it and, if they are few, a *)
(* search on the web by a thread of its own, which stores what it finds.   *)
(* The signal pipeline relates news to shares, too.                        *)
(*                                                                         *)
(* Table news_stock_mention has no unique key: each writer looks for a row *)
(* before it adds one.  SQLite has one writer, from its first statement    *)
(* that changes something to its commit; what was looked up before that    *)
(* statement may have changed when it runs.                                *)
(***************************************************************************)
EXTENDS Naturals, Sequences, FiniteSets

CONSTANTS
    Threads,       \* requests, searches and the pipeline
    Requests,      \* what is entered: [name, market]
    Normal,        \* Normal[name]: how a Chinese share is stored
    News,
    Naming,        \* Naming[name]: the news whose title or summary names it
    Hits,          \* of the pipeline: [news, name, confidence]
    MinCount,      \* stock_news_min_count
    None,
    MaxRequests, MaxSearches, MaxHits

VARIABLES
    watched,       \* stored names
    news,          \* stored news
    mentions,      \* mentions[n][name]: the rows, oldest first
    task,          \* task[t]: what t does, or None
    asked,         \* asked[name]: searches that wait for a thread
    writer,        \* the thread whose transaction holds the lock, or None
    requests, searches, applied,
    outrun         \* history: <<t, n>>, n was related to the share of t since t looked

budget == <<requests, searches, applied>>
vars == <<watched, news, mentions, task, asked, writer, budget, outrun>>

Names == DOMAIN Normal
Row(type, confidence) == [type |-> type, confidence |-> confidence]

Init ==
    /\ watched = {}
    /\ \E first \in SUBSET News : news = first
    /\ mentions = [n \in News |-> [name \in Names |-> <<>>]]
    /\ task = [t \in Threads |-> None]
    /\ asked = [name \in Names |-> 0]
    /\ writer = None
    /\ requests = 0 /\ searches = 0 /\ applied = 0 /\ outrun = {}

Does(t, pc) == task[t] # None /\ task[t].pc = pc
Holds(t) == writer = t
MayWrite(t) == writer \in {None, t}
Leaves(t) == /\ task' = [task EXCEPT ![t] = None]
             /\ writer' = IF Holds(t) THEN None ELSE writer
             /\ outrun' = {o \in outrun : o[1] # t}

-----------------------------------------------------------------------------
(* The rows of a transaction: those of task[t].adds. *)

\* Mutation of Missing: a row is added without a look.
MissingAlways(t, n) == TRUE

\* The look of _ensure_mention, sync_match_existing and persist_rule_mentions: a row
\* of the thread itself that is not flushed is of other news.
Missing(t, n) == mentions[n][task[t].name] = <<>>

Written(t) ==
    [n \in News |-> IF n \in task[t].adds
                    THEN [mentions[n] EXCEPT ![task[t].name] = Append(@, task[t].row)]
                    ELSE mentions[n]]

\* The commit, and what it does to the looks of the others.
Commits(t) ==
    /\ MayWrite(t)
    /\ mentions' = Written(t)
    /\ task' = [task EXCEPT ![t] = None]
    /\ writer' = IF Holds(t) THEN None ELSE writer
    /\ outrun' = {o \in outrun : o[1] # t} \union
                 {o \in (Threads \ {t}) \X task[t].adds :
                    task[o[1]] # None /\ task[o[1]].name = task[t].name}

-----------------------------------------------------------------------------
(* The watchlist. *)

StoredName(r) == IF r.market = "cn" THEN Normal[r.name] ELSE r.name

\* _candidate_symbols_for_conflict_check: how a Chinese share may be stored
Candidates(r) ==
    IF r.market = "cn" THEN {name \in Names : Normal[name] = Normal[r.name]} ELSE {r.name}

\* create_watchlist_item looks; a conflict is refused.
AskCreate(t) ==
    /\ task[t] = None /\ requests < MaxRequests
    /\ \E r \in Requests :
         /\ Candidates(r) \intersect watched = {}
         /\ task' = [task EXCEPT ![t] =
              [pc |-> "create", name |-> StoredName(r), market |-> r.market, adds |-> {},
               row |-> Row("keyword", 60), saw |-> watched]]
    /\ requests' = requests + 1
    /\ UNCHANGED <<watched, news, mentions, asked, writer, searches, applied, outrun>>

\* The item is flushed, sync_match_existing adds rows, and a search may be triggered.
\* A name that was stored meanwhile is an IntegrityError.
Create(t) ==
    /\ Does(t, "create") /\ writer = None
    /\ LET name == task[t].name
           matched == Naming[name] \intersect news
       IN  IF name \in watched
           THEN Leaves(t) /\ UNCHANGED asked
           ELSE /\ writer' = t
                /\ task' = [task EXCEPT ![t].pc = "created",
                                        ![t].adds = {n \in matched : Missing(t, n)}]
                /\ asked' = [asked EXCEPT ![name] =
                                @ + IF Cardinality(matched) < MinCount THEN 1 ELSE 0]
                /\ outrun' = {o \in outrun : o[1] # t}
    /\ UNCHANGED <<watched, news, mentions, budget>>

\* get_db_session commits, or something failed before.
EndCreate(t) ==
    /\ Does(t, "created")
    /\ \/ Commits(t) /\ watched' = watched \union {task[t].name}
       \/ Leaves(t) /\ UNCHANGED <<watched, mentions>>
    /\ UNCHANGED <<news, asked, budget>>

\* _resolve_watchlist_stored_symbol: the name itself, the normal one, another one.
Resolve(name) ==
    IF name \in watched THEN name
    ELSE IF Normal[name] \in watched THEN Normal[name]
    ELSE LET same == {other \in watched : Normal[other] = Normal[name]}
         IN  IF same # {} THEN CHOOSE other \in same : TRUE ELSE Normal[name]

\* delete_watchlist_item: the mentions stay.
Delete ==
    /\ requests < MaxRequests /\ writer = None
    /\ \E name \in Names : Resolve(name) \in watched /\ watched' = watched \ {Resolve(name)}
    /\ requests' = requests + 1
    /\ UNCHANGED <<news, mentions, task, asked, writer, searches, applied, outrun>>

Related(name) == {n \in news : mentions[n][name] # <<>>}

\* list_related_news: a share without any is searched, at every look.
ViewRelated ==
    /\ requests < MaxRequests
    /\ \E name \in Names :
         /\ Resolve(name) \in watched /\ Related(Resolve(name)) = {}
         /\ asked' = [asked EXCEPT ![Resolve(name)] = @ + 1]
    /\ requests' = requests + 1
    /\ UNCHANGED <<watched, news, mentions, task, writer, searches, applied, outrun>>

-----------------------------------------------------------------------------
(* A search. *)

\* What the queries find, at Tavily or else at Google: any news.
Found == SUBSET News \ {{}}

\* All queries are answered before anything is stored; a link counts once.
StartSearch(t) ==
    /\ task[t] = None /\ searches < MaxSearches
    /\ \E name \in Names, found \in Found :
         /\ asked[name] > 0
         /\ asked' = [asked EXCEPT ![name] = @ - 1]
         /\ task' = [task EXCEPT ![t] =
              [pc |-> "store", name |-> name, adds |-> {}, row |-> Row("search", 70),
               found |-> found, new |-> {}, todo |-> found]]
    /\ searches' = searches + 1
    /\ UNCHANGED <<watched, news, mentions, writer, requests, applied, outrun>>

\* _persist_news_item finds the news, or will insert them
Look(t) ==
    /\ Does(t, "store") /\ task[t].todo # {}
    /\ LET n == CHOOSE n \in task[t].todo : TRUE
       IN  /\ task' = IF n \in news
                      THEN [task EXCEPT ![t].todo = @ \ {n},
                                        ![t].adds = IF Missing(t, n) THEN @ \union {n} ELSE @]
                      ELSE [task EXCEPT ![t].pc = "insert"]
           /\ outrun' = outrun \ {<<t, n>>}
    /\ UNCHANGED <<watched, news, mentions, asked, writer, budget>>

\* News that another thread stored meanwhile are an IntegrityError: all is rolled back.
Insert(t) ==
    /\ Does(t, "insert") /\ MayWrite(t)
    /\ LET n == CHOOSE n \in task[t].todo : TRUE
       IN  IF n \in news THEN Leaves(t)
           ELSE /\ writer' = t
                /\ task' = [task EXCEPT ![t].pc = "store", ![t].todo = @ \ {n},
                                        ![t].new = @ \union {n}, ![t].adds = @ \union {n}]
                /\ UNCHANGED outrun
    /\ UNCHANGED <<watched, news, mentions, asked, budget>>

EndSearch(t) ==
    /\ Does(t, "store") /\ task[t].todo = {}
    /\ Commits(t)
    /\ news' = news \union task[t].new
    /\ UNCHANGED <<watched, asked, budget>>

\* The database is locked for too long, or the process stops.
LoseSearch(t) ==
    /\ Does(t, "store") /\ Leaves(t)
    /\ UNCHANGED <<watched, news, mentions, asked, budget>>

-----------------------------------------------------------------------------
(* The pipeline: persist_rule_mentions at the end of _apply_result. *)

\* Whether the batch has written before: it has if it made a topic.
ApplyHit(t) ==
    /\ task[t] = None /\ applied < MaxHits
    /\ \E h \in Hits, first \in BOOLEAN :
         /\ h.news \in news /\ (first \/ writer = None)
         /\ writer' = IF first THEN writer ELSE t
         /\ task' = [task EXCEPT ![t] =
              [pc |-> "applied", name |-> h.name, row |-> Row("rule", h.confidence), hit |-> h.news,
               adds |-> IF mentions[h.news][h.name] = <<>> THEN {h.news} ELSE {}]]
    /\ applied' = applied + 1
    /\ UNCHANGED <<watched, news, mentions, asked, requests, searches, outrun>>

\* An older row of the pipeline, the first one found, is raised.
Raised(rows, row) ==
    IF rows # <<>> /\ rows[1].type = "rule" /\ rows[1].confidence < row.confidence
    THEN [rows EXCEPT ![1] = row] ELSE rows

EndApply(t) ==
    /\ Does(t, "applied") /\ MayWrite(t)
    /\ IF task[t].adds # {} THEN Commits(t)
       ELSE /\ mentions' = [mentions EXCEPT ![task[t].hit][task[t].name] = Raised(@, task[t].row)]
            /\ Leaves(t)
    /\ UNCHANGED <<watched, news, asked, budget>>

-----------------------------------------------------------------------------
Next ==
    \/ Delete \/ ViewRelated
    \/ \E t \in Threads : \/ AskCreate(t) \/ Create(t) \/ EndCreate(t)
                          \/ StartSearch(t) \/ Look(t) \/ Insert(t) \/ EndSearch(t) \/ LoseSearch(t)
                          \/ ApplyHit(t) \/ EndApply(t)

Spec == Init /\ [][Next]_vars

-----------------------------------------------------------------------------
Mentions == [type : {"keyword", "search", "rule"}, confidence : Nat]
Creations == [pc : {"create", "created"}, name : Names, market : STRING, adds : SUBSET News,
              row : Mentions, saw : SUBSET Names]
Searching == [pc : {"store", "insert"}, name : Names, adds : SUBSET News, row : Mentions,
              found : SUBSET News, new : SUBSET News, todo : SUBSET News]
Applying == [pc : {"applied"}, name : Names, row : Mentions, hit : News, adds : SUBSET News]
Tasks == Creations \union Searching \union Applying

TypeOK ==
    /\ watched \subseteq Names /\ news \subseteq News
    /\ mentions \in [News -> [Names -> Seq(Mentions)]]
    /\ task \in [Threads -> Tasks \union {None}]
    /\ writer \in Threads \union {None} /\ (writer # None => task[writer] # None)
    /\ \A t \in Threads, u \in Threads :
         Does(t, "created") /\ Does(u, "created") => t = u

Rows(n, name) == Len(mentions[n][name])

\* News are related to a share twice, and shown twice among its news, only if two
\* writers overlapped: the second one looked before the first one wrote.  A search
\* stores all it found or nothing, and no news without the share they were searched
\* for.  A row of the pipeline is never lowered, and rows never go.  A Chinese share that
\* is entered as one is watched under no second name, unless it was entered under that
\* one, as a share of another market, in the meantime.
SoundStep ==
    /\ TypeOK'
    /\ \A n \in News, name \in Names :
         /\ Rows(n, name)' > Rows(n, name) /\ Rows(n, name) > 0 =>
              \E t \in Threads : task[t] # None /\ task'[t] = None /\ <<t, n>> \in outrun
         /\ Rows(n, name)' >= Rows(n, name)
         /\ \A i \in 1..Rows(n, name) :
              mentions'[n][name][i].confidence >= mentions[n][name][i].confidence
         /\ n \in news' \ news => \E other \in Names : Rows(n, other)' > 0
    /\ \A t \in Threads : Does(t, "store") /\ task'[t] = None =>
         \/ UNCHANGED <<news, mentions>>
         \/ \A n \in task[t].found : n \in news' /\ mentions'[n][task[t].name] # <<>>
    /\ \A t \in Threads, other \in Names :
         /\ Does(t, "created") /\ task'[t] = None /\ task[t].name \in watched'
         /\ task[t].market = "cn" /\ Normal[other] = task[t].name
         /\ other \in watched \ {task[t].name}
         => other \notin task[t].saw

NewsAreRelatedOnce == [][SoundStep]_vars
=============================================================================
