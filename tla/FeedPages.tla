------------------------------- MODULE FeedPages -------------------------------
(***************************************************************************)
(* The paged news list: the server's keyset pagination                     *)
(* (repositories/news_repository.py, news_cursor.py) behind a cache of the *)
(* rendered pages (api/routes/news.py), and the browser's list, which      *)
(* loads pages, is loaded anew, and takes rows from the event stream in    *)
(* between (stores/newsStore.ts).                                          *)
(***************************************************************************)
EXTENDS Naturals, Sequences, FiniteSets, SequencesExt

CONSTANTS
    Rows,      \* the ids of news, in the order they are stored
    At,        \* At[r]: effective_at; rows may be equal in it, or come late
    Labels,    \* sentiment labels: a filter asks for one, or for All
    All, None,
    Limit,     \* of a page
    MaxLoads, MaxRelabels

VARIABLES
    db,        \* db[r]: the label of a stored row, None if r is not stored yet
    cache,     \* _news_list_cache: pages of earlier requests, one for a key
    items,     \* feedItems
    query,     \* feedQuery: the filter
    cursor,    \* feedNextCursor: the last row of the page before, or None
    load, more,\* the two requests: None, or what was asked and answered
    loads, relabels,
    unseen,    \* history: rows the list cannot have: the event stream lost them, or they
               \* changed after the server had read the page
    mixed      \* history: a load failed after the filter had changed

vars == <<db, cache, items, query, cursor, load, more, loads, relabels, unseen, mixed>>

Init ==
    /\ db = [r \in Rows |-> None]
    /\ cache = {} /\ items = <<>> /\ query = All /\ cursor = None
    /\ load = None /\ more = None /\ loads = 0 /\ relabels = 0
    /\ unseen = {} /\ mixed = FALSE

-----------------------------------------------------------------------------
(* The server: list_recent_page. *)

\* Mutation of Below: rows of one time are not told apart.
BelowByTime(r, s) == At[r] < At[s]

Below(r, s) == At[r] < At[s] \/ (At[r] = At[s] /\ r < s)

Matches(label, filter) == filter \in {All, label}

Beyond(filter, after) ==
    {r \in Rows : db[r] # None /\ Matches(db[r], filter) /\ (after = None \/ Below(r, after))}

\* The order of the list: the last published first.
First(r, s) == At[r] > At[s] \/ (At[r] = At[s] /\ r > s)

Sorted(rs) ==
    [i \in 1..Cardinality(rs) |->
        CHOOSE r \in rs : Cardinality({s \in rs : First(s, r)}) = i - 1]

\* One row more than the page tells whether there is a next one.
Page(filter, after) ==
    LET rows == Sorted(Beyond(filter, after))
    IN  IF Len(rows) > Limit THEN [rows |-> SubSeq(rows, 1, Limit), next |-> rows[Limit]]
        ELSE [rows |-> rows, next |-> None]

\* What a request asks for, the page it was answered with and, as history, the rows as
\* they were when the server read that page.  "hit": the page was cached.
Asked(filter, after) ==
    [filter |-> filter, after |-> after, answer |-> None, was |-> None,
     hit |-> FALSE, current |-> TRUE]

Entry(request) ==
    [filter |-> request.filter, after |-> request.after,
     answer |-> request.answer, was |-> request.was]

\* The key has all parameters of the request.
Hits(request) == {e \in cache : e.filter = request.filter /\ e.after = request.after}

\* list_news: a page that is cached may be the answer, whatever was stored since.  It may
\* also be gone by now: after 3 s, as the least used, or with all others when the event of
\* a stored row was published.  Then the server reads the page ...
Hit(request) ==
    {[request EXCEPT !.answer = e.answer, !.was = e.was, !.hit = TRUE] : e \in Hits(request)}

Missed(request) ==
    [request EXCEPT !.answer = Page(request.filter, request.after), !.was = db]

\* ... and keeps it, even if the cache was cleared in between.  Only a request for the
\* same key could tell whether that is before the reply arrives, and there is none.
Cached(request) == IF request.hit THEN cache ELSE cache \union {Entry(request)}

\* What the pages up to the cursor should have shown.
Reached(r, after) == after = None \/ r = after \/ First(r, after)

-----------------------------------------------------------------------------
(* The browser's list. *)

Overtaken(request) == IF request = None THEN None ELSE [request EXCEPT !.current = FALSE]

\* feedNewsRequestId belongs to both: a newer request of either kind overtakes.
\* An older load still running is left out: LiveFeed has it.
LoadFeedNews ==
    \E filter \in Labels \union {All} :
        /\ load = None /\ loads < MaxLoads
        /\ loads' = loads + 1
        /\ query' = filter
        /\ load' = Asked(filter, None)
        /\ more' = Overtaken(more)
        /\ UNCHANGED <<db, cache, items, cursor, relabels, unseen, mixed>>

LoadMore ==
    /\ cursor # None /\ more = None /\ load = None
    /\ more' = Asked(query, cursor)
    /\ UNCHANGED <<db, cache, items, query, cursor, load, loads, relabels, unseen, mixed>>

AnswerLoad ==
    /\ load # None /\ load.answer = None
    /\ \/ load' \in Hit(load) /\ UNCHANGED cache
       \/ load' = Missed(load) /\ cache' = cache \ Hits(load)
    /\ UNCHANGED <<db, items, query, cursor, more, loads, relabels, unseen, mixed>>

AnswerMore ==
    /\ more # None /\ more.answer = None
    /\ \/ more' \in Hit(more) /\ UNCHANGED cache
       \/ more' = Missed(more) /\ cache' = cache \ Hits(more)
    /\ UNCHANGED <<db, items, query, cursor, load, loads, relabels, unseen, mixed>>

\* The list is replaced: what the stream did to it after the server read is gone, and
\* with a cached page that may have been before the load was asked for.
ReceiveLoad ==
    /\ load # None /\ load.answer # None
    /\ cache' = Cached(load)
    /\ items' = load.answer.rows
    /\ cursor' = load.answer.next
    /\ unseen' = {r \in Rows : db[r] # load.was[r]} \ ToSet(items')
    /\ mixed' = FALSE
    /\ load' = None
    /\ UNCHANGED <<db, query, more, loads, relabels>>

\* A request fails or is given up; the server may keep the page it has read for it.
GivenUp(request) == cache' = cache \/ (request.answer # None /\ cache' = Cached(request))

LoadFails ==
    /\ load # None
    /\ load' = None
    /\ GivenUp(load)
    /\ mixed' = TRUE
    /\ UNCHANGED <<db, items, query, cursor, more, loads, relabels, unseen>>

MoreFails ==
    /\ more # None
    /\ more' = None
    /\ GivenUp(more)
    /\ UNCHANGED <<db, items, query, cursor, load, loads, relabels, unseen, mixed>>

\* The elements of a list at some positions, in their order.
Kept(list, positions) ==
    [k \in 1..Cardinality(positions) |->
        list[CHOOSE i \in positions : Cardinality({j \in positions : j < i}) = k - 1]]

Appended(list, rows) == list \o Kept(rows, {i \in DOMAIN rows : rows[i] \notin ToSet(list)})

\* The page is appended, without the rows the stream has already put in the list.
ReceiveMore ==
    /\ more # None /\ more.answer # None
    /\ cache' = Cached(more)
    /\ IF more.current
       THEN /\ items' = Appended(items, more.answer.rows)
            /\ cursor' = more.answer.next
            /\ unseen' = unseen \union ({r \in Rows : db[r] # more.was[r]} \ ToSet(items'))
       ELSE UNCHANGED <<items, cursor, unseen>>
    /\ more' = None
    /\ UNCHANGED <<db, query, load, loads, relabels, mixed>>

-----------------------------------------------------------------------------
(* Rows and their events. *)

\* insertScopedItem: at the front, whatever its time; the list keeps its length
\* once it has reached the limit.
Inserted(list, r) ==
    LET cap == IF Len(list) > Limit THEN Len(list) ELSE Limit
        longer == <<r>> \o list
    IN  IF Len(longer) > cap THEN SubSeq(longer, 1, cap) ELSE longer

\* upsertScopedItems and upsertScopedUpdate
Upserted(list, r, label) ==
    IF ~Matches(label, query) THEN Kept(list, {i \in DOMAIN list : list[i] # r})
    ELSE IF r \in ToSet(list) THEN list ELSE Inserted(list, r)

\* The row's event reaches the page, or is lost with the connection.
Announce(r, label) ==
    \/ /\ items' = Upserted(items, r, label)
       /\ unseen' = (unseen \ ToSet(items')) \union (ToSet(items) \ ToSet(items'))
    \/ /\ unseen' = unseen \union {r}
       /\ UNCHANGED items

Store ==
    /\ \E r \in Rows, label \in Labels :
         /\ db[r] = None /\ \A s \in Rows : s < r => db[s] # None
         /\ db' = [db EXCEPT ![r] = label]
         /\ Announce(r, label)
    /\ UNCHANGED <<cache, query, cursor, load, more, loads, relabels, mixed>>

Relabel ==
    /\ relabels < MaxRelabels
    /\ relabels' = relabels + 1
    /\ \E r \in Rows, label \in Labels :
         /\ db[r] \notin {None, label}
         /\ db' = [db EXCEPT ![r] = label]
         /\ Announce(r, label)
    /\ UNCHANGED <<cache, query, cursor, load, more, loads, mixed>>

Next ==
    \/ LoadFeedNews \/ LoadMore \/ AnswerLoad \/ AnswerMore
    \/ ReceiveLoad \/ LoadFails \/ ReceiveMore \/ MoreFails
    \/ Store \/ Relabel

Spec == Init /\ [][Next]_vars

-----------------------------------------------------------------------------
TypeOK ==
    /\ ToSet(items) \subseteq Rows
    /\ query \in Labels \union {All}
    /\ cursor \in Rows \union {None}

NoRowTwice == \A i, j \in 1..Len(items) : items[i] = items[j] => i = j

\* Paging skips nothing: a stored row that the filter asks for and that is not
\* beyond the cursor is in the list, unless the event stream lost it, the list
\* was cut for a new row, its load has not come back, or it has changed since the
\* server read the page, which for a cached page is before the page was asked for.
NothingSkipped ==
    load = None /\ ~mixed =>
        \A r \in Rows \ unseen :
            db[r] # None /\ Matches(db[r], query) /\ Reached(r, cursor) => r \in ToSet(items)

PagesAreSound == NoRowTwice /\ NothingSkipped
=============================================================================
