------------------------------ MODULE LiveFeed ------------------------------
(***************************************************************************)
(* How a news row reaches an open page.  A row is committed, the events    *)
(* about it clear the response cache of the API and are offered to the     *)
(* bounded queue of every SSE connection, and the page merges three        *)
(* things into one list: the events of its connection, the replies to its  *)
(* loads, and the polls.  Every one of them can be late, lost or stale:    *)
(* events are dropped by a full queue, missed while the page reconnects    *)
(* and delivered out of order, a reply is computed from the database and   *)
(* stored in the cache by separate steps, and a load overtakes another.    *)
(*                                                                         *)
(* The list is the stream of the feed layout, which NewsFeedView shows and *)
(* AppShell polls.  A row is its rank in effective time (a higher rank is  *)
(* newer) and the version of its content; 0 stands for "not there".        *)
(***************************************************************************)
EXTENDS Naturals, Sequences, FiniteSets

CONSTANTS
  Rows,        \* ranks of the news rows
  Limit,       \* limit_stream
  QueueSize,   \* settings.stream_queue_maxsize
  MaxVersion,  \* bound: versions of one row
  MaxWrites,   \* bound: commits
  MaxUpsets    \* bound: broken connections, failed loads (those of the start too),
               \* events the handler rejects, and loads the user causes

ASSUME LimitsAssumption ==
  /\ Rows \subseteq Nat /\ IsFiniteSet(Rows)
  /\ Limit \in Nat \ {0} /\ QueueSize \in Nat \ {0}
  /\ MaxVersion \in Nat /\ MaxWrites \in Nat /\ MaxUpsets \in Nat

VARIABLES
  db,       \* the version of every row that is committed
  outbox,   \* what the writers have committed and not yet published in full
  cache,    \* _feed_layout_cache: the rendered lists, at most one
  request,  \* the page's newest load and one it has overtaken, with their handlers
  stream,   \* feedLayout.stream of the page
  shown,    \* history: whose reply the page shows: the last load's, an older one's
  boot,     \* how far bootstrap has come, which starts the polls and the connection
  conns,    \* SSE connections, both ends
  source,   \* streamHandle: the number of the page's connection
  state,    \* connectionStore.state
  timer,    \* reconnectTimer is set
  awaiting, \* awaitingReconnect
  refresh,  \* feedLayoutDebounceHandle is set
  writes, upsets

server == <<db, outbox, cache>>
page   == <<request, stream, shown, refresh, boot>>
link   == <<conns, source, state, timer, awaiting>>
vars   == <<server, page, link, writes, upsets>>

-----------------------------------------------------------------------------
Contents == [Rows -> 0 .. MaxVersion]
Events   == [row : Rows, version : 1 .. MaxVersion]
Conns    == 1 .. MaxUpsets + 1
Nothing  == [r \in Rows |-> 0]
Loads    == {"newest", "overtaken"}
Idle     == [phase |-> "idle", body |-> Nothing]
Sent     == [phase |-> "sent", body |-> Nothing]

Listed(list) == {r \in Rows : list[r] > 0}

\* list_recent(limit_stream): the newest rows, at most Limit of them.
Newest(rows) ==
  [r \in Rows |-> IF Cardinality({s \in Listed(rows) : s > r}) < Limit
                  THEN rows[r] ELSE 0]

\* upsertLayoutStream: a row that is listed is replaced; a new one goes first
\* and, in a list that is full, pushes the last one out.  The order within the
\* stream is editorial, so the last row may be any.
Upserted(list, e) ==
  LET new == [list EXCEPT ![e.row] = e.version]
  IN  IF e.row \in Listed(list) \/ Cardinality(Listed(list)) < Limit
      THEN {new}
      ELSE {[new EXCEPT ![r] = 0] : r \in Listed(list)}

Init ==
  /\ db = Nothing
  /\ outbox = {}
  /\ cache = {}
  /\ request = [newest |-> Sent, overtaken |-> Idle]
  /\ stream = db
  /\ shown = "older"
  /\ boot = "status"
  /\ conns = [c \in Conns |-> [client |-> "unused", sub |-> "no", queue |-> <<>>]]
  /\ source = 0
  /\ state = "idle"
  /\ timer = FALSE /\ awaiting = FALSE /\ refresh = FALSE
  /\ writes = 0 /\ upsets = 0

-----------------------------------------------------------------------------
(***************************************************************************)
(* The server: commits, publication, the response cache.                   *)
(***************************************************************************)

\* A row is inserted by an ingestion, or updated by the queue or takeaway
\* worker; each publishes after its own commit, so events may change places.
Write(r) ==
  /\ writes < MaxWrites /\ db[r] < MaxVersion
  /\ db' = [db EXCEPT ![r] = @ + 1]
  /\ outbox' = outbox \cup {[event |-> [row |-> r, version |-> db[r] + 1], part |-> 1]}
  /\ writes' = writes + 1
  /\ UNCHANGED <<cache, page, link, upsets>>

\* _offer: a full queue gives up its oldest event.
Offered(queue, e) == Append(IF Len(queue) = QueueSize THEN Tail(queue) ELSE queue, e)

Offer(e) ==
  conns' = [c \in Conns |-> IF conns[c].sub = "yes"
              THEN [conns[c] EXCEPT !.queue = Offered(@, e)] ELSE conns[c]]

\* The part of a publication that reaches the connections.  An insertion
\* publishes news.created, for the pages, and then news.created_batch, which
\* clears the cache; the handlers of news.updated run in the order of their
\* subscription, the cache first.
OfferPart(e) == IF e.version = 1 THEN 1 ELSE 2

\* _clear_routing_caches
Publish(o) ==
  /\ outbox' = (outbox \ {o}) \cup
       (IF o.part = 1 THEN {[o EXCEPT !.part = 2]} ELSE {})
  /\ \/ /\ o.part = OfferPart(o.event)
        /\ Offer(o.event)
        /\ UNCHANGED cache
     \/ /\ o.part # OfferPart(o.event)
        /\ cache' = {}
        /\ UNCHANGED conns
  /\ UNCHANGED <<db, page, source, state, timer, awaiting, writes, upsets>>

\* Mutation of Expire: the reply is served past its time.
ExpireNever == FALSE

\* SimpleTTLCache.get: an entry past its time is not served.
Expire ==
  /\ cache # {}
  /\ cache' = {}
  /\ UNCHANGED <<db, outbox, page, link, writes, upsets>>

\* get_news_feed_layout: a hit is the reply, a miss reads the database ...
Serve(s) ==
  /\ request[s].phase = "sent"
  /\ request' = [request EXCEPT ![s] =
       IF cache = {} THEN [@ EXCEPT !.phase = "read", !.body = Newest(db)]
                     ELSE [@ EXCEPT !.phase = "replied", !.body = CHOOSE b \in cache : TRUE]]
  /\ UNCHANGED <<server, stream, shown, refresh, boot, link, writes, upsets>>

\* ... and stores what it has read, whatever was published in between.
Store(s) ==
  /\ request[s].phase = "read"
  /\ cache' = {request[s].body}
  /\ request' = [request EXCEPT ![s].phase = "replied"]
  /\ UNCHANGED <<db, outbox, stream, shown, refresh, boot, link, writes, upsets>>

-----------------------------------------------------------------------------
(***************************************************************************)
(* The loads of the page.                                                  *)
(***************************************************************************)

\* loadFeedLayout up to its await: the load takes the newest request id.
Start ==
  /\ Idle \in {request[s] : s \in Loads}
  /\ request' = [newest    |-> Sent,
                 overtaken |-> IF request.newest = Idle THEN request.overtaken
                                                        ELSE request.newest]
  /\ shown' = "older"
  /\ UNCHANGED <<server, stream, boot, link, writes>>

\* The filters change, or the view is mounted again.
UserLoad ==
  /\ upsets < MaxUpsets
  /\ upsets' = upsets + 1
  /\ Start
  /\ UNCHANGED refresh

\* scheduleNewsFeedLayoutRefresh fires.
DebouncedRefresh ==
  /\ refresh
  /\ refresh' = FALSE
  /\ Start
  /\ UNCHANGED upsets

\* startFeedLayoutPolling, in bootstrap: the interval is longer than a load takes.
Poll ==
  /\ boot = "up"
  /\ \A s \in Loads : request[s] = Idle
  /\ Start
  /\ UNCHANGED <<refresh, upsets>>

\* Mutation of Accepted: the request id is not compared.
AcceptedAlways(s) == TRUE

\* loadFeedLayout after its await: only the newest load is shown.
Accepted(s) == s = "newest"

Receive(s) ==
  /\ request[s].phase = "replied"
  /\ request' = [request EXCEPT ![s] = Idle]
  /\ \/ /\ Accepted(s)
        /\ stream' = request[s].body
        /\ shown' = IF s = "newest" THEN "latest" ELSE "older"
     \/ ~Accepted(s) /\ UNCHANGED <<stream, shown>>
  /\ UNCHANGED <<server, refresh, boot, link, writes, upsets>>

\* The load is aborted or fails; the list stays as it is.
LoadFails(s) ==
  /\ request[s].phase # "idle" /\ upsets < MaxUpsets
  /\ upsets' = upsets + 1
  /\ request' = [request EXCEPT ![s] = Idle]
  /\ shown' = IF s = "newest" THEN "failed" ELSE shown
  /\ UNCHANGED <<server, stream, refresh, boot, link, writes>>

-----------------------------------------------------------------------------
(***************************************************************************)
(* The SSE connection.                                                     *)
(***************************************************************************)

\* connect: the previous source is closed, a new one is opened.
Closed(c) == [conns EXCEPT ![c].client = "closed"]

Connect ==
  /\ source' = source + 1
  /\ conns' = [(IF source = 0 THEN conns ELSE Closed(source))
                 EXCEPT ![source + 1].client = "connecting"]
  /\ state' = "connecting"
  /\ timer' = FALSE

\* bootstrap waits for the runtime status, which applyStreamStatus shows ...
StatusLoaded ==
  /\ boot = "status"
  /\ boot' = "loads"
  /\ state' = "connecting"
  /\ UNCHANGED <<server, request, stream, shown, refresh, conns, source, timer, awaiting, writes,
                 upsets>>

\* ... and for the first loads of five stores, then it starts the polls and connects.
Bootstrap ==
  /\ boot = "loads"
  /\ boot' = "up"
  /\ Connect
  /\ UNCHANGED <<server, request, stream, shown, refresh, awaiting, writes, upsets>>

\* One of them is rejected (loadRuntimeStatus and the loads throw): nothing
\* catches it and nothing calls bootstrap again.
BootstrapFails ==
  /\ boot \in {"status", "loads"}
  /\ upsets < MaxUpsets
  /\ upsets' = upsets + 1
  /\ boot' = "aborted"
  /\ UNCHANGED <<server, request, stream, shown, refresh, link, writes>>

\* event_bus.subscribe, in the generator's first step: the response has
\* started by then, so the page may see onopen before or after it.
Subscribe(c) ==
  /\ conns[c].client # "unused" /\ conns[c].sub = "no"
  /\ conns' = [conns EXCEPT ![c].sub = "yes"]
  /\ UNCHANGED <<server, page, source, state, timer, awaiting, writes, upsets>>

\* onOpen, and onReconnect if the page had lost a connection
Opened(c) ==
  /\ conns[c].client = "connecting"
  /\ conns' = [conns EXCEPT ![c].client = "open"]
  /\ state' = "live"
  /\ awaiting' = FALSE
  /\ refresh' = (refresh \/ awaiting)
  /\ UNCHANGED <<server, request, stream, shown, boot, source, timer, writes, upsets>>

Next1(c) == Head(conns[c].queue)

\* onmessage: news.created and news.updated are merged into the list.
Deliver(c) ==
  /\ conns[c].client = "open" /\ conns[c].queue # <<>>
  /\ conns' = [conns EXCEPT ![c].queue = Tail(@)]
  /\ stream' \in Upserted(stream, Next1(c))
  /\ UNCHANGED <<server, request, shown, refresh, boot, source, state, timer,
                 awaiting, writes, upsets>>

\* connectionStore.onError: go offline and set the timer unless it is set.
OnError ==
  /\ state' = "offline"
  /\ awaiting' = TRUE
  /\ timer' = TRUE

\* onmessage catches what the handler throws: the event is lost, the page is
\* offline, and the source stays open until the timer replaces it.
Rejected(c) ==
  /\ conns[c].client = "open" /\ conns[c].queue # <<>>
  /\ upsets < MaxUpsets
  /\ upsets' = upsets + 1
  /\ conns' = [conns EXCEPT ![c].queue = Tail(@)]
  /\ OnError
  /\ UNCHANGED <<server, page, source, writes>>

\* source.onerror
Break(c) ==
  /\ conns[c].client \in {"connecting", "open"}
  /\ upsets < MaxUpsets
  /\ upsets' = upsets + 1
  /\ conns' = Closed(c)
  /\ OnError
  /\ UNCHANGED <<server, page, source, writes>>

\* The reconnect timer fires.
Reconnect ==
  /\ timer /\ state = "offline"
  /\ Connect
  /\ UNCHANGED <<server, page, awaiting, writes, upsets>>

\* The generator finds the client gone, at the latest at its next keepalive,
\* and unsubscribes.
Release(c) ==
  /\ conns[c].client = "closed" /\ conns[c].sub = "yes"
  /\ conns' = [conns EXCEPT ![c].sub = "done", ![c].queue = <<>>]
  /\ UNCHANGED <<server, page, source, state, timer, awaiting, writes, upsets>>

-----------------------------------------------------------------------------
Next ==
  \/ \E r \in Rows : Write(r)
  \/ \E o \in outbox : Publish(o)
  \/ Expire
  \/ \E s \in Loads : Serve(s) \/ Store(s) \/ Receive(s) \/ LoadFails(s)
  \/ UserLoad \/ DebouncedRefresh \/ Poll
  \/ StatusLoaded \/ Bootstrap \/ BootstrapFails \/ Reconnect
  \/ \E c \in Conns : \/ Subscribe(c) \/ Opened(c) \/ Deliver(c) \/ Rejected(c)
                      \/ Break(c) \/ Release(c)

(***************************************************************************)
(* Publishers, request handlers and timers run on; nothing makes a row     *)
(* change, a load fail or a connection break.                              *)
(***************************************************************************)
Fairness ==
  /\ WF_vars(\E o \in outbox : Publish(o))
  /\ WF_vars(Expire)
  /\ WF_vars(Poll) /\ WF_vars(DebouncedRefresh)
  /\ \A s \in Loads : WF_vars(Serve(s) \/ Store(s) \/ Receive(s))
  /\ WF_vars(StatusLoaded) /\ WF_vars(Bootstrap) /\ WF_vars(Reconnect)
  /\ \A c \in Conns : WF_vars(Subscribe(c)) /\ WF_vars(Opened(c))
                      /\ WF_vars(Deliver(c)) /\ WF_vars(Release(c))

Spec == Init /\ [][Next]_vars /\ Fairness

-----------------------------------------------------------------------------
\* Every variable has the values the code can give it.
TypeOK ==
  /\ db \in Contents /\ stream \in Contents
  /\ outbox \subseteq [event : Events, part : {1, 2}]
  /\ cache \subseteq Contents /\ Cardinality(cache) <= 1
  /\ request \in [Loads ->
       [phase : {"idle", "sent", "read", "replied"}, body : Contents]]
  /\ shown \in {"latest", "older", "failed"}
  /\ boot \in {"status", "loads", "up", "aborted"}
  /\ \A c \in Conns :
       /\ conns[c].client \in {"unused", "connecting", "open", "closed"}
       /\ conns[c].sub \in {"no", "yes", "done"}
       /\ conns[c].queue \in Seq(Events) /\ Len(conns[c].queue) <= QueueSize
  /\ source \in 0 .. MaxUpsets + 1
  /\ state \in {"idle", "connecting", "live", "offline"}
  /\ timer \in BOOLEAN /\ awaiting \in BOOLEAN /\ refresh \in BOOLEAN
  /\ writes \in 0 .. MaxWrites /\ upsets \in 0 .. MaxUpsets

\* When no load is under way the page shows what was asked for last, in
\* whatever order the replies came back, unless that load failed.
ShowsLastAsked == (\A s \in Loads : request[s] = Idle) => shown # "older"

\* The page listens to one source at a time: after a rejected event the old
\* source is still open when the timer connects again, and two sources would
\* handle every event (and every alert) twice.
OneSource ==
  Cardinality({c \in Conns : conns[c].client \in {"connecting", "open"}}) <= 1

\* The page says it is live only while its source is open: neither the status
\* that is applied before there is a source, nor a late onopen of an earlier
\* source, may say so.
LiveIsOpen == state = "live" => source \in Conns /\ conns[source].client = "open"

\* Whatever was dropped, missed, overtaken or cached stale, once rows stop
\* changing the page comes to show exactly the newest rows as committed, unless
\* its bootstrap was rejected: then it has neither polls nor events.
StreamConverges == <>[](boot = "aborted" \/ stream = Newest(db))

\* A bootstrap that is not rejected gets the page its connection.
GoesLive == <>(boot = "aborted" \/ state = "live")

\* A page that is offline is live again.
ComesBack == (state = "offline") ~> (state = "live")

\* A connection the page has closed does not stay subscribed to the event bus.
SubscriptionsReleased ==
  \A c \in Conns : conns[c].client = "closed" ~> conns[c].sub = "done"

\* At every moment the page has one source, the list that was asked for last, and
\* a connection if it says so.
PageIsConsistent == TypeOK /\ ShowsLastAsked /\ OneSource /\ LiveIsOpen

\* The page converges, and its connections neither stay down nor leak.
FeedSettles == StreamConverges /\ GoesLive /\ ComesBack /\ SubscriptionsReleased
=============================================================================
