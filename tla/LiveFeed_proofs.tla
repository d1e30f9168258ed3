-------------------------- MODULE LiveFeed_proofs --------------------------
(***************************************************************************)
(* The page shows what it asked for last and listens to one source         *)
(* (LiveFeed), for every set of rows, length of list and queue and number  *)
(* of writes and upsets.                                                   *)
(***************************************************************************)
EXTENDS LiveFeed, FiniteSetTheorems, TLAPS

Connection == [client : {"unused", "connecting", "open", "closed"},
               sub : {"no", "yes", "done"}, queue : Seq(Events)]
Queues == \A c \in Conns : Len(conns[c].queue) <= QueueSize

\* As long as the newest load has not come back, the page may show an older one; once
\* it has, or has failed, no older reply is taken any more.
NewestDecides == request["newest"] = Idle => shown # "older"

\* Every source but the last one is closed, and those to come are not used.
LastSourceOnly ==
  \A c \in Conns : /\ conns[c].client \in {"connecting", "open"} => c = source
                   /\ c > source => conns[c].client = "unused"

\* The page connects once at its start and once for each upset.
UpsetsPayForSources ==
  /\ source <= upsets + 1
  /\ timer => 0 < source /\ source <= upsets
  /\ boot # "up" => source = 0

Loading == [Loads -> [phase : {"idle", "sent", "read", "replied"}, body : Contents]]

\* The types in four parts, by who changes them.
ServerTypes ==
  /\ db \in Contents /\ outbox \subseteq [event : Events, part : {1, 2}]
  /\ cache \subseteq Contents /\ Cardinality(cache) <= 1
  /\ writes \in 0 .. MaxWrites
PageTypes ==
  /\ stream \in Contents /\ request \in Loading
  /\ shown \in {"latest", "older", "failed"} /\ refresh \in BOOLEAN
  /\ boot \in {"status", "loads", "up", "aborted"}
LinkTypes ==
  /\ conns \in [Conns -> Connection] /\ Queues
  /\ source \in 0 .. MaxUpsets + 1
  /\ state \in {"idle", "connecting", "live", "offline"}
  /\ timer \in BOOLEAN /\ awaiting \in BOOLEAN
UpsetTypes == upsets \in 0 .. MaxUpsets

Parts == ServerTypes /\ PageTypes /\ LinkTypes /\ UpsetTypes

Inv == Parts /\ NewestDecides /\ LastSourceOnly /\ UpsetsPayForSources /\ LiveIsOpen

-----------------------------------------------------------------------------
\* A list of the page stays one, whatever is fetched or pushed.
LEMMA ContentsFacts ==
  /\ Nothing \in Contents
  /\ \A list \in Contents : Newest(list) \in Contents
  /\ \A list \in Contents, e \in Events : Upserted(list, e) \subseteq Contents
<1>1. Nothing \in Contents
  BY LimitsAssumption DEF Nothing, Contents
<1>2. ASSUME NEW list \in Contents PROVE Newest(list) \in Contents
  BY LimitsAssumption DEF Newest, Contents
<1>3. ASSUME NEW list \in Contents, NEW e \in Events PROVE Upserted(list, e) \subseteq Contents
  BY LimitsAssumption DEF Upserted, Contents, Events, Listed
<1> QED BY <1>1, <1>2, <1>3

\* A queue stays within its size, whatever is offered or taken.
LEMMA QueueFacts ==
  ASSUME NEW q \in Seq(Events), Len(q) <= QueueSize
  PROVE  /\ \A e \in Events : Offered(q, e) \in Seq(Events) /\ Len(Offered(q, e)) <= QueueSize
         /\ q # <<>> => Head(q) \in Events /\ Tail(q) \in Seq(Events) /\ Len(Tail(q)) <= QueueSize
BY LimitsAssumption DEF Offered

\* At most one reply is cached.
LEMMA CacheFacts == Cardinality({}) <= 1 /\ \A b : Cardinality({b}) <= 1
<1>1. Cardinality({}) = 0
  BY FS_EmptySet
<1>2. ASSUME NEW b PROVE Cardinality({b}) <= 1
  <2>1. Cardinality({b}) = 1
    BY FS_Singleton
  <2> QED BY <2>1
<1> QED BY <1>1, <1>2

-----------------------------------------------------------------------------
(***************************************************************************)
(* The server                                                              *)
(***************************************************************************)
\* The commit of a row, which puts its event in the outbox.
LEMMA WriteKeeps == ASSUME Inv, NEW r \in Rows, Write(r) PROVE Inv'
<1> USE LimitsAssumption DEF Inv, Parts, page, link, Write
<1>1. db[r] \in 0..MaxVersion /\ db[r] + 1 \in 1..MaxVersion
  BY DEF ServerTypes, Contents
<1>2. db' \in Contents /\ writes' \in 0..MaxWrites
  BY <1>1 DEF ServerTypes, Contents
<1>3. outbox' \subseteq [event : Events, part : {1, 2}]
  BY <1>1 DEF ServerTypes, Events
<1>4. ServerTypes'
  BY <1>2, <1>3 DEF ServerTypes
<1> QED BY <1>4 DEF PageTypes, LinkTypes, UpsetTypes, Queues, NewestDecides, LastSourceOnly,
                    UpsetsPayForSources, LiveIsOpen

\* One part of an event's publication: the cache is cleared, or the event is offered.
LEMMA PublishKeeps == ASSUME Inv, NEW o \in outbox, Publish(o) PROVE Inv'
<1> USE LimitsAssumption DEF Inv, Parts, page
<1>1. o \in [event : Events, part : {1, 2}] /\ o.event \in Events
  BY DEF ServerTypes
<1>2. outbox' \subseteq [event : Events, part : {1, 2}]
  BY <1>1 DEF Publish, ServerTypes
<1>3. ServerTypes'
  BY <1>2, CacheFacts DEF Publish, ServerTypes
<1>4. /\ conns' \in [Conns -> Connection] /\ Queues'
      /\ \A c \in Conns : conns'[c].client = conns[c].client
  <2>1. CASE Offer(o.event)
    <3>1. ASSUME NEW c \in Conns
          PROVE  /\ conns'[c] \in Connection /\ Len(conns'[c].queue) <= QueueSize
                 /\ conns'[c].client = conns[c].client
      <4>1. conns[c] \in Connection /\ Len(conns[c].queue) <= QueueSize
        BY DEF LinkTypes, Queues
      <4>2. conns[c].queue \in Seq(Events)
        BY <4>1 DEF Connection
      <4> DEFINE offered == Offered(conns[c].queue, o.event)
      <4>3. offered \in Seq(Events) /\ Len(offered) <= QueueSize
        BY <1>1, <4>1, <4>2, QueueFacts
      <4>4. conns'[c] = IF conns[c].sub = "yes" THEN [conns[c] EXCEPT !.queue = offered] ELSE conns[c]
        BY <2>1 DEF Offer
      <4> HIDE DEF offered
      <4> QED BY <4>1, <4>3, <4>4 DEF Connection
    <3>2. conns' = [c \in Conns |-> conns'[c]]
      BY <2>1 DEF Offer
    <3> QED BY <3>1, <3>2 DEF Queues
  <2>2. CASE UNCHANGED conns
    BY <2>2 DEF LinkTypes, Queues
  <2> QED BY <2>1, <2>2 DEF Publish
<1>5. UNCHANGED <<db, page, source, state, timer, awaiting, writes, upsets>>
  BY DEF Publish
<1>6. PageTypes' /\ LinkTypes' /\ UpsetTypes'
  BY <1>4, <1>5 DEF PageTypes, LinkTypes, UpsetTypes
<1>7. LiveIsOpen'
  BY <1>4, <1>5 DEF LiveIsOpen
<1> QED BY <1>3, <1>4, <1>5, <1>6, <1>7 DEF NewestDecides, LastSourceOnly, UpsetsPayForSources

\* The cached answer grows old.
LEMMA ExpireKeeps == ASSUME Inv, Expire PROVE Inv'
BY CacheFacts DEF Inv, Parts, Expire, page, link, ServerTypes, PageTypes, LinkTypes, UpsetTypes, Queues,
   NewestDecides, LastSourceOnly, UpsetsPayForSources, LiveIsOpen

\* A reply is taken from the cache or computed and stored; the load is not idle before
\* or after.
LEMMA ServeKeeps == ASSUME Inv, NEW s \in Loads, Serve(s) PROVE Inv'
<1> USE DEF Inv, Parts, server, link, Serve
<1>1. request'[s].phase \in {"read", "replied"} /\ request' \in Loading
  <2>1. Newest(db) \in Contents
    BY ContentsFacts DEF ServerTypes
  <2>2. cache # {} => (CHOOSE b \in cache : TRUE) \in Contents
    BY DEF ServerTypes
  <2> QED BY <2>1, <2>2 DEF PageTypes, Loading
<1>2. \A t \in Loads : t # s => request'[t] = request[t]
  BY DEF PageTypes, Loading
<1>3. NewestDecides'
  <2>1. shown' = shown /\ NewestDecides
    OBVIOUS
  <2> HIDE DEF Serve, Inv
  <2>2. request'["newest"] = Idle => request["newest"] = Idle
    BY <1>1, <1>2 DEF Loads, Idle
  <2> QED BY <2>1, <2>2 DEF NewestDecides
<1> QED BY <1>1, <1>3 DEF ServerTypes, PageTypes, LinkTypes, UpsetTypes, Queues, LastSourceOnly,
                          UpsetsPayForSources, LiveIsOpen

\* What a load has read is put in the cache, whatever was published in between.
LEMMA StoreKeeps == ASSUME Inv, NEW s \in Loads, Store(s) PROVE Inv'
<1> USE DEF Inv, Parts, link, Store
<1>1. request'[s].phase = "replied" /\ request' \in Loading /\ request[s].body \in Contents
  BY DEF PageTypes, Loading
<1>2. \A t \in Loads : t # s => request'[t] = request[t]
  BY DEF PageTypes, Loading
<1>3. NewestDecides'
  <2>1. request'["newest"] = Idle => request["newest"] = Idle
    BY <1>1, <1>2 DEF Loads, Idle
  <2>2. shown' = shown
    OBVIOUS
  <2> QED BY <2>1, <2>2 DEF NewestDecides
<1>4. ServerTypes'
  BY <1>1, CacheFacts DEF ServerTypes
<1> QED BY <1>1, <1>3, <1>4 DEF PageTypes, LinkTypes, UpsetTypes, Queues, LastSourceOnly,
                                UpsetsPayForSources, LiveIsOpen

-----------------------------------------------------------------------------
(***************************************************************************)
(* The loads                                                               *)
(***************************************************************************)
\* A load that is started is the newest one and is not idle.
LEMMA StartKeeps ==
  ASSUME Inv, Start, refresh' \in BOOLEAN, upsets' \in 0..MaxUpsets, upsets <= upsets'
  PROVE  Inv'
<1> USE DEF Inv, Parts, server, link, Start
<1>1. Nothing \in Contents
  BY ContentsFacts
<1>2. request' \in Loading /\ request'["newest"] = Sent
  BY <1>1 DEF PageTypes, Loading, Loads, Sent
<1>3. NewestDecides'
  BY <1>2 DEF NewestDecides, Idle, Sent
<1>4. UpsetsPayForSources'
  BY LimitsAssumption DEF UpsetsPayForSources, LinkTypes, UpsetTypes
<1> QED BY <1>2, <1>3, <1>4 DEF ServerTypes, PageTypes, LinkTypes, UpsetTypes, Queues, LastSourceOnly,
                                LiveIsOpen

\* An older reply is dropped, the newest one is shown.
LEMMA ReceiveKeeps == ASSUME Inv, NEW s \in Loads, Receive(s) PROVE Inv'
<1> USE DEF Inv, Parts, server, link, Receive, Accepted
<1>1. Nothing \in Contents
  BY ContentsFacts
<1>2. request' \in Loading /\ request[s].body \in Contents
  BY <1>1 DEF PageTypes, Loading, Idle
<1>3. stream' \in Contents /\ shown' \in {"latest", "older", "failed"}
  BY <1>2 DEF PageTypes
<1>4. NewestDecides'
  BY DEF NewestDecides, PageTypes, Loading, Loads
<1> QED BY <1>2, <1>3, <1>4 DEF ServerTypes, PageTypes, LinkTypes, UpsetTypes, Queues, LastSourceOnly,
                                UpsetsPayForSources, LiveIsOpen

\* A load fails and leaves the list as it was.
LEMMA LoadFailsKeeps == ASSUME Inv, NEW s \in Loads, LoadFails(s) PROVE Inv'
<1> USE LimitsAssumption DEF Inv, Parts, server, link, LoadFails
<1>1. Nothing \in Contents
  BY ContentsFacts
<1>2. request' \in Loading
  BY <1>1 DEF PageTypes, Loading, Idle
<1>3. shown' \in {"latest", "older", "failed"} /\ upsets' \in 0..MaxUpsets
  BY DEF PageTypes, UpsetTypes
<1>4. NewestDecides'
  BY DEF NewestDecides, PageTypes, Loading, Loads
<1>5. UpsetsPayForSources'
  BY DEF UpsetsPayForSources, LinkTypes, UpsetTypes
<1> QED BY <1>2, <1>3, <1>4, <1>5 DEF ServerTypes, PageTypes, LinkTypes, UpsetTypes, Queues,
                                     LastSourceOnly, LiveIsOpen

-----------------------------------------------------------------------------
(***************************************************************************)
(* The connection                                                          *)
(***************************************************************************)
\* The last source is closed before the next one is opened, and an upset has paid for it.
LEMMA ConnectKeeps ==
  ASSUME Inv, Connect, (boot = "loads" /\ boot' = "up") \/ (timer /\ boot' = boot),
         UNCHANGED <<server, request, stream, shown, refresh, awaiting, writes, upsets>>
  PROVE  Inv'
<1> USE LimitsAssumption DEF Inv, Parts, server
<1>1. source' = source + 1 /\ state' = "connecting" /\ ~timer'
  BY DEF Connect
<1>2. source' \in 1..MaxUpsets + 1 /\ source' <= upsets' + 1
  <2>1. source \in Nat /\ upsets \in 0..MaxUpsets /\ source <= upsets
    BY DEF UpsetsPayForSources, LinkTypes, UpsetTypes
  <2> QED BY <1>1, <2>1
<1>3. UpsetsPayForSources' /\ boot' \in {"status", "loads", "up", "aborted"}
  <2>1. source = 0 \/ boot = "up"
    BY DEF UpsetsPayForSources
  <2>2. boot' = "up"
    <3>1. CASE timer
      <4>1. source # 0
        BY <3>1 DEF LinkTypes, UpsetsPayForSources
      <4> QED BY <2>1, <3>1, <4>1
    <3> QED BY <3>1
  <2> QED BY <1>1, <1>2, <2>2 DEF UpsetsPayForSources
<1> DEFINE before == IF source = 0 THEN conns ELSE Closed(source)
<1>4. before \in [Conns -> Connection]
  BY DEF Closed, LinkTypes, Connection
<1>5. \A c \in Conns : /\ before[c].queue = conns[c].queue
                       /\ c > source => before[c].client = conns[c].client
                       /\ before[c].client \notin {"connecting", "open"}
  <2> SUFFICES ASSUME NEW c \in Conns
               PROVE  /\ before[c].queue = conns[c].queue
                      /\ c > source => before[c].client = conns[c].client
                      /\ before[c].client \notin {"connecting", "open"}
    OBVIOUS
  <2>1. conns \in [Conns -> Connection] /\ c \in Nat \ {0} /\ source \in Nat
    BY DEF LinkTypes, Conns
  <2>2. CASE source = 0
    BY <2>1, <2>2 DEF LastSourceOnly
  <2>3. CASE source # 0
    <3>1. before[c] = IF c = source THEN [conns[c] EXCEPT !.client = "closed"] ELSE conns[c]
      BY <2>1, <2>3 DEF Closed
    <3> HIDE DEF before
    <3> QED BY <2>1, <3>1 DEF LastSourceOnly, Connection
  <2> QED BY <2>2, <2>3
<1>6. conns' = [before EXCEPT ![source + 1].client = "connecting"]
  BY DEF Connect
<1> HIDE DEF before
<1>7. ASSUME NEW c \in Conns
      PROVE  /\ conns'[c] \in Connection /\ conns'[c].queue = conns[c].queue
             /\ conns'[c].client \in {"connecting", "open"} => c = source + 1
             /\ c > source + 1 => conns'[c].client = "unused"
  <2>1. before[c] \in Connection /\ c \in Nat /\ source \in Nat
    BY <1>4 DEF Conns, LinkTypes
  <2>2. conns'[c] = IF c = source + 1 THEN [before[c] EXCEPT !.client = "connecting"] ELSE before[c]
    BY <1>4, <1>6
  <2> QED BY <1>5, <2>1, <2>2 DEF Connection, LastSourceOnly
<1>8. conns' \in [Conns -> Connection]
  BY <1>4, <1>6, <1>7
<1>9. Queues' /\ LastSourceOnly'
  BY <1>1, <1>7 DEF LinkTypes, Queues, LastSourceOnly
<1>10. timer' \in BOOLEAN /\ awaiting' \in BOOLEAN
  BY Zenon DEF Connect, LinkTypes
<1>11. LinkTypes'
  BY <1>1, <1>2, <1>8, <1>9, <1>10 DEF LinkTypes
<1> QED BY <1>1, <1>3, <1>9, <1>11 DEF ServerTypes, PageTypes, UpsetTypes, NewestDecides, LiveIsOpen

\* The server subscribes and unsubscribes a connection; the page sees none of it.
LEMMA SubscriptionKeeps ==
  ASSUME Inv, NEW c \in Conns, Subscribe(c) \/ Release(c) PROVE Inv'
<1> USE DEF Inv, Parts, server, page
<1>1. conns \in [Conns -> Connection] /\ <<>> \in Seq(Events)
  BY DEF LinkTypes
<1>2. /\ conns' \in [Conns -> Connection]
      /\ \A d \in Conns : /\ conns'[d].client = conns[d].client
                          /\ conns'[d].queue = conns[d].queue \/ conns'[d].queue = <<>>
  <2>1. CASE Subscribe(c)
    BY <1>1, <2>1 DEF Subscribe, Connection
  <2>2. CASE Release(c)
    BY <1>1, <2>2 DEF Release, Connection
  <2> QED BY <2>1, <2>2
<1>3. Queues'
  BY <1>2, LimitsAssumption DEF Queues, LinkTypes
<1>4. UNCHANGED <<server, page, source, state, timer, awaiting, writes, upsets>>
  BY DEF Subscribe, Release
<1>5. LinkTypes' /\ LastSourceOnly' /\ LiveIsOpen'
  BY <1>2, <1>3, <1>4 DEF LinkTypes, LastSourceOnly, LiveIsOpen
<1> QED BY <1>4, <1>5 DEF ServerTypes, PageTypes, UpsetTypes, NewestDecides, UpsetsPayForSources

\* The page hears of its source: it opens, delivers an event, fails to handle one or breaks.
LEMMA SourceKeeps ==
  ASSUME Inv, NEW c \in Conns, Opened(c) \/ Deliver(c) \/ Rejected(c) \/ Break(c) PROVE Inv'
<1> USE DEF Inv, Parts, server, page
<1>1. /\ conns \in [Conns -> Connection] /\ conns[c] \in Connection
      /\ conns[c].queue \in Seq(Events) /\ Len(conns[c].queue) <= QueueSize
      /\ conns[c].client \in {"connecting", "open"}
  BY DEF LinkTypes, Connection, Queues, Opened, Deliver, Rejected, Break
<1>2. /\ conns' \in [Conns -> Connection]
      /\ \A d \in Conns : d # c => conns'[d] = conns[d]
      /\ conns'[c].queue = conns[c].queue \/ (conns[c].queue # <<>> /\ conns'[c].queue = Tail(conns[c].queue))
      /\ conns'[c].client \in {"open", "closed"}
  <2>1. conns[c].queue # <<>> => Tail(conns[c].queue) \in Seq(Events)
    BY <1>1
  <2>2. CASE Opened(c)
    BY <1>1, <2>2 DEF Opened, Connection
  <2>3. CASE Deliver(c) \/ Rejected(c)
    BY <1>1, <2>1, <2>3 DEF Deliver, Rejected, Connection
  <2>4. CASE Break(c)
    BY <1>1, <2>4 DEF Break, Closed, Connection
  <2> QED BY <2>2, <2>3, <2>4
<1>3. Queues'
  <2>1. Len(conns'[c].queue) <= QueueSize
    BY <1>1, <1>2, QueueFacts
  <2> QED BY <1>2, <2>1 DEF Queues, LinkTypes
<1>4. LastSourceOnly' /\ source' = source /\ c = source
  <2>1. source' = source /\ c = source
    BY <1>1 DEF Opened, Deliver, Rejected, Break, LastSourceOnly
  <2>2. source \in Nat
    BY DEF LinkTypes
  <2> QED BY <1>2, <2>1, <2>2 DEF LastSourceOnly
<1>5. stream' \in Contents
  <2>1. CASE Deliver(c)
    <3>1. conns[c].queue # <<>> /\ stream' \in Upserted(stream, Head(conns[c].queue))
      BY <2>1 DEF Deliver, Next1
    <3>2. Head(conns[c].queue) \in Events /\ stream \in Contents
      BY <1>1, <3>1, QueueFacts DEF PageTypes
    <3> QED BY <3>1, <3>2, ContentsFacts
  <2>2. CASE UNCHANGED stream
    BY <2>2 DEF PageTypes
  <2> QED BY <2>1, <2>2 DEF Opened, Rejected, Break
<1>6. /\ PageTypes' /\ NewestDecides' /\ ServerTypes'
  BY <1>5 DEF Opened, Deliver, Rejected, Break, PageTypes, NewestDecides, ServerTypes, LinkTypes
<1>7. UpsetTypes' /\ UpsetsPayForSources'
  <2>1. CASE Opened(c) \/ Deliver(c)
    BY <2>1 DEF Opened, Deliver, UpsetTypes, UpsetsPayForSources
  <2>2. CASE Rejected(c) \/ Break(c)
    <3>1. upsets' = upsets + 1 /\ upsets < MaxUpsets /\ source' = source /\ state' = "offline"
      BY <2>2 DEF Rejected, Break, OnError
    <3>2. upsets \in Nat /\ source \in Nat /\ source <= upsets + 1 /\ 0 < source
      BY <1>4 DEF UpsetTypes, UpsetsPayForSources, LinkTypes, Conns
    <3>3. boot = "up" /\ boot' = boot
      BY <2>2, <3>2 DEF Rejected, Break, UpsetsPayForSources, page
    <3> QED BY <3>1, <3>2, <3>3, LimitsAssumption DEF UpsetTypes, UpsetsPayForSources
  <2> QED BY <2>1, <2>2
<1>8. LinkTypes'
  BY <1>2, <1>3, <1>4 DEF LinkTypes, Opened, Deliver, Rejected, Break, OnError
<1>9. LiveIsOpen'
  <2>1. CASE Opened(c)
    BY <1>1, <1>4, <2>1 DEF Opened, LiveIsOpen
  <2>2. CASE Deliver(c)
    BY <1>1, <1>4, <2>2 DEF Deliver, LiveIsOpen
  <2>3. CASE Rejected(c) \/ Break(c)
    BY <2>3 DEF Rejected, Break, OnError, LiveIsOpen
  <2> QED BY <2>1, <2>2, <2>3
<1> QED BY <1>4, <1>6, <1>7, <1>8, <1>9

\* Before it connects the page only learns the status, or its start is rejected.
LEMMA BootKeeps == ASSUME Inv, StatusLoaded \/ BootstrapFails PROVE Inv'
<1> USE LimitsAssumption DEF Inv, Parts, server
<1>1. source = 0 /\ UNCHANGED <<conns, source, timer, awaiting>>
  BY DEF UpsetsPayForSources, StatusLoaded, BootstrapFails, link
<1>2. /\ boot' \in {"loads", "aborted"} /\ upsets \in Nat /\ upsets' \in 0..MaxUpsets
      /\ upsets <= upsets'
  BY DEF StatusLoaded, BootstrapFails, UpsetTypes
<1>3. PageTypes' /\ ServerTypes' /\ NewestDecides'
  BY <1>2 DEF StatusLoaded, BootstrapFails, PageTypes, ServerTypes, NewestDecides
<1>4. LinkTypes' /\ UpsetTypes' /\ LastSourceOnly'
  BY <1>1, <1>2 DEF StatusLoaded, BootstrapFails, link, LinkTypes, UpsetTypes, Queues, LastSourceOnly
<1>5. UpsetsPayForSources'
  <2>1. ~timer
    BY <1>1 DEF UpsetsPayForSources
  <2>2. ~timer'
    BY <1>1, <2>1, Zenon
  <2>3. source' = 0 /\ upsets' \in Nat
    BY <1>1, <1>2, LimitsAssumption
  <2>4. source' <= upsets' + 1
    <3>1. \A u \in Nat : 0 <= u + 1
      OBVIOUS
    <3> QED BY <2>3, <3>1, Zenon
  <2> QED BY <2>2, <2>3, <2>4, Zenon DEF UpsetsPayForSources
<1>6. LiveIsOpen'
  <2>1. source \notin Conns
    BY <1>1 DEF Conns
  <2>2. state # "live" /\ state' # "live"
    BY <2>1 DEF LiveIsOpen, StatusLoaded, BootstrapFails, link
  <2> QED BY <2>2 DEF LiveIsOpen
<1> QED BY <1>3, <1>4, <1>5, <1>6

-----------------------------------------------------------------------------
\* Every step preserves the invariant.
LEMMA NextInv == Inv /\ [Next]_vars => Inv'
<1> SUFFICES ASSUME Inv, [Next]_vars PROVE Inv'
  OBVIOUS
<1>1. CASE UserLoad
  BY <1>1, StartKeeps, LimitsAssumption DEF UserLoad, Inv, Parts, UpsetTypes, PageTypes
<1>2. CASE DebouncedRefresh \/ Poll
  <2>1. upsets \in 0..MaxUpsets /\ refresh \in BOOLEAN
    BY DEF Inv, Parts, UpsetTypes, PageTypes
  <2>2. refresh' \in BOOLEAN /\ upsets' = upsets /\ Start
    BY <1>2, <2>1, Zenon DEF DebouncedRefresh, Poll
  <2>3. upsets' \in 0..MaxUpsets /\ upsets <= upsets'
    BY <2>1, <2>2
  <2> QED BY <2>2, <2>3, StartKeeps
<1>3. CASE Bootstrap \/ Reconnect
  <2>1. Connect /\ UNCHANGED <<server, request, stream, shown, refresh, awaiting, writes, upsets>>
    BY <1>3 DEF Bootstrap, Reconnect, page
  <2>2. CASE Bootstrap
    BY <2>1, <2>2, ConnectKeeps DEF Bootstrap
  <2>3. CASE Reconnect
    <3>1. boot' = boot
      BY <2>3 DEF Reconnect, page
    <3>2. timer
      BY <2>3, Zenon DEF Reconnect
    <3> QED BY <2>1, <3>1, <3>2, ConnectKeeps, Zenon
  <2> QED BY <1>3, <2>2, <2>3
<1>4. CASE UNCHANGED vars
  BY <1>4 DEF vars, server, page, link, Inv, Parts, ServerTypes, PageTypes, LinkTypes, UpsetTypes,
     Queues, NewestDecides, LastSourceOnly, UpsetsPayForSources, LiveIsOpen
<1> QED BY <1>1, <1>2, <1>3, <1>4, BootKeeps, WriteKeeps, PublishKeeps, ExpireKeeps, ServeKeeps, StoreKeeps,
           ReceiveKeeps, LoadFailsKeeps, SubscriptionKeeps, SourceKeeps DEF Next

\* The page asks for its list and is not connected yet.
LEMMA InitInv == Init => Inv
<1> SUFFICES ASSUME Init PROVE Inv
  OBVIOUS
<1> USE LimitsAssumption, ContentsFacts DEF Init
<1>1. ServerTypes
  <2>1. cache \subseteq Contents /\ Cardinality(cache) <= 1
    BY CacheFacts
  <2> QED BY <2>1 DEF ServerTypes
<1>2. PageTypes
  <2>1. request \in Loading
    BY DEF Loading, Loads, Sent, Idle
  <2>2. refresh \in BOOLEAN
    BY Zenon
  <2> QED BY <2>1, <2>2 DEF PageTypes
<1>3. LinkTypes
  <2>1. <<>> \in Seq(Events) /\ Len(<<>>) = 0
    OBVIOUS
  <2>2. conns \in [Conns -> Connection] /\ Queues
    BY <2>1 DEF Connection, Queues
  <2>3. timer \in BOOLEAN /\ awaiting \in BOOLEAN
    BY Zenon
  <2> QED BY <2>2, <2>3 DEF LinkTypes
<1>4. NewestDecides /\ LastSourceOnly /\ UpsetsPayForSources /\ LiveIsOpen /\ UpsetTypes
  BY DEF NewestDecides, Sent, Idle, LastSourceOnly, UpsetsPayForSources, LiveIsOpen, UpsetTypes
<1> QED BY <1>1, <1>2, <1>3, <1>4 DEF Inv, Parts

\* The invariant contains what is promised.
LEMMA InvSuffices == Inv => PageIsConsistent
<1> SUFFICES ASSUME Inv PROVE PageIsConsistent
  OBVIOUS
<1>1. TypeOK
  BY DEF Inv, Parts, ServerTypes, PageTypes, LinkTypes, UpsetTypes, Loading, Queues, Connection, TypeOK
<1>2. ShowsLastAsked
  BY DEF Inv, NewestDecides, ShowsLastAsked, Loads
<1>3. OneSource
  <2> DEFINE listening == {c \in Conns : conns[c].client \in {"connecting", "open"}}
  <2>1. listening \in SUBSET {source}
    BY DEF Inv, LastSourceOnly
  <2>2. IsFiniteSet({source}) /\ Cardinality({source}) = 1
    BY FS_Singleton
  <2> HIDE DEF listening
  <2>3. IsFiniteSet(listening) /\ Cardinality(listening) <= 1
    BY <2>1, <2>2, FS_Subset
  <2> QED BY <2>3 DEF OneSource, listening
<1>4. LiveIsOpen
  BY DEF Inv
<1> QED BY <1>1, <1>2, <1>3, <1>4 DEF PageIsConsistent

\* Whatever the order of replies, events, breaks and reconnections, the page shows the
\* list it asked for last and has one source that can deliver an event.
THEOREM PageTheorem == Spec => []PageIsConsistent
BY InitInv, NextInv, InvSuffices, PTL DEF Spec
=============================================================================
