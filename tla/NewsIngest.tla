------------------------------- MODULE NewsIngest -------------------------------
(***************************************************************************)
(* A refresh: fetch the due sources in parallel, store each response in    *)
(* one transaction of its own (NewsIngestionService.refresh_all,           *)
(* ItemPersister, DuplicateGate). The scheduler and POST /news/refresh run *)
(* refreshes of their own, so there may be several writers.                *)
(*                                                                         *)
(* An item is its normalized URL; items of one story have titles that look *)
(* alike and times within the duplicate window. The prefetched index of    *)
(* the duplicate gate always covers the batch. SQLite has one writer: the  *)
(* first UPDATE or INSERT of a transaction takes the lock until its end.   *)
(***************************************************************************)
EXTENDS Naturals, FiniteSets

CONSTANTS
  Writers,      \* threads that refresh
  Sources, Rank,   \* sources and their (priority, tier) rank
  Urls, Story,     \* items and the story of each
  Offers,       \* pairs <<source, url>>: what a source may have in its feed
  Irrelevant,   \* items the relevance gate rejects
  MaxRefreshes, MaxChanges, MaxFaults   \* bounds: refreshes, feed changes, database errors and restarts

VARIABLES
  feed, changes,    \* what each source offers now
  rows,             \* committed news_item rows
  etag,             \* source_health.last_etag: {} or {content it stands for}
  lock,             \* writer holding SQLite's write lock, or NoWriter
  view,             \* rows as the lock holder sees them
  pc,               \* each writer: idle, refresh (between outcomes), lookup, write
  cached,           \* ETags read at the start of the refresh
  pending, got,     \* sources not fetched yet; outcomes not stored yet
  batch,            \* outcome being stored, its items left, the index, the plan
  refreshes, faults,
  overlapped        \* history: a refresh began while another was running

db     == <<rows, etag, lock, view>>
work   == <<pc, cached, pending, got, batch>>
vars   == <<feed, changes, db, work, refreshes, faults, overlapped>>

NoWriter == "none"
Row      == [id : Nat \ {0}, url : Urls, story : {Story[u] : u \in Urls}, source : Sources]
Outcome  == [source : Sources, kind : {"ok", "not_modified", "error"}, items : SUBSET Urls]

Offered(s) == {u \in Urls : <<s, u>> \in Offers}

\* Types; the id and the link of a row are its own (url_hash is a unique column that
\* a promotion must not run into).
TypeOK ==
  /\ feed \in [Sources -> SUBSET Urls]
  /\ \A t \in {rows, view} : t \subseteq Row /\ \A q, r \in t : (q.id = r.id \/ q.url = r.url) => q = r
  /\ \A s \in Sources : etag[s] \in SUBSET (SUBSET Urls) /\ Cardinality(etag[s]) <= 1
  /\ lock \in Writers \cup {NoWriter}
  /\ pc \in [Writers -> {"idle", "refresh", "lookup", "write"}]
  /\ \A w \in Writers : pending[w] \subseteq Sources /\ got[w] \subseteq Outcome
  /\ overlapped \in BOOLEAN /\ refreshes \in 0..MaxRefreshes /\ changes \in 0..MaxChanges /\ faults \in 0..MaxFaults

NoBatch == [source |-> CHOOSE s \in Sources : TRUE, kind |-> "ok", items |-> {}, left |-> {},
            index |-> {}, url |-> CHOOSE u \in Urls : TRUE, hit |-> {}]

Init ==
  /\ feed \in [Sources -> SUBSET Urls]
  /\ \A s \in Sources : feed[s] \subseteq Offered(s)
  /\ changes = 0 /\ rows = {} /\ view = {} /\ lock = NoWriter
  /\ etag = [s \in Sources |-> {}]
  /\ pc = [w \in Writers |-> "idle"]
  /\ cached = [w \in Writers |-> etag]
  /\ pending = [w \in Writers |-> {}] /\ got = [w \in Writers |-> {}]
  /\ batch = [w \in Writers |-> NoBatch]
  /\ refreshes = 0 /\ faults = 0 /\ overlapped = FALSE

(***************************************************************************)
(* Fetching                                                                *)
(***************************************************************************)
FeedChanges(s) ==
  /\ changes < MaxChanges
  /\ \E c \in SUBSET Offered(s) : c # feed[s] /\ feed' = [feed EXCEPT ![s] = c]
  /\ changes' = changes + 1
  /\ UNCHANGED <<db, work, refreshes, faults, overlapped>>

\* refresh_all reads the ETags of the due sources and commits.
Begin(w) ==
  /\ pc[w] = "idle" /\ refreshes < MaxRefreshes
  /\ refreshes' = refreshes + 1
  /\ overlapped' = (overlapped \/ \E x \in Writers : pc[x] # "idle")
  /\ \E due \in (SUBSET Sources) \ {{}} : pending' = [pending EXCEPT ![w] = due]
  /\ cached' = [cached EXCEPT ![w] = etag]
  /\ pc' = [pc EXCEPT ![w] = "refresh"]
  /\ UNCHANGED <<feed, changes, db, got, batch, faults>>

\* fetch_source_items with If-None-Match; futures complete in any order, while
\* other outcomes are being stored.
Fetch(w, s) ==
  /\ pc[w] # "idle" /\ s \in pending[w]
  /\ \E k \in {"ok", "not_modified", "error"} :
       /\ (k = "not_modified") => cached[w][s] = {feed[s]}
       /\ (k = "ok") => cached[w][s] # {feed[s]}
       /\ got' = [got EXCEPT ![w] = @ \cup
            {[source |-> s, kind |-> k, items |-> IF k = "ok" THEN feed[s] ELSE {}]}]
  /\ pending' = [pending EXCEPT ![w] = @ \ {s}]
  /\ UNCHANGED <<feed, changes, db, pc, cached, batch, refreshes, faults, overlapped>>

(***************************************************************************)
(* persist_outcome                                                         *)
(***************************************************************************)
Free(w) == lock \in {NoWriter, w}

Visible(w) == IF lock = w THEN view ELSE rows

\* For a batch with items the duplicate candidates are read.
Load(w, o) ==
  /\ pc[w] = "refresh" /\ o \in got[w]
  /\ batch' = [batch EXCEPT ![w] =
       [NoBatch EXCEPT !.source = o.source, !.kind = o.kind, !.items = o.items,
                       !.left = o.items, !.index = IF o.items = {} THEN {} ELSE rows]]
  /\ got' = [got EXCEPT ![w] = @ \ {o}]
  /\ pc' = [pc EXCEPT ![w] = "lookup"]
  /\ UNCHANGED <<feed, changes, db, cached, pending, refreshes, faults, overlapped>>

\* url_hash first, then find_duplicate in the index (whose rows are then loaded).
Duplicates(w, u) ==
  LET same == {r \in Visible(w) : r.url = u}
      near == {r \in Visible(w) : \E i \in batch[w].index : i.id = r.id /\ i.story = Story[u]}
  IN IF same # {} THEN same ELSE near

\* persist_item, its reads. What passes neither the gate nor a match is dropped.
Lookup(w, u) ==
  /\ pc[w] = "lookup" /\ u \in batch[w].left
  /\ LET dups == Duplicates(w, u) IN
       IF dups = {} /\ u \in Irrelevant
         THEN /\ batch' = [batch EXCEPT ![w].left = @ \ {u}]
              /\ UNCHANGED pc
         ELSE /\ \E hit \in IF dups = {} THEN {{}} ELSE {{r} : r \in dups} :
                   batch' = [batch EXCEPT ![w].url = u, ![w].hit = hit]
              /\ pc' = [pc EXCEPT ![w] = "write"]
  /\ UNCHANGED <<feed, changes, db, cached, pending, got, refreshes, faults, overlapped>>

Register(w, r) ==
  batch' = [batch EXCEPT ![w].left = @ \ {batch[w].url},
                         ![w].index = {i \in @ : i.id # r.id} \cup {r},
                         ![w].hit = {}]

\* The INSERT of persist_item; url_hash is unique.
Insert(w) ==
  /\ pc[w] = "write" /\ batch[w].hit = {} /\ Free(w)
  /\ \A r \in Visible(w) : r.url # batch[w].url
  /\ LET u == batch[w].url
         r == [id |-> Cardinality(Visible(w)) + 1, url |-> u, story |-> Story[u],
               source |-> batch[w].source]
     IN view' = Visible(w) \cup {r} /\ Register(w, r)
  /\ lock' = w
  /\ pc' = [pc EXCEPT ![w] = "lookup"]
  /\ UNCHANGED <<feed, changes, rows, etag, cached, pending, got, refreshes, faults, overlapped>>

\* A source of higher rank takes the row over: source and link, unless another row
\* has the link already. Decided on the row as it was loaded by the lookup.
Promoted(row, loaded, s, u, others) ==
  IF Rank[s] > Rank[loaded.source]
    THEN [row EXCEPT !.source = s,
                     !.url = IF \E r \in others : r.url = u THEN @ ELSE u]
    ELSE row

\* update_existing_item.
Update(w) ==
  /\ pc[w] = "write" /\ batch[w].hit # {} /\ Free(w)
  /\ LET loaded == CHOOSE h \in batch[w].hit : TRUE
         row == CHOOSE r \in Visible(w) : r.id = loaded.id
         new == Promoted(row, loaded, batch[w].source, batch[w].url, Visible(w) \ {row})
     IN view' = (Visible(w) \ {row}) \cup {new} /\ Register(w, new)
  /\ lock' = w
  /\ pc' = [pc EXCEPT ![w] = "lookup"]
  /\ UNCHANGED <<feed, changes, rows, etag, cached, pending, got, refreshes, faults, overlapped>>

\* A 304 answer stores the ETag the request was sent with.
NewEtag(w, b) ==
  CASE b.kind = "ok"           -> {b.items}
    [] b.kind = "not_modified" -> cached[w][b.source]
    [] b.kind = "error"        -> etag[b.source]

\* One transaction for all of an outcome: the ETag in source_health and the rows.
Commit(w) ==
  /\ pc[w] = "lookup" /\ batch[w].left = {} /\ Free(w)
  /\ etag' = [etag EXCEPT ![batch[w].source] = NewEtag(w, batch[w])]
  /\ rows' = Visible(w) /\ view' = {} /\ lock' = NoWriter
  /\ batch' = [batch EXCEPT ![w] = NoBatch]
  /\ pc' = [pc EXCEPT ![w] = "refresh"]
  /\ UNCHANGED <<feed, changes, cached, pending, got, refreshes, faults, overlapped>>

Unlock(w) ==
  /\ view' = IF lock = w THEN {} ELSE view
  /\ lock' = IF lock = w THEN NoWriter ELSE lock
  /\ batch' = [batch EXCEPT ![w] = NoBatch]

\* Mutation of RollBack: the failure is recorded without a rollback before it, so
\* its commit also stores what was written so far, the new ETag included.
RollBackNot(w) ==
  /\ etag' = [etag EXCEPT ![batch[w].source] = {batch[w].items}]
  /\ rows' = Visible(w)
  /\ Unlock(w)

\* rollback, then record_failure, which leaves the ETag alone.
RollBack(w) ==
  /\ UNCHANGED <<rows, etag>>
  /\ Unlock(w)

\* Another writer has inserted the URL since the lookup.
UniqueViolation(w) ==
  /\ pc[w] = "write" /\ batch[w].hit = {} /\ Free(w)
  /\ \E r \in Visible(w) : r.url = batch[w].url
  /\ RollBack(w)
  /\ pc' = [pc EXCEPT ![w] = "refresh"]
  /\ UNCHANGED <<feed, changes, cached, pending, got, refreshes, faults, overlapped>>

\* Any other database error while a parsed feed is stored.
DatabaseError(w) ==
  /\ pc[w] \in {"lookup", "write"} /\ batch[w].kind = "ok" /\ Free(w)
  /\ faults < MaxFaults
  /\ faults' = faults + 1
  /\ RollBack(w)
  /\ pc' = [pc EXCEPT ![w] = "refresh"]
  /\ UNCHANGED <<feed, changes, cached, pending, got, refreshes, overlapped>>

\* An error of record_failure itself, or at the commit of a fetch error or a 304, is
\* not caught: the refresh ends and the outcomes not stored yet are dropped.
Escape(w) ==
  /\ pc[w] \in {"lookup", "write"} /\ faults < MaxFaults
  /\ faults' = faults + 1
  /\ Unlock(w)
  /\ pc' = [pc EXCEPT ![w] = "idle"]
  /\ pending' = [pending EXCEPT ![w] = {}] /\ got' = [got EXCEPT ![w] = {}]
  /\ UNCHANGED <<feed, changes, rows, etag, cached, refreshes, overlapped>>

End(w) ==
  /\ pc[w] = "refresh" /\ pending[w] = {} /\ got[w] = {}
  /\ pc' = [pc EXCEPT ![w] = "idle"]
  /\ UNCHANGED <<feed, changes, db, cached, pending, got, batch, refreshes, faults, overlapped>>

\* The process dies; open transactions are rolled back.
Restart ==
  /\ faults < MaxFaults
  /\ faults' = faults + 1
  /\ pc' = [w \in Writers |-> "idle"]
  /\ pending' = [w \in Writers |-> {}] /\ got' = [w \in Writers |-> {}]
  /\ batch' = [w \in Writers |-> NoBatch]
  /\ lock' = NoWriter /\ view' = {}
  /\ UNCHANGED <<feed, changes, rows, etag, cached, refreshes, overlapped>>

Persist(w) ==
  \/ \E o \in got[w] : Load(w, o)
  \/ \E u \in Urls : Lookup(w, u)
  \/ Insert(w) \/ Update(w) \/ Commit(w)
  \/ UniqueViolation(w) \/ DatabaseError(w) \/ Escape(w)

Next ==
  \/ \E s \in Sources : FeedChanges(s)
  \/ \E w \in Writers :
       Begin(w) \/ End(w) \/ Persist(w) \/ \E s \in Sources : Fetch(w, s)
  \/ Restart

Spec == Init /\ [][Next]_vars

-----------------------------------------------------------------------------
(***************************************************************************)
(* Properties                                                              *)
(***************************************************************************)
Stored(u) == \E r \in rows : r.url = u \/ r.story = Story[u]

\* The server answers 304 for content whose ETag is stored: every relevant item of
\* that content is in the database, whatever failed or ran in parallel.
AcknowledgedIsStored ==
  \A s \in Sources : \A content \in etag[s] :
    \A u \in content \ Irrelevant : Stored(u)

\* A stored story is never lost and never handed back to a source of lower rank, in
\* whichever order the sources of the refreshes come in, as long as none overlap.
RowsOnlyImprove ==
  ~overlapped' =>
    \A r \in rows : \E q \in rows' :
      q.id = r.id /\ q.story = r.story /\ Rank[q.source] >= Rank[r.source]

\* One story is one row, as long as refreshes do not overlap.
StoriesAreUnique ==
  ~overlapped => \A q, r \in rows : q.story = r.story => q.id = r.id

\* "source_* and canonical_url of a row always describe the same source"
\* (update_existing_item).
SourceMatchesLink == \A r \in rows : <<r.source, r.url>> \in Offers

\* It is so as long as refreshes do not overlap.
LinkFollowsSource == ~overlapped => SourceMatchesLink

\* What a feed may leave out is stored, and kept: once, under its own link, and with
\* the best source that had it.
SoundStep ==
  /\ TypeOK' /\ AcknowledgedIsStored'
  /\ StoriesAreUnique' /\ LinkFollowsSource' /\ RowsOnlyImprove

StoriesAreKept == [][SoundStep]_vars
=============================================================================
