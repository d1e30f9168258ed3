-------------------------------- MODULE Articles --------------------------------
(***************************************************************************)
(* The bodies of the news (table article_content) and who writes them: the *)
(* refreshes, from the feed or, for MiniMax, from a detail page            *)
(* (services/ingestion/detail_hydration.py, persister.py), and stage 1 of  *)
(* the signal pipeline, which crawls what has no body                      *)
(* (news_signal_pipeline.py, article_crawler.py).                          *)
(*                                                                         *)
(* Each reads, goes to the network, and writes later.  SQLite has one      *)
(* writer, but a SELECT holds no lock: what was read may have changed when *)
(* the statement that was decided on it runs.                              *)
(***************************************************************************)
EXTENDS Naturals, Sequences, FiniteSets, FiniteSetsExt

CONSTANTS
    News,
    Kinds,        \* Kinds[n]: the feeds that have n give a "summary", a "headline", or a link
                  \* to a page of "detail" that is fetched at once
    Layouts,      \* of pages: sequences of the elements that match a selector of articles
    Refreshers,   \* threads that may refresh the source of n: scheduler, POST /news/refresh
    Window,       \* DETAIL_FETCH_WINDOW_SECONDS
    MaxAttempts,  \* DETAIL_FETCH_MAX_ATTEMPTS
    MaxNow, MaxBatches,
    None

VARIABLES
    signal,       \* signal[n]: None while n is not stored, "pending", or "processed"
    dated,        \* the news with published_at
    article,      \* article[n]: the row of article_content, or None
    refresh,      \* refresh[w]: what thread w is doing, with its item
    failures,     \* failures[n]: [at, nth] of DetailFetchCooldown, those of the window
    batch,        \* the pipeline's batch: its news, the crawls, the statements
    now, batches,
    raced         \* history: the news whose body came while another writer had decided already

refreshing == <<refresh, failures>>
vars == <<signal, dated, article, refreshing, batch, now, batches, raced>>

\* NULL is no body and no state of a news, and a page may be fetched once.
ASSUME ArticlesAssumption ==
    /\ IsFiniteSet(Refreshers) /\ MaxAttempts \in Nat \ {0} /\ Window \in Nat
    /\ None \notin {"pending", "processed"}
    /\ None \notin [status : {"success", "failed"},
                    body : {None, "snippet", "page", "stub", "news", "notice"}]

Row(status, body) == [status |-> status, body |-> body]
Idle == [pc |-> "idle"]
NoBatch == [pc |-> "idle"]
Stored == {n \in News : signal[n] # None}

\* A body written from the page before it was rendered ("模型 文本 ") does not count.
Success(a) == a # None /\ a.status = "success"
Complete(a) == Success(a) /\ a.body # "stub"

Init ==
    /\ signal = [n \in News |-> None] /\ dated = {} /\ article = [n \in News |-> None]
    /\ refresh = [w \in Refreshers |-> Idle]
    /\ failures = [n \in News |-> {}]
    /\ batch = NoBatch /\ now = 0 /\ batches = 0 /\ raced = {}

-----------------------------------------------------------------------------
(* Detail pages. *)

Recent(times) == {t \in times : t.at + Window >= now}
Allow(n) == Cardinality(Recent(failures[n])) < MaxAttempts

\* Rows that have a date and a complete body are not fetched again.
NeedsDetail(n, kind) ==
    kind = "detail" /\ ~(n \in dated /\ Complete(article[n])) /\ Allow(n)

\* The item a feed gives: its extract_status and body, or none.
FeedItem(kind) ==
    [dated |-> FALSE, row |-> IF kind = "summary" THEN Row("success", "snippet") ELSE None]

BeginRefresh(w) ==
    /\ refresh[w].pc = "idle"
    /\ \E n \in News : \E kind \in Kinds[n] :
         refresh' = [refresh EXCEPT ![w] =
             [pc |-> IF NeedsDetail(n, kind) THEN "fetch" ELSE "store", news |-> n,
              item |-> FeedItem(kind),
              knownDate |-> n \in dated]]
    /\ UNCHANGED <<signal, dated, article, failures, batch, now, batches, raced>>

\* The page has a body or only its date.  It may have the text of an unrendered page.
DetailArrives(w) ==
    /\ refresh[w].pc = "fetch"
    /\ LET n == refresh[w].news
       IN  /\ \E row \in {None, Row("success", "page"), Row("success", "stub")} :
                refresh' = [refresh EXCEPT ![w].pc = "store",
                                           ![w].item = [dated |-> TRUE, row |-> row]]
           /\ failures' = [failures EXCEPT ![n] = {}]
    /\ UNCHANGED <<signal, dated, article, batch, now, batches, raced>>

\* The failure is noted with the item unless the row had a date.
DetailFails(w) ==
    /\ refresh[w].pc = "fetch"
    /\ LET n == refresh[w].news
           recent == Recent(failures[n])
       IN  failures' = [failures EXCEPT ![n] =
               recent \union {[at |-> now, nth |-> Cardinality({t \in recent : t.at = now})]}]
    /\ refresh' = [refresh EXCEPT ![w].pc = "store",
                                  ![w].item.row = IF refresh[w].knownDate THEN @ ELSE Row("failed", None)]
    /\ UNCHANGED <<signal, dated, article, batch, now, batches, raced>>

-----------------------------------------------------------------------------
(* persist_item and update_existing_item. *)

\* Mutation of Statement: whatever arrives replaces what is there.
StatementAlways(a, row) ==
    IF row = None THEN "none" ELSE IF a = None THEN "insert" ELSE "update"

\* The statement on article_content, decided from the row that is there: a success
\* replaces what is no success or a stub, a pending row is replaced by anything.
Statement(a, row) ==
    IF row = None THEN "none"
    ELSE IF a = None THEN "insert"
    ELSE IF row.status = "success" /\ ~Complete(a) THEN "update"
    ELSE IF a.status = "pending" THEN "update"
    ELSE "none"

Decide(w) ==
    /\ refresh[w].pc = "store"
    /\ LET n == refresh[w].news
       IN  refresh' = [refresh EXCEPT ![w] =
               [pc |-> "write", news |-> n, item |-> @.item, new |-> n \notin Stored,
                statement |-> Statement(article[n], @.item.row)]]
    /\ UNCHANGED <<signal, dated, article, failures, batch, now, batches, raced>>

\* A row that is there already may not be inserted (unique columns).
Refused(new, statement, n) ==
    (new /\ n \in Stored) \/ (statement = "insert" /\ article[n] # None)

Crawling == IF batch.pc = "idle" THEN {} ELSE DOMAIN batch.crawl
Writing(ws) == {refresh[w].news : w \in {v \in ws : refresh[v].pc = "write"}}

Store(w) ==
    /\ refresh[w].pc = "write"
    /\ LET n == refresh[w].news
           row == refresh[w].item.row
       IN  /\ ~Refused(refresh[w].new, refresh[w].statement, n)
           /\ signal' = [signal EXCEPT ![n] = IF refresh[w].new THEN "pending" ELSE @]
           /\ dated' = IF refresh[w].item.dated THEN dated \union {n} ELSE dated
           /\ article' = [article EXCEPT ![n] = IF refresh[w].statement = "none" THEN @ ELSE row]
           /\ raced' = IF Complete(article'[n]) /\ n \in Crawling \union Writing(Refreshers \ {w})
                       THEN raced \union {n} ELSE raced \ {n}
    /\ refresh' = [refresh EXCEPT ![w] = Idle]
    /\ UNCHANGED <<failures, batch, now, batches>>

\* IntegrityError, or any other error: the batch of the source is rolled back.
StoreFails(w) ==
    /\ refresh[w].pc = "write"
    /\ Refused(refresh[w].new, refresh[w].statement, refresh[w].news)
    /\ refresh' = [refresh EXCEPT ![w] = Idle]
    /\ UNCHANGED <<signal, dated, article, failures, batch, now, batches, raced>>

-----------------------------------------------------------------------------
(* The crawler: a page has elements, in the order of the document, that match  *)
(* some of the selectors of articles, perhaps paragraphs, and the rest.  Each   *)
(* text is the news, a short notice to log in, a long one, or too thin.         *)

Texts == {"news", "wall", "longwall", "thin"}
Selectors == 1..2      \* in their order of preference

First(page, s) ==
    LET found == {k \in DOMAIN page : s \in page[k].matches}
    IN  IF found = {} THEN 0 ELSE Min(found)

\* Only the first element of a selector counts, if its text is long enough.
Usable(page) == {s \in Selectors : First(page, s) # 0 /\ page[First(page, s)].text # "thin"}
WithContainer == {page \in Layouts : Usable(page) # {}}

\* Only short texts are searched for the words of such a notice.
Blocked(text) == text = "wall"

Taken(text) == Row("success", IF text = "news" THEN "news" ELSE "notice")

\* The container is taken as it is, of the best selector.
FromContainer(page) == Taken(page[First(page, Min(Usable(page)))].text)

\* Without a container, the paragraphs must not be a notice; without paragraphs, the
\* rest of the page must look like text, too.
FromParagraphs(text) == IF Blocked(text) THEN Row("failed", None) ELSE Taken(text)
FromRest(text) ==
    IF text = "thin" \/ Blocked(text) THEN Row("failed", None) ELSE Taken(text)

\* What any page, or no answer, may give.
CrawlResults ==
    {Row("failed", None)}
    \union {FromContainer(page) : page \in WithContainer}
    \union {FromParagraphs(text) : text \in Texts \ {"thin"}}
    \union {FromRest(text) : text \in Texts}

-----------------------------------------------------------------------------
(* Stage 1 of the pipeline, then the rest of it. *)

\* News with a body are not crawled.
ToCrawl(ns) == {n \in ns : ~Success(article[n])}

StartBatch ==
    /\ batch.pc = "idle" /\ batches < MaxBatches
    /\ batches' = batches + 1
    /\ \E ns \in SUBSET {n \in News : signal[n] = "pending"} :
         /\ ns # {}
         /\ batch' = [pc |-> "crawl", news |-> ns, crawl |-> [n \in ToCrawl(ns) |-> None]]
    /\ UNCHANGED <<signal, dated, article, refreshing, now, raced>>

Crawl ==
    /\ batch.pc = "crawl"
    /\ \E n \in {m \in DOMAIN batch.crawl : batch.crawl[m] = None}, result \in CrawlResults :
         /\ batch' = [pc |-> "crawl", news |-> batch.news,
                      crawl |-> [batch.crawl EXCEPT ![n] = result]]
    /\ UNCHANGED <<signal, dated, article, refreshing, now, batches, raced>>

\* _upsert_article_content: a SELECT for each news, in a session of their own.
Upsert ==
    /\ batch.pc = "crawl"
    /\ \A n \in DOMAIN batch.crawl : batch.crawl[n] # None
    /\ batch' = [pc |-> "upsert", news |-> batch.news, crawl |-> batch.crawl,
                 insert |-> {n \in DOMAIN batch.crawl : article[n] = None}]
    /\ UNCHANGED <<signal, dated, article, refreshing, now, batches, raced>>

UpsertRefused == \E n \in batch.insert : article[n] # None

\* Whatever is there by now is overwritten.
CommitArticles ==
    /\ batch.pc = "upsert" /\ ~UpsertRefused
    /\ article' = [n \in News |-> IF n \in DOMAIN batch.crawl THEN batch.crawl[n] ELSE article[n]]
    /\ raced' = (raced \ DOMAIN batch.crawl)
                 \union {n \in DOMAIN batch.crawl : Complete(article'[n]) /\ n \in Writing(Refreshers)}
    /\ batch' = [pc |-> "apply", news |-> batch.news, crawl |-> <<>>]
    /\ UNCHANGED <<signal, dated, refreshing, now, batches>>

\* Classification and its commit.
Process ==
    /\ batch.pc = "apply"
    /\ signal' = [n \in News |-> IF n \in batch.news THEN "processed" ELSE signal[n]]
    /\ batch' = NoBatch
    /\ UNCHANGED <<dated, article, refreshing, now, batches, raced>>

\* The insert is refused, or something fails: the news stay pending.
BatchFails ==
    /\ batch.pc = "apply" \/ (batch.pc = "upsert" /\ UpsertRefused)
    /\ raced' = raced \ (Crawling \ Writing(Refreshers))
    /\ batch' = NoBatch
    /\ UNCHANGED <<signal, dated, article, refreshing, now, batches>>

Tick ==
    /\ now < MaxNow
    /\ now' = now + 1
    /\ failures' = [n \in News |-> {t \in failures[n] : t.at + Window > now}]
    /\ UNCHANGED <<signal, dated, article, refresh, batch, batches, raced>>

Next ==
    \/ \E w \in Refreshers :
         \/ BeginRefresh(w) \/ DetailArrives(w) \/ DetailFails(w)
         \/ Decide(w) \/ Store(w) \/ StoreFails(w)
    \/ StartBatch \/ Crawl \/ Upsert \/ CommitArticles \/ Process \/ BatchFails
    \/ Tick

Spec == Init /\ [][Next]_vars

-----------------------------------------------------------------------------
Bodies == [status : {"success", "failed"},
           body : {None, "snippet", "page", "stub", "news", "notice"}]
Given == [dated : BOOLEAN, row : {None} \union Bodies]
Asked == [pc : {"fetch", "store"}, news : News, item : Given, knownDate : BOOLEAN]
Decided == [pc : {"write"}, news : News, item : Given, new : BOOLEAN,
            statement : {"none", "insert", "update"}]

TypeOK ==
    /\ signal \in [News -> {None, "pending", "processed"}] /\ dated \subseteq Stored
    /\ article \in [News -> {None} \union Bodies]
    /\ \A n \in News : article[n] # None => n \in Stored
    /\ refresh \in [Refreshers -> {Idle} \union Asked \union Decided]
    /\ failures \in [News -> SUBSET [at : 0..now, nth : Nat]] /\ now \in Nat
    /\ batch.pc \in {"idle", "crawl", "upsert", "apply"}

\* A body, once there, is kept as it is: unless it came when another writer, a crawl
\* most of all, had already found none.
BodyKept ==
    \A n \in News : Complete(article[n]) /\ article'[n] # article[n] => n \in raced

\* A detail page that fails is fetched at most MaxAttempts times in any window, and
\* once more for each other refresh that asked in between.
FetchesAreBounded ==
    \A n \in News : Cardinality(Recent(failures[n])) < MaxAttempts + Cardinality(Refreshers)

\* A processed news was crawled, or had a body: it has a row either way.
ProcessedHasArticle == \A n \in News : signal[n] = "processed" => article[n] # None

SoundStep == TypeOK' /\ BodyKept /\ FetchesAreBounded' /\ ProcessedHasArticle'
ArticlesAreSound == [][SoundStep]_vars
=============================================================================
