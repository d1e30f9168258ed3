----------------------------- MODULE DuplicateGate -----------------------------
(***************************************************************************)
(* How a batch of a source finds that an item is stored already            *)
(* (services/ingestion/dedup_gate.py, news_dedup.py, persister.py): by its *)
(* link, by host and title, by a title that looks alike, the last two      *)
(* within DUPLICATE_WINDOW.  The candidates are prefetched for the batch   *)
(* and kept up to date by register, or queried for each item if the batch  *)
(* spans too much.                                                         *)
(*                                                                         *)
(* The session does not flush before a SELECT: what an update changed is   *)
(* seen by the statements after the next flush only.  NewsIngest has the   *)
(* interplay of several writers; here one session is looked at closely.    *)
(***************************************************************************)
EXTENDS Integers, Sequences, FiniteSets, FiniteSetsExt

CONSTANTS
    Links,            \* normalized links: values of url_hash
    Host,             \* Host[l]: without www., m., amp.
    Titles,           \* [words, numbers, short]: the place of the SimHash, the numbers, few tokens
    Times,
    Window,           \* DUPLICATE_WINDOW
    MaxPrimeWindow,
    Sources, Rank,
    None,
    MaxItems, MaxRows

VARIABLES
    rows,      \* the rows as the session has them
    db,        \* the rows as its SELECTs see them
    saved,     \* the rows that are committed
    index,     \* None, or the candidates by row
    batch,     \* None, or the source and the times of the batch
    seen,      \* links of the batch so far
    judge,     \* the second judge's verdicts on pairs of titles: cached, failures too
    items,     \* persisted so far, a bound
    now

session == <<rows, db, saved>>
vars == <<session, index, batch, seen, judge, items, now>>

Abs(i) == IF i < 0 THEN -i ELSE i

-----------------------------------------------------------------------------
(* Titles. *)

\* Hamming distance: up to SIMHASH_DUPLICATE_THRESHOLD, up to GRAY_ZONE_THRESHOLD, beyond.
Distance(a, b) == Abs(a.words - b.words)
NumbersContradict(a, b) == a.numbers # b.numbers

TitlesLookDuplicate(a, b) ==
    /\ ~a.short /\ ~b.short
    /\ \/ Distance(a, b) = 0
       \/ Distance(a, b) = 1 /\ ~NumbersContradict(a, b) /\ judge[{a, b}]

\* What the judge is asked about.
GrayZone == {{a, b} : a, b \in {t \in Titles : ~t.short}} \ {{t} : t \in Titles}

-----------------------------------------------------------------------------
(* Candidates. *)

Items == [link : Links, title : Titles, at : Times \union {None}]

EffectiveTime(item) == IF item.at = None THEN now ELSE item.at

Signature(r) == <<Host[r.link], r.title>>

\* A match of the item in a list of candidates: by signature, else by title.
Matches(item, candidates) ==
    LET near == {k \in DOMAIN candidates : Abs(candidates[k].at - EffectiveTime(item)) <= Window}
        exact == {k \in near : candidates[k].signature = Signature(item)}
    IN  IF exact # {} THEN exact
        ELSE {k \in near : TitlesLookDuplicate(candidates[k].title, item.title)}

Candidate(r) == [title |-> r.title, at |-> r.at, signature |-> Signature(r)]
CandidatesOf(table, lo, hi) ==
    [k \in {j \in DOMAIN table : table[j].at \in lo..hi} |-> Candidate(table[k])]

\* Mutation of Register: a row that was updated keeps its candidate.
RegisterNew(k, r) == IF index = None THEN None
                     ELSE [j \in DOMAIN index \union {k} |-> IF j \in DOMAIN index THEN index[j] ELSE Candidate(r)]

Register(k, r) ==
    IF index = None THEN None
    ELSE [j \in DOMAIN index \union {k} |-> IF j = k THEN Candidate(r) ELSE index[j]]

\* The prefetched candidates cover the batch they were fetched for.
FindDuplicate(item) ==
    Matches(item, IF index # None THEN index ELSE CandidatesOf(db, 0, Max(Times)))

Twins(item, table) == Matches(item, CandidatesOf(table, 0, Max(Times)))

-----------------------------------------------------------------------------
Init ==
    /\ rows = <<>> /\ db = <<>> /\ saved = <<>>
    /\ index = None /\ batch = None /\ seen = {}
    /\ judge \in [GrayZone -> BOOLEAN]
    /\ items = 0 /\ now = 0

\* prime
StartBatch ==
    /\ batch = None /\ items < MaxItems
    /\ now' \in {t \in Times : t >= now}
    /\ \E s \in Sources, first, last \in Times :
         /\ first <= last
         /\ batch' = [source |-> s, first |-> first, last |-> last]
         /\ index' = IF (last + Window) - (first - Window) > MaxPrimeWindow THEN None
                     ELSE CandidatesOf(db, first - Window, last + Window)
    /\ seen' = {}
    /\ UNCHANGED <<session, judge, items>>

\* The row of a story goes to a source of higher rank, with its link unless another
\* row has that.  A time is set once.
Updated(k, item) ==
    LET r == rows[k]
        promote == Rank[batch.source] > Rank[r.source]
        taken == \E j \in DOMAIN rows : j # k /\ rows[j].link = item.link
    IN  [r EXCEPT !.source = IF promote THEN batch.source ELSE @,
                  !.link = IF promote /\ ~taken THEN item.link ELSE @,
                  !.published = IF @ = None THEN item.at ELSE @,
                  !.at = IF r.published = None /\ item.at # None THEN item.at ELSE @]

\* update_existing_item flushes, then changes the row.
Update(item, k) ==
    /\ db' = rows
    /\ rows' = [rows EXCEPT ![k] = Updated(k, item)]
    /\ index' = Register(k, Updated(k, item))
    /\ UNCHANGED <<saved, batch>>

\* The INSERT is flushed together with what was changed before.
Insert(item) ==
    LET r == [link |-> item.link, title |-> item.title, published |-> item.at,
              at |-> EffectiveTime(item), source |-> batch.source]
    IN  IF \E k \in DOMAIN rows : rows[k].link = item.link
        THEN rows' = saved /\ db' = saved /\ index' = None /\ batch' = None /\ UNCHANGED saved
        ELSE /\ rows' = Append(rows, r) /\ db' = Append(rows, r)
             /\ index' = Register(Len(rows) + 1, r)
             /\ UNCHANGED <<saved, batch>>

\* persist_item
Persist(item) ==
    /\ batch # None /\ items < MaxItems
    /\ EffectiveTime(item) \in batch.first..batch.last
    /\ items' = items + 1
    /\ seen' = seen \union {item.link}
    /\ LET same == {k \in DOMAIN db : db[k].link = item.link}
       IN  IF same # {} THEN \E k \in same : Update(item, k)
           ELSE IF FindDuplicate(item) # {} THEN \E k \in FindDuplicate(item) : Update(item, k)
           ELSE Len(rows) < MaxRows /\ Insert(item)
    /\ UNCHANGED <<judge, now>>

Commit ==
    /\ batch # None
    /\ db' = rows /\ saved' = rows /\ UNCHANGED rows
    /\ index' = None /\ batch' = None
    /\ UNCHANGED <<seen, judge, items, now>>

\* Any other error.
RollBack ==
    /\ batch # None
    /\ rows' = saved /\ db' = saved /\ UNCHANGED saved
    /\ index' = None /\ batch' = None
    /\ UNCHANGED <<seen, judge, items, now>>

Next == StartBatch \/ (\E item \in Items : Persist(item)) \/ Commit \/ RollBack

Spec == Init /\ [][Next]_vars

-----------------------------------------------------------------------------
Stored == [link : Links, title : Titles, published : Times \union {None}, at : Times,
           source : Sources]
Batches == [source : Sources, first : Times, last : Times]

TypeOK ==
    /\ rows \in Seq(Stored) /\ db \in Seq(Stored) /\ saved \in Seq(Stored)
    /\ batch \in {None} \union Batches /\ seen \subseteq Links
    /\ batch # None => now \in Times
    /\ Len(db) = Len(rows) /\ Len(saved) <= Len(rows) /\ Len(rows) <= MaxRows
    /\ batch = None => index = None /\ rows = db /\ db = saved

Inserts == Len(rows') > Len(rows)
New == rows'[Len(rows')]

Refused == items' # items /\ batch' = None

NoTwinInserted == Inserts => Twins([link |-> New.link, title |-> New.title, at |-> New.at], rows) = {}

\* While the candidates of a batch are prefetched no story is stored twice: no row is
\* inserted that has a twin within the window, whatever the batch changed before.  A
\* batch is refused by the database only if it names one link twice; links are unique.
SoundStep ==
    /\ TypeOK'
    /\ index # None => NoTwinInserted
    /\ Refused => seen' = seen
    /\ \A j, k \in DOMAIN rows' : rows'[j].link = rows'[k].link => j = k

GateIsSound == [][SoundStep]_vars
=============================================================================
