------------------------------ MODULE HashBackfill ------------------------------
(***************************************************************************)
(* scripts/backfill_url_hash.py: the hash of a link was that of the link   *)
(* itself before links were normalized, and rows stored then get the hash  *)
(* of the normalized one.  Several links may be the same then, and only    *)
(* one row can have the hash.  The script reads all rows, plans, and       *)
(* writes in batches, each in one transaction.  It may be stopped and run  *)
(* again, and the ingestion goes on meanwhile.                             *)
(*                                                                         *)
(* A hash is written as the link it is of.                                 *)
(***************************************************************************)
EXTENDS Naturals, FiniteSets

CONSTANTS
    Ids,
    Links,
    Normal,        \* Normal[link]: the normalized link; normalizing it again changes nothing
    Times,         \* of effective_at
    BatchSize,
    None,
    MaxRuns, MaxChanges

VARIABLES
    row,           \* row[id]: None, or [url, hash, at, marked]
    pc,            \* "idle", "write", "retry" or "mark"
    plan,          \* the [id, hash] that are not written yet, which is done in order of id
    retry,         \* those of a batch that failed
    failed,        \* ids that could not be written
    duplicates,    \* ids the plan found to be of no use
    runs, changes,
    touched,       \* history: rows the ingestion stored or changed
    quiet,         \* history: none since the plan
    clean          \* history: nor since the last run, which wrote all it planned

vars == <<row, pc, plan, retry, failed, duplicates, runs, changes, touched, quiet, clean>>

Rows == [url : Links, hash : Links, at : Times, marked : BOOLEAN]
Entries == [id : Ids, hash : Links]

Stored == {i \in Ids : row[i] # None}
NewHash(i) == Normal[row[i].url]
Unique(r) == \A i, j \in Ids :
    i # j /\ r[i] # None /\ r[j] # None => r[i].hash # r[j].hash /\ r[i].url # r[j].url

\* Rows of the time before have the hash of the link as it was.
Init ==
    /\ row \in [Ids -> {None} \union
                   UNION {[url : {link}, hash : {link, Normal[link]}, at : Times, marked : {FALSE}] :
                          link \in Links}]
    /\ Unique(row)
    /\ pc = "idle" /\ plan = {} /\ retry = {}
    /\ failed = {} /\ duplicates = {} /\ runs = 0 /\ changes = 0 /\ touched = {}
    /\ quiet = TRUE /\ clean = FALSE

-----------------------------------------------------------------------------
(* The plan. *)

Group(i) == {j \in Stored : NewHash(j) = NewHash(i)}

\* _sort_key
Before(i, j) == row[i].at < row[j].at \/ (row[i].at = row[j].at /\ i < j)
Earliest(S) == CHOOSE i \in S : \A j \in S \ {i} : Before(i, j)

\* Mutation of Primary: the earliest row of a group in any case.
PrimaryEarliest(S) == Earliest(S)

\* _select_primary: a row that has the hash already, else the earliest one.
Primary(S) ==
    LET holders == {i \in S : row[i].hash = NewHash(i)}
    IN  Earliest(IF holders # {} THEN holders ELSE S)

Changed == {i \in Stored : i = Primary(Group(i)) /\ row[i].hash # NewHash(i)}

\* build_plan
Plan ==
    /\ pc = "idle" /\ runs < MaxRuns
    /\ plan' = {[id |-> i, hash |-> NewHash(i)] : i \in Changed}
    /\ duplicates' = {i \in Stored : i # Primary(Group(i))}
    /\ failed' = {} /\ quiet' = TRUE /\ clean' = FALSE
    /\ runs' = runs + 1 /\ pc' = "write"
    /\ UNCHANGED <<row, retry, changes, touched>>

-----------------------------------------------------------------------------
(* Writing.  In a transaction all rows of a batch get a hash that is no link's,    *)
(* then their own one: only the other rows can be in the way.                      *)

Written(batch) ==
    [i \in Ids |-> IF row[i] # None /\ \E e \in batch : e.id = i
                   THEN [row[i] EXCEPT !.hash = (CHOOSE e \in batch : e.id = i).hash]
                   ELSE row[i]]

Batch == {e \in plan : Cardinality({d \in plan : d.id < e.id}) < BatchSize}

WriteBatch ==
    /\ pc = "write" /\ plan # {}
    /\ plan' = plan \ Batch
    /\ IF Unique(Written(Batch))
       THEN row' = Written(Batch) /\ UNCHANGED <<pc, retry>>
       ELSE pc' = "retry" /\ retry' = Batch /\ UNCHANGED row
    /\ UNCHANGED <<failed, duplicates, runs, changes, touched, quiet, clean>>

\* A batch that failed is written row by row.
RetryRow ==
    /\ pc = "retry"
    /\ \E e \in retry :
         /\ \A d \in retry : e.id <= d.id
         /\ retry' = retry \ {e}
         /\ IF Unique(Written({e}))
            THEN row' = Written({e}) /\ UNCHANGED failed
            ELSE failed' = failed \union {e.id} /\ UNCHANGED row
    /\ pc' = IF retry' = {} THEN "write" ELSE pc
    /\ UNCHANGED <<plan, duplicates, runs, changes, touched, quiet, clean>>

\* _mark_duplicates, with --merge-strategy mark; the run is over.
Finish ==
    /\ pc = "write" /\ plan = {}
    /\ pc' = "idle"
    /\ \E mark \in BOOLEAN :
         row' = [i \in Ids |-> IF mark /\ i \in duplicates /\ row[i] # None
                               THEN [row[i] EXCEPT !.marked = TRUE] ELSE row[i]]
    /\ clean' = (failed = {} /\ quiet)
    /\ UNCHANGED <<plan, retry, failed, duplicates, runs, changes, touched, quiet>>

\* The script is stopped between two transactions.
Stop ==
    /\ pc # "idle"
    /\ pc' = "idle" /\ plan' = {} /\ retry' = {} /\ clean' = FALSE
    /\ UNCHANGED <<row, failed, duplicates, runs, changes, touched, quiet>>

-----------------------------------------------------------------------------
(* The ingestion. *)

Known(link) == \E i \in Stored : row[i].hash = Normal[link]

\* persist_item of a link whose hash is not known
Insert(i) ==
    /\ row[i] = None /\ changes < MaxChanges
    /\ \E link \in Links, at \in Times :
         /\ ~Known(link) /\ \A j \in Stored : row[j].url # link
         /\ row' = [row EXCEPT ![i] = [url |-> link, hash |-> Normal[link], at |-> at, marked |-> FALSE]]
    /\ changes' = changes + 1
    /\ touched' = touched \union {i} /\ quiet' = FALSE /\ clean' = FALSE
    /\ UNCHANGED <<pc, plan, retry, failed, duplicates, runs>>

\* _promote_canonical_url: the link of a better source, and its hash
Promote(i) ==
    /\ row[i] # None /\ changes < MaxChanges
    /\ \E link \in Links :
         /\ \A j \in Stored : row[j].url # link
         /\ \A j \in Stored \ {i} : row[j].hash # Normal[link]
         /\ row' = [row EXCEPT ![i].url = link, ![i].hash = Normal[link]]
    /\ changes' = changes + 1
    /\ touched' = touched \union {i} /\ quiet' = FALSE /\ clean' = FALSE
    /\ UNCHANGED <<pc, plan, retry, failed, duplicates, runs>>

Next == \/ Plan \/ WriteBatch \/ RetryRow \/ Finish \/ Stop
        \/ \E i \in Ids : Insert(i) \/ Promote(i)

Spec == Init /\ [][Next]_vars

-----------------------------------------------------------------------------
TypeOK ==
    /\ row \in [Ids -> {None} \union Rows] /\ Unique(row)
    /\ pc \in {"idle", "write", "retry"}
    /\ plan \subseteq Entries /\ retry \subseteq Entries
    /\ \A e, d \in plan \union retry : e.id = d.id => e = d
    /\ plan \intersect retry = {}
    /\ (pc = "idle" => plan = {}) /\ (pc # "retry" => retry = {})
    /\ quiet \in BOOLEAN /\ clean \in BOOLEAN

\* A link whose hash a row has is known to the duplicate gate from then on, except if the
\* row is promoted, or was, and the script overwrites its hash.  Without the ingestion a
\* run writes all it planned, whatever the batches and however often it was stopped
\* before.  After a run in which nothing was promoted, stored or refused each link is
\* known, and a second run changes nothing.  A row is marked only while another one has
\* the hash.
SoundStep ==
    /\ TypeOK'
    /\ \A link \in Links : Known(link) /\ ~Known(link)' =>
         \E i \in Ids : row'[i] # row[i] /\ i \in touched'
    /\ failed' # failed => touched # {}
    /\ clean' /\ ~clean => \A i \in Stored : Known(row[i].url)'
    /\ clean /\ runs' # runs => plan' = {}
    /\ \A i \in Stored : row'[i].marked /\ ~row[i].marked /\ touched = {} =>
         \E j \in Stored \ {i} : row'[j].hash = NewHash(i)

BackfillIsSafe == [][SoundStep]_vars
=============================================================================
