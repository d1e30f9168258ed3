------------------------------ MODULE NewsAnalysis ------------------------------
(***************************************************************************)
(* The analysis of one news item on request (POST /news/{id}/analyze,      *)
(* services/news_analysis.py, repositories/news_analysis_repository.py):   *)
(* the provider is asked, then the row of the item, of which there is at   *)
(* most one, is written and the result is announced on the event bus.      *)
(*                                                                         *)
(* A thread loads the row before the statement that takes SQLite's write   *)
(* lock, and an UPDATE names only the columns that differ from what was    *)
(* loaded.                                                                 *)
(***************************************************************************)
EXTENDS Naturals, Sequences, Functions

CONSTANTS
    Threads,
    None,
    MaxCalls

VARIABLES
    row,         \* None, or [status, error, result]: result is the call it came from
    call,        \* call[t]: None, or what t does
    writer,      \* the thread that holds the write lock, or None
    calls,
    published,   \* results that were announced, oldest first
    committed,   \* history: results that were committed, oldest first
    clashes      \* history: threads that loaded a row another one has written since

vars == <<row, call, writer, calls, published, committed, clashes>>

Init ==
    /\ row = None
    /\ call = [t \in Threads |-> None]
    /\ writer = None /\ calls = 0
    /\ published = <<>> /\ committed = <<>> /\ clashes = {}

Does(t, pc) == call[t] # None /\ call[t].pc = pc
Leaves(t) == /\ call' = [call EXCEPT ![t] = None]
             /\ writer' = IF writer = t THEN None ELSE writer
             /\ clashes' = clashes \ {t}

\* In the request itself or, with async_mode, in a background task of the same steps.
Ask(t) ==
    /\ call[t] = None /\ calls < MaxCalls
    /\ calls' = calls + 1
    /\ call' = [call EXCEPT ![t] = [pc |-> "asked", id |-> calls + 1]]
    /\ UNCHANGED <<row, writer, published, committed, clashes>>

\* The payload of the provider, or an error, of the same text as the last one or not;
\* the row is loaded.
Answered(t) ==
    /\ Does(t, "asked")
    /\ \E ok, pick, same \in BOOLEAN :
         call' = [call EXCEPT ![t] =
             [pc |-> "loaded", id |-> @.id, loaded |-> row,
              ok |-> ok, pick |-> ok /\ pick, same |-> ~ok /\ same]]
    /\ UNCHANGED <<row, writer, calls, published, committed, clashes>>

\* upsert_success and upsert_error; the second one leaves the result alone.
Written(t) ==
    LET c == call[t]
        status == IF c.ok THEN "success" ELSE "error"
        Column(new, old, stored) == IF new = old THEN stored ELSE new
    IN  IF c.loaded = None
        THEN [status |-> status, error |-> ~c.ok, result |-> IF c.ok THEN c.id ELSE None]
        ELSE [status |-> Column(status, c.loaded.status, row.status),
              error |-> IF c.ok \/ c.same THEN Column(~c.ok, c.loaded.error, row.error) ELSE TRUE,
              result |-> IF c.ok THEN c.id ELSE row.result]

\* The flush takes the lock; a row that another thread inserted is an IntegrityError.
Flush(t) ==
    /\ Does(t, "loaded") /\ writer = None
    /\ IF call[t].loaded = None /\ row # None
       THEN Leaves(t)
       ELSE /\ writer' = t
            /\ call' = [call EXCEPT ![t] = [pc |-> "flushed", id |-> @.id, ok |-> @.ok,
                                            pick |-> @.pick, row |-> Written(t)]]
            /\ UNCHANGED clashes
    /\ UNCHANGED <<row, calls, published, committed>>

\* Mutation of MayPublish: a request announces what it got before it writes.
MayPublishEarly(t) == Does(t, "loaded") /\ call[t].pick /\ call[t].id \notin Range(published)

\* _publish_analysis_completed_event: what was read back is a success with a pick.
MayPublish(t) ==
    /\ Does(t, "flushed") /\ call[t].pick
    /\ call[t].row.status = "success"
    /\ call[t].id \notin Range(published)

Publish(t) ==
    /\ MayPublish(t)
    /\ published' = Append(published, call[t].id)
    /\ UNCHANGED <<row, call, writer, calls, committed, clashes>>

\* A request commits when it ends, a background task after it announced, an error
\* before it is raised; what could not be announced is only logged.
Commit(t) ==
    /\ Does(t, "flushed")
    /\ row' = call[t].row
    /\ committed' = IF call[t].ok THEN Append(committed, call[t].id) ELSE committed
    /\ call' = [call EXCEPT ![t] = None] /\ writer' = None
    /\ clashes' = {u \in Threads \ {t} : u \in clashes \/ Does(u, "loaded")}
    /\ UNCHANGED <<calls, published>>

\* The statement or the commit fails, or the process stops.
Fail(t) ==
    /\ Does(t, "flushed") \/ Does(t, "loaded")
    /\ Leaves(t)
    /\ UNCHANGED <<row, calls, published, committed>>

Next == \E t \in Threads : Ask(t) \/ Answered(t) \/ Flush(t) \/ Publish(t) \/ Commit(t) \/ Fail(t)

Spec == Init /\ [][Next]_vars

-----------------------------------------------------------------------------
Rows == [status : {"success", "error"}, error : BOOLEAN, result : Nat \union {None}]
Calls == [pc : {"asked"}, id : Nat]
         \union [pc : {"loaded"}, id : Nat, loaded : Rows \union {None},
                 ok : BOOLEAN, pick : BOOLEAN, same : BOOLEAN]
         \union [pc : {"flushed"}, id : Nat, ok : BOOLEAN, pick : BOOLEAN, row : Rows]

TypeOK ==
    /\ row \in Rows \union {None}
    /\ call \in [Threads -> Calls \union {None}]
    /\ writer \in Threads \union {None}
    /\ \A t \in Threads : writer = t <=> Does(t, "flushed")
    /\ row # None => (row.status = "success" => row.result # None)

Last(s) == s[Len(s)]

\* What both have comes in the same order in both, and once in each.
SameOrder(a, b) ==
    \A i, j \in DOMAIN a, k, l \in DOMAIN b :
        a[i] = b[k] /\ a[j] = b[l] => (i < j <=> k < l)

\* What a later error or a call that fails leaves is the last result that was
\* committed: it is never lost, nor replaced by the one of a call that wrote before.
\* Results are announced in the order of their rows, and those that were announced
\* and not stored are of calls that failed to commit.  A success shows as an error,
\* and is not announced, only if another thread wrote the row between its load and
\* its write.
SoundStep ==
    /\ TypeOK'
    /\ row # None => row' # None /\ row'.result \in {row.result} \union Range(committed')
    /\ committed' # <<>> => row'.result = Last(committed')
    /\ SameOrder(published', committed')
    /\ \A t \in Threads : Does(t, "flushed") /\ row' # row /\ writer' = None /\ call[t].ok =>
         \/ row'.status = "success" /\ ~row'.error
         \/ t \in clashes

ResultsAreKept == [][SoundStep]_vars
=============================================================================
