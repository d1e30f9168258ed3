---------------------------- MODULE LlmProviders ----------------------------
(***************************************************************************)
(* Calls to a language model: retries on the same provider, one failover   *)
(* to a backup, the streamed answer, the batch embedding and the           *)
(* classification cache (app/services/llm_providers.py).  The provider     *)
(* configurations may change at any moment, in every way LlmConfigs shows  *)
(* to be possible.  Prompts, pricing and wording are left out; a reply is  *)
(* one of the outcomes the code tells apart.                               *)
(***************************************************************************)
EXTENDS Naturals, Sequences, FiniteSets

CONSTANTS
    Configs,      \* identifiers of provider configurations
    Requests,     \* calls made by routes and workers
    MaxRetries,   \* settings.llm_retry_max_attempts
    MaxChunks,    \* bound: chunks of one streamed answer
    Texts,        \* bound: texts of a batch embedding
    Absent        \* no such row

VARIABLES
    config,   \* config[c]: the row of c, or Absent
    call,     \* call[r]: the progress of request r
    cache     \* cache[k]: the answer stored under key k, or Absent

vars == <<config, call, cache>>

Rows == [active : BOOLEAN, default : BOOLEAN]
Existing == {c \in Configs : config[c] # Absent}

-----------------------------------------------------------------------------
\* the tables LlmConfigs allows
Tables == {rows \in [Configs -> Rows \cup {Absent}] :
              \A c, d \in Configs : /\ rows[c] # Absent /\ rows[d] # Absent
                                    /\ rows[c].default /\ rows[d].default => c = d}

ConfigsChange ==
    /\ config' \in Tables
    /\ UNCHANGED <<call, cache>>

\* get_default falls back to any active row; get_backup prefers the default one.
\* Among equals the newest wins, which is left open here.
DefaultChoices ==
    LET marked == {c \in Existing : config[c].default}
    IN IF marked # {} THEN marked ELSE {c \in Existing : config[c].active}
BackupChoices(failed) ==
    LET live == {c \in Existing : config[c].active /\ c # failed}
        marked == {c \in live : config[c].default}
    IN IF marked # {} THEN marked ELSE live

-----------------------------------------------------------------------------
(* Calls *)

Ops == {"chat", "analyze", "embed", "stream"}
Idle == [pc |-> "idle"]
Fresh(o, p, c) ==
    [pc |-> "ready", op |-> o, purpose |-> p, cfg |-> c, first |-> c, hop |-> 0, attempt |-> 0,
     posts |-> <<0, 0>>, events |-> <<>>, sent |-> 0, answer |-> Absent]

\* what an analysis of a news item is for.  Each asks for a schema of its own; only
\* the first passes a cache_scope, the others the same fields and no scope.
Purposes == {"sentiment", "takeaway", "stocks"}
Scoped == {"sentiment"}

\* the key of an answer for a news item: the purposes that share it
CacheKey(p) == IF p \in Scoped THEN {p} ELSE Purposes \ Scoped
Keys == {CacheKey(p) : p \in Purposes}

Cached(p) == cache[CacheKey(p)] # Absent

\* a cached row that cannot be read or parsed counts as a miss; only an analysis
\* has a purpose, and the others take any one
StartCall(r, o, p) ==
    /\ call[r].pc = "idle"
    /\ o # "analyze" => p \in Scoped
    /\ \E c \in DefaultChoices, readable \in BOOLEAN :
          call' = [call EXCEPT ![r] =
              IF o = "analyze" /\ Cached(p) /\ readable
              THEN [Fresh(o, p, c) EXCEPT !.pc = "done", !.answer = cache[CacheKey(p)].schema]
              ELSE Fresh(o, p, c)]
    /\ UNCHANGED <<config, cache>>

\* the backup is built with max_attempts = 0
RetryBudget(hop) == IF hop = 0 THEN MaxRetries ELSE 0

\* history: the count stops one above what CallsBounded allows
Posted(k) == [k EXCEPT !.posts[k.hop + 1] = IF @ < MaxRetries + 2 THEN @ + 1 ELSE @]

\* Mutation of AfterError: a stream is retried after its first chunk.
AfterErrorRestart(k, retryable) ==
    IF retryable /\ k.attempt < RetryBudget(k.hop)
    THEN [k EXCEPT !.pc = "ready", !.attempt = @ + 1, !.sent = 0]
    ELSE [k EXCEPT !.pc = "planning"]

\* the except branch: another attempt, or the failover decision
AfterError(k, retryable) ==
    IF retryable /\ k.sent = 0 /\ k.attempt < RetryBudget(k.hop)
    THEN [k EXCEPT !.pc = "ready", !.attempt = @ + 1]
    ELSE [k EXCEPT !.pc = "planning"]

PostFails(r, retryable) ==
    /\ call[r].pc = "ready"
    /\ call' = [call EXCEPT ![r] = AfterError(Posted(@), retryable)]
    /\ UNCHANGED <<config, cache>>

\* plan_failover: one failover for a call, to another active provider
Backups(k) == IF k.hop >= 1 THEN {} ELSE BackupChoices(k.cfg)

\* the backup is read in a session of its own, some time after the failure
PlanFailover(r) ==
    LET k == call[r] IN
    /\ k.pc = "planning"
    /\ IF Backups(k) = {}
       THEN call' = [call EXCEPT ![r].pc = "failed"]
       ELSE \E b \in Backups(k) :
               call' = [call EXCEPT ![r] =
                   [k EXCEPT !.pc = "ready", !.cfg = b, !.hop = 1, !.attempt = 0, !.sent = 0,
                             !.events = IF k.op = "stream" THEN Append(@, [type |-> "failover"]) ELSE @]]
    /\ UNCHANGED <<config, cache>>

ChatAnswers(r) ==
    /\ call[r].pc = "ready" /\ call[r].op = "chat"
    /\ call' = [call EXCEPT ![r] = [Posted(@) EXCEPT !.pc = "done"]]
    /\ UNCHANGED <<config, cache>>

\* an analysis whose text is no JSON fails without retry, failover or storing
AnalysisAnswers(r, json) ==
    /\ call[r].pc = "ready" /\ call[r].op = "analyze"
    /\ call' = [call EXCEPT ![r] =
          [Posted(@) EXCEPT !.pc = IF json THEN "storing" ELSE "failed",
                            !.answer = IF json THEN call[r].purpose ELSE Absent]]
    /\ UNCHANGED <<config, cache>>

\* store_classification: update or insert; a lost race is swallowed
StoreAnswer(r, written) ==
    LET k == call[r] IN
    /\ k.pc = "storing"
    /\ cache' = IF written
                THEN [cache EXCEPT ![CacheKey(k.purpose)] =
                                       [schema |-> k.answer, model |-> k.first]]
                ELSE cache
    /\ call' = [call EXCEPT ![r].pc = "done"]
    /\ UNCHANGED config

\* the reply of /embeddings: each item names a text, with its index or without one
Replies == UNION {[1..n -> [text : 0..(Texts - 1), indexed : BOOLEAN]] : n \in 1..Texts}
\* a provider that leaves an index out keeps the order of the request
Honest(reply) ==
    \A i \in DOMAIN reply : reply[i].indexed \/ reply[i].text = i - 1

ItemIndex(reply, i) == IF reply[i].indexed THEN reply[i].text ELSE i - 1

\* parse_embeddings_response: the vectors in index order (the sort is stable), or a
\* refusal
Earlier(reply, i) ==
    {j \in DOMAIN reply : \/ ItemIndex(reply, j) < ItemIndex(reply, i)
                          \/ ItemIndex(reply, j) = ItemIndex(reply, i) /\ j < i}
ItemAt(reply, n) == CHOOSE i \in DOMAIN reply : Cardinality(Earlier(reply, i)) = n - 1
Vectors(reply) == [n \in DOMAIN reply |-> reply[ItemAt(reply, n)].text]
Acceptable(reply) ==
    /\ Len(reply) = Texts
    /\ {ItemIndex(reply, i) : i \in DOMAIN reply} = 0..(Texts - 1)

EmbedAnswers(r, reply) ==
    /\ call[r].pc = "ready" /\ call[r].op = "embed"
    /\ call' = [call EXCEPT ![r] =
          IF Acceptable(reply)
          THEN [Posted(@) EXCEPT !.pc = "done", !.answer = Vectors(reply)]
          ELSE AfterError(Posted(@), FALSE)]
    /\ UNCHANGED <<config, cache>>

\* chat_stream: the headers, then chunks handed on one by one
OpenStream(r) ==
    /\ call[r].pc = "ready" /\ call[r].op = "stream"
    /\ call' = [call EXCEPT ![r] = [Posted(@) EXCEPT !.pc = "streaming"]]
    /\ UNCHANGED <<config, cache>>

Chunk(r) ==
    /\ call[r].pc = "streaming" /\ call[r].sent < MaxChunks
    /\ call' = [call EXCEPT
          ![r].sent = @ + 1,
          ![r].events = Append(@, [type |-> "chunk", hop |-> call[r].hop, attempt |-> call[r].attempt])]
    /\ UNCHANGED <<config, cache>>

StreamBreaks(r) ==
    /\ call[r].pc = "streaming"
    /\ call' = [call EXCEPT ![r] = AfterError(@, TRUE)]
    /\ UNCHANGED <<config, cache>>

StreamEnds(r) ==
    /\ call[r].pc = "streaming"
    /\ call' = [call EXCEPT ![r].pc = "done"]
    /\ UNCHANGED <<config, cache>>

\* the result is handed to the caller, which may call again
Return(r) ==
    /\ call[r].pc \in {"done", "failed"}
    /\ call' = [call EXCEPT ![r] = Idle]
    /\ UNCHANGED <<config, cache>>

CallStep(r) ==
    \/ \E b \in BOOLEAN : PostFails(r, b) \/ AnalysisAnswers(r, b) \/ StoreAnswer(r, b)
    \/ PlanFailover(r)
    \/ ChatAnswers(r)
    \/ \E reply \in Replies : Honest(reply) /\ EmbedAnswers(r, reply)
    \/ OpenStream(r) \/ Chunk(r) \/ StreamBreaks(r) \/ StreamEnds(r)

-----------------------------------------------------------------------------
Init ==
    /\ config \in Tables
    /\ call = [r \in Requests |-> Idle]
    /\ cache = [k \in Keys |-> Absent]

Next ==
    \/ ConfigsChange
    \/ \E r \in Requests : CallStep(r) \/ Return(r) \/ \E o \in Ops, p \in Purposes : StartCall(r, o, p)

\* a request is a coroutine or a thread of the server: it goes on
Fairness == \A r \in Requests : WF_vars(CallStep(r))

Spec == Init /\ [][Next]_vars /\ Fairness

-----------------------------------------------------------------------------
(* Properties *)

Calls == {r \in Requests : call[r].pc # "idle"}

\* Every row, request and cached answer has its shape.
TypeOK ==
    /\ config \in [Configs -> Rows \cup {Absent}]
    /\ \A r \in Calls : /\ call[r].cfg \in Configs /\ call[r].op \in Ops
                        /\ call[r].sent \in 0..MaxChunks
    /\ \A k \in Keys : cache[k] = Absent \/ cache[k].schema \in k

\* A call costs at most one full retry budget on the first provider and one
\* attempt on one backup, and fails over to a provider other than its own.
CallsBounded ==
    \A r \in Calls : /\ call[r].posts[1] <= MaxRetries + 1
                     /\ call[r].posts[2] <= 1
                     /\ call[r].hop = 1 => call[r].cfg # call[r].first

\* No provider starts its answer over once part of it has been handed on: all
\* chunks of one provider come from one attempt, and none of the first
\* provider's follow the failover event (chat_stream, first_byte_sent).
NoRestartedStream ==
    \A r \in Calls : \A i, j \in DOMAIN call[r].events :
        i < j => LET x == call[r].events[i]
                     y == call[r].events[j]
                 IN /\ x.type = "failover" => y.type = "chunk" /\ y.hop = 1
                    /\ x.type = "chunk" /\ y.type = "chunk" /\ x.hop = y.hop =>
                          x.attempt = y.attempt

\* What a call returns answers what was asked.  An analysis that posted has the
\* schema of its own purpose; one served from the cache may have that of another
\* purpose, but only of one that passes no scope either, so no scoped purpose
\* is ever answered with another's schema.  Vector i of a batch belongs to text i.
AnswersFit ==
    \A r \in Calls : call[r].pc = "done" =>
        /\ call[r].op = "analyze" =>
              /\ call[r].answer \in CacheKey(call[r].purpose)
              /\ call[r].posts # <<0, 0>> => call[r].answer = call[r].purpose
        /\ call[r].op = "embed" =>
              \A i \in 1..Texts : call[r].answer[i] = i - 1

\* Every call that was started returns or fails, whatever the providers answer
\* and however the configurations are edited meanwhile.
CallsEnd == \A r \in Requests : call[r].pc = "ready" ~> call[r].pc \in {"done", "failed"}

\* Calls are bounded, streams are not started over, and replies fit.
CallsAreSound == CallsBounded /\ NoRestartedStream /\ AnswersFit
=============================================================================
