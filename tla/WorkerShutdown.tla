--------------------------- MODULE WorkerShutdown ---------------------------
(***************************************************************************)
(* One process starts its workers, runs them and stops them, while each    *)
(* of them asks for the shared HTTP client (app/workers/base_worker.py,    *)
(* app/main.py lifespan, app/workers/pipeline_worker_main.py,              *)
(* app/services/http_pool.py).                                             *)
(*                                                                         *)
(* stop() waits for a worker for two seconds only, so a worker may outlive *)
(* it.  The web process then closes the clients and allows new ones; the   *)
(* pipeline process closes them and forbids new ones.  A client is a       *)
(* number, in the order of creation.                                       *)
(***************************************************************************)
EXTENDS Naturals, FiniteSets

CONSTANTS
    Pipeline,    \* workers of the pipeline: queue, takeaway, AI funnel
    WebOnly,     \* workers that only the web process runs: scheduler, ...
    Drainer,     \* the OrphanQueueDrainWorker
    MaxClients,  \* bound: clients created
    None         \* no client

Workers == Pipeline \cup WebOnly \cup {Drainer}

VARIABLES
    process,   \* "web" or "pipeline"
    inWeb,     \* pipeline_workers_enabled
    main,      \* step of the main thread
    told,      \* workers whose stop event is set and _is_running cleared
    pc,        \* step of each worker
    got,       \* client a worker has fetched from the pool, or None
    client,    \* _client, or None
    open,      \* clients created and not closed
    created,   \* number of clients created
    final      \* _shutdown

vars == <<process, inWeb, main, told, pc, got, client, open, created, final>>
setup == <<process, inWeb>>
pool == <<client, open, created, final>>

-----------------------------------------------------------------------------
(* Start *)

\* ensure_exclusive_ownership: a pipeline process refuses to start when the
\* web process runs the same workers
MayStart == process = "web" \/ ~inWeb

\* lifespan and build_pipeline_workers: who runs what
Runs == IF process = "pipeline" THEN Pipeline
        ELSE WebOnly \cup (IF inWeb THEN Pipeline ELSE {Drainer})

Start ==
    /\ main = "down"
    /\ IF MayStart
       THEN main' = "up" /\ pc' = [w \in Workers |-> IF w \in Runs THEN "loop" ELSE "off"]
       ELSE main' = "refused" /\ UNCHANGED pc
    /\ UNCHANGED <<setup, told, got, pool>>

-----------------------------------------------------------------------------
(* A worker: BaseWorker._run_loop and one use of the client in its cycle *)

Goto(w, step) == pc' = [pc EXCEPT ![w] = step]

LoopGoesOn(w) == w \notin told

Loop(w) ==
    /\ pc[w] = "loop"
    /\ Goto(w, IF LoopGoesOn(w) THEN "cycle" ELSE "off")
    /\ UNCHANGED <<setup, main, told, got, pool>>

\* the wait between two cycles ends by itself or with the stop event
Wake(w) ==
    /\ pc[w] = "waiting"
    /\ Goto(w, "loop")
    /\ UNCHANGED <<setup, main, told, got, pool>>

\* run_cycle catches everything, HttpPoolShutdownError and a closed or missing
\* client too
CycleEnds(w) == Goto(w, "waiting") /\ got' = [got EXCEPT ![w] = None]

NoWork(w) ==
    /\ pc[w] = "cycle"
    /\ CycleEnds(w)
    /\ UNCHANGED <<setup, main, told, pool>>

\* a getter without the lock: first the flag, then the client
EnsureNotShutdown(w) ==
    /\ pc[w] = "cycle"
    /\ IF final THEN CycleEnds(w) ELSE Goto(w, "look") /\ UNCHANGED got
    /\ UNCHANGED <<setup, main, told, pool>>

Look(w) ==
    /\ pc[w] = "look"
    /\ Goto(w, IF client = None THEN "locked" ELSE "return")
    /\ UNCHANGED <<setup, main, told, got, pool>>

\* Mutation of Missing: the second look, with the lock, is left out.
AlwaysMissing == TRUE

Refused == final
Missing == client = None

\* under the lock both are checked again
Create(w) ==
    /\ pc[w] = "locked"
    /\ created < MaxClients
    /\ IF Refused
       THEN CycleEnds(w) /\ UNCHANGED pool
       ELSE /\ IF Missing
               THEN /\ client' = created + 1 /\ created' = created + 1
                    /\ open' = open \cup {created + 1}
               ELSE UNCHANGED <<client, open, created>>
            /\ Goto(w, "return")
            /\ UNCHANGED <<got, final>>
    /\ UNCHANGED <<setup, main, told>>

\* "return _client" reads the global again: it may be None by now
Return(w) ==
    /\ pc[w] = "return"
    /\ IF client = None THEN CycleEnds(w)
       ELSE got' = [got EXCEPT ![w] = client] /\ Goto(w, "using")
    /\ UNCHANGED <<setup, main, told, pool>>

Request(w) ==
    /\ pc[w] = "using"
    /\ CycleEnds(w)
    /\ UNCHANGED <<setup, main, told, pool>>

-----------------------------------------------------------------------------
(* Stop *)

\* stop(): the event is set; join() returns when the thread has ended or after
\* two seconds, so main goes on either way
StopWorker(w) ==
    /\ main = "up" \/ main = "stopping"
    /\ w \in Runs \ told
    /\ told' = told \cup {w}
    /\ main' = "stopping"
    /\ UNCHANGED <<setup, pc, got, pool>>

\* close_llm_client
Close == client' = None /\ open' = open \ {client} /\ UNCHANGED created

CloseClients ==
    /\ main = "stopping" /\ Runs \subseteq told
    /\ Close
    /\ main' = IF process = "web" THEN "done" ELSE "closed"
    /\ UNCHANGED <<setup, told, pc, got, final>>

\* shutdown_http_pools: the flag is set after the clients are closed
EnterTerminalState ==
    /\ main = "closed"
    /\ final' = TRUE
    /\ main' = "done"
    /\ UNCHANGED <<setup, told, pc, got, client, open, created>>

-----------------------------------------------------------------------------
Init ==
    /\ process \in {"web", "pipeline"} /\ inWeb \in BOOLEAN
    /\ main = "down"
    /\ told = {}
    /\ pc = [w \in Workers |-> "off"]
    /\ got = [w \in Workers |-> None]
    /\ client = None /\ open = {} /\ created = 0
    /\ final = FALSE

\* one step of a worker's thread
WorkerStep(w) ==
    Loop(w) \/ Wake(w) \/ NoWork(w) \/ EnsureNotShutdown(w) \/ Look(w)
    \/ Create(w) \/ Return(w) \/ Request(w)

Stopping == (\E w \in Workers : main = "stopping" /\ StopWorker(w)) \/ CloseClients \/ EnterTerminalState

Next ==
    \/ Start \/ CloseClients \/ EnterTerminalState
    \/ \E w \in Workers : WorkerStep(w) \/ StopWorker(w)

\* A stop, once begun, runs to its end, and every thread is scheduled.
Fairness == WF_vars(Stopping) /\ \A w \in Workers : WF_vars(WorkerStep(w))

Spec == Init /\ [][Next]_vars /\ Fairness

-----------------------------------------------------------------------------
TypeOK ==
    /\ process \in {"web", "pipeline"} /\ inWeb \in BOOLEAN /\ final \in BOOLEAN
    /\ main \in {"down", "refused", "up", "stopping", "closed", "done"}
    /\ told \subseteq Workers
    /\ pc \in [Workers -> {"off", "loop", "waiting", "cycle", "look", "locked", "return", "using"}]
    /\ created \in 0..MaxClients
    /\ client \in 1..created \cup {None} /\ open \subseteq 1..created
    /\ got \in [Workers -> 1..created \cup {None}]

\* No client is lost: one that is open is the one the pool holds, whichever
\* threads ask for it at once (the double check of the getters).
NoClientLost == open \subseteq {client}

\* The workers that were told to stop end, although the pool they use is closed
\* under them.
ToldWorkersEnd ==
    main # "refused" /\ Runs \subseteq told ~> \A w \in Workers : pc[w] = "off"

\* The pool keeps hold of its client and is final once shut down.
SoundStep == TypeOK' /\ NoClientLost' /\ (final => open' \subseteq open)

PoolIsSound == [][SoundStep]_vars
=============================================================================
