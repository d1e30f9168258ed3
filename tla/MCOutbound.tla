------------------------------ MODULE MCOutbound ------------------------------
(***************************************************************************)
(* Instances of the modules about calls that leave the process: to Redis   *)
(* (EventBusCircuit), to the model providers (LlmProviders) and through    *)
(* the shared HTTP client, up to its shutdown (WorkerShutdown).  They have *)
(* no state in common, so one run explores them one at a time: "active"    *)
(* names the one that moves.                                               *)
(***************************************************************************)
EXTENDS EventBusCircuit

CONSTANTS Configs, Requests, MaxRetries, MaxChunks, Texts, Absent,
          Pipeline, WebOnly, Drainer, MaxClients, None

ASSUME CallsAssumption == MaxRetries \in Nat /\ MaxChunks \in Nat /\ Texts \in Nat
ASSUME PoolAssumption == None \notin Nat /\ MaxClients \in Nat

VARIABLES active,
          config, call, cache,
          process, inWeb, main, told, workerPc, got, client, open, created, final

Llm == INSTANCE LlmProviders
Shutdown == INSTANCE WorkerShutdown WITH pc <- workerPc

llmVars == <<config, call, cache>>
shutdownVars == <<process, inWeb, main, told, workerPc, got, client, open, created, final>>
allVars == <<active, vars, llmVars, shutdownVars>>

OneInit ==
    /\ active \in {"bus", "llm", "shutdown"}
    /\ Init /\ Llm!Init /\ Shutdown!Init
    /\ active # "llm" => config = CHOOSE t \in Llm!Tables : TRUE
    /\ active # "shutdown" => process = "web" /\ inWeb

OneNext ==
    /\ UNCHANGED active
    /\ \/ active = "bus" /\ Next /\ UNCHANGED <<llmVars, shutdownVars>>
       \/ active = "llm" /\ Llm!Next /\ UNCHANGED <<vars, shutdownVars>>
       \/ active = "shutdown" /\ Shutdown!Next /\ UNCHANGED <<vars, llmVars>>

\* the fairness of each module
OneFairness ==
    /\ \A t \in Threads : WF_vars(active = "bus" /\ Publishing(t))
    /\ WF_vars(active = "bus" /\ Tick)
    /\ \A r \in Requests : WF_llmVars(active = "llm" /\ Llm!CallStep(r))
    /\ WF_shutdownVars(active = "shutdown" /\ Shutdown!Stopping)
    /\ \A w \in Shutdown!Workers : WF_shutdownVars(active = "shutdown" /\ Shutdown!WorkerStep(w))

OneSpec == OneInit /\ [][OneNext]_allVars /\ OneFairness

-----------------------------------------------------------------------------
\* LlmProviders: bounded calls, streams told once, replies that fit.
CallsAreSound == active = "llm" => Llm!TypeOK /\ Llm!CallsAreSound

\* WorkerShutdown: no open client is lost, and none is opened after the shutdown.
PoolIsSound == [][active = "shutdown" => Shutdown!SoundStep]_shutdownVars

\* EventBusCircuit, LlmProviders, WorkerShutdown: a batch, a call, a worker that was
\* told to stop comes to its end, and the circuit closes.
EverythingEnds == PublishingSettles /\ Llm!CallsEnd /\ Shutdown!ToldWorkersEnd
=============================================================================
