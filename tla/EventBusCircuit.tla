---------------------------- MODULE EventBusCircuit ----------------------------
(***************************************************************************)
(* HybridEventBus: several threads publish batches of events. Each event   *)
(* goes to Redis first (behind a circuit breaker and a time budget per     *)
(* batch), then to the subscribers inside the process. publish() is a      *)
(* batch of one. Events without a stream take the path of an open circuit  *)
(* and are left out.                                                       *)
(*                                                                         *)
(* Time is counted in ticks. cool is what is left of the breaker's         *)
(* cooldown; a call to Redis ends within CallLimit (the socket timeouts).  *)
(***************************************************************************)
EXTENDS Naturals, Sequences, FiniteSets

CONSTANTS
  Threads,     \* publishing threads: scheduler, queue worker, quote producer, requests
  Threshold,   \* consecutive failures that open the circuit
  Cooldown,    \* ticks the circuit stays open
  Budget,      \* ticks a batch may spend on Redis
  CallLimit,   \* longest call to Redis
  MaxBatch     \* bound: events in a batch

\* A budget of 0 would switch the limit off; it is three times the timeout of a call.
ASSUME CircuitAssumption ==
  /\ IsFiniteSet(Threads)
  /\ Threshold \in Nat \ {0} /\ Budget \in Nat \ {0}
  /\ Cooldown \in Nat /\ CallLimit \in Nat /\ MaxBatch \in Nat

VARIABLES
  failures,    \* _redis_consecutive_failures
  cool,        \* ticks until _redis_circuit_open_until; 0 = closed
  status,      \* what get_status reports
  localError,  \* local_bus.last_error is set; shared by all threads, no lock
  pc, batch,   \* each thread's place and local variables in publish_batch
  age,         \* duration so far of a thread's call to Redis
  outcomes,    \* history: outcomes of the last Threshold calls
  probes       \* history: calls begun since the circuit opened or a call succeeded

vars == <<failures, cool, status, localError, pc, batch, age, outcomes, probes>>

Batch == [size : 0..MaxBatch, done : 0..MaxBatch, spent : 0..Budget + CallLimit, exhausted : BOOLEAN]

TypeOK ==
  /\ failures \in 0..Threshold
  /\ cool \in 0..Cooldown
  /\ status \in {"ok", "degraded"}
  /\ localError \in BOOLEAN
  /\ pc \in [Threads -> {"idle", "next", "sending", "local", "handlers"}]
  /\ batch \in [Threads -> Batch]
  /\ age \in [Threads -> 0..CallLimit]
  /\ outcomes \in Seq({"ok", "fail"}) /\ Len(outcomes) <= Threshold
  /\ probes \in Nat

Fresh(n) == [size |-> n, done |-> 0, spent |-> 0, exhausted |-> FALSE]

Sending == {t \in Threads : pc[t] = "sending"}

LastOutcomes(s) == IF Len(s) > Threshold THEN Tail(s) ELSE s

Init ==
  /\ failures = 0 /\ cool = 0 /\ status = "ok" /\ localError = FALSE
  /\ pc = [t \in Threads |-> "idle"]
  /\ batch = [t \in Threads |-> Fresh(0)]
  /\ age = [t \in Threads |-> 0]
  /\ outcomes = <<>> /\ probes = 0

(***************************************************************************)
(* publish_batch                                                           *)
(***************************************************************************)
Begin(t) ==
  /\ pc[t] = "idle"
  /\ \E n \in 1..MaxBatch : batch' = [batch EXCEPT ![t] = Fresh(n)]
  /\ pc' = [pc EXCEPT ![t] = "next"]
  /\ UNCHANGED <<failures, cool, status, localError, age, outcomes, probes>>

More(t) == batch[t].done < batch[t].size

InBudget(t) == batch[t].spent < Budget

\* _publish_to_redis: the circuit is closed and the call begins.
StartSend(t) ==
  /\ pc[t] = "next" /\ More(t) /\ InBudget(t)
  /\ cool = 0
  /\ pc' = [pc EXCEPT ![t] = "sending"]
  /\ age' = [age EXCEPT ![t] = 0]
  /\ probes' = probes + 1
  /\ UNCHANGED <<failures, cool, status, localError, batch, outcomes>>

\* Mutation of SkipOpen: a skipped event starts the cooldown again.
SkipOpenRearming(t) ==
  /\ pc[t] = "next" /\ More(t) /\ InBudget(t)
  /\ cool > 0
  /\ cool' = Cooldown
  /\ status' = "degraded"
  /\ pc' = [pc EXCEPT ![t] = "local"]
  /\ UNCHANGED <<failures, localError, batch, age, outcomes, probes>>

\* _publish_to_redis: the circuit is open.
SkipOpen(t) ==
  /\ pc[t] = "next" /\ More(t) /\ InBudget(t)
  /\ cool > 0
  /\ status' = "degraded"
  /\ pc' = [pc EXCEPT ![t] = "local"]
  /\ UNCHANGED <<failures, cool, localError, batch, age, outcomes, probes>>

\* publish_batch: the budget is spent, this event goes to local subscribers only.
SkipBudget(t) ==
  /\ pc[t] = "next" /\ More(t) /\ ~InBudget(t)
  /\ batch' = [batch EXCEPT ![t].exhausted = TRUE]
  /\ pc' = [pc EXCEPT ![t] = "local"]
  /\ UNCHANGED <<failures, cool, status, localError, age, outcomes, probes>>

\* The call is over: its duration is charged to the batch.
Charge(t) ==
  /\ pc' = [pc EXCEPT ![t] = "local"]
  /\ batch' = [batch EXCEPT ![t].spent = @ + age[t]]
  /\ age' = [age EXCEPT ![t] = 0]

\* Mutation of SendOk: a success leaves the streak of failures as it is.
SendOkKeepStreak(t) ==
  /\ pc[t] = "sending"
  /\ status' = "ok"
  /\ Charge(t)
  /\ outcomes' = LastOutcomes(Append(outcomes, "ok"))
  /\ probes' = 0
  /\ UNCHANGED <<failures, cool, localError>>

SendOk(t) ==
  /\ pc[t] = "sending"
  /\ failures' = 0
  /\ status' = "ok"
  /\ Charge(t)
  /\ outcomes' = LastOutcomes(Append(outcomes, "ok"))
  /\ probes' = 0
  /\ UNCHANGED <<cool, localError>>

SendFail(t) ==
  /\ pc[t] = "sending"
  /\ status' = "degraded"
  /\ IF failures + 1 >= Threshold
       THEN failures' = 0 /\ cool' = Cooldown /\ probes' = 0
       ELSE failures' = failures + 1 /\ UNCHANGED <<cool, probes>>
  /\ Charge(t)
  /\ outcomes' = LastOutcomes(Append(outcomes, "fail"))
  /\ UNCHANGED localError

\* InMemoryEventBus.publish clears last_error, then calls the handlers one by one.
RunHandlers(t) ==
  /\ pc[t] = "local"
  /\ localError' = FALSE
  /\ pc' = [pc EXCEPT ![t] = "handlers"]
  /\ UNCHANGED <<failures, cool, status, batch, age, outcomes, probes>>

HandlerFails(t) ==
  /\ pc[t] = "handlers" /\ ~localError
  /\ localError' = TRUE
  /\ UNCHANGED <<failures, cool, status, pc, batch, age, outcomes, probes>>

\* _publish_local after the handlers: last_error is read, whoever set it last.
LocalDone(t) ==
  /\ pc[t] = "handlers"
  /\ status' = IF localError THEN "degraded" ELSE status
  /\ batch' = [batch EXCEPT ![t].done = @ + 1]
  /\ pc' = [pc EXCEPT ![t] = "next"]
  /\ UNCHANGED <<failures, cool, localError, age, outcomes, probes>>

Finish(t) ==
  /\ pc[t] = "next" /\ ~More(t)
  /\ status' = IF batch[t].exhausted THEN "degraded" ELSE status
  /\ pc' = [pc EXCEPT ![t] = "idle"]
  /\ UNCHANGED <<failures, cool, localError, batch, age, outcomes, probes>>

\* Time passes unless a call has reached its timeout and must end first.
Tick ==
  /\ \A t \in Sending : age[t] < CallLimit
  /\ cool > 0 \/ Sending # {}
  /\ cool' = IF cool > 0 THEN cool - 1 ELSE 0
  /\ age' = [t \in Threads |-> IF t \in Sending THEN age[t] + 1 ELSE age[t]]
  /\ UNCHANGED <<failures, status, localError, pc, batch, outcomes, probes>>

Publishing(t) ==
  \/ StartSend(t) \/ SkipOpen(t) \/ SkipBudget(t)
  \/ SendOk(t) \/ SendFail(t)
  \/ RunHandlers(t) \/ LocalDone(t) \/ Finish(t)

Next ==
  \/ \E t \in Threads : Begin(t) \/ Publishing(t) \/ HandlerFails(t)
  \/ Tick

\* Threads run, calls return or time out, and time passes.
Fairness ==
  /\ \A t \in Threads : WF_vars(Publishing(t))
  /\ WF_vars(Tick)

Spec == Init /\ [][Next]_vars /\ Fairness

-----------------------------------------------------------------------------
(***************************************************************************)
(* Properties                                                              *)
(***************************************************************************)
\* Redis, however slow, holds a batch up for less than the budget plus one call:
\* publish_batch runs in the thread that stores the news.
BatchDelayBounded ==
  \A t \in Threads : batch[t].spent + age[t] < Budget + CallLimit

\* The circuit opens (or its cooldown is prolonged) only when the last Threshold
\* calls of all threads, in the order they ended, failed.
TripOnlyAfterStreak ==
  cool' > cool => outcomes' = [k \in 1..Threshold |-> "fail"]

\* An unreachable Redis is called few times before the circuit opens: with n
\* publishing threads at most Threshold + n - 1 calls begin since it last opened.
FewProbes == probes < Threshold + Cardinality(Threads)

\* As long as the last call failed, get_status does not report "ok".
FailureIsReported ==
  Len(outcomes) > 0 /\ outcomes[Len(outcomes)] = "fail" => status = "degraded"

\* A batch ends, and local subscribers then have had every event of it, whatever
\* Redis does.
LocalDeliveryComplete ==
  \A t \in Threads :
    pc[t] = "next" ~> pc[t] = "idle" /\ batch[t].done = batch[t].size

\* The circuit closes again: publishing while it is open does not keep it open.
CircuitCloses == []<>(cool = 0)

\* At every moment the delay of a batch and the calls to a dead Redis are
\* bounded, and a failing Redis is reported; only a streak opens the circuit.
SoundStep ==
  TypeOK' /\ BatchDelayBounded' /\ FewProbes' /\ FailureIsReported' /\ TripOnlyAfterStreak

PublishingIsSound == [][SoundStep]_vars

\* Batches end, and the circuit does not stay open.
PublishingSettles == LocalDeliveryComplete /\ CircuitCloses
=============================================================================
