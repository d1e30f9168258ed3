-------------------------- MODULE Outbound_proofs --------------------------
(***************************************************************************)
(* What leaves the process: events for Redis (EventBusCircuit), calls to   *)
(* the model providers (LlmProviders), and the HTTP client they share, up  *)
(* to its shutdown (WorkerShutdown), each as MCOutbound instantiates it    *)
(* and for every value of its constants.                                   *)
(***************************************************************************)
EXTENDS MCOutbound, FiniteSetTheorems, TLAPS

-----------------------------------------------------------------------------
(***************************************************************************)
(* The circuit breaker and the batch budget of the event bus, for every    *)
(* set of threads, threshold, cooldown, budget, duration of a call and     *)
(* size of a batch.                                                        *)
(***************************************************************************)
Places == {"idle", "next", "sending", "local", "handlers"}
Outcomes == {"ok", "fail"}

\* The types in three parts, by who changes them.
BreakerTypes ==
  /\ failures \in 0..Threshold - 1 /\ cool \in 0..Cooldown /\ probes \in Nat
  /\ outcomes \in Seq(Outcomes) /\ Len(outcomes) <= Threshold
StatusTypes == status \in {"ok", "degraded"} /\ localError \in BOOLEAN
ThreadTypes ==
  /\ pc \in [Threads -> Places] /\ batch \in [Threads -> Batch]
  /\ age \in [Threads -> 0..CallLimit]

\* A thread that has an event in hand has not done its whole batch; its call began within
\* the budget, and without a call nothing is on the clock.
BatchesInBounds ==
  \A t \in Threads :
    /\ pc[t] \in {"sending", "local", "handlers"} => batch[t].done < batch[t].size
    /\ IF pc[t] = "sending" THEN batch[t].spent < Budget ELSE age[t] = 0
    /\ batch[t].spent < Budget + CallLimit

\* The counter of failures is the end of the history of calls.
StreakIsRecent ==
  /\ failures <= Len(outcomes)
  /\ \A k \in 1..Len(outcomes) : k > Len(outcomes) - failures => outcomes[k] = "fail"

\* Every call begun since the circuit opened, or a call succeeded, has failed or is not over.
ProbesAreCounted == probes <= failures + Cardinality(Sending)

Inv == /\ BreakerTypes /\ StatusTypes /\ ThreadTypes
       /\ BatchesInBounds /\ StreakIsRecent /\ ProbesAreCounted /\ FailureIsReported

-----------------------------------------------------------------------------
\* The window w of the last outcomes, which was s before the call that ended in x.
WindowAfter(s, x, w) ==
  /\ w \in Seq(Outcomes) /\ Len(w) \in 1..Threshold /\ w[Len(w)] = x
  /\ Len(w) = IF Len(s) = Threshold THEN Threshold ELSE Len(s) + 1
  /\ \A k \in 1..Len(w) : k # Len(w) => w[k] = s[k + (Len(s) + 1 - Len(w))]

\* The window stays as long as the threshold and ends in the call that is over.
LEMMA WindowFacts ==
  ASSUME NEW s \in Seq(Outcomes), Len(s) <= Threshold, NEW x \in Outcomes
  PROVE  WindowAfter(s, x, LastOutcomes(Append(s, x)))
<1> USE CircuitAssumption DEF WindowAfter
<1> DEFINE a == Append(s, x)
           w == LastOutcomes(a)
<1> SUFFICES WindowAfter(s, x, w)
  OBVIOUS
<1>1. /\ a \in Seq(Outcomes) /\ Len(a) = Len(s) + 1 /\ Len(s) \in Nat /\ a # <<>>
      /\ \A k \in 1..Len(s) : a[k] = s[k]
      /\ a[Len(s) + 1] = x
  OBVIOUS
<1>2. w = IF Len(a) > Threshold THEN Tail(a) ELSE a
  BY DEF LastOutcomes
<1> HIDE DEF a, w
<1>3. CASE Len(s) < Threshold
  <2>1. w = a
    BY <1>1, <1>2, <1>3
  <2> QED BY <1>1, <1>3, <2>1
<1>4. CASE Len(s) = Threshold
  <2>1. w = Tail(a)
    BY <1>1, <1>2, <1>4
  <2>2. /\ w \in Seq(Outcomes) /\ Len(w) = Threshold
        /\ \A k \in 1..Threshold : w[k] = a[k + 1]
    BY <1>1, <1>4, <2>1
  <2> QED BY <1>1, <1>4, <2>2
<1> QED BY <1>3, <1>4

\* Threads in a call, when one begins or ends.
LEMMA SendingFacts ==
  /\ IsFiniteSet(Sending) /\ Cardinality(Sending) \in 0..Cardinality(Threads)
  /\ Cardinality(Threads) \in Nat
  /\ \A t \in Threads :
       /\ Cardinality(Sending \cup {t}) = Cardinality(Sending) + (IF t \in Sending THEN 0 ELSE 1)
       /\ Cardinality(Sending \ {t}) = Cardinality(Sending) - (IF t \in Sending THEN 1 ELSE 0)
       /\ Cardinality(Sending \ {t}) \in Nat
<1>1. IsFiniteSet(Threads) /\ Cardinality(Threads) \in Nat
  BY CircuitAssumption, FS_CardinalityType
<1>2. Sending \in SUBSET Threads
  BY DEF Sending
<1>3. IsFiniteSet(Sending) /\ Cardinality(Sending) <= Cardinality(Threads)
  BY <1>1, <1>2, FS_Subset
<1>4. Cardinality(Sending) \in Nat
  BY <1>3, FS_CardinalityType
<1>5. ASSUME NEW t \in Threads
      PROVE  /\ Cardinality(Sending \cup {t}) = Cardinality(Sending) + (IF t \in Sending THEN 0 ELSE 1)
             /\ Cardinality(Sending \ {t}) = Cardinality(Sending) - (IF t \in Sending THEN 1 ELSE 0)
             /\ Cardinality(Sending \ {t}) \in Nat
  <2>1. Cardinality(Sending \cup {t}) =
          IF t \in Sending THEN Cardinality(Sending) ELSE Cardinality(Sending) + 1
    BY <1>3, FS_AddElement
  <2>2. Cardinality(Sending \ {t}) =
          IF t \in Sending THEN Cardinality(Sending) - 1 ELSE Cardinality(Sending)
    BY <1>3, FS_RemoveElement
  <2>3. Cardinality(Sending \ {t}) \in Nat
    BY <1>3, FS_RemoveElement, FS_CardinalityType
  <2> QED BY <1>4, <2>1, <2>2, <2>3
<1> QED BY <1>1, <1>3, <1>4, <1>5

\* A step that is not the end of a call leaves the history alone.
LEMMA QuietStep ==
  ASSUME Inv, UNCHANGED <<failures, outcomes>>, status' = status \/ status' = "degraded"
  PROVE  StreakIsRecent' /\ FailureIsReported' /\ status' \in {"ok", "degraded"}
BY DEF Inv, StreakIsRecent, FailureIsReported, StatusTypes

\* A step within a batch that begins and ends no call.
LEMMA NoCallStep ==
  ASSUME Inv, NEW t \in Threads, NEW from \in Places, NEW to \in Places,
         pc[t] = from, pc' = [pc EXCEPT ![t] = to], from # "sending", to # "sending",
         NEW b \in Batch, batch' = [batch EXCEPT ![t] = b], b.spent \in {0, batch[t].spent},
         to \in {"local", "handlers"} => b.done < b.size,
         status' = status \/ status' = "degraded", localError' \in BOOLEAN,
         UNCHANGED <<failures, cool, age, outcomes, probes>>
  PROVE  Inv' /\ TripOnlyAfterStreak
<1> USE CircuitAssumption
<1>1. ThreadTypes' /\ BatchesInBounds'
  BY DEF Inv, ThreadTypes, BatchesInBounds, Batch
<1>2. Sending' = Sending
  BY DEF Inv, ThreadTypes, Sending
<1>3. ProbesAreCounted' /\ BreakerTypes'
  BY <1>2 DEF Inv, ProbesAreCounted, BreakerTypes
<1>4. Inv'
  BY <1>1, <1>3, QuietStep, Zenon DEF Inv, StatusTypes
<1>5. ~(cool' > cool)
  BY DEF Inv, BreakerTypes
<1> QED BY <1>4, <1>5 DEF TripOnlyAfterStreak

\* The steps of a batch outside a call.
LEMMA BatchStep ==
  ASSUME Inv, NEW t \in Threads,
         \/ Begin(t) \/ SkipOpen(t) \/ SkipBudget(t)
         \/ RunHandlers(t) \/ LocalDone(t) \/ Finish(t)
  PROVE  Inv' /\ TripOnlyAfterStreak
<1> USE CircuitAssumption
<1>1. /\ batch \in [Threads -> Batch] /\ batch[t] \in Batch /\ pc \in [Threads -> Places]
      /\ localError \in BOOLEAN
      /\ pc[t] \in {"local", "handlers"} => batch[t].done < batch[t].size
  BY DEF Inv, ThreadTypes, StatusTypes, BatchesInBounds
<1>2. batch = [batch EXCEPT ![t] = batch[t]]
  BY <1>1
<1>3. CASE Begin(t)
  <2>1. PICK n \in 1..MaxBatch : batch' = [batch EXCEPT ![t] = Fresh(n)]
    BY <1>3 DEF Begin
  <2>2. Fresh(n) \in Batch /\ Fresh(n).spent = 0
    BY DEF Fresh, Batch
  <2>3. /\ pc[t] = "idle" /\ pc' = [pc EXCEPT ![t] = "next"]
        /\ UNCHANGED <<failures, cool, status, localError, age, outcomes, probes>>
    BY <1>3 DEF Begin
  <2> QED BY <1>1, <2>1, <2>2, <2>3, NoCallStep DEF Places
<1>4. CASE SkipOpen(t)
  BY <1>1, <1>2, <1>4, NoCallStep DEF SkipOpen, More, Places
<1>5. CASE SkipBudget(t)
  <2> DEFINE b == [batch[t] EXCEPT !.exhausted = TRUE]
  <2>1. b \in Batch /\ b.spent = batch[t].spent /\ b.done = batch[t].done /\ b.size = batch[t].size
    BY <1>1 DEF Batch
  <2>2. /\ pc[t] = "next" /\ pc' = [pc EXCEPT ![t] = "local"] /\ batch[t].done < batch[t].size
        /\ batch' = [batch EXCEPT ![t] = b]
        /\ UNCHANGED <<failures, cool, status, localError, age, outcomes, probes>>
    BY <1>1, <1>5 DEF SkipBudget, More
  <2> HIDE DEF b
  <2> QED BY <1>1, <2>1, <2>2, NoCallStep DEF Places
<1>6. CASE RunHandlers(t)
  <2>1. localError' \in BOOLEAN
    BY <1>6, Zenon DEF RunHandlers
  <2>2. /\ pc[t] = "local" /\ pc' = [pc EXCEPT ![t] = "handlers"]
        /\ UNCHANGED <<failures, cool, status, batch, age, outcomes, probes>>
    BY <1>6 DEF RunHandlers
  <2> QED BY <1>1, <1>2, <2>1, <2>2, NoCallStep DEF Places
<1>7. CASE LocalDone(t)
  <2> DEFINE b == [batch[t] EXCEPT !.done = batch[t].done + 1]
  <2>1. b \in Batch /\ b.spent = batch[t].spent
    BY <1>1, <1>7 DEF Batch, LocalDone
  <2>2. /\ pc[t] = "handlers" /\ pc' = [pc EXCEPT ![t] = "next"]
        /\ batch' = [batch EXCEPT ![t] = b] /\ (status' = status \/ status' = "degraded")
        /\ UNCHANGED <<failures, cool, localError, age, outcomes, probes>>
    BY <1>1, <1>7 DEF LocalDone
  <2> HIDE DEF b
  <2> QED BY <1>1, <2>1, <2>2, NoCallStep DEF Places
<1>8. CASE Finish(t)
  BY <1>1, <1>2, <1>8, NoCallStep DEF Finish, Places
<1> QED BY <1>3, <1>4, <1>5, <1>6, <1>7, <1>8

\* A call begins only within the budget.
LEMMA StartSendStep ==
  ASSUME Inv, NEW t \in Threads, StartSend(t) PROVE Inv' /\ TripOnlyAfterStreak
<1> USE CircuitAssumption
<1>1. ThreadTypes' /\ BatchesInBounds'
  BY DEF Inv, ThreadTypes, BatchesInBounds, StartSend, InBudget, More, Places
<1>2. Sending' = Sending \cup {t} /\ t \notin Sending
  BY DEF Inv, ThreadTypes, Sending, StartSend
<1>3. Cardinality(Sending') = Cardinality(Sending) + 1
  BY <1>2, SendingFacts
<1>4. ProbesAreCounted' /\ BreakerTypes' /\ cool' = cool
  BY <1>3, SendingFacts DEF Inv, ProbesAreCounted, BreakerTypes, StartSend
<1>5. UNCHANGED <<failures, outcomes, status, localError>>
  BY DEF StartSend
<1>6. StreakIsRecent' /\ FailureIsReported' /\ StatusTypes'
  BY <1>5, QuietStep, Zenon DEF Inv, StatusTypes
<1>7. ~(cool' > cool)
  BY <1>4 DEF Inv, BreakerTypes
<1> QED BY <1>1, <1>4, <1>6, <1>7 DEF Inv, TripOnlyAfterStreak

\* What the end of a call means for its thread, whatever came of it.
LEMMA ChargeFacts ==
  ASSUME Inv, NEW t \in Threads, pc[t] = "sending", Charge(t)
  PROVE  /\ ThreadTypes' /\ BatchesInBounds'
         /\ Cardinality(Sending') = Cardinality(Sending) - 1 /\ Cardinality(Sending') \in Nat
<1> USE CircuitAssumption
<1>1. /\ batch \in [Threads -> Batch] /\ pc \in [Threads -> Places] /\ age \in [Threads -> 0..CallLimit]
      /\ batch[t].done < batch[t].size /\ batch[t].spent < Budget /\ batch[t] \in Batch
      /\ age[t] \in 0..CallLimit
  BY DEF Inv, ThreadTypes, BatchesInBounds
<1> DEFINE b == [batch[t] EXCEPT !.spent = batch[t].spent + age[t]]
<1>2. b \in Batch /\ b.done = batch[t].done /\ b.size = batch[t].size /\ b.spent < Budget + CallLimit
  BY <1>1 DEF Batch
<1>3. /\ pc' = [pc EXCEPT ![t] = "local"] /\ batch' = [batch EXCEPT ![t] = b]
      /\ age' = [age EXCEPT ![t] = 0]
  BY <1>1 DEF Charge
<1> HIDE DEF b
<1>4. ThreadTypes'
  BY <1>1, <1>2, <1>3 DEF ThreadTypes, Places
<1>5. BatchesInBounds'
  BY <1>1, <1>2, <1>3 DEF Inv, BatchesInBounds
<1>6. Sending' = Sending \ {t} /\ t \in Sending
  BY <1>1, <1>3 DEF Sending
<1>7. Cardinality(Sending') = Cardinality(Sending) - 1 /\ Cardinality(Sending') \in Nat
  BY <1>6, SendingFacts
<1> QED BY <1>4, <1>5, <1>7

\* A call that succeeds closes the circuit and begins a new streak.
LEMMA SendOkStep ==
  ASSUME Inv, NEW t \in Threads, SendOk(t) PROVE Inv' /\ TripOnlyAfterStreak
<1> USE CircuitAssumption
<1>1. ThreadTypes' /\ BatchesInBounds' /\ Cardinality(Sending') \in Nat
  BY ChargeFacts DEF SendOk
<1>2. /\ outcomes' \in Seq(Outcomes) /\ Len(outcomes') \in 1..Threshold
      /\ outcomes'[Len(outcomes')] = "ok"
  <2>1. WindowAfter(outcomes, "ok", outcomes')
    BY WindowFacts DEF SendOk, Inv, BreakerTypes, Outcomes
  <2> QED BY <2>1 DEF WindowAfter
<1>3. /\ failures' = 0 /\ probes' = 0 /\ cool' = cool /\ status' = "ok" /\ localError' = localError
  BY DEF SendOk
<1>4. BreakerTypes'
  BY <1>2, <1>3 DEF Inv, BreakerTypes
<1>5. StreakIsRecent' /\ FailureIsReported'
  BY <1>2, <1>3 DEF StreakIsRecent, FailureIsReported
<1>6. ProbesAreCounted' /\ StatusTypes'
  BY <1>1, <1>3 DEF Inv, ProbesAreCounted, StatusTypes
<1>7. ~(cool' > cool)
  BY <1>3 DEF Inv, BreakerTypes
<1> QED BY <1>1, <1>4, <1>5, <1>6, <1>7 DEF Inv, TripOnlyAfterStreak

\* When the threshold is reached the window holds nothing but failures.
LEMMA SendFailStep ==
  ASSUME Inv, NEW t \in Threads, SendFail(t) PROVE Inv' /\ TripOnlyAfterStreak
<1> USE CircuitAssumption
<1>1. ThreadTypes' /\ BatchesInBounds' /\ Cardinality(Sending') = Cardinality(Sending) - 1
      /\ Cardinality(Sending') \in Nat
  BY ChargeFacts DEF SendFail
<1>2. /\ outcomes' \in Seq(Outcomes) /\ Len(outcomes') \in 1..Threshold
      /\ outcomes'[Len(outcomes')] = "fail"
      /\ Len(outcomes') = IF Len(outcomes) = Threshold THEN Threshold ELSE Len(outcomes) + 1
      /\ \A k \in 1..Len(outcomes') : k # Len(outcomes') =>
           outcomes'[k] = outcomes[k + (Len(outcomes) + 1 - Len(outcomes'))]
  <2>1. /\ outcomes \in Seq(Outcomes) /\ Len(outcomes) <= Threshold /\ "fail" \in Outcomes
        /\ outcomes' = LastOutcomes(Append(outcomes, "fail"))
    BY DEF SendFail, Inv, BreakerTypes, Outcomes
  <2>2. WindowAfter(outcomes, "fail", outcomes')
    BY <2>1, WindowFacts
  <2> QED BY <2>2 DEF WindowAfter
<1>3. /\ failures \in 0..Threshold - 1 /\ failures <= Len(outcomes) /\ cool \in 0..Cooldown
      /\ Len(outcomes) \in 0..Threshold /\ probes \in Nat
      /\ probes <= failures + Cardinality(Sending)
      /\ \A k \in 1..Len(outcomes) : k > Len(outcomes) - failures => outcomes[k] = "fail"
  BY DEF Inv, BreakerTypes, StreakIsRecent, ProbesAreCounted
<1>4. \A k \in 1..Len(outcomes') : k > Len(outcomes') - (failures + 1) => outcomes'[k] = "fail"
  <2> SUFFICES ASSUME NEW k \in 1..Len(outcomes'), k > Len(outcomes') - (failures + 1)
               PROVE  outcomes'[k] = "fail"
    OBVIOUS
  <2>1. CASE k = Len(outcomes')
    BY <1>2, <2>1
  <2>2. CASE k # Len(outcomes')
    <3> DEFINE j == k + (Len(outcomes) + 1 - Len(outcomes'))
    <3>1. outcomes'[k] = outcomes[j]
      BY <1>2, <2>2
    <3>2. /\ Len(outcomes') \in Nat /\ Len(outcomes) \in Nat /\ failures \in Nat
          /\ Len(outcomes') <= Len(outcomes) + 1
          /\ k \in Nat /\ k >= 1 /\ k < Len(outcomes')
      BY <1>2, <1>3, <2>2
    <3>3. j \in 1..Len(outcomes) /\ j > Len(outcomes) - failures
      BY <3>2
    <3> HIDE DEF j
    <3> QED BY <1>3, <3>1, <3>3
  <2> QED BY <2>1, <2>2
<1>5. status' = "degraded" /\ localError' = localError
  BY DEF SendFail
<1>6. StatusTypes' /\ FailureIsReported'
  BY <1>5, Zenon DEF Inv, StatusTypes, FailureIsReported
<1>7. CASE failures + 1 >= Threshold
  <2>1. failures' = 0 /\ cool' = Cooldown /\ probes' = 0
    BY <1>7 DEF SendFail
  <2>2. BreakerTypes' /\ StreakIsRecent' /\ ProbesAreCounted'
    BY <1>1, <1>2, <2>1 DEF BreakerTypes, StreakIsRecent, ProbesAreCounted
  <2>3. Len(outcomes') = Threshold /\ \A k \in 1..Threshold : outcomes'[k] = "fail"
    BY <1>2, <1>3, <1>4, <1>7
  <2>4. outcomes' = [k \in 1..Threshold |-> "fail"]
    BY <1>2, <2>3
  <2> QED BY <1>1, <1>6, <2>2, <2>4 DEF Inv, TripOnlyAfterStreak
<1>8. CASE ~(failures + 1 >= Threshold)
  <2>1. failures' = failures + 1 /\ cool' = cool /\ probes' = probes
    BY <1>8 DEF SendFail
  <2>2. BreakerTypes' /\ StreakIsRecent' /\ ProbesAreCounted' /\ ~(cool' > cool)
    BY <1>1, <1>2, <1>3, <1>4, <1>8, <2>1, SendingFacts
       DEF BreakerTypes, StreakIsRecent, ProbesAreCounted
  <2> QED BY <1>1, <1>6, <2>2 DEF Inv, TripOnlyAfterStreak
<1> QED BY <1>7, <1>8

\* Another subscriber fails: only the flag changes.
LEMMA HandlerFailsStep ==
  ASSUME Inv, NEW t \in Threads, HandlerFails(t) PROVE Inv' /\ TripOnlyAfterStreak
<1>1. localError' \in BOOLEAN
  BY Zenon DEF HandlerFails
<1>2. UNCHANGED <<failures, cool, status, pc, batch, age, outcomes, probes>>
  BY DEF HandlerFails
<1>3. ~(cool' > cool)
  BY <1>2, CircuitAssumption DEF Inv, BreakerTypes
<1> QED BY <1>1, <1>2, <1>3 DEF Inv, BreakerTypes, StatusTypes, ThreadTypes, BatchesInBounds, StreakIsRecent,
           ProbesAreCounted, Sending, FailureIsReported, TripOnlyAfterStreak

\* Time passes: every call has room for another tick.
LEMMA TickStep == ASSUME Inv, Tick PROVE Inv' /\ TripOnlyAfterStreak
<1> USE CircuitAssumption
<1>1. ThreadTypes' /\ BatchesInBounds'
  BY DEF Inv, ThreadTypes, BatchesInBounds, Tick, Sending
<1>2. cool' \in 0..Cooldown /\ ~(cool' > cool)
  BY DEF Inv, BreakerTypes, Tick
<1>3. UNCHANGED <<failures, status, localError, pc, batch, outcomes, probes>>
  BY DEF Tick
<1> QED BY <1>1, <1>2, <1>3 DEF Inv, BreakerTypes, StatusTypes, StreakIsRecent, ProbesAreCounted, Sending,
           FailureIsReported, TripOnlyAfterStreak

-----------------------------------------------------------------------------
\* Every step preserves the invariant, and opens the circuit only after a streak.
LEMMA NextInv == Inv /\ [Next]_vars => Inv' /\ [TripOnlyAfterStreak]_vars
<1> SUFFICES ASSUME Inv, [Next]_vars PROVE Inv' /\ (TripOnlyAfterStreak \/ UNCHANGED vars)
  OBVIOUS
<1>1. ASSUME NEW t \in Threads, Begin(t) \/ Publishing(t) \/ HandlerFails(t)
      PROVE  Inv' /\ TripOnlyAfterStreak
  BY <1>1, BatchStep, StartSendStep, SendOkStep, SendFailStep, HandlerFailsStep DEF Publishing
<1>2. CASE UNCHANGED vars
  BY <1>2 DEF vars, Inv, BreakerTypes, StatusTypes, ThreadTypes, BatchesInBounds, StreakIsRecent,
     ProbesAreCounted, Sending, FailureIsReported
<1> QED BY <1>1, <1>2, TickStep DEF Next

\* No batch is under way and Redis has not been called.
LEMMA InitInv == Init => Inv
<1> SUFFICES ASSUME Init PROVE Inv
  OBVIOUS
<1> USE CircuitAssumption DEF Init
<1>1. BreakerTypes /\ StreakIsRecent
  BY DEF BreakerTypes, StreakIsRecent
<1>2. StatusTypes
  BY Zenon DEF StatusTypes
<1>3. Fresh(0) \in Batch /\ Fresh(0).spent = 0
  BY DEF Fresh, Batch
<1>4. ThreadTypes /\ BatchesInBounds
  BY <1>3 DEF ThreadTypes, BatchesInBounds, Places
<1>5. ProbesAreCounted /\ FailureIsReported
  BY SendingFacts DEF ProbesAreCounted, FailureIsReported
<1> QED BY <1>1, <1>2, <1>4, <1>5 DEF Inv

\* What is said of the publishing threads at every moment.
Bounds == TypeOK /\ BatchDelayBounded /\ FewProbes /\ FailureIsReported

\* The invariant contains it.
LEMMA InvSuffices == Inv => Bounds
<1> SUFFICES ASSUME Inv PROVE Bounds
  OBVIOUS
<1> USE CircuitAssumption
<1>1. TypeOK
  BY DEF Inv, BreakerTypes, StatusTypes, ThreadTypes, TypeOK, Places, Outcomes
<1>2. BatchDelayBounded
  BY DEF Inv, ThreadTypes, BatchesInBounds, BatchDelayBounded, Batch
<1>3. FewProbes
  BY SendingFacts DEF Inv, BreakerTypes, ProbesAreCounted, FewProbes
<1> QED BY <1>1, <1>2, <1>3 DEF Inv, Bounds

\* However the threads' calls to Redis overlap and end, a batch is delayed by less than the
\* budget and one call, the circuit opens only when the last Threshold calls failed, a dead
\* Redis is called at most once by each other thread beyond the threshold, and as long as
\* the last call failed the status says so.
THEOREM PublishingTheorem == Spec => PublishingIsSound
<1>1. Bounds' /\ [TripOnlyAfterStreak]_vars => [SoundStep]_vars
  BY DEF Bounds, SoundStep
<1> QED BY <1>1, InitInv, NextInv, InvSuffices, PTL DEF Spec, PublishingIsSound

-----------------------------------------------------------------------------
(***************************************************************************)
(* Calls to the model providers, for every set of configurations and       *)
(* requests and every number of retries, chunks and texts.                 *)
(***************************************************************************)
Pcs == {"ready", "planning", "storing", "streaming", "done", "failed"}
Handed == [type : {"chunk"}, hop : {0, 1}, attempt : Nat] \cup {[type |-> "failover"]}
Given == Llm!Purposes \cup {Absent} \cup [1..Texts -> 0..Texts - 1]
CallRecord ==
  [pc : Pcs, op : Llm!Ops, purpose : Llm!Purposes, cfg : Configs, first : Configs, hop : {0, 1},
   attempt : Nat, posts : [1..2 -> Nat], events : Seq(Handed), sent : 0..MaxChunks,
   answer : Given]

\* On the first provider a post was made for each attempt, and for the present one n; a
\* backup, which is another provider, has only this one attempt.
Within(k, n) ==
  /\ k.hop = 0 => /\ k.cfg = k.first /\ k.attempt <= MaxRetries
                  /\ k.posts[1] <= k.attempt + n /\ k.posts[2] = 0
  /\ k.hop = 1 => /\ k.cfg # k.first /\ k.attempt = 0
                  /\ k.posts[1] <= MaxRetries + 1 /\ k.posts[2] <= n

\* What may be handed on after what.
Follows(x, y) ==
  /\ x.type = "failover" => y.type = "chunk" /\ y.hop = 1
  /\ x.type = "chunk" /\ y.type = "chunk" /\ x.hop = y.hop => x.attempt = y.attempt
InOrder(events) == \A i, j \in DOMAIN events : i < j => Follows(events[i], events[j])

\* Before the failover only the present attempt has handed anything on.
OneAttempt(k) ==
  /\ k.hop = 0 /\ k.sent = 0 => k.events = <<>>
  /\ k.hop = 0 => \A i \in DOMAIN k.events :
       k.events[i].type = "chunk" /\ k.events[i].hop = 0 /\ k.events[i].attempt = k.attempt
  /\ k.hop = 1 => \A i \in DOMAIN k.events :
       k.events[i].type = "chunk" /\ k.events[i].hop = 1 => k.events[i].attempt = 0
  /\ InOrder(k.events)

\* What is stored or returned is the answer to this call.
Fits(k) ==
  /\ k.pc = "storing" => k.op = "analyze"
  /\ k.pc = "streaming" => k.op = "stream"
  /\ k.pc = "storing" => k.answer = k.purpose
  /\ k.pc = "done" /\ k.op = "analyze" =>
       \/ k.answer = k.purpose
       \/ k.answer \in Llm!CacheKey(k.purpose) /\ k.posts = <<0, 0>>
  /\ k.pc = "done" /\ k.op = "embed" => \A i \in 1..Texts : k.answer[i] = i - 1

SoundCalls ==
  {k \in CallRecord : /\ Within(k, IF k.pc = "ready" THEN 0 ELSE 1) /\ OneAttempt(k)
                      /\ k.pc = "ready" => k.sent = 0
                      /\ Fits(k)}

CallInv ==
  /\ config \in Llm!Tables
  /\ call \in [Requests -> {Llm!Idle} \cup SoundCalls]
  /\ cache \in [Llm!Keys -> {Absent} \cup [schema : Llm!Purposes, model : Configs]]
  /\ \A k \in Llm!Keys : cache[k] = Absent \/ cache[k].schema \in k

-----------------------------------------------------------------------------
\* The reply to a batch, if it is accepted, is put in the order of the texts: the items that
\* come before item i are those for the texts before its own, and there are that many.
LEMMA VectorsFit ==
  ASSUME NEW reply \in Llm!Replies, Llm!Honest(reply), Llm!Acceptable(reply)
  PROVE  /\ Llm!Vectors(reply) \in [1..Texts -> 0..Texts - 1]
         /\ \A n \in 1..Texts : Llm!Vectors(reply)[n] = n - 1
<1> USE CallsAssumption
<1>1. /\ DOMAIN reply = 1..Texts
      /\ \A i \in 1..Texts : reply[i].text \in 0..Texts - 1 /\ reply[i].indexed \in BOOLEAN
  <2>1. PICK n \in 1..Texts : reply \in [1..n -> [text : 0..Texts - 1, indexed : BOOLEAN]]
    BY DEF Llm!Replies
  <2>2. Len(reply) = n
    BY <2>1
  <2>3. n = Texts
    BY <2>2 DEF Llm!Acceptable
  <2> QED BY <2>1, <2>3
<1> DEFINE f == [i \in 1..Texts |-> reply[i].text]
<1>2. \A i \in 1..Texts : f[i] \in 0..Texts - 1 /\ Llm!ItemIndex(reply, i) = f[i]
  BY <1>1 DEF Llm!ItemIndex, Llm!Honest
<1>3. f \in Surjection(1..Texts, 0..Texts - 1)
  <2>1. {Llm!ItemIndex(reply, i) : i \in 1..Texts} = 0..Texts - 1
    BY <1>1 DEF Llm!Acceptable
  <2>2. \A t \in 0..Texts - 1 : \E i \in 1..Texts : f[i] = t
    BY <1>2, <2>1
  <2>3. f \in [1..Texts -> 0..Texts - 1]
    BY <1>2
  <2> HIDE DEF f
  <2> QED BY <2>2, <2>3 DEF Surjection
<1>4. \A i, j \in 1..Texts : f[i] = f[j] => i = j
  <2>1. IsFiniteSet(1..Texts) /\ Cardinality(1..Texts) = Texts
    BY FS_Interval
  <2>2. Cardinality(0..Texts - 1) = Texts
    BY FS_Interval
  <2> HIDE DEF f
  <2>3. f \in Injection(1..Texts, 0..Texts - 1)
    BY <1>3, <2>1, <2>2, FS_SurjSameCardinalityImpliesInj
  <2> QED BY <2>3 DEF Injection, IsInjective
<1>5. ASSUME NEW i \in 1..Texts PROVE Cardinality(Llm!Earlier(reply, i)) = f[i]
  <2>1. Llm!Earlier(reply, i) = {j \in 1..Texts : f[j] < f[i]}
    BY <1>1, <1>2, <1>4 DEF Llm!Earlier
  <2> DEFINE g == [j \in Llm!Earlier(reply, i) |-> f[j]]
             below == 0..f[i] - 1
  <2>2. /\ f[i] \in 0..Texts - 1 /\ \A j \in 1..Texts : f[j] \in 0..Texts - 1
        /\ \A t \in 0..Texts - 1 : \E j \in 1..Texts : f[j] = t
    BY <1>2, <1>3 DEF Surjection
  <2> HIDE DEF f
  <2>3. /\ g \in [Llm!Earlier(reply, i) -> below]
        /\ \A a, b \in Llm!Earlier(reply, i) : g[a] = g[b] => a = b
        /\ \A t \in below : \E j \in Llm!Earlier(reply, i) : g[j] = t
    BY <1>4, <2>1, <2>2
  <2> HIDE DEF g
  <2>4. g \in Bijection(Llm!Earlier(reply, i), below)
    BY <2>3 DEF Bijection, Injection, Surjection, IsInjective
  <2>5. ExistsBijection(Llm!Earlier(reply, i), below)
    BY <2>4 DEF ExistsBijection
  <2>6. IsFiniteSet(Llm!Earlier(reply, i))
    <3>1. Llm!Earlier(reply, i) \in SUBSET (1..Texts) /\ IsFiniteSet(1..Texts)
      BY <2>1, FS_Interval
    <3> QED BY <3>1, FS_Subset
  <2>7. Cardinality(below) = f[i]
    <3>1. 0 \in Int /\ f[i] - 1 \in Int /\ f[i] \in Nat
      BY <2>2
    <3>2. Cardinality(below) = IF 0 > f[i] - 1 THEN 0 ELSE (f[i] - 1) - 0 + 1
      BY <3>1, FS_Interval
    <3> QED BY <3>1, <3>2
  <2> QED BY <2>5, <2>6, <2>7, FS_Bijection
<1>6. ASSUME NEW n \in 1..Texts PROVE Llm!ItemAt(reply, n) \in 1..Texts
                                        /\ f[Llm!ItemAt(reply, n)] = n - 1
  <2>1. \E i \in 1..Texts : f[i] = n - 1
    <3>1. n - 1 \in 0..Texts - 1
      OBVIOUS
    <3> HIDE DEF f
    <3> QED BY <1>3, <3>1 DEF Surjection
  <2> HIDE DEF f
  <2>2. \E i \in DOMAIN reply : Cardinality(Llm!Earlier(reply, i)) = n - 1
    BY <1>1, <1>5, <2>1
  <2>3. Llm!ItemAt(reply, n) \in DOMAIN reply
        /\ Cardinality(Llm!Earlier(reply, Llm!ItemAt(reply, n))) = n - 1
    <3>1. \A S : Llm!Cardinality(S) = Cardinality(S)
      BY Zenon DEF Llm!Cardinality, Cardinality
    <3> QED BY <2>2, <3>1 DEF Llm!ItemAt
  <2> QED BY <1>1, <1>5, <2>3
<1> QED BY <1>1, <1>6 DEF Llm!Vectors

-----------------------------------------------------------------------------
\* One more post, within the budget.
LEMMA PostedFacts ==
  ASSUME NEW k \in SoundCalls, k.pc = "ready"
  PROVE  \E q \in [1..2 -> Nat] :
           Llm!Posted(k) = [k EXCEPT !.posts = q] /\ Within([k EXCEPT !.posts = q], 1)
<1> USE CallsAssumption
<1>1. k \in CallRecord /\ Within(k, 0)
  BY DEF SoundCalls
<1> DEFINE n == k.hop + 1
           q == [k.posts EXCEPT ![n] = k.posts[n] + 1]
<1>2. n \in 1..2 /\ k.posts \in [1..2 -> Nat] /\ k.posts[n] < MaxRetries + 2
  BY <1>1 DEF CallRecord, Within
<1>3. Llm!Posted(k) = [k EXCEPT !.posts = q]
  BY <1>1, <1>2 DEF Llm!Posted, CallRecord
<1>4. q \in [1..2 -> Nat]
  BY <1>2
<1>5. Within([k EXCEPT !.posts = q], 1)
  BY <1>1, <1>2 DEF Within, CallRecord
<1> QED BY <1>3, <1>4, <1>5

\* A call moves on with an answer, after its post.
LEMMA MovesOn ==
  ASSUME NEW k \in CallRecord, Within(k, 1), OneAttempt(k), NEW pc1 \in Pcs \ {"ready"}, NEW a \in Given,
         Fits([k EXCEPT !.pc = pc1, !.answer = a])
  PROVE  [k EXCEPT !.pc = pc1, !.answer = a] \in SoundCalls
BY DEF SoundCalls, CallRecord, Within, OneAttempt

\* After an error there is another attempt, if nothing has been handed on, or the plan.
LEMMA AfterErrorFacts ==
  ASSUME NEW k \in CallRecord, Within(k, 1), OneAttempt(k), NEW retryable \in BOOLEAN
  PROVE  Llm!AfterError(k, retryable) \in SoundCalls
<1> USE CallsAssumption
<1>1. CASE retryable /\ k.sent = 0 /\ k.attempt < Llm!RetryBudget(k.hop)
  <2> DEFINE m == [k EXCEPT !.pc = "ready", !.attempt = k.attempt + 1]
  <2>1. Llm!AfterError(k, retryable) = m
    BY <1>1 DEF Llm!AfterError
  <2>2. k.hop = 0 /\ k.attempt < MaxRetries /\ k.events = <<>> /\ k.sent = 0
    BY <1>1 DEF Llm!RetryBudget, CallRecord, Within, OneAttempt
  <2>3. m \in CallRecord
    <3>1. k.attempt + 1 \in Nat /\ "ready" \in Pcs
      BY DEF CallRecord, Pcs
    <3> QED BY <3>1 DEF CallRecord
  <2>4. Within(m, 0) /\ OneAttempt(m) /\ Fits(m) /\ m.sent = 0 /\ m.pc = "ready"
    BY <2>2 DEF CallRecord, Within, OneAttempt, InOrder, Fits
  <2> QED BY <2>1, <2>3, <2>4 DEF SoundCalls
<1>2. CASE ~(retryable /\ k.sent = 0 /\ k.attempt < Llm!RetryBudget(k.hop))
  <2> DEFINE m == [k EXCEPT !.pc = "planning"]
  <2>1. Llm!AfterError(k, retryable) = m
    BY <1>2 DEF Llm!AfterError
  <2>2. m \in CallRecord
    BY DEF CallRecord, Pcs
  <2>3. Within(m, 1) /\ OneAttempt(m) /\ Fits(m) /\ m.pc = "planning"
    BY DEF CallRecord, Within, OneAttempt, Fits
  <2> QED BY <2>1, <2>2, <2>3 DEF SoundCalls
<1> QED BY <1>1, <1>2

\* One more event at the end of a stream that is in order.
LEMMA HandedOn ==
  ASSUME NEW events \in Seq(Handed), InOrder(events), NEW e \in Handed,
         \A i \in DOMAIN events : Follows(events[i], e)
  PROVE  /\ Append(events, e) \in Seq(Handed) /\ InOrder(Append(events, e))
         /\ \A i \in DOMAIN Append(events, e) :
              Append(events, e)[i] = e \/ (i \in DOMAIN events /\ Append(events, e)[i] = events[i])
<1> DEFINE new == Append(events, e)
<1>1. /\ new \in Seq(Handed) /\ DOMAIN new = 1..Len(events) + 1 /\ DOMAIN events = 1..Len(events)
      /\ Len(events) \in Nat /\ new[Len(events) + 1] = e
      /\ \A i \in DOMAIN events : new[i] = events[i]
  OBVIOUS
<1> HIDE DEF new
<1>2. InOrder(new)
  BY <1>1 DEF InOrder
<1>3. \A i \in DOMAIN new : new[i] = e \/ (i \in DOMAIN events /\ new[i] = events[i])
  BY <1>1
<1> QED BY <1>1, <1>2, <1>3 DEF new

-----------------------------------------------------------------------------
\* A step that leaves a sound call behind keeps the invariant.
LEMMA OneCall ==
  ASSUME CallInv, NEW r \in Requests, NEW k \in {Llm!Idle} \cup SoundCalls,
         call' = [call EXCEPT ![r] = k], UNCHANGED <<config, cache>>
  PROVE  CallInv'
BY DEF CallInv

\* What is known of a call that is not idle.
LEMMA Known ==
  ASSUME CallInv, NEW r \in Requests, call[r].pc # "idle"
  PROVE  call[r] \in SoundCalls /\ call[r] \in CallRecord
<1>1. Llm!Idle.pc = "idle"
  BY DEF Llm!Idle
<1> QED BY <1>1 DEF CallInv, SoundCalls

\* A call starts with a post to make, or with an answer that was stored under its key.
LEMMA StartCallKeeps ==
  ASSUME CallInv, NEW r \in Requests, NEW o \in Llm!Ops, NEW s \in Llm!Purposes, Llm!StartCall(r, o, s)
  PROVE  CallInv'
<1> USE CallsAssumption
<1>1. PICK c \in Llm!DefaultChoices, readable \in BOOLEAN :
        call' = [call EXCEPT ![r] =
              IF o = "analyze" /\ Llm!Cached(s) /\ readable
              THEN [Llm!Fresh(o, s, c) EXCEPT !.pc = "done", !.answer = cache[Llm!CacheKey(s)].schema]
              ELSE Llm!Fresh(o, s, c)]
  BY DEF Llm!StartCall
<1>2. c \in Configs
  BY DEF Llm!DefaultChoices, Llm!Existing
<1> DEFINE k == Llm!Fresh(o, s, c)
<1>3. /\ k \in CallRecord /\ k.pc = "ready" /\ k.purpose = s /\ k.hop = 0 /\ k.attempt = 0 /\ k.sent = 0
      /\ k.events = <<>> /\ k.cfg = c /\ k.first = c /\ k.posts = <<0, 0>> /\ k.op = o
  <2>1. <<0, 0>> \in [1..2 -> Nat] /\ <<>> \in Seq(Handed) /\ Absent \in Given /\ "ready" \in Pcs
    BY DEF Given, Pcs
  <2> QED BY <1>2, <2>1 DEF Llm!Fresh, CallRecord
<1> HIDE DEF k
<1>4. Within(k, 0) /\ Within(k, 1) /\ OneAttempt(k) /\ Fits(k)
  BY <1>3 DEF Within, OneAttempt, InOrder, Fits
<1>5. k \in SoundCalls
  BY <1>3, <1>4 DEF SoundCalls
<1>6. CASE o = "analyze" /\ Llm!Cached(s) /\ readable
  <2> DEFINE a == cache[Llm!CacheKey(s)].schema
  <2>1. a \in Llm!CacheKey(s) /\ a \in Given
    <3>1. Llm!CacheKey(s) \in Llm!Keys /\ Llm!CacheKey(s) \subseteq Llm!Purposes
      BY DEF Llm!Keys, Llm!CacheKey
    <3> QED BY <1>6, <3>1 DEF CallInv, Llm!Cached, Given
  <2> HIDE DEF a
  <2>2. [k EXCEPT !.pc = "done", !.answer = a] \in SoundCalls
    <3>1. Fits([k EXCEPT !.pc = "done", !.answer = a])
      BY <1>3, <1>6, <2>1 DEF Fits, CallRecord
    <3>2. "done" \in Pcs \ {"ready"}
      BY DEF Pcs
    <3> QED BY <1>3, <1>4, <2>1, <3>1, <3>2, MovesOn
  <2>3. call' = [call EXCEPT ![r] = [k EXCEPT !.pc = "done", !.answer = a]]
    BY <1>1, <1>6 DEF k, a
  <2> QED BY <2>2, <2>3, OneCall DEF Llm!StartCall
<1>7. CASE ~(o = "analyze" /\ Llm!Cached(s) /\ readable)
  <2>1. call' = [call EXCEPT ![r] = k]
    BY <1>1, <1>7 DEF k
  <2> QED BY <1>5, <2>1, OneCall DEF Llm!StartCall
<1> QED BY <1>6, <1>7

\* A post that is answered, or is not.
LEMMA PostKeeps ==
  ASSUME CallInv, NEW r \in Requests, NEW b \in BOOLEAN,
         \/ Llm!PostFails(r, b) \/ Llm!AnalysisAnswers(r, b) \/ Llm!ChatAnswers(r) \/ Llm!OpenStream(r)
         \/ \E reply \in Llm!Replies : Llm!Honest(reply) /\ Llm!EmbedAnswers(r, reply)
  PROVE  CallInv'
<1> DEFINE k == call[r]
           p == Llm!Posted(k)
<1>1. k.pc = "ready" /\ UNCHANGED <<config, cache>>
  BY DEF Llm!PostFails, Llm!AnalysisAnswers, Llm!ChatAnswers, Llm!OpenStream, Llm!EmbedAnswers
<1>2. k \in SoundCalls /\ k \in CallRecord
  BY <1>1, Known
<1>3. /\ p \in CallRecord /\ Within(p, 1) /\ OneAttempt(p)
      /\ p.op = k.op /\ p.purpose = k.purpose /\ p.answer = k.answer /\ p.pc = "ready"
  <2> HIDE DEF k, p
  <2>1. PICK q \in [1..2 -> Nat] : p = [k EXCEPT !.posts = q] /\ Within([k EXCEPT !.posts = q], 1)
    BY <1>1, <1>2, PostedFacts DEF p
  <2>2. p \in CallRecord /\ p.op = k.op /\ p.purpose = k.purpose /\ p.answer = k.answer /\ p.pc = "ready"
    BY <1>1, <1>2, <2>1 DEF CallRecord
  <2>3. OneAttempt(p)
    BY <1>2, <2>1 DEF SoundCalls, CallRecord, OneAttempt
  <2> QED BY <2>1, <2>2, <2>3
<1>4. {"done", "storing", "failed", "streaming"} \subseteq Pcs \ {"ready"}
  BY DEF Pcs
<1>5. ASSUME NEW pc1 \in {"done", "storing", "failed", "streaming"}, NEW a \in Given,
             call' = [call EXCEPT ![r] = [p EXCEPT !.pc = pc1, !.answer = a]],
             Fits([p EXCEPT !.pc = pc1, !.answer = a])
      PROVE  CallInv'
  <2> HIDE DEF p
  <2>1. [p EXCEPT !.pc = pc1, !.answer = a] \in SoundCalls
    BY <1>3, <1>4, <1>5, MovesOn
  <2> QED BY <1>1, <1>5, <2>1, OneCall
<1>6. ASSUME NEW retryable \in BOOLEAN, call' = [call EXCEPT ![r] = Llm!AfterError(p, retryable)]
      PROVE  CallInv'
  <2> HIDE DEF p
  <2>1. Llm!AfterError(p, retryable) \in SoundCalls
    BY <1>3, AfterErrorFacts
  <2> QED BY <1>1, <1>6, <2>1, OneCall
<1>7. CASE Llm!PostFails(r, b)
  BY <1>6, <1>7 DEF Llm!PostFails
<1>8. CASE Llm!AnalysisAnswers(r, b)
  <2> DEFINE pc1 == IF b THEN "storing" ELSE "failed"
             a == IF b THEN k.purpose ELSE Absent
  <2>1. k.op = "analyze" /\ call' = [call EXCEPT ![r] = [p EXCEPT !.pc = pc1, !.answer = a]]
    BY <1>8 DEF Llm!AnalysisAnswers
  <2>2. a \in Given
    BY <1>2 DEF CallRecord, Given
  <2>3. Fits([p EXCEPT !.pc = pc1, !.answer = a])
    <3> HIDE DEF p, k
    <3> QED BY <1>3, <2>1 DEF Fits, CallRecord
  <2> HIDE DEF p, k
  <2> QED BY <1>5, <2>1, <2>2, <2>3
<1>9. CASE Llm!ChatAnswers(r) \/ Llm!OpenStream(r)
  <2> DEFINE pc1 == IF k.op = "chat" THEN "done" ELSE "streaming"
  <2>1. /\ k.op \in {"chat", "stream"} /\ (Llm!ChatAnswers(r) => k.op = "chat")
        /\ (Llm!OpenStream(r) => k.op = "stream")
    BY <1>9 DEF Llm!ChatAnswers, Llm!OpenStream
  <2>2. call' = [call EXCEPT ![r] = [p EXCEPT !.pc = pc1]]
    BY <1>9, <2>1 DEF Llm!ChatAnswers, Llm!OpenStream
  <2> HIDE DEF p, k
  <2>3. [p EXCEPT !.pc = pc1] = [p EXCEPT !.pc = pc1, !.answer = k.answer] /\ k.answer \in Given
    BY <1>2, <1>3 DEF CallRecord
  <2>4. Fits([p EXCEPT !.pc = pc1, !.answer = k.answer])
    BY <1>3, <2>1 DEF Fits, CallRecord
  <2> QED BY <1>5, <2>2, <2>3, <2>4
<1>10. CASE \E reply \in Llm!Replies : Llm!Honest(reply) /\ Llm!EmbedAnswers(r, reply)
  <2>1. PICK reply \in Llm!Replies : Llm!Honest(reply) /\ Llm!EmbedAnswers(r, reply)
    BY <1>10
  <2>2. CASE Llm!Acceptable(reply)
    <3> DEFINE a == Llm!Vectors(reply)
    <3>1. a \in Given /\ \A i \in 1..Texts : a[i] = i - 1
      BY <2>1, <2>2, VectorsFit DEF Given
    <3>2. k.op = "embed" /\ call' = [call EXCEPT ![r] = [p EXCEPT !.pc = "done", !.answer = a]]
      BY <2>1, <2>2 DEF Llm!EmbedAnswers
    <3> HIDE DEF a, p, k
    <3>3. Fits([p EXCEPT !.pc = "done", !.answer = a])
      BY <1>3, <3>1, <3>2 DEF Fits, CallRecord
    <3> QED BY <1>5, <3>1, <3>2, <3>3
  <2>3. CASE ~Llm!Acceptable(reply)
    BY <1>6, <2>1, <2>3 DEF Llm!EmbedAnswers
  <2> QED BY <2>2, <2>3
<1> QED BY <1>7, <1>8, <1>9, <1>10

\* The failover goes to another provider, once.
LEMMA PlanFailoverKeeps ==
  ASSUME CallInv, NEW r \in Requests, Llm!PlanFailover(r) PROVE CallInv'
<1> USE CallsAssumption
<1> DEFINE k == call[r]
<1>1. k.pc = "planning" /\ UNCHANGED <<config, cache>>
  BY DEF Llm!PlanFailover
<1>2. k \in SoundCalls /\ k \in CallRecord
  BY <1>1, Known
<1>3. CASE Llm!Backups(k) = {}
  <2>1. call' = [call EXCEPT ![r] = [k EXCEPT !.pc = "failed"]]
    BY <1>3 DEF Llm!PlanFailover
  <2> HIDE DEF k
  <2>2. [k EXCEPT !.pc = "failed"] \in SoundCalls
    BY <1>1, <1>2 DEF SoundCalls, CallRecord, Pcs, Within, OneAttempt, Fits
  <2> QED BY <1>1, <2>1, <2>2, OneCall
<1>4. CASE Llm!Backups(k) # {}
  <2>1. PICK c \in Llm!Backups(k) : call' = [call EXCEPT ![r] =
          [k EXCEPT !.pc = "ready", !.cfg = c, !.hop = 1, !.attempt = 0, !.sent = 0,
             !.events = IF k.op = "stream" THEN Append(k.events, [type |-> "failover"]) ELSE k.events]]
    BY <1>4 DEF Llm!PlanFailover
  <2>2. k.hop = 0 /\ c \in Configs /\ c # k.cfg
    <3>1. ~(k.hop >= 1)
      BY <1>4 DEF Llm!Backups
    <3>2. c \in Llm!BackupChoices(k.cfg)
      BY <2>1, <3>1 DEF Llm!Backups
    <3> HIDE DEF k
    <3>3. k.hop = 0
      BY <1>2, <3>1 DEF CallRecord
    <3>4. c \in Configs /\ c # k.cfg
      BY <3>2 DEF Llm!BackupChoices, Llm!Existing
    <3> QED BY <3>3, <3>4
  <2> DEFINE es == IF k.op = "stream" THEN Append(k.events, [type |-> "failover"]) ELSE k.events
             m == [k EXCEPT !.pc = "ready", !.cfg = c, !.hop = 1, !.attempt = 0, !.sent = 0, !.events = es]
  <2>3. call' = [call EXCEPT ![r] = m]
    BY <2>1
  <2> HIDE DEF k
  <2>4. k.events \in Seq(Handed) /\ OneAttempt(k) /\ Within(k, 1) /\ Fits(k)
    BY <1>1, <1>2 DEF SoundCalls, CallRecord
  <2>5. /\ es \in Seq(Handed) /\ InOrder(es)
        /\ \A i \in DOMAIN es : es[i].type = "chunk" => es[i].hop = 0
    <3>1. CASE k.op = "stream"
      <4> DEFINE e == [type |-> "failover"]
      <4>1. e \in Handed /\ e.type = "failover"
        BY DEF Handed
      <4> HIDE DEF e
      <4>2. \A i \in DOMAIN k.events : Follows(k.events[i], e)
        BY <2>2, <2>4, <4>1 DEF OneAttempt, Follows
      <4>3. es = Append(k.events, e)
        BY <3>1 DEF e
      <4> HIDE DEF es
      <4>4. /\ es \in Seq(Handed) /\ InOrder(es)
            /\ \A i \in DOMAIN es : es[i] = e \/ (i \in DOMAIN k.events /\ es[i] = k.events[i])
        BY <2>4, <4>1, <4>2, <4>3, HandedOn DEF OneAttempt
      <4> QED BY <2>2, <2>4, <4>1, <4>4 DEF OneAttempt
    <3>2. CASE k.op # "stream"
      BY <2>2, <2>4, <3>2 DEF OneAttempt
    <3> QED BY <3>1, <3>2
  <2> HIDE DEF es
  <2>6. m \in CallRecord
    <3>1. "ready" \in Pcs /\ 0 \in Nat /\ 0 \in 0..MaxChunks
      BY DEF Pcs
    <3> QED BY <1>2, <2>2, <2>5, <3>1 DEF CallRecord
  <2>7. Within(m, 0)
    BY <1>2, <2>2, <2>4 DEF Within, CallRecord
  <2>8. OneAttempt(m)
    BY <1>2, <2>5 DEF OneAttempt, CallRecord
  <2>9. Fits(m) /\ m.pc = "ready" /\ m.sent = 0
    BY <1>2 DEF Fits, CallRecord
  <2>10. m \in SoundCalls
    BY <2>6, <2>7, <2>8, <2>9 DEF SoundCalls
  <2> HIDE DEF m
  <2> QED BY <1>1, <2>3, <2>10, OneCall
<1> QED BY <1>3, <1>4

\* What is stored under a key is the answer to a call with that key.
LEMMA StoreAnswerKeeps ==
  ASSUME CallInv, NEW r \in Requests, NEW written \in BOOLEAN, Llm!StoreAnswer(r, written)
  PROVE  CallInv'
<1> DEFINE k == call[r]
<1>1. k.pc = "storing" /\ config' = config /\ call' = [call EXCEPT ![r] = [k EXCEPT !.pc = "done"]]
  BY DEF Llm!StoreAnswer
<1>2. k \in SoundCalls /\ k \in CallRecord
  BY <1>1, Known
<1>3. /\ cache' \in [Llm!Keys -> {Absent} \cup [schema : Llm!Purposes, model : Configs]]
      /\ \A s \in Llm!Keys : cache'[s] = Absent \/ cache'[s].schema \in s
  <2>1. k.answer = k.purpose /\ k.purpose \in Llm!Purposes /\ k.first \in Configs
    BY <1>1, <1>2 DEF SoundCalls, CallRecord, Fits
  <2>2. \/ cache' = cache
        \/ cache' = [cache EXCEPT ![Llm!CacheKey(k.purpose)] =
                        [schema |-> k.answer, model |-> k.first]]
    BY DEF Llm!StoreAnswer
  <2>3. k.purpose \in Llm!CacheKey(k.purpose)
    BY <2>1 DEF Llm!CacheKey
  <2> HIDE DEF k
  <2> QED BY <2>1, <2>2, <2>3 DEF CallInv
<1>4. [k EXCEPT !.pc = "done"] \in SoundCalls
  <2> HIDE DEF k
  <2> QED BY <1>1, <1>2 DEF SoundCalls, CallRecord, Pcs, Within, OneAttempt, Fits
<1> HIDE DEF k
<1> QED BY <1>1, <1>3, <1>4 DEF CallInv

\* A chunk is handed on after chunks of the same attempt, or of the first provider.
LEMMA ChunkKeeps == ASSUME CallInv, NEW r \in Requests, Llm!Chunk(r) PROVE CallInv'
<1> USE CallsAssumption
<1> DEFINE k == call[r]
           e == [type |-> "chunk", hop |-> k.hop, attempt |-> k.attempt]
           m == [k EXCEPT !.sent = k.sent + 1, !.events = Append(k.events, e)]
<1>1. /\ k.pc = "streaming" /\ k.sent < MaxChunks /\ UNCHANGED <<config, cache>>
      /\ call' = [call EXCEPT ![r] = m]
  BY DEF Llm!Chunk, CallInv
<1>2. k \in SoundCalls /\ k \in CallRecord
  BY <1>1, Known
<1>3. Within(k, 1) /\ OneAttempt(k) /\ Fits(k) /\ k.events \in Seq(Handed) /\ k.hop \in {0, 1}
  BY <1>1, <1>2 DEF SoundCalls, CallRecord
<1> HIDE DEF k
<1>4. e \in Handed /\ e.type = "chunk" /\ e.hop = k.hop /\ e.attempt = k.attempt
  BY <1>2 DEF Handed, CallRecord
<1> HIDE DEF e
<1>5. \A i \in DOMAIN k.events : k.events[i] \in Handed
  BY <1>3
<1>6. \A i \in DOMAIN k.events : Follows(k.events[i], e)
  <2>1. CASE k.hop = 0
    BY <1>3, <1>4, <2>1 DEF Follows, OneAttempt
  <2>2. CASE k.hop = 1
    BY <1>3, <1>4, <2>2 DEF Follows, OneAttempt, Within
  <2> QED BY <1>3, <2>1, <2>2
<1> DEFINE es == Append(k.events, e)
<1>7. /\ es \in Seq(Handed) /\ InOrder(es)
      /\ \A i \in DOMAIN es : es[i] = e \/ (i \in DOMAIN k.events /\ es[i] = k.events[i])
  BY <1>3, <1>4, <1>6, HandedOn DEF OneAttempt
<1> HIDE DEF es
<1>8. m = [k EXCEPT !.sent = k.sent + 1, !.events = es]
  BY DEF es
<1>9. k.sent + 1 \in 0..MaxChunks /\ k.sent + 1 # 0
  BY <1>1, <1>2 DEF CallRecord
<1> HIDE DEF m
<1>10. m \in CallRecord /\ m.pc = "streaming" /\ m.op = k.op
  BY <1>1, <1>2, <1>7, <1>8, <1>9 DEF CallRecord
<1>11. Within(m, 1)
  BY <1>2, <1>3, <1>8 DEF Within, CallRecord
<1>12. OneAttempt(m)
  <2>1. m.events = es /\ m.sent # 0 /\ m.hop = k.hop /\ m.attempt = k.attempt
    BY <1>2, <1>8, <1>9 DEF CallRecord
  <2>2. CASE k.hop = 0
    BY <1>3, <1>4, <1>7, <2>1, <2>2 DEF OneAttempt
  <2>3. CASE k.hop = 1
    BY <1>3, <1>4, <1>7, <2>1, <2>3 DEF OneAttempt, Within
  <2> QED BY <1>3, <2>2, <2>3
<1>13. Fits(m)
  BY <1>1, <1>3, <1>10 DEF Fits
<1> QED BY <1>1, <1>10, <1>11, <1>12, <1>13, OneCall DEF SoundCalls

\* A stream breaks off or ends, and a result is handed to the caller.
LEMMA EndKeeps ==
  ASSUME CallInv, NEW r \in Requests, Llm!StreamBreaks(r) \/ Llm!StreamEnds(r) \/ Llm!Return(r)
  PROVE  CallInv'
<1> DEFINE k == call[r]
<1>1. CASE Llm!StreamBreaks(r)
  <2>1. k.pc = "streaming" /\ call' = [call EXCEPT ![r] = Llm!AfterError(k, TRUE)]
        /\ UNCHANGED <<config, cache>>
    BY <1>1 DEF Llm!StreamBreaks
  <2>2. k \in CallRecord /\ Within(k, 1) /\ OneAttempt(k)
    BY <2>1, Known DEF SoundCalls
  <2> HIDE DEF k
  <2>3. Llm!AfterError(k, TRUE) \in SoundCalls
    BY <2>2, AfterErrorFacts
  <2> QED BY <2>1, <2>3, OneCall
<1>2. CASE Llm!StreamEnds(r)
  <2>1. k.pc = "streaming" /\ call' = [call EXCEPT ![r] = [k EXCEPT !.pc = "done"]]
        /\ UNCHANGED <<config, cache>>
    BY <1>2 DEF Llm!StreamEnds
  <2>2. k \in SoundCalls
    BY <2>1, Known
  <2> HIDE DEF k
  <2>3. [k EXCEPT !.pc = "done"] \in SoundCalls
    BY <2>1, <2>2 DEF SoundCalls, CallRecord, Pcs, Within, OneAttempt, Fits
  <2> QED BY <2>1, <2>3, OneCall
<1>3. CASE Llm!Return(r)
  BY <1>3, OneCall DEF Llm!Return
<1> QED BY <1>1, <1>2, <1>3

-----------------------------------------------------------------------------
\* Every step of the calls, and every edit of the configurations, preserves the invariant.
LEMMA CallNextInv == CallInv /\ [Llm!Next]_llmVars => CallInv'
<1> SUFFICES ASSUME CallInv, [Llm!Next]_llmVars PROVE CallInv'
  OBVIOUS
<1>1. CASE Llm!ConfigsChange
  BY <1>1 DEF Llm!ConfigsChange, CallInv
<1>2. ASSUME NEW r \in Requests, Llm!CallStep(r) PROVE CallInv'
  BY <1>2, PostKeeps, StoreAnswerKeeps, PlanFailoverKeeps, ChunkKeeps, EndKeeps DEF Llm!CallStep
<1>3. ASSUME NEW r \in Requests, Llm!Return(r) PROVE CallInv'
  BY <1>3, EndKeeps
<1>4. ASSUME NEW r \in Requests, NEW o \in Llm!Ops, NEW s \in Llm!Purposes, Llm!StartCall(r, o, s) PROVE CallInv'
  BY <1>4, StartCallKeeps
<1>5. CASE UNCHANGED llmVars
  BY <1>5 DEF llmVars, CallInv
<1> QED BY <1>1, <1>2, <1>3, <1>4, <1>5 DEF Llm!Next

\* No call is under way and nothing is stored.
LEMMA CallInitInv == Llm!Init => CallInv
BY DEF Llm!Init, CallInv

\* The invariant contains what is promised of the calls.
LEMMA CallInvSuffices == CallInv => Llm!TypeOK /\ Llm!CallsAreSound
<1> SUFFICES ASSUME CallInv PROVE Llm!TypeOK /\ Llm!CallsAreSound
  OBVIOUS
<1> USE CallsAssumption
<1>1. ASSUME NEW r \in Llm!Calls PROVE call[r] \in SoundCalls /\ call[r] \in CallRecord
  BY Known DEF Llm!Calls
<1>2. Llm!TypeOK
  <2>1. config \in [Configs -> Llm!Rows \cup {Absent}]
    BY DEF CallInv, Llm!Tables
  <2>2. \A k \in Llm!Keys : cache[k] = Absent \/ cache[k].schema \in k
    BY DEF CallInv
  <2> QED BY <1>1, <2>1, <2>2 DEF CallRecord, Llm!TypeOK
<1>3. Llm!CallsBounded
  BY <1>1 DEF SoundCalls, CallRecord, Within, Llm!CallsBounded
<1>4. Llm!NoRestartedStream
  BY <1>1 DEF SoundCalls, OneAttempt, InOrder, Follows, Llm!NoRestartedStream
<1>5. Llm!AnswersFit
  <2>1. \A p \in Llm!Purposes : p \in Llm!CacheKey(p)
    BY DEF Llm!CacheKey
  <2>2. \A r \in Llm!Calls : call[r].purpose \in Llm!Purposes /\ Fits(call[r])
    BY <1>1 DEF SoundCalls, CallRecord
  <2> QED BY <2>1, <2>2 DEF Fits, Llm!AnswersFit
<1> QED BY <1>2, <1>3, <1>4, <1>5 DEF Llm!CallsAreSound

\* Whatever the providers answer and however the configurations are edited meanwhile, a
\* call makes at most its retries and one attempt on one other provider, no stream is
\* started over once part of it was handed on, and an answer is one to what was asked,
\* or, if it was stored, to a purpose that shares the key of what was asked.
THEOREM CallsTheorem == OneSpec => []CallsAreSound
<1>1. OneInit => CallInv
  BY CallInitInv DEF OneInit
<1>2. CallInv /\ [OneNext]_allVars => CallInv'
  BY CallNextInv DEF OneNext, allVars, llmVars
<1>3. CallInv => CallsAreSound
  BY CallInvSuffices DEF CallsAreSound
<1> QED BY <1>1, <1>2, <1>3, PTL DEF OneSpec

-----------------------------------------------------------------------------
(***************************************************************************)
(* The shared HTTP client while workers start, ask for it and are stopped, *)
(* for every set of workers and number of clients.                         *)
(***************************************************************************)
MainSteps == {"down", "refused", "up", "stopping", "closed", "done"}
WorkerSteps == {"off", "loop", "waiting", "cycle", "look", "locked", "return", "using"}

\* The pool holds every client that is open.
PoolInv == Shutdown!TypeOK /\ Shutdown!NoClientLost

-----------------------------------------------------------------------------
\* Before the start there is no client.
LEMMA PoolInitInv == Shutdown!Init => PoolInv
<1> SUFFICES ASSUME Shutdown!Init PROVE PoolInv
  OBVIOUS
<1>1. process \in {"web", "pipeline"} /\ inWeb \in BOOLEAN /\ final \in BOOLEAN
  BY Zenon DEF Shutdown!Init
<1>2. /\ main \in MainSteps /\ told \subseteq Shutdown!Workers
      /\ workerPc \in [Shutdown!Workers -> WorkerSteps]
      /\ created \in 0..MaxClients /\ client \in 1..created \cup {None} /\ open \subseteq 1..created
      /\ got \in [Shutdown!Workers -> 1..created \cup {None}]
  BY PoolAssumption DEF Shutdown!Init, MainSteps, WorkerSteps
<1>3. Shutdown!NoClientLost
  BY DEF Shutdown!Init, Shutdown!NoClientLost
<1> QED BY <1>1, <1>2, <1>3 DEF PoolInv, Shutdown!TypeOK, MainSteps, WorkerSteps

\* A worker's step that leaves the pool alone keeps the types; it only fetches what the pool holds.
LEMMA QuietWorker ==
    ASSUME PoolInv, NEW w \in Shutdown!Workers, NEW step \in WorkerSteps,
           workerPc' = [workerPc EXCEPT ![w] = step],
           got' = got \/ (\E c \in {client, None} : got' = [got EXCEPT ![w] = c]),
           UNCHANGED <<Shutdown!setup, main, told, Shutdown!pool>>
    PROVE  PoolInv' /\ open' = open
<1> USE DEF PoolInv, Shutdown!TypeOK, Shutdown!setup, Shutdown!pool
<1>1. workerPc' \in [Shutdown!Workers -> WorkerSteps]
  BY DEF WorkerSteps
<1>2. got' \in [Shutdown!Workers -> 1..created' \cup {None}]
  <2>1. CASE got' = got
    BY <2>1
  <2>2. CASE \E c \in {client, None} : got' = [got EXCEPT ![w] = c]
    BY <2>2
  <2> QED BY <2>1, <2>2
<1> QED BY <1>1, <1>2 DEF Shutdown!NoClientLost, WorkerSteps

\* Under the lock a client is created only when the pool has none and is not shut down.
LEMMA CreateStep ==
    ASSUME PoolInv, NEW w \in Shutdown!Workers, Shutdown!Create(w)
    PROVE  PoolInv' /\ (final => open' \subseteq open)
<1> USE DEF PoolInv, Shutdown!TypeOK, Shutdown!setup, Shutdown!pool
<1>1. CASE Shutdown!Refused
  <2>1. workerPc' = [workerPc EXCEPT ![w] = "waiting"] /\ got' = [got EXCEPT ![w] = None]
        /\ UNCHANGED <<Shutdown!setup, main, told, Shutdown!pool>>
    BY <1>1 DEF Shutdown!Create, Shutdown!CycleEnds, Shutdown!Goto
  <2>2. "waiting" \in WorkerSteps
    BY DEF WorkerSteps
  <2> QED BY ONLY PoolInv, <2>1, <2>2, w \in Shutdown!Workers, QuietWorker
<1>2. CASE ~Shutdown!Refused /\ ~Shutdown!Missing
  <2>1. workerPc' = [workerPc EXCEPT ![w] = "return"] /\ got' = got
        /\ UNCHANGED <<Shutdown!setup, main, told, Shutdown!pool>>
    BY <1>2 DEF Shutdown!Create, Shutdown!Goto
  <2>2. "return" \in WorkerSteps
    BY DEF WorkerSteps
  <2> QED BY ONLY PoolInv, <2>1, <2>2, w \in Shutdown!Workers, QuietWorker
<1>3. CASE ~Shutdown!Refused /\ Shutdown!Missing
  <2>1. /\ client = None /\ ~final /\ created < MaxClients
        /\ client' = created + 1 /\ created' = created + 1 /\ open' = open \cup {created + 1}
        /\ workerPc' = [workerPc EXCEPT ![w] = "return"]
        /\ UNCHANGED <<Shutdown!setup, main, told, got, final>>
    BY <1>3 DEF Shutdown!Create, Shutdown!Goto, Shutdown!Refused, Shutdown!Missing
  <2>2. open = {}
    BY <2>1, PoolAssumption DEF Shutdown!NoClientLost
  <2>3. /\ created' \in 0..MaxClients /\ client' \in 1..created' \cup {None}
        /\ open' \subseteq 1..created' /\ Shutdown!NoClientLost'
    BY <2>1, <2>2, PoolAssumption DEF Shutdown!NoClientLost
  <2>4. workerPc' \in [Shutdown!Workers -> WorkerSteps]
    BY <2>1 DEF WorkerSteps
  <2>5. got' \in [Shutdown!Workers -> 1..created' \cup {None}]
    BY <2>1, PoolAssumption
  <2> QED BY <2>1, <2>3, <2>4, <2>5 DEF WorkerSteps
<1> QED BY <1>1, <1>2, <1>3

\* Whatever a worker does, the pool holds the client that is open.
LEMMA WorkerKeeps ==
    ASSUME PoolInv, NEW w \in Shutdown!Workers, Shutdown!WorkerStep(w)
    PROVE  PoolInv' /\ (final => open' \subseteq open)
<1>1. CASE Shutdown!Loop(w)
  <2>1. \E step \in WorkerSteps : workerPc' = [workerPc EXCEPT ![w] = step]
    BY <1>1 DEF Shutdown!Loop, Shutdown!Goto, WorkerSteps
  <2>2. got' = got /\ UNCHANGED <<Shutdown!setup, main, told, Shutdown!pool>>
    BY <1>1 DEF Shutdown!Loop
  <2> QED BY <2>1, <2>2, QuietWorker
<1>2. CASE Shutdown!Wake(w)
  <2>1. "loop" \in WorkerSteps /\ workerPc' = [workerPc EXCEPT ![w] = "loop"] /\ got' = got
        /\ UNCHANGED <<Shutdown!setup, main, told, Shutdown!pool>>
    BY <1>2 DEF Shutdown!Wake, Shutdown!Goto, WorkerSteps
  <2> QED BY <2>1, QuietWorker
<1>3. CASE Shutdown!NoWork(w) \/ Shutdown!Request(w)
  <2>1. "waiting" \in WorkerSteps /\ workerPc' = [workerPc EXCEPT ![w] = "waiting"]
        /\ got' = [got EXCEPT ![w] = None]
        /\ UNCHANGED <<Shutdown!setup, main, told, Shutdown!pool>>
    BY <1>3 DEF Shutdown!NoWork, Shutdown!Request, Shutdown!CycleEnds, Shutdown!Goto, WorkerSteps
  <2> QED BY <2>1, QuietWorker
<1>4. CASE Shutdown!EnsureNotShutdown(w)
  <2>1. UNCHANGED <<Shutdown!setup, main, told, Shutdown!pool>>
    BY <1>4 DEF Shutdown!EnsureNotShutdown
  <2>2. \/ workerPc' = [workerPc EXCEPT ![w] = "waiting"] /\ got' = [got EXCEPT ![w] = None]
        \/ workerPc' = [workerPc EXCEPT ![w] = "look"] /\ got' = got
    BY <1>4 DEF Shutdown!EnsureNotShutdown, Shutdown!CycleEnds, Shutdown!Goto
  <2>3. "waiting" \in WorkerSteps /\ "look" \in WorkerSteps
    BY DEF WorkerSteps
  <2> QED BY <2>1, <2>2, <2>3, QuietWorker
<1>5. CASE Shutdown!Look(w)
  <2>1. \E step \in WorkerSteps : workerPc' = [workerPc EXCEPT ![w] = step]
    BY <1>5 DEF Shutdown!Look, Shutdown!Goto, WorkerSteps
  <2>2. got' = got /\ UNCHANGED <<Shutdown!setup, main, told, Shutdown!pool>>
    BY <1>5 DEF Shutdown!Look
  <2> QED BY <2>1, <2>2, QuietWorker
<1>6. CASE Shutdown!Create(w)
  BY <1>6, CreateStep
<1>7. CASE Shutdown!Return(w)
  <2>1. UNCHANGED <<Shutdown!setup, main, told, Shutdown!pool>>
    BY <1>7 DEF Shutdown!Return
  <2>2. \/ workerPc' = [workerPc EXCEPT ![w] = "waiting"] /\ got' = [got EXCEPT ![w] = None]
        \/ workerPc' = [workerPc EXCEPT ![w] = "using"] /\ got' = [got EXCEPT ![w] = client]
    BY <1>7 DEF Shutdown!Return, Shutdown!CycleEnds, Shutdown!Goto
  <2>3. "waiting" \in WorkerSteps /\ "using" \in WorkerSteps
    BY DEF WorkerSteps
  <2> QED BY <2>1, <2>2, <2>3, QuietWorker
<1> QED BY <1>1, <1>2, <1>3, <1>4, <1>5, <1>6, <1>7 DEF Shutdown!WorkerStep

\* What the main thread does.
MainStep ==
    \/ Shutdown!Start \/ Shutdown!CloseClients \/ Shutdown!EnterTerminalState
    \/ \E w \in Shutdown!Workers : Shutdown!StopWorker(w)

\* The main thread starts the workers, tells them to stop, closes the client, shuts the pool.
LEMMA MainKeeps ==
    ASSUME PoolInv, MainStep
    PROVE  PoolInv' /\ open' \subseteq open
<1> USE DEF PoolInv, Shutdown!TypeOK, Shutdown!setup, Shutdown!pool, Shutdown!NoClientLost
<1>1. CASE Shutdown!Start
  <2>1. workerPc' \in [Shutdown!Workers -> WorkerSteps] /\ main' \in MainSteps
    BY <1>1 DEF Shutdown!Start, WorkerSteps, MainSteps
  <2> QED BY <1>1, <2>1 DEF Shutdown!Start, WorkerSteps, MainSteps
<1>2. CASE Shutdown!CloseClients
  <2>1. client' = None /\ open' = open \ {client}
        /\ UNCHANGED <<Shutdown!setup, told, workerPc, got, final, created>>
    BY <1>2 DEF Shutdown!CloseClients, Shutdown!Close
  <2>2. main' \in MainSteps
    BY <1>2 DEF Shutdown!CloseClients, MainSteps
  <2> QED BY <2>1, <2>2 DEF MainSteps
<1>3. CASE Shutdown!EnterTerminalState
  <2>1. final' = TRUE /\ main' = "done"
        /\ UNCHANGED <<Shutdown!setup, told, workerPc, got, client, open, created>>
    BY <1>3 DEF Shutdown!EnterTerminalState
  <2> QED BY <2>1
<1>4. CASE \E w \in Shutdown!Workers : Shutdown!StopWorker(w)
  <2>1. PICK w \in Shutdown!Workers : Shutdown!StopWorker(w)
    BY <1>4
  <2>2. told' = told \cup {w} /\ main' = "stopping"
        /\ UNCHANGED <<Shutdown!setup, workerPc, got, Shutdown!pool>>
    BY <2>1 DEF Shutdown!StopWorker
  <2> QED BY <2>2
<1> QED BY <1>1, <1>2, <1>3, <1>4 DEF MainStep

\* Every step keeps the invariant, and creates no client in a pool that is shut down.
LEMMA PoolNextInv ==
    PoolInv /\ [Shutdown!Next]_shutdownVars => PoolInv' /\ (final => open' \subseteq open)
<1> SUFFICES ASSUME PoolInv, [Shutdown!Next]_shutdownVars PROVE PoolInv' /\ (final => open' \subseteq open)
  OBVIOUS
<1>1. CASE Shutdown!Next
  <2>1. CASE \E w \in Shutdown!Workers : Shutdown!WorkerStep(w)
    BY <2>1, WorkerKeeps
  <2>2. CASE MainStep
    BY <2>2, MainKeeps
  <2> QED BY <1>1, <2>1, <2>2 DEF Shutdown!Next, MainStep
<1>2. CASE UNCHANGED shutdownVars
  BY <1>2 DEF shutdownVars, PoolInv, Shutdown!TypeOK, Shutdown!NoClientLost
<1> QED BY <1>1, <1>2

-----------------------------------------------------------------------------
\* However many threads ask for the client while it is created, closed and shut down,
\* an open client is the one the pool holds, and a pool that is shut down opens no
\* other (http_pool.py, the second look under the lock).
THEOREM PoolTheorem == OneSpec => PoolIsSound
<1>1. OneInit => PoolInv
  BY PoolInitInv DEF OneInit
<1>2. PoolInv /\ [OneNext]_allVars => PoolInv'
  BY PoolNextInv DEF OneNext, allVars
<1>3. PoolInv /\ [OneNext]_allVars => [active = "shutdown" => Shutdown!SoundStep]_shutdownVars
  BY PoolNextInv DEF OneNext, allVars, shutdownVars, Shutdown!SoundStep, PoolInv
<1> QED BY <1>1, <1>2, <1>3, PTL DEF OneSpec, PoolIsSound
=============================================================================
