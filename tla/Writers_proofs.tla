----------------------------- MODULE Writers_proofs -----------------------------
(***************************************************************************)
(* The instances of MCWriters, proved for every value of the constants     *)
(* they share with it: the due table of the ingest scheduler               *)
(* (IngestScheduler), the quota of the takeaway worker (Takeaways), the    *)
(* alerts a verdict calls for, in their number and their time              *)
(* (ImpactAlerts), the stories the refreshes store (NewsIngest), the       *)
(* results of overlapping analyses (NewsAnalysis), and the backfill of     *)
(* link hashes beside the ingestion (HashBackfill).                        *)
(***************************************************************************)
EXTENDS MCWriters, FiniteSetTheorems, FunctionTheorems, TLAPS

-----------------------------------------------------------------------------
(***************************************************************************)
(* The scheduler, for every set of sources, cadence and backoff.           *)
(***************************************************************************)
Longest(s) == Cadence[s] * MaxMultiplier

\* The types, in two parts.
TableTypes ==
    /\ due \in [Feeds -> Nat] /\ \A s \in Feeds : due[s] <= Longest(s)
    /\ fails \in [Feeds -> 0..MaxStreak] /\ empties \in [Feeds -> 0..MaxStreak]
LoopTypes ==
    /\ fetching \subseteq Feeds /\ taken \in 0..Duration /\ aborted \in BOOLEAN
    /\ stored \in [Feeds -> Scheduler!Outcomes \cup {"none"}]
    /\ lease \in 0..Cooldown /\ tried \in Nat /\ answering \in BOOLEAN
RowTypes == success \in 0..MaxAge /\ failuresInARow \in 0..4

\* What is fetched is due, and only that has outcomes of the cycle; without a cycle no time
\* is taken, and only then one has raised.
CyclesAreDue ==
    /\ \A s \in fetching : due[s] = 0
    /\ \A s \in Feeds \ fetching : stored[s] = "none"
    /\ fetching = {} => taken = 0
    /\ aborted => fetching = {}

\* The time from one fetch of the watched source to the next: at most a cycle until its
\* outcome is stored and its longest backoff; once it is due, the rest of a cycle that had
\* begun before, and a tick if that raised.
WaitIsBounded ==
    /\ Watched \in fetching => tried = taken
    /\ due[Watched] > 0 => tried + due[Watched] <= Longest(Watched) + Duration
    /\ due[Watched] = 0 /\ Watched \notin fetching =>
         /\ fetching = {} /\ ~aborted => tried <= Longest(Watched) + 2 * Duration
         /\ fetching = {} /\ aborted => tried <= Longest(Watched) + 2 * Duration - 1
         /\ fetching # {} => taken > 0 /\ tried <= Longest(Watched) + Duration + taken - 1

\* While it answers it is fetched at its cadence, and the age of its last success follows:
\* the rest of the cycle that stored it, the cadence, the rest of a cycle that had begun
\* before it was due, a tick if that raised, and its own cycle until the outcome is stored.
SuccessIsRecent ==
    answering =>
      /\ failuresInARow = 0
      /\ due[Watched] > 0 => success + due[Watched] <= Cadence[Watched] + Duration
      /\ due[Watched] = 0 /\ Watched \notin fetching =>
           /\ fetching = {} /\ ~aborted => success <= Cadence[Watched] + 2 * Duration
           /\ fetching = {} /\ aborted => success <= Cadence[Watched] + 2 * Duration - 1
           /\ fetching # {} => taken > 0 /\ success <= Cadence[Watched] + Duration + taken - 1
      /\ Watched \in fetching /\ stored[Watched] = "none" =>
           success <= Cadence[Watched] + 2 * Duration + taken
      /\ Watched \in fetching /\ stored[Watched] # "none" =>
           stored[Watched] = "ok" /\ success <= taken

\* Together they are inductive.
SchedulerInv ==
    /\ TableTypes /\ LoopTypes /\ RowTypes
    /\ CyclesAreDue /\ WaitIsBounded /\ SuccessIsRecent

-----------------------------------------------------------------------------
\* The backoff is at least the cadence and at most the longest; without failures and
\* empty replies it is the cadence.
LEMMA MultiplierFacts ==
    ASSUME NEW f \in 0..MaxStreak, NEW e \in 0..MaxStreak
    PROVE  /\ Scheduler!Multiplier(f, e) \in 1..MaxMultiplier
           /\ f = 0 /\ e = 0 => Scheduler!Multiplier(f, e) = 1
<1> USE SchedulerAssumption
<1>1. f > 0 => 2 ^ f \in Nat \ {0}
  BY PowersAssumption
<1>2. e >= EmptyThreshold => 2 ^ (e - EmptyThreshold + 1) \in Nat \ {0}
  <2>1. e >= EmptyThreshold => e - EmptyThreshold + 1 \in 1..MaxStreak + 1
    OBVIOUS
  <2> QED BY <2>1, PowersAssumption
<1> DEFINE p == 2 ^ f
           q == 2 ^ (e - EmptyThreshold + 1)
<1>3. Scheduler!Multiplier(f, e) =
        IF f > 0 THEN Scheduler!Least(p, MaxMultiplier)
        ELSE IF e >= EmptyThreshold THEN Scheduler!Least(q, MaxMultiplier) ELSE 1
  BY DEF Scheduler!Multiplier
<1>4. (f > 0 => p \in Nat \ {0}) /\ (e >= EmptyThreshold => q \in Nat \ {0})
  BY <1>1, <1>2
<1> HIDE DEF p, q
<1> QED BY <1>3, <1>4 DEF Scheduler!Least

\* A delay is positive and no longer than the longest.
LEMMA DelayFacts ==
    ASSUME NEW s \in Feeds, NEW m \in 1..MaxMultiplier
    PROVE  Cadence[s] * m \in Nat \ {0} /\ Cadence[s] * m <= Longest(s)
<1>1. Cadence[s] \in Nat \ {0} /\ MaxMultiplier \in Nat
  BY SchedulerAssumption
<1> DEFINE c == Cadence[s]
<1>2. c \in Nat /\ c > 0
  BY <1>1
<1> HIDE DEF c
<1>3. c * m \in Nat /\ c * m > 0 /\ c * m <= c * MaxMultiplier
  BY <1>1, <1>2
<1> QED BY <1>3 DEF c, Longest

\* What is stored of an outcome of the watched source.
LEMMA RecordFacts ==
    ASSUME RowTypes, NEW s, NEW o, Scheduler!Record(s, o)
    PROVE  /\ RowTypes'
           /\ s # Watched => success' = success /\ failuresInARow' = failuresInARow
           /\ s = Watched /\ o = "ok" => success' = 0 /\ failuresInARow' = 0
BY SchedulerAssumption DEF Scheduler!Record, RowTypes, Scheduler!health, Scheduler!Least

\* The watched source has a cadence, and a longest backoff.
LEMMA WatchedFacts ==
    /\ Watched \in Feeds /\ Cadence[Watched] \in Nat /\ Cadence[Watched] >= 1
    /\ Longest(Watched) \in Nat /\ Longest(Watched) >= 1 /\ Duration \in Nat /\ Duration >= 1
<1>1. Watched \in Feeds /\ 1 \in 1..MaxMultiplier /\ MaxMultiplier \in 1..MaxMultiplier
  BY SchedulerAssumption
<1>2. Cadence[Watched] * MaxMultiplier \in Nat \ {0}
  BY <1>1, DelayFacts
<1> QED BY <1>1, <1>2, SchedulerAssumption DEF Longest

\* A cycle begins: it fetches what is due, and the wait of the watched source may end.
LEMMA BeginKeeps == ASSUME SchedulerInv, Scheduler!BeginCycle PROVE SchedulerInv'
<1> USE WatchedFacts
<1>1. /\ fetching = {} /\ ~aborted /\ fetching' = Scheduler!Due /\ taken' = 0
      /\ tried' = IF Watched \in Scheduler!Due THEN 0 ELSE tried
      /\ due' = due /\ fails' = fails /\ empties' = empties
      /\ UNCHANGED <<stored, aborted, lease, success, failuresInARow, answering>>
      /\ fetching' # {}
  BY DEF Scheduler!BeginCycle, Scheduler!memory, Scheduler!health
<1>2. fetching' \subseteq Feeds /\ \A s \in Feeds : s \in fetching' <=> due[s] = 0
  BY <1>1 DEF Scheduler!Due
<1>3. TableTypes' /\ RowTypes' /\ CyclesAreDue'
  BY <1>1, <1>2 DEF SchedulerInv, TableTypes, RowTypes, CyclesAreDue
<1>4. LoopTypes'
  BY <1>1, <1>2 DEF SchedulerInv, LoopTypes
<1>5. WaitIsBounded'
  BY <1>1, <1>2 DEF SchedulerInv, WaitIsBounded, Longest
<1>6. SuccessIsRecent'
  <2> SUFFICES ASSUME answering PROVE SuccessIsRecent'
    BY <1>1 DEF SuccessIsRecent
  <2>1. stored'[Watched] = "none"
    BY <1>1 DEF SchedulerInv, CyclesAreDue
  <2> QED BY <1>1, <1>2, <2>1 DEF SchedulerInv, SuccessIsRecent
<1> QED BY <1>3, <1>4, <1>5, <1>6 DEF SchedulerInv

\* An outcome is stored while the cycle runs on: the age of a success starts here.
LEMMA OutcomeKeeps ==
    ASSUME SchedulerInv, NEW s \in Feeds, NEW o \in Scheduler!Outcomes,
           Scheduler!StoreOutcome(s, o)
    PROVE  SchedulerInv'
<1> USE WatchedFacts
<1>1. /\ s \in fetching /\ stored[s] = "none" /\ stored' = [stored EXCEPT ![s] = o]
      /\ Scheduler!Record(s, o)
      /\ answering' = IF s = Watched THEN o = "ok" ELSE answering
      /\ UNCHANGED <<due, fails, empties, fetching, taken, aborted, lease, tried>>
  BY DEF Scheduler!StoreOutcome, Scheduler!memory
<1>2. /\ RowTypes'
      /\ s # Watched => success' = success /\ failuresInARow' = failuresInARow
      /\ s = Watched /\ o = "ok" => success' = 0 /\ failuresInARow' = 0
  BY <1>1, RecordFacts DEF SchedulerInv
<1>3. /\ stored' \in [Feeds -> Scheduler!Outcomes \cup {"none"}]
      /\ stored'[s] = o /\ \A r \in Feeds : r # s => stored'[r] = stored[r]
  BY <1>1 DEF SchedulerInv, LoopTypes
<1>4. TableTypes' /\ WaitIsBounded'
  BY <1>1 DEF SchedulerInv, TableTypes, WaitIsBounded
<1>5. LoopTypes'
  <2>1. answering' \in BOOLEAN
    BY <1>1, Zenon DEF SchedulerInv, LoopTypes
  <2> QED BY <1>1, <1>3, <2>1 DEF SchedulerInv, LoopTypes
<1>6. CyclesAreDue'
  BY <1>1, <1>3 DEF SchedulerInv, CyclesAreDue
<1>7. SuccessIsRecent'
  <2> SUFFICES ASSUME answering' PROVE SuccessIsRecent'
    BY DEF SuccessIsRecent
  <2>1. taken \in Nat /\ taken' = taken /\ fetching' = fetching /\ due' = due /\ aborted' = aborted
    BY <1>1, SchedulerAssumption DEF SchedulerInv, LoopTypes
  <2>2. CASE s = Watched
    <3>1. o = "ok"
      BY <1>1, <2>2, Zenon
    <3>2. success' = 0 /\ failuresInARow' = 0 /\ due[Watched] = 0 /\ stored'[Watched] = "ok"
      BY <1>1, <1>2, <1>3, <2>2, <3>1 DEF SchedulerInv, CyclesAreDue
    <3> QED BY <1>1, <2>1, <2>2, <3>2 DEF SuccessIsRecent
  <2>3. CASE s # Watched
    <3>1. answering
      BY <1>1, <2>3, Zenon
    <3> QED BY <1>2, <1>3, <2>1, <2>3, <3>1 DEF SchedulerInv, SuccessIsRecent
  <2> QED BY <2>2, <2>3
<1> QED BY <1>2, <1>4, <1>5, <1>6, <1>7 DEF SchedulerInv

\* The next fetch of a source whose outcome is stored is within its longest backoff, and
\* at its cadence if it answered, from the end of the cycle.
LEMMA EndKeeps == ASSUME SchedulerInv, Scheduler!EndCycle PROVE SchedulerInv'
<1> USE WatchedFacts
<1>1. /\ \A s \in fetching : stored[s] # "none"
      /\ fails' = [s \in Feeds |-> IF s \in fetching THEN Scheduler!FailStreak(s, stored[s])
                                   ELSE fails[s]]
      /\ empties' = [s \in Feeds |-> IF s \in fetching THEN Scheduler!EmptyStreak(s, stored[s])
                                     ELSE empties[s]]
      /\ due' = [s \in Feeds |-> IF s \in fetching
                                 THEN Cadence[s] * Scheduler!Multiplier(fails'[s], empties'[s])
                                 ELSE due[s]]
  BY DEF Scheduler!EndCycle
<1>2. /\ fetching # {} /\ fetching' = {} /\ taken' = 0 /\ stored' = [s \in Feeds |-> "none"]
      /\ UNCHANGED <<aborted, lease, success, failuresInARow, tried, answering>>
  BY DEF Scheduler!EndCycle, Scheduler!Nothing, Scheduler!health
<1>3. /\ fails' \in [Feeds -> 0..MaxStreak] /\ empties' \in [Feeds -> 0..MaxStreak]
      /\ \A s \in fetching : stored[s] = "ok" => fails'[s] = 0 /\ empties'[s] = 0
  <2>1. \A s \in Feeds : /\ fails[s] \in 0..MaxStreak /\ empties[s] \in 0..MaxStreak
    BY DEF SchedulerInv, TableTypes
  <2>2. \A s \in Feeds : /\ Scheduler!FailStreak(s, stored[s]) \in 0..MaxStreak
                         /\ Scheduler!EmptyStreak(s, stored[s]) \in 0..MaxStreak
                         /\ stored[s] = "ok" => /\ Scheduler!FailStreak(s, stored[s]) = 0
                                                /\ Scheduler!EmptyStreak(s, stored[s]) = 0
    BY <2>1, SchedulerAssumption DEF Scheduler!FailStreak, Scheduler!EmptyStreak, Scheduler!Least
  <2>3. fetching \subseteq Feeds
    BY DEF SchedulerInv, LoopTypes
  <2> QED BY <1>1, <2>1, <2>2, <2>3
<1>4. \A s \in fetching : /\ due'[s] \in Nat \ {0} /\ due'[s] <= Longest(s)
                          /\ stored[s] = "ok" => due'[s] = Cadence[s]
  <2> SUFFICES ASSUME NEW s \in fetching
               PROVE  /\ due'[s] \in Nat \ {0} /\ due'[s] <= Longest(s)
                      /\ stored[s] = "ok" => due'[s] = Cadence[s]
    OBVIOUS
  <2> DEFINE m == Scheduler!Multiplier(fails'[s], empties'[s])
  <2>1. s \in Feeds /\ Cadence[s] \in Nat
    BY SchedulerAssumption DEF SchedulerInv, LoopTypes
  <2>2. due'[s] = Cadence[s] * m
    BY <1>1, <2>1
  <2>3. m \in 1..MaxMultiplier /\ (stored[s] = "ok" => m = 1)
    <3>1. fails'[s] \in 0..MaxStreak /\ empties'[s] \in 0..MaxStreak
      BY <1>3, <2>1
    <3> QED BY <3>1, <1>3, MultiplierFacts
  <2> HIDE DEF m
  <2> QED BY <2>1, <2>2, <2>3, DelayFacts
<1>5. \A s \in Feeds \ fetching : due'[s] = due[s]
  BY <1>1
<1>6. TableTypes'
  <2>1. \A s \in Feeds : due'[s] \in Nat /\ due'[s] <= Longest(s)
    BY <1>4, <1>5 DEF SchedulerInv, TableTypes
  <2>2. due' = [s \in Feeds |-> due'[s]]
    BY <1>1
  <2> QED BY <1>3, <2>1, <2>2 DEF TableTypes, Longest
<1>7. RowTypes' /\ CyclesAreDue'
  BY <1>2 DEF RowTypes, CyclesAreDue, SchedulerInv
<1>8. LoopTypes'
  <2>1. answering' \in BOOLEAN
    BY <1>2, Zenon DEF SchedulerInv, LoopTypes
  <2>2. stored' \in [Feeds -> Scheduler!Outcomes \cup {"none"}]
    BY <1>2
  <2> QED BY <1>2, <2>1, <2>2, SchedulerAssumption DEF SchedulerInv, LoopTypes
<1>9. taken \in 0..Duration /\ tried \in Nat /\ success \in Nat /\ ~aborted
  BY <1>2, SchedulerAssumption DEF SchedulerInv, LoopTypes, RowTypes, CyclesAreDue
<1>10. WaitIsBounded'
  <2>1. CASE Watched \in fetching
    <3>1. tried <= Duration /\ due'[Watched] \in Nat \ {0} /\ due'[Watched] <= Longest(Watched)
      BY <2>1, <1>4, <1>9 DEF SchedulerInv, WaitIsBounded
    <3> QED BY <3>1, <1>2, <1>9 DEF WaitIsBounded, Longest
  <2>2. CASE Watched \notin fetching
    <3>1. due'[Watched] = due[Watched]
      BY <2>2, <1>5
    <3> QED BY <2>2, <3>1, <1>2, <1>9 DEF SchedulerInv, WaitIsBounded, Longest
  <2> QED BY <2>1, <2>2
<1>11. SuccessIsRecent'
  <2> SUFFICES ASSUME answering' PROVE SuccessIsRecent'
    BY DEF SuccessIsRecent
  <2>0. answering /\ success' = success /\ failuresInARow' = failuresInARow /\ aborted' = aborted
    BY <1>2, Zenon
  <2>1. CASE Watched \in fetching
    <3>1. stored[Watched] = "ok" /\ success <= Duration /\ failuresInARow = 0
      BY <2>0, <2>1, <1>1, <1>9 DEF SchedulerInv, SuccessIsRecent
    <3>2. due'[Watched] = Cadence[Watched]
      BY <2>1, <3>1, <1>4
    <3> QED BY <2>0, <3>1, <3>2, <1>2, <1>9 DEF SuccessIsRecent
  <2>2. CASE Watched \notin fetching
    <3>1. due'[Watched] = due[Watched]
      BY <2>2, <1>5
    <3> QED BY <2>0, <2>2, <3>1, <1>2, <1>9 DEF SchedulerInv, SuccessIsRecent
  <2> QED BY <2>1, <2>2
<1> QED BY <1>6, <1>7, <1>8, <1>10, <1>11 DEF SchedulerInv

\* A cycle that raises: nothing in memory changes, and the loop sleeps for a tick.
LEMMA AbortKeeps == ASSUME SchedulerInv, Scheduler!Abort PROVE SchedulerInv'
<1> USE WatchedFacts
<1>1. fetching # {}
  BY DEF Scheduler!Abort
<1>2. /\ answering' = (answering /\ Watched \notin fetching)
      /\ fetching' = {} /\ taken' = 0 /\ aborted' = TRUE /\ stored' = [s \in Feeds |-> "none"]
      /\ due' = due /\ fails' = fails /\ empties' = empties /\ lease' = lease /\ tried' = tried
      /\ success' = success /\ failuresInARow' = failuresInARow
  BY DEF Scheduler!Abort, Scheduler!memory, Scheduler!Nothing, Scheduler!health
<1>4. TableTypes' /\ CyclesAreDue' /\ RowTypes'
  BY <1>2 DEF SchedulerInv, TableTypes, CyclesAreDue, RowTypes
<1>5. LoopTypes'
  <2>1. answering' \in BOOLEAN
    BY <1>2, Zenon
  <2>2. stored' \in [Feeds -> Scheduler!Outcomes \cup {"none"}]
    BY <1>2
  <2> QED BY <1>2, <2>1, <2>2, SchedulerAssumption DEF SchedulerInv, LoopTypes
<1>6. taken \in 0..Duration /\ tried \in Nat /\ due[Watched] \in Nat
      /\ (Watched \in fetching => due[Watched] = 0)
  BY DEF SchedulerInv, LoopTypes, TableTypes, CyclesAreDue
<1>7. WaitIsBounded'
  BY <1>1, <1>2, <1>6 DEF SchedulerInv, WaitIsBounded, Longest
<1>8. SuccessIsRecent'
  <2> SUFFICES ASSUME answering' PROVE SuccessIsRecent'
    BY DEF SuccessIsRecent
  <2>1. answering /\ Watched \notin fetching
    BY <1>2, Zenon
  <2>2. success' = success /\ failuresInARow' = failuresInARow /\ success \in Nat
    BY <1>2, SchedulerAssumption DEF SchedulerInv, RowTypes
  <2> QED BY <1>1, <2>1, <2>2, <1>2, <1>6 DEF SchedulerInv, SuccessIsRecent
<1> QED BY <1>4, <1>5, <1>7, <1>8 DEF SchedulerInv

\* The manual refresh stores outcomes beside the scheduler.
LEMMA ManualKeeps == ASSUME SchedulerInv, Scheduler!Manual PROVE SchedulerInv'
<1> USE WatchedFacts
<1>1. PICK o \in Scheduler!Outcomes :
        /\ Scheduler!Record(Watched, o)
        /\ answering' = (answering /\ o = "ok")
  BY DEF Scheduler!Manual
<1>2. /\ lease' = Cooldown
      /\ UNCHANGED <<due, fails, empties, fetching, taken, stored, aborted, tried>>
  BY DEF Scheduler!Manual, Scheduler!memory, Scheduler!loop
<1>3. RowTypes' /\ (answering' => answering /\ success' = 0 /\ failuresInARow' = 0)
  BY <1>1, RecordFacts DEF SchedulerInv
<1>4. TableTypes' /\ CyclesAreDue' /\ WaitIsBounded'
  BY <1>2 DEF SchedulerInv, TableTypes, CyclesAreDue, WaitIsBounded
<1>5. LoopTypes'
  <2>1. answering' \in BOOLEAN
    BY <1>1, Zenon
  <2> QED BY <1>2, <2>1, SchedulerAssumption DEF SchedulerInv, LoopTypes
<1>6. SuccessIsRecent'
  <2> SUFFICES ASSUME answering' PROVE SuccessIsRecent'
    BY DEF SuccessIsRecent
  <2>1. answering /\ success' = 0 /\ failuresInARow' = 0
    BY <1>3, Zenon
  <2>2. /\ due[Watched] \in 0..Longest(Watched) /\ due' = due
        /\ fetching' = fetching /\ taken' = taken /\ taken \in Nat /\ success \in Nat
        /\ stored' = stored
    BY <1>2, SchedulerAssumption DEF SchedulerInv, LoopTypes, TableTypes, RowTypes
  <2> QED BY <2>1, <2>2, <1>2 DEF SchedulerInv, SuccessIsRecent
<1> QED BY <1>3, <1>4, <1>5, <1>6 DEF SchedulerInv

\* Time passes only while nothing is due, a cycle runs, or the loop sleeps after one that
\* raised: a source that becomes due does so beside a cycle that is at least a tick old.
LEMMA TickKeeps == ASSUME SchedulerInv, Scheduler!Tick PROVE SchedulerInv'
<1> USE WatchedFacts
<1>1. /\ (\A s \in Feeds : due[s] # 0) \/ fetching # {} \/ aborted
      /\ taken < Duration /\ taken' = IF fetching = {} THEN 0 ELSE taken + 1
      /\ aborted' = FALSE
      /\ due' = [s \in Feeds |-> IF due[s] = 0 THEN 0 ELSE due[s] - 1]
      /\ lease' = IF lease = 0 THEN 0 ELSE lease - 1
      /\ success' = Scheduler!Least(success + 1, MaxAge) /\ tried' = tried + 1
      /\ UNCHANGED <<fails, empties, fetching, stored, failuresInARow, answering>>
  BY DEF Scheduler!Tick, Scheduler!Due
<1>2. success \in Nat /\ success' \in 0..MaxAge /\ success' <= success + 1
  BY <1>1, SchedulerAssumption DEF SchedulerInv, RowTypes, Scheduler!Least
<1>3. TableTypes'
  <2>1. \A s \in Feeds : due[s] \in Nat /\ due[s] <= Longest(s)
    BY DEF SchedulerInv, TableTypes
  <2>2. \A s \in Feeds : due'[s] \in Nat /\ due'[s] <= due[s]
    BY <1>1, <2>1
  <2>3. \A s \in Feeds : Longest(s) \in Nat
    BY DelayFacts, SchedulerAssumption DEF Longest
  <2>4. \A s \in Feeds : due'[s] <= Longest(s)
    BY <2>1, <2>2, <2>3
  <2> QED BY <1>1, <2>2, <2>4 DEF SchedulerInv, TableTypes, Longest
<1>4. LoopTypes' /\ RowTypes'
  <2>1. answering' \in BOOLEAN
    BY <1>1, Zenon DEF SchedulerInv, LoopTypes
  <2>2. taken' \in 0..Duration /\ lease' \in 0..Cooldown
    BY <1>1, SchedulerAssumption DEF SchedulerInv, LoopTypes
  <2>3. RowTypes' /\ fetching' \subseteq Feeds /\ tried' \in Nat
    BY <1>1, <1>2 DEF SchedulerInv, LoopTypes, RowTypes
  <2>4. aborted' \in BOOLEAN /\ stored' \in [Feeds -> Scheduler!Outcomes \cup {"none"}]
    BY <1>1, Zenon DEF SchedulerInv, LoopTypes
  <2> QED BY <2>1, <2>2, <2>3, <2>4, Zenon DEF LoopTypes
<1>5. CyclesAreDue'
  BY <1>1 DEF SchedulerInv, LoopTypes, CyclesAreDue
<1>6. /\ due[Watched] \in Nat /\ tried \in Nat /\ taken \in 0..Duration
      /\ due'[Watched] = IF due[Watched] = 0 THEN 0 ELSE due[Watched] - 1
      /\ (Watched \in fetching => due[Watched] = 0 /\ ~aborted)
      /\ (due[Watched] = 0 => fetching # {} \/ aborted)
      /\ (aborted => fetching = {})
  BY <1>1 DEF SchedulerInv, TableTypes, LoopTypes, CyclesAreDue
<1>7. WaitIsBounded'
  <2>1. CASE Watched \in fetching
    BY <2>1, <1>1, <1>6 DEF SchedulerInv, WaitIsBounded
  <2>2. CASE Watched \notin fetching /\ due[Watched] > 1
    BY <2>2, <1>1, <1>6 DEF SchedulerInv, WaitIsBounded, Longest
  <2>3. CASE Watched \notin fetching /\ due[Watched] = 1
    BY <2>3, <1>1, <1>6 DEF SchedulerInv, WaitIsBounded, Longest
  <2>4. CASE Watched \notin fetching /\ due[Watched] = 0
    BY <2>4, <1>1, <1>6 DEF SchedulerInv, WaitIsBounded, Longest
  <2> QED BY <1>6, <2>1, <2>2, <2>3, <2>4
<1>8. SuccessIsRecent'
  <2> SUFFICES ASSUME answering PROVE SuccessIsRecent'
    BY <1>1 DEF SuccessIsRecent
  <2>1. CASE Watched \in fetching
    BY <2>1, <1>1, <1>2, <1>6 DEF SchedulerInv, SuccessIsRecent
  <2>2. CASE Watched \notin fetching /\ due[Watched] > 1
    BY <2>2, <1>1, <1>2, <1>6 DEF SchedulerInv, SuccessIsRecent
  <2>3. CASE Watched \notin fetching /\ due[Watched] = 1
    BY <2>3, <1>1, <1>2, <1>6 DEF SchedulerInv, SuccessIsRecent
  <2>4. CASE Watched \notin fetching /\ due[Watched] = 0
    BY <2>4, <1>1, <1>2, <1>6 DEF SchedulerInv, SuccessIsRecent
  <2> QED BY <1>6, <2>1, <2>2, <2>3, <2>4
<1> QED BY <1>3, <1>4, <1>5, <1>7, <1>8 DEF SchedulerInv

\* A new process spreads its first fetches, and knows only the rows.
LEMMA FreshProcess ==
    ASSUME NEW d \in [Feeds -> 0..Jitter]
    PROVE  /\ d \in [Feeds -> Nat] /\ \A s \in Feeds : d[s] <= Longest(s)
           /\ d[Watched] \in Nat
<1>1. \A s \in Feeds : Longest(s) \in Nat /\ Jitter <= Longest(s) /\ Jitter \in Nat
  BY DelayFacts, SchedulerAssumption DEF Longest
<1>2. \A s \in Feeds : d[s] \in 0..Jitter
  OBVIOUS
<1> QED BY <1>1, <1>2, WatchedFacts

\* A new process fetches the watched source within its jitter, and waits for it to answer.
LEMMA StartKeeps == ASSUME SchedulerInv, Scheduler!Start PROVE SchedulerInv'
<1> USE WatchedFacts
<1>1. /\ due' \in [Feeds -> 0..Jitter]
      /\ fails' = [s \in Feeds |-> 0] /\ empties' = [s \in Feeds |-> 0]
      /\ fetching' = {} /\ taken' = 0 /\ aborted' = FALSE /\ lease' = 0
      /\ stored' = [s \in Feeds |-> "none"]
      /\ tried' = 0 /\ answering' = FALSE /\ UNCHANGED <<success, failuresInARow>>
  BY DEF Scheduler!Start, Scheduler!health, Scheduler!Nothing
<1>2. due' \in [Feeds -> Nat] /\ (\A s \in Feeds : due'[s] <= Longest(s)) /\ due'[Watched] \in Nat
  BY <1>1, FreshProcess
<1>3. TableTypes' /\ LoopTypes' /\ RowTypes' /\ CyclesAreDue'
  <2>1. TableTypes'
    BY <1>1, <1>2, SchedulerAssumption DEF TableTypes, Longest
  <2>2. /\ fetching' \subseteq Feeds /\ taken' \in 0..Duration
        /\ stored' \in [Feeds -> Scheduler!Outcomes \cup {"none"}]
        /\ lease' \in 0..Cooldown /\ tried' \in Nat
    BY <1>1, SchedulerAssumption
  <2>3. aborted' \in BOOLEAN /\ answering' \in BOOLEAN
    BY <1>1, Zenon
  <2>4. RowTypes' /\ CyclesAreDue'
    BY <1>1 DEF SchedulerInv, RowTypes, CyclesAreDue
  <2> QED BY <2>1, <2>2, <2>3, <2>4, Zenon DEF LoopTypes
<1>4. WaitIsBounded' /\ SuccessIsRecent'
  BY <1>1, <1>2 DEF WaitIsBounded, SuccessIsRecent, Longest
<1> QED BY <1>3, <1>4 DEF SchedulerInv

\* The first process does so too.
LEMMA SchedulerInitInv == Scheduler!Init => SchedulerInv
<1> SUFFICES ASSUME Scheduler!Init PROVE SchedulerInv
  OBVIOUS
<1> USE WatchedFacts
<1>1. /\ due \in [Feeds -> 0..Jitter]
      /\ fails = [s \in Feeds |-> 0] /\ empties = [s \in Feeds |-> 0]
      /\ fetching = {} /\ taken = 0 /\ aborted = FALSE /\ lease = 0
      /\ stored = [s \in Feeds |-> "none"]
      /\ success = MaxAge /\ failuresInARow = 0 /\ tried = 0 /\ answering = FALSE
  BY DEF Scheduler!Init, Scheduler!Nothing
<1>2. due \in [Feeds -> Nat] /\ (\A s \in Feeds : due[s] <= Longest(s)) /\ due[Watched] \in Nat
  BY <1>1, FreshProcess
<1>3. TableTypes /\ LoopTypes /\ RowTypes /\ CyclesAreDue
  <2>1. TableTypes
    BY <1>1, <1>2, SchedulerAssumption DEF TableTypes
  <2>2. /\ fetching \subseteq Feeds /\ taken \in 0..Duration
        /\ stored \in [Feeds -> Scheduler!Outcomes \cup {"none"}]
        /\ lease \in 0..Cooldown /\ tried \in Nat
    BY <1>1, SchedulerAssumption
  <2>3. aborted \in BOOLEAN /\ answering \in BOOLEAN
    BY <1>1, Zenon
  <2>4. RowTypes /\ CyclesAreDue
    BY <1>1, SchedulerAssumption DEF RowTypes, CyclesAreDue
  <2> QED BY <2>1, <2>2, <2>3, <2>4, Zenon DEF LoopTypes
<1>4. WaitIsBounded /\ SuccessIsRecent
  BY <1>1, <1>2 DEF WaitIsBounded, SuccessIsRecent
<1> QED BY <1>3, <1>4 DEF SchedulerInv

\* Every step of the scheduler, the manual refresh and the clock preserves the invariant.
LEMMA SchedulerNextInv == SchedulerInv /\ [Scheduler!Next]_schedulerVars => SchedulerInv'
<1> SUFFICES ASSUME SchedulerInv, [Scheduler!Next]_schedulerVars PROVE SchedulerInv'
  OBVIOUS
<1>1. CASE Scheduler!Next
  BY <1>1, BeginKeeps, OutcomeKeeps, EndKeeps, AbortKeeps, ManualKeeps, TickKeeps, StartKeeps
     DEF Scheduler!Next
<1>2. CASE UNCHANGED schedulerVars
  BY <1>2 DEF schedulerVars, SchedulerInv, TableTypes, LoopTypes, RowTypes, CyclesAreDue,
     WaitIsBounded, SuccessIsRecent
<1> QED BY <1>1, <1>2

\* The watched source is fetched in time, and shown as "ok" while it answers.
LEMMA SchedulerInvSuffices == SchedulerInv => Scheduler!TypeOK /\ Scheduler!SourcesAreServed
<1> SUFFICES ASSUME SchedulerInv PROVE Scheduler!TypeOK /\ Scheduler!SourcesAreServed
  OBVIOUS
<1> USE WatchedFacts
<1>1. Scheduler!TypeOK
  <2>1. \A s \in Feeds : due[s] \in Nat /\ due[s] <= Longest(s) /\ Longest(s) \in Nat
    BY DelayFacts, SchedulerAssumption DEF SchedulerInv, TableTypes, Longest
  <2>2. \A s \in Feeds : due[s] \in 0..Longest(s)
    BY <2>1
  <2> QED BY <2>2 DEF SchedulerInv, TableTypes, LoopTypes, RowTypes, Scheduler!TypeOK, Longest
<1>2. Scheduler!FetchedInTime
  <2>1. tried <= Longest(Watched) + 2 * Duration
    BY DEF SchedulerInv, TableTypes, LoopTypes, WaitIsBounded
  <2> QED BY <2>1 DEF Scheduler!FetchedInTime, Longest
<1>3. Scheduler!AnsweringIsOk
  <2> SUFFICES ASSUME answering PROVE Scheduler!Status = "ok"
    BY DEF Scheduler!AnsweringIsOk
  <2>1. success <= 2 * Cadence[Watched]
    BY CyclesAreShort, SchedulerAssumption
       DEF SchedulerInv, TableTypes, LoopTypes, RowTypes, SuccessIsRecent
  <2> QED BY <2>1, SchedulerAssumption DEF SchedulerInv, RowTypes, SuccessIsRecent, Scheduler!Status
<1> QED BY <1>1, <1>2, <1>3 DEF Scheduler!SourcesAreServed

\* Whatever fails, is empty, raises or runs long, in whatever order with manual refreshes
\* and restarts: the scheduler fetches a source again within its longest backoff and two
\* cycles, and the page shows as "ok" a source that has answered since
\* (backoff_delay_seconds, _source_status).
THEOREM SourcesTheorem == OneSpec => []SourcesAreServed
<1>1. OneInit => SchedulerInv
  BY SchedulerInitInv DEF OneInit
<1>2. SchedulerInv /\ [OneNext]_allVars => SchedulerInv'
  <2>1. [OneNext]_allVars => [Scheduler!Next]_schedulerVars
    BY DEF OneNext, allVars
  <2> QED BY <2>1, SchedulerNextInv
<1>3. SchedulerInv => SourcesAreServed
  BY SchedulerInvSuffices DEF SourcesAreServed
<1> QED BY <1>1, <1>2, <1>3, PTL DEF OneSpec


-----------------------------------------------------------------------------
(***************************************************************************)
(* The takeaway worker, for every set of news, batch and quota.            *)
(***************************************************************************)
\* Takeaways counts as FiniteSets does.
LEMMA CountIs == ASSUME NEW S PROVE Conclusions!Cardinality(S) = Cardinality(S)
BY Zenon DEF Conclusions!Cardinality, Cardinality

\* A batch is no longer than it may be: of two news in it the later has more before it.
LEMMA FirstOfCount ==
    ASSUME NEW ids \in SUBSET News, NEW k \in Nat
    PROVE  IsFiniteSet(Conclusions!FirstOf(ids, k)) /\ Cardinality(Conclusions!FirstOf(ids, k)) <= k
<1> DEFINE Before(n) == {m \in ids : m < n}
           F == Conclusions!FirstOf(ids, k)
           f == [n \in F |-> Cardinality(Before(n))]
<1>1. IsFiniteSet(ids) /\ ids \subseteq Nat
  BY QuotaAssumption, FS_Subset
<1>2. \A n \in ids : /\ IsFiniteSet(Before(n)) /\ Cardinality(Before(n)) \in Nat
                     /\ Before(n) \in SUBSET ids
  <2> SUFFICES ASSUME NEW n \in ids
               PROVE  /\ IsFiniteSet(Before(n)) /\ Cardinality(Before(n)) \in Nat
                      /\ Before(n) \in SUBSET ids
    OBVIOUS
  <2>1. Before(n) \in SUBSET ids
    OBVIOUS
  <2>2. IsFiniteSet(Before(n))
    <3> HIDE DEF Before
    <3> QED BY <1>1, <2>1, FS_Subset
  <2>3. Cardinality(Before(n)) \in Nat
    <3> HIDE DEF Before
    <3> QED BY <2>2, FS_CardinalityType
  <2> QED BY <2>1, <2>2, <2>3
<1>3. F = {n \in ids : Cardinality(Before(n)) < k}
  <2>1. F = {n \in ids : Conclusions!Cardinality(Before(n)) < k}
    BY DEF Conclusions!FirstOf
  <2>2. \A n \in ids : Conclusions!Cardinality(Before(n)) = Cardinality(Before(n))
    BY CountIs
  <2> HIDE DEF Before, F
  <2> QED BY <2>1, <2>2
<1>4. \A n1, n2 \in ids : n1 < n2 => Cardinality(Before(n1)) < Cardinality(Before(n2))
  <2> SUFFICES ASSUME NEW n1 \in ids, NEW n2 \in ids, n1 < n2
               PROVE  Cardinality(Before(n1)) < Cardinality(Before(n2))
    OBVIOUS
  <2>0. n1 \in Nat /\ n2 \in Nat /\ \A m \in ids : m \in Nat /\ (m < n1 => m < n2)
    BY <1>1
  <2>1. Before(n1) \in SUBSET Before(n2) /\ n1 \in Before(n2) /\ n1 \notin Before(n1)
    <3>1. ~(n1 < n1)
      BY <2>0
    <3> QED BY <2>0, <3>1
  <2>2. Before(n1) # Before(n2)
    BY <2>1
  <2>3. /\ IsFiniteSet(Before(n2))
        /\ Cardinality(Before(n1)) \in Nat /\ Cardinality(Before(n2)) \in Nat
    BY <1>2
  <2> HIDE DEF Before
  <2>4. /\ Cardinality(Before(n1)) <= Cardinality(Before(n2))
        /\ Cardinality(Before(n2)) = Cardinality(Before(n1)) => Before(n2) = Before(n1)
    BY <2>1, <2>3, FS_Subset
  <2> QED BY <2>2, <2>3, <2>4
<1> HIDE DEF Before, F
<1>5. f \in Injection(F, 0..k-1)
  <2>1. \A n \in F : n \in ids /\ Cardinality(Before(n)) \in 0..k-1
    BY <1>2, <1>3
  <2>2. f \in [F -> 0..k-1]
    BY <2>1
  <2>3. \A n1, n2 \in F : f[n1] = f[n2] => n1 = n2
    <3> SUFFICES ASSUME NEW n1 \in F, NEW n2 \in F, f[n1] = f[n2]
                 PROVE  n1 = n2
      OBVIOUS
    <3>1. n1 \in ids /\ n2 \in ids /\ n1 \in Nat /\ n2 \in Nat
      BY <2>1, <1>1
    <3>2. Cardinality(Before(n1)) = Cardinality(Before(n2)) /\ Cardinality(Before(n1)) \in Nat
      BY <3>1, <1>2
    <3>3. ~(n1 < n2) /\ ~(n2 < n1)
      BY <3>1, <3>2, <1>4
    <3> QED BY <3>1, <3>3
  <2> HIDE DEF f
  <2> QED BY <2>2, <2>3, Fun_IsInj
<1>6. IsFiniteSet(0..k-1) /\ Cardinality(0..k-1) = k
  <2>1. 0 \in Int /\ k - 1 \in Int
    OBVIOUS
  <2>2. /\ IsFiniteSet(0..k-1)
        /\ Cardinality(0..k-1) = IF 0 > k - 1 THEN 0 ELSE (k - 1) - 0 + 1
    BY <2>1, FS_Interval
  <2> QED BY <2>2
<1> HIDE DEF f
<1>7. IsFiniteSet(F) /\ Cardinality(F) <= Cardinality(0..k-1)
  BY <1>5, <1>6, FS_Injection
<1> QED BY <1>6, <1>7 DEF F

Day == 0..MaxDay
Ledger == [made : Nat, answered : Nat, restarted : BOOLEAN]

\* The types.  The count is of no later day than today.
QuotaTypes ==
    /\ queue \subseteq News /\ labelled \subseteq News
    /\ takeaway = [n \in News |-> takeaway[n]]
    /\ day \in Day /\ calls \in [Day -> Ledger]
    /\ generated = [on |-> generated.on, count |-> generated.count]
    /\ generated.on \in Day \union {None} /\ generated.count \in Nat
    /\ generated.on # None => generated.on <= day

\* The news of a running cycle have no conclusion yet, and fit into the quota of the day
\* on which it began, even if midnight has passed since.
AskingInv ==
    cycle.pc \in {"ask", "store"} =>
      /\ cycle = [pc |-> cycle.pc, on |-> cycle.on, left |-> cycle.left, got |-> cycle.got]
      /\ cycle.on \in Day /\ generated.on = cycle.on
      /\ cycle.left \subseteq DOMAIN cycle.got /\ DOMAIN cycle.got \subseteq News
      /\ cycle.got = [n \in DOMAIN cycle.got |-> cycle.got[n]]
      /\ generated.count + Cardinality(DOMAIN cycle.got) <= DailyLimit
      /\ \A n \in DOMAIN cycle.got : takeaway[n] = None

\* A cycle that asks has something left to ask, one that publishes has stored it.
CycleInv ==
    /\ cycle.pc \in {"idle", "ask", "store", "publish"}
    /\ cycle.pc = "ask" => cycle.left # {}
    /\ cycle.pc = "publish" => \A n \in cycle.news : n \in News /\ takeaway[n] # None

\* What is published is stored.
ToldIsStored == \A n \in toldOf : n \in News /\ takeaway[n] # None

\* The count is that of its day; on a later day nothing has been answered.
WithinQuota(d) ==
    /\ calls[d].answered <= DailyLimit
    /\ generated.on = d => calls[d].answered = generated.count
    /\ d >= day /\ (generated.on = None \/ generated.on < d) => calls[d].answered = 0

\* Together they are inductive.
QuotaInv ==
    /\ QuotaTypes /\ AskingInv /\ CycleInv /\ ToldIsStored
    /\ \A d \in Day : ~calls[d].restarted => WithinQuota(d)

-----------------------------------------------------------------------------
\* What a step that leaves the cycle, the counts and the conclusions alone keeps.
LEMMA QuietKeeps ==
    ASSUME QuotaInv, UNCHANGED <<takeaway, cycle, generated, day, calls>>,
           queue' \subseteq News, labelled' \subseteq News, toldOf' = toldOf
    PROVE  QuotaInv'
<1>1. QuotaTypes'
  BY DEF QuotaInv, QuotaTypes
<1>2. AskingInv' /\ CycleInv' /\ ToldIsStored'
  BY DEF QuotaInv, AskingInv, CycleInv, ToldIsStored
<1>3. \A d \in Day : ~calls'[d].restarted => WithinQuota(d)'
  BY DEF QuotaInv, WithinQuota
<1> QED BY <1>1, <1>2, <1>3 DEF QuotaInv

\* A batch fits into what is left of the day's quota.
LEMMA StartCycleKeeps == ASSUME QuotaInv, Conclusions!StartCycle PROVE QuotaInv'
<1> DEFINE quota == Conclusions!Quota
           counted == Conclusions!Counted
<1>1. PICK ids \in IF queue # {} THEN {queue}
                   ELSE {{}} \union (IF Scans THEN {Conclusions!Scanned} ELSE {}) :
        LET items == Conclusions!FirstOf(Conclusions!Wanted(ids),
                                         Conclusions!Few(BatchLimit, quota))
        IN  cycle' = IF quota = 0 \/ items = {} THEN Conclusions!Idle
                     ELSE IF configured
                     THEN [pc |-> "ask", on |-> day, left |-> items, got |-> [n \in items |-> None]]
                     ELSE [pc |-> "store", on |-> day, left |-> {},
                           got |-> [n \in items |-> Conclusions!Structured]]
  BY DEF Conclusions!StartCycle
<1>2. /\ queue' = {} /\ generated' = [on |-> day, count |-> counted]
      /\ UNCHANGED <<takeaway, labelled, configured, day, toldOf, restarts, calls>>
  BY DEF Conclusions!StartCycle
<1>3. ids \subseteq News
  BY DEF Conclusions!Scanned, QuotaInv, QuotaTypes
<1> DEFINE wanted == Conclusions!Wanted(ids)
           k == Conclusions!Few(BatchLimit, quota)
           items == Conclusions!FirstOf(wanted, k)
<1>4. wanted \in SUBSET News /\ \A n \in wanted : takeaway[n] = None
  BY <1>3 DEF Conclusions!Wanted
<1>5. /\ counted \in Nat /\ quota \in Nat /\ (quota # 0 => counted + quota = DailyLimit)
      /\ (generated.on = day => counted = generated.count) /\ (generated.on # day => counted = 0)
  BY QuotaAssumption DEF QuotaInv, QuotaTypes, Conclusions!Counted, Conclusions!Quota
<1> HIDE DEF quota, counted
<1>6. k \in Nat /\ k <= quota
  BY <1>5, QuotaAssumption DEF Conclusions!Few
<1>7. items \subseteq wanted
  BY DEF Conclusions!FirstOf
<1> HIDE DEF wanted, k
<1>8. IsFiniteSet(items) /\ Cardinality(items) \in Nat /\ Cardinality(items) <= k
  <2>1. IsFiniteSet(items) /\ Cardinality(items) <= k
    BY <1>4, <1>6, FirstOfCount
  <2> QED BY <2>1, FS_CardinalityType
<1>9. \/ cycle' = Conclusions!Idle
      \/ /\ quota # 0 /\ items # {}
         /\ cycle' = [pc |-> "ask", on |-> day, left |-> items, got |-> [n \in items |-> None]]
      \/ /\ quota # 0 /\ items # {}
         /\ cycle' = [pc |-> "store", on |-> day, left |-> {},
                      got |-> [n \in items |-> Conclusions!Structured]]
  BY <1>1 DEF wanted, k
<1> HIDE DEF items
<1>10. \A n \in items : n \in News /\ takeaway[n] = None
  BY <1>4, <1>7
<1>11. quota # 0 => counted + Cardinality(items) <= DailyLimit
  BY <1>5, <1>6, <1>8, QuotaAssumption
<1>12. generated'.on = day /\ generated'.count = counted /\ day \in Day /\ day' = day
  BY <1>2 DEF QuotaInv, QuotaTypes
<1>13. QuotaTypes'
  <2>1. generated' = [on |-> generated'.on, count |-> generated'.count]
    BY <1>2
  <2>2. day <= day
    BY QuotaAssumption DEF QuotaInv, QuotaTypes, Day
  <2>3. takeaway' = [n \in News |-> takeaway'[n]] /\ calls' \in [Day -> Ledger]
    BY <1>2 DEF QuotaInv, QuotaTypes
  <2> QED BY <1>2, <1>5, <1>12, <2>1, <2>2, <2>3 DEF QuotaInv, QuotaTypes
<1>14. CycleInv' /\ ToldIsStored'
  <2>1. CycleInv'
    BY <1>9 DEF CycleInv, Conclusions!Idle
  <2> QED BY <1>2, <2>1 DEF QuotaInv, ToldIsStored
<1>15. AskingInv'
  <2>1. CASE cycle' = Conclusions!Idle
    BY <2>1 DEF AskingInv, Conclusions!Idle
  <2>2. CASE quota # 0 /\ cycle' = [pc |-> "ask", on |-> day, left |-> items,
                                    got |-> [n \in items |-> None]]
    <3>1. /\ cycle'.pc = "ask" /\ cycle'.on = day /\ cycle'.left = items
          /\ cycle'.got = [n \in items |-> None] /\ DOMAIN cycle'.got = items
          /\ cycle' = [pc |-> cycle'.pc, on |-> cycle'.on, left |-> cycle'.left, got |-> cycle'.got]
          /\ cycle'.got = [n \in DOMAIN cycle'.got |-> cycle'.got[n]]
      BY <2>2
    <3> QED BY <3>1, <2>2, <1>2, <1>10, <1>11, <1>12 DEF AskingInv
  <2>3. CASE quota # 0 /\ cycle' = [pc |-> "store", on |-> day, left |-> {},
                                    got |-> [n \in items |-> Conclusions!Structured]]
    <3>1. /\ cycle'.pc = "store" /\ cycle'.on = day /\ cycle'.left = {}
          /\ cycle'.got = [n \in items |-> Conclusions!Structured] /\ DOMAIN cycle'.got = items
          /\ cycle' = [pc |-> cycle'.pc, on |-> cycle'.on, left |-> cycle'.left, got |-> cycle'.got]
          /\ cycle'.got = [n \in DOMAIN cycle'.got |-> cycle'.got[n]]
      BY <2>3
    <3> QED BY <3>1, <2>3, <1>2, <1>10, <1>11, <1>12 DEF AskingInv
  <2> QED BY <1>9, <2>1, <2>2, <2>3
<1>16. \A d \in Day : ~calls'[d].restarted => WithinQuota(d)'
  <2> SUFFICES ASSUME NEW d \in Day, ~calls[d].restarted PROVE WithinQuota(d)'
    BY <1>2
  <2>1. WithinQuota(d)
    BY DEF QuotaInv
  <2>2. /\ d \in Nat /\ day \in Nat /\ generated.on \in Nat \union {None} /\ None \notin Nat
        /\ (generated.on # None => generated.on <= day)
    BY QuotaAssumption DEF QuotaInv, QuotaTypes, Day
  <2>3. CASE d = day
    <3>1. calls[d].answered = counted
      BY <2>1, <2>2, <2>3, <1>5 DEF WithinQuota
    <3> QED BY <2>1, <2>2, <2>3, <3>1, <1>2, <1>12 DEF WithinQuota
  <2>4. CASE d # day
    <3>1. d >= day => calls[d].answered = 0
      BY <2>1, <2>2, <2>4 DEF WithinQuota
    <3> QED BY <2>1, <2>2, <2>4, <3>1, <1>2, <1>12 DEF WithinQuota
  <2> QED BY <2>3, <2>4
<1> QED BY <1>13, <1>14, <1>15, <1>16 DEF QuotaInv

\* One more call is counted.
LEMMA CallCounted == ASSUME NEW r \in Ledger PROVE [r EXCEPT !.made = @ + 1] \in Ledger
BY DEF Ledger

\* A call ends: what is left shrinks, and the news asked for stay the same.
LEMMA AskKeeps == ASSUME QuotaInv, Conclusions!Ask PROVE QuotaInv'
<1>1. PICK n \in cycle.left, answer \in {"text", "", None} :
        cycle' = [cycle EXCEPT !.left = @ \ {n}, !.got[n] = answer,
                               !.pc = IF cycle.left = {n} THEN "store" ELSE @]
  BY DEF Conclusions!Ask
<1>2. /\ cycle.pc = "ask"
      /\ calls' = [calls EXCEPT ![day].made = @ + 1]
      /\ UNCHANGED <<takeaway, labelled, queue, configured, generated, day, toldOf, restarts>>
  BY DEF Conclusions!Ask
<1> DEFINE pc == IF cycle.left = {n} THEN "store" ELSE "ask"
           left == cycle.left \ {n}
           heard == [cycle.got EXCEPT ![n] = answer]
<1>3. /\ cycle = [pc |-> "ask", on |-> cycle.on, left |-> cycle.left, got |-> cycle.got]
      /\ cycle.on \in Day /\ generated.on = cycle.on
      /\ cycle.left \subseteq DOMAIN cycle.got /\ DOMAIN cycle.got \subseteq News
      /\ cycle.got = [m \in DOMAIN cycle.got |-> cycle.got[m]]
      /\ generated.count + Cardinality(DOMAIN cycle.got) <= DailyLimit
      /\ \A m \in DOMAIN cycle.got : takeaway[m] = None
  BY <1>2 DEF QuotaInv, AskingInv
<1>4. DOMAIN heard = DOMAIN cycle.got /\ heard = [m \in DOMAIN heard |-> heard[m]]
  BY <1>3
<1>5. cycle' = [pc |-> pc, on |-> cycle.on, left |-> left, got |-> heard]
  BY <1>1, <1>2, <1>3
<1>6. pc \in {"ask", "store"} /\ (pc = "ask" => left # {}) /\ left \subseteq DOMAIN heard
  <2>1. left \subseteq DOMAIN heard
    BY <1>3, <1>4
  <2>2. cycle.left # {n} => left # {}
    BY <1>1
  <2> HIDE DEF left, heard
  <2> QED BY <2>1, <2>2
<1> HIDE DEF pc, left, heard
<1>7. AskingInv' /\ CycleInv'
  <2>1. cycle'.pc = pc /\ cycle'.on = cycle.on /\ cycle'.left = left /\ cycle'.got = heard
    BY <1>5
  <2>2. AskingInv'
    BY <1>2, <1>3, <1>4, <1>5, <1>6, <2>1 DEF AskingInv
  <2>3. CycleInv'
    BY <1>6, <2>1 DEF CycleInv
  <2> QED BY <2>2, <2>3
<1>8. /\ calls' \in [Day -> Ledger]
      /\ \A d \in Day : calls'[d].answered = calls[d].answered
      /\ \A d \in Day : calls'[d].restarted = calls[d].restarted
  <2>1. calls \in [Day -> Ledger]
    BY DEF QuotaInv, QuotaTypes
  <2>2. \A d \in Day : calls'[d] = IF d = day THEN [calls[d] EXCEPT !.made = @ + 1] ELSE calls[d]
    BY <1>2, <2>1
  <2>3. \A d \in Day : [calls[d] EXCEPT !.made = @ + 1] \in Ledger
    BY <2>1, CallCounted, Zenon
  <2>4. calls' \in [Day -> Ledger]
    BY <1>2, <2>1, <2>2, <2>3
  <2>5. \A d \in Day : /\ [calls[d] EXCEPT !.made = @ + 1].answered = calls[d].answered
                       /\ [calls[d] EXCEPT !.made = @ + 1].restarted = calls[d].restarted
    BY <2>1 DEF Ledger
  <2> QED BY <2>2, <2>4, <2>5
<1>9. QuotaTypes' /\ ToldIsStored'
  BY <1>2, <1>8 DEF QuotaInv, QuotaTypes, ToldIsStored
<1>10. \A d \in Day : ~calls'[d].restarted => WithinQuota(d)'
  BY <1>2, <1>8 DEF QuotaInv, WithinQuota
<1> QED BY <1>7, <1>9, <1>10 DEF QuotaInv

\* The answers are no more than the news asked for.
LEMMA AnsweredCount ==
    ASSUME QuotaInv, cycle.pc \in {"ask", "store"}
    PROVE  /\ Conclusions!Answered \subseteq DOMAIN cycle.got
           /\ Cardinality(Conclusions!Answered) \in Nat
           /\ Cardinality(Conclusions!Answered) <= Cardinality(DOMAIN cycle.got)
           /\ Cardinality(DOMAIN cycle.got) \in Nat
<1>1. Conclusions!Answered \in SUBSET DOMAIN cycle.got
  BY DEF Conclusions!Answered
<1>2. DOMAIN cycle.got \in SUBSET News
  BY DEF QuotaInv, AskingInv
<1>3. IsFiniteSet(DOMAIN cycle.got)
  BY <1>2, QuotaAssumption, FS_Subset
<1>4. IsFiniteSet(Conclusions!Answered)
      /\ Cardinality(Conclusions!Answered) <= Cardinality(DOMAIN cycle.got)
  BY <1>1, <1>3, FS_Subset
<1> QED BY <1>1, <1>3, <1>4, FS_CardinalityType

\* The answers are counted on the day of their cycle, which is the day that is counted.
LEMMA StoreKeeps == ASSUME QuotaInv, Conclusions!Store PROVE QuotaInv'
<1> DEFINE answered == Conclusions!Answered
           number == Cardinality(answered)
<1>1. /\ cycle.pc = "store"
      /\ takeaway' = [n \in News |-> IF n \in answered THEN cycle.got[n] ELSE takeaway[n]]
      /\ generated' = [generated EXCEPT !.count = @ + number]
      /\ calls' = [calls EXCEPT ![cycle.on].answered = @ + number]
      /\ cycle' = [pc |-> "publish", news |-> answered]
      /\ UNCHANGED <<labelled, queue, configured, day, toldOf, restarts>>
  <2>1. Conclusions!Cardinality(answered) = number
    BY CountIs
  <2> HIDE DEF number
  <2> QED BY <2>1 DEF Conclusions!Store
<1>2. \A n \in answered : cycle.got[n] # None
  BY DEF Conclusions!Answered
<1>3. /\ answered \subseteq DOMAIN cycle.got /\ number \in Nat
      /\ number <= Cardinality(DOMAIN cycle.got) /\ Cardinality(DOMAIN cycle.got) \in Nat
  BY <1>1, AnsweredCount
<1> HIDE DEF answered, number
<1>4. /\ cycle.on \in Day /\ generated.on = cycle.on /\ DOMAIN cycle.got \subseteq News
      /\ generated.count + Cardinality(DOMAIN cycle.got) <= DailyLimit
      /\ generated.count \in Nat
  BY <1>1 DEF QuotaInv, AskingInv, QuotaTypes
<1>5. generated' = [on |-> generated.on, count |-> generated.count + number]
  BY <1>1 DEF QuotaInv, QuotaTypes
<1>6. /\ calls' \in [Day -> Ledger]
      /\ \A d \in Day : calls'[d].restarted = calls[d].restarted
      /\ \A d \in Day : calls'[d].answered =
           IF d = cycle.on THEN calls[d].answered + number ELSE calls[d].answered
  BY <1>1, <1>3, <1>4 DEF QuotaInv, QuotaTypes, Ledger
<1>7. QuotaTypes'
  BY <1>1, <1>3, <1>4, <1>5, <1>6 DEF QuotaInv, QuotaTypes
<1>8. AskingInv' /\ CycleInv'
  BY <1>1, <1>2, <1>3, <1>4 DEF AskingInv, CycleInv
<1>9. ToldIsStored'
  BY <1>1, <1>2 DEF QuotaInv, ToldIsStored
<1>10. \A d \in Day : ~calls'[d].restarted => WithinQuota(d)'
  <2> SUFFICES ASSUME NEW d \in Day, ~calls[d].restarted PROVE WithinQuota(d)'
    BY <1>6
  <2>1. WithinQuota(d) /\ calls[d].answered \in Nat
    BY DEF QuotaInv, QuotaTypes, Ledger
  <2>2. d \in Nat /\ cycle.on \in Nat /\ None \notin Nat /\ day \in Nat /\ day' = day
        /\ cycle.on <= day
    BY <1>1, <1>4, QuotaAssumption DEF QuotaInv, QuotaTypes, Day
  <2>3. generated'.on = cycle.on /\ generated'.count = generated.count + number
    BY <1>4, <1>5
  <2>4. CASE d = cycle.on
    <3>1. calls'[d].answered = generated'.count /\ generated'.count <= DailyLimit
      BY <1>3, <1>4, <1>6, <2>1, <2>3, <2>4, QuotaAssumption DEF WithinQuota
    <3> QED BY <2>2, <2>3, <2>4, <3>1 DEF WithinQuota
  <2>5. CASE d # cycle.on
    <3>1. calls'[d].answered = calls[d].answered
      BY <1>6, <2>5
    <3> QED BY <1>4, <2>1, <2>2, <2>3, <2>5, <3>1 DEF WithinQuota
  <2> QED BY <2>4, <2>5
<1> QED BY <1>7, <1>8, <1>9, <1>10 DEF QuotaInv

\* A cycle that ends, having published or without a commit.
LEMMA EndOfCycleKeeps ==
    ASSUME QuotaInv, Conclusions!StoreFails \/ Conclusions!Publish PROVE QuotaInv'
<1>1. /\ cycle' = [pc |-> "idle"] /\ UNCHANGED <<takeaway, labelled, queue, generated, day, calls>>
  BY DEF Conclusions!StoreFails, Conclusions!Publish, Conclusions!Idle
<1>2. cycle'.pc = "idle"
  BY <1>1
<1>3. QuotaTypes'
  BY <1>1 DEF QuotaInv, QuotaTypes
<1>4. AskingInv' /\ CycleInv'
  BY <1>2 DEF AskingInv, CycleInv
<1>5. ToldIsStored'
  <2>1. CASE Conclusions!StoreFails
    <3>1. toldOf' = toldOf
      BY <2>1 DEF Conclusions!StoreFails
    <3> QED BY <1>1, <3>1 DEF QuotaInv, ToldIsStored
  <2>2. CASE Conclusions!Publish
    <3>1. cycle.pc = "publish" /\ toldOf' = toldOf \union cycle.news
      BY <2>2 DEF Conclusions!Publish
    <3> QED BY <1>1, <3>1 DEF QuotaInv, ToldIsStored, CycleInv
  <2> QED BY <2>1, <2>2
<1>6. \A d \in Day : ~calls'[d].restarted => WithinQuota(d)'
  BY <1>1 DEF QuotaInv, WithinQuota
<1> QED BY <1>3, <1>4, <1>5, <1>6 DEF QuotaInv

\* A new day, on which nothing has been answered.
LEMMA MidnightKeeps == ASSUME QuotaInv, Conclusions!Midnight PROVE QuotaInv'
<1>1. /\ day < MaxDay /\ day' = day + 1
      /\ UNCHANGED <<takeaway, labelled, queue, cycle, generated, toldOf, calls>>
  BY DEF Conclusions!Midnight
<1>2. day \in Nat /\ day' \in Day /\ \A d \in Day : d >= day' => d >= day
  BY <1>1, QuotaAssumption DEF QuotaInv, QuotaTypes, Day
<1>3. generated.on # None => generated.on <= day'
  BY <1>1, <1>2, QuotaAssumption DEF QuotaInv, QuotaTypes, Day
<1>4. QuotaTypes'
  BY <1>1, <1>2, <1>3 DEF QuotaInv, QuotaTypes
<1>5. AskingInv' /\ CycleInv' /\ ToldIsStored'
  BY <1>1 DEF QuotaInv, AskingInv, CycleInv, ToldIsStored
<1>6. \A d \in Day : ~calls'[d].restarted => WithinQuota(d)'
  BY <1>1, <1>2 DEF QuotaInv, WithinQuota
<1> QED BY <1>4, <1>5, <1>6 DEF QuotaInv

\* The count is lost: the day is excepted from the promise.
LEMMA RestartKeeps == ASSUME QuotaInv, Conclusions!Restart PROVE QuotaInv'
<1>1. /\ queue' = {} /\ cycle' = [pc |-> "idle"]
      /\ generated' = [on |-> None, count |-> 0]
      /\ calls' = [calls EXCEPT ![day].restarted = TRUE]
      /\ UNCHANGED <<takeaway, labelled, day, toldOf>>
  BY DEF Conclusions!Restart, Conclusions!Idle
<1>2. cycle'.pc = "idle" /\ generated'.on = None /\ generated'.count = 0 /\ day \in Day
  BY <1>1 DEF QuotaInv, QuotaTypes
<1>3. /\ calls' \in [Day -> Ledger] /\ calls'[day].restarted
      /\ \A d \in Day : calls'[d].answered = calls[d].answered
      /\ \A d \in Day \ {day} : calls'[d] = calls[d]
  BY <1>1 DEF QuotaInv, QuotaTypes, Ledger
<1>4. QuotaTypes'
  BY <1>1, <1>2, <1>3 DEF QuotaInv, QuotaTypes
<1>5. AskingInv' /\ CycleInv' /\ ToldIsStored'
  BY <1>1, <1>2 DEF QuotaInv, AskingInv, CycleInv, ToldIsStored
<1>6. \A d \in Day : ~calls'[d].restarted => WithinQuota(d)'
  <2> SUFFICES ASSUME NEW d \in Day, d # day, ~calls[d].restarted PROVE WithinQuota(d)'
    BY <1>3
  <2>1. WithinQuota(d)
    BY DEF QuotaInv
  <2>2. /\ d \in Nat /\ day \in Nat /\ generated.on \in Nat \union {None} /\ None \notin Nat
        /\ (generated.on # None => generated.on <= day)
    BY QuotaAssumption DEF QuotaInv, QuotaTypes, Day
  <2>3. d >= day => calls[d].answered = 0
    BY <2>1, <2>2 DEF WithinQuota
  <2> QED BY <1>1, <1>2, <1>3, <2>1, <2>2, <2>3 DEF WithinQuota
<1> QED BY <1>4, <1>5, <1>6 DEF QuotaInv

\* Nothing is stored, and nothing counted, in a new database.
LEMMA QuotaInitInv == Conclusions!Init => QuotaInv
<1> SUFFICES ASSUME Conclusions!Init PROVE QuotaInv
  OBVIOUS
<1>1. /\ takeaway = [n \in News |-> None] /\ labelled = {} /\ queue = {} /\ toldOf = {}
      /\ cycle = [pc |-> "idle"] /\ generated = [on |-> None, count |-> 0] /\ day = 0
      /\ calls = [d \in Day |-> Conclusions!NoCalls]
  BY DEF Conclusions!Init, Conclusions!Idle, Day
<1>2. /\ Conclusions!NoCalls \in Ledger
      /\ Conclusions!NoCalls.answered = 0
  BY DEF Conclusions!NoCalls, Ledger
<1>3. generated.on = None /\ generated.count = 0 /\ cycle.pc = "idle"
  BY <1>1
<1>4. calls \in [Day -> Ledger] /\ \A d \in Day : calls[d].answered = 0
  BY <1>1, <1>2
<1>5. QuotaTypes
  BY <1>1, <1>3, <1>4, QuotaAssumption DEF QuotaTypes, Day
<1>6. AskingInv /\ CycleInv /\ ToldIsStored
  BY <1>1, <1>3 DEF AskingInv, CycleInv, ToldIsStored
<1>7. \A d \in Day : WithinQuota(d)
  BY <1>3, <1>4, QuotaAssumption DEF WithinQuota
<1> QED BY <1>5, <1>6, <1>7 DEF QuotaInv

\* Every step of the worker, and of what shows and labels the news, preserves it.
LEMMA QuotaNextInv == QuotaInv /\ [Conclusions!Next]_takeawaysVars => QuotaInv'
<1> SUFFICES ASSUME QuotaInv, [Conclusions!Next]_takeawaysVars PROVE QuotaInv'
  OBVIOUS
<1>1. CASE Conclusions!Label \/ Conclusions!BuildLayout \/ Conclusions!Configure
           \/ UNCHANGED takeawaysVars
  <2>1. queue \subseteq News /\ labelled \subseteq News
    BY DEF QuotaInv, QuotaTypes
  <2>2. CASE Conclusions!Label
    BY <2>1, <2>2, QuietKeeps DEF Conclusions!Label
  <2>3. CASE Conclusions!BuildLayout
    BY <2>1, <2>3, QuietKeeps DEF Conclusions!BuildLayout
  <2>4. CASE Conclusions!Configure \/ UNCHANGED takeawaysVars
    BY <2>1, <2>4, QuietKeeps DEF Conclusions!Configure, takeawaysVars
  <2> QED BY <1>1, <2>2, <2>3, <2>4
<1>2. CASE Conclusions!StartCycle \/ Conclusions!Ask \/ Conclusions!Store
           \/ Conclusions!StoreFails \/ Conclusions!Publish
  BY <1>2, StartCycleKeeps, AskKeeps, StoreKeeps, EndOfCycleKeeps
<1>3. CASE Conclusions!Midnight \/ Conclusions!Restart
  BY <1>3, MidnightKeeps, RestartKeeps
<1> QED BY <1>1, <1>2, <1>3 DEF Conclusions!Next

\* A news item that has a conclusion is not among those a cycle stores.
LEMMA ConclusionsStay ==
    ASSUME QuotaInv, [Conclusions!Next]_takeawaysVars, NEW n \in News, takeaway[n] # None
    PROVE  takeaway'[n] = takeaway[n]
<1>1. CASE Conclusions!Store
  <2>1. takeaway'[n] = IF n \in Conclusions!Answered THEN cycle.got[n] ELSE takeaway[n]
    BY <1>1 DEF Conclusions!Store
  <2>2. n \notin DOMAIN cycle.got
    BY <1>1 DEF QuotaInv, AskingInv, Conclusions!Store
  <2>3. n \notin Conclusions!Answered
    BY <2>2 DEF Conclusions!Answered
  <2> QED BY <2>1, <2>3
<1>2. CASE ~Conclusions!Store
  <2>1. CASE \/ Conclusions!Label \/ Conclusions!BuildLayout \/ Conclusions!Configure
             \/ Conclusions!Midnight \/ Conclusions!Restart
    BY <2>1 DEF Conclusions!Label, Conclusions!BuildLayout, Conclusions!Configure,
       Conclusions!Midnight, Conclusions!Restart
  <2>2. CASE \/ Conclusions!StartCycle \/ Conclusions!Ask \/ Conclusions!StoreFails
             \/ Conclusions!Publish
    BY <2>2 DEF Conclusions!StartCycle, Conclusions!Ask, Conclusions!StoreFails, Conclusions!Publish
  <2>3. CASE UNCHANGED takeawaysVars
    BY <2>3 DEF takeawaysVars
  <2> QED BY <1>2, <2>1, <2>2, <2>3 DEF Conclusions!Next
<1> QED BY <1>1, <1>2

\* What SoundStep says of the state after a step.
QuotaHolds ==
    /\ Conclusions!TypeOK
    /\ \A d \in Day : ~calls[d].restarted => calls[d].answered <= DailyLimit

\* It follows from the invariant.
LEMMA QuotaInvSuffices == QuotaInv => QuotaHolds
<1> SUFFICES ASSUME QuotaInv PROVE QuotaHolds
  OBVIOUS
<1>1. Conclusions!TypeOK
  BY DEF QuotaInv, QuotaTypes, CycleInv, ToldIsStored, Conclusions!TypeOK
<1> QED BY <1>1 DEF QuotaHolds, QuotaInv, WithinQuota

\* Whichever calls fail, and whenever midnight comes, a commit fails, the LLM is
\* configured or the process restarts: a conclusion is generated once and stays, only what
\* is stored is published, and the answers of the cycles begun on a day are within its
\* quota unless the process was restarted on it (generate_for_ids, run_takeaway_cycle).
THEOREM TakeawaysTheorem == OneSpec => TakeawaysAreSound
<1>1. OneInit => QuotaInv
  BY QuotaInitInv DEF OneInit
<1>2. [OneNext]_allVars => [Conclusions!Next]_takeawaysVars
  BY DEF OneNext, allVars
<1>3. QuotaInv /\ [OneNext]_allVars => QuotaInv'
  BY <1>2, QuotaNextInv
<1>4. QuotaInv /\ QuotaInv' /\ [OneNext]_allVars
        => [active = "takeaways" => Conclusions!SoundStep]_takeawaysVars
  <2> SUFFICES ASSUME QuotaInv, QuotaInv', [OneNext]_allVars PROVE Conclusions!SoundStep
    OBVIOUS
  <2>1. QuotaHolds'
    BY QuotaInvSuffices, PTL
  <2>2. \A n \in News : takeaway[n] # None => takeaway'[n] = takeaway[n]
    BY <1>2, ConclusionsStay
  <2> QED BY <2>1, <2>2 DEF QuotaHolds, Conclusions!SoundStep, Day
<1> QED BY <1>1, <1>3, <1>4, PTL DEF OneSpec, TakeawaysAreSound
-----------------------------------------------------------------------------
\* A set of numbers that is not empty has a least element.
LEMMA LeastNumber ==
    ASSUME NEW T \in SUBSET Nat, T # {}
    PROVE  \E x \in T : \A y \in T : x <= y
<1> DEFINE R == OpToRel(<, Nat)
<1>1. IsWellFoundedOn(R, Nat)
  BY NatLessThanWellFounded
<1>2. \A x, y \in Nat : <<y, x>> \in R <=> y < x
  BY DEF OpToRel
<1> HIDE DEF R
<1>3. PICK x \in T : \A y \in T : ~(<<y, x>> \in R)
  BY <1>1, WFMin
<1>4. \A y \in T : y \in Nat /\ x \in Nat /\ ~(y < x)
  BY <1>2, <1>3
<1>5. \A y \in T : x <= y
  BY <1>4
<1> QED BY <1>3, <1>5

\* Induction, with the numbers that have the property as a set.
LEMMA Induction ==
    ASSUME NEW T \in SUBSET Nat, 0 \in T, \A n \in T : n + 1 \in T
    PROVE  \A n \in Nat : n \in T
<1> SUFFICES ASSUME Nat \ T # {} PROVE FALSE
  OBVIOUS
<1>1. PICK x \in Nat \ T : \A y \in Nat \ T : x <= y
  BY LeastNumber
<1>2. x # 0 /\ x - 1 \in Nat
  BY <1>1
<1>3. x - 1 \in T
  BY <1>1, <1>2
<1> QED BY <1>1, <1>2, <1>3

\* A finite set has a finite image.
LEMMA FiniteImage ==
    ASSUME NEW S, IsFiniteSet(S), NEW f
    PROVE  IsFiniteSet({f[x] : x \in S})
<1> DEFINE T == {f[x] : x \in S}
           g == [x \in S |-> f[x]]
<1>1. g \in Surjection(S, T)
  BY DEF Surjection
<1> HIDE DEF g, T
<1>2. IsFiniteSet(T)
  BY <1>1, FS_Surjection
<1> QED BY <1>2 DEF T

\* An element adds at most one.
LEMMA OneMore ==
    ASSUME NEW S, IsFiniteSet(S), NEW x
    PROVE  IsFiniteSet(S \cup {x}) /\ Cardinality(S \cup {x}) <= Cardinality(S) + 1
<1>1. Cardinality(S) \in Nat
  BY FS_CardinalityType
<1>2. IsFiniteSet(S \cup {x})
  BY FS_AddElement
<1>3. Cardinality(S \cup {x}) = IF x \in S THEN Cardinality(S) ELSE Cardinality(S) + 1
  BY FS_AddElement
<1> QED BY <1>1, <1>2, <1>3

\* A time, split into the day and the slot.
LEMMA SlotOf ==
    ASSUME NEW d \in Int, NEW e \in Nat, e < SlotsPerDay
    PROVE  (d * SlotsPerDay + e) % SlotsPerDay = e
<1> DEFINE y == d * SlotsPerDay + e
           q == y \div SlotsPerDay
           m == y % SlotsPerDay
<1>1. SlotsPerDay \in Nat \ {0} /\ y \in Int
  BY VerdictsAssumption
<1>2. q \in Int /\ m \in Nat /\ m < SlotsPerDay /\ y = SlotsPerDay * q + m
  BY <1>1
<1>3. y = d * SlotsPerDay + e
  OBVIOUS
<1> HIDE DEF y, q, m
<1>4. CASE q + 1 <= d
  <2>1. (q + 1) * SlotsPerDay <= d * SlotsPerDay
    BY <1>1, <1>2, <1>4
  <2> QED BY <1>1, <1>2, <1>3, <2>1
<1>5. CASE d + 1 <= q
  <2>1. (d + 1) * SlotsPerDay <= q * SlotsPerDay
    BY <1>1, <1>2, <1>5
  <2> QED BY <1>1, <1>2, <1>3, <2>1
<1>6. CASE q = d
  BY <1>1, <1>2, <1>3, <1>6 DEF m
<1> QED BY <1>1, <1>2, <1>4, <1>5, <1>6 DEF m, y

\* A moment has a day and a slot, and is made of them.
LEMMA DayAndSlot ==
    ASSUME NEW c \in Nat
    PROVE  /\ c \div SlotsPerDay \in Nat /\ c % SlotsPerDay \in Nat /\ c % SlotsPerDay < SlotsPerDay
           /\ c = (c \div SlotsPerDay) * SlotsPerDay + (c % SlotsPerDay)
<1> DEFINE q == c \div SlotsPerDay
           m == c % SlotsPerDay
<1>1. SlotsPerDay \in Nat \ {0} /\ c \in Nat
  BY VerdictsAssumption
<1>2. q \in Int /\ m \in Nat /\ m < SlotsPerDay /\ c = SlotsPerDay * q + m
  BY <1>1
<1>3. q >= 0
  BY <1>1
<1> HIDE DEF q, m
<1>4. q \in Nat /\ SlotsPerDay \in Int
  BY <1>1, <1>2, <1>3
<1>5. SlotsPerDay * q = q * SlotsPerDay
  BY <1>4
<1>6. c = q * SlotsPerDay + m
  BY <1>2, <1>5, Zenon
<1> QED BY <1>2, <1>4, <1>6, Zenon DEF q, m

\* An alert written in the quiet hours is for their end, any other one for now.
LEMMA VisibleInTime ==
    ASSUME NEW c \in Nat
    PROVE  /\ Answered!VisibleAt(c) \in Nat /\ Answered!VisibleAt(c) >= c
           /\ ~Answered!Night(Answered!VisibleAt(c))
           /\ \A x \in c..(Answered!VisibleAt(c) - 1) : Answered!Night(x)
           /\ Answered!VisibleAt(c) = c <=> ~Answered!Night(c)
<1> DEFINE d == c \div SlotsPerDay
           e == c % SlotsPerDay
           v == Answered!VisibleAt(c)
           base == d * SlotsPerDay
           next == (d + 1) * SlotsPerDay
<1>1. /\ SlotsPerDay \in Nat \ {0} /\ QuietStart \in Nat /\ QuietEnd \in Nat
      /\ QuietStart < SlotsPerDay /\ QuietEnd < SlotsPerDay
  BY VerdictsAssumption
<1>2. d \in Nat /\ e \in Nat /\ e < SlotsPerDay /\ c = base + e
  BY DayAndSlot, Zenon
<1>3. base \in Nat /\ next \in Nat /\ next = base + SlotsPerDay
  BY <1>1, <1>2
<1>4. \A f \in Nat : f < SlotsPerDay => Answered!Slot(base + f) = f /\ Answered!Slot(next + f) = f
  BY <1>2, SlotOf DEF Answered!Slot
<1>5. Answered!Slot(c) = e /\ Answered!Day(c) = d
  BY DEF Answered!Slot, Answered!Day
<1>6. v = IF Answered!Night(c)
          THEN IF QuietStart > QuietEnd /\ e >= QuietStart THEN next + QuietEnd ELSE base + QuietEnd
          ELSE c
  <2> HIDE DEF d, e
  <2>1. CASE QuietStart > QuietEnd /\ e >= QuietStart
    BY <1>1, <1>2, <1>5, <2>1 DEF Answered!VisibleAt
  <2>2. CASE ~(QuietStart > QuietEnd /\ e >= QuietStart)
    BY <1>1, <1>2, <1>5, <2>2 DEF Answered!VisibleAt
  <2> QED BY <2>1, <2>2
<1> HIDE DEF v, d, e, base, next
<1>7. CASE ~Answered!Night(c)
  BY <1>6, <1>7 DEF v
<1>8. CASE Answered!Night(c) /\ QuietStart <= QuietEnd
  <2>1. QuietStart <= e /\ e < QuietEnd /\ v = base + QuietEnd
    BY <1>1, <1>2, <1>5, <1>6, <1>8 DEF Answered!Night
  <2>2. ~Answered!Night(v)
    BY <1>1, <1>4, <1>8, <2>1 DEF Answered!Night
  <2>3. \A x \in c..(v - 1) : Answered!Night(x)
    <3> TAKE x \in c..(v - 1)
    <3>1. x - base \in Nat /\ x - base < QuietEnd /\ x - base >= QuietStart /\ x = base + (x - base)
      BY <1>1, <1>2, <1>3, <2>1
    <3>2. Answered!Slot(x) = x - base
      BY <1>1, <1>4, <3>1
    <3> QED BY <1>1, <1>8, <3>1, <3>2 DEF Answered!Night
  <2> QED BY <1>1, <1>2, <1>3, <1>8, <2>1, <2>2, <2>3 DEF v
<1>9. CASE Answered!Night(c) /\ QuietStart > QuietEnd /\ e < QuietStart
  <2>1. e < QuietEnd /\ v = base + QuietEnd
    BY <1>1, <1>2, <1>5, <1>6, <1>9 DEF Answered!Night
  <2>2. ~Answered!Night(v)
    BY <1>1, <1>4, <1>9, <2>1 DEF Answered!Night
  <2>3. \A x \in c..(v - 1) : Answered!Night(x)
    <3> TAKE x \in c..(v - 1)
    <3>1. x - base \in Nat /\ x - base < QuietEnd /\ x = base + (x - base)
      BY <1>1, <1>2, <1>3, <2>1
    <3>2. Answered!Slot(x) = x - base
      BY <1>1, <1>4, <3>1
    <3> QED BY <1>1, <1>9, <3>1, <3>2 DEF Answered!Night
  <2> QED BY <1>1, <1>2, <1>3, <1>9, <2>1, <2>2, <2>3 DEF v
<1>10. CASE Answered!Night(c) /\ QuietStart > QuietEnd /\ e >= QuietStart
  <2>1. v = next + QuietEnd
    BY <1>1, <1>2, <1>6, <1>10
  <2>2. ~Answered!Night(v)
    BY <1>1, <1>4, <1>10, <2>1 DEF Answered!Night
  <2>3. \A x \in c..(v - 1) : Answered!Night(x)
    <3> TAKE x \in c..(v - 1)
    <3>1. CASE x < next
      <4>1. x - base \in Nat /\ x - base < SlotsPerDay /\ x - base >= QuietStart
            /\ x = base + (x - base)
        BY <1>1, <1>2, <1>3, <1>10, <2>1, <3>1
      <4>2. Answered!Slot(x) = x - base
        BY <1>1, <1>4, <4>1
      <4> QED BY <1>1, <1>10, <4>1, <4>2 DEF Answered!Night
    <3>2. CASE x >= next
      <4>1. x - next \in Nat /\ x - next < QuietEnd /\ x = next + (x - next)
        BY <1>1, <1>2, <1>3, <2>1, <3>2
      <4>2. Answered!Slot(x) = x - next
        BY <1>1, <1>4, <4>1
      <4> QED BY <1>1, <1>10, <4>1, <4>2 DEF Answered!Night
    <3> QED BY <1>1, <1>2, <1>3, <2>1, <3>1, <3>2
  <2> QED BY <1>1, <1>2, <1>3, <1>10, <2>1, <2>2, <2>3 DEF v
<1> QED BY <1>1, <1>2, <1>7, <1>8, <1>9, <1>10
-----------------------------------------------------------------------------
(* ImpactAlerts. *)

\* The unique key of the alerts table.
OneOfEachKey(rs) == \A r, q \in rs : r.key = q.key => r = q

\* A row of this moment.
WrittenNow(r) == r.at = alertClock /\ r.visible = Answered!VisibleAt(alertClock)

\* From rs to qs rows were only added: now, and under keys of their own.
Grown(rs, qs) ==
    /\ IsFiniteSet(qs) /\ OneOfEachKey(qs) /\ rs \subseteq qs
    /\ \A r \in qs \ rs : WrittenNow(r) /\ r.key \notin Answered!KeysOf(rs)

\* The rows are finitely many and differ in their keys, and a digest is of a window that is over.
RowsAreRows ==
    /\ IsFiniteSet(alertRows) /\ OneOfEachKey(alertRows)
    /\ \A r \in alertRows : r.key[1] = "digest" =>
         r.key[3] \in Nat /\ (r.key[3] + 1) * DigestLength <= alertClock

\* No digest has been made of a window that still has hits.
WindowsAreOpen ==
    /\ IsFiniteSet(windows)
    /\ \A h \in windows :
         h.win \in Nat /\ Answered!DigestKey(h.group, h.win) \notin Answered!KeysOf(alertRows)

\* The inductive invariant.
VerdictsInv ==
    /\ Answered!TypeOK /\ RowsAreRows /\ WindowsAreOpen /\ \A k \in byAi : k[1] = "news"
    /\ Answered!NothingOwedIsDropped /\ Answered!LimitsHold /\ Answered!QuietAndSent

\* Hits of this moment.
HitsOfNow(hs) ==
    /\ IsFiniteSet(hs)
    /\ \A h \in hs : h.group \in Answered!Groups /\ h.win = alertClock \div DigestLength

\* An alert or a hit for what was owed.
Covered(o, rs, hs) ==
    (\E r \in rs : Answered!InRow(o, r)) \/ (\E h \in hs : Answered!InWindow(o, h))

-----------------------------------------------------------------------------
\* The instance counts as FiniteSets does.
LEMMA AnsweredCardinality == \A S : Answered!Cardinality(S) = Cardinality(S)
BY Zenon DEF Answered!Cardinality, Cardinality

\* What Row makes is a row of this moment.
LEMMA RowFields ==
    ASSUME NEW k, NEW h
    PROVE  /\ WrittenNow(Answered!Row(k, h))
           /\ Answered!Row(k, h).key = k /\ Answered!Row(k, h).hits = h
BY DEF WrittenNow, Answered!Row

\* create_if_absent adds the row or finds its key taken.
LEMMA CreateGrows ==
    ASSUME NEW rs, IsFiniteSet(rs), OneOfEachKey(rs), NEW r, WrittenNow(r)
    PROVE  /\ Grown(rs, Answered!Create(rs, r))
           /\ r.key \in Answered!KeysOf(Answered!Create(rs, r))
           /\ \A q \in Answered!Create(rs, r) \ rs : q = r
<1>1. CASE r.key \in Answered!KeysOf(rs)
  BY <1>1 DEF Answered!Create, Grown
<1>2. CASE r.key \notin Answered!KeysOf(rs)
  <2>1. Answered!Create(rs, r) = rs \cup {r}
    BY <1>2 DEF Answered!Create
  <2>2. IsFiniteSet(rs \cup {r})
    BY FS_AddElement
  <2>3. \A q \in rs : q.key # r.key
    BY <1>2 DEF Answered!KeysOf
  <2>4. OneOfEachKey(rs \cup {r})
    BY <2>3 DEF OneOfEachKey
  <2> QED BY <1>2, <2>1, <2>2, <2>4 DEF Grown, Answered!KeysOf
<1> QED BY <1>1, <1>2

\* So does writing several rows, one for each new key.
LEMMA CreateAllGrows ==
    ASSUME NEW rs, IsFiniteSet(rs), OneOfEachKey(rs),
           NEW new, IsFiniteSet(new), \A r \in new : WrittenNow(r)
    PROVE  /\ Grown(rs, Answered!CreateAll(rs, new))
           /\ \A r \in new : r.key \in Answered!KeysOf(Answered!CreateAll(rs, new))
           /\ \A q \in Answered!CreateAll(rs, new) \ rs : q \in new
<1> DEFINE keys == Answered!KeysOf(new) \ Answered!KeysOf(rs)
           one(k) == CHOOSE r \in new : r.key = k
           wider == {one(k) : k \in keys}
<1>1. \A k \in keys : one(k) \in new /\ one(k).key = k
  <2> TAKE k \in keys
  <2>1. \E r \in new : r.key = k
    BY DEF Answered!KeysOf
  <2> QED BY <2>1
<1>2. Answered!CreateAll(rs, new) = rs \cup wider
  BY DEF Answered!CreateAll
<1> HIDE DEF one
<1>3. wider \subseteq new /\ IsFiniteSet(wider)
  <2>1. wider \subseteq new
    BY <1>1
  <2> QED BY <2>1, FS_Subset
<1>4. IsFiniteSet(rs \cup wider)
  BY <1>3, FS_Union
<1>5. \A q \in wider : q.key \notin Answered!KeysOf(rs) /\ q = one(q.key)
  BY <1>1
<1>6. \A q \in rs : q.key \in Answered!KeysOf(rs)
  BY DEF Answered!KeysOf
<1>7. OneOfEachKey(rs \cup wider)
  BY <1>5, <1>6 DEF OneOfEachKey
<1>8. \A r \in new : r.key \in Answered!KeysOf(rs \cup wider)
  <2> TAKE r \in new
  <2>1. CASE r.key \in Answered!KeysOf(rs)
    BY <2>1 DEF Answered!KeysOf
  <2>2. CASE r.key \notin Answered!KeysOf(rs)
    <3>1. r.key \in keys
      BY <2>2 DEF Answered!KeysOf
    <3>2. one(r.key) \in wider /\ one(r.key).key = r.key
      BY <1>1, <3>1
    <3> QED BY <3>2 DEF Answered!KeysOf
  <2> QED BY <2>1, <2>2
<1> QED BY <1>2, <1>3, <1>4, <1>5, <1>7, <1>8 DEF Grown

\* Rows added to rows that were added.
LEMMA GrownTwice ==
    ASSUME NEW rs, NEW qs, NEW ps, Grown(rs, qs), Grown(qs, ps)
    PROVE  Grown(rs, ps)
BY DEF Grown, Answered!KeysOf
-----------------------------------------------------------------------------
\* The clock and the bounds are numbers.
LEMMA ClockTypes ==
    ASSUME VerdictsInv
    PROVE  alertClock \in Nat /\ MaxTime \in Nat /\ DigestLength \in Nat \ {0}
BY VerdictsAssumption DEF VerdictsInv, Answered!TypeOK

\* Today is one of the days the limits are about.
LEMMA DayInTime ==
    ASSUME VerdictsInv
    PROVE  Answered!Day(alertClock) \in 0..Answered!Day(MaxTime)
<1>1. alertClock \in Nat /\ MaxTime \in Nat /\ alertClock <= MaxTime
  BY VerdictsAssumption DEF VerdictsInv, Answered!TypeOK
<1> DEFINE x == alertClock \div SlotsPerDay
           y == MaxTime \div SlotsPerDay
<1>2. /\ x \in Nat /\ y \in Nat /\ SlotsPerDay \in Nat
      /\ x * SlotsPerDay <= alertClock /\ MaxTime < (y + 1) * SlotsPerDay
  <2>1. SlotsPerDay \in Nat \ {0}
    BY VerdictsAssumption
  <2> QED BY <1>1, <2>1
<1> HIDE DEF x, y
<1>3. x <= y
  <2> SUFFICES ASSUME y + 1 <= x PROVE FALSE
    BY <1>2
  <2>1. (y + 1) * SlotsPerDay <= x * SlotsPerDay
    BY <1>2
  <2>2. (y + 1) * SlotsPerDay \in Int /\ x * SlotsPerDay \in Int
    BY <1>2
  <2> QED BY <1>1, <1>2, <2>1, <2>2
<1> QED BY <1>2, <1>3 DEF x, y, Answered!Day

\* The window of this moment is not over.
LEMMA CurrentWindow ==
    ASSUME VerdictsInv
    PROVE  /\ alertClock \div DigestLength \in Nat
           /\ alertClock < (alertClock \div DigestLength + 1) * DigestLength
<1> DEFINE w == alertClock \div DigestLength
<1>1. alertClock \in Nat /\ DigestLength \in Nat \ {0}
  BY ClockTypes
<1>2. w \in Nat
  BY <1>1
<1>3. alertClock < (w + 1) * DigestLength
  BY <1>1
<1> QED BY <1>2, <1>3

\* A flush turns every hit that it takes out into a part of a digest of its own window.
LEMMA FlushFacts ==
    ASSUME VerdictsInv, NEW fine \in BOOLEAN
    PROVE  /\ Grown(alertRows, Answered!RowsAfter(fine))
           /\ \A r \in Answered!RowsAfter(fine) \ alertRows :
                /\ r.key[1] = "digest" /\ r.key[3] \in Nat
                /\ (r.key[3] + 1) * DigestLength <= alertClock
           /\ IsFiniteSet(Answered!WindowsAfter(fine))
           /\ Answered!WindowsAfter(fine) \subseteq windows
           /\ \A h \in Answered!WindowsAfter(fine) :
                Answered!DigestKey(h.group, h.win) \notin Answered!KeysOf(Answered!RowsAfter(fine))
           /\ \A h \in windows \ Answered!WindowsAfter(fine) :
                \E r \in Answered!RowsAfter(fine) : h \in r.hits
<1>1. CASE ~fine
  <2>1. Answered!RowsAfter(fine) = alertRows /\ Answered!WindowsAfter(fine) = windows
    BY <1>1 DEF Answered!RowsAfter, Answered!WindowsAfter
  <2> QED BY <2>1 DEF Grown, VerdictsInv, RowsAreRows, WindowsAreOpen
<1>2. CASE fine
  <2> DEFINE ended == {h \in windows : Answered!Ended(h)}
             hits(g, w) == {h \in ended : h.group = g /\ h.win = w}
             Digest(g, w) == Answered!Row(Answered!DigestKey(g, w), hits(g, w))
             new == {Digest(h.group, h.win) : h \in ended}
             rs == Answered!CreateAll(alertRows, new)
             ws == {h \in windows : ~Answered!Ended(h)}
  <2>1. Answered!RowsAfter(fine) = rs /\ Answered!WindowsAfter(fine) = ws
    BY <1>2 DEF Answered!RowsAfter, Answered!WindowsAfter, Answered!Digested
  <2>2. \A h \in ended : /\ WrittenNow(Digest(h.group, h.win)) /\ h \in Digest(h.group, h.win).hits
                         /\ Digest(h.group, h.win).key = <<"digest", h.group, h.win>>
                         /\ h \in windows /\ h.win \in Nat
                         /\ (h.win + 1) * DigestLength <= alertClock
    <3> TAKE h \in ended
    <3>1. h \in windows /\ h.win \in Nat /\ (h.win + 1) * DigestLength <= alertClock
      BY DEF Answered!Ended, VerdictsInv, WindowsAreOpen
    <3>2. h \in hits(h.group, h.win)
      OBVIOUS
    <3>3. /\ WrittenNow(Digest(h.group, h.win))
          /\ Digest(h.group, h.win).hits = hits(h.group, h.win)
          /\ Digest(h.group, h.win).key = Answered!DigestKey(h.group, h.win)
      <4> HIDE DEF hits
      <4> QED BY RowFields
    <3> HIDE DEF hits, Digest
    <3> QED BY <3>1, <3>2, <3>3 DEF Answered!DigestKey
  <2>3. IsFiniteSet(new) /\ \A r \in new : WrittenNow(r)
    <3>1. IsFiniteSet(ended)
      BY FS_Subset DEF VerdictsInv, WindowsAreOpen
    <3> HIDE DEF ended, Digest
    <3>2. IsFiniteSet(new)
      <4> DEFINE f == [h \in ended |-> Digest(h.group, h.win)]
      <4>1. new = {f[h] : h \in ended}
        OBVIOUS
      <4> HIDE DEF new, f
      <4> QED BY <3>1, <4>1, FiniteImage
    <3> QED BY <2>2, <3>2
  <2>4. /\ Grown(alertRows, rs) /\ \A r \in new : r.key \in Answered!KeysOf(rs)
        /\ \A q \in rs \ alertRows : q \in new
    <3> HIDE DEF new
    <3> QED BY <2>3, CreateAllGrows DEF VerdictsInv, RowsAreRows
  <2>5. \A g1, w1, g2, w2 :
          Digest(g1, w1).key = Digest(g2, w2).key => Digest(g1, w1).hits = Digest(g2, w2).hits
    <3> TAKE g1, w1, g2, w2
    <3>1. /\ Digest(g1, w1).hits = hits(g1, w1) /\ Digest(g1, w1).key = Answered!DigestKey(g1, w1)
          /\ Digest(g2, w2).hits = hits(g2, w2) /\ Digest(g2, w2).key = Answered!DigestKey(g2, w2)
      <4> HIDE DEF hits
      <4> QED BY RowFields
    <3>2. Answered!DigestKey(g1, w1) = Answered!DigestKey(g2, w2) => g1 = g2 /\ w1 = w2
      BY DEF Answered!DigestKey
    <3> HIDE DEF Digest, hits
    <3> QED BY <3>1, <3>2
  <2> HIDE DEF rs, Digest
  <2>6. \A r \in rs \ alertRows : /\ r.key[1] = "digest" /\ r.key[3] \in Nat
                                  /\ (r.key[3] + 1) * DigestLength <= alertClock
    <3> TAKE r \in rs \ alertRows
    <3>1. PICK h \in ended : r = Digest(h.group, h.win)
      BY <2>4
    <3> QED BY <2>2, <3>1
  <2>7. IsFiniteSet(ws) /\ ws \subseteq windows
    BY FS_Subset DEF VerdictsInv, WindowsAreOpen
  <2>8. \A h \in ws : Answered!DigestKey(h.group, h.win) \notin Answered!KeysOf(rs)
    <3> SUFFICES ASSUME NEW h \in ws, NEW r \in rs, r.key = Answered!DigestKey(h.group, h.win)
                 PROVE  FALSE
      BY DEF Answered!KeysOf
    <3>1. r \notin alertRows
      BY DEF Answered!KeysOf, VerdictsInv, WindowsAreOpen
    <3>2. r.key[3] = h.win
      BY DEF Answered!DigestKey
    <3>3. (h.win + 1) * DigestLength <= alertClock
      BY <2>6, <3>1, <3>2
    <3> QED BY <3>3 DEF Answered!Ended
  <2>9. \A h \in windows \ ws : \E r \in rs : h \in r.hits
    <3> TAKE h \in windows \ ws
    <3>1. h \in ended
      OBVIOUS
    <3>2. Digest(h.group, h.win) \in new
      BY <3>1
    <3>3. PICK r \in rs : r.key = Digest(h.group, h.win).key
      BY <2>4, <3>2 DEF Answered!KeysOf
    <3>4. r \notin alertRows
      BY <2>2, <3>1, <3>3 DEF Answered!KeysOf, Answered!DigestKey, VerdictsInv, WindowsAreOpen
    <3>5. PICK g \in ended : r = Digest(g.group, g.win)
      BY <2>4, <3>4
    <3>6. r.hits = Digest(h.group, h.win).hits
      BY <2>5, <3>3, <3>5
    <3> QED BY <2>2, <3>1, <3>6
  <2> QED BY <2>1, <2>4, <2>6, <2>7, <2>8, <2>9
<1> QED BY <1>1, <1>2

\* What every step does that writes rows and remembers hits, after a flush or without one.
LEMMA WritingKeeps ==
    ASSUME VerdictsInv, NEW fine \in BOOLEAN, NEW hs, HitsOfNow(hs),
           Grown(Answered!RowsAfter(fine), alertRows'),
           \A r \in alertRows' \ Answered!RowsAfter(fine) : r.key[1] # "digest",
           windows' = Answered!WindowsAfter(fine) \cup hs,
           Answered!Publish, alertClock' = alertClock
    PROVE  /\ RowsAreRows' /\ WindowsAreOpen' /\ Answered!QuietAndSent'
           /\ \A o \in dueAlerts : Covered(o, alertRows', windows')
           /\ Grown(alertRows, alertRows')
           /\ sent' \subseteq Answered!KeysOf(alertRows')
           /\ \A h \in windows' : h.group \in Answered!Groups
<1> DEFINE rs == Answered!RowsAfter(fine)
           ws == Answered!WindowsAfter(fine)
<1>1. Grown(alertRows, alertRows')
  BY FlushFacts, GrownTwice
<1>2. alertClock \in Nat /\ DigestLength \in Nat \ {0}
  BY ClockTypes
<1>3. RowsAreRows'
  <2>1. IsFiniteSet(alertRows') /\ OneOfEachKey(alertRows')
    BY DEF Grown
  <2>2. \A r \in alertRows' : r.key[1] = "digest" =>
          r.key[3] \in Nat /\ (r.key[3] + 1) * DigestLength <= alertClock
    BY FlushFacts DEF VerdictsInv, RowsAreRows
  <2> QED BY <2>1, <2>2 DEF RowsAreRows
<1>4. WindowsAreOpen'
  <2>1. IsFiniteSet(windows')
    BY FlushFacts, FS_Union DEF HitsOfNow
  <2>2. \A h \in ws :
          h.win \in Nat /\ Answered!DigestKey(h.group, h.win) \notin Answered!KeysOf(alertRows')
    <3>1. \A h \in ws :
            h.win \in Nat /\ Answered!DigestKey(h.group, h.win) \notin Answered!KeysOf(rs)
      BY FlushFacts DEF VerdictsInv, WindowsAreOpen
    <3>2. \A r \in alertRows' : r \in rs \/ r.key[1] # "digest"
      OBVIOUS
    <3> HIDE DEF ws, rs
    <3> QED BY <3>1, <3>2 DEF Answered!KeysOf, Answered!DigestKey
  <2>3. \A h \in hs :
          h.win \in Nat /\ Answered!DigestKey(h.group, h.win) \notin Answered!KeysOf(alertRows')
    <3> TAKE h \in hs
    <3>1. h.win \in Nat /\ alertClock < (h.win + 1) * DigestLength
      BY CurrentWindow DEF HitsOfNow
    <3>2. \A r \in alertRows' : r.key # <<"digest", h.group, h.win>>
      <4> SUFFICES ASSUME NEW r \in alertRows', r.key = <<"digest", h.group, h.win>> PROVE FALSE
        OBVIOUS
      <4>1. r.key[1] = "digest" /\ r.key[3] = h.win
        OBVIOUS
      <4>2. (h.win + 1) * DigestLength <= alertClock
        BY <1>3, <4>1 DEF RowsAreRows
      <4>3. (h.win + 1) * DigestLength \in Int
        BY <1>2, <3>1
      <4> QED BY <1>2, <3>1, <4>2, <4>3
    <3> QED BY <3>1, <3>2 DEF Answered!KeysOf, Answered!DigestKey
  <2> HIDE DEF ws
  <2>4. \A h \in windows' : h \in ws \/ h \in hs
    BY DEF ws
  <2> QED BY <2>1, <2>2, <2>3, <2>4 DEF WindowsAreOpen
<1>5. Answered!QuietAndSent'
  <2>1. sent' = sent \cup
                (IF Answered!Night(alertClock) THEN {} ELSE Answered!KeysOf(alertRows' \ alertRows))
    BY DEF Answered!Publish
  <2>2. /\ \A r \in alertRows : r.key \notin Answered!KeysOf(alertRows' \ alertRows)
        /\ \A r \in alertRows' \ alertRows :
             r.key \notin sent /\ r.key \in Answered!KeysOf(alertRows' \ alertRows)
    BY <1>1 DEF Grown, Answered!KeysOf, VerdictsInv, Answered!TypeOK
  <2>3. \A r \in alertRows' \ alertRows :
          /\ r.at = alertClock /\ r.visible = Answered!VisibleAt(alertClock)
    BY <1>1 DEF Grown, WrittenNow
  <2>4. \A r \in alertRows' :
          /\ r.visible >= r.at /\ ~Answered!Night(r.visible)
          /\ \A c \in r.at..(r.visible - 1) : Answered!Night(c)
    BY <1>2, <2>3, VisibleInTime DEF VerdictsInv, Answered!QuietAndSent
  <2>5. \A r \in alertRows : r.key \in sent' <=> r.visible = r.at
    BY <2>1, <2>2 DEF VerdictsInv, Answered!QuietAndSent
  <2>6. \A r \in alertRows' \ alertRows : r.key \in sent' <=> r.visible = r.at
    BY <1>2, <2>1, <2>2, <2>3, VisibleInTime
  <2> QED BY <2>4, <2>5, <2>6 DEF Answered!QuietAndSent
<1>6. \A o \in dueAlerts : Covered(o, alertRows', windows')
  <2> TAKE o \in dueAlerts
  <2>1. CASE \E r \in alertRows : Answered!InRow(o, r)
    BY <1>1, <2>1 DEF Grown, Covered
  <2>2. CASE \E h \in windows : Answered!InWindow(o, h)
    <3>1. PICK h \in windows : Answered!InWindow(o, h)
      BY <2>2
    <3>2. CASE h \in ws
      BY <3>1, <3>2 DEF Covered
    <3>3. CASE h \notin ws
      <4>1. PICK r \in rs : h \in r.hits
        BY <3>3, FlushFacts
      <4>2. r \in alertRows'
        BY DEF Grown
      <4>3. Answered!InRow(o, r)
        BY <3>1, <4>1 DEF Answered!InRow, Answered!InWindow
      <4> QED BY <4>2, <4>3 DEF Covered
    <3> QED BY <3>2, <3>3
  <2> QED BY <2>1, <2>2 DEF VerdictsInv, Answered!NothingOwedIsDropped
<1>7. sent' \subseteq Answered!KeysOf(alertRows')
  BY <1>1 DEF Answered!Publish, Grown, Answered!KeysOf, VerdictsInv, Answered!TypeOK
<1>8. \A h \in windows' : h.group \in Answered!Groups
  BY FlushFacts DEF HitsOfNow, VerdictsInv, Answered!TypeOK
<1> QED BY <1>1, <1>3, <1>4, <1>5, <1>6, <1>7, <1>8
-----------------------------------------------------------------------------
\* The alerts of a stock on a day that the keys name, and the overseas alerts of a day.
OfStock(rs, keys, d, s) == {r \in rs : Answered!Day(r.at) = d /\ r.key \in keys /\ r.key[3] = s}
Abroad(rs, d) == {r \in rs : Answered!Day(r.at) = d /\ r.key[1] = "overseas"}
Limited(rs, keys) ==
    \A d \in 0..Answered!Day(MaxTime) :
        /\ \A s \in Answered!Listed : Cardinality(OfStock(rs, keys, d, s)) <= StockLimit
        /\ Cardinality(Abroad(rs, d)) <= OverseasLimit

\* LimitsHold, in these words.
LEMMA LimitsForm == Answered!LimitsHold <=> Limited(alertRows, byAi)
<1>1. \A d, s : {r \in {r \in alertRows : Answered!Day(r.at) = d} : r.key \in byAi /\ r.key[3] = s}
                  = OfStock(alertRows, byAi, d, s)
  BY DEF OfStock
<1>2. \A d : {r \in {r \in alertRows : Answered!Day(r.at) = d} : r.key[1] = "overseas"}
               = Abroad(alertRows, d)
  BY DEF Abroad
<1> QED BY <1>1, <1>2, AnsweredCardinality, Zenon DEF Answered!LimitsHold, Limited

\* The same as a state formula, of which the next lemma takes the prime.
AllLimited == Limited(alertRows, byAi)

\* LimitsHold after the step.
LEMMA LimitsFormNext == Answered!LimitsHold' <=> Limited(alertRows', byAi')
<1>1. Answered!LimitsHold <=> AllLimited
  BY LimitsForm DEF AllLimited
<1>2. Answered!LimitsHold' <=> AllLimited'
  BY <1>1, PTL
<1> QED BY <1>2 DEF AllLimited

\* Rows of other kinds and under other keys do not count.
LEMMA LimitsStay ==
    ASSUME NEW rs, NEW qs, NEW keys, keys \subseteq Answered!KeysOf(rs), Grown(rs, qs),
           \A r \in qs \ rs : r.key[1] # "overseas", Limited(rs, keys)
    PROVE  Limited(qs, keys)
<1>1. \A d, s : OfStock(qs, keys, d, s) = OfStock(rs, keys, d, s)
  BY DEF OfStock, Grown, Answered!KeysOf
<1>2. \A d : Abroad(qs, d) = Abroad(rs, d)
  BY DEF Abroad, Grown
<1> QED BY <1>1, <1>2 DEF Limited

-----------------------------------------------------------------------------
\* The alert an impact calls for.
Due(v, i) == [news |-> v.news, target |-> Answered!TargetOf(i), group |-> Answered!GroupOf(i)]

\* What the verdict has done to the rows rs after some of its impacts.
JudgedSoFar(v, rs, acc) ==
    /\ Grown(rs, acc.rows) /\ HitsOfNow(acc.hits)
    /\ \A r \in acc.rows \ rs : r.key[1] = "news"
    /\ \A s \in Answered!Listed :
         Cardinality(OfStock(acc.rows, byAi \cup Answered!KeysOf(acc.rows \ rs),
                             Answered!Day(alertClock), s)) <= StockLimit

\* An impact has a group or calls for nothing.
LEMMA GroupTypes == \A i : Answered!GroupOf(i) \in Answered!Groups \cup {None}
<1> TAKE i
<1>1. \/ Answered!GroupOf(i) = None \/ Answered!GroupOf(i) = "sector"
      \/ Answered!GroupOf(i) = "watch" \/ Answered!GroupOf(i) = "opportunity"
  BY DEF Answered!GroupOf
<1> QED BY <1>1 DEF Answered!Groups

\* A hit that is remembered now is of the current window.
LEMMA HitFacts ==
    ASSUME NEW g \in Answered!Groups, NEW n, NEW t
    PROVE  /\ HitsOfNow({Answered!Hit(g, n, t)})
           /\ Answered!Hit(g, n, t).news = n /\ Answered!Hit(g, n, t).target = t
           /\ Answered!Hit(g, n, t).group = g
<1> DEFINE h == Answered!Hit(g, n, t)
<1>1. h.news = n /\ h.target = t /\ h.group = g /\ h.win = alertClock \div DigestLength
  BY DEF Answered!Hit
<1> HIDE DEF h
<1>2. IsFiniteSet({h})
  BY FS_Singleton
<1> QED BY <1>1, <1>2 DEF HitsOfNow, h

\* Hits of this moment, added up.
LEMMA MoreHits ==
    ASSUME NEW hs, NEW is, HitsOfNow(hs), HitsOfNow(is)
    PROVE  HitsOfNow(hs \cup is)
BY FS_Union DEF HitsOfNow

\* One more impact.
LEMMA JudgeKeeps ==
    ASSUME VerdictsInv, NEW v, NEW i, NEW rs, NEW acc, JudgedSoFar(v, rs, acc),
           byAi \subseteq Answered!KeysOf(rs)
    PROVE  LET next == Answered!Judge(v.news, acc, i)
           IN  /\ JudgedSoFar(v, rs, next)
               /\ acc.rows \subseteq next.rows /\ acc.hits \subseteq next.hits
               /\ Answered!GroupOf(i) # None => Covered(Due(v, i), next.rows, next.hits)
<1> DEFINE g == Answered!GroupOf(i)
           t == Answered!TargetOf(i)
           number == Answered!CountToday(acc.rows, "news", t)
           alert == g = "watch" /\ watch[t] = "held" /\ number < StockLimit
           next == Answered!Judge(v.news, acc, i)
           k == <<"news", v.news, t>>
           entry == Answered!Row(k, {})
           hit == Answered!Hit(g, v.news, t)
<1>1. CASE g = None
  <2>1. next = acc
    BY <1>1 DEF Answered!Judge
  <2> QED BY <1>1, <2>1
<1>2. CASE g # None /\ ~alert
  <2>1. next = [acc EXCEPT !.hits = @ \cup {hit}]
    BY <1>2, Zenon DEF Answered!Judge
  <2>2. next.rows = acc.rows /\ next.hits = acc.hits \cup {hit}
    BY <2>1
  <2>3. g \in Answered!Groups
    BY <1>2, GroupTypes
  <2>4. HitsOfNow(next.hits) /\ hit.news = v.news /\ hit.target = t /\ hit.group = g
    <3>1. HitsOfNow({hit}) /\ hit.news = v.news /\ hit.target = t /\ hit.group = g
      <4> HIDE DEF g, t
      <4> QED BY <2>3, HitFacts
    <3> HIDE DEF hit, next
    <3>2. HitsOfNow(acc.hits \cup {hit})
      BY <3>1, MoreHits DEF JudgedSoFar
    <3> QED BY <2>2, <3>1, <3>2
  <2>5. Covered(Due(v, i), next.rows, next.hits)
    <3> HIDE DEF hit, next
    <3> QED BY <2>2, <2>4 DEF Covered, Due, Answered!InWindow
  <2>6. JudgedSoFar(v, rs, next)
    <3> HIDE DEF next, hit
    <3> QED BY <2>2, <2>4 DEF JudgedSoFar
  <2> HIDE DEF next, hit
  <2> QED BY <2>2, <2>5, <2>6 DEF next
<1>3. CASE g # None /\ alert
  <2>1. next = [acc EXCEPT !.rows = Answered!Create(@, entry)]
    BY <1>3, Zenon DEF Answered!Judge
  <2>2. next.rows = Answered!Create(acc.rows, entry) /\ next.hits = acc.hits
    BY <2>1
  <2>3. WrittenNow(entry) /\ entry.key = k
    BY RowFields
  <2> DEFINE wider == Answered!Create(acc.rows, entry)
  <2>4. /\ Grown(acc.rows, wider) /\ k \in Answered!KeysOf(wider)
        /\ \A q \in wider \ acc.rows : q = entry
    <3> HIDE DEF entry, k
    <3> QED BY <2>3, CreateGrows DEF JudgedSoFar, Grown
  <2>5. Grown(rs, wider)
    <3> HIDE DEF wider
    <3> QED BY <2>4, GrownTwice DEF JudgedSoFar
  <2>6. \A r \in wider \ rs : r.key[1] = "news"
    <3>1. \A r \in wider \ rs : r \in acc.rows \ rs \/ r = entry
      BY <2>4
    <3> QED BY <2>3, <3>1 DEF JudgedSoFar
  <2>7. Covered(Due(v, i), wider, next.hits)
    <3>1. PICK r \in wider : r.key = k
      BY <2>4 DEF Answered!KeysOf
    <3>2. Answered!InRow(Due(v, i), r)
      BY <1>3, <3>1 DEF Answered!InRow, Due
    <3> QED BY <3>2 DEF Covered
  <2>8. ASSUME NEW s \in Answered!Listed
        PROVE  Cardinality(OfStock(wider, byAi \cup Answered!KeysOf(wider \ rs),
                                   Answered!Day(alertClock), s)) <= StockLimit
    <3> DEFINE old == OfStock(acc.rows, byAi \cup Answered!KeysOf(acc.rows \ rs),
                              Answered!Day(alertClock), s)
               new == OfStock(wider, byAi \cup Answered!KeysOf(wider \ rs),
                              Answered!Day(alertClock), s)
               all == {r \in acc.rows : /\ r.key[1] = "news"
                                        /\ Answered!Day(r.at) = Answered!Day(alertClock)
                                        /\ t = None \/ r.key[3] = t}
    <3>1. Cardinality(old) <= StockLimit
      BY DEF JudgedSoFar
    <3>2. CASE entry \in acc.rows
      <4>1. wider = acc.rows
        BY <2>4, <3>2 DEF Grown
      <4> QED BY <3>1, <4>1
    <3>3. CASE entry \notin acc.rows /\ s # t
      <4>1. new \subseteq old
        <5>1. \A q \in wider : q \in acc.rows \/ q = entry
          BY <2>4
        <5>2. entry.key[3] = t
          BY <2>3
        <5>3. \A q \in acc.rows : q.key \in Answered!KeysOf(wider \ rs) => q \in acc.rows \ rs
          BY <2>4, <2>5 DEF Grown, OneOfEachKey, Answered!KeysOf, JudgedSoFar
        <5> HIDE DEF entry, wider
        <5> QED BY <3>3, <5>1, <5>2, <5>3 DEF OfStock, Answered!KeysOf
      <4>2. IsFiniteSet(old)
        BY FS_Subset DEF OfStock, JudgedSoFar, Grown
      <4>3. /\ Cardinality(new) <= Cardinality(old)
            /\ Cardinality(new) \in Nat /\ Cardinality(old) \in Nat
        <5> HIDE DEF new, old
        <5> QED BY <4>1, <4>2, FS_Subset, FS_CardinalityType
      <4> HIDE DEF new, old
      <4> QED BY <3>1, <4>3, VerdictsAssumption DEF new
    <3>4. CASE entry \notin acc.rows /\ s = t
      <4>1. new \subseteq all \cup {entry}
        <5>1. \A q \in wider : q \in acc.rows \/ q = entry
          BY <2>4
        <5>2. \A q \in acc.rows :
                q.key \in byAi \cup Answered!KeysOf(wider \ rs) => q.key[1] = "news"
          BY <2>6 DEF VerdictsInv, Answered!KeysOf
        <5> HIDE DEF entry, wider
        <5> QED BY <3>4, <5>1, <5>2 DEF OfStock
      <4>2. IsFiniteSet(all)
        BY FS_Subset DEF JudgedSoFar, Grown
      <4>3. Cardinality(all) < StockLimit
        <5>1. number = Answered!Cardinality(all)
          BY DEF Answered!CountToday
        <5> QED BY <1>3, <5>1, AnsweredCardinality
      <4> HIDE DEF all, new
      <4>4. IsFiniteSet(all \cup {entry}) /\ Cardinality(all \cup {entry}) <= Cardinality(all) + 1
        <5> HIDE DEF entry
        <5> QED BY <4>2, OneMore
      <4>5. Cardinality(new) <= Cardinality(all \cup {entry}) /\ Cardinality(new) \in Nat
            /\ Cardinality(all \cup {entry}) \in Nat /\ Cardinality(all) \in Nat
        <5> HIDE DEF entry
        <5> QED BY <4>1, <4>2, <4>4, FS_Subset, FS_CardinalityType
      <4> HIDE DEF entry
      <4> QED BY <4>3, <4>4, <4>5, VerdictsAssumption DEF new
    <3> QED BY <3>2, <3>3, <3>4
  <2>9. acc.rows \subseteq wider
    BY <2>4 DEF Grown
  <2>10. next.rows = wider /\ next.hits = acc.hits
    BY <2>2
  <2> HIDE DEF next, wider, entry
  <2>11. JudgedSoFar(v, rs, next)
    BY <2>5, <2>6, <2>8, <2>10 DEF JudgedSoFar
  <2> QED BY <2>7, <2>9, <2>10, <2>11 DEF next
<1> QED BY <1>1, <1>2, <1>3
-----------------------------------------------------------------------------
\* The recursive function of Judged exists and ends in its value.
LEMMA JudgedUnfolds ==
    ASSUME NEW v, NEW rs, NEW impacts, Len(impacts) \in Nat
    PROVE  \E f : /\ f = [k \in 0..Len(impacts) |->
                            IF k = 0 THEN [rows |-> rs, hits |-> {}]
                            ELSE Answered!Judge(v.news, f[k - 1], impacts[k])]
                  /\ Answered!Judged(v, rs, impacts) = f[Len(impacts)]
<1> DEFINE n == Len(impacts)
           start == [rows |-> rs, hits |-> {}]
           next(acc, k) == Answered!Judge(v.news, acc, impacts[k])
           table(f, m) == [k \in 0..m |-> IF k = 0 THEN start ELSE next(f[k - 1], k)]
           T == {m \in Nat : \E f : f = table(f, m)}
<1>1. 0 \in T
  <2> DEFINE f == [k \in 0..0 |-> start]
  <2>1. f = table(f, 0)
    <3> HIDE DEF start, next
    <3> QED OBVIOUS
  <2> QED BY <2>1
<1>2. \A m \in T : m + 1 \in T
  <2> TAKE m \in T
  <2>1. PICK f : f = table(f, m)
    OBVIOUS
  <2> HIDE DEF start, next
  <2> DEFINE g == [k \in 0..(m + 1) |-> IF k <= m THEN f[k] ELSE next(f[m], m + 1)]
  <2>2. m \in Nat
    OBVIOUS
  <2>3. \A k \in 0..m : g[k] = f[k]
    BY <2>2
  <2>4. \A k \in 0..m : f[k] = IF k = 0 THEN start ELSE next(f[k - 1], k)
    BY <2>1
  <2>5. ASSUME NEW k \in 0..(m + 1)
        PROVE  g[k] = IF k = 0 THEN start ELSE next(g[k - 1], k)
    <3>1. CASE k = 0
      BY <2>2, <2>3, <2>4, <3>1
    <3>2. CASE k \in 1..m
      <4>1. g[k] = f[k] /\ g[k - 1] = f[k - 1] /\ k # 0
        BY <2>2, <2>3, <3>2
      <4>2. f[k] = next(f[k - 1], k)
        BY <2>2, <2>4, <3>2, <4>1
      <4> QED BY <4>1, <4>2
    <3>3. CASE k = m + 1
      <4>1. g[k] = next(f[m], k) /\ k - 1 = m /\ k # 0
        BY <2>2, <3>3
      <4>2. g[k - 1] = f[m]
        BY <2>2, <2>3, <4>1
      <4> QED BY <4>1, <4>2
    <3> QED BY <2>2, <3>1, <3>2, <3>3
  <2>6. g = table(g, m + 1)
    <3> HIDE DEF g
    <3>1. g = [k \in 0..(m + 1) |-> g[k]]
      BY DEF g
    <3> QED BY <2>5, <3>1
  <2> HIDE DEF g
  <2>7. m + 1 \in Nat
    BY <2>2
  <2> QED BY <2>6, <2>7
<1>3. n \in T
  <2> HIDE DEF T
  <2>1. T \in SUBSET Nat
    BY DEF T
  <2> QED BY <1>1, <1>2, <2>1, Induction
<1> DEFINE chosen == CHOOSE f : f = table(f, n)
<1>4. chosen = table(chosen, n)
  <2>1. \E f : f = table(f, n)
    BY <1>3
  <2> HIDE DEF table
  <2> QED BY <2>1
<1>5. Answered!Judged(v, rs, impacts) = chosen[n]
  BY DEF Answered!Judged
<1> QED BY <1>4, <1>5

\* All impacts of a verdict, up to the last or to one that fails.
LEMMA JudgedFacts ==
    ASSUME VerdictsInv, NEW fine \in BOOLEAN, NEW v, NEW impacts, Len(impacts) \in Nat
    PROVE  LET rs == Answered!RowsAfter(fine)
               judged == Answered!Judged(v, rs, impacts)
           IN  /\ JudgedSoFar(v, rs, judged)
               /\ \A j \in 1..Len(impacts) : Answered!GroupOf(impacts[j]) # None =>
                    Covered(Due(v, impacts[j]), judged.rows, judged.hits)
<1> DEFINE rs == Answered!RowsAfter(fine)
           n == Len(impacts)
           start == [rows |-> rs, hits |-> {}]
           next(acc, k) == Answered!Judge(v.news, acc, impacts[k])
<1>1. PICK f : /\ f = [k \in 0..n |-> IF k = 0 THEN start ELSE next(f[k - 1], k)]
               /\ Answered!Judged(v, rs, impacts) = f[n]
  <2> HIDE DEF rs
  <2>1. \E f : /\ f = [k \in 0..Len(impacts) |->
                          IF k = 0 THEN [rows |-> rs, hits |-> {}]
                          ELSE Answered!Judge(v.news, f[k - 1], impacts[k])]
                /\ Answered!Judged(v, rs, impacts) = f[Len(impacts)]
    BY JudgedUnfolds, ZenonT(30)
  <2> QED BY <2>1
<1> DEFINE Good(k) ==
             /\ JudgedSoFar(v, rs, f[k])
             /\ \A j \in 1..k : Answered!GroupOf(impacts[j]) # None =>
                  Covered(Due(v, impacts[j]), f[k].rows, f[k].hits)
           T == {k \in Nat : k <= n => Good(k)}
<1>2. byAi \subseteq Answered!KeysOf(rs) /\ Grown(alertRows, rs)
      /\ \A r \in rs \ alertRows : r.key[1] = "digest"
  <2>1. Grown(alertRows, rs) /\ \A r \in rs \ alertRows : r.key[1] = "digest"
    BY FlushFacts
  <2> HIDE DEF rs
  <2> QED BY <2>1 DEF Grown, Answered!KeysOf, VerdictsInv, Answered!TypeOK
<1>3. JudgedSoFar(v, rs, start)
  <2>1. Grown(rs, rs) /\ start.rows = rs /\ start.hits = {}
    BY <1>2 DEF Grown
  <2>2. HitsOfNow({})
    BY FS_EmptySet DEF HitsOfNow
  <2>3. Answered!KeysOf(rs \ rs) = {}
    BY DEF Answered!KeysOf
  <2>4. \A s \in Answered!Listed :
          Cardinality(OfStock(rs, byAi, Answered!Day(alertClock), s)) <= StockLimit
    <3>1. Limited(alertRows, byAi)
      BY LimitsForm DEF VerdictsInv
    <3>2. byAi \subseteq Answered!KeysOf(alertRows)
      BY DEF VerdictsInv, Answered!TypeOK
    <3>3. \A r \in rs \ alertRows : r.key[1] # "overseas"
      BY <1>2
    <3>4. Limited(rs, byAi)
      <4> HIDE DEF rs
      <4> QED BY <1>2, <3>1, <3>2, <3>3, LimitsStay
    <3>5. Answered!Day(alertClock) \in 0..Answered!Day(MaxTime)
      BY DayInTime
    <3> HIDE DEF rs
    <3> QED BY <3>4, <3>5 DEF Limited
  <2>5. byAi \cup Answered!KeysOf(rs \ rs) = byAi
    BY <2>3
  <2> HIDE DEF rs, start
  <2> QED BY <2>1, <2>2, <2>4, <2>5 DEF JudgedSoFar
<1> HIDE DEF start, next, rs
<1>4. f[0] = start
  BY <1>1
<1>5. 0 \in T
  <2>1. 1..0 = {}
    OBVIOUS
  <2>2. Good(0)
    BY <1>3, <1>4, <2>1
  <2> QED BY <2>2
<1>6. \A k \in T : k + 1 \in T
  <2> TAKE k \in T
  <2> SUFFICES ASSUME k + 1 <= n PROVE Good(k + 1)
    OBVIOUS
  <2>1. k \in Nat /\ k + 1 \in 0..n /\ k + 1 # 0 /\ (k + 1) - 1 = k
    OBVIOUS
  <2>2. Good(k)
    BY <2>1
  <2>3. f[k + 1] = next(f[k], k + 1)
    BY <1>1, <2>1
  <2>4. /\ JudgedSoFar(v, rs, f[k + 1])
        /\ f[k].rows \subseteq f[k + 1].rows /\ f[k].hits \subseteq f[k + 1].hits
        /\ Answered!GroupOf(impacts[k + 1]) # None =>
             Covered(Due(v, impacts[k + 1]), f[k + 1].rows, f[k + 1].hits)
    BY <1>2, <2>2, <2>3, JudgeKeeps DEF next
  <2>5. \A j \in 1..(k + 1) : j \in 1..k \/ j = k + 1
    BY <2>1
  <2>6. ASSUME NEW j \in 1..k, Answered!GroupOf(impacts[j]) # None
        PROVE  Covered(Due(v, impacts[j]), f[k + 1].rows, f[k + 1].hits)
    BY <2>2, <2>4, <2>6 DEF Covered
  <2> QED BY <2>4, <2>5, <2>6
<1>7. Good(n)
  <2> HIDE DEF Good
  <2>1. n \in T
    <3> HIDE DEF T
    <3>1. T \in SUBSET Nat
      BY DEF T
    <3> QED BY <1>5, <1>6, <3>1, Induction
  <2> QED BY <2>1
<1> QED BY <1>1, <1>7 DEF rs
-----------------------------------------------------------------------------
\* The part of the types that an action leaves to the others.
ImpactTypes ==
    /\ alertClock \in 0..MaxTime /\ alertFaults \in 0..MaxFaults /\ alertEdits \in 0..MaxEdits
    /\ watch \in [Answered!Listed -> {"absent", "watched", "held"}]
    /\ override \in [Sectors -> {"none", "add", "remove"}]

\* A step has one fault more or the same number.
LEMMA FaultTypes ==
    ASSUME VerdictsInv, Answered!Fault
    PROVE  alertFaults' \in 0..MaxFaults
BY VerdictsAssumption DEF Answered!Fault, VerdictsInv, Answered!TypeOK

\* An action of the AI or of a worker: the types follow from what WritingKeeps gives.
LEMMA WritingTypes ==
    ASSUME VerdictsInv, alertFaults' \in 0..MaxFaults,
           UNCHANGED <<alertClock, alertEdits, watch, override>>,
           \A h \in windows' : h.group \in Answered!Groups,
           byAi' \subseteq Answered!KeysOf(alertRows'), sent' \subseteq Answered!KeysOf(alertRows')
    PROVE  Answered!TypeOK'
<1>1. byAi' \cup sent' \subseteq Answered!KeysOf(alertRows')
  OBVIOUS
<1>2. ImpactTypes'
  BY DEF ImpactTypes, VerdictsInv, Answered!TypeOK
<1> QED BY <1>1, <1>2 DEF Answered!TypeOK, Answered!KeysOf, ImpactTypes

\* A step that leaves what was owed and the keys of the verdicts alone.
LEMMA QuietWriting ==
    ASSUME VerdictsInv, NEW fine \in BOOLEAN, NEW hs, HitsOfNow(hs),
           Grown(Answered!RowsAfter(fine), alertRows'),
           \A r \in alertRows' \ Answered!RowsAfter(fine) : r.key[1] \in {"news", "divergence"},
           windows' = Answered!WindowsAfter(fine) \cup hs,
           Answered!Publish, alertFaults' \in 0..MaxFaults,
           UNCHANGED <<alertClock, alertEdits, watch, override, byAi, dueAlerts>>
    PROVE  VerdictsInv'
<1>1. \A r \in alertRows' \ Answered!RowsAfter(fine) : r.key[1] # "digest"
  OBVIOUS
<1>2. /\ RowsAreRows' /\ WindowsAreOpen' /\ Answered!QuietAndSent'
      /\ \A o \in dueAlerts : Covered(o, alertRows', windows')
      /\ Grown(alertRows, alertRows')
      /\ sent' \subseteq Answered!KeysOf(alertRows')
      /\ \A h \in windows' : h.group \in Answered!Groups
  BY <1>1, WritingKeeps
<1>3. byAi' \subseteq Answered!KeysOf(alertRows')
  BY <1>2 DEF Grown, Answered!KeysOf, VerdictsInv, Answered!TypeOK
<1>4. Answered!TypeOK'
  BY <1>2, <1>3, WritingTypes
<1>5. Answered!LimitsHold'
  <2>1. \A r \in alertRows' \ alertRows : r.key[1] # "overseas"
    BY FlushFacts
  <2>2. Limited(alertRows, byAi) /\ byAi \subseteq Answered!KeysOf(alertRows)
    BY LimitsForm DEF VerdictsInv, Answered!TypeOK
  <2>3. Limited(alertRows', byAi)
    BY <1>2, <2>1, <2>2, LimitsStay
  <2> QED BY <2>3, LimitsFormNext
<1>6. Answered!NothingOwedIsDropped'
  <2>1. dueAlerts' = dueAlerts
    OBVIOUS
  <2> QED BY <1>2, <2>1
       DEF Answered!NothingOwedIsDropped, Covered, Answered!InRow, Answered!InWindow
<1>7. \A k \in byAi' : k[1] = "news"
  BY DEF VerdictsInv
<1> QED BY <1>2, <1>4, <1>5, <1>6, <1>7 DEF VerdictsInv

\* No hits.
LEMMA NoHits == HitsOfNow({})
BY FS_EmptySet DEF HitsOfNow

\* The flush at the end of a window writes digests and forgets their hits.
LEMMA FlushDueKeeps == ASSUME VerdictsInv, Answered!FlushDue PROVE VerdictsInv'
<1>1. /\ alertRows' = Answered!RowsAfter(TRUE) /\ windows' = Answered!WindowsAfter(TRUE)
      /\ Answered!Publish
      /\ UNCHANGED <<alertClock, alertFaults, alertEdits, watch, override, byAi, dueAlerts>>
  BY DEF Answered!FlushDue, Answered!user
<1>2. Grown(alertRows', alertRows')
  <2>1. Grown(alertRows, Answered!RowsAfter(TRUE))
    BY FlushFacts
  <2> QED BY <1>1, <2>1 DEF Grown
<1>3. alertFaults' \in 0..MaxFaults
  BY <1>1 DEF VerdictsInv, Answered!TypeOK
<1>4. windows' = Answered!WindowsAfter(TRUE) \cup {}
  BY <1>1
<1>5. \A r \in alertRows' \ Answered!RowsAfter(TRUE) : r.key[1] \in {"news", "divergence"}
  BY <1>1
<1>6. Grown(Answered!RowsAfter(TRUE), alertRows')
  BY <1>1, <1>2
<1> QED BY <1>1, <1>3, <1>4, <1>5, <1>6, NoHits, QuietWriting

\* A verdict that is rolled back leaves the flush before it, or not even that.
LEMMA ImpactsFailKeep ==
    ASSUME VerdictsInv, NEW v \in Verdicts, Answered!NewsImpactsFail(v) PROVE VerdictsInv'
<1>1. PICK k \in 0..Len(v.impacts), fine \in BOOLEAN :
        /\ alertRows' = Answered!RowsAfter(fine)
        /\ windows' = Answered!WindowsAfter(fine)
             \cup Answered!Judged(v, Answered!RowsAfter(fine), SubSeq(v.impacts, 1, k)).hits
  BY DEF Answered!NewsImpactsFail
<1>2. /\ Answered!Publish /\ Answered!Fault
      /\ UNCHANGED <<alertClock, alertEdits, watch, override, byAi, dueAlerts>>
  BY DEF Answered!NewsImpactsFail, Answered!user
<1>3. Len(SubSeq(v.impacts, 1, k)) \in Nat
  <2> DEFINE S == {v.impacts[j] : j \in DOMAIN v.impacts}
  <2>1. v.impacts \in Seq(S)
    BY VerdictsAssumption
  <2> HIDE DEF S
  <2> QED BY <2>1
<1> DEFINE hits == Answered!Judged(v, Answered!RowsAfter(fine), SubSeq(v.impacts, 1, k)).hits
<1>4. HitsOfNow(hits)
  BY <1>3, JudgedFacts DEF JudgedSoFar
<1>5. Grown(Answered!RowsAfter(fine), alertRows')
  <2>1. Grown(alertRows, Answered!RowsAfter(fine))
    BY FlushFacts
  <2> QED BY <1>1, <2>1 DEF Grown
<1>6. alertFaults' \in 0..MaxFaults
  BY <1>2, FaultTypes
<1>7. \A r \in alertRows' \ Answered!RowsAfter(fine) : r.key[1] \in {"news", "divergence"}
  BY <1>1
<1> HIDE DEF hits
<1>8. windows' = Answered!WindowsAfter(fine) \cup hits
  BY <1>1 DEF hits
<1> QED BY <1>2, <1>4, <1>5, <1>6, <1>7, <1>8, QuietWriting

\* Keyword alerts are kept out of the limits of the AI's.
LEMMA KeywordKeeps ==
    ASSUME VerdictsInv, NEW n, Answered!Keyword(n) PROVE VerdictsInv'
<1> DEFINE hit == {s \in Answered!Listed : watch[s] # "absent" /\ <<n, s>> \in KeywordHits}
           held == {s \in hit : watch[s] = "held"}
           new == {Answered!Row(<<"news", n, s>>, {}) : s \in held}
           hs == {Answered!Hit("watch", n, s) : s \in hit \ held}
<1>1. PICK fine \in BOOLEAN :
        /\ IF fine THEN UNCHANGED alertFaults ELSE Answered!Fault
        /\ alertRows' = Answered!CreateAll(Answered!RowsAfter(fine), new)
        /\ windows' = Answered!WindowsAfter(fine) \cup hs
  BY DEF Answered!Keyword
<1>2. /\ Answered!Publish
      /\ UNCHANGED <<alertClock, alertEdits, watch, override, byAi, dueAlerts>>
  BY DEF Answered!Keyword, Answered!user
<1>3. IsFiniteSet(hit) /\ IsFiniteSet(held) /\ IsFiniteSet(hit \ held)
  <2>1. IsFiniteSet(Answered!Listed)
    BY VerdictsAssumption, FiniteImage DEF Answered!Listed
  <2> QED BY <2>1, FS_Subset
<1>4. IsFiniteSet(new)
  <2> DEFINE f == [s \in held |-> Answered!Row(<<"news", n, s>>, {})]
  <2>1. new = {f[s] : s \in held}
    OBVIOUS
  <2> HIDE DEF new, f, held
  <2> QED BY <1>3, <2>1, FiniteImage
<1>5. HitsOfNow(hs)
  <2> DEFINE rest == hit \ held
             f == [s \in rest |-> Answered!Hit("watch", n, s)]
  <2>1. hs = {f[s] : s \in rest}
    OBVIOUS
  <2>2. IsFiniteSet(hs)
    <3>1. IsFiniteSet(rest)
      BY <1>3
    <3> HIDE DEF hs, f, rest
    <3> QED BY <2>1, <3>1, FiniteImage
  <2>3. "watch" \in Answered!Groups
    BY DEF Answered!Groups
  <2>4. \A s \in rest : HitsOfNow({Answered!Hit("watch", n, s)})
    BY <2>3, HitFacts
  <2> QED BY <2>2, <2>4 DEF HitsOfNow
<1>6. \A r \in new : WrittenNow(r) /\ r.key[1] = "news"
  <2> TAKE r \in new
  <2>1. PICK s \in held : r = Answered!Row(<<"news", n, s>>, {})
    OBVIOUS
  <2> DEFINE k == <<"news", n, s>>
  <2>2. k[1] = "news" /\ r = Answered!Row(k, {})
    BY <2>1
  <2> HIDE DEF k
  <2> QED BY <2>2, RowFields
<1> HIDE DEF new, hs
<1>7. /\ Grown(Answered!RowsAfter(fine), alertRows')
      /\ \A r \in alertRows' \ Answered!RowsAfter(fine) : r \in new
  <2>1. Grown(alertRows, Answered!RowsAfter(fine))
    BY FlushFacts
  <2> QED BY <1>1, <1>4, <1>6, <2>1, CreateAllGrows DEF Grown
<1>8. \A r \in alertRows' \ Answered!RowsAfter(fine) : r.key[1] \in {"news", "divergence"}
  BY <1>6, <1>7
<1>9. alertFaults' \in 0..MaxFaults
  BY <1>1, FaultTypes DEF VerdictsInv, Answered!TypeOK
<1> QED BY <1>1, <1>2, <1>5, <1>7, <1>8, <1>9, QuietWriting

\* A divergence alert is one row under a key of its own kind.
LEMMA DivergenceKeeps ==
    ASSUME VerdictsInv, NEW s \in Answered!Listed, Answered!Divergence(s) PROVE VerdictsInv'
<1>1. PICK m \in Moods[s] :
        alertRows' = Answered!Create(alertRows,
          Answered!Row(<<"divergence", s, <<Answered!Status(m), Answered!Day(alertClock)>> >>, {}))
  BY DEF Answered!Divergence
<1>2. /\ Answered!Publish
      /\ UNCHANGED <<alertClock, alertFaults, alertEdits, watch, override, windows,
                   byAi, dueAlerts>>
  BY DEF Answered!Divergence, Answered!user
<1> DEFINE k == <<"divergence", s, <<Answered!Status(m), Answered!Day(alertClock)>> >>
           entry == Answered!Row(k, {})
<1>3. WrittenNow(entry) /\ entry.key = k /\ k[1] = "divergence"
  BY RowFields
<1>4. Answered!RowsAfter(FALSE) = alertRows /\ Answered!WindowsAfter(FALSE) = windows
  BY DEF Answered!RowsAfter, Answered!WindowsAfter
<1> HIDE DEF entry
<1>5. Grown(alertRows, alertRows') /\ \A q \in alertRows' \ alertRows : q = entry
  BY <1>1, <1>3, CreateGrows DEF VerdictsInv, RowsAreRows, entry
<1>6. \A r \in alertRows' \ Answered!RowsAfter(FALSE) : r.key[1] \in {"news", "divergence"}
  BY <1>3, <1>4, <1>5
<1>7. windows' = Answered!WindowsAfter(FALSE) \cup {}
  BY <1>2, <1>4
<1>8. alertFaults' \in 0..MaxFaults /\ Grown(Answered!RowsAfter(FALSE), alertRows')
  BY <1>2, <1>4, <1>5 DEF VerdictsInv, Answered!TypeOK
<1> QED BY <1>2, <1>6, <1>7, <1>8, NoHits, QuietWriting

\* A verdict of importance writes at most one overseas row, below the limit.
LEMMA OverseasFacts ==
    ASSUME NEW v, NEW rs, NEW qs, Grown(rs, qs)
    PROVE  LET wider == Answered!WithOverseas(v, qs)
           IN  /\ Grown(qs, wider)
               /\ \A r \in wider \ qs : r.key[1] = "overseas" /\ r.at = alertClock
               /\ wider = qs \/ Answered!CountToday(qs, "overseas", None) < OverseasLimit
               /\ \A r, q \in wider \ qs : r = q
<1> DEFINE wider == Answered!WithOverseas(v, qs)
           k == <<"overseas", v.news, None>>
           entry == Answered!Row(k, {})
<1>1. WrittenNow(entry) /\ entry.key = k /\ k[1] = "overseas"
  BY RowFields
<1>2. CASE wider = qs
  BY <1>2 DEF Grown
<1>3. CASE wider # qs
  <2>1. wider = Answered!Create(qs, entry)
        /\ Answered!CountToday(qs, "overseas", None) < OverseasLimit
    BY <1>3 DEF Answered!WithOverseas
  <2> HIDE DEF entry, k
  <2>2. Grown(qs, wider) /\ \A q \in wider \ qs : q = entry
    BY <1>1, <2>1, CreateGrows DEF Grown
  <2> HIDE DEF wider
  <2>3. \A r \in wider \ qs : r.key[1] = "overseas" /\ r.at = alertClock
    BY <1>1, <2>2 DEF WrittenNow
  <2>4. \A r, q \in wider \ qs : r = q
    BY <2>2
  <2> QED BY <2>1, <2>2, <2>3, <2>4 DEF wider
<1> QED BY <1>2, <1>3

\* The limits of a day, when a verdict has written its rows.
LEMMA LimitsAfterVerdict ==
    ASSUME VerdictsInv, NEW v, NEW rs, NEW judged, NEW keys,
           Grown(alertRows, rs), \A r \in rs \ alertRows : r.key[1] = "digest",
           JudgedSoFar(v, rs, judged), keys = byAi \cup Answered!KeysOf(judged.rows \ rs)
    PROVE  Limited(Answered!WithOverseas(v, judged.rows), keys)
<1> DEFINE qs == judged.rows
           ps == Answered!WithOverseas(v, qs)
           today == Answered!Day(alertClock)
<1>1. Grown(rs, qs) /\ Grown(alertRows, qs) /\ \A r \in qs \ rs : r.key[1] = "news"
  BY GrownTwice DEF JudgedSoFar
<1>2. /\ Grown(qs, ps) /\ \A r \in ps \ qs : r.key[1] = "overseas" /\ r.at = alertClock
      /\ ps = qs \/ Answered!CountToday(qs, "overseas", None) < OverseasLimit
      /\ \A r, q \in ps \ qs : r = q
  BY <1>1, OverseasFacts
<1>3. \A k \in keys : k[1] = "news"
  BY <1>1 DEF VerdictsInv, Answered!KeysOf
<1>4. Limited(alertRows, byAi) /\ byAi \subseteq Answered!KeysOf(alertRows)
  BY LimitsForm DEF VerdictsInv, Answered!TypeOK
<1>5. \A r \in qs \ alertRows : r.at = alertClock /\ r.key[1] # "overseas"
  <2>1. \A r \in qs \ alertRows : r.at = alertClock
    BY <1>1 DEF Grown, WrittenNow
  <2>2. \A r \in qs \ alertRows : r \in qs \ rs \/ r \in rs \ alertRows
    OBVIOUS
  <2> QED BY <1>1, <2>1, <2>2
<1>6. \A r \in alertRows : r.key \in keys => r.key \in byAi
  <2>1. \A r \in alertRows : r \in rs
    BY DEF Grown
  <2>2. \A r \in rs : r.key \notin Answered!KeysOf(qs \ rs)
    BY <1>1 DEF Grown, Answered!KeysOf
  <2> QED BY <2>1, <2>2
<1> SUFFICES ASSUME NEW d \in 0..Answered!Day(MaxTime)
             PROVE  /\ \A s \in Answered!Listed : Cardinality(OfStock(ps, keys, d, s)) <= StockLimit
                    /\ Cardinality(Abroad(ps, d)) <= OverseasLimit
  BY DEF Limited
<1> HIDE DEF qs, ps
<1>7. \A s : OfStock(ps, keys, d, s) = OfStock(qs, keys, d, s)
  BY <1>2, <1>3 DEF OfStock, Grown
<1>8. \A s \in Answered!Listed : Cardinality(OfStock(ps, keys, d, s)) <= StockLimit
  <2> TAKE s \in Answered!Listed
  <2>1. CASE d = today
    BY <1>7, <2>1 DEF JudgedSoFar, qs
  <2>2. CASE d # today
    <3>1. OfStock(qs, keys, d, s) = OfStock(alertRows, byAi, d, s)
      BY <1>1, <1>5, <1>6, <2>2 DEF OfStock, Grown
    <3> QED BY <1>4, <1>7, <3>1 DEF Limited
  <2> QED BY <2>1, <2>2
<1>9. Abroad(qs, d) = Abroad(alertRows, d)
  BY <1>1, <1>5 DEF Abroad, Grown
<1>10. Cardinality(Abroad(ps, d)) <= OverseasLimit
  <2>1. CASE d # today \/ ps = qs
    <3>1. Abroad(ps, d) = Abroad(qs, d)
      BY <1>2, <2>1 DEF Abroad, Grown
    <3> QED BY <1>4, <1>9, <3>1 DEF Limited
  <2>2. CASE d = today /\ ps # qs
    <3>1. PICK entry \in ps \ qs : TRUE
      BY <1>2, <2>2 DEF Grown
    <3>2. Abroad(ps, d) \subseteq Abroad(qs, d) \cup {entry}
      BY <1>2, <3>1 DEF Abroad
    <3>3. IsFiniteSet(Abroad(qs, d))
      BY <1>1, FS_Subset DEF Abroad, Grown
    <3>4. Cardinality(Abroad(qs, d)) < OverseasLimit
      <4> DEFINE number == {r \in qs : /\ r.key[1] = "overseas"
                                       /\ Answered!Day(r.at) = Answered!Day(alertClock)
                                       /\ None = None \/ r.key[3] = None}
      <4>1. Answered!CountToday(qs, "overseas", None) = Answered!Cardinality(number)
        BY DEF Answered!CountToday
      <4>2. number = Abroad(qs, d)
        BY <2>2 DEF Abroad
      <4> HIDE DEF number
      <4> QED BY <1>2, <2>2, <4>1, <4>2, AnsweredCardinality
    <3>5. /\ IsFiniteSet(Abroad(qs, d) \cup {entry})
          /\ Cardinality(Abroad(qs, d) \cup {entry}) <= Cardinality(Abroad(qs, d)) + 1
      BY <3>3, OneMore
    <3>6. /\ Cardinality(Abroad(ps, d)) <= Cardinality(Abroad(qs, d) \cup {entry})
          /\ Cardinality(Abroad(ps, d)) \in Nat /\ Cardinality(Abroad(qs, d) \cup {entry}) \in Nat
          /\ Cardinality(Abroad(qs, d)) \in Nat
      BY <3>2, <3>3, <3>5, FS_Subset, FS_CardinalityType
    <3> QED BY <3>4, <3>5, <3>6, VerdictsAssumption
  <2> QED BY <2>1, <2>2
<1> QED BY <1>8, <1>10 DEF ps

\* A verdict that commits: flush, one impact after the other, overseas, publish.
LEMMA ImpactsKeep ==
    ASSUME VerdictsInv, NEW v \in Verdicts, Answered!NewsImpacts(v) PROVE VerdictsInv'
<1>1. PICK fine \in BOOLEAN :
        LET judged == Answered!Judged(v, Answered!RowsAfter(fine), v.impacts)
        IN  /\ IF fine THEN UNCHANGED alertFaults ELSE Answered!Fault
            /\ alertRows' = Answered!WithOverseas(v, judged.rows)
            /\ windows' = Answered!WindowsAfter(fine) \cup judged.hits
            /\ byAi' = byAi \cup Answered!KeysOf(judged.rows \ Answered!RowsAfter(fine))
  BY DEF Answered!NewsImpacts
<1>2. /\ Answered!Publish
      /\ dueAlerts' = dueAlerts \cup
           {Due(v, i) : i \in {j \in Answered!Range(v.impacts) : Answered!GroupOf(j) # None}}
      /\ UNCHANGED <<alertClock, alertEdits, watch, override>>
  BY DEF Answered!NewsImpacts, Answered!user, Due
<1> DEFINE rs == Answered!RowsAfter(fine)
           judged == Answered!Judged(v, rs, v.impacts)
<1>3. Len(v.impacts) \in Nat /\ DOMAIN v.impacts = 1..Len(v.impacts)
  <2> DEFINE S == {v.impacts[j] : j \in DOMAIN v.impacts}
  <2>1. v.impacts \in Seq(S)
    BY VerdictsAssumption
  <2> HIDE DEF S
  <2> QED BY <2>1
<1>4. /\ JudgedSoFar(v, rs, judged)
      /\ \A j \in 1..Len(v.impacts) : Answered!GroupOf(v.impacts[j]) # None =>
           Covered(Due(v, v.impacts[j]), judged.rows, judged.hits)
  BY <1>3, JudgedFacts
<1>5. Grown(alertRows, rs) /\ \A r \in rs \ alertRows : r.key[1] = "digest"
  BY FlushFacts
<1>6. /\ alertRows' = Answered!WithOverseas(v, judged.rows)
      /\ windows' = Answered!WindowsAfter(fine) \cup judged.hits
      /\ byAi' = byAi \cup Answered!KeysOf(judged.rows \ rs)
  BY <1>1
<1> HIDE DEF judged, rs
<1>7. /\ Grown(rs, judged.rows) /\ Grown(judged.rows, alertRows')
      /\ \A r \in alertRows' \ judged.rows : r.key[1] = "overseas"
  <2>1. Grown(rs, judged.rows)
    BY <1>4 DEF JudgedSoFar
  <2> QED BY <1>6, <2>1, OverseasFacts
<1>8. Grown(rs, alertRows')
  BY <1>7, GrownTwice
<1>9. \A r \in alertRows' \ rs : r.key[1] # "digest"
  <2>1. \A r \in alertRows' \ rs : r \in alertRows' \ judged.rows \/ r \in judged.rows \ rs
    OBVIOUS
  <2> QED BY <1>4, <1>7, <2>1 DEF JudgedSoFar
<1>10. HitsOfNow(judged.hits)
  BY <1>4 DEF JudgedSoFar
<1>11. /\ RowsAreRows' /\ WindowsAreOpen' /\ Answered!QuietAndSent'
       /\ \A o \in dueAlerts : Covered(o, alertRows', windows')
       /\ Grown(alertRows, alertRows')
       /\ sent' \subseteq Answered!KeysOf(alertRows')
       /\ \A h \in windows' : h.group \in Answered!Groups
  BY <1>2, <1>6, <1>8, <1>9, <1>10, WritingKeeps DEF rs
<1>12. byAi' \subseteq Answered!KeysOf(alertRows') /\ \A k \in byAi' : k[1] = "news"
  <2>1. \A k \in byAi : k \in Answered!KeysOf(alertRows') /\ k[1] = "news"
    BY <1>11 DEF Grown, Answered!KeysOf, VerdictsInv, Answered!TypeOK
  <2>2. \A k \in Answered!KeysOf(judged.rows \ rs) :
          k \in Answered!KeysOf(alertRows') /\ k[1] = "news"
    BY <1>4, <1>7 DEF Grown, Answered!KeysOf, JudgedSoFar
  <2> QED BY <1>6, <2>1, <2>2
<1>13. Answered!TypeOK'
  <2>1. alertFaults' \in 0..MaxFaults
    BY <1>1, FaultTypes DEF VerdictsInv, Answered!TypeOK
  <2> QED BY <1>2, <1>11, <1>12, <2>1, WritingTypes
<1>14. Answered!LimitsHold'
  <2>1. Limited(alertRows', byAi')
    BY <1>4, <1>5, <1>6, LimitsAfterVerdict
  <2> QED BY <2>1, LimitsFormNext
<1>15. Answered!NothingOwedIsDropped'
  <2>1. \A o \in dueAlerts' : Covered(o, alertRows', windows')
    <3> SUFFICES ASSUME NEW i \in {j \in Answered!Range(v.impacts) : Answered!GroupOf(j) # None}
                 PROVE  Covered(Due(v, i), alertRows', windows')
      BY <1>2, <1>11
    <3>1. PICK j \in 1..Len(v.impacts) : i = v.impacts[j]
      BY <1>3 DEF Answered!Range
    <3>2. Covered(Due(v, i), judged.rows, judged.hits)
      BY <1>4, <3>1
    <3>3. judged.rows \subseteq alertRows' /\ judged.hits \subseteq windows'
      BY <1>6, <1>7 DEF Grown
    <3> QED BY <3>2, <3>3 DEF Covered
  <2> QED BY <2>1
       DEF Answered!NothingOwedIsDropped, Covered, Answered!InRow, Answered!InWindow
<1> QED BY <1>11, <1>12, <1>13, <1>14, <1>15 DEF VerdictsInv

-----------------------------------------------------------------------------
\* Steps that write no row.
LEMMA RowsStay ==
    ASSUME VerdictsInv, UNCHANGED <<alertRows, byAi, sent>>, windows' \subseteq windows,
           alertClock' \in Nat, alertClock' >= alertClock
    PROVE  /\ RowsAreRows' /\ WindowsAreOpen' /\ Answered!LimitsHold' /\ Answered!QuietAndSent'
           /\ byAi' \cup sent' \subseteq Answered!KeysOf(alertRows')
           /\ \A k \in byAi' : k[1] = "news"
           /\ \A h \in windows' : h.group \in Answered!Groups
<1>1. alertClock \in Nat /\ DigestLength \in Nat \ {0}
  BY ClockTypes
<1>2. RowsAreRows'
  <2>1. \A w \in Nat : (w + 1) * DigestLength \in Int
    BY <1>1
  <2>2. \A w \in Nat : (w + 1) * DigestLength <= alertClock => (w + 1) * DigestLength <= alertClock'
    BY <1>1, <2>1
  <2> QED BY <2>2 DEF VerdictsInv, RowsAreRows, OneOfEachKey
<1>3. WindowsAreOpen'
  <2>1. IsFiniteSet(windows')
    BY FS_Subset DEF VerdictsInv, WindowsAreOpen
  <2> QED BY <2>1 DEF VerdictsInv, WindowsAreOpen, Answered!KeysOf
<1>4. Answered!LimitsHold'
  BY LimitsForm, LimitsFormNext DEF VerdictsInv
<1>5. Answered!QuietAndSent'
  BY DEF VerdictsInv, Answered!QuietAndSent
<1>6. byAi' \cup sent' \subseteq Answered!KeysOf(alertRows')
  BY DEF VerdictsInv, Answered!TypeOK, Answered!KeysOf
<1>7. /\ \A k \in byAi' : k[1] = "news"
      /\ \A h \in windows' : h.group \in Answered!Groups
  BY DEF VerdictsInv, Answered!TypeOK
<1> QED BY <1>2, <1>3, <1>4, <1>5, <1>6, <1>7

\* They keep the invariant if they keep the types and what was owed.
LEMMA StayKeeps ==
    ASSUME VerdictsInv, UNCHANGED <<alertRows, byAi, sent>>, windows' \subseteq windows,
           alertClock' \in Nat, alertClock' >= alertClock, ImpactTypes',
           \A o \in dueAlerts' : o \in dueAlerts,
           windows' = windows \/ \A o \in dueAlerts' : \E r \in alertRows : Answered!InRow(o, r)
    PROVE  VerdictsInv'
<1>1. /\ RowsAreRows' /\ WindowsAreOpen' /\ Answered!LimitsHold' /\ Answered!QuietAndSent'
      /\ byAi' \cup sent' \subseteq Answered!KeysOf(alertRows')
      /\ \A k \in byAi' : k[1] = "news"
      /\ \A h \in windows' : h.group \in Answered!Groups
  BY RowsStay
<1>2. Answered!TypeOK'
  BY <1>1 DEF Answered!TypeOK, Answered!KeysOf, ImpactTypes
<1>3. Answered!NothingOwedIsDropped'
  <2>1. CASE windows' = windows
    BY <2>1 DEF VerdictsInv, Answered!NothingOwedIsDropped, Answered!InRow, Answered!InWindow
  <2>2. CASE \A o \in dueAlerts' : \E r \in alertRows : Answered!InRow(o, r)
    BY <2>2 DEF Answered!NothingOwedIsDropped, Answered!InRow
  <2> QED BY <2>1, <2>2
<1> QED BY <1>1, <1>2, <1>3 DEF VerdictsInv

\* The user's edits, a restart, time and the other instances' steps.
LEMMA OtherStepsKeep ==
    ASSUME VerdictsInv
    PROVE  /\ Answered!FlushFails => VerdictsInv'
           /\ \A s \in Answered!Listed : Answered!SetWatch(s) => VerdictsInv'
           /\ \A x \in Sectors : Answered!SetOverride(x) => VerdictsInv'
           /\ Answered!Restart => VerdictsInv'
           /\ Answered!Tick => VerdictsInv'
           /\ UNCHANGED verdictsVars => VerdictsInv'
<1>1. alertClock \in Nat /\ MaxTime \in Nat /\ alertClock >= alertClock /\ ImpactTypes
  BY ClockTypes DEF ImpactTypes, VerdictsInv, Answered!TypeOK
<1>2. ASSUME Answered!FlushFails PROVE VerdictsInv'
  <2>1. UNCHANGED <<alertClock, alertEdits, watch, override, alertRows, windows,
                   byAi, sent, dueAlerts>>
        /\ alertFaults' \in 0..MaxFaults
    BY <1>2, FaultTypes DEF Answered!FlushFails, Answered!user
  <2>2. ImpactTypes'
    BY <1>1, <2>1 DEF ImpactTypes
  <2> QED BY <1>1, <2>1, <2>2, StayKeeps
<1>3. ASSUME NEW s \in Answered!Listed, Answered!SetWatch(s) PROVE VerdictsInv'
  <2>1. UNCHANGED <<alertClock, alertFaults, override, alertRows, windows, byAi, sent, dueAlerts>>
    BY <1>3 DEF Answered!SetWatch
  <2>2. ImpactTypes'
    BY <1>1, <1>3, <2>1, VerdictsAssumption DEF ImpactTypes, Answered!SetWatch, Answered!Edit
  <2> QED BY <1>1, <2>1, <2>2, StayKeeps
<1>4. ASSUME NEW x \in Sectors, Answered!SetOverride(x) PROVE VerdictsInv'
  <2>1. UNCHANGED <<alertClock, alertFaults, watch, alertRows, windows, byAi, sent, dueAlerts>>
    BY <1>4 DEF Answered!SetOverride
  <2>2. ImpactTypes'
    BY <1>1, <1>4, <2>1, VerdictsAssumption DEF ImpactTypes, Answered!SetOverride, Answered!Edit
  <2> QED BY <1>1, <2>1, <2>2, StayKeeps
<1>5. ASSUME Answered!Restart PROVE VerdictsInv'
  <2>1. /\ UNCHANGED <<alertClock, alertEdits, watch, override, alertRows, byAi, sent>>
        /\ windows' = {}
        /\ dueAlerts' = {o \in dueAlerts : \E r \in alertRows : Answered!InRow(o, r)}
        /\ alertFaults' \in 0..MaxFaults
    BY <1>5, FaultTypes DEF Answered!Restart, Answered!user
  <2>2. ImpactTypes'
    BY <1>1, <2>1 DEF ImpactTypes
  <2> QED BY <1>1, <2>1, <2>2, StayKeeps
<1>6. ASSUME Answered!Tick PROVE VerdictsInv'
  <2>1. /\ UNCHANGED <<alertFaults, alertEdits, watch, override, alertRows, windows,
                   byAi, sent, dueAlerts>>
        /\ alertClock' = alertClock + 1 /\ alertClock < MaxTime
    BY <1>6 DEF Answered!Tick, Answered!user
  <2>2. alertClock' \in Nat /\ alertClock' >= alertClock /\ alertClock' \in 0..MaxTime
    BY <1>1, <2>1
  <2>3. ImpactTypes'
    BY <1>1, <2>1, <2>2 DEF ImpactTypes
  <2> QED BY <1>1, <2>1, <2>2, <2>3, StayKeeps
<1>7. ASSUME UNCHANGED verdictsVars PROVE VerdictsInv'
  <2>1. UNCHANGED <<alertClock, alertFaults, alertEdits, watch, override, alertRows, windows,
                   byAi, sent, dueAlerts>>
    BY <1>7 DEF verdictsVars
  <2>2. ImpactTypes'
    BY <1>1, <2>1 DEF ImpactTypes
  <2> QED BY <1>1, <2>1, <2>2, StayKeeps
<1> QED BY <1>2, <1>3, <1>4, <1>5, <1>6, <1>7

\* The initial state.
LEMMA VerdictsInitInv == Answered!Init => VerdictsInv
<1> SUFFICES ASSUME Answered!Init PROVE VerdictsInv
  OBVIOUS
<1>1. /\ alertClock = 0 /\ alertFaults = 0 /\ alertEdits = 0 /\ alertRows = {} /\ windows = {}
      /\ byAi = {} /\ sent = {} /\ dueAlerts = {}
  BY DEF Answered!Init
<1>2. Answered!TypeOK
  <2>1. ImpactTypes
    BY <1>1, VerdictsAssumption DEF ImpactTypes, Answered!Init
  <2> QED BY <1>1, <2>1 DEF Answered!TypeOK, ImpactTypes
<1>3. RowsAreRows /\ WindowsAreOpen
  BY <1>1, FS_EmptySet DEF RowsAreRows, WindowsAreOpen, OneOfEachKey
<1>4. Answered!LimitsHold
  <2>1. \A d, s : OfStock(alertRows, byAi, d, s) = {} /\ Abroad(alertRows, d) = {}
    BY <1>1 DEF OfStock, Abroad
  <2>2. Limited(alertRows, byAi)
    <3>1. Cardinality({}) = 0 /\ StockLimit >= 0 /\ OverseasLimit >= 0
      BY FS_EmptySet, VerdictsAssumption
    <3> HIDE DEF OfStock, Abroad
    <3> QED BY <2>1, <3>1 DEF Limited
  <2> QED BY <2>2, LimitsForm
<1>5. Answered!NothingOwedIsDropped /\ Answered!QuietAndSent
  BY <1>1 DEF Answered!NothingOwedIsDropped, Answered!QuietAndSent
<1> QED BY <1>1, <1>2, <1>3, <1>4, <1>5 DEF VerdictsInv

\* Every step, one case for each group of actions.
LEMMA VerdictsNextInv == VerdictsInv /\ [Answered!Next]_verdictsVars => VerdictsInv'
<1> SUFFICES ASSUME VerdictsInv, [Answered!Next]_verdictsVars PROVE VerdictsInv'
  OBVIOUS
<1>1. CASE \E v \in Verdicts : Answered!NewsImpacts(v) \/ Answered!NewsImpactsFail(v)
  BY <1>1, ImpactsKeep, ImpactsFailKeep
<1>2. CASE \E n \in Answered!NewsKeys : Answered!Keyword(n)
  BY <1>2, KeywordKeeps
<1>3. CASE \E s \in Answered!Listed : Answered!Divergence(s) \/ Answered!SetWatch(s)
  BY <1>3, DivergenceKeeps, OtherStepsKeep
<1>4. CASE \E x \in Sectors : Answered!SetOverride(x)
  BY <1>4, OtherStepsKeep
<1>5. CASE Answered!FlushDue
  BY <1>5, FlushDueKeeps
<1>6. CASE Answered!FlushFails \/ Answered!Restart \/ Answered!Tick \/ UNCHANGED verdictsVars
  BY <1>6, OtherStepsKeep
<1> QED BY <1>1, <1>2, <1>3, <1>4, <1>5, <1>6 DEF Answered!Next

\* ImpactAlerts: however verdicts, keyword alerts, failures, midnight and the end of the
\* quiet hours fall, what a verdict called for comes, in its number and in its time.
THEOREM VerdictsTheorem == OneSpec => []VerdictsAreSound
<1>1. OneInit => VerdictsInv
  BY VerdictsInitInv DEF OneInit
<1>2. VerdictsInv /\ [OneNext]_allVars => VerdictsInv'
  <2>1. [OneNext]_allVars => [Answered!Next]_verdictsVars
    BY DEF OneNext, allVars
  <2> QED BY <2>1, VerdictsNextInv
<1>3. VerdictsInv => VerdictsAreSound
  BY DEF VerdictsInv, VerdictsAreSound, Answered!VerdictsAreSound
<1> QED BY <1>1, <1>2, <1>3, PTL DEF OneSpec
-----------------------------------------------------------------------------
(***************************************************************************)
(* The ingestion, for every set of writers, sources, news and stories.     *)
(***************************************************************************)
Seen(w) == Ingest!Visible(w)
Storing(w) == writerPc[w] \in {"lookup", "write"}

Plans == [source : Sources, kind : {"ok", "not_modified", "error"}, items : SUBSET Urls,
          left : SUBSET Urls, index : SUBSET Ingest!Row, url : Urls, hit : SUBSET Ingest!Row]
Contents == SUBSET (SUBSET Urls)

\* The types of what Ingest!TypeOK leaves open.
IngestTypes ==
    /\ Ingest!TypeOK
    /\ etag \in [Sources -> Contents]
    /\ cached \in [Writers -> [Sources -> Contents]]
    /\ \A w \in Writers, s \in Sources : Cardinality(cached[w][s]) <= 1
    /\ pending \in [Writers -> SUBSET Sources]
    /\ got \in [Writers -> SUBSET Ingest!Outcome]
    /\ outcome \in [Writers -> Plans]

\* A feed has what its source may offer, and so have the outcomes of its fetches.
FeedsAreOffered ==
    /\ \A s \in Sources : feed[s] \subseteq Ingest!Offered(s)
    /\ \A w \in Writers : \A o \in got[w] :
         /\ o.items \subseteq Ingest!Offered(o.source)
         /\ o.kind # "ok" => o.items = {}

\* The ids of a table are the numbers up to its size, and a row tells the story of its link.
Counted(t) == IsFiniteSet(t) /\ \A r \in t : r.id <= Cardinality(t)
OwnStories(t) == \A r \in t : r.story = Story[r.url]
TablesAreSound == \A t \in {newsRows, view} : Counted(t) /\ OwnStories(t)

\* The writer with the lock is storing a feed, and it sees a version of each row.
Knows(t, r) == \E q \in t : q.id = r.id /\ q.story = r.story
KnowsAll(s, t) == \A r \in t : Knows(s, r)
LockIsHeld ==
    /\ lock = "none" => view = {}
    /\ \A w \in Writers : lock = w => Storing(w) /\ outcome[w].kind = "ok"
    /\ lock # "none" => KnowsAll(view, newsRows)

\* What an ETag stands for is there: also that of a request under way.
Told(t, u) == \E r \in t : r.story = Story[u]
Acknowledged(tags) ==
    \A s \in Sources : \A content \in tags[s] :
        \A u \in content : u \in Irrelevant \/ Told(newsRows, u)
TagsAreTrue == Acknowledged(etag) /\ \A w \in Writers : Acknowledged(cached[w])

\* A batch: only a parsed feed has items; what it is done with is there, and so is what its
\* index names.  What a lookup found is of the story of the link in question.
LookupIsSound(b, t) ==
    /\ b.url \in b.left
    /\ \A h \in b.hit : Knows(t, h) /\ h.story = Story[b.url]
    /\ \A g, h \in b.hit : g = h
BatchIsSound(p, b, t) ==
    /\ b.items \subseteq Ingest!Offered(b.source) /\ b.left \subseteq b.items
    /\ b.kind # "ok" => b.items = {}
    /\ \A u \in b.items \ b.left : u \in Irrelevant \/ Told(t, u)
    /\ KnowsAll(t, b.index)
    /\ p = "write" => LookupIsSound(b, t)
BatchesAreSound ==
    \A w \in Writers : Storing(w) => BatchIsSound(writerPc[w], outcome[w], Seen(w))

\* As long as no refreshes overlap, one writer is at work, its index has all rows, its
\* lookup is still true, and rows only improve.
WriterIsAlone ==
    \A v, w \in Writers : writerPc[v] # "idle" /\ writerPc[w] # "idle" => v = w
BatchIsExact(p, b, t) ==
    /\ b.items # {} => KnowsAll(b.index, t)
    /\ p = "write" =>
         /\ b.hit \subseteq t
         /\ b.hit = {} => ~Told(t, b.url)
BatchesAreExact ==
    \A w \in Writers : Storing(w) => BatchIsExact(writerPc[w], outcome[w], Seen(w))
StoriesApart(t) == \A q, r \in t : q.story = r.story => q.id = r.id
LinksFit(t) == \A r \in t : <<r.source, r.url>> \in Offers
Improves(t) ==
    \A r \in newsRows : \E q \in t :
        q.id = r.id /\ q.story = r.story /\ Rank[q.source] >= Rank[r.source]
AloneIsExact ==
    /\ WriterIsAlone /\ BatchesAreExact
    /\ \A t \in {newsRows, view} : StoriesApart(t) /\ LinksFit(t)
    /\ lock # "none" => Improves(view)

\* Inductive: what a batch knows of the rows stays true, since rows only change with the
\* commit of the writer that has the lock, and ids and stories stay.
IngestInv ==
    /\ IngestTypes /\ FeedsAreOffered /\ TablesAreSound /\ LockIsHeld /\ TagsAreTrue
    /\ BatchesAreSound /\ (~overlapped => AloneIsExact)

\* NewsIngest counts as FiniteSets does.
LEMMA IngestCount == ASSUME NEW S PROVE Ingest!Cardinality(S) = Cardinality(S)
BY Zenon DEF Ingest!Cardinality, Cardinality

\* A table that knows the rows of another one knows and tells what that one did.
LEMMA KnowsMore ==
    ASSUME NEW s, NEW t, KnowsAll(t, s)
    PROVE  /\ \A r : Knows(s, r) => Knows(t, r)
           /\ \A u : Told(s, u) => Told(t, u)
           /\ \A x : KnowsAll(s, x) => KnowsAll(t, x)
BY DEF Knows, KnowsAll, Told

\* Every table knows its own rows.
LEMMA KnowsItself == ASSUME NEW t PROVE KnowsAll(t, t)
BY DEF Knows, KnowsAll

\* A batch stays sound when the table it refers to grows.
LEMMA SoundInMore ==
    ASSUME NEW p, NEW b, NEW s, NEW t, KnowsAll(t, s), BatchIsSound(p, b, s)
    PROVE  BatchIsSound(p, b, t)
BY KnowsMore DEF BatchIsSound, LookupIsSound

\* The next id is a new one.
LEMMA InsertedTable ==
    ASSUME NEW t, t \subseteq Ingest!Row, Counted(t), NEW r, r.id = Cardinality(t) + 1
    PROVE  /\ Counted(t \cup {r}) /\ \A q \in t : q.id # r.id
           /\ Cardinality(t) \in Nat
<1>1. Cardinality(t) \in Nat /\ \A q \in t : q.id \in Nat /\ q.id <= Cardinality(t)
  BY FS_CardinalityType DEF Counted, Ingest!Row
<1>2. r \notin t
  BY <1>1
<1>3. IsFiniteSet(t \cup {r}) /\ Cardinality(t \cup {r}) = Cardinality(t) + 1
  BY <1>2, FS_AddElement DEF Counted
<1>4. \A q \in t \cup {r} : q.id <= Cardinality(t) + 1
  BY <1>1
<1> QED BY <1>1, <1>3, <1>4 DEF Counted

\* A row that is replaced under its id leaves as many.
LEMMA UpdatedTable ==
    ASSUME NEW t, t \subseteq Ingest!Row, Counted(t), \A q, r \in t : q.id = r.id => q = r,
           NEW x \in t, NEW y, y.id = x.id
    PROVE  Counted((t \ {x}) \cup {y})
<1> DEFINE rest == t \ {x}
<1>1. Cardinality(t) \in Nat /\ \A q \in t : q.id \in Nat /\ q.id <= Cardinality(t)
  BY FS_CardinalityType DEF Counted, Ingest!Row
<1>2. IsFiniteSet(rest) /\ Cardinality(rest) = Cardinality(t) - 1
  BY FS_RemoveElement DEF Counted
<1>3. y \notin rest
  OBVIOUS
<1> HIDE DEF rest
<1>4. IsFiniteSet(rest \cup {y}) /\ Cardinality(rest \cup {y}) = Cardinality(t)
  <2>1. IsFiniteSet(rest \cup {y}) /\ Cardinality(rest \cup {y}) = Cardinality(rest) + 1
    BY <1>2, <1>3, FS_AddElement
  <2> QED BY <1>1, <1>2, <2>1
<1> QED BY <1>1, <1>4 DEF Counted, rest

\* What a writer sees.
LEMMA SeenIs == ASSUME NEW w PROVE Seen(w) = IF lock = w THEN view ELSE newsRows
BY DEF Seen, Ingest!Visible

\* It is a table of rows whose ids and links are their own, with all that is committed.
LEMMA SeenFacts ==
    ASSUME IngestInv, NEW w \in Writers
    PROVE  /\ Seen(w) \subseteq Ingest!Row /\ Counted(Seen(w)) /\ OwnStories(Seen(w))
           /\ \A q, r \in Seen(w) : (q.id = r.id \/ q.url = r.url) => q = r
           /\ KnowsAll(Seen(w), newsRows)
           /\ w # "none"
<1>1. Seen(w) \in {newsRows, view} /\ w # "none"
  BY SeenIs, IngestAssumption
<1>2. KnowsAll(Seen(w), newsRows)
  BY <1>1, SeenIs, KnowsItself DEF IngestInv, LockIsHeld
<1> QED BY <1>1, <1>2 DEF IngestInv, TablesAreSound, IngestTypes, Ingest!TypeOK

\* Without overlap, what is not the acting writer is idle.
LEMMA OthersIdle ==
    ASSUME IngestInv, ~overlapped, NEW w \in Writers, writerPc[w] # "idle",
           NEW v \in Writers, v # w
    PROVE  writerPc[v] = "idle"
BY DEF IngestInv, AloneIsExact, WriterIsAlone

\* The batches of the other writers stay sound while what they see grows.
LEMMA OthersKeep ==
    ASSUME IngestInv, NEW w \in Writers,
           \A v \in Writers \ {w} :
              /\ writerPc'[v] = writerPc[v] /\ outcome'[v] = outcome[v]
              /\ Storing(v) => KnowsAll(Seen(v)', Seen(v)),
           Storing(w)' => BatchIsSound(writerPc'[w], outcome'[w], Seen(w)')
    PROVE  BatchesAreSound'
<1> SUFFICES ASSUME NEW v \in Writers, Storing(v)'
             PROVE  BatchIsSound(writerPc'[v], outcome'[v], Seen(v)')
  BY DEF BatchesAreSound
<1>1. CASE v # w
  <2>1. Storing(v) /\ KnowsAll(Seen(v)', Seen(v)) /\ writerPc'[v] = writerPc[v]
        /\ outcome'[v] = outcome[v]
    BY <1>1 DEF Storing
  <2>2. BatchIsSound(writerPc[v], outcome[v], Seen(v))
    BY <2>1 DEF IngestInv, BatchesAreSound
  <2> QED BY <2>1, <2>2, SoundInMore
<1> QED BY <1>1

\* A step that leaves the tables and the lock alone, and the batches of all writers but one.
LEMMA IdleKeeps ==
    ASSUME IngestInv, NEW w \in Writers, UNCHANGED <<newsRows, etag, lock, view>>,
           \A v \in Writers \ {w} :
              writerPc'[v] = writerPc[v] /\ outcome'[v] = outcome[v] /\ cached'[v] = cached[v],
           lock = w => Storing(w)' /\ outcome'[w].kind = "ok",
           Acknowledged(cached'[w]),
           Storing(w)' => BatchIsSound(writerPc'[w], outcome'[w], Seen(w)),
           ~overlapped' => ~overlapped /\ WriterIsAlone',
           ~overlapped' /\ Storing(w)' => BatchIsExact(writerPc'[w], outcome'[w], Seen(w))
    PROVE  /\ TablesAreSound' /\ LockIsHeld' /\ TagsAreTrue' /\ BatchesAreSound'
           /\ (~overlapped => AloneIsExact)'
<1>1. \A v \in Writers : Seen(v)' = Seen(v)
  BY DEF Seen, Ingest!Visible
<1>2. TablesAreSound'
  BY DEF IngestInv, TablesAreSound
<1>3. LockIsHeld'
  <2> SUFFICES ASSUME NEW v \in Writers, lock = v PROVE Storing(v)' /\ outcome'[v].kind = "ok"
    BY DEF IngestInv, LockIsHeld
  <2> QED BY DEF IngestInv, LockIsHeld, Storing
<1>4. TagsAreTrue'
  <2>1. \A v \in Writers : Acknowledged(cached'[v])
    <3> SUFFICES ASSUME NEW v \in Writers, v # w PROVE Acknowledged(cached'[v])
      OBVIOUS
    <3>1. cached'[v] = cached[v] /\ Acknowledged(cached[v])
      BY DEF IngestInv, TagsAreTrue
    <3> QED BY <3>1
  <2>2. Acknowledged(etag)
    BY DEF IngestInv, TagsAreTrue
  <2> QED BY <2>1, <2>2 DEF TagsAreTrue, Acknowledged
<1>5. BatchesAreSound'
  <2>1. \A v \in Writers \ {w} : KnowsAll(Seen(v)', Seen(v))
    BY <1>1, KnowsItself
  <2> QED BY <1>1, <2>1, OthersKeep
<1>6. ASSUME ~overlapped' PROVE AloneIsExact'
  <2>1. AloneIsExact /\ WriterIsAlone'
    BY <1>6 DEF IngestInv
  <2>2. BatchesAreExact'
    <3> SUFFICES ASSUME NEW v \in Writers, Storing(v)'
                 PROVE  BatchIsExact(writerPc'[v], outcome'[v], Seen(v)')
      BY DEF BatchesAreExact
    <3>1. CASE v # w
      <4>1. Storing(v) /\ writerPc'[v] = writerPc[v] /\ outcome'[v] = outcome[v]
        BY <3>1 DEF Storing
      <4>2. BatchIsExact(writerPc[v], outcome[v], Seen(v))
        BY <2>1, <4>1 DEF AloneIsExact, BatchesAreExact
      <4> QED BY <1>1, <4>1, <4>2
    <3> QED BY <1>1, <1>6, <3>1
  <2>3. \A t \in {newsRows, view} : StoriesApart(t) /\ LinksFit(t)
    BY <2>1 DEF AloneIsExact
  <2>4. lock # "none" => Improves(view)
    BY <2>1 DEF AloneIsExact
  <2> QED BY <2>1, <2>2, <2>3, <2>4 DEF AloneIsExact, Improves
<1> QED BY <1>2, <1>3, <1>4, <1>5, <1>6

\* The server offers something else.
LEMMA FeedChangesKeeps ==
    ASSUME IngestInv, NEW s \in Sources, Ingest!FeedChanges(s) PROVE IngestInv'
<1> USE DEF Ingest!FeedChanges, Ingest!db, Ingest!work
<1>1. IngestTypes'
  <2>1. feed' \in [Sources -> SUBSET Urls]
    BY DEF IngestInv, IngestTypes, Ingest!TypeOK, Ingest!Offered
  <2>2. changes' \in 0..MaxChanges
    BY IngestAssumption DEF IngestInv, IngestTypes, Ingest!TypeOK
  <2> QED BY <2>1, <2>2 DEF IngestInv, IngestTypes, Ingest!TypeOK
<1>2. FeedsAreOffered'
  BY DEF IngestInv, FeedsAreOffered, IngestTypes, Ingest!TypeOK
<1>3. /\ TablesAreSound' /\ LockIsHeld' /\ TagsAreTrue' /\ BatchesAreSound'
      /\ (~overlapped => AloneIsExact)'
  <2>1. \A v \in Writers : Storing(v)' = Storing(v) /\ Seen(v)' = Seen(v)
    BY DEF Storing, Seen, Ingest!Visible
  <2>2. TablesAreSound' /\ LockIsHeld' /\ TagsAreTrue'
    BY <2>1 DEF IngestInv, TablesAreSound, LockIsHeld, TagsAreTrue, Acknowledged
  <2>3. BatchesAreSound'
    BY <2>1 DEF IngestInv, BatchesAreSound
  <2>4. (~overlapped => AloneIsExact)'
    BY <2>1 DEF IngestInv, AloneIsExact, WriterIsAlone, BatchesAreExact, Improves
  <2> QED BY <2>2, <2>3, <2>4
<1> QED BY <1>1, <1>2, <1>3 DEF IngestInv

\* refresh_all begins: it overlaps if another one is running.
LEMMA RefreshBegins ==
    ASSUME IngestInv, NEW w \in Writers, Ingest!Begin(w) PROVE IngestInv'
<1> USE DEF Ingest!Begin, Ingest!db
<1>1. IngestTypes'
  <2>1. cached' \in [Writers -> [Sources -> Contents]] /\ pending' \in [Writers -> SUBSET Sources]
    BY DEF IngestInv, IngestTypes, Ingest!TypeOK
  <2>2. refreshes' \in 0..MaxRefreshes /\ overlapped' \in BOOLEAN
    BY IngestAssumption DEF IngestInv, IngestTypes, Ingest!TypeOK
  <2>3. \A v \in Writers, s \in Sources : Cardinality(cached'[v][s]) <= 1
    <3>1. \A s \in Sources : Cardinality(etag[s]) <= 1
      BY IngestCount DEF IngestInv, IngestTypes, Ingest!TypeOK
    <3> QED BY <3>1 DEF IngestInv, IngestTypes
  <2>4. writerPc' \in [Writers -> {"idle", "refresh", "lookup", "write"}]
    BY DEF IngestInv, IngestTypes, Ingest!TypeOK
  <2> QED BY <2>1, <2>2, <2>3, <2>4 DEF IngestInv, IngestTypes, Ingest!TypeOK
<1>2. FeedsAreOffered'
  BY DEF IngestInv, FeedsAreOffered
<1>3. writerPc[w] = "idle" /\ writerPc'[w] = "refresh"
      /\ \A v \in Writers \ {w} : writerPc'[v] = writerPc[v] /\ cached'[v] = cached[v]
      /\ cached'[w] = etag
  BY DEF IngestInv, IngestTypes, Ingest!TypeOK
<1>4. ~Storing(w)' /\ ~Storing(w)
  BY <1>3 DEF Storing
<1>5. ~overlapped' => ~overlapped /\ WriterIsAlone'
  BY <1>3 DEF WriterIsAlone
<1>6. Acknowledged(cached'[w]) /\ lock # w
  BY <1>3, <1>4 DEF IngestInv, TagsAreTrue, LockIsHeld
<1> QED BY <1>1, <1>2, <1>3, <1>4, <1>5, <1>6, IdleKeeps DEF IngestInv

\* refresh_all ends.
LEMMA RefreshEnds ==
    ASSUME IngestInv, NEW w \in Writers, Ingest!End(w) PROVE IngestInv'
<1> USE DEF Ingest!End, Ingest!db
<1>1. IngestTypes'
  BY DEF IngestInv, IngestTypes, Ingest!TypeOK
<1>2. FeedsAreOffered'
  BY DEF IngestInv, FeedsAreOffered
<1>3. writerPc[w] = "refresh" /\ writerPc'[w] = "idle"
      /\ \A v \in Writers \ {w} : writerPc'[v] = writerPc[v]
  BY DEF IngestInv, IngestTypes, Ingest!TypeOK
<1>4. ~Storing(w)' /\ ~Storing(w)
  BY <1>3 DEF Storing
<1>5. ~overlapped => WriterIsAlone'
  BY <1>3 DEF IngestInv, AloneIsExact, WriterIsAlone
<1>6. Acknowledged(cached'[w]) /\ lock # w
  BY <1>3, <1>4 DEF IngestInv, TagsAreTrue, LockIsHeld
<1> QED BY <1>1, <1>2, <1>3, <1>4, <1>5, <1>6, IdleKeeps DEF IngestInv

\* A fetch: what the feed offers now, or the answer that it is what the ETag stands for.
LEMMA FetchKeeps ==
    ASSUME IngestInv, NEW w \in Writers, NEW s \in Sources, Ingest!Fetch(w, s) PROVE IngestInv'
<1> USE DEF Ingest!Fetch, Ingest!db
<1>1. PICK k \in {"ok", "not_modified", "error"} :
         got' = [got EXCEPT ![w] = @ \cup
            {[source |-> s, kind |-> k, items |-> IF k = "ok" THEN feed[s] ELSE {}]}]
  OBVIOUS
<1> DEFINE o == [source |-> s, kind |-> k, items |-> IF k = "ok" THEN feed[s] ELSE {}]
<1>2. o \in Ingest!Outcome /\ o.items \subseteq Ingest!Offered(o.source)
      /\ (o.kind # "ok" => o.items = {})
  BY DEF IngestInv, IngestTypes, Ingest!TypeOK, Ingest!Outcome, FeedsAreOffered
<1>3. got' = [got EXCEPT ![w] = @ \cup {o}]
  BY <1>1
<1> HIDE DEF o
<1>4. IngestTypes'
  <2>1. got' \in [Writers -> SUBSET Ingest!Outcome]
    BY <1>2, <1>3 DEF IngestInv, IngestTypes
  <2>2. pending' \in [Writers -> SUBSET Sources]
    BY DEF IngestInv, IngestTypes
  <2> QED BY <2>1, <2>2 DEF IngestInv, IngestTypes, Ingest!TypeOK
<1>5. FeedsAreOffered'
  <2>1. \A v \in Writers : \A x \in got'[v] : x \in got[v] \/ x = o
    BY <1>3 DEF IngestInv, IngestTypes
  <2> QED BY <1>2, <2>1 DEF IngestInv, FeedsAreOffered
<1>6. \A v \in Writers : Storing(v)' = Storing(v) /\ Seen(v)' = Seen(v)
  BY DEF Storing, Seen, Ingest!Visible
<1>7. TablesAreSound' /\ LockIsHeld' /\ TagsAreTrue'
  BY <1>6 DEF IngestInv, TablesAreSound, LockIsHeld, TagsAreTrue, Acknowledged
<1>8. BatchesAreSound'
  BY <1>6 DEF IngestInv, BatchesAreSound
<1>9. (~overlapped => AloneIsExact)'
  BY <1>6 DEF IngestInv, AloneIsExact, WriterIsAlone, BatchesAreExact, Improves
<1> QED BY <1>4, <1>5, <1>7, <1>8, <1>9 DEF IngestInv

\* persist_outcome begins: all is left, and the index has what is committed.
LEMMA LoadKeeps ==
    ASSUME IngestInv, NEW w \in Writers, NEW o \in got[w], Ingest!Load(w, o) PROVE IngestInv'
<1> USE DEF Ingest!Load, Ingest!db
<1> DEFINE b == [source |-> o.source, kind |-> o.kind, items |-> o.items, left |-> o.items,
                 index |-> IF o.items = {} THEN {} ELSE newsRows,
                 url |-> Ingest!NoBatch.url, hit |-> {}]
<1>1. outcome'[w] = b /\ writerPc'[w] = "lookup" /\ writerPc[w] = "refresh"
      /\ outcome' = [outcome EXCEPT ![w] = b]
      /\ \A v \in Writers \ {w} : writerPc'[v] = writerPc[v] /\ outcome'[v] = outcome[v]
  <2>1. [Ingest!NoBatch EXCEPT !.source = o.source, !.kind = o.kind, !.items = o.items,
                               !.left = o.items, !.index = IF o.items = {} THEN {} ELSE newsRows]
          = b
    <3> DEFINE n == Ingest!NoBatch
    <3>1. n = [source |-> n.source, kind |-> n.kind, items |-> n.items, left |-> n.left,
               index |-> n.index, url |-> n.url, hit |-> {}]
      BY DEF Ingest!NoBatch
    <3> HIDE DEF n
    <3> DEFINE x == IF o.items = {} THEN {} ELSE newsRows
               n1 == [n EXCEPT !.source = o.source]
               n2 == [n1 EXCEPT !.kind = o.kind]
               n3 == [n2 EXCEPT !.items = o.items]
               n4 == [n3 EXCEPT !.left = o.items]
               n5 == [n4 EXCEPT !.index = x]
    <3>2. n1 = [source |-> o.source, kind |-> n.kind, items |-> n.items, left |-> n.left,
                index |-> n.index, url |-> n.url, hit |-> {}]
      BY <3>1
    <3>3. [n EXCEPT !.source = o.source, !.kind = o.kind, !.items = o.items, !.left = o.items,
                    !.index = x] = n5
      OBVIOUS
    <3> HIDE DEF x, n1
    <3>4. n2 = [source |-> o.source, kind |-> o.kind, items |-> n.items, left |-> n.left,
                index |-> n.index, url |-> n.url, hit |-> {}]
      BY <3>2
    <3> HIDE DEF n2
    <3>5. n3 = [source |-> o.source, kind |-> o.kind, items |-> o.items, left |-> n.left,
                index |-> n.index, url |-> n.url, hit |-> {}]
      BY <3>4
    <3> HIDE DEF n3
    <3>6. n4 = [source |-> o.source, kind |-> o.kind, items |-> o.items, left |-> o.items,
                index |-> n.index, url |-> n.url, hit |-> {}]
      BY <3>5
    <3> HIDE DEF n4
    <3>7. n5 = [source |-> o.source, kind |-> o.kind, items |-> o.items, left |-> o.items,
                index |-> x, url |-> n.url, hit |-> {}]
      BY <3>6
    <3> QED BY <3>3, <3>7 DEF n, x
  <2>2. outcome' = [outcome EXCEPT ![w] = b]
    BY <2>1
  <2> HIDE DEF b
  <2> QED BY <2>2 DEF IngestInv, IngestTypes, Ingest!TypeOK
<1>2. o \in Ingest!Outcome /\ o.items \subseteq Ingest!Offered(o.source)
      /\ (o.kind # "ok" => o.items = {})
  BY DEF IngestInv, IngestTypes, FeedsAreOffered
<1>3. b \in Plans
  <2>1. Ingest!NoBatch.url \in Urls
    BY IngestAssumption DEF Ingest!NoBatch
  <2>2. newsRows \subseteq Ingest!Row
    BY DEF IngestInv, IngestTypes, Ingest!TypeOK
  <2> QED BY <1>2, <2>1, <2>2 DEF Plans, Ingest!Outcome
<1>4. b.items = o.items /\ b.left = o.items /\ b.source = o.source /\ b.kind = o.kind
      /\ b.index = (IF o.items = {} THEN {} ELSE newsRows)
  OBVIOUS
<1> HIDE DEF b
<1>5. IngestTypes'
  <2>1. outcome' \in [Writers -> Plans]
    BY <1>1, <1>3 DEF IngestInv, IngestTypes
  <2>2. got' \in [Writers -> SUBSET Ingest!Outcome]
    BY DEF IngestInv, IngestTypes
  <2>3. writerPc' \in [Writers -> {"idle", "refresh", "lookup", "write"}]
    BY DEF IngestInv, IngestTypes, Ingest!TypeOK
  <2> QED BY <2>1, <2>2, <2>3 DEF IngestInv, IngestTypes, Ingest!TypeOK
<1>6. FeedsAreOffered'
  <2>1. \A v \in Writers : \A x \in got'[v] : x \in got[v]
    BY DEF IngestInv, IngestTypes
  <2> QED BY <2>1 DEF IngestInv, FeedsAreOffered
<1>7. ~Storing(w) /\ lock # w /\ Seen(w) = newsRows
  <2>1. ~Storing(w)
    BY <1>1 DEF Storing
  <2> QED BY <2>1, SeenIs DEF IngestInv, LockIsHeld
<1>8. BatchIsSound(writerPc'[w], outcome'[w], Seen(w))
  BY <1>1, <1>2, <1>4, <1>7 DEF BatchIsSound, KnowsAll, Knows
<1>9. BatchIsExact(writerPc'[w], outcome'[w], Seen(w))
  BY <1>1, <1>4, <1>7 DEF BatchIsExact, KnowsAll, Knows
<1>10. ~overlapped => WriterIsAlone'
  <2> SUFFICES ASSUME ~overlapped PROVE WriterIsAlone'
    OBVIOUS
  <2>1. \A v \in Writers \ {w} : writerPc'[v] = "idle"
    BY <1>1, OthersIdle
  <2> QED BY <2>1 DEF WriterIsAlone
<1>11. Acknowledged(cached'[w]) /\ \A v \in Writers \ {w} : cached'[v] = cached[v]
  BY DEF IngestInv, TagsAreTrue
<1> QED BY <1>1, <1>5, <1>6, <1>7, <1>8, <1>9, <1>10, <1>11, IdleKeeps DEF IngestInv

\* What the lookup of a link can find: rows of its story; all of them if the index is whole.
LEMMA DuplicatesFacts ==
    ASSUME IngestInv, NEW w \in Writers, Storing(w), NEW u \in outcome[w].left
    PROVE  /\ Ingest!Duplicates(w, u) \subseteq Seen(w)
           /\ \A r \in Ingest!Duplicates(w, u) : r.story = Story[u]
           /\ ~overlapped /\ Ingest!Duplicates(w, u) = {} => ~Told(Seen(w), u)
<1> DEFINE same == {r \in Seen(w) : r.url = u}
           near == {r \in Seen(w) :
                      \E i \in outcome[w].index : i.id = r.id /\ i.story = Story[u]}
<1>1. Ingest!Duplicates(w, u) = IF same # {} THEN same ELSE near
  BY DEF Ingest!Duplicates, Seen
<1>2. \A q, r \in Seen(w) : q.id = r.id => q = r
  BY SeenFacts
<1>3. BatchIsSound(writerPc[w], outcome[w], Seen(w))
  BY DEF IngestInv, BatchesAreSound
<1>4. \A r \in near : r.story = Story[u]
  <2> SUFFICES ASSUME NEW r \in near PROVE r.story = Story[u]
    OBVIOUS
  <2>1. PICK i \in outcome[w].index : i.id = r.id /\ i.story = Story[u]
    OBVIOUS
  <2>2. PICK q \in Seen(w) : q.id = i.id /\ q.story = i.story
    BY <1>3 DEF BatchIsSound, KnowsAll, Knows
  <2>3. q = r
    BY <1>2, <2>1, <2>2
  <2> QED BY <2>1, <2>2, <2>3
<1>5. \A r \in same : r.story = Story[u]
  BY SeenFacts DEF OwnStories
<1>6. ASSUME ~overlapped, near = {}, NEW r \in Seen(w), r.story = Story[u] PROVE FALSE
  <2>1. BatchIsExact(writerPc[w], outcome[w], Seen(w))
    BY <1>6 DEF IngestInv, AloneIsExact, BatchesAreExact
  <2>2. outcome[w].items # {}
    BY <1>3 DEF BatchIsSound
  <2>3. PICK i \in outcome[w].index : i.id = r.id /\ i.story = r.story
    BY <2>1, <2>2, <1>6 DEF BatchIsExact, KnowsAll, Knows
  <2> QED BY <1>6, <2>3
<1> HIDE DEF same, near
<1>7. ~overlapped /\ Ingest!Duplicates(w, u) = {} => ~Told(Seen(w), u)
  BY <1>1, <1>6 DEF Told
<1>8. Ingest!Duplicates(w, u) \subseteq Seen(w)
  BY <1>1 DEF same, near
<1> QED BY <1>1, <1>4, <1>5, <1>7, <1>8

\* persist_item looks one of the items up.
LEMMA LookupKeeps ==
    ASSUME IngestInv, NEW w \in Writers, NEW u \in Urls, Ingest!Lookup(w, u) PROVE IngestInv'
<1> USE DEF Ingest!Lookup, Ingest!db
<1> DEFINE b == outcome[w]
           dups == Ingest!Duplicates(w, u)
<1>1. u \in b.left /\ writerPc[w] = "lookup" /\ Storing(w) /\ b \in Plans
  BY DEF IngestInv, IngestTypes, Storing
<1>2. /\ dups \subseteq Seen(w) /\ \A r \in dups : r.story = Story[u]
      /\ ~overlapped /\ dups = {} => ~Told(Seen(w), u)
  BY <1>1, DuplicatesFacts
<1>3. BatchIsSound("lookup", b, Seen(w))
  BY <1>1 DEF IngestInv, BatchesAreSound
<1>4. ~overlapped => BatchIsExact("lookup", b, Seen(w))
  BY <1>1 DEF IngestInv, AloneIsExact, BatchesAreExact
<1>5. PICK c \in Plans :
        /\ outcome' = [outcome EXCEPT ![w] = c]
        /\ c.source = b.source /\ c.kind = b.kind /\ c.items = b.items /\ c.index = b.index
        /\ \/ /\ u \in Irrelevant /\ c.left = b.left \ {u} /\ writerPc' = writerPc
           \/ /\ c.left = b.left /\ c.url = u /\ c.hit \subseteq dups
              /\ \A g, h \in c.hit : g = h
              /\ c.hit = {} => dups = {}
              /\ writerPc' = [writerPc EXCEPT ![w] = "write"]
  <2>1. CASE dups = {} /\ u \in Irrelevant
    <3> DEFINE c == [b EXCEPT !.left = @ \ {u}]
    <3>1. c \in Plans /\ c.left = b.left \ {u} /\ c.source = b.source /\ c.kind = b.kind
          /\ c.items = b.items /\ c.index = b.index
      BY <1>1 DEF Plans
    <3>2. outcome' = [outcome EXCEPT ![w] = c] /\ writerPc' = writerPc
      BY <2>1
    <3> QED BY <2>1, <3>1, <3>2
  <2>2. CASE ~(dups = {} /\ u \in Irrelevant)
    <3>1. PICK hit \in IF dups = {} THEN {{}} ELSE {{r} : r \in dups} :
             outcome' = [outcome EXCEPT ![w].url = u, ![w].hit = hit]
      BY <2>2
    <3> DEFINE c == [b EXCEPT !.url = u, !.hit = hit]
    <3>2. hit \subseteq dups /\ (\A g, h \in hit : g = h) /\ (hit = {} => dups = {})
      BY <3>1
    <3>3. hit \subseteq Ingest!Row
      BY <1>2, <3>2, SeenFacts
    <3>4. c \in Plans /\ c.left = b.left /\ c.source = b.source /\ c.kind = b.kind
          /\ c.items = b.items /\ c.index = b.index /\ c.url = u /\ c.hit = hit
      BY <1>1, <3>3 DEF Plans
    <3>5. outcome' = [outcome EXCEPT ![w] = c]
      BY <3>1 DEF IngestInv, IngestTypes
    <3>6. writerPc' = [writerPc EXCEPT ![w] = "write"]
      BY <2>2
    <3> HIDE DEF c, dups, b
    <3> QED BY <3>2, <3>4, <3>5, <3>6
  <2> QED BY <2>1, <2>2
<1> HIDE DEF dups, b
<1>6. /\ outcome'[w] = c /\ writerPc'[w] \in {"lookup", "write"}
      /\ \A v \in Writers \ {w} : writerPc'[v] = writerPc[v] /\ outcome'[v] = outcome[v]
      /\ writerPc'[w] = "write" => c.left = b.left /\ c.url = u /\ c.hit \subseteq dups
                                   /\ (\A g, h \in c.hit : g = h) /\ (c.hit = {} => dups = {})
      /\ c.left = b.left \/ (u \in Irrelevant /\ c.left = b.left \ {u})
  BY <1>1, <1>5 DEF IngestInv, IngestTypes, Ingest!TypeOK
<1>7. IngestTypes'
  <2>1. outcome' \in [Writers -> Plans]
    BY <1>5 DEF IngestInv, IngestTypes
  <2>2. writerPc' \in [Writers -> {"idle", "refresh", "lookup", "write"}]
    BY <1>5 DEF IngestInv, IngestTypes, Ingest!TypeOK
  <2> QED BY <2>1, <2>2 DEF IngestInv, IngestTypes, Ingest!TypeOK
<1>8. FeedsAreOffered'
  BY DEF IngestInv, FeedsAreOffered
<1>9. BatchIsSound(writerPc'[w], outcome'[w], Seen(w))
  <2>1. writerPc'[w] = "write" => LookupIsSound(c, Seen(w))
    BY <1>1, <1>2, <1>6 DEF LookupIsSound, Knows
  <2> QED BY <1>3, <1>5, <1>6, <2>1 DEF BatchIsSound
<1>10. ~overlapped => BatchIsExact(writerPc'[w], outcome'[w], Seen(w))
  BY <1>2, <1>4, <1>5, <1>6 DEF BatchIsExact
<1>11. ~overlapped => WriterIsAlone'
  <2> SUFFICES ASSUME ~overlapped PROVE WriterIsAlone'
    OBVIOUS
  <2>1. \A v \in Writers \ {w} : writerPc'[v] = "idle"
    BY <1>1, <1>6, OthersIdle
  <2> QED BY <2>1 DEF WriterIsAlone
<1>12. lock = w => Storing(w)' /\ outcome'[w].kind = "ok"
  BY <1>5, <1>6 DEF IngestInv, LockIsHeld, Storing, b
<1>13. Acknowledged(cached'[w]) /\ \A v \in Writers \ {w} : cached'[v] = cached[v]
  BY DEF IngestInv, TagsAreTrue
<1> QED BY <1>6, <1>7, <1>8, <1>9, <1>10, <1>11, <1>12, <1>13, IdleKeeps DEF IngestInv

\* A step of the writer that holds the lock or takes it, with which the rows it sees become
\* the table t, and u of the items is done.
LEMMA WriteKeeps ==
    ASSUME IngestInv, NEW w \in Writers, writerPc[w] = "write", Ingest!Free(w), NEW t, NEW r \in t,
           UNCHANGED <<feed, changes, newsRows, etag, cached, pending, got, refreshes, faults,
                       overlapped>>,
           view' = t, lock' = w, Ingest!Register(w, r),
           writerPc' = [writerPc EXCEPT ![w] = "lookup"],
           t \subseteq Ingest!Row, Counted(t), OwnStories(t),
           \A p, q \in t : (p.id = q.id \/ p.url = q.url) => p = q,
           KnowsAll(t, Seen(w)), r.story = Story[outcome[w].url],
           ~overlapped => /\ Improves(t) /\ StoriesApart(t) /\ LinksFit(t)
                          /\ \A q \in t : q # r => q \in Seen(w)
    PROVE  IngestInv'
<1> DEFINE b == outcome[w]
           c == outcome'[w]
<1>1. Storing(w) /\ Storing(w)' /\ b \in Plans /\ outcome[w].url \in outcome[w].left
      /\ writerPc'[w] = "lookup"
      /\ \A v \in Writers \ {w} : writerPc'[v] = writerPc[v] /\ outcome'[v] = outcome[v]
  <2>1. Storing(w) /\ BatchIsSound("write", b, Seen(w))
    BY DEF IngestInv, BatchesAreSound, Storing
  <2>2. outcome[w].url \in outcome[w].left
    BY <2>1 DEF BatchIsSound, LookupIsSound
  <2>3. writerPc'[w] = "lookup" /\ \A v \in Writers \ {w} : writerPc'[v] = writerPc[v]
    BY DEF IngestInv, IngestTypes, Ingest!TypeOK
  <2>4. b \in Plans /\ \A v \in Writers \ {w} : outcome'[v] = outcome[v]
    BY DEF IngestInv, IngestTypes, Ingest!Register
  <2> QED BY <2>1, <2>2, <2>3, <2>4 DEF Storing
<1>2. BatchIsSound("write", b, Seen(w))
  BY <1>1 DEF IngestInv, BatchesAreSound
<1>3. c \in Plans /\ c.source = b.source /\ c.kind = b.kind /\ c.items = b.items
      /\ c.left = b.left \ {b.url} /\ c.index = {i \in b.index : i.id # r.id} \cup {r}
      /\ outcome' = [outcome EXCEPT ![w] = c]
  <2> DEFINE x == [b EXCEPT !.left = @ \ {b.url}, !.index = {i \in @ : i.id # r.id} \cup {r},
                            !.hit = {}]
  <2>1. x \in Plans /\ x.source = b.source /\ x.kind = b.kind /\ x.items = b.items
        /\ x.left = b.left \ {b.url} /\ x.index = {i \in b.index : i.id # r.id} \cup {r}
    BY <1>1 DEF Plans
  <2>2. outcome' = [outcome EXCEPT ![w] = x] /\ outcome'[w] = x
    BY DEF IngestInv, IngestTypes, Ingest!Register
  <2> HIDE DEF x, b
  <2> QED BY <2>1, <2>2
<1> HIDE DEF c
<1>4. Seen(w)' = t /\ w # "none" /\ KnowsAll(t, newsRows)
  <2>1. Seen(w)' = t /\ w # "none"
    BY IngestAssumption DEF Seen, Ingest!Visible
  <2>2. KnowsAll(Seen(w), newsRows)
    BY SeenFacts
  <2> QED BY <2>1, <2>2, KnowsMore
<1>5. IngestTypes'
  <2>1. outcome' \in [Writers -> Plans]
    BY <1>3 DEF IngestInv, IngestTypes
  <2>2. writerPc' \in [Writers -> {"idle", "refresh", "lookup", "write"}]
    BY DEF IngestInv, IngestTypes, Ingest!TypeOK
  <2>3. \A s \in {newsRows, t} :
           s \subseteq Ingest!Row /\ \A p, q \in s : (p.id = q.id \/ p.url = q.url) => p = q
    BY DEF IngestInv, IngestTypes, Ingest!TypeOK
  <2> QED BY <2>1, <2>2, <2>3 DEF IngestInv, IngestTypes, Ingest!TypeOK, Ingest!NoWriter
<1>6. FeedsAreOffered'
  BY DEF IngestInv, FeedsAreOffered
<1>7. TablesAreSound'
  BY DEF IngestInv, TablesAreSound
<1>8. lock \in {"none", w}
  BY DEF Ingest!Free, Ingest!NoWriter
<1>9. outcome'[w].kind = "ok"
  BY <1>1, <1>2, <1>3 DEF BatchIsSound, Plans, c
<1>10. LockIsHeld'
  BY <1>1, <1>4, <1>9 DEF LockIsHeld
<1>11. TagsAreTrue'
  BY DEF IngestInv, TagsAreTrue, Acknowledged
<1>12. BatchIsSound("lookup", c, t)
  <2>1. BatchIsSound("write", b, t)
    BY <1>2, SoundInMore
  <2>2. Knows(t, r) /\ Told(t, b.url)
    BY DEF Knows, Told
  <2> HIDE DEF b
  <2> QED BY <1>3, <2>1, <2>2 DEF BatchIsSound, KnowsAll
<1>13. BatchesAreSound'
  <2>1. \A v \in Writers \ {w} : Storing(v) => KnowsAll(Seen(v)', Seen(v))
    <3> SUFFICES ASSUME NEW v \in Writers \ {w} PROVE KnowsAll(Seen(v)', Seen(v))
      OBVIOUS
    <3>1. Seen(v) = newsRows /\ Seen(v)' = newsRows
      BY <1>8, IngestAssumption DEF Seen, Ingest!Visible
    <3> QED BY <3>1, KnowsItself
  <2>2. writerPc'[w] = "lookup" /\ Seen(w)' = t /\ outcome'[w] = c
    BY <1>1, <1>4 DEF c
  <2>3. BatchIsSound(writerPc'[w], outcome'[w], Seen(w)')
    BY <1>12, <2>2
  <2> QED BY <1>1, <2>1, <2>3, OthersKeep
<1>14. ASSUME ~overlapped PROVE AloneIsExact'
  <2>1. \A v \in Writers \ {w} : writerPc'[v] = "idle"
    BY <1>1, <1>14, OthersIdle
  <2>2. BatchIsExact("lookup", c, t)
    <3>1. BatchIsExact("write", b, Seen(w)) /\ b.items # {}
      BY <1>1, <1>2, <1>14 DEF IngestInv, AloneIsExact, BatchesAreExact, BatchIsSound
    <3>2. \A q \in t : q # r => q.id # r.id /\ q \in Seen(w)
      BY <1>14
    <3> HIDE DEF b
    <3>3. KnowsAll(c.index, t)
      <4> SUFFICES ASSUME NEW q \in t PROVE Knows(c.index, q)
        BY DEF KnowsAll
      <4>1. CASE q = r
        BY <1>3, <4>1 DEF Knows
      <4>2. CASE q # r
        <5>1. PICK i \in b.index : i.id = q.id /\ i.story = q.story
          BY <3>1, <3>2, <4>2 DEF BatchIsExact, KnowsAll, Knows
        <5> QED BY <1>3, <3>2, <4>2, <5>1 DEF Knows
      <4> QED BY <4>1, <4>2
    <3> QED BY <3>3 DEF BatchIsExact
  <2>3. BatchesAreExact'
    <3> SUFFICES ASSUME NEW v \in Writers, Storing(v)'
                 PROVE  BatchIsExact(writerPc'[v], outcome'[v], Seen(v)')
      BY DEF BatchesAreExact
    <3>1. v = w
      BY <2>1 DEF Storing
    <3>2. writerPc'[w] = "lookup" /\ Seen(w)' = t /\ outcome'[w] = c
      BY <1>1, <1>4 DEF c
    <3>3. BatchIsExact(writerPc'[w], outcome'[w], Seen(w)')
      BY <2>2, <3>2
    <3> QED BY <3>1, <3>3
  <2>4. WriterIsAlone'
    BY <2>1 DEF WriterIsAlone
  <2>5. \A s \in {newsRows, t} : StoriesApart(s) /\ LinksFit(s)
    BY <1>14 DEF IngestInv, AloneIsExact
  <2>6. Improves(view)'
    BY <1>14 DEF Improves
  <2> QED BY <2>3, <2>4, <2>5, <2>6 DEF AloneIsExact
<1> QED BY <1>5, <1>6, <1>7, <1>10, <1>11, <1>13, <1>14 DEF IngestInv

\* Without overlap, what a writer sees is an improvement of what is committed.
LEMMA SeenAlone ==
    ASSUME IngestInv, ~overlapped, NEW w \in Writers
    PROVE  Improves(Seen(w)) /\ StoriesApart(Seen(w)) /\ LinksFit(Seen(w))
<1>1. Seen(w) = IF lock = w THEN view ELSE newsRows
  BY SeenIs
<1>2. StoriesApart(Seen(w)) /\ LinksFit(Seen(w))
  BY <1>1 DEF IngestInv, AloneIsExact
<1>3. Improves(newsRows)
  <2>1. \A r \in newsRows : Rank[r.source] \in Int
    BY IngestAssumption DEF IngestInv, IngestTypes, Ingest!TypeOK, Ingest!Row
  <2> QED BY <2>1 DEF Improves
<1>4. lock = w => Improves(view)
  BY SeenFacts DEF IngestInv, AloneIsExact
<1> QED BY <1>1, <1>2, <1>3, <1>4

\* persist_item inserts.
LEMMA InsertKeeps ==
    ASSUME IngestInv, NEW w \in Writers, Ingest!Insert(w) PROVE IngestInv'
<1> DEFINE V == Seen(w)
           b == outcome[w]
           r == [id |-> Cardinality(V) + 1, url |-> b.url, story |-> Story[b.url],
                 source |-> b.source]
<1>1. /\ V \subseteq Ingest!Row /\ Counted(V) /\ OwnStories(V)
      /\ \A p, q \in V : (p.id = q.id \/ p.url = q.url) => p = q
  BY SeenFacts
<1>2. /\ writerPc[w] = "write" /\ Ingest!Free(w) /\ view' = V \cup {r} /\ lock' = w
      /\ Ingest!Register(w, r) /\ writerPc' = [writerPc EXCEPT ![w] = "lookup"]
      /\ b.hit = {} /\ \A q \in V : q.url # b.url
      /\ UNCHANGED <<feed, changes, newsRows, etag, cached, pending, got, refreshes, faults,
                     overlapped>>
  BY IngestCount DEF Ingest!Insert, Seen
<1>3. Storing(w) /\ b \in Plans
  BY <1>2 DEF IngestInv, IngestTypes, Storing
<1>4. BatchIsSound("write", b, V)
  BY <1>2, <1>3 DEF IngestInv, BatchesAreSound
<1>5. Cardinality(V) \in Nat /\ Counted(V \cup {r}) /\ \A q \in V : q.id # r.id
  <2>1. r.id = Cardinality(V) + 1
    OBVIOUS
  <2> HIDE DEF V, r
  <2> QED BY <1>1, <2>1, InsertedTable
<1>6. r.id = Cardinality(V) + 1 /\ r.url = b.url /\ r.story = Story[b.url]
      /\ r.source = b.source /\ r \in Ingest!Row
  BY <1>3, <1>5 DEF Ingest!Row, Plans
<1> DEFINE t == V \cup {r}
<1> HIDE DEF r, V
<1>7. t \subseteq Ingest!Row /\ Counted(t) /\ OwnStories(t) /\ KnowsAll(t, V)
      /\ r \in t /\ \A q \in t : q # r => q \in V
  BY <1>1, <1>5, <1>6 DEF OwnStories, KnowsAll, Knows
<1>8. \A p, q \in t : (p.id = q.id \/ p.url = q.url) => p = q
  BY <1>1, <1>2, <1>5, <1>6
<1>9. ASSUME ~overlapped PROVE Improves(t) /\ StoriesApart(t) /\ LinksFit(t)
  <2>1. Improves(V) /\ StoriesApart(V) /\ LinksFit(V)
    BY <1>9, SeenAlone DEF V
  <2>2. BatchIsExact("write", b, V)
    BY <1>2, <1>3, <1>9 DEF IngestInv, AloneIsExact, BatchesAreExact, V
  <2>3. ~Told(V, b.url)
    BY <1>2, <2>2 DEF BatchIsExact
  <2>4. <<r.source, r.url>> \in Offers
    BY <1>4, <1>6 DEF BatchIsSound, LookupIsSound, Ingest!Offered
  <2>5. Improves(t)
    BY <2>1 DEF Improves
  <2>6. StoriesApart(t)
    BY <1>6, <2>1, <2>3 DEF StoriesApart, Told
  <2> QED BY <2>1, <2>4, <2>5, <2>6 DEF LinksFit
<1>10. KnowsAll(t, Seen(w)) /\ \A q \in t : q # r => q \in Seen(w)
  BY <1>7 DEF V
<1>11. view' = t
  BY <1>2
<1>12. r.story = Story[outcome[w].url]
  BY <1>6
<1> HIDE DEF t, b
<1> QED BY <1>2, <1>7, <1>8, <1>9, <1>10, <1>11, <1>12, WriteKeeps

\* update_existing_item: the row has become the loaded one's, or a better source's.
LEMMA UpdateKeeps ==
    ASSUME IngestInv, NEW w \in Writers, Ingest!Update(w) PROVE IngestInv'
<1> DEFINE V == Seen(w)
           b == outcome[w]
           h == CHOOSE g \in b.hit : TRUE
           x == CHOOSE q \in V : q.id = h.id
           y == Ingest!Promoted(x, h, b.source, b.url, V \ {x})
           t == (V \ {x}) \cup {y}
<1>1. /\ V \subseteq Ingest!Row /\ Counted(V) /\ OwnStories(V)
      /\ \A p, q \in V : (p.id = q.id \/ p.url = q.url) => p = q
  BY SeenFacts
<1>2. /\ writerPc[w] = "write" /\ Ingest!Free(w) /\ view' = t /\ lock' = w
      /\ Ingest!Register(w, y) /\ writerPc' = [writerPc EXCEPT ![w] = "lookup"]
      /\ b.hit # {}
      /\ UNCHANGED <<feed, changes, newsRows, etag, cached, pending, got, refreshes, faults,
                     overlapped>>
  BY DEF Ingest!Update, Seen
<1>3. Storing(w) /\ b \in Plans
  BY <1>2 DEF IngestInv, IngestTypes, Storing
<1>4. BatchIsSound("write", b, V)
  BY <1>2, <1>3 DEF IngestInv, BatchesAreSound
<1> HIDE DEF V, b
<1>5. h \in b.hit /\ Knows(V, h) /\ h.story = Story[b.url]
  BY <1>2, <1>4 DEF BatchIsSound, LookupIsSound
<1> HIDE DEF h
<1>6. x \in V /\ x.id = h.id /\ x.story = Story[b.url]
  <2>1. PICK q \in V : q.id = h.id /\ q.story = h.story
    BY <1>5 DEF Knows
  <2>2. x \in V /\ x.id = h.id
    BY <2>1
  <2>3. x = q
    BY <1>1, <2>1, <2>2
  <2> QED BY <1>5, <2>1, <2>2, <2>3
<1> HIDE DEF x
<1>7. /\ y \in Ingest!Row /\ y.id = x.id /\ y.story = x.story
      /\ y.url = x.url \/ (y.url = b.url /\ \A q \in V \ {x} : q.url # b.url)
      /\ \/ y = x
         \/ /\ Rank[b.source] > Rank[h.source] /\ y.source = b.source
            /\ (\A q \in V \ {x} : q.url # b.url) => y.url = b.url
  <2>1. x \in Ingest!Row /\ b.source \in Sources /\ b.url \in Urls
    BY <1>1, <1>3, <1>6 DEF Plans
  <2>2. CASE ~(Rank[b.source] > Rank[h.source])
    BY <2>1, <2>2 DEF Ingest!Promoted
  <2>3. CASE Rank[b.source] > Rank[h.source] /\ \E q \in V \ {x} : q.url = b.url
    <3>1. y = [x EXCEPT !.source = b.source, !.url = x.url]
      BY <2>3 DEF Ingest!Promoted
    <3>2. y \in Ingest!Row /\ y.id = x.id /\ y.story = x.story /\ y.url = x.url
          /\ y.source = b.source
      BY <2>1, <3>1 DEF Ingest!Row
    <3> QED BY <2>3, <3>2
  <2>4. CASE Rank[b.source] > Rank[h.source] /\ \A q \in V \ {x} : q.url # b.url
    <3>1. y = [x EXCEPT !.source = b.source, !.url = b.url]
      BY <2>4 DEF Ingest!Promoted
    <3>2. y \in Ingest!Row /\ y.id = x.id /\ y.story = x.story /\ y.url = b.url
          /\ y.source = b.source
      BY <2>1, <3>1 DEF Ingest!Row
    <3> QED BY <2>4, <3>2
  <2> QED BY <2>2, <2>3, <2>4
<1> HIDE DEF y
<1>8. Counted(t)
  BY <1>1, <1>6, <1>7, UpdatedTable
<1>9. t \subseteq Ingest!Row /\ y \in t /\ \A q \in t : q # y => q \in V /\ q # x
  BY <1>1, <1>7
<1>10. KnowsAll(t, V)
  BY <1>7 DEF KnowsAll, Knows
<1>11. OwnStories(t)
  <2>1. y.story = Story[y.url]
    BY <1>1, <1>6, <1>7 DEF OwnStories
  <2> QED BY <1>1, <1>9, <2>1 DEF OwnStories
<1>12. \A p, q \in t : (p.id = q.id \/ p.url = q.url) => p = q
  <2>1. ASSUME NEW q \in V \ {x} PROVE q.id # y.id /\ q.url # y.url
    BY <1>1, <1>6, <1>7
  <2> QED BY <1>1, <1>9, <2>1
<1>13. ASSUME ~overlapped PROVE Improves(t) /\ StoriesApart(t) /\ LinksFit(t)
  <2>1. Improves(V) /\ StoriesApart(V) /\ LinksFit(V)
    BY <1>13, SeenAlone DEF V
  <2>2. x = h
    <3>1. BatchIsExact("write", b, V)
      BY <1>2, <1>3, <1>13 DEF IngestInv, AloneIsExact, BatchesAreExact, V, b
    <3>2. h \in V
      BY <1>5, <3>1 DEF BatchIsExact
    <3> QED BY <1>1, <1>6, <3>2
  <2>3. Rank[y.source] >= Rank[x.source] /\ Rank[y.source] \in Int /\ Rank[x.source] \in Int
    <3>1. x.source \in Sources /\ y.source \in Sources
      BY <1>1, <1>6, <1>7 DEF Ingest!Row
    <3> QED BY <1>7, <2>2, <3>1, IngestAssumption
  <2>4. Improves(t)
    <3> SUFFICES ASSUME NEW r \in newsRows
                 PROVE  \E q \in t : q.id = r.id /\ q.story = r.story
                                     /\ Rank[q.source] >= Rank[r.source]
      BY DEF Improves
    <3>1. PICK q \in V : q.id = r.id /\ q.story = r.story /\ Rank[q.source] >= Rank[r.source]
      BY <2>1 DEF Improves
    <3>2. CASE q # x
      BY <3>1, <3>2
    <3>3. CASE q = x
      <4>1. Rank[r.source] \in Int
        BY IngestAssumption DEF IngestInv, IngestTypes, Ingest!TypeOK, Ingest!Row
      <4> QED BY <1>7, <2>3, <3>1, <3>3, <4>1
    <3> QED BY <3>2, <3>3
  <2>5. StoriesApart(t)
    BY <1>6, <1>7, <1>9, <2>1 DEF StoriesApart
  <2>6. LinksFit(t)
    <3>1. \A q \in V \ {x} : q.url # b.url
      BY <1>1, <1>6, <2>1 DEF StoriesApart, OwnStories
    <3>2. <<b.source, b.url>> \in Offers
      BY <1>4 DEF BatchIsSound, LookupIsSound, Ingest!Offered
    <3>3. <<y.source, y.url>> \in Offers
      BY <1>6, <1>7, <2>1, <3>1, <3>2 DEF LinksFit
    <3> QED BY <1>9, <2>1, <3>3 DEF LinksFit
  <2> QED BY <2>4, <2>5, <2>6
<1>14. KnowsAll(t, Seen(w)) /\ (\A q \in t : q # y => q \in Seen(w))
       /\ y.story = Story[outcome[w].url]
  BY <1>6, <1>7, <1>9, <1>10 DEF V, b
<1> HIDE DEF t
<1> QED BY <1>2, <1>8, <1>9, <1>11, <1>12, <1>13, <1>14, WriteKeeps

\* No batch is one of no items.
LEMMA NoBatchFacts == Ingest!NoBatch \in Plans
<1>1. (CHOOSE s \in Sources : TRUE) \in Sources /\ (CHOOSE u \in Urls : TRUE) \in Urls
  BY IngestAssumption
<1> QED BY <1>1 DEF Ingest!NoBatch, Plans

\* The end of a transaction: the lock goes, and the other writers see what is committed.
\* What was acknowledged stays there.
LEMMA TransactionEnds ==
    ASSUME IngestInv, NEW w \in Writers, Storing(w), ~Storing(w)',
           \A v \in Writers \ {w} :
              /\ writerPc'[v] = writerPc[v] /\ outcome'[v] = outcome[v] /\ cached'[v] = cached[v],
           cached'[w] = cached[w], UNCHANGED overlapped,
           newsRows' \in {newsRows, Seen(w)}, Ingest!Free(w) \/ newsRows' = newsRows,
           view' = (IF lock = w THEN {} ELSE view),
           lock' = (IF lock = w THEN "none" ELSE lock),
           \A s \in Sources : \A content \in etag'[s] : \A u \in content :
              u \in Irrelevant \/ Told(newsRows', u)
    PROVE  /\ TablesAreSound' /\ LockIsHeld' /\ TagsAreTrue' /\ BatchesAreSound'
           /\ (~overlapped => AloneIsExact)'
           /\ view' \in {{}, view} /\ KnowsAll(newsRows', newsRows)
<1>1. w # "none" /\ KnowsAll(Seen(w), newsRows) /\ KnowsAll(newsRows, newsRows)
  BY SeenFacts, KnowsItself
<1>2. KnowsAll(newsRows', newsRows) /\ view' \in {{}, view}
  BY <1>1
<1>3. \A v \in Writers \ {w} : KnowsAll(Seen(v)', Seen(v))
  <2> SUFFICES ASSUME NEW v \in Writers \ {w} PROVE KnowsAll(Seen(v)', Seen(v))
    OBVIOUS
  <2>1. CASE lock = v
    <3>1. Seen(v) = view /\ Seen(v)' = view
      BY <2>1, IngestAssumption DEF Seen, Ingest!Visible
    <3> QED BY <3>1, KnowsItself
  <2>2. CASE lock # v
    <3>1. Seen(v) = newsRows /\ Seen(v)' = newsRows'
      BY <2>2, IngestAssumption DEF Seen, Ingest!Visible
    <3> QED BY <1>2, <3>1
  <2> QED BY <2>1, <2>2
<1>4. TablesAreSound'
  <2>1. Counted({}) /\ OwnStories({})
    BY FS_EmptySet DEF Counted, OwnStories
  <2>2. \A t \in {newsRows', view'} : t \in {newsRows, view, Seen(w), {}}
    BY <1>2
  <2>3. Counted(Seen(w)) /\ OwnStories(Seen(w))
    BY SeenFacts
  <2> QED BY <2>1, <2>2, <2>3 DEF IngestInv, TablesAreSound
<1>5. LockIsHeld'
  <2>1. CASE lock = w
    BY <1>1, <2>1, IngestAssumption DEF LockIsHeld
  <2>2. CASE lock # w
    <3>1. newsRows' = newsRows
      BY <2>2, SeenIs DEF Ingest!Free
    <3>2. \A v \in Writers : lock = v => Storing(v)' /\ outcome'[v].kind = "ok"
      BY <2>2 DEF IngestInv, LockIsHeld, Storing
    <3> QED BY <2>2, <3>1, <3>2 DEF IngestInv, LockIsHeld
  <2> QED BY <2>1, <2>2
<1>6. TagsAreTrue'
  <2>1. \A v \in Writers : cached'[v] = cached[v] /\ Acknowledged(cached[v])
    BY DEF IngestInv, TagsAreTrue
  <2>2. \A u : Told(newsRows, u) => Told(newsRows', u)
    BY <1>2, KnowsMore
  <2> QED BY <2>1, <2>2 DEF TagsAreTrue, Acknowledged
<1>7. BatchesAreSound'
  BY <1>3, OthersKeep
<1>8. ASSUME ~overlapped PROVE AloneIsExact'
  <2>1. \A v \in Writers \ {w} : writerPc'[v] = "idle"
    BY <1>8, OthersIdle DEF Storing
  <2>2. WriterIsAlone'
    BY <2>1 DEF WriterIsAlone
  <2>3. BatchesAreExact'
    BY <2>1 DEF BatchesAreExact, Storing
  <2>4. \A t \in {newsRows', view'} : StoriesApart(t) /\ LinksFit(t)
    <3>1. StoriesApart({}) /\ LinksFit({})
      BY DEF StoriesApart, LinksFit
    <3>2. StoriesApart(Seen(w)) /\ LinksFit(Seen(w))
      BY <1>8, SeenAlone
    <3> QED BY <1>2, <1>8, <3>1, <3>2 DEF IngestInv, AloneIsExact
  <2>5. lock' = "none"
    <3>1. lock \in Writers \cup {"none"}
      BY DEF IngestInv, IngestTypes, Ingest!TypeOK, Ingest!NoWriter
    <3>2. lock \in Writers => lock = w
      BY <2>1 DEF IngestInv, LockIsHeld, Storing
    <3> QED BY <3>1, <3>2
  <2> QED BY <2>2, <2>3, <2>4, <2>5 DEF AloneIsExact
<1> QED BY <1>2, <1>4, <1>5, <1>6, <1>7, <1>8

\* persist_outcome commits the rows and the ETag.
LEMMA CommitKeeps ==
    ASSUME IngestInv, NEW w \in Writers, Ingest!Commit(w) PROVE IngestInv'
<1> DEFINE b == outcome[w]
<1>1. /\ writerPc[w] = "lookup" /\ b.left = {} /\ Ingest!Free(w) /\ b \in Plans
      /\ etag' = [etag EXCEPT ![b.source] = Ingest!NewEtag(w, b)]
      /\ newsRows' = Seen(w) /\ view' = {} /\ lock' = "none"
      /\ outcome' = [outcome EXCEPT ![w] = Ingest!NoBatch]
      /\ writerPc' = [writerPc EXCEPT ![w] = "refresh"]
      /\ UNCHANGED <<feed, changes, cached, pending, got, refreshes, faults, overlapped>>
  BY DEF IngestInv, IngestTypes, Ingest!Commit, Seen, Ingest!NoWriter
<1>2. Storing(w) /\ ~Storing(w)'
      /\ \A v \in Writers \ {w} : writerPc'[v] = writerPc[v] /\ outcome'[v] = outcome[v]
  BY <1>1 DEF IngestInv, IngestTypes, Ingest!TypeOK, Storing
<1>3. BatchIsSound("lookup", b, Seen(w))
  BY <1>1, <1>2 DEF IngestInv, BatchesAreSound
<1>4. view' = (IF lock = w THEN {} ELSE view) /\ lock' = (IF lock = w THEN "none" ELSE lock)
  BY <1>1 DEF IngestInv, LockIsHeld, Ingest!Free, Ingest!NoWriter
<1>5. Ingest!NewEtag(w, b) \in {{b.items}, cached[w][b.source], etag[b.source]}
      /\ b.source \in Sources /\ b.items \subseteq Urls
  <2>1. b.kind \in {"ok", "not_modified", "error"} /\ b.source \in Sources /\ b.items \subseteq Urls
    BY <1>1 DEF Plans
  <2> HIDE DEF b
  <2> QED BY <2>1 DEF Ingest!NewEtag
<1> HIDE DEF b
<1>6. KnowsAll(Seen(w), newsRows) /\ Seen(w) \subseteq Ingest!Row
      /\ \A q, r \in Seen(w) : (q.id = r.id \/ q.url = r.url) => q = r
  BY SeenFacts
<1>7. \A s \in Sources : \A content \in etag'[s] : \A u \in content :
         u \in Irrelevant \/ Told(newsRows', u)
  <2>1. \A u : Told(newsRows, u) => Told(Seen(w), u)
    BY <1>6, KnowsMore
  <2>2. \A u \in b.items : u \in Irrelevant \/ Told(Seen(w), u)
    BY <1>1, <1>3 DEF BatchIsSound
  <2>3. \A content \in Ingest!NewEtag(w, b) : \A u \in content :
           u \in Irrelevant \/ Told(Seen(w), u)
    BY <1>5, <2>1, <2>2 DEF IngestInv, TagsAreTrue, Acknowledged
  <2>4. \A s \in Sources : etag'[s] \in {etag[s], Ingest!NewEtag(w, b)}
    BY <1>1 DEF IngestInv, IngestTypes
  <2> QED BY <1>1, <2>1, <2>3, <2>4 DEF IngestInv, TagsAreTrue, Acknowledged
<1>8. IngestTypes'
  <2>1. etag' \in [Sources -> Contents]
        /\ \A s \in Sources : Ingest!Cardinality(etag'[s]) <= 1
    <3>1. Ingest!NewEtag(w, b) \in Contents /\ Cardinality(Ingest!NewEtag(w, b)) <= 1
      <4>1. Cardinality({b.items}) <= 1
        <5>1. Cardinality({b.items}) = 1
          BY FS_Singleton
        <5> QED BY <5>1
      <4>2. Cardinality(etag[b.source]) <= 1 /\ etag[b.source] \in Contents
        BY <1>5, IngestCount DEF IngestInv, IngestTypes, Ingest!TypeOK
      <4>3. Cardinality(cached[w][b.source]) <= 1 /\ cached[w][b.source] \in Contents
        BY <1>5 DEF IngestInv, IngestTypes
      <4> QED BY <1>5, <4>1, <4>2, <4>3 DEF Contents
    <3>2. \A s \in Sources : Cardinality(etag[s]) <= 1
      BY IngestCount DEF IngestInv, IngestTypes, Ingest!TypeOK
    <3>3. \A s \in Sources : etag'[s] \in {etag[s], Ingest!NewEtag(w, b)}
      BY <1>1 DEF IngestInv, IngestTypes
    <3>4. \A s \in Sources : Cardinality(etag'[s]) <= 1
      BY <3>1, <3>2, <3>3
    <3> QED BY <1>1, <3>1, <3>4, IngestCount DEF IngestInv, IngestTypes
  <2>2. outcome' \in [Writers -> Plans]
    BY <1>1, NoBatchFacts DEF IngestInv, IngestTypes
  <2>3. writerPc' \in [Writers -> {"idle", "refresh", "lookup", "write"}]
    BY <1>1 DEF IngestInv, IngestTypes, Ingest!TypeOK
  <2>4. \A t \in {newsRows', view'} :
           t \subseteq Ingest!Row /\ \A q, r \in t : (q.id = r.id \/ q.url = r.url) => q = r
    BY <1>1, <1>6
  <2>5. lock' \in Writers \cup {Ingest!NoWriter}
    BY <1>1 DEF Ingest!NoWriter
  <2>6. Ingest!TypeOK'
    <3>1. Ingest!TypeOK
      BY DEF IngestInv, IngestTypes
    <3>2. \A s \in Sources : etag'[s] \in SUBSET (SUBSET Urls)
      BY <2>1 DEF Contents
    <3> QED BY <1>1, <2>1, <2>3, <2>4, <2>5, <3>1, <3>2 DEF Ingest!TypeOK
  <2> QED BY <1>1, <2>1, <2>2, <2>6 DEF IngestInv, IngestTypes
<1>9. FeedsAreOffered'
  BY <1>1 DEF IngestInv, FeedsAreOffered
<1> QED BY <1>1, <1>2, <1>4, <1>7, <1>8, <1>9, TransactionEnds DEF IngestInv

\* What is written so far is rolled back, and the ETag stays.
LEMMA RolledBack ==
    ASSUME IngestInv, NEW w \in Writers, writerPc[w] \in {"lookup", "write"},
           NEW p \in {"idle", "refresh"}, writerPc' = [writerPc EXCEPT ![w] = p],
           UNCHANGED <<feed, changes, newsRows, etag, cached, refreshes, overlapped>>,
           Ingest!Unlock(w), faults' \in 0..MaxFaults,
           pending' \in {pending, [pending EXCEPT ![w] = {}]},
           got' \in {got, [got EXCEPT ![w] = {}]}
    PROVE  IngestInv'
<1> USE DEF Ingest!Unlock
<1>1. Storing(w) /\ ~Storing(w)'
      /\ \A v \in Writers \ {w} : writerPc'[v] = writerPc[v] /\ outcome'[v] = outcome[v]
  BY DEF IngestInv, IngestTypes, Ingest!TypeOK, Storing
<1>2. view' = (IF lock = w THEN {} ELSE view) /\ lock' = (IF lock = w THEN "none" ELSE lock)
  BY DEF Ingest!NoWriter
<1>3. IngestTypes'
  <2>1. outcome' \in [Writers -> Plans]
    BY NoBatchFacts DEF IngestInv, IngestTypes
  <2>2. writerPc' \in [Writers -> {"idle", "refresh", "lookup", "write"}]
    BY DEF IngestInv, IngestTypes, Ingest!TypeOK
  <2>3. pending' \in [Writers -> SUBSET Sources] /\ got' \in [Writers -> SUBSET Ingest!Outcome]
    BY DEF IngestInv, IngestTypes
  <2>4. \A t \in {newsRows, view'} :
           t \subseteq Ingest!Row /\ \A q, r \in t : (q.id = r.id \/ q.url = r.url) => q = r
    BY <1>2 DEF IngestInv, IngestTypes, Ingest!TypeOK
  <2>5. lock' \in Writers \cup {Ingest!NoWriter}
    BY <1>2 DEF IngestInv, IngestTypes, Ingest!TypeOK, Ingest!NoWriter
  <2> QED BY <2>1, <2>2, <2>3, <2>4, <2>5 DEF IngestInv, IngestTypes, Ingest!TypeOK
<1>4. FeedsAreOffered'
  BY DEF IngestInv, FeedsAreOffered, IngestTypes
<1>5. \A s \in Sources : \A content \in etag'[s] : \A u \in content :
         u \in Irrelevant \/ Told(newsRows', u)
  BY DEF IngestInv, TagsAreTrue, Acknowledged
<1> QED BY <1>1, <1>2, <1>3, <1>4, <1>5, TransactionEnds DEF IngestInv

\* The failures of a writer.
LEMMA FailuresKeep ==
    ASSUME IngestInv, NEW w \in Writers,
           Ingest!UniqueViolation(w) \/ Ingest!DatabaseError(w) \/ Ingest!Escape(w)
    PROVE  IngestInv'
<1>1. faults \in 0..MaxFaults /\ MaxFaults \in Nat
  BY IngestAssumption DEF IngestInv, IngestTypes, Ingest!TypeOK
<1>2. CASE Ingest!UniqueViolation(w)
  BY <1>1, <1>2, RolledBack DEF Ingest!UniqueViolation, Ingest!RollBack
<1>3. CASE Ingest!DatabaseError(w)
  <2>1. faults' \in 0..MaxFaults
    BY <1>1, <1>3 DEF Ingest!DatabaseError
  <2> QED BY <1>3, <2>1, RolledBack DEF Ingest!DatabaseError, Ingest!RollBack
<1>4. CASE Ingest!Escape(w)
  <2>1. faults' \in 0..MaxFaults
    BY <1>1, <1>4 DEF Ingest!Escape
  <2> QED BY <1>4, <2>1, RolledBack DEF Ingest!Escape
<1> QED BY <1>2, <1>3, <1>4

\* The process dies.
LEMMA RestartKeepsRows == ASSUME IngestInv, Ingest!Restart PROVE IngestInv'
<1> USE DEF Ingest!Restart
<1>1. \A v \in Writers : ~Storing(v)' /\ writerPc'[v] = "idle"
  BY DEF Storing
<1>2. IngestTypes'
  <2>1. outcome' \in [Writers -> Plans]
    BY NoBatchFacts
  <2>2. faults' \in 0..MaxFaults
    BY IngestAssumption DEF IngestInv, IngestTypes, Ingest!TypeOK
  <2> QED BY <2>1, <2>2 DEF IngestInv, IngestTypes, Ingest!TypeOK, Ingest!NoWriter
<1>3. FeedsAreOffered'
  BY DEF IngestInv, FeedsAreOffered
<1>4. TablesAreSound'
  BY FS_EmptySet DEF IngestInv, TablesAreSound, Counted, OwnStories
<1>5. LockIsHeld'
  BY IngestAssumption DEF LockIsHeld, Ingest!NoWriter
<1>6. TagsAreTrue'
  BY DEF IngestInv, TagsAreTrue, Acknowledged
<1>7. BatchesAreSound'
  BY <1>1 DEF BatchesAreSound
<1>8. (~overlapped => AloneIsExact)'
  <2>1. WriterIsAlone' /\ BatchesAreExact'
    BY <1>1 DEF WriterIsAlone, BatchesAreExact
  <2>2. ~overlapped => \A t \in {newsRows, {}} : StoriesApart(t) /\ LinksFit(t)
    BY DEF IngestInv, AloneIsExact, StoriesApart, LinksFit
  <2> QED BY <2>1, <2>2 DEF AloneIsExact, Ingest!NoWriter
<1> QED BY <1>2, <1>3, <1>4, <1>5, <1>6, <1>7, <1>8 DEF IngestInv

\* The invariant holds at first.
LEMMA IngestInitInv == Ingest!Init => IngestInv
<1> SUFFICES ASSUME Ingest!Init PROVE IngestInv
  OBVIOUS
<1> USE DEF Ingest!Init
<1>1. \A w \in Writers : ~Storing(w) /\ writerPc[w] = "idle"
  BY DEF Storing
<1>2. IngestTypes
  <2>1. outcome \in [Writers -> Plans]
    BY NoBatchFacts
  <2>2. Cardinality({}) = 0
    BY FS_EmptySet
  <2>3. \A s \in Sources : Ingest!Cardinality(etag[s]) = 0
    BY <2>2, IngestCount
  <2>4. etag \in [Sources -> Contents] /\ cached \in [Writers -> [Sources -> Contents]]
    BY DEF Contents
  <2>5. \A w \in Writers, s \in Sources : Cardinality(cached[w][s]) <= 1
    BY <2>2
  <2>6. /\ feed \in [Sources -> SUBSET Urls]
        /\ \A w \in Writers : pending[w] \subseteq Sources /\ got[w] \subseteq Ingest!Outcome
        /\ writerPc \in [Writers -> {"idle", "refresh", "lookup", "write"}]
    OBVIOUS
  <2>7. \A t \in {newsRows, view} :
            /\ t \subseteq Ingest!Row
            /\ \A q, r \in t : (q.id = r.id \/ q.url = r.url) => q = r
    OBVIOUS
  <2>8. \A s \in Sources : etag[s] \in SUBSET (SUBSET Urls) /\ Ingest!Cardinality(etag[s]) <= 1
    BY <2>3
  <2>9. /\ overlapped \in BOOLEAN /\ refreshes \in 0..MaxRefreshes
        /\ changes \in 0..MaxChanges /\ faults \in 0..MaxFaults
    <3>1. overlapped \in BOOLEAN
      OBVIOUS
    <3>2. refreshes \in 0..MaxRefreshes /\ changes \in 0..MaxChanges /\ faults \in 0..MaxFaults
      <4>1. 0 \in 0..MaxRefreshes /\ 0 \in 0..MaxChanges /\ 0 \in 0..MaxFaults
        BY IngestAssumption
      <4>2. refreshes = 0 /\ changes = 0 /\ faults = 0
        OBVIOUS
      <4> QED BY <4>1, <4>2
    <3> QED BY <3>1, <3>2
  <2>10. lock \in Writers \cup {Ingest!NoWriter}
    OBVIOUS
  <2>11. Ingest!TypeOK
    BY <2>6, <2>7, <2>8, <2>9, <2>10 DEF Ingest!TypeOK
  <2> QED BY <2>1, <2>4, <2>5, <2>11 DEF IngestTypes
<1>3. FeedsAreOffered
  BY DEF FeedsAreOffered
<1>4. TablesAreSound
  BY FS_EmptySet DEF TablesAreSound, Counted, OwnStories
<1>5. LockIsHeld
  BY IngestAssumption DEF LockIsHeld, Ingest!NoWriter
<1>6. TagsAreTrue
  BY DEF TagsAreTrue, Acknowledged
<1>7. BatchesAreSound
  BY <1>1 DEF BatchesAreSound
<1>8. AloneIsExact
  BY <1>1 DEF AloneIsExact, WriterIsAlone, BatchesAreExact, StoriesApart, LinksFit,
     Ingest!NoWriter
<1> QED BY <1>2, <1>3, <1>4, <1>5, <1>6, <1>7, <1>8 DEF IngestInv

\* Every step keeps it.
LEMMA IngestNextInv == IngestInv /\ [Ingest!Next]_ingestVars => IngestInv'
<1> SUFFICES ASSUME IngestInv, [Ingest!Next]_ingestVars PROVE IngestInv'
  OBVIOUS
<1>1. CASE \E s \in Sources : Ingest!FeedChanges(s)
  BY <1>1, FeedChangesKeeps
<1>2. ASSUME NEW w \in Writers,
             \/ Ingest!Begin(w) \/ Ingest!End(w) \/ Ingest!Persist(w)
             \/ \E s \in Sources : Ingest!Fetch(w, s)
      PROVE  IngestInv'
  <2>1. CASE Ingest!Persist(w)
    BY <2>1, LoadKeeps, LookupKeeps, InsertKeeps, UpdateKeeps, CommitKeeps, FailuresKeep
       DEF Ingest!Persist
  <2> QED BY <1>2, <2>1, RefreshBegins, RefreshEnds, FetchKeeps
<1>3. CASE Ingest!Restart
  BY <1>3, RestartKeepsRows
<1>4. CASE UNCHANGED ingestVars
  <2>1. \A w \in Writers : Storing(w)' = Storing(w) /\ Seen(w)' = Seen(w)
    BY <1>4 DEF ingestVars, Storing, Seen, Ingest!Visible
  <2>2. IngestTypes' /\ FeedsAreOffered' /\ TablesAreSound'
    BY <1>4 DEF ingestVars, IngestInv, IngestTypes, Ingest!TypeOK, FeedsAreOffered,
       TablesAreSound
  <2>3. LockIsHeld' /\ TagsAreTrue'
    BY <1>4, <2>1 DEF ingestVars, IngestInv, LockIsHeld, TagsAreTrue, Acknowledged
  <2>4. BatchesAreSound'
    BY <1>4, <2>1 DEF ingestVars, IngestInv, BatchesAreSound
  <2>5. (~overlapped => AloneIsExact)'
    BY <1>4, <2>1 DEF ingestVars, IngestInv, AloneIsExact, WriterIsAlone, BatchesAreExact,
       Improves
  <2> QED BY <2>2, <2>3, <2>4, <2>5 DEF IngestInv
<1> QED BY <1>1, <1>2, <1>3, <1>4 DEF Ingest!Next

\* Rows only change with a commit, to what its writer saw.
LEMMA RowsChange ==
    ASSUME IngestInv, [Ingest!Next]_ingestVars
    PROVE  newsRows' = newsRows
           \/ \E w \in Writers : newsRows' = Seen(w) /\ overlapped' = overlapped
<1>1. CASE \/ \E s \in Sources : Ingest!FeedChanges(s)
           \/ Ingest!Restart \/ UNCHANGED ingestVars
  BY <1>1 DEF ingestVars, Ingest!FeedChanges, Ingest!Restart, Ingest!db
<1>2. ASSUME NEW w \in Writers,
             \/ Ingest!Begin(w) \/ Ingest!End(w) \/ Ingest!Persist(w)
             \/ \E s \in Sources : Ingest!Fetch(w, s)
      PROVE  newsRows' = newsRows \/ (newsRows' = Seen(w) /\ overlapped' = overlapped)
  <2>1. CASE Ingest!Begin(w) \/ Ingest!End(w) \/ \E s \in Sources : Ingest!Fetch(w, s)
    BY <2>1 DEF Ingest!Begin, Ingest!End, Ingest!Fetch, Ingest!db
  <2>2. CASE (\E o \in got[w] : Ingest!Load(w, o)) \/ \E u \in Urls : Ingest!Lookup(w, u)
    BY <2>2 DEF Ingest!Load, Ingest!Lookup, Ingest!db
  <2>3. CASE Ingest!Insert(w) \/ Ingest!Update(w)
    BY <2>3 DEF Ingest!Insert, Ingest!Update
  <2>4. CASE Ingest!Commit(w)
    BY <2>4 DEF Ingest!Commit, Seen
  <2>5. CASE Ingest!UniqueViolation(w) \/ Ingest!DatabaseError(w) \/ Ingest!Escape(w)
    BY <2>5 DEF Ingest!UniqueViolation, Ingest!DatabaseError, Ingest!Escape, Ingest!RollBack
  <2> QED BY <1>2, <2>1, <2>2, <2>3, <2>4, <2>5 DEF Ingest!Persist
<1> QED BY <1>1, <1>2 DEF Ingest!Next

\* What SoundStep says of the state after a step.
StoriesHold ==
    /\ Ingest!TypeOK /\ Ingest!AcknowledgedIsStored
    /\ Ingest!StoriesAreUnique /\ Ingest!LinkFollowsSource

\* It follows from the invariant.
LEMMA IngestInvSuffices == IngestInv => StoriesHold
<1> SUFFICES ASSUME IngestInv PROVE StoriesHold
  OBVIOUS
<1>1. Ingest!TypeOK
  BY DEF IngestInv, IngestTypes
<1>2. Ingest!AcknowledgedIsStored
  BY DEF IngestInv, TagsAreTrue, Acknowledged, Told, Ingest!AcknowledgedIsStored, Ingest!Stored
<1>3. Ingest!StoriesAreUnique
  BY DEF IngestInv, AloneIsExact, StoriesApart, Ingest!StoriesAreUnique
<1>4. Ingest!LinkFollowsSource
  BY DEF IngestInv, AloneIsExact, LinksFit, Ingest!LinkFollowsSource, Ingest!SourceMatchesLink
<1> QED BY <1>1, <1>2, <1>3, <1>4 DEF StoriesHold

\* However fetches complete, transactions fail, writers run into each other and the process
\* restarts: what an ETag stands for is stored; and as long as no two refreshes overlap, a
\* story is one row, whose link is one its source offers, and a row is never handed to a
\* source of lower rank (refresh_all, ItemPersister, DuplicateGate).
THEOREM StoriesTheorem == OneSpec => StoriesAreKept
<1>1. OneInit => IngestInv
  BY IngestInitInv DEF OneInit
<1>2. [OneNext]_allVars => [Ingest!Next]_ingestVars
  BY DEF OneNext, allVars
<1>3. IngestInv /\ [OneNext]_allVars => IngestInv'
  BY <1>2, IngestNextInv
<1>4. IngestInv /\ IngestInv' /\ [OneNext]_allVars
        => [active = "ingest" => Ingest!SoundStep]_ingestVars
  <2> SUFFICES ASSUME IngestInv, IngestInv', [OneNext]_allVars PROVE Ingest!SoundStep
    OBVIOUS
  <2>1. StoriesHold'
    BY IngestInvSuffices, PTL
  <2>2. Ingest!RowsOnlyImprove
    <3> SUFFICES ASSUME ~overlapped' PROVE Improves(newsRows')
      BY DEF Ingest!RowsOnlyImprove, Improves
    <3>1. CASE newsRows' = newsRows
      <4>1. \A r \in newsRows : Rank[r.source] \in Int
        BY IngestAssumption DEF IngestInv, IngestTypes, Ingest!TypeOK, Ingest!Row
      <4> QED BY <3>1, <4>1 DEF Improves
    <3>2. ASSUME NEW w \in Writers, newsRows' = Seen(w), overlapped' = overlapped
          PROVE  Improves(newsRows')
      BY <3>2, SeenAlone
    <3> QED BY <1>2, <3>1, <3>2, RowsChange
  <2> QED BY <2>1, <2>2 DEF StoriesHold, Ingest!SoundStep
<1> QED BY <1>1, <1>3, <1>4, PTL DEF OneSpec, StoriesAreKept
-----------------------------------------------------------------------------
(* NewsAnalysis. *)

Elements(s) == {s[i] : i \in 1..Len(s)}
OnlyOnce(s) == \A i, j \in 1..Len(s) : s[i] = s[j] => i = j
Loaded(t) == Analyses!Does(t, "loaded")
Flushed(t) == Analyses!Does(t, "flushed")

\* Ids are given once.
IdsAreOwn ==
    /\ made \in Nat
    /\ \A t \in Threads : call[t] # None => call[t].id \in 1..made
    /\ \A t, u \in Threads :
         call[t] # None /\ call[u] # None /\ call[t].id = call[u].id => t = u

\* Who loaded a row that is still the same knows it; who holds the lock has built on it.
LoadsAreCurrent ==
    /\ \A t \in Threads : Loaded(t) =>
         /\ call[t].loaded # None => row # None
         /\ t \notin clashes => call[t].loaded = row
    /\ \A t \in Threads : Flushed(t) =>
         /\ call[t].ok => call[t].row.result = call[t].id
         /\ ~call[t].ok /\ row # None => call[t].row.result = row.result
         /\ call[t].row.status = "success" => call[t].row.result # None
         /\ call[t].ok => \/ call[t].row.status = "success" /\ ~call[t].row.error
                          \/ t \in clashes

\* The row has the last result.
LastIsStored ==
    committed # <<>> => row # None /\ row.result = committed[Len(committed)]

\* What a thread is to write is not committed; what it announced was announced last.
OrderIsKept ==
    /\ announced \in Seq(1..made) /\ committed \in Seq(1..made)
    /\ OnlyOnce(announced) /\ OnlyOnce(committed)
    /\ Analyses!SameOrder(announced, committed)
    /\ \A t \in Threads : call[t] # None =>
         /\ call[t].id \notin Elements(committed)
         /\ call[t].id \in Elements(announced) =>
              Flushed(t) /\ announced[Len(announced)] = call[t].id

ResultsInv ==
    /\ Analyses!TypeOK /\ IdsAreOwn /\ LoadsAreCurrent /\ LastIsStored /\ OrderIsKept

-----------------------------------------------------------------------------
\* The kinds of calls.
LEMMA CallFacts ==
    ASSUME ResultsInv, NEW t \in Threads, call[t] # None
    PROVE  /\ call[t] \in Analyses!Calls /\ call[t].id \in Nat
           /\ Loaded(t) =>
                /\ call[t].loaded \in Analyses!Rows \union {None}
                /\ call[t].ok \in BOOLEAN /\ call[t].pick \in BOOLEAN /\ call[t].same \in BOOLEAN
           /\ Flushed(t) =>
                call[t].ok \in BOOLEAN /\ call[t].pick \in BOOLEAN /\ call[t].row \in Analyses!Rows
<1>1. call[t] \in Analyses!Calls
  BY DEF ResultsInv, Analyses!TypeOK
<1> QED BY <1>1 DEF Analyses!Calls, Loaded, Flushed, Analyses!Does

\* One thread at a time has flushed.
LEMMA OneFlushed ==
    ASSUME ResultsInv
    PROVE  \A t \in Threads : Flushed(t) <=> writer = t
BY DEF ResultsInv, Analyses!TypeOK, Flushed

\* What is at the end of a longer sequence.
LEMMA Appended ==
    ASSUME NEW S, NEW s \in Seq(S), NEW x \in S
    PROVE  /\ Append(s, x) \in Seq(S) /\ Len(s) \in Nat /\ Len(Append(s, x)) = Len(s) + 1
           /\ \A i \in 1..Len(s) : Append(s, x)[i] = s[i] /\ i <= Len(s) /\ i # Len(s) + 1
           /\ Append(s, x)[Len(s) + 1] = x
           /\ 1..Len(Append(s, x)) = 1..Len(s) \union {Len(s) + 1}
           /\ DOMAIN s = 1..Len(s) /\ DOMAIN Append(s, x) = 1..Len(Append(s, x))
           /\ Append(s, x) # <<>>
<1>1. Len(s) \in Nat /\ Append(s, x) \in Seq(S) /\ Len(Append(s, x)) = Len(s) + 1
  OBVIOUS
<1>2. /\ \A i \in 1..Len(s) : Append(s, x)[i] = s[i] /\ i <= Len(s) /\ i # Len(s) + 1
      /\ Append(s, x)[Len(s) + 1] = x
  OBVIOUS
<1>3. 1..Len(Append(s, x)) = 1..Len(s) \union {Len(s) + 1}
  BY <1>1
<1>4. DOMAIN s = 1..Len(s) /\ DOMAIN Append(s, x) = 1..Len(Append(s, x))
  BY <1>1
<1>5. Append(s, x) # <<>>
  BY <1>1
<1> QED BY <1>1, <1>2, <1>3, <1>4, <1>5

\* A sequence over some values is one over more.
LEMMA WiderSequence ==
    ASSUME NEW S, NEW T, S \subseteq T, NEW s \in Seq(S) PROVE s \in Seq(T)
<1>1. Len(s) \in Nat /\ s \in [1..Len(s) -> S]
  OBVIOUS
<1>2. s \in [1..Len(s) -> T]
  BY <1>1
<1> QED BY <1>1, <1>2

\* A step of one thread that leaves what is stored and announced alone.
LEMMA OneCallKeeps ==
    ASSUME ResultsInv, NEW t \in Threads, NEW c \in Analyses!Calls \union {None},
           call' = [call EXCEPT ![t] = c], UNCHANGED <<row, announced, committed>>,
           made' \in Nat, made <= made',
           c # None =>
             /\ c.id \in 1..made' /\ c.id \notin Elements(committed)
             /\ \A u \in Threads \ {t} : call[u] # None => call[u].id # c.id
             /\ c.id \in Elements(announced) =>
                  c.pc = "flushed" /\ announced[Len(announced)] = c.id,
           writer' \in Threads \union {None},
           writer' = t <=> (c # None /\ c.pc = "flushed"),
           \A u \in Threads \ {t} : (writer' = u <=> writer = u) /\ (u \in clashes' <=> u \in clashes),
           c # None /\ c.pc = "loaded" =>
             (c.loaded # None => row # None) /\ (t \notin clashes' => c.loaded = row),
           c # None /\ c.pc = "flushed" =>
             /\ c.ok => c.row.result = c.id
             /\ ~c.ok /\ row # None => c.row.result = row.result
             /\ c.row.status = "success" => c.row.result # None
             /\ c.ok => (c.row.status = "success" /\ ~c.row.error) \/ t \in clashes'
    PROVE  ResultsInv'
<1>1. call \in [Threads -> Analyses!Calls \union {None}]
  BY DEF ResultsInv, Analyses!TypeOK
<1>2. /\ call' \in [Threads -> Analyses!Calls \union {None}]
      /\ call'[t] = c /\ \A u \in Threads \ {t} : call'[u] = call[u]
  BY <1>1
<1>3. \A u \in Threads \ {t} : (Loaded(u)' <=> Loaded(u)) /\ (Flushed(u)' <=> Flushed(u))
  BY <1>2 DEF Loaded, Flushed, Analyses!Does
<1>4. /\ Loaded(t)' <=> (c # None /\ c.pc = "loaded")
      /\ Flushed(t)' <=> (c # None /\ c.pc = "flushed")
  BY <1>2 DEF Loaded, Flushed, Analyses!Does
<1>5. Analyses!TypeOK'
  <2>1. \A u \in Threads : writer' = u <=> Flushed(u)'
    BY <1>3, <1>4, OneFlushed
  <2> QED BY <1>2, <2>1 DEF ResultsInv, Analyses!TypeOK, Flushed
<1>6. IdsAreOwn'
  <2>1. \A u \in Threads : call'[u] # None => call'[u].id \in 1..made'
    BY <1>2 DEF ResultsInv, IdsAreOwn
  <2>2. \A u, v \in Threads :
          call'[u] # None /\ call'[v] # None /\ call'[u].id = call'[v].id => u = v
    BY <1>2 DEF ResultsInv, IdsAreOwn
  <2> QED BY <2>1, <2>2 DEF IdsAreOwn
<1>7. LoadsAreCurrent'
  <2>1. ASSUME NEW u \in Threads, Loaded(u)'
        PROVE  (call'[u].loaded # None => row # None) /\ (u \notin clashes' => call'[u].loaded = row)
    <3>1. CASE u = t
      BY <1>2, <1>4, <2>1, <3>1
    <3>2. CASE u # t
      BY <1>2, <1>3, <2>1, <3>2 DEF ResultsInv, LoadsAreCurrent
    <3> QED BY <3>1, <3>2
  <2>2. ASSUME NEW u \in Threads, Flushed(u)'
        PROVE  /\ call'[u].ok => call'[u].row.result = call'[u].id
               /\ ~call'[u].ok /\ row # None => call'[u].row.result = row.result
               /\ call'[u].row.status = "success" => call'[u].row.result # None
               /\ call'[u].ok => \/ call'[u].row.status = "success" /\ ~call'[u].row.error
                                 \/ u \in clashes'
    <3>1. CASE u = t
      BY <1>2, <1>4, <2>2, <3>1
    <3>2. CASE u # t
      BY <1>2, <1>3, <2>2, <3>2 DEF ResultsInv, LoadsAreCurrent
    <3> QED BY <3>1, <3>2
  <2> QED BY <2>1, <2>2 DEF LoadsAreCurrent
<1>8. LastIsStored'
  BY DEF ResultsInv, LastIsStored
<1>9. OrderIsKept'
  <2>1. announced' \in Seq(1..made') /\ committed' \in Seq(1..made')
    <3>1. announced \in Seq(1..made) /\ committed \in Seq(1..made) /\ 1..made \subseteq 1..made'
      BY DEF ResultsInv, OrderIsKept, IdsAreOwn
    <3> QED BY <3>1, WiderSequence
  <2>2. \A u \in Threads : call'[u] # None =>
          /\ call'[u].id \notin Elements(committed)
          /\ call'[u].id \in Elements(announced) =>
               Flushed(u)' /\ announced[Len(announced)] = call'[u].id
    BY <1>2, <1>3, <1>4 DEF ResultsInv, OrderIsKept
  <2>3. OnlyOnce(announced) /\ OnlyOnce(committed) /\ Analyses!SameOrder(announced, committed)
    BY DEF ResultsInv, OrderIsKept
  <2> QED BY <2>1, <2>2, <2>3 DEF OrderIsKept
<1> QED BY <1>5, <1>6, <1>7, <1>8, <1>9 DEF ResultsInv

\* A thread leaves.
LEMMA ResultLeavingKeeps ==
    ASSUME ResultsInv, NEW t \in Threads, Analyses!Leaves(t),
           UNCHANGED <<row, made, announced, committed>>
    PROVE  ResultsInv'
<1>1. /\ call' = [call EXCEPT ![t] = None]
      /\ writer' = IF writer = t THEN None ELSE writer
      /\ clashes' = clashes \ {t}
  BY DEF Analyses!Leaves
<1>2. /\ writer' \in Threads \union {None} /\ writer' # t
      /\ \A u \in Threads \ {t} : (writer' = u <=> writer = u) /\ (u \in clashes' <=> u \in clashes)
  BY <1>1, ResultsAssumption DEF ResultsInv, Analyses!TypeOK
<1>3. made' \in Nat /\ made <= made'
  BY DEF ResultsInv, IdsAreOwn
<1> QED BY <1>1, <1>2, <1>3, OneCallKeeps

\* A thread that does not hold the lock leaves it alone.
LEMMA LockIsKept ==
    ASSUME ResultsInv, NEW t \in Threads, ~Flushed(t), UNCHANGED <<writer, clashes>>
    PROVE  /\ writer' \in Threads \union {None} /\ writer' # t
           /\ \A u \in Threads \ {t} : (writer' = u <=> writer = u) /\ (u \in clashes' <=> u \in clashes)
BY OneFlushed DEF ResultsInv, Analyses!TypeOK

\* Nothing of an id above all those given is stored or announced.
LEMMA NewId ==
    ASSUME ResultsInv
    PROVE  /\ made + 1 \in 1..(made + 1) /\ made + 1 \in Nat /\ made <= made + 1
           /\ made + 1 \notin Elements(committed) /\ made + 1 \notin Elements(announced)
           /\ \A u \in Threads : call[u] # None => call[u].id # made + 1
<1>1. made \in Nat /\ announced \in Seq(1..made) /\ committed \in Seq(1..made)
  BY DEF ResultsInv, IdsAreOwn, OrderIsKept
<1>2. \A i \in 1..Len(announced) : announced[i] \in 1..made
  BY <1>1
<1>3. \A i \in 1..Len(committed) : committed[i] \in 1..made
  BY <1>1
<1>4. \A u \in Threads : call[u] # None => call[u].id \in 1..made
  BY DEF ResultsInv, IdsAreOwn
<1> QED BY <1>1, <1>2, <1>3, <1>4 DEF Elements

\* A call begins.
LEMMA ResultAskKeeps ==
    ASSUME ResultsInv, NEW t \in Threads, Analyses!Ask(t) PROVE ResultsInv'
<1> DEFINE c == [pc |-> "asked", id |-> made + 1]
<1>1. /\ call[t] = None /\ made' = made + 1 /\ call' = [call EXCEPT ![t] = c]
      /\ UNCHANGED <<row, writer, announced, committed, clashes>>
  BY DEF Analyses!Ask
<1>2. ~Flushed(t)
  BY <1>1 DEF Flushed, Analyses!Does
<1>3. c \in Analyses!Calls /\ c.id = made + 1 /\ c.pc = "asked"
  BY NewId DEF Analyses!Calls
<1> HIDE DEF c
<1> QED BY <1>1, <1>2, <1>3, NewId, LockIsKept, OneCallKeeps

\* The provider answers, the row is loaded.
LEMMA ResultAnsweredKeeps ==
    ASSUME ResultsInv, NEW t \in Threads, Analyses!Answered(t) PROVE ResultsInv'
<1>1. PICK ok \in BOOLEAN, pick \in BOOLEAN, same \in BOOLEAN :
        call' = [call EXCEPT ![t] =
          [pc |-> "loaded", id |-> call[t].id, loaded |-> row,
           ok |-> ok, pick |-> ok /\ pick, same |-> ~ok /\ same]]
  BY DEF Analyses!Answered
<1>2. /\ Analyses!Does(t, "asked")
      /\ UNCHANGED <<row, writer, made, announced, committed, clashes>>
  BY DEF Analyses!Answered
<1> DEFINE c == [pc |-> "loaded", id |-> call[t].id, loaded |-> row,
                 ok |-> ok, pick |-> ok /\ pick, same |-> ~ok /\ same]
<1>3. call[t] # None /\ ~Flushed(t)
  BY <1>2 DEF Flushed, Analyses!Does
<1>4. /\ call[t].id \in 1..made /\ call[t].id \notin Elements(committed)
      /\ call[t].id \notin Elements(announced)
      /\ \A u \in Threads \ {t} : call[u] # None => call[u].id # call[t].id
  BY <1>3 DEF ResultsInv, IdsAreOwn, OrderIsKept
<1>5. c \in Analyses!Calls /\ c.id = call[t].id /\ c.pc = "loaded" /\ c.loaded = row
  <2>1. call[t].id \in Nat /\ row \in Analyses!Rows \union {None}
    BY <1>3, CallFacts DEF ResultsInv, Analyses!TypeOK
  <2>2. (ok /\ pick) \in BOOLEAN /\ (~ok /\ same) \in BOOLEAN
    OBVIOUS
  <2> QED BY <2>1, <2>2 DEF Analyses!Calls
<1>6. call' = [call EXCEPT ![t] = c]
  BY <1>1
<1> HIDE DEF c
<1>7. made' \in Nat /\ made <= made'
  BY <1>2 DEF ResultsInv, IdsAreOwn
<1> QED BY <1>2, <1>3, <1>4, <1>5, <1>6, <1>7, LockIsKept, OneCallKeeps

\* What a thread that has loaded the row is going to write.
LEMMA WrittenFacts ==
    ASSUME ResultsInv, NEW t \in Threads, Loaded(t), call[t].loaded = None => row = None
    PROVE  LET w == Analyses!Written(t)
           IN  /\ w \in Analyses!Rows
               /\ call[t].ok => w.result = call[t].id
               /\ ~call[t].ok /\ row # None => w.result = row.result
               /\ w.status = "success" => w.result # None
               /\ call[t].ok => (w.status = "success" /\ ~w.error) \/ t \in clashes
<1> DEFINE w == Analyses!Written(t)
           ok == call[t].ok
           old == call[t].loaded
           status == IF ok THEN "success" ELSE "error"
<1>1. /\ call[t] # None /\ call[t].id \in Nat /\ old \in Analyses!Rows \union {None}
      /\ ok \in BOOLEAN /\ call[t].same \in BOOLEAN /\ row \in Analyses!Rows \union {None}
  <2>1. call[t] # None
    BY DEF Loaded, Analyses!Does
  <2> QED BY <2>1, CallFacts DEF ResultsInv, Analyses!TypeOK
<1>2. None \notin Nat
  BY QuotaAssumption
<1>3. (old # None => row # None) /\ (t \notin clashes => old = row)
  BY DEF ResultsInv, LoadsAreCurrent
<1>4. row # None => (row.status = "success" => row.result # None)
  BY DEF ResultsInv, Analyses!TypeOK
<1>5. CASE old = None
  <2>1. w = [status |-> status, error |-> ~ok, result |-> IF ok THEN call[t].id ELSE None]
    BY <1>5 DEF Analyses!Written
  <2>2. row = None
    BY <1>5
  <2>3. status \in {"success", "error"} /\ (~ok) \in BOOLEAN
    BY <1>1
  <2>4. (IF ok THEN call[t].id ELSE None) \in Nat \union {None}
    BY <1>1
  <2>5. w \in Analyses!Rows
    BY <2>1, <2>3, <2>4 DEF Analyses!Rows
  <2>6. /\ w.status = status /\ w.error = (~ok)
        /\ w.result = IF ok THEN call[t].id ELSE None
    BY <2>1
  <2> HIDE DEF w
  <2> QED BY <1>1, <1>2, <2>2, <2>5, <2>6 DEF w
<1>6. CASE old # None
  <2>1. w = [status |-> IF status = old.status THEN row.status ELSE status,
             error |-> IF ok \/ call[t].same
                       THEN IF (~ok) = old.error THEN row.error ELSE ~ok
                       ELSE TRUE,
             result |-> IF ok THEN call[t].id ELSE row.result]
    BY <1>6 DEF Analyses!Written
  <2>2. old \in Analyses!Rows /\ row \in Analyses!Rows /\ row # None
    BY <1>1, <1>3, <1>6
  <2>3. /\ w.status = IF status = old.status THEN row.status ELSE status
        /\ w.error = IF ok \/ call[t].same
                     THEN IF (~ok) = old.error THEN row.error ELSE ~ok
                     ELSE TRUE
        /\ w.result = IF ok THEN call[t].id ELSE row.result
    BY <2>1
  <2>4. row.status \in {"success", "error"} /\ row.error \in BOOLEAN
        /\ row.result \in Nat \union {None}
    BY <2>2 DEF Analyses!Rows
  <2>5. w \in Analyses!Rows
    <3>1. w.status \in {"success", "error"}
      BY <2>3, <2>4
    <3>2. w.error \in BOOLEAN
      BY <1>1, <2>3, <2>4
    <3>3. w.result \in Nat \union {None}
      BY <1>1, <2>3, <2>4
    <3>4. w = [status |-> w.status, error |-> w.error, result |-> w.result]
      BY <2>1
    <3> HIDE DEF w
    <3> QED BY <3>1, <3>2, <3>3, <3>4 DEF Analyses!Rows
  <2> HIDE DEF w
  <2>6. ok => w.result = call[t].id
    BY <2>3
  <2>7. w.status = "success" => w.result # None
    <3>1. CASE ok
      BY <1>1, <1>2, <2>6, <3>1
    <3>2. CASE ~ok
      BY <1>4, <2>2, <2>3, <3>2
    <3> QED BY <3>1, <3>2
  <2>8. ok /\ t \notin clashes => w.status = "success" /\ ~w.error
    <3> SUFFICES ASSUME ok, t \notin clashes PROVE w.status = "success" /\ ~w.error
      OBVIOUS
    <3>1. old = row
      BY <1>3
    <3>2. w.status = "success"
      BY <2>3, <3>1
    <3>3. w.error = IF FALSE = row.error THEN row.error ELSE FALSE
      BY <2>3, <3>1
    <3> QED BY <2>4, <3>2, <3>3
  <2> QED BY <2>3, <2>5, <2>6, <2>7, <2>8 DEF w
<1> QED BY <1>5, <1>6

\* A thread takes the lock, or another one has inserted the row.
LEMMA FlushKeeps ==
    ASSUME ResultsInv, NEW t \in Threads, Analyses!Flush(t) PROVE ResultsInv'
<1>1. /\ Loaded(t) /\ writer = None /\ UNCHANGED <<row, made, announced, committed>>
  BY DEF Analyses!Flush, Loaded
<1>2. CASE call[t].loaded = None /\ row # None
  <2>1. Analyses!Leaves(t)
    BY <1>2 DEF Analyses!Flush
  <2> QED BY <1>1, <2>1, ResultLeavingKeeps
<1>3. CASE ~(call[t].loaded = None /\ row # None)
  <2> DEFINE w == Analyses!Written(t)
             c == [pc |-> "flushed", id |-> call[t].id, ok |-> call[t].ok,
                   pick |-> call[t].pick, row |-> w]
  <2>1. writer' = t /\ clashes' = clashes /\ call' = [call EXCEPT ![t] = c]
    BY <1>3 DEF Analyses!Flush
  <2>2. /\ w \in Analyses!Rows
        /\ call[t].ok => w.result = call[t].id
        /\ ~call[t].ok /\ row # None => w.result = row.result
        /\ w.status = "success" => w.result # None
        /\ call[t].ok => (w.status = "success" /\ ~w.error) \/ t \in clashes
    BY <1>1, <1>3, WrittenFacts
  <2> HIDE DEF w
  <2>3. call[t] # None /\ ~Flushed(t)
    BY <1>1 DEF Loaded, Flushed, Analyses!Does
  <2>4. /\ call[t].id \in 1..made /\ call[t].id \notin Elements(committed)
        /\ call[t].id \notin Elements(announced)
        /\ \A u \in Threads \ {t} : call[u] # None => call[u].id # call[t].id
    BY <2>3 DEF ResultsInv, IdsAreOwn, OrderIsKept
  <2>5. call[t].id \in Nat /\ call[t].ok \in BOOLEAN /\ call[t].pick \in BOOLEAN
    BY <1>1, <2>3, CallFacts
  <2>6. /\ c \in Analyses!Calls /\ c.id = call[t].id /\ c.pc = "flushed" /\ c.row = w
        /\ c.ok = call[t].ok
    BY <2>2, <2>5 DEF Analyses!Calls
  <2> HIDE DEF c
  <2>7. /\ writer' \in Threads \union {None}
        /\ \A u \in Threads \ {t} :
             (writer' = u <=> writer = u) /\ (u \in clashes' <=> u \in clashes)
    BY <1>1, <2>1, ResultsAssumption
  <2>8. made' \in Nat /\ made <= made' /\ made' = made
    BY <1>1 DEF ResultsInv, IdsAreOwn
  <2>9. /\ c # None /\ c.pc # "loaded"
        /\ c.ok => c.row.result = c.id
        /\ ~c.ok /\ row # None => c.row.result = row.result
        /\ c.row.status = "success" => c.row.result # None
        /\ c.ok => (c.row.status = "success" /\ ~c.row.error) \/ t \in clashes'
    <3>1. c # None
      BY <2>6, ResultsAssumption
    <3> QED BY <2>1, <2>2, <2>6, <3>1
  <2>10. /\ c.id \in 1..made' /\ c.id \notin Elements(committed)
         /\ c.id \notin Elements(announced)
         /\ \A u \in Threads \ {t} : call[u] # None => call[u].id # c.id
    BY <2>4, <2>6, <2>8
  <2>11. writer' = t <=> (c # None /\ c.pc = "flushed")
    BY <2>1, <2>6, <2>9
  <2> QED BY <1>1, <2>1, <2>6, <2>7, <2>8, <2>9, <2>10, <2>11, OneCallKeeps
<1> QED BY <1>2, <1>3

\* Who holds the lock announces what it got.
LEMMA PublishKeeps ==
    ASSUME ResultsInv, NEW t \in Threads, Analyses!Publish(t) PROVE ResultsInv'
<1> DEFINE own == call[t].id
<1>1. /\ Flushed(t) /\ own \notin Elements(announced)
      /\ announced' = Append(announced, own)
      /\ UNCHANGED <<row, call, writer, made, committed, clashes>>
  <2>1. announced \in Seq(1..made)
    BY DEF ResultsInv, OrderIsKept
  <2>2. own \notin Elements(announced)
    BY <2>1 DEF Analyses!Publish, Analyses!MayPublish, Analyses!Range, Elements
  <2> QED BY <2>2 DEF Analyses!Publish, Analyses!MayPublish, Flushed
<1>2. call[t] # None
  BY <1>1 DEF Flushed, Analyses!Does
<1>3. own \in 1..made /\ own \notin Elements(committed) /\ announced \in Seq(1..made)
  BY <1>2 DEF ResultsInv, IdsAreOwn, OrderIsKept
<1> HIDE DEF own
<1>4. \A u \in Threads : (Loaded(u)' <=> Loaded(u)) /\ (Flushed(u)' <=> Flushed(u))
  BY <1>1 DEF Loaded, Flushed, Analyses!Does
<1>5. Analyses!TypeOK' /\ IdsAreOwn' /\ LoadsAreCurrent' /\ LastIsStored'
  BY <1>1, <1>4 DEF ResultsInv, Analyses!TypeOK, IdsAreOwn, LoadsAreCurrent, LastIsStored,
                    Flushed, Analyses!Does
<1>6. /\ announced' \in Seq(1..made) /\ Len(announced) \in Nat
      /\ \A i \in 1..Len(announced) : announced'[i] = announced[i] /\ i <= Len(announced)
      /\ announced'[Len(announced) + 1] = own /\ Len(announced') = Len(announced) + 1
      /\ 1..Len(announced') = 1..Len(announced) \union {Len(announced) + 1}
      /\ DOMAIN announced = 1..Len(announced) /\ DOMAIN announced' = 1..Len(announced')
      /\ Elements(announced') = Elements(announced) \union {own}
  <2>1. announced' = Append(announced, own)
    BY <1>1
  <2> PICK more : more = Append(announced, own)
    OBVIOUS
  <2>2. /\ more \in Seq(1..made) /\ Len(announced) \in Nat
        /\ \A i \in 1..Len(announced) : more[i] = announced[i] /\ i <= Len(announced)
        /\ more[Len(announced) + 1] = own /\ Len(more) = Len(announced) + 1
        /\ 1..Len(more) = 1..Len(announced) \union {Len(announced) + 1}
        /\ DOMAIN announced = 1..Len(announced) /\ DOMAIN more = 1..Len(more)
    BY <1>3, Appended
  <2>4. Elements(more) = Elements(announced) \union {own}
    BY <1>3 DEF Elements
  <2>3. announced' = more
    BY <2>1
  <2> QED BY <2>2, <2>3, <2>4
<1>7. OrderIsKept'
  <2>1. OnlyOnce(announced')
    <3>1. \A i \in 1..Len(announced) : announced[i] # own
      BY <1>1 DEF Elements
    <3> QED BY <1>6, <3>1 DEF ResultsInv, OrderIsKept, OnlyOnce
  <2>2. Analyses!SameOrder(announced', committed)
    <3>1. \A k \in DOMAIN committed : committed[k] # own
      <4>1. committed \in Seq(1..made)
        BY DEF ResultsInv, OrderIsKept
      <4> QED BY <1>3, <4>1 DEF Elements
    <3>2. Analyses!SameOrder(announced, committed)
      BY DEF ResultsInv, OrderIsKept
    <3> QED BY <1>6, <3>1, <3>2 DEF Analyses!SameOrder
  <2>3. ASSUME NEW u \in Threads, call[u] # None, call[u].id \in Elements(announced')
        PROVE  Flushed(u) /\ announced'[Len(announced')] = call[u].id
    <3>1. CASE call[u].id = own
      <4>1. u = t
        BY <1>2, <2>3, <3>1 DEF ResultsInv, IdsAreOwn, own
      <4> QED BY <1>1, <1>6, <3>1, <4>1
    <3>2. CASE call[u].id # own
      <4>1. call[u].id \in Elements(announced)
        BY <1>6, <2>3, <3>2
      <4>2. Flushed(u)
        BY <2>3, <4>1 DEF ResultsInv, OrderIsKept
      <4>3. u = t
        BY <1>1, <4>2, OneFlushed
      <4> QED BY <3>2, <4>3 DEF own
    <3> QED BY <3>1, <3>2
  <2>4. \A u \in Threads : call[u] # None => call[u].id \notin Elements(committed)
    BY DEF ResultsInv, OrderIsKept
  <2>5. OnlyOnce(committed) /\ committed \in Seq(1..made)
    BY DEF ResultsInv, OrderIsKept
  <2> QED BY <1>1, <1>4, <1>6, <2>1, <2>2, <2>3, <2>4, <2>5 DEF OrderIsKept
<1> QED BY <1>5, <1>7 DEF ResultsInv

\* The row is written; what others have loaded is not the latest any more.
LEMMA ResultCommitKeeps ==
    ASSUME ResultsInv, NEW t \in Threads, Analyses!Commit(t) PROVE ResultsInv'
<1> PICK own : own = call[t].id
  OBVIOUS
<1>1. /\ Flushed(t) /\ row' = call[t].row
      /\ committed' = IF call[t].ok THEN Append(committed, own) ELSE committed
      /\ call' = [call EXCEPT ![t] = None] /\ writer' = None
      /\ clashes' = {u \in Threads \ {t} : u \in clashes \/ Loaded(u)}
      /\ UNCHANGED <<made, announced>>
  BY DEF Analyses!Commit, Flushed, Loaded
<1>2. call[t] # None
  BY <1>1 DEF Flushed, Analyses!Does
<1>3. /\ own \in 1..made /\ own \notin Elements(committed)
      /\ committed \in Seq(1..made) /\ announced \in Seq(1..made)
      /\ own \in Elements(announced) => announced[Len(announced)] = own
  BY <1>2 DEF ResultsInv, IdsAreOwn, OrderIsKept
<1>4. /\ call[t].row \in Analyses!Rows /\ call[t].ok \in BOOLEAN
      /\ call[t].ok => call[t].row.result = own
      /\ ~call[t].ok /\ row # None => call[t].row.result = row.result
      /\ call[t].row.status = "success" => call[t].row.result # None
  BY <1>1, <1>2, CallFacts DEF ResultsInv, LoadsAreCurrent
<1>5. row' \in Analyses!Rows /\ row' # None
  BY <1>1, <1>4, ResultsAssumption
<1>6. /\ call' \in [Threads -> Analyses!Calls \union {None}]
      /\ call'[t] = None /\ \A u \in Threads \ {t} : call'[u] = call[u]
  BY <1>1 DEF ResultsInv, Analyses!TypeOK
<1>7. /\ \A u \in Threads \ {t} : (Loaded(u)' <=> Loaded(u)) /\ ~Flushed(u) /\ ~Flushed(u)'
      /\ ~Loaded(t)' /\ ~Flushed(t)'
  <2>1. \A u \in Threads \ {t} : (Loaded(u)' <=> Loaded(u)) /\ (Flushed(u)' <=> Flushed(u))
    BY <1>6 DEF Loaded, Flushed, Analyses!Does
  <2>2. ~Loaded(t)' /\ ~Flushed(t)'
    BY <1>6 DEF Loaded, Flushed, Analyses!Does
  <2>3. \A u \in Threads \ {t} : ~Flushed(u)
    BY <1>1, OneFlushed
  <2> QED BY <2>1, <2>2, <2>3
<1>8. Analyses!TypeOK'
  <2>1. \A u \in Threads : ~Flushed(u)' /\ writer' # u
    BY <1>1, <1>7, ResultsAssumption
  <2> QED BY <1>1, <1>4, <1>5, <1>6, <2>1 DEF Analyses!TypeOK, Flushed
<1>9. IdsAreOwn'
  <2>1. \A u \in Threads : call'[u] # None => u # t /\ call'[u] = call[u]
    BY <1>6
  <2> QED BY <1>1, <2>1 DEF ResultsInv, IdsAreOwn
<1>10. LoadsAreCurrent'
  <2>1. \A u \in Threads : ~Flushed(u)' /\ (Loaded(u)' => u \in clashes')
    BY <1>1, <1>7
  <2> QED BY <1>5, <2>1 DEF LoadsAreCurrent
<1>11. CASE call[t].ok
  <2>1. committed' = Append(committed, own)
    BY <1>1, <1>11
  <2> PICK more : more = Append(committed, own)
    OBVIOUS
  <2>2. /\ more \in Seq(1..made) /\ Len(committed) \in Nat
        /\ \A i \in 1..Len(committed) : more[i] = committed[i] /\ i <= Len(committed)
        /\ more[Len(committed) + 1] = own /\ Len(more) = Len(committed) + 1
        /\ 1..Len(more) = 1..Len(committed) \union {Len(committed) + 1}
        /\ DOMAIN committed = 1..Len(committed) /\ DOMAIN more = 1..Len(more)
    BY <1>3, Appended
  <2>3. Elements(more) = Elements(committed) \union {own}
    BY <1>3 DEF Elements
  <2>4. committed' = more
    BY <2>1
  <2>5. LastIsStored'
    BY <1>1, <1>4, <1>5, <1>11, <2>2, <2>4 DEF LastIsStored
  <2>6. \A k \in 1..Len(committed) : committed[k] # own
    BY <1>3 DEF Elements
  <2>7. OnlyOnce(more)
    BY <2>2, <2>6 DEF ResultsInv, OrderIsKept, OnlyOnce
  <2>8. Analyses!SameOrder(announced, more)
    <3>1. DOMAIN announced = 1..Len(announced) /\ Len(announced) \in Nat
      BY <1>3
    <3>2. \A j \in DOMAIN announced : announced[j] = own => j = Len(announced)
      <4> SUFFICES ASSUME NEW j \in 1..Len(announced), announced[j] = own PROVE j = Len(announced)
        BY <3>1
      <4>1. announced[Len(announced)] = own /\ Len(announced) \in 1..Len(announced)
        BY <1>3, <3>1 DEF Elements
      <4> QED BY <4>1 DEF ResultsInv, OrderIsKept, OnlyOnce
    <3>3. Analyses!SameOrder(announced, committed)
      BY DEF ResultsInv, OrderIsKept
    <3> SUFFICES ASSUME NEW i \in DOMAIN announced, NEW j \in DOMAIN announced,
                        NEW k \in DOMAIN more, NEW l \in DOMAIN more,
                        announced[i] = more[k], announced[j] = more[l]
                 PROVE  i < j <=> k < l
      BY DEF Analyses!SameOrder
    <3>4. CASE k # Len(committed) + 1 /\ l # Len(committed) + 1
      <4>1. k \in DOMAIN committed /\ l \in DOMAIN committed
        BY <2>2, <3>4
      <4>2. announced[i] = committed[k] /\ announced[j] = committed[l]
        BY <2>2, <4>1
      <4> QED BY <3>3, <4>1, <4>2 DEF Analyses!SameOrder
    <3>5. CASE k = Len(committed) + 1 /\ l # Len(committed) + 1
      <4>1. l \in 1..Len(committed) /\ announced[j] # own /\ announced[i] = own
        BY <2>2, <2>6, <3>5
      <4>2. i = Len(announced) /\ j <= Len(announced) /\ l < k
        BY <2>2, <3>1, <3>2, <3>5, <4>1
      <4> QED BY <2>2, <3>1, <4>1, <4>2
    <3>6. CASE k # Len(committed) + 1 /\ l = Len(committed) + 1
      <4>1. k \in 1..Len(committed) /\ announced[i] # own /\ announced[j] = own
        BY <2>2, <2>6, <3>6
      <4>2. j = Len(announced) /\ i <= Len(announced) /\ i # j /\ k < l
        BY <2>2, <3>1, <3>2, <3>6, <4>1
      <4> QED BY <3>1, <4>2
    <3>7. CASE k = Len(committed) + 1 /\ l = Len(committed) + 1
      <4>1. i = Len(announced) /\ j = Len(announced)
        BY <2>2, <3>2, <3>7
      <4> QED BY <2>2, <3>1, <3>7, <4>1
    <3> QED BY <3>4, <3>5, <3>6, <3>7
  <2>9. \A u \in Threads : call'[u] # None =>
          /\ call'[u].id \notin Elements(more)
          /\ call'[u].id \notin Elements(announced)
    <3> SUFFICES ASSUME NEW u \in Threads, call'[u] # None
                 PROVE  /\ call'[u].id \notin Elements(more)
                        /\ call'[u].id \notin Elements(announced)
      OBVIOUS
    <3>1. u # t /\ call'[u] = call[u] /\ ~Flushed(u)
      BY <1>6, <1>7
    <3>2. call[u].id # own /\ call[u].id \notin Elements(committed)
          /\ call[u].id \notin Elements(announced)
      BY <1>2, <3>1 DEF ResultsInv, IdsAreOwn, OrderIsKept
    <3> QED BY <2>3, <3>1, <3>2
  <2>10. OnlyOnce(announced) /\ announced' = announced /\ made' = made
    BY <1>1 DEF ResultsInv, OrderIsKept
  <2>11. OrderIsKept'
    BY <1>3, <2>2, <2>4, <2>7, <2>8, <2>9, <2>10 DEF OrderIsKept
  <2> QED BY <1>8, <1>9, <1>10, <2>5, <2>11 DEF ResultsInv
<1>12. CASE ~call[t].ok
  <2>1. committed' = committed
    BY <1>1, <1>12
  <2>2. LastIsStored'
    BY <1>1, <1>4, <1>5, <1>12, <2>1 DEF ResultsInv, LastIsStored
  <2>3. \A u \in Threads : call'[u] # None =>
          /\ call'[u].id \notin Elements(committed)
          /\ call'[u].id \notin Elements(announced)
    BY <1>6, <1>7 DEF ResultsInv, OrderIsKept
  <2>4. OrderIsKept'
    BY <1>1, <2>1, <2>3 DEF ResultsInv, OrderIsKept
  <2> QED BY <1>8, <1>9, <1>10, <2>2, <2>4 DEF ResultsInv
<1> QED BY <1>4, <1>11, <1>12

\* Nothing is asked yet.
LEMMA ResultsInitInv == ASSUME Analyses!Init PROVE ResultsInv
<1>1. /\ row = None /\ call = [t \in Threads |-> None] /\ writer = None /\ made = 0
      /\ announced = <<>> /\ committed = <<>> /\ clashes = {}
  BY DEF Analyses!Init
<1>2. \A t \in Threads : call[t] = None /\ ~Loaded(t) /\ ~Flushed(t)
  BY <1>1 DEF Loaded, Flushed, Analyses!Does
<1>3. Analyses!TypeOK
  <2>1. \A t \in Threads : writer # t
    BY <1>1, ResultsAssumption
  <2> QED BY <1>1, <1>2, <2>1 DEF Analyses!TypeOK, Flushed
<1>4. IdsAreOwn /\ LoadsAreCurrent /\ LastIsStored
  BY <1>1, <1>2 DEF IdsAreOwn, LoadsAreCurrent, LastIsStored
<1>5. OrderIsKept
  <2>1. Len(announced) = 0 /\ Len(committed) = 0 /\ DOMAIN announced = {} /\ DOMAIN committed = {}
    BY <1>1
  <2>2. announced \in Seq(1..made) /\ committed \in Seq(1..made)
    BY <1>1
  <2> QED BY <1>2, <2>1, <2>2 DEF OrderIsKept, OnlyOnce, Elements, Analyses!SameOrder
<1> QED BY <1>3, <1>4, <1>5 DEF ResultsInv

\* Every step keeps the invariant.
LEMMA ResultsNextInv == ASSUME ResultsInv, [Analyses!Next]_analysesVars PROVE ResultsInv'
<1>1. ASSUME NEW t \in Threads, Analyses!Ask(t) PROVE ResultsInv'
  BY <1>1, ResultAskKeeps
<1>2. ASSUME NEW t \in Threads, Analyses!Answered(t) PROVE ResultsInv'
  BY <1>2, ResultAnsweredKeeps
<1>3. ASSUME NEW t \in Threads, Analyses!Flush(t) PROVE ResultsInv'
  BY <1>3, FlushKeeps
<1>4. ASSUME NEW t \in Threads, Analyses!Publish(t) PROVE ResultsInv'
  BY <1>4, PublishKeeps
<1>5. ASSUME NEW t \in Threads, Analyses!Commit(t) PROVE ResultsInv'
  BY <1>5, ResultCommitKeeps
<1>6. ASSUME NEW t \in Threads, Analyses!Fail(t) PROVE ResultsInv'
  <2>1. Analyses!Leaves(t) /\ UNCHANGED <<row, made, announced, committed>>
    BY <1>6 DEF Analyses!Fail
  <2> QED BY <2>1, ResultLeavingKeeps
<1>7. CASE UNCHANGED analysesVars
  <2>1. UNCHANGED <<row, call, writer, made, announced, committed, clashes>>
    BY <1>7 DEF analysesVars
  <2>2. \A t \in Threads : (Loaded(t)' <=> Loaded(t)) /\ (Flushed(t)' <=> Flushed(t))
    BY <2>1 DEF Loaded, Flushed, Analyses!Does
  <2>3. Analyses!TypeOK' /\ IdsAreOwn' /\ LoadsAreCurrent' /\ LastIsStored'
    BY <2>1, <2>2 DEF ResultsInv, Analyses!TypeOK, IdsAreOwn, LoadsAreCurrent, LastIsStored,
                      Flushed, Analyses!Does
  <2>4. OrderIsKept'
    BY <2>1, <2>2 DEF ResultsInv, OrderIsKept
  <2> QED BY <2>3, <2>4 DEF ResultsInv
<1> QED BY <1>1, <1>2, <1>3, <1>4, <1>5, <1>6, <1>7 DEF Analyses!Next

\* Only a commit writes the row.
LEMMA OnlyCommitsWrite ==
    ASSUME [Analyses!Next]_analysesVars
    PROVE  row' = row \/ \E t \in Threads : Analyses!Commit(t)
BY DEF Analyses!Next, analysesVars, Analyses!Ask, Analyses!Answered, Analyses!Flush,
       Analyses!Publish, Analyses!Fail

\* NewsAnalysis: however requests, background tasks and failures overlap, the last committed
\* result stays until another one is committed, results are announced in the order they are
\* stored in, and a success looks like an error only if another thread wrote the row between
\* its load and its write (analyze_news, upsert_success, upsert_error).
THEOREM ResultsTheorem == OneSpec => ResultsAreKept
<1>1. OneInit => ResultsInv
  BY ResultsInitInv DEF OneInit
<1>2. [OneNext]_allVars => [Analyses!Next]_analysesVars
  BY DEF OneNext, allVars
<1>3. ResultsInv /\ [OneNext]_allVars => ResultsInv'
  BY <1>2, ResultsNextInv
<1>4. ResultsInv /\ ResultsInv' /\ [OneNext]_allVars
        => [active = "analyses" => Analyses!SoundStep]_analysesVars
  <2> SUFFICES ASSUME ResultsInv, ResultsInv', [OneNext]_allVars PROVE Analyses!SoundStep
    OBVIOUS
  <2>1. Analyses!TypeOK' /\ LastIsStored' /\ Analyses!SameOrder(announced', committed')
    BY DEF ResultsInv, OrderIsKept
  <2>2. committed' # <<>> => row'.result = Analyses!Last(committed')
    BY <2>1 DEF LastIsStored, Analyses!Last
  <2>3. ASSUME NEW t \in Threads, Analyses!Commit(t)
        PROVE  /\ row' = call[t].row /\ Flushed(t) /\ call[t].row \in Analyses!Rows
               /\ committed' = IF call[t].ok THEN Append(committed, call[t].id) ELSE committed
               /\ committed \in Seq(1..made) /\ call[t].id \in 1..made
               /\ call[t].ok \in BOOLEAN
               /\ call[t].ok => call[t].row.result = call[t].id
               /\ ~call[t].ok /\ row # None => call[t].row.result = row.result
               /\ call[t].ok => \/ call[t].row.status = "success" /\ ~call[t].row.error
                                \/ t \in clashes
    <3>1. /\ row' = call[t].row /\ Flushed(t)
          /\ committed' = IF call[t].ok THEN Append(committed, call[t].id) ELSE committed
      BY <2>3 DEF Analyses!Commit, Flushed
    <3>2. call[t] # None
      BY <3>1 DEF Flushed, Analyses!Does
    <3> QED BY <3>1, <3>2, CallFacts DEF ResultsInv, LoadsAreCurrent, OrderIsKept, IdsAreOwn
  <2>4. row # None => row' # None /\ row'.result \in {row.result} \union Analyses!Range(committed')
    <3> SUFFICES ASSUME row # None, NEW t \in Threads, Analyses!Commit(t)
                 PROVE  row' # None /\ row'.result \in {row.result} \union Analyses!Range(committed')
      BY <1>2, OnlyCommitsWrite
    <3>1. row' # None
      BY <2>3, ResultsAssumption
    <3>2. CASE call[t].ok
      <4>1. committed' = Append(committed, call[t].id) /\ row'.result = call[t].id
        BY <2>3, <3>2
      <4>2. call[t].id \in Analyses!Range(committed')
        BY <2>3, <4>1 DEF Analyses!Range
      <4> QED BY <3>1, <4>1, <4>2
    <3>3. CASE ~call[t].ok
      BY <2>3, <3>1, <3>3
    <3> QED BY <2>3, <3>2, <3>3
  <2>5. ASSUME NEW t \in Threads, Analyses!Does(t, "flushed"), row' # row, call[t].ok
        PROVE  (row'.status = "success" /\ ~row'.error) \/ t \in clashes
    <3>1. PICK u \in Threads : Analyses!Commit(u)
      BY <1>2, <2>5, OnlyCommitsWrite
    <3>2. u = t
      BY <2>3, <2>5, <3>1, OneFlushed DEF Flushed
    <3> QED BY <2>3, <2>5, <3>1, <3>2
  <2> QED BY <2>1, <2>2, <2>4, <2>5 DEF Analyses!SoundStep
<1> QED BY <1>1, <1>3, <1>4, PTL DEF OneSpec, ResultsAreKept
-----------------------------------------------------------------------------
(***************************************************************************)
(* HashBackfill, for every set of rows, links and times, every             *)
(* normalization and every size of the batches.                            *)
(***************************************************************************)
Unwritten == plan \union retry
Target(i) == Backfill!NewHash(i)

\* Of a row the ingestion has not touched the hash is that of its link, normalized or not,
\* and what is planned for it is the normalized one.
OldHashesAreKnown ==
    /\ \A i \in Backfill!Stored \ edited : hashed[i].hash \in {hashed[i].url, Target(i)}
    /\ \A e \in Unwritten : e.id \notin edited =>
         e.id \in Backfill!Stored /\ e.hash = Target(e.id)

\* Before the ingestion touches a row nothing is in the way of what is planned.
NothingIsInTheWay == edited = {} =>
    /\ failed = {} /\ retry = {}
    /\ \A e \in plan : \A d \in plan : e # d => e.hash # d.hash
    /\ \A e \in plan : \A j \in Backfill!Stored \ {e.id} : hashed[j].hash # e.hash

\* Row j has the hash of its group or is going to.
Serves(j) == hashed[j].hash = Target(j) \/ \E e \in Unwritten : e.id = j

\* A group has a row that serves it, or one was refused.  That is not the row the plan
\* took for a duplicate.
GroupsAreServed ==
    /\ (stage # "idle" /\ quiet => \A e \in Unwritten :
          e.id \in Backfill!Stored /\ e.hash = Target(e.id))
    /\ (stage # "idle" /\ quiet /\ failed = {} => \A i \in Backfill!Stored :
          \E j \in Backfill!Group(i) : Serves(j))
    /\ (stage # "idle" /\ edited = {} => \A i \in duplicates \intersect Backfill!Stored :
          \E j \in Backfill!Group(i) \ {i} : Serves(j))
    /\ (edited = {} /\ stage # "idle" => quiet)

\* After a clean run each group has its hash.
CleanIsServed == clean =>
    /\ stage = "idle"
    /\ \A i \in Backfill!Stored : \E j \in Backfill!Group(i) : hashed[j].hash = Target(j)

BackfillInv ==
    /\ Backfill!TypeOK
    /\ OldHashesAreKnown
    /\ NothingIsInTheWay
    /\ GroupsAreServed
    /\ CleanIsServed
-----------------------------------------------------------------------------
\* A group has an earliest row, and so has any set of rows.
LEMMA EarliestExists ==
    ASSUME Backfill!TypeOK, NEW S \in SUBSET Backfill!Stored, S # {}
    PROVE  Backfill!Earliest(S) \in S
<1>1. S \subseteq Nat /\ \A i \in S : hashed[i].at \in Nat
  BY BackfillAssumption DEF Backfill!TypeOK, Backfill!Stored, Backfill!Rows
<1>2. PICK t \in {hashed[i].at : i \in S} : \A u \in {hashed[i].at : i \in S} : t <= u
  <2>1. {hashed[i].at : i \in S} \in SUBSET Nat /\ {hashed[i].at : i \in S} # {}
    BY <1>1
  <2> QED BY <2>1, LeastNumber
<1>3. PICK x \in {i \in S : hashed[i].at = t} : \A y \in {i \in S : hashed[i].at = t} : x <= y
  <2>1. {i \in S : hashed[i].at = t} \in SUBSET Nat /\ {i \in S : hashed[i].at = t} # {}
    BY <1>1, <1>2
  <2> QED BY <2>1, LeastNumber
<1>4. \A j \in S \ {x} : Backfill!Before(x, j)
  <2> SUFFICES ASSUME NEW j \in S \ {x} PROVE Backfill!Before(x, j)
    OBVIOUS
  <2>1. x \in Nat /\ j \in Nat /\ hashed[x].at \in Nat /\ hashed[j].at \in Nat
        /\ hashed[x].at = t /\ t <= hashed[j].at /\ x # j
    BY <1>1, <1>2, <1>3
  <2>2. hashed[j].at = t => x <= j
    BY <1>3
  <2> QED BY <2>1, <2>2 DEF Backfill!Before
<1> QED BY <1>3, <1>4 DEF Backfill!Earliest

\* The rows of a group have one hash to get.
LEMMA GroupFacts ==
    ASSUME NEW i \in Backfill!Stored, NEW j \in Backfill!Group(i)
    PROVE  /\ j \in Backfill!Stored /\ Target(j) = Target(i)
           /\ i \in Backfill!Group(i) /\ Backfill!Group(j) = Backfill!Group(i)
BY DEF Backfill!Group, Target

\* The primary row of a group is one of it, and has the hash if one of the group has.
LEMMA PrimaryFacts ==
    ASSUME Backfill!TypeOK, NEW i \in Backfill!Stored
    PROVE  /\ Backfill!Primary(Backfill!Group(i)) \in Backfill!Group(i)
           /\ \A j \in Backfill!Group(i) : hashed[j].hash = Target(j) =>
                LET p == Backfill!Primary(Backfill!Group(i)) IN hashed[p].hash = Target(p)
<1> DEFINE G == Backfill!Group(i)
           H == {k \in G : hashed[k].hash = Target(k)}
<1>1. G \in SUBSET Backfill!Stored /\ i \in G /\ H \in SUBSET Backfill!Stored
  BY DEF Backfill!Group, Target
<1>2. Backfill!Primary(G) = Backfill!Earliest(IF H # {} THEN H ELSE G)
  BY DEF Backfill!Primary, Target
<1>3. CASE H # {}
  <2>1. Backfill!Primary(G) \in H
    BY <1>1, <1>2, <1>3, EarliestExists
  <2> QED BY <2>1
<1>4. CASE H = {}
  <2>1. Backfill!Primary(G) \in G
    BY <1>1, <1>2, <1>4, EarliestExists
  <2> QED BY <2>1, <1>4
<1> QED BY <1>3, <1>4

\* Writing changes the hashes of the rows written, and nothing else.
LEMMA BatchWritten ==
    ASSUME Backfill!TypeOK, NEW S \in SUBSET Unwritten, NEW w, w = Backfill!Written(S)
    PROVE  /\ w \in [RowIds -> {None} \union Backfill!Rows]
           /\ \A i \in RowIds : w[i] = None <=> hashed[i] = None
           /\ \A i \in Backfill!Stored :
                /\ w[i].url = hashed[i].url /\ w[i].marked = hashed[i].marked
                /\ (\A e \in S : e.id # i) => w[i] = hashed[i]
           /\ \A e \in S : e.id \in Backfill!Stored => w[e.id].hash = e.hash
<1>1. S \subseteq Backfill!Entries /\ \A e, d \in S : e.id = d.id => e = d
  BY DEF Unwritten, Backfill!TypeOK
<1>2. /\ DOMAIN w = RowIds
      /\ \A i \in RowIds : (hashed[i] = None \/ \A e \in S : e.id # i) => w[i] = hashed[i]
      /\ w = [i \in RowIds |-> w[i]]
  BY DEF Backfill!Written
<1>3. \A e \in S : hashed[e.id] # None =>
        /\ hashed[e.id] \in Backfill!Rows
        /\ w[e.id] = [hashed[e.id] EXCEPT !.hash = e.hash]
  <2> SUFFICES ASSUME NEW e \in S, hashed[e.id] # None
               PROVE  /\ hashed[e.id] \in Backfill!Rows
                      /\ w[e.id] = [hashed[e.id] EXCEPT !.hash = e.hash]
    OBVIOUS
  <2>1. e.id \in RowIds /\ (CHOOSE d \in S : d.id = e.id) = e
    BY <1>1 DEF Backfill!Entries
  <2> QED BY <2>1 DEF Backfill!Written, Backfill!TypeOK
<1>4. \A e \in S : hashed[e.id] # None =>
        /\ w[e.id] \in Backfill!Rows /\ w[e.id].hash = e.hash
        /\ w[e.id].url = hashed[e.id].url /\ w[e.id].marked = hashed[e.id].marked
  <2> SUFFICES ASSUME NEW e \in S, hashed[e.id] # None
               PROVE  /\ w[e.id] \in Backfill!Rows /\ w[e.id].hash = e.hash
                      /\ w[e.id].url = hashed[e.id].url /\ w[e.id].marked = hashed[e.id].marked
    OBVIOUS
  <2>1. e.hash \in Links /\ hashed[e.id] \in Backfill!Rows
        /\ w[e.id] = [hashed[e.id] EXCEPT !.hash = e.hash]
    BY <1>1, <1>3 DEF Backfill!Entries
  <2> QED BY <2>1 DEF Backfill!Rows
<1>5. hashed \in [RowIds -> {None} \union Backfill!Rows]
  BY DEF Backfill!TypeOK
<1>6. \A i \in RowIds : hashed[i] # None /\ (\E e \in S : e.id = i) =>
        /\ w[i] \in Backfill!Rows /\ w[i].url = hashed[i].url /\ w[i].marked = hashed[i].marked
  BY <1>4
<1>7. \A i \in RowIds : w[i] = None <=> hashed[i] = None
  BY <1>2, <1>6, BackfillAssumption
<1>8. \A i \in RowIds : w[i] \in {None} \union Backfill!Rows
  BY <1>2, <1>5, <1>6
<1>9. w \in [RowIds -> {None} \union Backfill!Rows]
  BY <1>2, <1>8
<1>10. \A i \in Backfill!Stored :
         /\ w[i].url = hashed[i].url /\ w[i].marked = hashed[i].marked
         /\ (\A e \in S : e.id # i) => w[i] = hashed[i]
  BY <1>2, <1>6 DEF Backfill!Stored
<1>11. \A e \in S : e.id \in Backfill!Stored => w[e.id].hash = e.hash
  BY <1>4 DEF Backfill!Stored
<1> QED BY <1>7, <1>9, <1>10, <1>11
-----------------------------------------------------------------------------
\* While links stay, so do the groups.
LEMMA LinksKept ==
    ASSUME Backfill!TypeOK,
           \A i \in RowIds : hashed'[i] = None <=> hashed[i] = None,
           \A i \in Backfill!Stored : hashed'[i].url = hashed[i].url
    PROVE  /\ Backfill!Stored' = Backfill!Stored
           /\ \A i \in Backfill!Stored :
                Target(i)' = Target(i) /\ Backfill!Group(i)' = Backfill!Group(i)
<1>1. Backfill!Stored' = Backfill!Stored
  BY DEF Backfill!Stored
<1>2. \A i \in Backfill!Stored : Target(i)' = Target(i)
  BY DEF Target, Backfill!NewHash
<1>3. ASSUME NEW i \in Backfill!Stored PROVE Backfill!Group(i)' = Backfill!Group(i)
  BY <1>1, <1>2 DEF Backfill!Group, Target
<1> QED BY <1>1, <1>2, <1>3

\* What is written is what is planned: the hash a group has, and a row that serves it, stay.
LEMMA HashesWrittenKeep ==
    ASSUME BackfillInv, NEW S \in SUBSET Unwritten, hashed' = Backfill!Written(S),
           Unwritten' = Unwritten \ S, retry' \subseteq retry, plan' \subseteq plan,
           stage # "idle", stage' # "idle", clean' = clean,
           UNCHANGED <<failed, duplicates, edited, quiet>>
    PROVE  OldHashesAreKnown' /\ NothingIsInTheWay' /\ GroupsAreServed' /\ CleanIsServed'
<1> USE DEF BackfillInv
<1>1. /\ hashed' \in [RowIds -> {None} \union Backfill!Rows]
      /\ \A i \in RowIds : hashed'[i] = None <=> hashed[i] = None
      /\ \A i \in Backfill!Stored :
           /\ hashed'[i].url = hashed[i].url /\ hashed'[i].marked = hashed[i].marked
           /\ (\A e \in S : e.id # i) => hashed'[i] = hashed[i]
      /\ \A e \in S : e.id \in Backfill!Stored => hashed'[e.id].hash = e.hash
  BY BatchWritten
<1>2. /\ Backfill!Stored' = Backfill!Stored
      /\ \A i \in Backfill!Stored :
           Target(i)' = Target(i) /\ Backfill!Group(i)' = Backfill!Group(i)
  BY <1>1, LinksKept
<1>3. \A i \in Backfill!Stored : Backfill!Group(i) \subseteq Backfill!Stored
  BY DEF Backfill!Group
<1>4. \A e \in Unwritten : \A d \in Unwritten : e.id = d.id => e = d
  BY DEF Backfill!TypeOK, Unwritten
<1>5. OldHashesAreKnown'
  <2>1. ASSUME NEW i \in Backfill!Stored \ edited
        PROVE  hashed'[i].hash \in {hashed'[i].url, Target(i)'}
    <3>1. CASE \A e \in S : e.id # i
      BY <1>1, <1>2, <2>1, <3>1 DEF OldHashesAreKnown
    <3>2. CASE \E e \in S : e.id = i
      BY <1>1, <1>2, <2>1, <3>2 DEF OldHashesAreKnown
    <3> QED BY <3>1, <3>2
  <2>2. ASSUME NEW e \in Unwritten', e.id \notin edited
        PROVE  e.id \in Backfill!Stored' /\ e.hash = Target(e.id)'
    BY <1>2, <2>2 DEF OldHashesAreKnown
  <2> QED BY <1>2, <2>1, <2>2 DEF OldHashesAreKnown
<1>6. NothingIsInTheWay'
  <2> SUFFICES ASSUME edited = {}
               PROVE  /\ failed' = {} /\ retry' = {}
                      /\ \A e \in plan' : \A d \in plan' : e # d => e.hash # d.hash
                      /\ \A e \in plan' : \A j \in Backfill!Stored' \ {e.id} :
                           hashed'[j].hash # e.hash
    BY DEF NothingIsInTheWay
  <2>1. /\ failed' = {} /\ retry' = {} /\ retry = {}
        /\ \A e \in plan : \A d \in plan : e # d => e.hash # d.hash
        /\ \A e \in plan : \A j \in Backfill!Stored \ {e.id} : hashed[j].hash # e.hash
    BY DEF NothingIsInTheWay
  <2>2. plan' = plan \ S /\ S \subseteq plan
    BY <2>1 DEF Unwritten
  <2>3. ASSUME NEW e \in plan', NEW j \in Backfill!Stored', j # e.id
        PROVE  hashed'[j].hash # e.hash
    <3>1. e \in plan /\ e \notin S /\ j \in Backfill!Stored
      BY <1>2, <2>2
    <3>2. CASE \A d \in S : d.id # j
      BY <1>1, <2>1, <2>3, <3>1, <3>2
    <3>3. CASE \E d \in S : d.id = j
      BY <1>1, <2>1, <2>2, <3>1, <3>3
    <3> QED BY <3>2, <3>3
  <2> QED BY <2>1, <2>2, <2>3
<1>7. ASSUME NEW j \in Backfill!Stored, Serves(j),
             \A e \in Unwritten : e.id \in Backfill!Stored /\ e.hash = Target(e.id)
      PROVE  Serves(j)'
  <2>1. CASE \E e \in S : e.id = j
    BY <1>1, <1>2, <1>7, <2>1 DEF Serves
  <2>2. CASE \A e \in S : e.id # j
    BY <1>1, <1>2, <1>7, <2>2 DEF Serves
  <2> QED BY <2>1, <2>2
<1>8. GroupsAreServed'
  <2>1. ASSUME quiet
        PROVE  \A e \in Unwritten' : e.id \in Backfill!Stored' /\ e.hash = Target(e.id)'
    BY <1>2, <2>1 DEF GroupsAreServed
  <2>2. ASSUME quiet, failed = {}, NEW i \in Backfill!Stored
        PROVE  \E j \in Backfill!Group(i)' : Serves(j)'
    <3>1. PICK j \in Backfill!Group(i) : Serves(j)
      BY <2>2 DEF GroupsAreServed
    <3>2. Serves(j)'
      BY <1>3, <1>7, <2>2, <3>1 DEF GroupsAreServed
    <3> QED BY <1>2, <3>1, <3>2
  <2>3. ASSUME edited = {}, NEW i \in duplicates \intersect Backfill!Stored
        PROVE  \E j \in Backfill!Group(i)' \ {i} : Serves(j)'
    <3>1. PICK j \in Backfill!Group(i) \ {i} : Serves(j)
      BY <2>3 DEF GroupsAreServed
    <3>2. Serves(j)'
      BY <1>3, <1>7, <2>3, <3>1 DEF GroupsAreServed
    <3> QED BY <1>2, <3>1, <3>2
  <2>4. edited = {} => quiet
    BY DEF GroupsAreServed
  <2> QED BY <1>2, <2>1, <2>2, <2>3, <2>4 DEF GroupsAreServed
<1>9. CleanIsServed'
  BY DEF CleanIsServed
<1> QED BY <1>5, <1>6, <1>8, <1>9

\* A row that is refused: there was one in the way, so the ingestion has been at work.
LEMMA RefusalKeeps ==
    ASSUME BackfillInv, edited # {}, hashed' = hashed, Unwritten' \subseteq Unwritten,
           failed \subseteq failed', Unwritten' = Unwritten \/ failed' # {},
           stage # "idle", stage' # "idle", clean' = clean,
           UNCHANGED <<duplicates, edited, quiet>>
    PROVE  OldHashesAreKnown' /\ NothingIsInTheWay' /\ GroupsAreServed' /\ CleanIsServed'
<1> USE DEF BackfillInv
<1>1. /\ Backfill!Stored' = Backfill!Stored
      /\ \A i \in RowIds : Target(i)' = Target(i) /\ Backfill!Group(i)' = Backfill!Group(i)
  BY DEF Backfill!Stored, Target, Backfill!NewHash, Backfill!Group
<1>2. Backfill!Stored \subseteq RowIds
  BY DEF Backfill!Stored
<1>3. OldHashesAreKnown'
  BY <1>1, <1>2 DEF OldHashesAreKnown
<1>4. NothingIsInTheWay'
  BY DEF NothingIsInTheWay
<1>5. GroupsAreServed'
  <2>1. ASSUME quiet
        PROVE  \A e \in Unwritten' : e.id \in Backfill!Stored' /\ e.hash = Target(e.id)'
    BY <1>1, <1>2, <2>1 DEF GroupsAreServed
  <2>2. ASSUME quiet, failed' = {}, NEW i \in Backfill!Stored
        PROVE  \E j \in Backfill!Group(i)' : Serves(j)'
    <3>1. PICK j \in Backfill!Group(i) : Serves(j)
      BY <2>2 DEF GroupsAreServed
    <3>2. j \in RowIds
      BY <1>2 DEF Backfill!Group
    <3>3. Serves(j)'
      BY <1>1, <2>2, <3>1, <3>2 DEF Serves
    <3> QED BY <1>1, <1>2, <3>1, <3>3
  <2> QED BY <1>1, <2>1, <2>2 DEF GroupsAreServed
<1>6. CleanIsServed'
  BY DEF CleanIsServed
<1> QED BY <1>3, <1>4, <1>5, <1>6

\* The ingestion changes one row.
LEMMA TouchingKeeps ==
    ASSUME BackfillInv, NEW i \in RowIds, edited' = edited \union {i},
           \A j \in RowIds \ {i} : hashed'[j] = hashed[j],
           clean' = FALSE, quiet' = FALSE, UNCHANGED <<plan, retry>>
    PROVE  OldHashesAreKnown' /\ NothingIsInTheWay' /\ GroupsAreServed' /\ CleanIsServed'
<1> USE DEF BackfillInv
<1>1. Backfill!Stored \subseteq RowIds /\ Backfill!Stored' \subseteq RowIds
  BY DEF Backfill!Stored
<1>2. \A j \in RowIds \ {i} : /\ Target(j)' = Target(j)
                              /\ j \in Backfill!Stored' <=> j \in Backfill!Stored
  BY DEF Backfill!Stored, Target, Backfill!NewHash
<1>3. OldHashesAreKnown'
  <2>1. ASSUME NEW j \in Backfill!Stored' \ edited'
        PROVE  hashed'[j].hash \in {hashed'[j].url, Target(j)'}
    BY <1>1, <1>2 DEF OldHashesAreKnown
  <2>2. ASSUME NEW e \in Unwritten', e.id \notin edited'
        PROVE  e.id \in Backfill!Stored' /\ e.hash = Target(e.id)'
    BY <1>1, <1>2, <2>2 DEF OldHashesAreKnown, Unwritten
  <2> QED BY <2>1, <2>2 DEF OldHashesAreKnown
<1>4. edited' # {}
  OBVIOUS
<1> QED BY <1>3, <1>4 DEF NothingIsInTheWay, GroupsAreServed, CleanIsServed
-----------------------------------------------------------------------------
\* Without the ingestion no batch is refused.
LEMMA NoneRefused ==
    ASSUME BackfillInv, edited = {}, NEW S \in SUBSET plan
    PROVE  Backfill!Unique(Backfill!Written(S))
<1> USE DEF BackfillInv
<1> SUFFICES ASSUME NEW w, w = Backfill!Written(S) PROVE Backfill!Unique(w)
  OBVIOUS
<1>1. /\ \A i \in RowIds : w[i] = None <=> hashed[i] = None
      /\ \A i \in Backfill!Stored :
           /\ w[i].url = hashed[i].url
           /\ (\A e \in S : e.id # i) => w[i] = hashed[i]
      /\ \A e \in S : e.id \in Backfill!Stored => w[e.id].hash = e.hash
  BY BatchWritten DEF Unwritten
<1>2. /\ \A e \in S : \A d \in S : e # d => e.hash # d.hash
      /\ \A e \in S : \A j \in Backfill!Stored \ {e.id} : hashed[j].hash # e.hash
  BY DEF NothingIsInTheWay
<1>3. SUFFICES ASSUME NEW i \in Backfill!Stored, NEW j \in Backfill!Stored, i # j
               PROVE  w[i].hash # w[j].hash /\ w[i].url # w[j].url
  BY <1>1 DEF Backfill!Unique, Backfill!Stored
<1>4. hashed[i].hash # hashed[j].hash /\ hashed[i].url # hashed[j].url
  <2>1. Backfill!Unique(hashed)
    BY DEF Backfill!TypeOK
  <2>2. i \in RowIds /\ hashed[i] # None /\ j \in RowIds /\ hashed[j] # None
    BY DEF Backfill!Stored
  <2> QED BY <1>3, <2>1, <2>2 DEF Backfill!Unique
<1>5. CASE \E e \in S : e.id = i
  <2>1. PICK e \in S : e.id = i
    BY <1>5
  <2>2. CASE \E d \in S : d.id = j
    BY <1>1, <1>2, <1>4, <2>1, <2>2
  <2>3. CASE \A d \in S : d.id # j
    BY <1>1, <1>2, <1>4, <2>1, <2>3
  <2> QED BY <2>2, <2>3
<1>6. CASE \A e \in S : e.id # i
  <2>1. CASE \E d \in S : d.id = j
    BY <1>1, <1>2, <1>4, <1>6, <2>1
  <2>2. CASE \A d \in S : d.id # j
    BY <1>1, <1>4, <1>6, <2>2
  <2> QED BY <2>1, <2>2
<1> QED BY <1>5, <1>6

\* A written batch, whole or row by row.
LEMMA BatchKeeps ==
    ASSUME BackfillInv, Backfill!WriteBatch
    PROVE  BackfillInv'
<1> DEFINE S == Backfill!Batch
<1>1. S \in SUBSET plan
  BY DEF Backfill!Batch
<1>2. /\ stage = "write" /\ plan' = plan \ S
      /\ IF Backfill!Unique(Backfill!Written(S))
         THEN hashed' = Backfill!Written(S) /\ stage' = stage /\ retry' = retry
         ELSE stage' = "retry" /\ retry' = S /\ hashed' = hashed
      /\ UNCHANGED <<failed, duplicates, runs, edits, edited, quiet, clean>>
  BY DEF Backfill!WriteBatch
<1> HIDE DEF S
<1> USE DEF BackfillInv
<1>3. retry = {} /\ Backfill!TypeOK
  BY <1>2 DEF Backfill!TypeOK
<1>4. CASE Backfill!Unique(Backfill!Written(S))
  <2>1. hashed' = Backfill!Written(S) /\ S \in SUBSET Unwritten /\ Unwritten' = Unwritten \ S
    BY <1>1, <1>2, <1>3, <1>4 DEF Unwritten
  <2>2. OldHashesAreKnown' /\ NothingIsInTheWay' /\ GroupsAreServed' /\ CleanIsServed'
    BY <1>2, <1>4, <2>1, HashesWrittenKeep
  <2>3. hashed' \in [RowIds -> {None} \union Backfill!Rows]
    BY <1>3, <2>1, BatchWritten
  <2>4. Backfill!Unique(hashed)'
    BY <1>4, <2>1 DEF Backfill!Unique
  <2>5. Backfill!TypeOK'
    BY <1>1, <1>2, <1>3, <1>4, <2>3, <2>4 DEF Backfill!TypeOK
  <2> QED BY <2>2, <2>5
<1>5. CASE ~Backfill!Unique(Backfill!Written(S))
  <2>1. edited # {}
    BY <1>1, <1>5, NoneRefused
  <2>2. hashed' = hashed /\ Unwritten' = Unwritten
    BY <1>1, <1>2, <1>3, <1>5 DEF Unwritten
  <2>3. OldHashesAreKnown' /\ NothingIsInTheWay' /\ GroupsAreServed' /\ CleanIsServed'
    BY <1>2, <1>5, <2>1, <2>2, RefusalKeeps
  <2>4. Backfill!Unique(hashed)'
    BY <1>3, <2>2 DEF Backfill!Unique, Backfill!TypeOK
  <2>5. Backfill!TypeOK'
    BY <1>1, <1>2, <1>3, <1>5, <2>4 DEF Backfill!TypeOK
  <2> QED BY <2>3, <2>5
<1> QED BY <1>4, <1>5

LEMMA RetryKeeps ==
    ASSUME BackfillInv, Backfill!RetryRow
    PROVE  BackfillInv'
<1> USE DEF BackfillInv
<1>1. PICK e \in retry :
        /\ retry' = retry \ {e}
        /\ IF Backfill!Unique(Backfill!Written({e}))
           THEN hashed' = Backfill!Written({e}) /\ failed' = failed
           ELSE failed' = failed \union {e.id} /\ hashed' = hashed
  BY DEF Backfill!RetryRow
<1>2. /\ stage = "retry" /\ stage' = IF retry' = {} THEN "write" ELSE stage
      /\ UNCHANGED <<plan, duplicates, runs, edits, edited, quiet, clean>>
  BY DEF Backfill!RetryRow
<1>3. Backfill!TypeOK /\ edited # {}
  BY <1>1 DEF NothingIsInTheWay
<1>4. CASE Backfill!Unique(Backfill!Written({e}))
  <2>1. /\ hashed' = Backfill!Written({e}) /\ {e} \in SUBSET Unwritten /\ failed' = failed
    BY <1>1, <1>4 DEF Unwritten
  <2>2. {e} \in SUBSET Backfill!Entries /\ hashed' \in [RowIds -> {None} \union Backfill!Rows]
    BY <1>1, <1>3, <2>1, BatchWritten DEF Backfill!TypeOK
  <2>3. Backfill!Unique(hashed)'
    BY <1>4, <2>1 DEF Backfill!Unique
  <2>4. Backfill!TypeOK'
    BY <1>1, <1>2, <1>3, <2>2, <2>3 DEF Backfill!TypeOK
  <2>5. Unwritten' = Unwritten \ {e}
    BY <1>1, <1>2, <1>3 DEF Unwritten, Backfill!TypeOK
  <2>6. OldHashesAreKnown' /\ NothingIsInTheWay' /\ GroupsAreServed' /\ CleanIsServed'
    BY <1>1, <1>2, <2>1, <2>5, HashesWrittenKeep
  <2> QED BY <2>4, <2>6
<1>5. CASE ~Backfill!Unique(Backfill!Written({e}))
  <2>1. hashed' = hashed /\ failed' = failed \union {e.id} /\ Unwritten' \subseteq Unwritten
    BY <1>1, <1>2, <1>5 DEF Unwritten
  <2>2. OldHashesAreKnown' /\ NothingIsInTheWay' /\ GroupsAreServed' /\ CleanIsServed'
    BY <1>2, <1>3, <2>1, RefusalKeeps
  <2>3. Backfill!Unique(hashed)'
    BY <1>3, <2>1 DEF Backfill!Unique, Backfill!TypeOK
  <2>4. Backfill!TypeOK'
    BY <1>1, <1>2, <1>3, <2>1, <2>3 DEF Backfill!TypeOK
  <2> QED BY <2>2, <2>4
<1> QED BY <1>4, <1>5
-----------------------------------------------------------------------------
\* What a run plans: the primary rows that have another hash than their group's.
LEMMA PlanFacts ==
    ASSUME BackfillInv, Backfill!Plan
    PROVE  /\ plan' \subseteq Backfill!Entries /\ retry' = {} /\ Unwritten' = plan'
           /\ \A e \in plan' : /\ e.id \in Backfill!Stored /\ e.hash = Target(e.id)
                               /\ e.id = Backfill!Primary(Backfill!Group(e.id))
                               /\ hashed[e.id].hash # Target(e.id)
           /\ \A i \in Backfill!Stored :
                LET p == Backfill!Primary(Backfill!Group(i))
                IN  hashed[p].hash = Target(p) \/ \E e \in plan' : e.id = p
<1> USE DEF BackfillInv
<1>1. /\ plan' = {[id |-> i, hash |-> Target(i)] : i \in Backfill!Changed}
      /\ stage = "idle" /\ retry' = retry
  BY DEF Backfill!Plan, Target
<1>2. retry' = {} /\ Unwritten' = plan'
  BY <1>1 DEF Backfill!TypeOK, Unwritten
<1>3. \A i \in Backfill!Changed :
        /\ i \in Backfill!Stored /\ i = Backfill!Primary(Backfill!Group(i))
        /\ hashed[i].hash # Target(i)
  BY DEF Backfill!Changed, Target
<1>4. \A i \in Backfill!Stored : i \in RowIds /\ Target(i) \in Links
  BY BackfillAssumption
     DEF Backfill!Stored, Backfill!TypeOK, Backfill!Rows, Target, Backfill!NewHash
<1>5. plan' \subseteq Backfill!Entries
  BY <1>1, <1>3, <1>4 DEF Backfill!Entries
<1>6. ASSUME NEW e \in plan'
      PROVE  /\ e.id \in Backfill!Stored /\ e.hash = Target(e.id)
             /\ e.id = Backfill!Primary(Backfill!Group(e.id))
             /\ hashed[e.id].hash # Target(e.id)
  BY <1>1, <1>3
<1>7. ASSUME NEW i \in Backfill!Stored, NEW p, p = Backfill!Primary(Backfill!Group(i)),
             hashed[p].hash # Target(p)
      PROVE  \E e \in plan' : e.id = p
  <2>1. p \in Backfill!Group(i)
    BY <1>7, PrimaryFacts
  <2>2. p \in Backfill!Stored /\ Backfill!Group(p) = Backfill!Group(i)
    BY <2>1, GroupFacts
  <2>3. p \in Backfill!Changed
    BY <1>7, <2>2 DEF Backfill!Changed, Target
  <2>4. [id |-> p, hash |-> Target(p)] \in plan'
    BY <1>1, <2>3
  <2> QED BY <2>4
<1> QED BY <1>2, <1>5, <1>6, <1>7

\* No other row has a hash that is planned for one the ingestion has not touched, and no two
\* rows get the same one.
LEMMA PlanIsFree ==
    ASSUME BackfillInv, Backfill!Plan, edited = {}
    PROVE  /\ \A e \in plan' : \A d \in plan' : e # d => e.hash # d.hash
           /\ \A e \in plan' : \A j \in Backfill!Stored \ {e.id} : hashed[j].hash # e.hash
<1> USE DEF BackfillInv
<1>1. \A i \in Backfill!Stored :
        /\ hashed[i].url \in Links /\ hashed[i].hash \in {hashed[i].url, Target(i)}
        /\ Target(i) = Normal[hashed[i].url]
  BY DEF Backfill!Stored, Backfill!TypeOK, Backfill!Rows, OldHashesAreKnown, Target,
         Backfill!NewHash
<1>2. ASSUME NEW e \in plan', NEW j \in Backfill!Stored, hashed[j].hash = e.hash
      PROVE  FALSE
  <2>1. /\ e.id \in Backfill!Stored /\ e.hash = Target(e.id)
        /\ e.id = Backfill!Primary(Backfill!Group(e.id)) /\ hashed[e.id].hash # Target(e.id)
    BY PlanFacts
  <2>2. Target(j) = Target(e.id)
    BY <1>1, <1>2, <2>1, BackfillAssumption
  <2>3. j \in Backfill!Group(e.id)
    BY <2>2 DEF Backfill!Group, Target
  <2> QED BY <1>2, <2>1, <2>2, <2>3, PrimaryFacts
<1>3. ASSUME NEW e \in plan', NEW d \in plan', e.hash = d.hash PROVE e = d
  <2>1. /\ e.id \in Backfill!Stored /\ e.hash = Target(e.id)
        /\ e.id = Backfill!Primary(Backfill!Group(e.id))
        /\ d.id \in Backfill!Stored /\ d.hash = Target(d.id)
        /\ d.id = Backfill!Primary(Backfill!Group(d.id))
        /\ e \in Backfill!Entries /\ d \in Backfill!Entries
    BY PlanFacts
  <2>2. Backfill!Group(e.id) = Backfill!Group(d.id)
    BY <1>3, <2>1 DEF Backfill!Group, Target
  <2>3. e.id = d.id
    BY <2>1, <2>2
  <2> QED BY <1>3, <2>1, <2>3 DEF Backfill!Entries
<1> QED BY <1>2, <1>3

LEMMA PlanningKeeps ==
    ASSUME BackfillInv, Backfill!Plan
    PROVE  BackfillInv'
<1> USE DEF BackfillInv
<1>1. /\ plan' \subseteq Backfill!Entries /\ retry' = {} /\ Unwritten' = plan'
      /\ \A e \in plan' : e.id \in Backfill!Stored /\ e.hash = Target(e.id)
      /\ \A i \in Backfill!Stored :
           LET p == Backfill!Primary(Backfill!Group(i))
           IN  hashed[p].hash = Target(p) \/ \E e \in plan' : e.id = p
  BY PlanFacts
<1>2. /\ hashed' = hashed /\ edited' = edited /\ failed' = {} /\ stage' = "write"
      /\ clean' = FALSE /\ quiet' = TRUE
      /\ duplicates' = {i \in Backfill!Stored : i # Backfill!Primary(Backfill!Group(i))}
  BY DEF Backfill!Plan
<1>3. /\ Backfill!Stored' = Backfill!Stored /\ Backfill!Stored \subseteq RowIds
      /\ \A i \in RowIds : Target(i)' = Target(i) /\ Backfill!Group(i)' = Backfill!Group(i)
  BY <1>2 DEF Backfill!Stored, Target, Backfill!NewHash, Backfill!Group
<1>4. Backfill!TypeOK'
  <2>1. \A e \in plan' : \A d \in plan' : e.id = d.id => e = d
    BY <1>1 DEF Backfill!Entries
  <2>2. Backfill!Unique(hashed)'
    BY <1>2 DEF Backfill!Unique, Backfill!TypeOK
  <2> QED BY <1>1, <1>2, <2>1, <2>2 DEF Backfill!TypeOK
<1>5. OldHashesAreKnown'
  BY <1>1, <1>2, <1>3 DEF OldHashesAreKnown
<1>6. NothingIsInTheWay'
  BY <1>1, <1>2, <1>3, PlanIsFree DEF NothingIsInTheWay
<1>7. ASSUME NEW i \in Backfill!Stored, NEW p, p = Backfill!Primary(Backfill!Group(i))
      PROVE  p \in Backfill!Group(i)' /\ Serves(p)'
  <2>1. p \in Backfill!Group(i) /\ p \in Backfill!Stored
    BY <1>7, PrimaryFacts, GroupFacts
  <2>2. hashed[p].hash = Target(p) \/ \E e \in plan' : e.id = p
    BY <1>1, <1>7
  <2> QED BY <1>1, <1>2, <1>3, <2>1, <2>2 DEF Serves
<1>8. GroupsAreServed'
  BY <1>1, <1>2, <1>3, <1>7 DEF GroupsAreServed
<1>9. CleanIsServed'
  BY <1>2 DEF CleanIsServed
<1> QED BY <1>4, <1>5, <1>6, <1>8, <1>9

\* Marks are no hashes.
LEMMA MarksKeep ==
    ASSUME BackfillInv, Backfill!Finish
    PROVE  /\ stage = "write" /\ plan = {} /\ retry = {} /\ plan' = {} /\ retry' = {}
           /\ stage' = "idle" /\ clean' = (failed = {} /\ quiet)
           /\ UNCHANGED <<failed, duplicates, runs, edits, edited, quiet>>
           /\ hashed' \in [RowIds -> {None} \union Backfill!Rows]
           /\ \A i \in RowIds : hashed'[i] = None <=> hashed[i] = None
           /\ \A i \in Backfill!Stored :
                /\ hashed'[i].url = hashed[i].url /\ hashed'[i].hash = hashed[i].hash
                /\ hashed'[i].marked /\ ~hashed[i].marked => i \in duplicates
<1> USE DEF BackfillInv
<1>1. /\ stage = "write" /\ plan = {} /\ retry = {} /\ plan' = {} /\ retry' = {}
      /\ stage' = "idle" /\ clean' = (failed = {} /\ quiet)
      /\ UNCHANGED <<failed, duplicates, runs, edits, edited, quiet>>
  BY DEF Backfill!Finish, Backfill!TypeOK
<1>2. PICK mark \in BOOLEAN :
        hashed' = [i \in RowIds |-> IF mark /\ i \in duplicates /\ hashed[i] # None
                                    THEN [hashed[i] EXCEPT !.marked = TRUE] ELSE hashed[i]]
  BY DEF Backfill!Finish
<1>3. ASSUME NEW i \in RowIds
      PROVE  /\ hashed'[i] \in {None} \union Backfill!Rows
             /\ hashed'[i] = None <=> hashed[i] = None
             /\ hashed[i] # None =>
                  /\ hashed'[i].url = hashed[i].url /\ hashed'[i].hash = hashed[i].hash
                  /\ hashed'[i].marked /\ ~hashed[i].marked => i \in duplicates
  <2>1. hashed[i] # None => hashed[i] \in Backfill!Rows
    BY DEF Backfill!TypeOK
  <2>2. CASE mark /\ i \in duplicates /\ hashed[i] # None
    <3>1. hashed'[i] = [hashed[i] EXCEPT !.marked = TRUE]
      BY <1>2, <2>2
    <3>2. /\ hashed'[i] \in Backfill!Rows /\ hashed'[i].url = hashed[i].url
          /\ hashed'[i].hash = hashed[i].hash
      BY <2>1, <2>2, <3>1 DEF Backfill!Rows
    <3> QED BY <2>2, <3>2, BackfillAssumption
  <2>3. CASE ~(mark /\ i \in duplicates /\ hashed[i] # None)
    BY <1>2, <2>1, <2>3
  <2> QED BY <2>2, <2>3
<1>4. hashed' \in [RowIds -> {None} \union Backfill!Rows]
  BY <1>2, <1>3
<1> QED BY <1>1, <1>3, <1>4 DEF Backfill!Stored

LEMMA FinishKeeps ==
    ASSUME BackfillInv, Backfill!Finish
    PROVE  BackfillInv'
<1> USE DEF BackfillInv
<1>1. /\ stage = "write" /\ plan = {} /\ retry = {} /\ plan' = {} /\ retry' = {}
      /\ stage' = "idle" /\ clean' = (failed = {} /\ quiet)
      /\ UNCHANGED <<failed, duplicates, runs, edits, edited, quiet>>
      /\ hashed' \in [RowIds -> {None} \union Backfill!Rows]
      /\ \A i \in RowIds : hashed'[i] = None <=> hashed[i] = None
      /\ \A i \in Backfill!Stored :
           /\ hashed'[i].url = hashed[i].url /\ hashed'[i].hash = hashed[i].hash
  BY MarksKeep
<1>2. /\ Backfill!Stored' = Backfill!Stored
      /\ \A i \in Backfill!Stored :
           Target(i)' = Target(i) /\ Backfill!Group(i)' = Backfill!Group(i)
  BY <1>1, LinksKept
<1>3. Backfill!Unique(hashed)'
  <2>1. Backfill!Unique(hashed)
    BY DEF Backfill!TypeOK
  <2> QED BY <1>1, <2>1 DEF Backfill!Unique, Backfill!Stored
<1>4. Backfill!TypeOK'
  BY <1>1, <1>3 DEF Backfill!TypeOK
<1>5. OldHashesAreKnown' /\ NothingIsInTheWay'
  BY <1>1, <1>2 DEF OldHashesAreKnown, NothingIsInTheWay, Unwritten
<1>6. GroupsAreServed'
  BY <1>1 DEF GroupsAreServed
<1>7. ASSUME clean', NEW i \in Backfill!Stored
      PROVE  \E j \in Backfill!Group(i) : hashed[j].hash = Target(j)
  BY <1>1, <1>7 DEF GroupsAreServed, Serves, Unwritten
<1>8. CleanIsServed'
  <2> SUFFICES ASSUME clean', NEW i \in Backfill!Stored
               PROVE  \E j \in Backfill!Group(i)' : hashed'[j].hash = Target(j)'
    BY <1>1, <1>2 DEF CleanIsServed
  <2>1. PICK j \in Backfill!Group(i) : hashed[j].hash = Target(j)
    BY <1>7
  <2>2. j \in Backfill!Stored
    BY <2>1 DEF Backfill!Group
  <2> QED BY <1>1, <1>2, <2>1, <2>2
<1> QED BY <1>4, <1>5, <1>6, <1>8

\* Stopped, the script has forgotten its plan.
LEMMA StopKeeps ==
    ASSUME BackfillInv, Backfill!Stop
    PROVE  BackfillInv'
<1> USE DEF BackfillInv
<1>1. /\ stage' = "idle" /\ plan' = {} /\ retry' = {} /\ clean' = FALSE
      /\ UNCHANGED <<hashed, failed, duplicates, runs, edits, edited, quiet>>
  BY DEF Backfill!Stop
<1>2. Backfill!Unique(hashed)'
  BY <1>1 DEF Backfill!Unique, Backfill!TypeOK
<1>3. Backfill!TypeOK'
  BY <1>1, <1>2 DEF Backfill!TypeOK
<1>4. Backfill!Stored' = Backfill!Stored /\ \A i \in RowIds : Target(i)' = Target(i)
  BY <1>1 DEF Backfill!Stored, Target, Backfill!NewHash
<1>5. OldHashesAreKnown' /\ NothingIsInTheWay'
  BY <1>1, <1>4
     DEF OldHashesAreKnown, NothingIsInTheWay, Unwritten, Backfill!Stored
<1>6. GroupsAreServed' /\ CleanIsServed'
  BY <1>1 DEF GroupsAreServed, CleanIsServed
<1> QED BY <1>3, <1>5, <1>6
-----------------------------------------------------------------------------
\* The ingestion stores a link under its normalized hash, which no other row has.
LEMMA IngestionKeeps ==
    ASSUME BackfillInv, NEW i \in RowIds, Backfill!Insert(i) \/ Backfill!Promote(i)
    PROVE  BackfillInv'
<1> USE DEF BackfillInv
<1>1. /\ edited' = edited \union {i} /\ clean' = FALSE /\ quiet' = FALSE
      /\ UNCHANGED <<stage, plan, retry, failed, duplicates, runs>>
  BY DEF Backfill!Insert, Backfill!Promote
<1>2. PICK link \in Links :
        /\ \A j \in RowIds : j # i => hashed'[j] = hashed[j]
        /\ hashed' \in [RowIds -> {None} \union Backfill!Rows]
        /\ hashed'[i].url = link /\ hashed'[i].hash = Normal[link]
        /\ \A j \in Backfill!Stored \ {i} :
             hashed[j].url # link /\ hashed[j].hash # Normal[link]
  <2>1. CASE Backfill!Insert(i)
    <3>1. PICK link \in Links, at \in Times :
            /\ ~Backfill!Known(link) /\ \A j \in Backfill!Stored : hashed[j].url # link
            /\ hashed' = [hashed EXCEPT ![i] = [url |-> link, hash |-> Normal[link],
                                               at |-> at, marked |-> FALSE]]
      BY <2>1 DEF Backfill!Insert
    <3>2. Normal[link] \in Links
      BY BackfillAssumption
    <3>3. hashed' \in [RowIds -> {None} \union Backfill!Rows]
      BY <3>1, <3>2 DEF Backfill!TypeOK, Backfill!Rows
    <3> QED BY <3>1, <3>3 DEF Backfill!Known, Backfill!TypeOK
  <2>2. CASE Backfill!Promote(i)
    <3>1. PICK link \in Links :
            /\ \A j \in Backfill!Stored : hashed[j].url # link
            /\ \A j \in Backfill!Stored \ {i} : hashed[j].hash # Normal[link]
            /\ hashed' = [hashed EXCEPT ![i].url = link, ![i].hash = Normal[link]]
      BY <2>2 DEF Backfill!Promote
    <3>2. Normal[link] \in Links /\ hashed[i] \in Backfill!Rows
      BY <2>2, BackfillAssumption DEF Backfill!Promote, Backfill!TypeOK
    <3>3. /\ hashed'[i] = [[hashed[i] EXCEPT !.url = link] EXCEPT !.hash = Normal[link]]
          /\ \A j \in RowIds : j # i => hashed'[j] = hashed[j]
          /\ hashed' = [j \in RowIds |-> hashed'[j]]
      BY <3>1 DEF Backfill!TypeOK
    <3>4. /\ hashed'[i] \in Backfill!Rows /\ hashed'[i].url = link
          /\ hashed'[i].hash = Normal[link]
      BY <3>2, <3>3 DEF Backfill!Rows
    <3>5. \A j \in RowIds : hashed'[j] \in {None} \union Backfill!Rows
      BY <3>3, <3>4 DEF Backfill!TypeOK
    <3>6. hashed' \in [RowIds -> {None} \union Backfill!Rows]
      BY <3>3, <3>5
    <3> QED BY <3>1, <3>3, <3>4, <3>6
  <2> QED BY <2>1, <2>2
<1>3. Backfill!Unique(hashed)'
  <2>1. Backfill!Unique(hashed)
    BY DEF Backfill!TypeOK
  <2> QED BY <1>2, <2>1 DEF Backfill!Unique, Backfill!Stored
<1>4. Backfill!TypeOK'
  BY <1>1, <1>2, <1>3 DEF Backfill!TypeOK
<1>5. \A j \in RowIds \ {i} : hashed'[j] = hashed[j]
  BY <1>2
<1>6. OldHashesAreKnown' /\ NothingIsInTheWay' /\ GroupsAreServed' /\ CleanIsServed'
  BY <1>1, <1>5, TouchingKeeps
<1> QED BY <1>4, <1>6

LEMMA BackfillInitInv == Backfill!Init => BackfillInv
<1> SUFFICES ASSUME Backfill!Init PROVE BackfillInv
  OBVIOUS
<1>1. /\ stage = "idle" /\ plan = {} /\ retry = {} /\ failed = {} /\ edited = {}
      /\ quiet = TRUE /\ clean = FALSE /\ Backfill!Unique(hashed)
  BY DEF Backfill!Init
<1>2. ASSUME NEW i \in Backfill!Stored
      PROVE  hashed[i] \in Backfill!Rows /\ hashed[i].hash \in {hashed[i].url, Target(i)}
  <2>1. PICK link \in Links : hashed[i] \in
          [url : {link}, hash : {link, Normal[link]}, at : Times, marked : {FALSE}]
    <3> DEFINE Old == {[url : {link}, hash : {link, Normal[link]}, at : Times,
                        marked : {FALSE}] : link \in Links}
    <3>1. hashed \in [RowIds -> {None} \union UNION Old]
      BY Zenon DEF Backfill!Init
    <3> HIDE DEF Old
    <3>2. i \in RowIds /\ hashed[i] # None
      BY DEF Backfill!Stored
    <3>3. PICK old \in Old : hashed[i] \in old
      BY <3>1, <3>2
    <3> QED BY <3>3 DEF Old
  <2>2. hashed[i].url = link /\ hashed[i].hash \in {link, Normal[link]}
    BY <2>1
  <2> QED BY <2>1, <2>2, BackfillAssumption DEF Backfill!Rows, Target, Backfill!NewHash
<1>3. hashed \in [RowIds -> {None} \union Backfill!Rows]
  <2>1. hashed = [i \in RowIds |-> hashed[i]]
    BY DEF Backfill!Init
  <2>2. \A i \in RowIds : hashed[i] \in {None} \union Backfill!Rows
    BY <1>2 DEF Backfill!Stored
  <2> QED BY <2>1, <2>2
<1>4. Backfill!TypeOK
  BY <1>1, <1>3 DEF Backfill!TypeOK
<1> QED BY <1>1, <1>2, <1>4
        DEF BackfillInv, OldHashesAreKnown, NothingIsInTheWay, GroupsAreServed,
            CleanIsServed, Unwritten

LEMMA BackfillNextInv == BackfillInv /\ [Backfill!Next]_backfillVars => BackfillInv'
<1> SUFFICES ASSUME BackfillInv, [Backfill!Next]_backfillVars PROVE BackfillInv'
  OBVIOUS
<1>1. CASE Backfill!Next
  <2>1. CASE Backfill!Plan
    BY <2>1, PlanningKeeps
  <2>2. CASE Backfill!WriteBatch
    BY <2>2, BatchKeeps
  <2>3. CASE Backfill!RetryRow
    BY <2>3, RetryKeeps
  <2>4. CASE Backfill!Finish
    BY <2>4, FinishKeeps
  <2>5. CASE Backfill!Stop
    BY <2>5, StopKeeps
  <2>6. CASE \E i \in RowIds : Backfill!Insert(i) \/ Backfill!Promote(i)
    BY <2>6, IngestionKeeps
  <2> QED BY <1>1, <2>1, <2>2, <2>3, <2>4, <2>5, <2>6 DEF Backfill!Next
<1>2. CASE UNCHANGED backfillVars
  <2>1. UNCHANGED <<hashed, stage, plan, retry, failed, duplicates, edited, quiet, clean>>
    BY <1>2 DEF backfillVars
  <2>2. /\ Backfill!Stored' = Backfill!Stored /\ Backfill!Stored \subseteq RowIds
        /\ Unwritten' = Unwritten
        /\ \A i \in RowIds : /\ Target(i)' = Target(i) /\ Backfill!Group(i)' = Backfill!Group(i)
                             /\ Serves(i)' = Serves(i)
    BY <2>1 DEF Backfill!Stored, Target, Backfill!NewHash, Backfill!Group, Serves, Unwritten
  <2>3. Backfill!Unique(hashed)' = Backfill!Unique(hashed)
    BY <2>1 DEF Backfill!Unique
  <2>4. Backfill!TypeOK'
    BY <2>1, <2>3 DEF BackfillInv, Backfill!TypeOK
  <2>5. OldHashesAreKnown' /\ NothingIsInTheWay'
    BY <2>1, <2>2 DEF BackfillInv, OldHashesAreKnown, NothingIsInTheWay
  <2>6. \A i \in Backfill!Stored : Backfill!Group(i) \subseteq RowIds
    BY <2>2 DEF Backfill!Group
  <2>7. GroupsAreServed' /\ CleanIsServed'
    BY <2>1, <2>2, <2>6 DEF BackfillInv, GroupsAreServed, CleanIsServed
  <2> QED BY <2>4, <2>5, <2>7 DEF BackfillInv
<1> QED BY <1>1, <1>2
-----------------------------------------------------------------------------
\* A step of the script that changes a row writes its planned hash or marks it.
LEMMA OnlyTouchedChange ==
    ASSUME BackfillInv, Backfill!Next, NEW i \in Backfill!Stored, i \notin edited'
    PROVE  /\ hashed'[i] # None /\ hashed'[i].url = hashed[i].url
           /\ hashed'[i].hash \in {hashed[i].hash, Target(i)}
<1> USE DEF BackfillInv
<1>1. i \in RowIds /\ hashed[i] # None
  BY DEF Backfill!Stored
<1>2. ASSUME NEW S \in SUBSET Unwritten, hashed' = Backfill!Written(S), edited' = edited
      PROVE  /\ hashed'[i] # None /\ hashed'[i].url = hashed[i].url
             /\ hashed'[i].hash \in {hashed[i].hash, Target(i)}
  <2>1. /\ hashed'[i] # None /\ hashed'[i].url = hashed[i].url
        /\ (\A e \in S : e.id # i) => hashed'[i] = hashed[i]
        /\ \A e \in S : e.id \in Backfill!Stored => hashed'[e.id].hash = e.hash
    BY <1>1, <1>2, BatchWritten
  <2>2. CASE \E e \in S : e.id = i
    BY <1>2, <2>1, <2>2 DEF OldHashesAreKnown
  <2>3. CASE \A e \in S : e.id # i
    BY <2>1, <2>3
  <2> QED BY <2>1, <2>2, <2>3
<1>3. CASE hashed' = hashed
  BY <1>1, <1>3
<1>4. CASE Backfill!WriteBatch
  <2>1. Backfill!Batch \in SUBSET Unwritten /\ edited' = edited
        /\ (hashed' = hashed \/ hashed' = Backfill!Written(Backfill!Batch))
    BY <1>4 DEF Backfill!WriteBatch, Backfill!Batch, Unwritten
  <2> QED BY <1>2, <1>3, <2>1
<1>5. CASE Backfill!RetryRow
  <2>1. PICK e \in retry : hashed' = hashed \/ hashed' = Backfill!Written({e})
    BY <1>5 DEF Backfill!RetryRow
  <2>2. {e} \in SUBSET Unwritten /\ edited' = edited
    BY <1>5 DEF Backfill!RetryRow, Unwritten
  <2> QED BY <1>2, <1>3, <2>1, <2>2
<1>6. CASE Backfill!Finish
  BY <1>1, <1>6, MarksKeep
<1>7. CASE \E j \in RowIds : Backfill!Insert(j) \/ Backfill!Promote(j)
  <2>1. PICK j \in RowIds : Backfill!Insert(j) \/ Backfill!Promote(j)
    BY <1>7
  <2>2. j \in edited' /\ \A k \in RowIds : k # j => hashed'[k] = hashed[k]
    BY <2>1 DEF Backfill!Insert, Backfill!Promote, Backfill!TypeOK
  <2> QED BY <1>1, <2>2
<1>8. CASE Backfill!Plan \/ Backfill!Stop
  BY <1>3, <1>8 DEF Backfill!Plan, Backfill!Stop
<1> QED BY <1>4, <1>5, <1>6, <1>7, <1>8 DEF Backfill!Next

\* A link whose hash a row has stays known, unless that row is one the ingestion touched.
LEMMA KnownLinksStay ==
    ASSUME BackfillInv, Backfill!Next, NEW link \in Links,
           Backfill!Known(link), ~Backfill!Known(link)'
    PROVE  \E i \in RowIds : hashed'[i] # hashed[i] /\ i \in edited'
<1> USE DEF BackfillInv
<1>1. PICK i \in Backfill!Stored : hashed[i].hash = Normal[link]
  BY DEF Backfill!Known
<1>2. i \in RowIds
  BY DEF Backfill!Stored
<1>3. hashed'[i] = None \/ hashed'[i].hash # Normal[link]
  BY <1>2 DEF Backfill!Known, Backfill!Stored
<1>4. i \in edited'
  <2> SUFFICES ASSUME i \notin edited' PROVE FALSE
    OBVIOUS
  <2>1. /\ hashed'[i] # None /\ hashed'[i].hash \in {hashed[i].hash, Target(i)}
    BY OnlyTouchedChange
  <2>2. Target(i) # Normal[link]
    BY <1>1, <1>3, <2>1
  <2>3. edited \subseteq edited'
    BY DEF Backfill!Next, Backfill!Plan, Backfill!WriteBatch, Backfill!RetryRow,
           Backfill!Finish, Backfill!Stop, Backfill!Insert, Backfill!Promote
  <2>4. hashed[i].hash \in {hashed[i].url, Target(i)}
    BY <2>3 DEF OldHashesAreKnown
  <2>5. hashed[i].url = Normal[link]
    BY <1>1, <2>2, <2>4
  <2> QED BY <2>2, <2>5, BackfillAssumption DEF Target, Backfill!NewHash
<1> QED BY <1>1, <1>2, <1>3, <1>4 DEF Backfill!Stored

\* A row is marked while another one of its group has the hash.
LEMMA MarkedHaveAnother ==
    ASSUME BackfillInv, Backfill!Next, NEW i \in Backfill!Stored, edited = {},
           hashed'[i].marked, ~hashed[i].marked
    PROVE  \E j \in Backfill!Stored \ {i} : hashed'[j].hash = Target(i)
<1> USE DEF BackfillInv
<1>1. i \in RowIds /\ hashed[i] # None
  BY DEF Backfill!Stored
<1>2. hashed' # hashed
  OBVIOUS
<1>3. ASSUME NEW S \in SUBSET Unwritten, hashed' = Backfill!Written(S) PROVE FALSE
  BY <1>3, BatchWritten
<1>4. ~Backfill!WriteBatch
  <2> SUFFICES ASSUME Backfill!WriteBatch PROVE FALSE
    OBVIOUS
  <2>1. Backfill!Batch \in SUBSET Unwritten /\ hashed' = Backfill!Written(Backfill!Batch)
    BY <1>2 DEF Backfill!WriteBatch, Backfill!Batch, Unwritten
  <2> QED BY <1>3, <2>1
<1>5. ~Backfill!RetryRow
  BY DEF Backfill!RetryRow, NothingIsInTheWay
<1>6. ASSUME NEW j \in RowIds, Backfill!Insert(j) \/ Backfill!Promote(j) PROVE FALSE
  <2>1. CASE j # i
    BY <1>1, <1>6, <2>1 DEF Backfill!Insert, Backfill!Promote, Backfill!TypeOK
  <2>2. CASE j = i
    <3>1. PICK link \in Links :
            hashed' = [hashed EXCEPT ![i].url = link, ![i].hash = Normal[link]]
      BY <1>1, <1>6, <2>2 DEF Backfill!Insert, Backfill!Promote
    <3>2. hashed'[i] = [[hashed[i] EXCEPT !.url = link] EXCEPT !.hash = Normal[link]]
      BY <1>1, <3>1 DEF Backfill!TypeOK
    <3>3. hashed[i] \in Backfill!Rows
      BY <1>1 DEF Backfill!TypeOK
    <3> QED BY <3>2, <3>3 DEF Backfill!Rows
  <2> QED BY <2>1, <2>2
<1>7. Backfill!Finish
  BY <1>2, <1>4, <1>5, <1>6 DEF Backfill!Next, Backfill!Plan, Backfill!Stop
<1>8. /\ stage = "write" /\ plan = {} /\ retry = {} /\ i \in duplicates
      /\ \A j \in Backfill!Stored : hashed'[j].hash = hashed[j].hash
  BY <1>7, MarksKeep
<1>9. PICK j \in Backfill!Group(i) \ {i} : Serves(j)
  BY <1>8 DEF GroupsAreServed
<1>10. hashed[j].hash = Target(j)
  BY <1>8, <1>9 DEF Serves, Unwritten
<1>11. j \in Backfill!Stored /\ Target(j) = Target(i)
  BY <1>9, GroupFacts
<1> QED BY <1>8, <1>9, <1>10, <1>11

\* HashBackfill: the backfill of link hashes, beside the ingestion, makes no link unknown
\* to the duplicate gate whose rows the ingestion has left alone; alone it writes all it
\* planned, whatever the batches and wherever it was stopped; after a clean run each link is
\* known and nothing is left to do (build_plan, _apply_updates, run_backfill).
THEOREM BackfillTheorem == OneSpec => BackfillIsSafe
<1>1. OneInit => BackfillInv
  BY BackfillInitInv DEF OneInit
<1>2. [OneNext]_allVars => [Backfill!Next]_backfillVars
  BY DEF OneNext, allVars
<1>3. BackfillInv /\ [OneNext]_allVars => BackfillInv'
  BY <1>2, BackfillNextInv
<1>4. BackfillInv /\ BackfillInv' /\ [OneNext]_allVars
        => [active = "backfill" => Backfill!SoundStep]_backfillVars
  <2> SUFFICES ASSUME BackfillInv, BackfillInv', Backfill!Next PROVE Backfill!SoundStep
    BY <1>2
  <2>1. Backfill!TypeOK'
    BY DEF BackfillInv
  <2>2. \A link \in Links : Backfill!Known(link) /\ ~Backfill!Known(link)' =>
          \E i \in RowIds : hashed'[i] # hashed[i] /\ i \in edited'
    BY KnownLinksStay
  <2>3. failed' # failed => edited # {}
    <3> SUFFICES ASSUME edited = {} PROVE failed' = failed
      OBVIOUS
    <3>1. failed = {} /\ retry = {}
      BY DEF BackfillInv, NothingIsInTheWay
    <3> QED BY <3>1
            DEF Backfill!Next, Backfill!Plan, Backfill!WriteBatch, Backfill!RetryRow,
                Backfill!Finish, Backfill!Stop, Backfill!Insert, Backfill!Promote
  <2>4. clean' => \A i \in Backfill!Stored' :
          \E j \in Backfill!Stored' : hashed'[j].hash = Target(i)'
    <3> SUFFICES ASSUME clean', NEW i \in Backfill!Stored'
                 PROVE  \E j \in Backfill!Stored' : hashed'[j].hash = Target(i)'
      OBVIOUS
    <3>1. PICK j \in Backfill!Group(i)' : hashed'[j].hash = Target(j)'
      BY DEF BackfillInv, CleanIsServed
    <3>2. j \in Backfill!Stored' /\ Target(j)' = Target(i)'
      BY <3>1 DEF Backfill!Group, Target
    <3> QED BY <3>1, <3>2
  <2>5. clean' /\ ~clean => \A i \in Backfill!Stored : Backfill!Known(hashed[i].url)'
    <3>1. ASSUME clean', ~clean PROVE Backfill!Stored' = Backfill!Stored
      <4>1. Backfill!Finish
        BY <3>1 DEF Backfill!Next, Backfill!Plan, Backfill!WriteBatch, Backfill!RetryRow,
                    Backfill!Finish, Backfill!Stop, Backfill!Insert, Backfill!Promote
      <4> QED BY <4>1, MarksKeep DEF Backfill!Stored
    <3> QED BY <2>4, <3>1 DEF Backfill!Known, Target, Backfill!NewHash
  <2>6. clean /\ runs' # runs => plan' = {}
    <3> SUFFICES ASSUME clean, runs' # runs PROVE plan' = {}
      OBVIOUS
    <3>1. Backfill!Plan
      BY DEF Backfill!Next, Backfill!Plan, Backfill!WriteBatch, Backfill!RetryRow,
             Backfill!Finish, Backfill!Stop, Backfill!Insert, Backfill!Promote
    <3>2. SUFFICES ASSUME NEW e \in plan' PROVE FALSE
      OBVIOUS
    <3>3. /\ e.id \in Backfill!Stored /\ e.id = Backfill!Primary(Backfill!Group(e.id))
          /\ hashed[e.id].hash # Target(e.id)
      BY <3>1, PlanFacts
    <3>4. PICK j \in Backfill!Group(e.id) : hashed[j].hash = Target(j)
      BY <3>3 DEF BackfillInv, CleanIsServed
    <3> QED BY <3>3, <3>4, PrimaryFacts DEF BackfillInv
  <2>7. \A i \in Backfill!Stored : hashed'[i].marked /\ ~hashed[i].marked /\ edited = {} =>
          \E j \in Backfill!Stored \ {i} : hashed'[j].hash = Target(i)
    BY MarkedHaveAnother
  <2> QED BY <2>1, <2>2, <2>3, <2>5, <2>6, <2>7 DEF Backfill!SoundStep, Target
<1> QED BY <1>1, <1>3, <1>4, PTL DEF OneSpec, BackfillIsSafe
=============================================================================
