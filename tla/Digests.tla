--------------------------------- MODULE Digests ---------------------------------
(***************************************************************************)
(* The digests before and after the market (workers/digest_worker.py) and  *)
(* their generation (services/digest_service.py), by the worker or by      *)
(* POST /digest/generate.  Each time zone has its own day.  A generation   *)
(* takes a while: the latest digest is set, then written to a file, in the *)
(* order in which the generations end.                                     *)
(***************************************************************************)
EXTENDS Naturals, Sequences, FiniteSets

CONSTANTS
    Slots,        \* the sequence of (market, phase), in the order of the checks
    Offset,       \* Offset[s]: of the zone to UTC
    Target,       \* Target[s]: local time of the day
    DayLength, Grace, TickEvery,
    Requests,     \* POST /digest/generate
    MaxNow, MaxRestarts,
    None

VARIABLES
    now,
    fired,        \* fired[s]: the local date, or None
    cycle,        \* None, or the time the cycle read and the slots it has left
    waited,       \* since the worker's last cycle
    generation,   \* generation[p]: what the worker or a request is generating
    latest, file, \* the digest in memory and the one in latest_digest.json
    asked,        \* requests made, a bound
    restarts,
    triggered,    \* history: triggered[s]: the local dates
    since,        \* history: of each slot, whether it was idle and up since its target
    overlapped    \* history: two generations ran together, or one was not written

vars == <<now, fired, cycle, waited, generation, latest, file, asked, restarts,
          triggered, since, overlapped>>

SlotNames == {Slots[i] : i \in DOMAIN Slots}
Worker == "worker"
Makers == {Worker} \union Requests

Cycles == [at : Nat, left : Seq(SlotNames)]
Generations == [market : SlotNames \union {"all"}, at : Nat, pc : {"ask", "write"}]

LocalDate(s, t) == (t + Offset[s]) \div DayLength
LocalTime(s, t) == (t + Offset[s]) % DayLength
InWindow(s, t) == LocalTime(s, t) >= Target[s] /\ LocalTime(s, t) < Target[s] + Grace

Init ==
    /\ now = 0 /\ fired = [s \in SlotNames |-> None]
    /\ cycle = None /\ waited = 0
    /\ generation = [p \in Makers |-> None]
    /\ latest = None /\ file = None
    /\ asked = {} /\ restarts = 0
    /\ triggered = [s \in SlotNames |-> {}]
    /\ since = [s \in SlotNames |-> FALSE]
    /\ overlapped = FALSE

-----------------------------------------------------------------------------
StartCycle ==
    /\ cycle = None
    /\ cycle' = [at |-> now, left |-> Slots]
    /\ waited' = 0
    /\ UNCHANGED <<now, fired, generation, latest, file, asked, restarts, triggered, since, overlapped>>

Running == {p \in Makers : generation[p] # None}

\* generate_digest reads the news, then calls the LLM.
Generate(p, market) ==
    /\ generation' = [generation EXCEPT ![p] = [market |-> market, at |-> now, pc |-> "ask"]]
    /\ overlapped' = (overlapped \/ Running # {})

\* Mutation of Due: any time after the target will do.
DueLate(s, t) == fired[s] # LocalDate(s, t) /\ LocalTime(s, t) >= Target[s]

Due(s, t) == fired[s] # LocalDate(s, t) /\ InWindow(s, t)

\* What is due is noted as fired before it is generated.
CheckSlot ==
    /\ cycle # None /\ generation[Worker] = None
    /\ cycle.left # <<>>
    /\ LET s == Head(cycle.left)
       IN  IF Due(s, cycle.at)
           THEN /\ fired' = [fired EXCEPT ![s] = LocalDate(s, cycle.at)]
                /\ triggered' = [triggered EXCEPT ![s] = @ \union {LocalDate(s, cycle.at)}]
                /\ Generate(Worker, s)
           ELSE UNCHANGED <<fired, triggered, generation, overlapped>>
    /\ cycle' = [cycle EXCEPT !.left = Tail(@)]
    /\ UNCHANGED <<now, waited, latest, file, asked, restarts, since>>

EndCycle ==
    /\ cycle # None /\ cycle.left = <<>> /\ generation[Worker] = None
    /\ cycle' = None
    /\ UNCHANGED <<now, fired, waited, generation, latest, file, asked, restarts, triggered, since, overlapped>>

Request ==
    /\ \E p \in Requests \ asked :
         /\ Generate(p, "all")
         /\ asked' = asked \union {p}
    /\ UNCHANGED <<now, fired, cycle, waited, latest, file, restarts, triggered, since>>

\* The LLM's sections, or the rules': there always is a digest.
SetLatest(p) ==
    /\ generation[p] # None /\ generation[p].pc = "ask"
    /\ latest' = [market |-> generation[p].market, at |-> generation[p].at]
    /\ generation' = [generation EXCEPT ![p].pc = "write"]
    /\ UNCHANGED <<now, fired, cycle, waited, file, asked, restarts, triggered, since, overlapped>>

\* A write that fails is logged.
WriteSnapshot(p) ==
    /\ generation[p] # None /\ generation[p].pc = "write"
    /\ \/ file' = [market |-> generation[p].market, at |-> generation[p].at] /\ UNCHANGED overlapped
       \/ overlapped' = TRUE /\ UNCHANGED file
    /\ generation' = [generation EXCEPT ![p] = None]
    /\ UNCHANGED <<now, fired, cycle, waited, latest, asked, restarts, triggered, since>>

\* Reading the news fails: the worker logs it, a request answers 500.
GenerationFails(p) ==
    /\ generation[p] # None /\ generation[p].pc = "ask"
    /\ generation' = [generation EXCEPT ![p] = None]
    /\ UNCHANGED <<now, fired, cycle, waited, latest, file, asked, restarts, triggered, since, overlapped>>

\* The worker's thread waits no longer than its tick.
Tick ==
    /\ now < MaxNow
    /\ cycle = None => waited < TickEvery
    /\ cycle # None => generation[Worker] # None
    /\ now' = now + 1
    /\ waited' = IF cycle = None THEN waited + 1 ELSE waited
    /\ since' = [s \in SlotNames |->
                   cycle = None /\ (since[s] \/ LocalTime(s, now) = Target[s])]
    /\ UNCHANGED <<fired, cycle, generation, latest, file, asked, restarts, triggered, overlapped>>

\* What was fired, and the latest digest, are forgotten; the file is not read again.
Restart ==
    /\ restarts < MaxRestarts
    /\ restarts' = restarts + 1
    /\ fired' = [s \in SlotNames |-> None]
    /\ cycle' = None /\ waited' = 0
    /\ generation' = [p \in Makers |-> None]
    /\ latest' = None
    /\ overlapped' = TRUE
    /\ since' = [s \in SlotNames |-> FALSE]
    /\ UNCHANGED <<now, file, asked, triggered>>

Next ==
    \/ StartCycle \/ CheckSlot \/ EndCycle \/ Request
    \/ \E p \in Makers : SetLatest(p) \/ WriteSnapshot(p) \/ GenerationFails(p)
    \/ Tick \/ Restart

Spec == Init /\ [][Next]_vars

-----------------------------------------------------------------------------
TypeOK ==
    /\ now \in Nat /\ waited \in Nat /\ restarts \in Nat /\ cycle \in {None} \union Cycles
    /\ fired \in [SlotNames -> {None} \union Nat]
    /\ triggered \in [SlotNames -> SUBSET Nat]
    /\ since \in [SlotNames -> BOOLEAN]
    /\ generation \in [Makers -> {None} \union Generations]
    /\ \A s \in SlotNames : fired[s] # None => fired[s] \in triggered[s]
    /\ cycle = None => generation[Worker] = None
    /\ Running \subseteq {Worker} \union asked

Closes(s) == LocalTime(s, now') = Target[s] + Grace /\ now' # now

\* A digest is triggered once a day and only close to its time, unless the process
\* restarts; and it is triggered, when its window closes, if the worker was up and free
\* all the time.  The file has the latest digest unless generations overlapped.
SoundStep ==
    /\ TypeOK'
    /\ \A s \in SlotNames : triggered'[s] # triggered[s] => InWindow(s, cycle.at)
    /\ \A s \in SlotNames : fired'[s] # fired[s] /\ fired'[s] # None /\ restarts = 0 =>
         triggered'[s] # triggered[s]
    /\ \A s \in SlotNames : Closes(s) /\ since'[s] => LocalDate(s, now) \in triggered[s]
    /\ Running = {} /\ ~overlapped => file = latest

DigestsAreSound == [][SoundStep]_vars
=============================================================================
