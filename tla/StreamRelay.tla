------------------------------ MODULE StreamRelay ------------------------------
(***************************************************************************)
(* One Redis stream between the web process and the pipeline process (any  *)
(* number of processes here). A publishing process hands its event to its  *)
(* own subscribers and appends it to the stream; every process polls the   *)
(* stream from its own position and injects the others' events into its    *)
(* local bus (RedisStreamPublisher, RedisStreamConsumer).                  *)
(*                                                                         *)
(* Streams are independent of each other, so one is enough. Entry i of the *)
(* stream has id i; entries up to trimmed have been dropped by MAXLEN. A   *)
(* position that is still "$" is resolved[p] = FALSE.                      *)
(***************************************************************************)
EXTENDS Naturals, Sequences

CONSTANTS
  Procs,       \* processes, each with a publisher and a consumer thread
  MaxLen,      \* MAXLEN of the stream
  Count,       \* entries read by one XREAD
  MaxEvents,   \* bound: entries ever appended
  MaxStarts,   \* bound for each process: its starts, the first included
  MaxOutages   \* bound: outages of the Redis server

ASSUME RelayAssumption ==
  /\ MaxLen \in Nat /\ Count \in Nat \ {0}
  /\ MaxEvents \in Nat /\ MaxStarts \in [Procs -> Nat] /\ MaxOutages \in Nat

VARIABLES
  stream,     \* entries [by: process, run: its incarnation]
  trimmed,    \* number of oldest entries dropped from the stream
  redisUp, outages,
  run,        \* incarnation of each process; 0 before its first start
  alive,      \* is the process running
  resolved,   \* has the consumer turned "$" into an explicit id
  lastId,     \* the consumer's position once resolved
  inbox,      \* ids returned by XREAD and not handled yet
  injected,   \* history: ids injected since the process started
  base,       \* history: the position "$" was resolved to
  missed,     \* history: ids trimmed before the consumer could read them
  backlog     \* history: length of the stream when the process started

serverVars == <<stream, trimmed, redisUp, outages>>
history    == <<base, missed, backlog>>
vars == <<serverVars, run, alive, resolved, lastId, inbox, injected, history>>

Ids == 1..MaxEvents
Entry == [by : Procs, run : Nat \ {0}]

TypeOK ==
  /\ stream \in Seq(Entry) /\ Len(stream) \in 0..MaxEvents
  /\ trimmed \in 0..Len(stream)
  /\ redisUp \in BOOLEAN /\ outages \in 0..MaxOutages
  /\ run \in [Procs -> Nat] /\ \A p \in Procs : run[p] <= MaxStarts[p]
  /\ alive \in [Procs -> BOOLEAN]
  /\ resolved \in [Procs -> BOOLEAN]
  /\ lastId \in [Procs -> 0..MaxEvents]
  /\ inbox \in [Procs -> Seq(Ids)]
  /\ injected \in [Procs -> Seq(Ids)]
  /\ base \in [Procs -> 0..MaxEvents]
  /\ missed \in [Procs -> SUBSET Ids]
  /\ backlog \in [Procs -> 0..MaxEvents]

Own(p, i) == stream[i] = [by |-> p, run |-> run[p]]

Init ==
  /\ stream = <<>> /\ trimmed = 0 /\ redisUp = TRUE /\ outages = 0
  /\ run = [p \in Procs |-> 0]
  /\ alive = [p \in Procs |-> FALSE]
  /\ resolved = [p \in Procs |-> FALSE]
  /\ lastId = [p \in Procs |-> 0]
  /\ inbox = [p \in Procs |-> <<>>]
  /\ injected = [p \in Procs |-> <<>>]
  /\ base = [p \in Procs |-> 0]
  /\ missed = [p \in Procs |-> {}]
  /\ backlog = [p \in Procs |-> 0]

(***************************************************************************)
(* Processes and publishers                                                *)
(***************************************************************************)
\* build_event_bus makes a new publisher id; the consumer thread starts at "$".
Start(p) ==
  /\ ~alive[p] /\ run[p] < MaxStarts[p]
  /\ alive' = [alive EXCEPT ![p] = TRUE]
  /\ run' = [run EXCEPT ![p] = @ + 1]
  /\ backlog' = [backlog EXCEPT ![p] = Len(stream)]
  /\ UNCHANGED <<serverVars, resolved, lastId, inbox, injected, base, missed>>

\* The process dies with its position, whatever it was about to inject included.
Crash(p) ==
  /\ alive[p]
  /\ alive' = [alive EXCEPT ![p] = FALSE]
  /\ resolved' = [resolved EXCEPT ![p] = FALSE]
  /\ lastId' = [lastId EXCEPT ![p] = 0]
  /\ inbox' = [inbox EXCEPT ![p] = <<>>]
  /\ injected' = [injected EXCEPT ![p] = <<>>]
  /\ base' = [base EXCEPT ![p] = 0]
  /\ missed' = [missed EXCEPT ![p] = {}]
  /\ UNCHANGED <<serverVars, run, backlog>>

\* XADD with an approximate MAXLEN: the server may or may not trim now. While
\* Redis is down the event reaches local subscribers only, nothing changes here.
Publish(p) ==
  /\ alive[p] /\ redisUp
  /\ Len(stream) < MaxEvents
  /\ stream' = Append(stream, [by |-> p, run |-> run[p]])
  /\ \E t \in trimmed..(Len(stream) + 1) :
       /\ t = trimmed \/ Len(stream) + 1 - t >= MaxLen
       /\ trimmed' = t
  /\ UNCHANGED <<redisUp, outages, run, alive, resolved, lastId, inbox, injected, history>>

(***************************************************************************)
(* The consumer thread                                                     *)
(***************************************************************************)

\* resolve_initial_ids: the last generated id, or "0-0" when XINFO raises, be it
\* for a stream that does not exist or for a server that cannot be reached.
ResolveInitialId(p) ==
  /\ alive[p] /\ ~resolved[p]
  /\ LET from == IF redisUp THEN Len(stream) ELSE 0 IN
       /\ lastId' = [lastId EXCEPT ![p] = from]
       /\ base' = [base EXCEPT ![p] = from]
  /\ resolved' = [resolved EXCEPT ![p] = TRUE]
  /\ UNCHANGED <<serverVars, run, alive, inbox, injected, missed, backlog>>

\* What XREAD can return to p: entries after its position that still exist.
Readable(p) == {i \in DOMAIN stream : i > trimmed /\ i > lastId[p]}

\* Mutation of Poll: the newest entry instead of the oldest ones.
PollNewest(p) ==
  /\ alive[p] /\ resolved[p] /\ redisUp
  /\ inbox[p] = <<>>
  /\ Readable(p) # {}
  /\ inbox' = [inbox EXCEPT ![p] = <<Len(stream)>>]
  /\ UNCHANGED <<serverVars, run, alive, resolved, lastId, injected, history>>

\* poll_once, the XREAD: the oldest Count readable entries, in stream order.
Poll(p) ==
  /\ alive[p] /\ resolved[p] /\ redisUp
  /\ inbox[p] = <<>>
  /\ Readable(p) # {}
  /\ LET first == CHOOSE i \in Readable(p) : \A j \in Readable(p) : i <= j
         n     == IF Len(stream) - first + 1 < Count THEN Len(stream) - first + 1 ELSE Count
     IN /\ inbox' = [inbox EXCEPT ![p] = [k \in 1..n |-> first + k - 1]]
        /\ missed' = [missed EXCEPT ![p] = @ \cup {i \in Ids : lastId[p] < i /\ i < first}]
  /\ UNCHANGED <<serverVars, run, alive, resolved, lastId, injected, base, backlog>>

\* Mutation of HandleEntry: the position jumps to the end of the XREAD reply at once.
HandleAhead(p) ==
  /\ alive[p] /\ inbox[p] # <<>>
  /\ LET i == Head(inbox[p]) IN
       /\ lastId' = [lastId EXCEPT ![p] = inbox[p][Len(inbox[p])]]
       /\ injected' = [injected EXCEPT ![p] = IF Own(p, i) THEN @ ELSE Append(@, i)]
  /\ inbox' = [inbox EXCEPT ![p] = Tail(@)]
  /\ UNCHANGED <<serverVars, run, alive, resolved, history>>

\* poll_once, one entry: the position moves first, then _handle_entry skips the
\* process's own events and injects the others into the local bus.
HandleEntry(p) ==
  /\ alive[p] /\ inbox[p] # <<>>
  /\ LET i == Head(inbox[p]) IN
       /\ lastId' = [lastId EXCEPT ![p] = i]
       /\ injected' = [injected EXCEPT ![p] = IF Own(p, i) THEN @ ELSE Append(@, i)]
  /\ inbox' = [inbox EXCEPT ![p] = Tail(@)]
  /\ UNCHANGED <<serverVars, run, alive, resolved, history>>

(***************************************************************************)
(* The server                                                              *)
(***************************************************************************)
Outage ==
  /\ redisUp /\ outages < MaxOutages
  /\ redisUp' = FALSE
  /\ outages' = outages + 1
  /\ UNCHANGED <<stream, trimmed, run, alive, resolved, lastId, inbox, injected, history>>

Recover ==
  /\ ~redisUp
  /\ redisUp' = TRUE
  /\ UNCHANGED <<stream, trimmed, outages, run, alive, resolved, lastId, inbox, injected, history>>

Consumer(p) == ResolveInitialId(p) \/ Poll(p) \/ HandleEntry(p)

Next ==
  \/ \E p \in Procs : Start(p) \/ Crash(p) \/ Publish(p) \/ Consumer(p)
  \/ Outage
  \/ Recover

\* The consumer loop runs while its process does; an unreachable server is
\* eventually reachable again.
Fairness ==
  /\ \A p \in Procs : WF_vars(Consumer(p))
  /\ WF_vars(Recover)

Spec == Init /\ [][Next]_vars /\ Fairness

-----------------------------------------------------------------------------
(***************************************************************************)
(* Properties                                                              *)
(***************************************************************************)
\* What one incarnation injects is in stream order, without repetition, and never
\* one of its own events, which its subscribers have had already: a slow or
\* interrupted poll neither reorders nor repeats events.
InOrderOnce ==
  \A p \in Procs : \A k \in DOMAIN injected[p] :
    /\ ~Own(p, injected[p][k])
    /\ \A l \in DOMAIN injected[p] : k < l => injected[p][k] < injected[p][l]

\* Everything between the resolved position and the current one was injected,
\* was the process's own, or had been trimmed: the consumer skips nothing.
NoGap ==
  \A p \in Procs : resolved[p] =>
    \A i \in base[p] + 1 .. lastId[p] :
      \/ Own(p, i)
      \/ i \in missed[p]
      \/ \E k \in DOMAIN injected[p] : injected[p][k] = i

\* As long as the server can be reached, a consumer that starts late leaves the backlog
\* alone, and what its own process published before it was restarted, too.
BacklogLeft ==
  outages = 0 =>
    \A p \in Procs : \A k \in DOMAIN injected[p] : injected[p][k] > backlog[p]

\* One incarnation injects the events in order, once each, without a gap, and
\* without the backlog.
RelayedInOrder == TypeOK /\ InOrderOnce /\ NoGap /\ BacklogLeft

\* An event another process appends while this one is listening reaches it, or
\* is trimmed, or this process dies.
EventuallyRelayed ==
  \A p \in Procs, i \in Ids :
    (/\ alive[p] /\ resolved[p] /\ base[p] < i
     /\ i \in DOMAIN stream /\ i > trimmed /\ ~Own(p, i))
      ~> \/ \E k \in DOMAIN injected[p] : injected[p][k] = i
         \/ i <= trimmed
         \/ ~alive[p]
=============================================================================
