------------------------- MODULE StreamRelay_proofs -------------------------
(***************************************************************************)
(* A consumer of the relayed stream injects the others' events in order,   *)
(* once, without a gap and without the backlog (StreamRelay), for every    *)
(* set of processes and every MAXLEN and COUNT.                            *)
(***************************************************************************)
EXTENDS StreamRelay, TLAPS

\* A consumer that has no position has no reply and has injected nothing; one that
\* has is alive and stands between where it began and the end of the stream.
PositionSound(p) ==
  /\ alive[p] => run[p] > 0
  /\ resolved[p] => alive[p]
  /\ ~resolved[p] => lastId[p] = 0 /\ base[p] = 0 /\ inbox[p] = <<>> /\ injected[p] = <<>>
  /\ base[p] <= lastId[p] /\ lastId[p] <= Len(stream)
  /\ backlog[p] <= Len(stream)

\* A reply to XREAD that is being handled has consecutive ids, and what lies between
\* the position and its first id had been trimmed.
ReplyContinues(p) ==
  \A k \in DOMAIN inbox[p] :
    /\ inbox[p][k] = inbox[p][1] + k - 1
    /\ lastId[p] < inbox[p][k] /\ inbox[p][k] <= Len(stream)
    /\ \A i \in Ids : lastId[p] < i /\ i < inbox[p][1] => i \in missed[p]

\* What was injected lies between where the consumer began and its position.
InjectedBehind(p) ==
  \A k \in DOMAIN injected[p] : base[p] < injected[p][k] /\ injected[p][k] <= lastId[p]

\* While no outage has been, a consumer begins no earlier than its process did.
BeganLate(p) == outages = 0 /\ resolved[p] => backlog[p] <= base[p]

\* InOrderOnce and NoGap of one process.
Ordered(p) ==
  \A k \in DOMAIN injected[p] :
    /\ ~Own(p, injected[p][k])
    /\ \A l \in DOMAIN injected[p] : k < l => injected[p][k] < injected[p][l]

Gapless(p) ==
  resolved[p] =>
    \A i \in base[p] + 1 .. lastId[p] :
      \/ Own(p, i)
      \/ i \in missed[p]
      \/ \E k \in DOMAIN injected[p] : injected[p][k] = i

Sound(p) ==
  /\ PositionSound(p) /\ ReplyContinues(p) /\ InjectedBehind(p) /\ BeganLate(p)
  /\ Ordered(p) /\ Gapless(p)

IInv == TypeOK /\ (outages = 0 => redisUp) /\ \A p \in Procs : Sound(p)

\* Steps that do not move a consumer, and those that only add to the stream.
SameConsumer(p) ==
  /\ alive'[p] = alive[p] /\ run'[p] = run[p] /\ resolved'[p] = resolved[p]
  /\ lastId'[p] = lastId[p] /\ base'[p] = base[p] /\ inbox'[p] = inbox[p]
  /\ injected'[p] = injected[p] /\ missed'[p] = missed[p] /\ backlog'[p] = backlog[p]

StreamGrows ==
  /\ Len(stream') \in Nat /\ Len(stream) <= Len(stream')
  /\ \A i \in 1..Len(stream) : stream'[i] = stream[i]
  /\ outages' = 0 => outages = 0

-----------------------------------------------------------------------------
\* The numbers and the sequences of ids that the types speak of.
LEMMA TypeFacts ==
  ASSUME TypeOK, NEW p \in Procs
  PROVE  /\ Len(stream) \in Nat /\ Len(stream) <= MaxEvents /\ trimmed \in 0..Len(stream)
         /\ DOMAIN stream = 1..Len(stream)
         /\ lastId[p] \in Nat /\ base[p] \in Nat /\ backlog[p] \in Nat /\ run[p] \in Nat
         /\ DOMAIN inbox[p] = 1..Len(inbox[p]) /\ Len(inbox[p]) \in Nat
         /\ \A k \in DOMAIN inbox[p] : inbox[p][k] \in Nat /\ inbox[p][k] \in 1..MaxEvents
         /\ DOMAIN injected[p] = 1..Len(injected[p]) /\ Len(injected[p]) \in Nat
         /\ \A k \in DOMAIN injected[p] : injected[p][k] \in Nat /\ injected[p][k] \in 1..MaxEvents
<1> USE RelayAssumption DEF TypeOK, Ids
<1>1. stream \in Seq(Entry) /\ inbox[p] \in Seq(Ids) /\ injected[p] \in Seq(Ids)
  OBVIOUS
<1>2. \A k \in DOMAIN inbox[p] : inbox[p][k] \in Ids
  BY <1>1
<1>3. \A k \in DOMAIN injected[p] : injected[p][k] \in Ids
  BY <1>1
<1>4. /\ DOMAIN stream = 1..Len(stream) /\ DOMAIN inbox[p] = 1..Len(inbox[p])
      /\ DOMAIN injected[p] = 1..Len(injected[p])
      /\ Len(inbox[p]) \in Nat /\ Len(injected[p]) \in Nat
  BY <1>1
<1> QED BY <1>2, <1>3, <1>4

\* A stream that stays as it is has not shrunk.
LEMMA StreamStays == IInv /\ UNCHANGED <<stream, outages>> => StreamGrows
BY TypeFacts, RelayAssumption DEF IInv, TypeOK, StreamGrows

\* The invariant contains what is promised.
LEMMA IInvSuffices == IInv => RelayedInOrder
<1> SUFFICES ASSUME IInv PROVE RelayedInOrder
  OBVIOUS
<1>1. InOrderOnce
  BY DEF IInv, Sound, Ordered, InOrderOnce
<1>2. NoGap
  BY DEF IInv, Sound, Gapless, NoGap
<1>3. BacklogLeft
  <2> SUFFICES ASSUME outages = 0, NEW p \in Procs, NEW k \in DOMAIN injected[p]
               PROVE  injected[p][k] > backlog[p]
    BY DEF BacklogLeft
  <2>1. PositionSound(p) /\ InjectedBehind(p) /\ BeganLate(p)
    BY DEF IInv, Sound
  <2>2. resolved[p]
    BY <2>1 DEF PositionSound
  <2>3. backlog[p] <= base[p] /\ base[p] < injected[p][k]
    BY <2>1, <2>2 DEF BeganLate, InjectedBehind
  <2>4. backlog[p] \in Nat /\ base[p] \in Nat /\ injected[p][k] \in Nat
    BY TypeFacts DEF IInv
  <2> QED BY <2>3, <2>4
<1> QED BY <1>1, <1>2, <1>3 DEF IInv, RelayedInOrder

\* Nothing has been started.
LEMMA InitIInv == Init => IInv
<1> SUFFICES ASSUME Init PROVE IInv
  OBVIOUS
<1> USE RelayAssumption DEF Init
<1>1. TypeOK
  BY DEF TypeOK, Entry, Ids
<1>2. ASSUME NEW p \in Procs PROVE Sound(p)
  BY DEF Sound, PositionSound, ReplyContinues, InjectedBehind, BeganLate, Ordered, Gapless
<1> QED BY <1>1, <1>2 DEF IInv

\* What is true of a consumer stays true as long as nothing happens but that
\* the stream grows, is trimmed or is out of reach.
LEMMA Undisturbed ==
  ASSUME TypeOK, NEW p \in Procs, Sound(p), StreamGrows, SameConsumer(p)
  PROVE  Sound(p)'
<1> USE TypeFacts DEF Sound, StreamGrows, SameConsumer
<1>1. PositionSound(p)'
  BY DEF PositionSound
<1>2. ReplyContinues(p)'
  BY DEF ReplyContinues, Ids
<1>3. InjectedBehind(p)' /\ BeganLate(p)'
  BY DEF InjectedBehind, BeganLate
<1>4. \A i \in 1..lastId[p] : Own(p, i)' <=> Own(p, i)
  BY DEF Own, PositionSound
<1>5. Ordered(p)'
  <2> SUFFICES ASSUME NEW k \in DOMAIN injected[p] PROVE injected[p][k] \in 1..lastId[p]
    BY <1>4 DEF Ordered
  <2> QED BY DEF InjectedBehind, Ids
<1>6. Gapless(p)'
  <2> SUFFICES ASSUME resolved[p], NEW i \in base[p] + 1 .. lastId[p]
               PROVE  Own(p, i)' \/ i \in missed[p] \/ \E k \in DOMAIN injected[p] : injected[p][k] = i
    BY DEF Gapless
  <2>1. i \in 1..lastId[p]
    OBVIOUS
  <2> QED BY <1>4, <2>1 DEF Gapless
<1> QED BY <1>1, <1>2, <1>3, <1>5, <1>6

\* A process starts with a consumer that has no position.
LEMMA StartKeeps ==
  ASSUME IInv, NEW p \in Procs, Start(p) PROVE IInv'
<1> USE RelayAssumption DEF IInv, Start, serverVars
<1>1. TypeOK'
  <2>1. run' \in [Procs -> Nat] /\ \A q \in Procs : run'[q] <= MaxStarts[q]
    <3>1. /\ run \in [Procs -> Nat] /\ MaxStarts \in [Procs -> Nat] /\ run[p] < MaxStarts[p]
          /\ \A q \in Procs : run[q] <= MaxStarts[q]
          /\ run' = [run EXCEPT ![p] = @ + 1]
      BY DEF TypeOK
    <3> QED BY <3>1
  <2>2. alive' \in [Procs -> BOOLEAN] /\ backlog' \in [Procs -> 0..MaxEvents]
    BY DEF TypeOK
  <2> QED BY <2>1, <2>2 DEF TypeOK
<1>2. ASSUME NEW q \in Procs, q # p PROVE Sound(q)'
  <2>1. SameConsumer(q)
    BY <1>2 DEF TypeOK, SameConsumer
  <2> QED BY <2>1, StreamStays, Undisturbed
<1>3. Sound(p)'
  <2>1. ~resolved[p]
    BY DEF Sound, PositionSound
  <2>2. lastId'[p] = 0 /\ base'[p] = 0 /\ inbox'[p] = <<>> /\ injected'[p] = <<>> /\ ~resolved'[p]
    BY <2>1 DEF Sound, PositionSound
  <2>3. run'[p] > 0 /\ backlog'[p] = Len(stream) /\ Len(stream) \in Nat
    BY DEF TypeOK
  <2> QED BY <2>2, <2>3 DEF Sound, PositionSound, ReplyContinues, InjectedBehind, BeganLate,
                            Ordered, Gapless
<1> QED BY <1>1, <1>2, <1>3

\* A process that dies forgets its position.
LEMMA CrashKeeps ==
  ASSUME IInv, NEW p \in Procs, Crash(p) PROVE IInv'
<1> USE RelayAssumption DEF IInv, Crash, serverVars
<1>1. TypeOK'
  BY DEF TypeOK
<1>2. ASSUME NEW q \in Procs, q # p PROVE Sound(q)'
  <2>1. SameConsumer(q)
    BY <1>2 DEF TypeOK, SameConsumer
  <2> QED BY <2>1, StreamStays, Undisturbed
<1>3. Sound(p)'
  <2>1. /\ lastId'[p] = 0 /\ base'[p] = 0 /\ inbox'[p] = <<>> /\ injected'[p] = <<>>
        /\ ~resolved'[p] /\ ~alive'[p]
    BY DEF TypeOK
  <2>2. backlog'[p] = backlog[p] /\ backlog[p] <= Len(stream) /\ Len(stream) \in Nat
    BY DEF TypeOK, Sound, PositionSound
  <2> QED BY <2>1, <2>2 DEF Sound, PositionSound, ReplyContinues, InjectedBehind, BeganLate,
                            Ordered, Gapless
<1> QED BY <1>1, <1>2, <1>3

\* The stream grows at its end.
LEMMA PublishKeeps ==
  ASSUME IInv, NEW p \in Procs, Publish(p) PROVE IInv'
<1> USE RelayAssumption DEF IInv, Publish, history
<1>1. stream \in Seq(Entry) /\ [by |-> p, run |-> run[p]] \in Entry
  BY DEF TypeOK, Entry, Sound, PositionSound
<1>2. /\ stream' \in Seq(Entry) /\ Len(stream') = Len(stream) + 1
      /\ \A i \in 1..Len(stream) : stream'[i] = stream[i]
  BY <1>1
<1>3. trimmed' \in 0..Len(stream')
  BY <1>2 DEF TypeOK
<1>4. TypeOK'
  BY <1>2, <1>3 DEF TypeOK
<1>5. ASSUME NEW q \in Procs PROVE Sound(q)'
  <2>1. SameConsumer(q) /\ StreamGrows
    BY <1>2, TypeFacts DEF SameConsumer, StreamGrows
  <2> QED BY <2>1, Undisturbed
<1> QED BY <1>4, <1>5

\* The position a consumer resolves to is the end of the stream, unless the server is away.
LEMMA ResolveKeeps ==
  ASSUME IInv, NEW p \in Procs, ResolveInitialId(p) PROVE IInv'
<1> USE RelayAssumption DEF IInv, ResolveInitialId, serverVars
<1> DEFINE from == IF redisUp THEN Len(stream) ELSE 0
<1>1. from \in 0..MaxEvents /\ from <= Len(stream) /\ Len(stream) \in Nat
  BY DEF TypeOK
<1>2. TypeOK'
  BY <1>1 DEF TypeOK
<1>3. ASSUME NEW q \in Procs, q # p PROVE Sound(q)'
  <2>1. SameConsumer(q)
    BY <1>3 DEF TypeOK, SameConsumer, history
  <2> QED BY <2>1, StreamStays, Undisturbed
<1>4. Sound(p)'
  <2>1. lastId'[p] = from /\ base'[p] = from /\ resolved'[p]
    BY DEF TypeOK
  <2>2. inbox'[p] = <<>> /\ injected'[p] = <<>>
    BY DEF Sound, PositionSound
  <2>3. alive'[p] /\ run'[p] > 0 /\ backlog'[p] <= Len(stream)
    BY DEF Sound, PositionSound
  <2>4. PositionSound(p)'
    BY <1>1, <2>1, <2>2, <2>3 DEF PositionSound
  <2>5. BeganLate(p)'
    BY <2>1, <2>3 DEF BeganLate
  <2>6. ReplyContinues(p)' /\ InjectedBehind(p)' /\ Ordered(p)'
    BY <2>2 DEF ReplyContinues, InjectedBehind, Ordered
  <2>7. Gapless(p)'
    BY <1>1, <2>1 DEF Gapless
  <2> QED BY <2>4, <2>5, <2>6, <2>7 DEF Sound
<1> QED BY <1>2, <1>3, <1>4

\* XREAD gives the oldest entries after the position; what it passes over is trimmed.
LEMMA PollKeeps ==
  ASSUME IInv, NEW p \in Procs, Poll(p) PROVE IInv'
<1> USE RelayAssumption DEF IInv, serverVars
<1> DEFINE first == CHOOSE i \in Readable(p) : \A j \in Readable(p) : i <= j
           n     == IF Len(stream) - first + 1 < Count THEN Len(stream) - first + 1 ELSE Count
           reply == [k \in 1..n |-> first + k - 1]
           over  == {i \in Ids : lastId[p] < i /\ i < first}
<1>0. /\ alive[p] /\ resolved[p] /\ Readable(p) # {} /\ inbox[p] = <<>>
      /\ inbox' = [inbox EXCEPT ![p] = reply]
      /\ missed' = [missed EXCEPT ![p] = @ \cup over]
      /\ UNCHANGED <<serverVars, run, alive, resolved, lastId, injected, base, backlog>>
  BY DEF Poll
<1>1. /\ Len(stream) \in Nat /\ Len(stream) <= MaxEvents
      /\ lastId[p] \in Nat /\ trimmed \in 0..Len(stream)
  BY TypeFacts
<1>2. \A i : i \in Readable(p) <=> i \in 1..Len(stream) /\ i > trimmed /\ i > lastId[p]
  BY TypeFacts DEF Readable
<1>3. first \in Readable(p)
  <2> DEFINE low == IF trimmed < lastId[p] THEN lastId[p] + 1 ELSE trimmed + 1
  <2>1. PICK i \in Readable(p) : TRUE
    BY <1>0
  <2>2. low \in 1..Len(stream) /\ low > trimmed /\ low > lastId[p]
    BY <1>1, <1>2, <2>1
  <2>3. \A j \in Readable(p) : low <= j
    BY <1>1, <1>2
  <2> HIDE DEF low
  <2> QED BY <1>2, <2>2, <2>3
<1> HIDE DEF first
<1>4. first \in 1..Len(stream) /\ lastId[p] < first
  BY <1>1, <1>2, <1>3
<1>5. n \in Nat \ {0} /\ first + n - 1 <= Len(stream)
  BY <1>1, <1>4
<1> HIDE DEF n
<1>6. /\ reply \in Seq(Ids) /\ DOMAIN reply = 1..n
      /\ \A k \in 1..n : /\ reply[k] = first + k - 1
                        /\ lastId[p] < reply[k] /\ reply[k] <= Len(stream)
  <2>1. \A k \in 1..n : first + k - 1 \in Ids /\ lastId[p] < first + k - 1
                        /\ first + k - 1 <= Len(stream)
    BY <1>1, <1>4, <1>5 DEF Ids
  <2>2. reply \in [1..n -> Ids]
    BY <2>1
  <2>3. n \in Nat
    BY <1>5
  <2>4. reply \in Seq(Ids)
    <3> HIDE DEF reply
    <3> QED BY <2>2, <2>3
  <2> QED BY <2>1, <2>2, <2>4
<1> HIDE DEF reply, over
<1>7. over \subseteq Ids /\ \A i \in Ids : lastId[p] < i /\ i < first => i \in over
  BY DEF over
<1>8. TypeOK'
  <2>1. inbox' \in [Procs -> Seq(Ids)]
    BY <1>0, <1>6 DEF TypeOK
  <2>2. missed' \in [Procs -> SUBSET Ids]
    BY <1>0, <1>7 DEF TypeOK
  <2> QED BY <1>0, <2>1, <2>2 DEF TypeOK
<1>9. ASSUME NEW q \in Procs, q # p PROVE Sound(q)'
  <2>1. SameConsumer(q)
    BY <1>0, <1>9 DEF TypeOK, SameConsumer
  <2> QED BY <1>0, <2>1, StreamStays, Undisturbed
<1>10. Sound(p)'
  <2>1. inbox'[p] = reply /\ missed'[p] = missed[p] \cup over
    BY <1>0 DEF TypeOK
  <2>2. PositionSound(p)' /\ InjectedBehind(p)' /\ BeganLate(p)' /\ Ordered(p)'
    BY <1>0 DEF Sound, PositionSound, InjectedBehind, BeganLate, Ordered, Own
  <2>3. Gapless(p)'
    BY <1>0, <2>1 DEF Sound, Gapless, Own
  <2>4. ReplyContinues(p)'
    <3>1. reply[1] = first
      BY <1>4, <1>5, <1>6
    <3>2. lastId' = lastId /\ stream' = stream
      BY <1>0
    <3> QED BY <1>6, <1>7, <2>1, <3>1, <3>2 DEF ReplyContinues, Ids
  <2> QED BY <2>2, <2>3, <2>4 DEF Sound
<1> QED BY <1>0, <1>8, <1>9, <1>10

\* An entry that is handled is the next one after the position that was not trimmed.
LEMMA HandleKeeps ==
  ASSUME IInv, NEW p \in Procs, HandleEntry(p) PROVE IInv'
<1> DEFINE id == Head(inbox[p])
           now == IF Own(p, id) THEN injected[p] ELSE Append(injected[p], id)
<1>0. /\ TypeOK /\ (outages = 0 => redisUp) /\ Sound(p) /\ \A q \in Procs : Sound(q)
      /\ inbox[p] # <<>>
      /\ stream' = stream /\ trimmed' = trimmed /\ redisUp' = redisUp /\ outages' = outages
      /\ run' = run /\ alive' = alive /\ resolved' = resolved
      /\ base' = base /\ missed' = missed /\ backlog' = backlog
  BY DEF IInv, HandleEntry, serverVars, history
<1>1. inbox[p] \in Seq(Ids) /\ inbox[p] # <<>> /\ injected[p] \in Seq(Ids)
  BY <1>0 DEF TypeOK
<1>2. id = inbox[p][1] /\ id \in Ids /\ 1 \in DOMAIN inbox[p]
  BY <1>1
<1>3. ReplyContinues(p) /\ PositionSound(p) /\ InjectedBehind(p) /\ Ordered(p) /\ Gapless(p)
  BY <1>0 DEF Sound
<1>4. /\ lastId[p] < id /\ id <= Len(stream)
      /\ \A i \in Ids : lastId[p] < i /\ i < id => i \in missed[p]
  BY <1>2, <1>3 DEF ReplyContinues
<1>5. lastId[p] \in Nat /\ base[p] \in Nat /\ base[p] <= lastId[p] /\ id \in Nat /\ resolved[p]
  BY <1>0, <1>1, <1>2, <1>3, TypeFacts DEF PositionSound, Ids
<1>6. now \in Seq(Ids)
  BY <1>1, <1>2
<1>7. /\ lastId' = [lastId EXCEPT ![p] = id] /\ injected' = [injected EXCEPT ![p] = now]
      /\ inbox' = [inbox EXCEPT ![p] = Tail(@)]
  BY DEF HandleEntry
<1>8. Tail(inbox[p]) \in Seq(Ids) /\ Len(Tail(inbox[p])) = Len(inbox[p]) - 1
      /\ \A k \in 1..Len(Tail(inbox[p])) : Tail(inbox[p])[k] = inbox[p][k + 1]
  BY <1>1
<1>9. \A k \in DOMAIN now : \/ k \in DOMAIN injected[p] /\ now[k] = injected[p][k]
                            \/ k = Len(injected[p]) + 1 /\ now[k] = id /\ ~Own(p, id)
  <2>1. CASE Own(p, id)
    <3>1. now = injected[p]
      BY <2>1
    <3> HIDE DEF now
    <3> QED BY <3>1
  <2>2. CASE ~Own(p, id)
    <3>1. now = Append(injected[p], id)
      BY <2>2
    <3> HIDE DEF now, id
    <3> QED BY <1>1, <1>2, <2>2, <3>1
  <2> QED BY <2>1, <2>2
<1>10. /\ DOMAIN injected[p] = 1..Len(injected[p]) /\ Len(injected[p]) \in Nat
       /\ \A k \in DOMAIN injected[p] : k \in DOMAIN now /\ now[k] = injected[p][k]
       /\ ~Own(p, id) => Len(injected[p]) + 1 \in DOMAIN now /\ now[Len(injected[p]) + 1] = id
  <2>1. DOMAIN injected[p] = 1..Len(injected[p]) /\ Len(injected[p]) \in Nat
    BY <1>1
  <2>2. CASE Own(p, id)
    <3>1. now = injected[p]
      BY <2>2
    <3> HIDE DEF now, id
    <3> QED BY <2>1, <2>2, <3>1
  <2>3. CASE ~Own(p, id)
    <3>1. now = Append(injected[p], id)
      BY <2>3
    <3> HIDE DEF now, id
    <3> QED BY <1>1, <1>2, <2>1, <3>1
  <2> QED BY <2>2, <2>3
<1> HIDE DEF id, now
<1>11. TypeOK'
  <2>1. lastId' \in [Procs -> 0..MaxEvents]
    BY <1>0, <1>2, <1>7 DEF TypeOK, Ids
  <2>2. inbox' \in [Procs -> Seq(Ids)] /\ injected' \in [Procs -> Seq(Ids)]
    BY <1>0, <1>6, <1>7, <1>8 DEF TypeOK
  <2> QED BY <1>0, <2>1, <2>2 DEF TypeOK
<1>12. ASSUME NEW q \in Procs, q # p PROVE Sound(q)'
  <2>1. SameConsumer(q)
    BY <1>0, <1>7, <1>12 DEF TypeOK, SameConsumer
  <2> QED BY <1>0, <2>1, StreamStays, Undisturbed
<1>13. Sound(p)'
  <2>1. lastId'[p] = id /\ injected'[p] = now /\ inbox'[p] = Tail(inbox[p])
    BY <1>0, <1>7 DEF TypeOK
  <2>2. PositionSound(p)'
    BY <1>0, <1>3, <1>4, <1>5, <2>1 DEF PositionSound
  <2>3. ReplyContinues(p)'
    <3> DEFINE rest == Tail(inbox[p])
    <3>1. ASSUME NEW k \in DOMAIN rest
          PROVE  rest[k] = id + k /\ rest[1] = id + 1 /\ rest[k] <= Len(stream) /\ k \in Nat \ {0}
      <4>1. k \in 1..Len(rest) /\ Len(rest) = Len(inbox[p]) - 1 /\ Len(inbox[p]) \in Nat
        BY <1>1, <1>8
      <4>2. rest[k] = inbox[p][k + 1] /\ rest[1] = inbox[p][2]
        BY <1>8, <4>1
      <4>3. k + 1 \in DOMAIN inbox[p] /\ 2 \in DOMAIN inbox[p]
        BY <1>1, <4>1
      <4>4. inbox[p][k + 1] = id + (k + 1) - 1 /\ inbox[p][2] = id + 2 - 1
            /\ inbox[p][k + 1] <= Len(stream)
        BY <1>2, <1>3, <4>3 DEF ReplyContinues
      <4>5. k \in Nat \ {0}
        BY <4>1
      <4> HIDE DEF rest
      <4> QED BY <1>5, <4>2, <4>4, <4>5
    <3>2. lastId'[p] = id /\ stream' = stream /\ missed' = missed
      BY <1>0, <2>1
    <3> HIDE DEF rest
    <3>3. ASSUME NEW k \in DOMAIN rest
          PROVE  /\ rest[k] = rest[1] + k - 1 /\ id < rest[k] /\ rest[k] <= Len(stream)
                 /\ \A i \in Ids : ~(id < i /\ i < rest[1])
      BY <1>5, <3>1 DEF Ids
    <3>4. inbox'[p] = rest
      BY <2>1 DEF rest
    <3> QED BY <3>2, <3>3, <3>4 DEF ReplyContinues
  <2>4. InjectedBehind(p)' /\ BeganLate(p)'
    <3>1. ASSUME NEW k \in DOMAIN now PROVE base[p] < now[k] /\ now[k] <= id
      <4>1. CASE k \in DOMAIN injected[p] /\ now[k] = injected[p][k]
        <5>1. injected[p][k] \in Nat
          BY <1>0, <4>1, TypeFacts
        <5> QED BY <1>3, <1>4, <1>5, <4>1, <5>1 DEF InjectedBehind
      <4>2. CASE now[k] = id
        BY <1>4, <1>5, <4>2
      <4> QED BY <1>9, <4>1, <4>2
    <3> QED BY <1>0, <2>1, <3>1 DEF InjectedBehind, Sound, BeganLate
  <2>5. Ordered(p)'
    <3>1. ASSUME NEW k \in DOMAIN now PROVE ~Own(p, now[k])
      BY <1>3, <1>9 DEF Ordered
    <3>2. ASSUME NEW k \in DOMAIN now, NEW l \in DOMAIN now, k < l PROVE now[k] < now[l]
      <4>1. k \in DOMAIN injected[p] /\ now[k] = injected[p][k]
        BY <1>9, <1>10, <3>2
      <4>2. injected[p][k] \in Nat /\ injected[p][k] <= lastId[p]
        BY <1>0, <1>3, <4>1, TypeFacts DEF InjectedBehind
      <4>3. CASE l \in DOMAIN injected[p] /\ now[l] = injected[p][l]
        BY <1>3, <3>2, <4>1, <4>3 DEF Ordered
      <4>4. CASE now[l] = id
        BY <1>4, <1>5, <4>1, <4>2, <4>4
      <4> QED BY <1>9, <4>3, <4>4
    <3> QED BY <1>0, <2>1, <3>1, <3>2 DEF Ordered, Own
  <2>6. Gapless(p)'
    <3> SUFFICES ASSUME NEW i \in base[p] + 1 .. id
                 PROVE  Own(p, i) \/ i \in missed[p] \/ \E k \in DOMAIN now : now[k] = i
      BY <1>0, <2>1 DEF Gapless, Own
    <3>1. CASE i <= lastId[p]
      BY <1>3, <1>5, <1>10, <3>1 DEF Gapless
    <3>2. CASE lastId[p] < i /\ i < id
      <4>1. i \in Ids
        BY <1>2, <1>5, <3>2, RelayAssumption DEF Ids
      <4> QED BY <1>4, <3>2, <4>1
    <3>3. CASE i = id
      BY <1>10, <3>3
    <3> QED BY <1>5, <3>1, <3>2, <3>3
  <2> QED BY <2>2, <2>3, <2>4, <2>5, <2>6 DEF Sound
<1> QED BY <1>0, <1>11, <1>12, <1>13 DEF IInv

\* Every step preserves the invariant.
LEMMA NextIInv == IInv /\ [Next]_vars => IInv'
<1> SUFFICES ASSUME IInv, [Next]_vars PROVE IInv'
  OBVIOUS
<1>1. ASSUME NEW p \in Procs, Start(p) \/ Crash(p) \/ Publish(p) \/ Consumer(p) PROVE IInv'
  BY <1>1, StartKeeps, CrashKeeps, PublishKeeps, ResolveKeeps, PollKeeps, HandleKeeps
     DEF Consumer
<1>2. ASSUME Outage \/ Recover \/ UNCHANGED vars PROVE IInv'
  <2> USE RelayAssumption DEF Outage, Recover, vars, serverVars, history
  <2>1. TypeOK' /\ (outages' = 0 => redisUp')
    <3>1. CASE Outage
      <4>1. outages' \in 0..MaxOutages /\ outages' # 0
        BY <3>1 DEF IInv, TypeOK
      <4> QED BY <3>1, <4>1 DEF IInv, TypeOK
    <3>2. CASE Recover
      BY <3>2 DEF IInv, TypeOK
    <3>3. CASE UNCHANGED vars
      BY <3>3 DEF IInv, TypeOK
    <3> QED BY <1>2, <3>1, <3>2, <3>3
  <2>2. ASSUME NEW q \in Procs PROVE Sound(q)'
    <3>1. SameConsumer(q) /\ UNCHANGED stream /\ (outages' = 0 => outages = 0)
      BY <1>2 DEF IInv, TypeOK, SameConsumer
    <3>2. StreamGrows
      BY <3>1, TypeFacts DEF IInv, StreamGrows
    <3> QED BY <3>1, <3>2, Undisturbed DEF IInv
  <2> QED BY <2>1, <2>2 DEF IInv
<1> QED BY <1>1, <1>2 DEF Next

\* One incarnation injects in order and once, skips nothing but what was trimmed or
\* its own, and leaves the backlog alone while the server was never away: however
\* long the stream, and wherever starts, crashes, trimming and outages fall.
THEOREM RelayTheorem == Spec => []RelayedInOrder
BY InitIInv, NextIInv, IInvSuffices, PTL DEF Spec
=============================================================================
