-------------------------- MODULE Services_proofs --------------------------
(***************************************************************************)
(* The health of a worker (WorkerHealth), and rows that several hands      *)
(* write: the configurations of model providers (LlmConfigs), the table    *)
(* that is archived and cleaned up and the files of its backup             *)
(* (Housekeeping), the news of the shares (StockNews); the digests and     *)
(* what was triggered of them (Digests), the caches of market data         *)
(* (MarketCaches), the quotes and the alerts on them (QuoteAlerts), the    *)
(* mood of a market and what its news say of it (MarketSentiment,          *)
(* NewsSentiment): each as MCServices instantiates it and for every value  *)
(* of its constants.                                                       *)
(***************************************************************************)
EXTENDS MCServices, FiniteSetTheorems, TLAPS

-----------------------------------------------------------------------------
(***************************************************************************)
(* What the health page says of a worker, for every interval, heartbeat,   *)
(* throttle and time limit.                                                *)
(***************************************************************************)
\* The time until the running cycle ends, or the next one.
Ahead == IF cycle = "runs" THEN Longest - elapsed ELSE wait + Longest

\* A count of ticks that a whole round of the loop explains: with what lies ahead it fits
\* into a heartbeat interval and a round, and while the heartbeat is young the count is as
\* young.
Explained(count) ==
    /\ count + Ahead <= Quiet
    /\ beat < Heartbeat => count <= beat

\* All is well: the page has been told lately, or the last trouble is as short a time ago.
ToldLately == row.status = "ok" /\ Explained(row.age)
WellLately == Explained(well)
GoodNewsArrives == cycle # "hangs" => ToldLately \/ WellLately

\* No cycle succeeds: what the page was told is as old.
NoFalseSignOfLife == row.status = "ok" => row.age >= bad

HealthInv == TypeOK /\ GoodNewsArrives /\ NoFalseSignOfLife

-----------------------------------------------------------------------------
\* Least picks one of its arguments, the smaller one.
LEMMA LeastFacts ==
    ASSUME NEW a \in Nat, NEW b \in Nat
    PROVE  Least(a, b) \in Nat /\ Least(a, b) <= a /\ Least(a, b) <= b
           /\ (Least(a, b) = a \/ Least(a, b) = b)
BY DEF Least

\* After a cycle comes a pause, no longer than the interval.
LEMMA PauseFacts ==
    ASSUME TypeOK
    PROVE  Pause \in 0..Interval
BY HealthAssumption DEF TypeOK, Pause

\* A fresh process has no row and nothing to report.
LEMMA HealthInitInv == Init => HealthInv
<1> SUFFICES ASSUME Init PROVE HealthInv
  OBVIOUS
<1>1. /\ wait \in 0..Interval /\ beat \in 0..Heartbeat /\ failed \in 0..FailureEvery
      /\ cycle \in {"none", "runs", "hangs"} /\ elapsed \in 0..Longest
  BY HealthAssumption DEF Init
<1>2. well \in 0..Quiet + 1 /\ bad \in 0..Noticed + 1
  BY HealthAssumption DEF Init, Quiet, Noticed
<1>3. row \in [status : Statuses, age : 0..Timeout + 1]
  BY HealthAssumption DEF Init, Statuses
<1>4. GoodNewsArrives /\ NoFalseSignOfLife
  BY HealthAssumption
     DEF Init, GoodNewsArrives, WellLately, Explained, Ahead, Quiet, NoFalseSignOfLife
<1> QED BY <1>1, <1>2, <1>3, <1>4 DEF HealthInv, TypeOK

\* Every step of the loop and of its surroundings preserves the types.
LEMMA NextTypeOK == TypeOK /\ [Next]_vars => TypeOK'
<1> SUFFICES ASSUME TypeOK, [Next]_vars PROVE TypeOK'
  OBVIOUS
<1>0. Pause \in 0..Interval
  BY PauseFacts
<1> USE HealthAssumption DEF TypeOK, Statuses, Quiet, Noticed
<1>1. CASE CycleSucceeds
  <2>1. PICK some \in BOOLEAN, written \in BOOLEAN :
          RecordSuccess(some, written) /\ well' = IF written THEN well ELSE 0
    BY <1>1 DEF CycleSucceeds
  <2>2. beat' \in 0..Heartbeat /\ row' \in [status : Statuses, age : 0..Timeout + 1]
    BY <2>1 DEF RecordSuccess
  <2> QED BY <1>0, <1>1, <2>1, <2>2 DEF CycleSucceeds, EndCycle
<1>2. CASE CycleFails
  <2>1. PICK written \in BOOLEAN : RecordFailure(written)
    BY <1>2 DEF CycleFails
  <2>2. failed' \in 0..FailureEvery /\ row' \in [status : Statuses, age : 0..Timeout + 1]
    BY <2>1 DEF RecordFailure
  <2> QED BY <1>0, <1>2, <2>2 DEF CycleFails, EndCycle
<1>3. CASE CycleHangs
  BY <1>3 DEF CycleHangs
<1>4. CASE BeginCycle
  BY <1>4 DEF BeginCycle
<1>5. CASE Restart
  <2>1. wait' \in 0..Interval /\ beat' \in 0..Heartbeat /\ failed' \in 0..FailureEvery
    BY <1>5 DEF Restart
  <2>2. well' \in 0..Quiet + 1 /\ bad' \in 0..Noticed + 1
    BY <1>5 DEF Restart
  <2> QED BY <1>5, <2>1, <2>2 DEF Restart
<1>6. CASE Tick
  <2>1. wait' \in 0..Interval /\ elapsed' \in 0..Longest /\ cycle' = cycle
    BY <1>6 DEF Tick
  <2>2. beat' \in 0..Heartbeat /\ failed' \in 0..FailureEvery
    BY <1>6, LeastFacts DEF Tick
  <2>4. well' \in 0..Quiet + 1 /\ bad' \in 0..Noticed + 1
    <3>1. Quiet + 1 \in Nat /\ Noticed + 1 \in Nat /\ well + 1 \in Nat /\ bad + 1 \in Nat
      OBVIOUS
    <3>2. well' = Least(well + 1, Quiet + 1) /\ bad' = Least(bad + 1, Noticed + 1)
      BY <1>6 DEF Tick
    <3>3. /\ well' \in Nat /\ well' <= Quiet + 1
          /\ bad' \in Nat /\ bad' <= Noticed + 1
      BY <3>1, <3>2, LeastFacts
    <3> QED BY <3>1, <3>3
  <2>3. row' \in [status : Statuses, age : 0..Timeout + 1]
    BY <1>6, LeastFacts DEF Tick
  <2> QED BY <2>1, <2>2, <2>3, <2>4
<1>7. CASE UNCHANGED vars
  BY <1>7 DEF vars
<1> QED BY <1>1, <1>2, <1>3, <1>4, <1>5, <1>6, <1>7 DEF Next

\* The page's last good word is never younger than the last success.
LEMMA NextNoFalseSign == HealthInv /\ [Next]_vars => NoFalseSignOfLife'
<1> SUFFICES ASSUME HealthInv, [Next]_vars PROVE NoFalseSignOfLife'
  OBVIOUS
<1> USE HealthAssumption DEF HealthInv, TypeOK, NoFalseSignOfLife, Statuses, Quiet, Noticed
<1>1. CASE CycleSucceeds
  <2>1. PICK some \in BOOLEAN, written \in BOOLEAN : RecordSuccess(some, written)
    BY <1>1 DEF CycleSucceeds
  <2>2. bad' = 0 /\ row'.age \in Nat
    BY <1>1, <2>1 DEF CycleSucceeds, RecordSuccess
  <2> QED BY <2>2
<1>2. CASE CycleFails
  <2>1. PICK written \in BOOLEAN : RecordFailure(written)
    BY <1>2 DEF CycleFails
  <2>2. row' = row \/ row'.status = "degraded"
    BY <2>1 DEF RecordFailure
  <2> QED BY <1>2, <2>2 DEF CycleFails
<1>3. CASE CycleHangs
  BY <1>3 DEF CycleHangs
<1>4. CASE BeginCycle
  BY <1>4 DEF BeginCycle
<1>5. CASE Restart
  BY <1>5 DEF Restart
<1>6. CASE Tick
  <2>1. row'.status = row.status
    BY <1>6 DEF Tick
  <2>2. row.status = "ok" =>
          row'.age = Least(row.age + 1, Timeout + 1) /\ bad' = Least(bad + 1, Timeout + 1)
    BY <1>6 DEF Tick
  <2> QED BY <2>1, <2>2 DEF Least
<1>7. CASE UNCHANGED vars
  BY <1>7 DEF vars
<1> QED BY <1>1, <1>2, <1>3, <1>4, <1>5, <1>6, <1>7 DEF Next

\* A count no older than the heartbeat is explained when a cycle ends.
LEMMA RoundFacts ==
    ASSUME NEW count \in Nat, count <= Heartbeat, NEW pause \in 0..Interval
    PROVE  count + (pause + Longest) <= Quiet /\ pause + Longest <= Quiet
BY HealthAssumption DEF Quiet

\* Good news reaches the page within a heartbeat interval, a pause and a cycle: a cycle that
\* writes tells it, a cycle that does not has a young heartbeat.
LEMMA NextGoodNews == HealthInv /\ [Next]_vars => GoodNewsArrives'
<1> SUFFICES ASSUME HealthInv, [Next]_vars PROVE GoodNewsArrives'
  OBVIOUS
<1>0. Pause \in 0..Interval
  BY PauseFacts DEF HealthInv
<1> USE HealthAssumption DEF HealthInv, TypeOK, Statuses, Quiet, Noticed
<1>1. CASE CycleSucceeds
  <2>1. PICK some \in BOOLEAN, written \in BOOLEAN :
          RecordSuccess(some, written) /\ well' = IF written THEN well ELSE 0
    BY <1>1 DEF CycleSucceeds
  <2>2. /\ cycle = "runs" /\ cycle' = "none" /\ wait' \in 0..Interval
        /\ Ahead' = wait' + Longest /\ Ahead' \in Nat
    BY <1>0, <1>1 DEF CycleSucceeds, EndCycle, Ahead
  <2>3. CASE ~some /\ beat < Heartbeat
    <3>1. beat' = beat /\ row' = row
      BY <2>1, <2>3 DEF RecordSuccess
    <3>2. CASE ToldLately
      <4>0. row'.status = "ok" /\ row'.age \in Nat /\ row'.age <= beat' /\ row'.age <= Heartbeat
        BY <3>1, <3>2, <2>3 DEF ToldLately, Explained
      <4>1. /\ row'.status = "ok" /\ row'.age <= beat' /\ row'.age + Ahead' <= Quiet
        <5> HIDE DEF HealthInv, Quiet
        <5> QED BY <4>0, <2>2, RoundFacts
      <4> QED BY <4>1 DEF ToldLately, Explained, GoodNewsArrives
    <3>3. CASE WellLately
      <4>0. well' \in Nat /\ well' <= beat' /\ well' <= Heartbeat
        BY <3>1, <3>3, <2>1, <2>3 DEF WellLately, Explained
      <4>1. well' <= beat' /\ well' + Ahead' <= Quiet
        <5> HIDE DEF HealthInv, Quiet
        <5> QED BY <4>0, <2>2, RoundFacts
      <4> QED BY <4>1 DEF WellLately, Explained, GoodNewsArrives
    <3> QED BY <2>2, <3>2, <3>3 DEF GoodNewsArrives
  <2>4. CASE ~(~some /\ beat < Heartbeat) /\ written
    <3>1. beat' = 0 /\ row' = [status |-> "ok", age |-> 0]
      BY <2>1, <2>4 DEF RecordSuccess
    <3>2. row'.status = "ok" /\ row'.age <= beat' /\ row'.age + Ahead' <= Quiet
      <4> HIDE DEF HealthInv, Quiet
      <4> QED BY <2>2, <3>1, RoundFacts
    <3> QED BY <3>2 DEF ToldLately, Explained, GoodNewsArrives
  <2>5. CASE ~(~some /\ beat < Heartbeat) /\ ~written
    <3>1. beat' = 0 /\ well' = 0
      BY <2>1, <2>5 DEF RecordSuccess
    <3>2. Ahead' <= Quiet
      <4> HIDE DEF HealthInv, Quiet
      <4>1. 0 \in Nat /\ 0 <= Heartbeat
        OBVIOUS
      <4> QED BY <2>2, <4>1, RoundFacts
    <3>3. well' <= beat' /\ well' + Ahead' <= Quiet
      <4> HIDE DEF HealthInv, Quiet
      <4> QED BY <2>2, <3>1, <3>2
    <3> QED BY <3>3 DEF WellLately, Explained, GoodNewsArrives
  <2> QED BY <2>3, <2>4, <2>5
<1>2. CASE CycleFails
  <2>1. /\ well' = 0 /\ beat' = beat /\ wait' \in 0..Interval
        /\ Ahead' = wait' + Longest /\ Ahead' \in Nat
    BY <1>0, <1>2 DEF CycleFails, EndCycle, Ahead
  <2>2. beat \in 0..Heartbeat
    OBVIOUS
  <2>3. well' <= beat' /\ well' + Ahead' <= Quiet
    <3> HIDE DEF HealthInv, Quiet
    <3>1. 0 \in Nat /\ 0 <= Heartbeat
      OBVIOUS
    <3>2. Ahead' <= Quiet
      BY <2>1, <3>1, RoundFacts
    <3> QED BY <2>1, <2>2, <3>2
  <2> QED BY <2>3 DEF GoodNewsArrives, WellLately, Explained
<1>3. CASE CycleHangs
  BY <1>3 DEF CycleHangs, GoodNewsArrives
<1>4. CASE BeginCycle
  <2>1. cycle # "hangs" /\ beat' = beat /\ row' = row /\ well' = well
    BY <1>4 DEF BeginCycle
  <2>2. Ahead' = Ahead
    BY <1>4 DEF BeginCycle, Ahead
  <2> HIDE DEF Quiet
  <2> QED BY <2>1, <2>2, Zenon DEF GoodNewsArrives, ToldLately, WellLately, Explained
<1>5. CASE Restart
  BY <1>5 DEF Restart, GoodNewsArrives, WellLately, Explained, Ahead
<1>6. CASE Tick
  <2> SUFFICES ASSUME cycle # "hangs" PROVE ToldLately' \/ WellLately'
    BY <1>6 DEF Tick, GoodNewsArrives
  <2>1. Ahead' = Ahead - 1 /\ Ahead \in Nat /\ Ahead' \in Nat
    BY <1>6 DEF Tick, Ahead
  <2>2. beat' = Least(beat + 1, Heartbeat)
    BY <1>6 DEF Tick
  <2>3. CASE ToldLately
    <3>1. row'.status = "ok" /\ row'.age = Least(row.age + 1, Timeout + 1)
      BY <1>6, <2>3 DEF Tick, ToldLately
    <3>2. Explained(row.age)
      BY <2>3 DEF ToldLately
    <3>3. row'.age + Ahead' <= Quiet
      BY <2>1, <3>1, <3>2 DEF Explained, Least
    <3>4. beat' < Heartbeat => row'.age <= beat'
      BY <2>2, <3>1, <3>2 DEF Explained, Least
    <3> QED BY <3>1, <3>3, <3>4 DEF ToldLately, Explained
  <2>4. CASE WellLately
    <3>1. well' = Least(well + 1, Quiet + 1)
      BY <1>6 DEF Tick
    <3>2. Explained(well)
      BY <2>4 DEF WellLately
    <3>3. well' + Ahead' <= Quiet
      BY <2>1, <3>1, <3>2 DEF Explained, Least
    <3>4. beat' < Heartbeat => well' <= beat'
      BY <2>2, <3>1, <3>2 DEF Explained, Least
    <3> QED BY <3>3, <3>4 DEF WellLately, Explained
  <2> QED BY <2>3, <2>4 DEF GoodNewsArrives
<1>7. CASE UNCHANGED vars
  BY <1>7 DEF vars, GoodNewsArrives, ToldLately, WellLately, Explained, Ahead
<1> QED BY <1>1, <1>2, <1>3, <1>4, <1>5, <1>6, <1>7 DEF Next

\* The invariant that carries both promises holds throughout.
THEOREM HealthTheorem == Spec => []HealthInv
<1>1. HealthInv /\ [Next]_vars => HealthInv'
  BY NextTypeOK, NextNoFalseSign, NextGoodNews DEF HealthInv
<1> QED BY HealthInitInv, <1>1, PTL DEF Spec

-----------------------------------------------------------------------------
\* A worker of which no cycle succeeds is reported once the time limit has passed,
\* whatever the interval, the throttles and the cycles are (ops_health._evaluate_alerts).
THEOREM Reported == Spec => []TroubleIsReported
<1>1. HealthInv => TroubleIsReported
  BY HealthAssumption DEF HealthInv, TypeOK, NoFalseSignOfLife, TroubleIsReported, Alarm, Noticed, Statuses
<1> QED BY HealthTheorem, <1>1, PTL

\* The health page reports the workers in trouble and only them, provided the time
\* limit leaves room for a heartbeat interval, a pause and the longest cycle
\* (WORKER_HEARTBEAT_TIMEOUT_SECONDS against get_interval and what do_cycle takes).
THEOREM RoomForAHeartbeat ==
    ASSUME Timeout >= Heartbeat + Interval + Longest
    PROVE  Spec => []WorkersAreReported
<1>1. HealthInv => TroubleIsReported
  BY HealthAssumption DEF HealthInv, TypeOK, NoFalseSignOfLife, TroubleIsReported, Alarm, Noticed, Statuses
<1>2. HealthInv => HealthyIsQuiet
  <2> SUFFICES ASSUME HealthInv, cycle # "hangs", well > Quiet PROVE ~Alarm
    BY DEF HealthyIsQuiet
  <2>0. Ahead \in Nat
    BY HealthAssumption DEF HealthInv, TypeOK, Ahead
  <2>1. ~WellLately
    BY <2>0, HealthAssumption DEF HealthInv, TypeOK, Quiet, WellLately, Explained
  <2>2. ToldLately
    BY <2>1 DEF HealthInv, GoodNewsArrives
  <2> QED BY <2>0, <2>2, HealthAssumption
          DEF ToldLately, Explained, Alarm, HealthInv, TypeOK, Quiet
<1>3. HealthInv => WorkersAreReported
  BY <1>1, <1>2 DEF HealthInv, WorkersAreReported
<1> QED BY HealthTheorem, <1>3, PTL

-----------------------------------------------------------------------------
(***************************************************************************)
(* The configurations, for every set of them and of overlapping requests.  *)
(***************************************************************************)
\* What a request in flight holds: where it writes, the columns it was asked to
\* write, and a row it has read unless it makes one.
SoundRequest(req) ==
    /\ req.op \in {"save", "default", "delete", "toggle"}
    /\ req.edit.id \in Configs
    /\ req.op \in {"save", "toggle"} => req.edit.active \in BOOLEAN
    /\ req.op = "save" => req.edit.default \in BOOLEAN
    /\ req.row \in Models!Rows \cup {Absent}
    /\ req.op # "save" => req.row # Absent

ConfigInv ==
    /\ config \in [Configs -> Models!Rows \cup {Absent}]
    /\ admin = [a \in Admins |-> admin[a]]
    /\ \A a \in Admins : admin[a].op # "none" => SoundRequest(admin[a])
    /\ edits \in 0..MaxEdits
    /\ Models!AtMostOneDefault

Tables == [Configs -> Models!Rows \cup {Absent}]

\* At most one default, of any table of rows.
OneDefault(rows) ==
    \A c, d \in Configs :
      rows[c] # Absent /\ rows[d] # Absent /\ rows[c].default /\ rows[d].default => c = d

-----------------------------------------------------------------------------
\* The loop over the other rows leaves the chosen one as the only default.
LEMMA OnlyDefaultFacts ==
    ASSUME NEW rows \in Tables, NEW c \in Configs
    PROVE  Models!OnlyDefault(rows, c) \in Tables /\ OneDefault(Models!OnlyDefault(rows, c))
<1> DEFINE after == Models!OnlyDefault(rows, c)
<1>1. \A d \in Configs : after[d] = IF d = c \/ rows[d] = Absent THEN rows[d]
                                    ELSE [rows[d] EXCEPT !.default = FALSE]
  BY DEF Models!OnlyDefault
<1>2. \A d \in Configs : rows[d] # Absent => rows[d] \in Models!Rows
  BY DEF Tables
<1>3. \A d \in Configs : after[d] \in Models!Rows \cup {Absent}
  BY <1>1, <1>2 DEF Models!Rows
<1>4. \A d \in Configs : d # c /\ after[d] # Absent => after[d].default = FALSE
  BY <1>1, <1>2 DEF Models!Rows
<1>5. after \in Tables
  BY <1>3 DEF Tables, Models!OnlyDefault
<1>6. OneDefault(after)
  BY <1>4 DEF OneDefault
<1> QED BY <1>5, <1>6

\* A row that is not made the default by a write leaves at most one default.
LEMMA WriteFacts ==
    ASSUME NEW rows \in Tables, OneDefault(rows), NEW c \in Configs,
           NEW stored \in Models!Rows \cup {Absent},
           stored # Absent /\ stored.default => rows[c] # Absent /\ rows[c].default
    PROVE  [rows EXCEPT ![c] = stored] \in Tables /\ OneDefault([rows EXCEPT ![c] = stored])
BY DEF Tables, OneDefault

\* What an upsert leaves behind, whatever has been written since it read its row.
LEMMA SavedFacts ==
    ASSUME NEW req, SoundRequest(req), req.op = "save", ~Models!Lost(req),
           config \in Tables, OneDefault(config)
    PROVE  Models!Saved(req) \in Tables /\ OneDefault(Models!Saved(req))
<1> DEFINE e == req.edit
           new == req.row = Absent
           wanted == IF new /\ req.first THEN [active |-> TRUE, default |-> TRUE]
                     ELSE [active |-> e.active, default |-> e.default]
           stored == IF new THEN wanted
                  ELSE [active |-> Models!Column(e.active, req.row.active, config[e.id].active),
                        default |-> Models!Column(e.default, req.row.default, config[e.id].default)]
           rows == [config EXCEPT ![e.id] = stored]
<1>1. Models!Saved(req) = IF wanted.default THEN Models!OnlyDefault(rows, e.id) ELSE rows
  BY DEF Models!Saved
<1>2. e.id \in Configs /\ e.active \in BOOLEAN /\ e.default \in BOOLEAN
  BY DEF SoundRequest
<1>3. wanted \in Models!Rows
  BY <1>2 DEF Models!Rows
<1>4. ~new => req.row \in Models!Rows /\ config[e.id] \in Models!Rows /\ config[e.id] # Absent
  BY <1>2 DEF SoundRequest, Models!Lost, Tables
<1>5. stored \in Models!Rows
  BY <1>2, <1>3, <1>4 DEF Models!Rows, Models!Column
<1>6. rows \in Tables
  BY <1>2, <1>5 DEF Tables
<1>7. CASE wanted.default
  BY <1>1, <1>2, <1>6, <1>7, OnlyDefaultFacts
<1>8. CASE ~wanted.default
  <2>1. stored.default => config[e.id] # Absent /\ config[e.id].default
    <3>1. CASE new
      BY <3>1, <1>8
    <3>2. CASE ~new
      <4>1. ~e.default
        BY <3>2, <1>8
      <4>2. stored.default = Models!Column(e.default, req.row.default, config[e.id].default)
        BY <3>2
      <4> QED BY <4>1, <4>2, <1>4, <3>2 DEF Models!Column, Models!Rows
    <3> QED BY <3>1, <3>2
  <2>2. OneDefault(rows)
    BY <2>1, <1>2, <1>5, WriteFacts
  <2> QED BY <1>1, <1>6, <1>8, <2>2
<1> QED BY <1>7, <1>8

\* What the request that chooses the default leaves behind.
LEMMA MadeDefaultFacts ==
    ASSUME NEW req, SoundRequest(req), req.op = "default", ~Models!Lost(req), config \in Tables
    PROVE  Models!MadeDefault(req) \in Tables /\ OneDefault(Models!MadeDefault(req))
<1> DEFINE c == req.edit.id
           stored == [active |-> Models!Column(TRUE, req.row.active, config[c].active), default |-> TRUE]
           rows == [config EXCEPT ![c] = stored]
<1>1. c \in Configs /\ req.row \in Models!Rows /\ config[c] \in Models!Rows
  BY DEF SoundRequest, Models!Lost, Tables
<1>2. stored \in Models!Rows
  BY <1>1 DEF Models!Rows, Models!Column
<1>3. rows \in Tables
  BY <1>1, <1>2 DEF Tables
<1>4. Models!MadeDefault(req) = Models!OnlyDefault(rows, c)
  BY DEF Models!MadeDefault
<1> QED BY <1>1, <1>3, <1>4, OnlyDefaultFacts

\* What switching a configuration on or off leaves behind.
LEMMA ToggledFacts ==
    ASSUME NEW req, SoundRequest(req), req.op = "toggle", ~Models!Lost(req),
           config \in Tables, OneDefault(config)
    PROVE  Models!Toggled(req) \in Tables /\ OneDefault(Models!Toggled(req))
<1> DEFINE c == req.edit.id
           on == req.edit.active
           stored == [active |-> Models!Column(on, req.row.active, config[c].active),
                   default |-> IF ~on /\ req.row.default THEN FALSE ELSE config[c].default]
<1>1. /\ c \in Configs /\ on \in BOOLEAN /\ req.row \in Models!Rows
      /\ config[c] \in Models!Rows /\ config[c] # Absent
  BY DEF SoundRequest, Models!Lost, Tables
<1>2. stored \in Models!Rows
  BY <1>1 DEF Models!Rows, Models!Column
<1>3. stored.default => config[c].default
  BY <1>1 DEF Models!Rows
<1>4. Models!Toggled(req) = [config EXCEPT ![c] = stored]
  BY DEF Models!Toggled
<1>5. stored # Absent /\ stored.default => config[c] # Absent /\ config[c].default
  BY <1>1, <1>3
<1> HIDE DEF stored
<1>6. [config EXCEPT ![c] = stored] \in Tables /\ OneDefault([config EXCEPT ![c] = stored])
  BY <1>1, <1>2, <1>5, WriteFacts
<1> QED BY <1>4, <1>6 DEF stored

-----------------------------------------------------------------------------
\* The invariant's part on the defaults is the one of any table.
LEMMA DefaultsOfConfig == Models!AtMostOneDefault <=> OneDefault(config)
BY DEF Models!AtMostOneDefault, OneDefault, Models!Existing

\* Every commit, whatever was committed since the request read its row, preserves the invariant.
LEMMA CommitPreserves ==
    ASSUME ConfigInv, NEW a \in Admins, Models!CommitConfig(a)
    PROVE  ConfigInv'
<1> DEFINE req == admin[a]
<1>1. SoundRequest(req) /\ config \in Tables /\ OneDefault(config)
  BY DefaultsOfConfig DEF ConfigInv, Models!CommitConfig, Tables
<1>2. config' \in Tables /\ OneDefault(config')
  <2>1. CASE Models!Lost(req)
    BY <1>1, <2>1 DEF Models!CommitConfig
  <2>2. CASE ~Models!Lost(req) /\ req.op = "save"
    <3>1. config' = Models!Saved(req)
      BY <2>2 DEF Models!CommitConfig
    <3> QED BY <1>1, <2>2, <3>1, SavedFacts
  <2>3. CASE ~Models!Lost(req) /\ req.op = "default"
    <3>1. config' = Models!MadeDefault(req)
      BY <2>3 DEF Models!CommitConfig
    <3> QED BY <1>1, <2>3, <3>1, MadeDefaultFacts
  <2>4. CASE ~Models!Lost(req) /\ req.op = "toggle"
    <3>1. config' = Models!Toggled(req)
      BY <2>4 DEF Models!CommitConfig
    <3> QED BY <1>1, <2>4, <3>1, ToggledFacts
  <2>5. CASE ~Models!Lost(req) /\ req.op = "delete"
    <3>1. config' = [config EXCEPT ![req.edit.id] = Absent]
      BY <2>5 DEF Models!CommitConfig
    <3>2. req.edit.id \in Configs
      BY <1>1 DEF SoundRequest
    <3>3. Absent \in Models!Rows \cup {Absent}
      OBVIOUS
    <3>4. /\ [config EXCEPT ![req.edit.id] = Absent] \in Tables
          /\ OneDefault([config EXCEPT ![req.edit.id] = Absent])
      BY <1>1, <3>2, <3>3, WriteFacts
    <3> QED BY <3>1, <3>4
  <2> QED BY <1>1, <2>1, <2>2, <2>3, <2>4, <2>5 DEF SoundRequest
<1>3. Models!AtMostOneDefault'
  BY <1>2 DEF Models!AtMostOneDefault, OneDefault, Models!Existing
<1>4. admin' = [admin EXCEPT ![a] = Models!NoEdit]
  BY DEF Models!CommitConfig
<1>5. /\ admin' = [b \in Admins |-> admin'[b]]
      /\ \A b \in Admins : admin'[b].op # "none" => SoundRequest(admin'[b])
  BY <1>4 DEF ConfigInv, Models!NoEdit
<1>6. edits' \in 0..MaxEdits
  BY DEF ConfigInv, Models!CommitConfig
<1> QED BY <1>2, <1>3, <1>5, <1>6 DEF ConfigInv, Tables

\* Reading a row leaves the table as it is.
LEMMA ReadPreserves ==
    ASSUME ConfigInv, NEW a \in Admins, NEW e \in Models!Edits, Models!ReadConfig(a, e)
    PROVE  ConfigInv'
<1> DEFINE req == [op |-> e.op, edit |-> e, row |-> config[e.id], first |-> Models!Existing = {}]
<1>1. admin' = [admin EXCEPT ![a] = req] /\ config' = config
  BY DEF Models!ReadConfig
<1>2. e.id \in Configs /\ e.op \in {"save", "default", "delete", "toggle"}
  BY DEF Models!Edits
<1>3. e.op \in {"save", "toggle"} => e.active \in BOOLEAN
  BY DEF Models!Edits
<1>4. e.op = "save" => e.default \in BOOLEAN
  BY DEF Models!Edits
<1>5. config[e.id] \in Models!Rows \cup {Absent} /\ (e.op # "save" => config[e.id] # Absent)
  BY <1>2 DEF ConfigInv, Models!ReadConfig
<1>6. SoundRequest(req)
  BY <1>2, <1>3, <1>4, <1>5 DEF SoundRequest
<1>7. /\ admin' = [b \in Admins |-> admin'[b]]
      /\ \A b \in Admins : admin'[b].op # "none" => SoundRequest(admin'[b])
  BY <1>1, <1>6 DEF ConfigInv
<1>8. edits' \in 0..MaxEdits
  BY ConfigsAssumption DEF ConfigInv, Models!ReadConfig
<1>9. Models!AtMostOneDefault'
  BY <1>1 DEF ConfigInv, Models!AtMostOneDefault, Models!Existing
<1> QED BY <1>1, <1>7, <1>8, <1>9 DEF ConfigInv

-----------------------------------------------------------------------------
\* Every step of the requests keeps the invariant.
LEMMA ConfigNextInv == ConfigInv /\ [Models!Next]_configsVars => ConfigInv'
<1> SUFFICES ASSUME ConfigInv, [Models!Next]_configsVars PROVE ConfigInv'
  OBVIOUS
<1>1. CASE Models!Next
  <2>1. PICK a \in Admins :
          Models!CommitConfig(a) \/ \E e \in Models!Edits : Models!ReadConfig(a, e)
    BY <1>1 DEF Models!Next
  <2> QED BY <2>1, CommitPreserves, ReadPreserves
<1>2. CASE UNCHANGED configsVars
  BY <1>2 DEF configsVars, ConfigInv, Models!AtMostOneDefault, Models!Existing, SoundRequest
<1> QED BY <1>1, <1>2

\* However requests to save, choose, switch and delete configurations overlap, each
\* writing from a row that may be stale, at most one configuration is the default
\* (llm_provider_config_repository.set_default, upsert_config, set_active_status).
THEOREM ConfigsTheorem == OneSpec => []AtMostOneDefault
<1>1. OneInit => ConfigInv
  <2>1. Models!Init => ConfigInv
    BY ConfigsAssumption 
       DEF Models!Init, ConfigInv, Models!AtMostOneDefault, Models!Existing, Models!NoEdit
  <2> QED BY <2>1 DEF OneInit
<1>2. ConfigInv /\ [OneNext]_allVars => ConfigInv'
  <2>1. [OneNext]_allVars => [Models!Next]_configsVars
    BY DEF OneNext, allVars
  <2> QED BY <2>1, ConfigNextInv
<1>3. ConfigInv => AtMostOneDefault
  BY DEF ConfigInv, AtMostOneDefault, Models!TypeOK, Models!vars
<1> QED BY <1>1, <1>2, <1>3, PTL DEF OneSpec

-----------------------------------------------------------------------------
(***************************************************************************)
(* Clean-up and backup, for every retention, size of a batch, number of    *)
(* rows a day, and number of backups kept.                                 *)
(***************************************************************************)
Steps == {"due", "selected", "archived", "done"}
CopySteps == {"due", "copying", "copied", "done"}

\* The types in three parts, by who changes them.
TableTypes ==
    /\ arrived \in Nat /\ today \in Nat /\ House!Table \subseteq 1..arrived
    /\ age = [i \in House!Table |-> age[i]] /\ \A i \in House!Table : age[i] \in Nat
CleanTypes ==
    /\ cleaning \in Steps /\ slips \in Nat
    /\ chosen \subseteq 1..arrived /\ archived \subseteq 1..arrived /\ deleted \subseteq 1..arrived
    /\ cascaded \subseteq 1..arrived /\ kind \in House!Kinds
BackupTypes ==
    /\ backups \in Seq(BOOLEAN) /\ made \in Nat /\ Len(backups) <= made
    /\ backingUp \in CopySteps /\ safe \in BOOLEAN

\* The rows of an age.
Aged(a) == {i \in House!Table : age[i] = a}

\* A row that arrived earlier is no younger, and as many rows have an age as may arrive in a day.
InOrderOfArrival == \A i, j \in House!Table : i < j => age[i] >= age[j]
DaysAreLimited ==
    /\ \A a \in Nat : Cardinality(Aged(a)) <= Inflow
    /\ Cardinality(Aged(0)) <= today

\* What is about to be deleted is in a file, unless it is of the cache, which nothing
\* depends on.
ArchivedFirst ==
    /\ House!DeletedIsArchived
    /\ kind = "record" /\ cleaning = "archived" => chosen \subseteq archived
    /\ kind = "cache" => attached = {}

\* The oldest rows of the table have the age Retention + 1 + slips until the cycle of the
\* day, which takes them first; after it, the oldest are a day younger, or it has failed.
OldestFirst ==
    Inflow <= BatchSize =>
      /\ \A i \in House!Table : age[i] <= Retention + 1 + slips
      /\ cleaning \in {"selected", "archived"} =>
           \A i \in House!Table \ chosen : age[i] <= Retention + slips
      /\ cleaning = "done" => \A i \in House!Table : age[i] <= Retention + slips

\* The file being written, and the file just written, is the newest.
NewestIsOurs ==
    /\ backingUp = "copying" => backups # <<>>
    /\ safe /\ backingUp = "copied" => backups # <<>> /\ backups[Len(backups)]

HouseInv ==
    /\ TableTypes /\ CleanTypes /\ BackupTypes
    /\ InOrderOfArrival /\ DaysAreLimited /\ ArchivedFirst /\ OldestFirst
    /\ NewestIsOurs /\ House!CompleteBackupKept

-----------------------------------------------------------------------------
\* House!Cardinality and Cardinality are one operator.
LEMMA SameCardinality == \A S : House!Cardinality(S) = Cardinality(S)
BY Zenon DEF House!Cardinality, Cardinality

\* A part of the rows of an age is as limited as they are.
LEMMA AgedFacts ==
    ASSUME TableTypes, DaysAreLimited, NEW a \in Nat
    PROVE  /\ IsFiniteSet(Aged(a)) /\ Cardinality(Aged(a)) \in Nat
           /\ \A S \in SUBSET Aged(a) :
                IsFiniteSet(S) /\ Cardinality(S) \in Nat /\ Cardinality(S) <= Inflow
<1>1. IsFiniteSet(1..arrived)
  <2>1. 1 \in Int /\ arrived \in Int
    BY DEF TableTypes
  <2> QED BY <2>1, FS_Interval
<1>2. Aged(a) \subseteq 1..arrived
  BY DEF TableTypes, Aged
<1>3. IsFiniteSet(Aged(a))
  BY <1>1, <1>2, FS_Subset
<1>4. Cardinality(Aged(a)) \in Nat /\ Cardinality(Aged(a)) <= Inflow
  BY <1>3, FS_CardinalityType DEF DaysAreLimited
<1>5. ASSUME NEW S \in SUBSET Aged(a)
      PROVE  IsFiniteSet(S) /\ Cardinality(S) \in Nat /\ Cardinality(S) <= Inflow
  <2>1. IsFiniteSet(S) /\ Cardinality(S) <= Cardinality(Aged(a))
    BY <1>3, <1>5, FS_Subset
  <2>2. Cardinality(S) \in Nat
    BY <2>1, FS_CardinalityType
  <2> QED BY <1>4, <2>1, <2>2, HouseAssumption
<1> QED BY <1>3, <1>4, <1>5

\* The batch of the cycle holds every row of the oldest age: the rows before one of them
\* are of that age, and there are fewer of them than the batch is long.
LEMMA BatchTakesTheOldest ==
    ASSUME TableTypes, DaysAreLimited, InOrderOfArrival, Inflow <= BatchSize,
           NEW top \in Nat, top > Retention, \A i \in House!Table : age[i] <= top
    PROVE  Aged(top) \subseteq House!Oldest(House!Expired)
<1> SUFFICES ASSUME NEW i \in Aged(top) PROVE i \in House!Oldest(House!Expired)
  OBVIOUS
<1> DEFINE Before == {j \in House!Expired : j < i}
<1>1. i \in House!Table /\ age[i] = top /\ i \in House!Expired
  BY DEF Aged, House!Expired
<1>2. Before \subseteq Aged(top) \ {i}
  <2> SUFFICES ASSUME NEW j \in Before PROVE j \in Aged(top) /\ j # i
    OBVIOUS
  <2>1. j \in House!Table /\ j < i /\ i \in Nat /\ j \in Nat
    BY <1>1 DEF House!Expired, TableTypes
  <2>2. age[j] >= top /\ age[j] <= top /\ age[j] \in Nat
    BY <1>1, <2>1 DEF InOrderOfArrival, TableTypes
  <2> QED BY <2>1, <2>2 DEF Aged
<1>3. /\ IsFiniteSet(Aged(top)) /\ Cardinality(Aged(top)) \in Nat
      /\ Cardinality(Aged(top)) <= Inflow
  BY AgedFacts
<1>4. IsFiniteSet(Aged(top) \ {i}) /\ Cardinality(Aged(top) \ {i}) = Cardinality(Aged(top)) - 1
  BY <1>3, FS_RemoveElement
<1> HIDE DEF Before
<1>5. IsFiniteSet(Before) /\ Cardinality(Before) <= Cardinality(Aged(top) \ {i})
  BY <1>2, <1>4, FS_Subset
<1>6. Cardinality(Before) \in Nat
  BY <1>5, FS_CardinalityType
<1>7. Cardinality(Before) < BatchSize
  BY <1>3, <1>4, <1>5, <1>6, HouseAssumption
<1>8. House!Cardinality(Before) < BatchSize
  BY <1>7, SameCardinality
<1> QED BY <1>1, <1>8 DEF House!Oldest, Before

-----------------------------------------------------------------------------
(* The steps on the table.  RowsPart is what they could disturb. *)
RowsPart ==
    /\ TableTypes /\ CleanTypes /\ InOrderOfArrival /\ DaysAreLimited /\ ArchivedFirst /\ OldestFirst

\* A new row is the youngest, and one more of its day.
LEMMA ArriveKeeps == ASSUME RowsPart, House!Arrive PROVE RowsPart'
<1> USE HouseAssumption DEF RowsPart
<1> DEFINE new == arrived + 1
<1>1. /\ today < Inflow /\ arrived' = new /\ today' = today + 1
      /\ UNCHANGED <<attached, kind, archived, deleted, cascaded, cleaning, chosen, slips>>
  BY DEF House!Arrive, House!cleanVars, House!historyVars
<1>2. age' = [i \in House!Table \cup {new} |-> IF i = new THEN 0 ELSE age[i]]
  BY DEF House!Arrive
<1>3. /\ House!Table' = House!Table \cup {new} /\ age'[new] = 0
      /\ \A i \in House!Table : i # new /\ i < new /\ age'[i] = age[i]
  BY <1>2 DEF House!Table, TableTypes
<1>4. TableTypes'
  <2>1. arrived' \in Nat /\ today' \in Nat
    BY <1>1 DEF TableTypes
  <2>2. House!Table' \subseteq 1..arrived' /\ \A i \in House!Table' : age'[i] \in Nat
    BY <1>1, <1>3 DEF TableTypes
  <2>3. age' = [i \in House!Table' |-> age'[i]]
    BY <1>2, <1>3
  <2> QED BY <2>1, <2>2, <2>3 DEF TableTypes
<1>5. CleanTypes'
  BY <1>1 DEF CleanTypes, TableTypes
<1>6. InOrderOfArrival'
  BY <1>3 DEF InOrderOfArrival, TableTypes
<1>7. DaysAreLimited'
  <2>1. \A a \in Nat : a # 0 => Aged(a)' = Aged(a)
    BY <1>3 DEF Aged
  <2>2. Aged(0)' = Aged(0) \cup {new} /\ new \notin Aged(0)
    BY <1>3 DEF Aged
  <2>3. Cardinality(Aged(0)') = Cardinality(Aged(0)) + 1
    BY <2>2, AgedFacts, FS_AddElement
  <2>4. Cardinality(Aged(0)') <= today' /\ today' <= Inflow /\ Cardinality(Aged(0)) \in Nat
    BY <1>1, <2>3, AgedFacts DEF DaysAreLimited, TableTypes
  <2>5. Cardinality(Aged(0)') <= Inflow
    BY <1>1, <2>3, <2>4 DEF TableTypes
  <2>6. \A a \in Nat : Cardinality(Aged(a)') <= Inflow
    BY <2>1, <2>5 DEF DaysAreLimited
  <2> QED BY <2>4, <2>6 DEF DaysAreLimited
<1>8. ArchivedFirst'
  BY <1>1, <1>3 DEF ArchivedFirst, House!DeletedIsArchived
<1>9. OldestFirst'
  BY <1>1, <1>3 DEF OldestFirst, TableTypes, CleanTypes
<1> QED BY <1>4, <1>5, <1>6, <1>7, <1>8, <1>9

\* What is attached to a row goes with it.
LEMMA AttachKeeps ==
    ASSUME RowsPart, NEW i \in 1..MaxRows, House!Attach(i)
    PROVE  RowsPart'
<1> USE DEF RowsPart
<1>1. /\ kind = "record" /\ i \in House!Table /\ attached' = attached \cup {i}
      /\ UNCHANGED <<age, arrived, today, kind, archived, deleted, cascaded, cleaning, chosen, slips>>
  BY DEF House!Attach, House!cleanVars, House!historyVars
<1>2. House!Table' = House!Table
  BY <1>1 DEF House!Table
<1>3. TableTypes' /\ CleanTypes' /\ InOrderOfArrival' /\ DaysAreLimited' /\ OldestFirst'
  BY <1>1, <1>2 DEF TableTypes, CleanTypes, InOrderOfArrival, DaysAreLimited, OldestFirst, Aged
<1>4. ArchivedFirst'
  BY <1>1, <1>2 DEF ArchivedFirst, House!DeletedIsArchived
<1> QED BY <1>3, <1>4

\* At midnight every row is a day older; the days stay as long as they were.
LEMMA NextDayKeeps == ASSUME RowsPart, House!NextDay PROVE RowsPart'
<1> USE HouseAssumption DEF RowsPart
<1>1. /\ cleaning = "done" /\ cleaning' = "due" /\ today' = 0
      /\ UNCHANGED <<arrived, attached, kind, archived, deleted, cascaded, chosen, slips>>
      /\ age' = [i \in House!Table |-> age[i] + 1]
  BY DEF House!NextDay, House!historyVars
<1>2. House!Table' = House!Table /\ \A i \in House!Table : age'[i] = age[i] + 1
  BY <1>1 DEF House!Table
<1>3. TableTypes'
  BY <1>1, <1>2 DEF TableTypes
<1>4. CleanTypes'
  BY <1>1 DEF CleanTypes, Steps
<1>5. InOrderOfArrival'
  BY <1>2 DEF InOrderOfArrival, TableTypes
<1>6. DaysAreLimited'
  <2>1. Aged(0)' = {}
    BY <1>2 DEF Aged, TableTypes
  <2>2. \A a \in Nat : a # 0 => a - 1 \in Nat /\ Aged(a)' = Aged(a - 1)
    BY <1>2 DEF Aged, TableTypes
  <2>3. Cardinality(Aged(0)') = 0
    BY <2>1, FS_EmptySet
  <2> QED BY <1>1, <2>2, <2>3 DEF DaysAreLimited
<1>7. ArchivedFirst'
  BY <1>1, <1>2 DEF ArchivedFirst, House!DeletedIsArchived
<1>8. OldestFirst'
  BY <1>1, <1>2 DEF OldestFirst, TableTypes, CleanTypes
<1> QED BY <1>3, <1>4, <1>5, <1>6, <1>7, <1>8

\* The query of the clean-up; it is the cycle's only look at the ages.
LEMMA SelectKeeps == ASSUME RowsPart, House!Select PROVE RowsPart'
<1> USE HouseAssumption DEF RowsPart
<1>1. /\ cleaning = "due" /\ chosen' = House!Oldest(House!Expired)
      /\ cleaning' = IF House!Expired = {} THEN "done"
                     ELSE IF kind = "record" THEN "selected" ELSE "archived"
      /\ UNCHANGED <<age, arrived, today, attached, kind, archived, deleted, cascaded, slips>>
  BY DEF House!Select, House!tableVars, House!historyVars
<1>2. House!Table' = House!Table
  BY <1>1 DEF House!Table
<1>3. TableTypes' /\ InOrderOfArrival' /\ DaysAreLimited'
  BY <1>1, <1>2 DEF TableTypes, InOrderOfArrival, DaysAreLimited, Aged
<1>4. CleanTypes'
  <2>1. House!Oldest(House!Expired) \subseteq House!Table
    BY DEF House!Oldest, House!Expired
  <2> QED BY <1>1, <2>1 DEF CleanTypes, Steps, TableTypes
<1>5. ArchivedFirst'
  BY <1>1, <1>2 DEF ArchivedFirst, House!DeletedIsArchived
<1>6. OldestFirst'
  <2> SUFFICES ASSUME Inflow <= BatchSize PROVE OldestFirst'
    BY DEF OldestFirst
  <2> DEFINE top == Retention + 1 + slips
  <2>1. top \in Nat /\ top > Retention /\ \A i \in House!Table : age[i] <= top /\ age[i] \in Nat
    BY DEF OldestFirst, CleanTypes, TableTypes
  <2>2. Aged(top) \subseteq chosen'
    <3> HIDE DEF top
    <3> QED BY <1>1, <2>1, BatchTakesTheOldest
  <2>3. \A i \in House!Table \ chosen' : age[i] <= Retention + slips
    BY <2>1, <2>2 DEF Aged, CleanTypes
  <2>4. House!Expired = {} => \A i \in House!Table : age[i] <= Retention + slips
    BY <2>1 DEF House!Expired, CleanTypes
  <2> QED BY <1>1, <1>2, <2>1, <2>3, <2>4 DEF OldestFirst
<1> QED BY <1>3, <1>4, <1>5, <1>6

\* The batch goes to the file of the day.
LEMMA ArchiveKeeps == ASSUME RowsPart, House!Archive PROVE RowsPart'
<1>1. /\ cleaning = "selected" /\ cleaning' = "archived" /\ archived' = archived \cup chosen
      /\ UNCHANGED <<age, arrived, today, attached, kind, deleted, cascaded, chosen, slips>>
  BY DEF House!Archive, House!ArchiveRows
<1>2. House!Table' = House!Table
  BY <1>1 DEF House!Table
<1>3. TableTypes' /\ InOrderOfArrival' /\ DaysAreLimited'
  BY <1>1, <1>2 DEF RowsPart, TableTypes, InOrderOfArrival, DaysAreLimited, Aged
<1>4. CleanTypes' /\ ArchivedFirst'
  BY <1>1, <1>2 DEF RowsPart, CleanTypes, Steps, ArchivedFirst, House!DeletedIsArchived
<1>5. OldestFirst'
  BY <1>1, <1>2 DEF RowsPart, OldestFirst
<1> QED BY <1>3, <1>4, <1>5 DEF RowsPart

\* The batch leaves the table, and with it all rows of the oldest age.
LEMMA DeleteKeeps == ASSUME RowsPart, House!Delete PROVE RowsPart'
<1> USE HouseAssumption DEF RowsPart
<1>1. /\ cleaning = "archived" /\ cleaning' = "done" /\ chosen' = {}
      /\ deleted' = deleted \cup chosen
      /\ attached' = attached \ chosen /\ cascaded' = cascaded \cup (attached \cap chosen)
      /\ UNCHANGED <<arrived, today, kind, archived, slips>>
  BY DEF House!Delete, House!DeleteRows
<1>2. age' = [i \in House!Table \ chosen |-> age[i]]
  BY DEF House!Delete, House!DeleteRows, House!Without, House!Table
<1>3. House!Table' = House!Table \ chosen /\ \A i \in House!Table' : age'[i] = age[i]
  BY <1>2 DEF House!Table
<1>4. TableTypes'
  BY <1>1, <1>2, <1>3 DEF TableTypes
<1>5. CleanTypes'
  BY <1>1 DEF CleanTypes, Steps
<1>9. ArchivedFirst'
  <2>1. kind = "record" \/ kind = "cache"
    BY DEF CleanTypes, House!Kinds
  <2>2. attached \cap chosen \subseteq archived
    BY <1>1, <2>1 DEF ArchivedFirst
  <2> QED BY <1>1, <1>3, <2>1, <2>2 DEF ArchivedFirst, House!DeletedIsArchived
<1>6. InOrderOfArrival'
  BY <1>3 DEF InOrderOfArrival
<1>7. DaysAreLimited'
  <2>1. \A a \in Nat : Aged(a)' \subseteq Aged(a)
    BY <1>3 DEF Aged
  <2>2. \A a \in Nat : Cardinality(Aged(a)') <= Inflow
    BY <2>1, AgedFacts
  <2>3. Cardinality(Aged(0)') <= Cardinality(Aged(0)) /\ Cardinality(Aged(0)') \in Nat
    BY <2>1, AgedFacts, FS_Subset, FS_CardinalityType
  <2>4. Cardinality(Aged(0)') <= today'
    BY <1>1, <2>3, AgedFacts DEF DaysAreLimited, TableTypes
  <2> QED BY <2>2, <2>4 DEF DaysAreLimited
<1>8. OldestFirst'
  BY <1>1, <1>3 DEF OldestFirst, CleanTypes, TableTypes
<1> QED BY <1>4, <1>5, <1>6, <1>7, <1>8, <1>9

\* A cycle that does not end costs a day, and is counted.
LEMMA CleanupFailsKeeps == ASSUME RowsPart, House!CleanupFails PROVE RowsPart'
<1> USE HouseAssumption DEF RowsPart
<1>1. /\ cleaning \in {"selected", "archived"} /\ cleaning' = "done" /\ chosen' = {}
      /\ slips' = slips + 1
      /\ UNCHANGED <<age, arrived, today, attached, kind, deleted, cascaded>>
  BY DEF House!CleanupFails, House!tableVars
<1>2. archived \subseteq archived' /\ archived' \subseteq archived \cup chosen
  BY DEF House!CleanupFails
<1>3. House!Table' = House!Table
  BY <1>1 DEF House!Table
<1>4. TableTypes' /\ InOrderOfArrival' /\ DaysAreLimited'
  BY <1>1, <1>3 DEF TableTypes, InOrderOfArrival, DaysAreLimited, Aged
<1>5. CleanTypes' /\ ArchivedFirst'
  BY <1>1, <1>2, <1>3 DEF CleanTypes, Steps, ArchivedFirst, House!DeletedIsArchived
<1>6. OldestFirst'
  BY <1>1, <1>3 DEF OldestFirst, CleanTypes, TableTypes
<1> QED BY <1>4, <1>5, <1>6

-----------------------------------------------------------------------------
(* The steps of the backup. *)
FilesPart == BackupTypes /\ NewestIsOurs /\ House!CompleteBackupKept

BackupStep == House!BeginCopy \/ House!EndCopy \/ House!CopyFails \/ House!NoDatabase \/ House!Prune

\* What a sequence holds after one more file.
LEMMA AppendFacts ==
    ASSUME NEW S, NEW s \in Seq(S), NEW x \in S
    PROVE  /\ Append(s, x) \in Seq(S) /\ Len(Append(s, x)) = Len(s) + 1
           /\ \A i \in DOMAIN s : i \in DOMAIN Append(s, x) /\ Append(s, x)[i] = s[i]
OBVIOUS

\* A file that is begun comes last, and one that is complete is kept when the oldest go.
LEMMA BackupKeeps == ASSUME FilesPart, BackupStep PROVE FilesPart'
<1> USE HouseAssumption DEF FilesPart, BackupTypes, CopySteps, NewestIsOurs, House!CompleteBackupKept
<1>1. CASE House!BeginCopy
  <2>1. /\ backups' = Append(backups, FALSE) /\ made' = made + 1
        /\ backingUp' = "copying" /\ safe' = safe
    BY <1>1 DEF House!BeginCopy
  <2>2. /\ backups' \in Seq(BOOLEAN) /\ Len(backups') = Len(backups) + 1
        /\ \A i \in DOMAIN backups : i \in DOMAIN backups' /\ backups'[i] = backups[i]
    <3>1. backups \in Seq(BOOLEAN) /\ FALSE \in BOOLEAN
      OBVIOUS
    <3>2. PICK no \in BOOLEAN : backups' = Append(backups, no)
      BY Zenon, <2>1, <3>1
    <3> QED BY <3>1, <3>2, AppendFacts
  <2>3. BackupTypes'
    BY <2>1, <2>2
  <2>4. House!CompleteBackupKept'
    BY Zenon, <2>1, <2>2
  <2>5. NewestIsOurs'
    <3>1. Len(backups) \in Nat
      OBVIOUS
    <3>2. backups' # <<>>
      BY <2>2, <3>1
    <3> QED BY <2>1, <3>2
  <2> QED BY <2>3, <2>4, <2>5
<1>2. CASE House!EndCopy
  <2>1. /\ backups' = [backups EXCEPT ![Len(backups)] = TRUE] /\ made' = made
        /\ backingUp = "copying" /\ backingUp' = "copied" /\ safe' = TRUE
    BY <1>2 DEF House!EndCopy
  <2>2. Len(backups) \in DOMAIN backups
    BY <2>1
  <2>3. /\ backups' \in Seq(BOOLEAN) /\ Len(backups') = Len(backups)
        /\ DOMAIN backups' = DOMAIN backups /\ backups'[Len(backups)] = TRUE
    BY <2>1, <2>2
  <2> QED BY <2>1, <2>2, <2>3
<1>3. CASE House!CopyFails
  BY <1>3 DEF House!CopyFails, House!AfterFailedCopy
<1>4. CASE House!NoDatabase
  BY <1>4 DEF House!NoDatabase
<1>5. CASE House!Prune
  <2>1. /\ backingUp = "copied" /\ backingUp' = "done" /\ made' = made /\ safe' = safe
        /\ backups' = IF Len(backups) > Keep
                      THEN SubSeq(backups, Len(backups) - Keep + 1, Len(backups)) ELSE backups
    BY <1>5 DEF House!Prune
  <2>2. CASE Len(backups) > Keep
    <3>1. /\ backups' \in Seq(BOOLEAN) /\ Len(backups') = Keep
          /\ backups'[Keep] = backups[Len(backups)]
      BY <2>1, <2>2
    <3>2. Keep \in DOMAIN backups'
      BY <3>1
    <3>3. BackupTypes' /\ NewestIsOurs'
      BY <2>1, <2>2, <3>1
    <3>4. safe' => backups[Len(backups)]
      BY <2>1
    <3>5. House!CompleteBackupKept'
      BY Zenon, <3>1, <3>2, <3>4
    <3> QED BY <3>3, <3>5
  <2>3. CASE ~(Len(backups) > Keep)
    BY <2>1, <2>3
  <2> QED BY <2>2, <2>3
<1> QED BY <1>1, <1>2, <1>3, <1>4, <1>5 DEF BackupStep

-----------------------------------------------------------------------------
\* An empty table and no file.
LEMMA HouseInitInv == House!Init => HouseInv
<1> SUFFICES ASSUME House!Init PROVE HouseInv
  OBVIOUS
<1> USE HouseAssumption DEF House!Init
<1>1. House!Table = {} /\ age = [i \in House!Table |-> age[i]]
  BY DEF House!Table
<1>2. TableTypes
  BY <1>1 DEF TableTypes
<1>3. CleanTypes
  BY DEF CleanTypes, Steps, House!Kinds
<1>8. BackupTypes
  <2>1. backups \in Seq(BOOLEAN) /\ Len(backups) = 0
    OBVIOUS
  <2>2. safe \in BOOLEAN
    BY Zenon
  <2> QED BY <2>1, <2>2 DEF BackupTypes, CopySteps
<1>4. \A a : Aged(a) = {}
  BY <1>1 DEF Aged
<1>5. DaysAreLimited
  <2>1. today = 0 /\ Inflow \in Nat /\ Cardinality({}) = 0
    BY FS_EmptySet
  <2> HIDE DEF House!Init
  <2> QED BY <1>4, <2>1 DEF DaysAreLimited
<1>6. InOrderOfArrival /\ OldestFirst
  BY <1>1 DEF InOrderOfArrival, OldestFirst
<1>7. ArchivedFirst /\ NewestIsOurs /\ House!CompleteBackupKept
  BY DEF ArchivedFirst, NewestIsOurs, House!DeletedIsArchived, House!CompleteBackupKept
<1> QED BY <1>2, <1>3, <1>5, <1>6, <1>7, <1>8 DEF HouseInv

\* Steps on the table leave the files alone, those of the backup the table; midnight
\* begins a new cycle of both.
LEMMA HouseNextInv == HouseInv /\ [House!Next]_houseVars => HouseInv'
<1> SUFFICES ASSUME HouseInv, [House!Next]_houseVars PROVE HouseInv'
  OBVIOUS
<1>1. RowsPart /\ FilesPart
  BY DEF HouseInv, RowsPart, FilesPart
<1>2. ASSUME UNCHANGED <<backups, made, safe>>, backingUp' \in {backingUp, "due"} PROVE FilesPart'
  BY <1>1, <1>2 DEF FilesPart, BackupTypes, CopySteps, NewestIsOurs, House!CompleteBackupKept
<1>3. ASSUME UNCHANGED <<age, arrived, today, attached, kind, archived, deleted, cascaded, cleaning,
                         chosen, slips>>
      PROVE  RowsPart'
  BY <1>1, <1>3
     DEF RowsPart, TableTypes, CleanTypes, InOrderOfArrival, DaysAreLimited, ArchivedFirst,
         OldestFirst, Aged, House!Table, House!DeletedIsArchived
<1>4. CASE House!Arrive
  BY <1>1, <1>2, <1>4, ArriveKeeps DEF House!Arrive, House!backupVars, RowsPart, FilesPart, HouseInv
<1>12. CASE \E i \in 1..MaxRows : House!Attach(i)
  <2>1. PICK i \in 1..MaxRows : House!Attach(i)
    BY <1>12
  <2> QED BY <1>1, <1>2, <2>1, AttachKeeps
          DEF House!Attach, House!backupVars, RowsPart, FilesPart, HouseInv
<1>5. CASE House!NextDay
  BY <1>1, <1>2, <1>5, NextDayKeeps DEF House!NextDay, RowsPart, FilesPart, HouseInv
<1>6. CASE House!Select
  BY <1>1, <1>2, <1>6, SelectKeeps DEF House!Select, House!backupVars, RowsPart, FilesPart, HouseInv
<1>7. CASE House!Archive
  BY <1>1, <1>2, <1>7, ArchiveKeeps DEF House!Archive, House!backupVars, RowsPart, FilesPart, HouseInv
<1>8. CASE House!Delete
  BY <1>1, <1>2, <1>8, DeleteKeeps DEF House!Delete, House!backupVars, RowsPart, FilesPart, HouseInv
<1>9. CASE House!CleanupFails
  BY <1>1, <1>2, <1>9, CleanupFailsKeeps
     DEF House!CleanupFails, House!backupVars, RowsPart, FilesPart, HouseInv
<1>10. CASE BackupStep
  <2>1. UNCHANGED <<age, arrived, today, attached, kind, archived, deleted, cascaded, cleaning,
                    chosen, slips>>
    BY <1>10 DEF BackupStep, House!BeginCopy, House!EndCopy, House!CopyFails, House!NoDatabase,
                 House!Prune, House!tableVars, House!cleanVars, House!historyVars
  <2>2. RowsPart' /\ FilesPart'
    BY <1>1, <1>3, <1>10, <2>1, BackupKeeps
  <2> QED BY <2>2 DEF RowsPart, FilesPart, HouseInv
<1>11. CASE UNCHANGED houseVars
  BY <1>2, <1>3, <1>11 DEF houseVars, RowsPart, FilesPart, HouseInv
<1> QED BY <1>4, <1>5, <1>6, <1>7, <1>8, <1>9, <1>10, <1>11, <1>12 DEF House!Next, BackupStep

\* Whenever a cycle raises or the process dies: no row of an archived table is deleted that
\* is not in a file, what refers to a row goes only with a row that is, no row outlives its
\* retention by more than a day and a day for each cycle that failed, if no more rows arrive
\* in a day than a cycle deletes, and once there was a complete backup one is kept
\* (cleanup.py, backup.py).
THEOREM HouseTheorem == OneSpec => []HouseIsInOrder
<1>1. OneInit => HouseInv
  BY HouseInitInv DEF OneInit
<1>2. HouseInv /\ [OneNext]_allVars => HouseInv'
  <2>1. [OneNext]_allVars => [House!Next]_houseVars
    BY DEF OneNext, allVars
  <2> QED BY <2>1, HouseNextInv
<1>3. HouseInv => HouseIsInOrder
  <2> SUFFICES ASSUME HouseInv PROVE House!TypeOK /\ House!HouseIsInOrder
    BY DEF HouseIsInOrder
  <2>1. House!TypeOK
    BY DEF HouseInv, TableTypes, CleanTypes, BackupTypes, House!TypeOK
  <2>2. House!RetentionHolds
    BY DEF HouseInv, OldestFirst, House!RetentionHolds
  <2> QED BY <2>1, <2>2 DEF HouseInv, ArchivedFirst, House!HouseIsInOrder
<1> QED BY <1>1, <1>2, <1>3, PTL DEF OneSpec
-----------------------------------------------------------------------------
(***************************************************************************)
(* The news of the shares, for every set of threads, shares, news and hits *)
(* of the pipeline.                                                        *)
(***************************************************************************)
OneGoesOn(t, k) == task' = [task EXCEPT ![t] = k]

\* What a task relies on: m are the mentions, s the stored news.
CreationIsSound(k) ==
    k.market = "cn" => \A other \in k.saw : Normal[other] # k.name

SearchIsSound(k, m, s) ==
    /\ k.todo \intersect k.adds = {} /\ (k.pc = "insert" => k.todo # {})
    /\ k.new \subseteq k.adds /\ k.adds \subseteq s \union k.new
    /\ \A n \in k.found \ k.todo :
         n \in s \union k.new /\ (n \in k.adds \/ m[n][k.name] # <<>>)

TaskIsSound(k, m, s) ==
    /\ k.pc \in {"create", "created"} => k.adds \subseteq s /\ CreationIsSound(k)
    /\ k.pc \in {"store", "insert"} => SearchIsSound(k, m, s)
    /\ k.pc = "applied" => k.adds \subseteq s /\ k.hit \in s

\* What is added was not there when it was looked up, and if it is now, that is known.
LooksHold(t, k, m, o) == \A n \in k.adds : m[n][k.name] = <<>> \/ <<t, n>> \in o

\* A request that has stored its share holds the lock.
LockIsKept ==
    /\ shareWriter # None => task[shareWriter] # None
    /\ \A t \in Threads : Shares!Does(t, "created") => shareWriter = t

SharesTypes ==
    /\ watched \in SUBSET Shares!Names /\ found \in SUBSET News
    /\ mentions \in [News -> [Shares!Names -> Seq(Shares!Mentions)]]
    /\ task \in [Threads -> Shares!Tasks \union {None}]
    /\ shareWriter \in Threads \union {None}

SharesInv ==
    /\ SharesTypes /\ LockIsKept
    /\ \A n \in News \ found, name \in Shares!Names : mentions[n][name] = <<>>
    /\ \A t \in Threads : task[t] # None =>
         TaskIsSound(task[t], mentions, found) /\ LooksHold(t, task[t], mentions, outrun)

\* What is in a sequence of mentions.
LEMMA MentionFacts ==
    ASSUME NEW q \in Seq(Shares!Mentions)
    PROVE  /\ Len(q) \in Nat
           /\ \A i \in 1..Len(q) : q[i] \in Shares!Mentions /\ q[i].confidence \in Nat
<1>1. \A i \in 1..Len(q) : q[i] \in Shares!Mentions
  OBVIOUS
<1>2. \A r \in Shares!Mentions : r.confidence \in Nat
  BY DEF Shares!Mentions
<1> QED BY <1>1, <1>2

\* The steps below, one task at a time, are told by the names of its fields.
LEMMA TaskFacts ==
    ASSUME SharesTypes, NEW t \in Threads, task[t] # None
    PROVE  /\ task[t] \in Shares!Tasks
           /\ task[t].name \in Shares!Names /\ task[t].adds \in SUBSET News
           /\ task[t].row \in Shares!Mentions
           /\ task[t].pc \in {"create", "created"} => task[t] \in Shares!Creations
           /\ task[t].pc \in {"store", "insert"} => task[t] \in Shares!Searching
           /\ task[t].pc = "applied" => task[t] \in Shares!Applying
<1>1. task[t] \in Shares!Creations \/ task[t] \in Shares!Searching \/ task[t] \in Shares!Applying
  BY DEF SharesTypes, Shares!Tasks
<1>2. CASE task[t] \in Shares!Creations
  BY <1>2 DEF Shares!Creations, Shares!Tasks
<1>3. CASE task[t] \in Shares!Searching
  BY <1>3 DEF Shares!Searching, Shares!Tasks
<1>4. CASE task[t] \in Shares!Applying
  BY <1>4 DEF Shares!Applying, Shares!Tasks
<1> QED BY <1>1, <1>2, <1>3, <1>4

\* Mentions stay, and so do news: no row goes, and none loses confidence.
MentionsGrow ==
    \A n \in News, name \in Shares!Names :
      /\ Len(mentions'[n][name]) >= Len(mentions[n][name])
      /\ \A i \in 1..Len(mentions[n][name]) :
           mentions'[n][name][i].confidence >= mentions[n][name][i].confidence

\* A task in the middle of its work is as sound after a step of another one.
LEMMA SoundnessLasts ==
    ASSUME SharesTypes, SharesTypes', MentionsGrow, found \subseteq found',
           NEW k \in Shares!Tasks, TaskIsSound(k, mentions, found)
    PROVE  TaskIsSound(k, mentions', found')
<1>1. \A n \in News, name \in Shares!Names : mentions[n][name] # <<>> => mentions'[n][name] # <<>>
  BY DEF MentionsGrow, SharesTypes
<1>2. CASE k \in Shares!Creations
  BY <1>2 DEF TaskIsSound, Shares!Creations
<1>3. CASE k \in Shares!Searching
  <2>1. SearchIsSound(k, mentions, found)
    BY <1>3 DEF TaskIsSound, Shares!Searching
  <2>2. k.found \subseteq News /\ k.name \in Shares!Names
    BY <1>3 DEF Shares!Searching
  <2>3. SearchIsSound(k, mentions', found')
    BY <1>1, <2>1, <2>2 DEF SearchIsSound
  <2> QED BY <1>3, <2>3 DEF TaskIsSound, Shares!Searching
<1>4. CASE k \in Shares!Applying
  BY <1>4 DEF TaskIsSound, Shares!Applying
<1> QED BY <1>2, <1>3, <1>4 DEF Shares!Tasks

\* What a commit writes.
LEMMA WrittenFacts ==
    ASSUME SharesTypes, NEW t \in Threads, task[t] # None, mentions' = Shares!Written(t)
    PROVE  /\ mentions' \in [News -> [Shares!Names -> Seq(Shares!Mentions)]]
           /\ MentionsGrow
           /\ \A n \in News, name \in Shares!Names :
                mentions'[n][name] = IF n \in task[t].adds /\ name = task[t].name
                                     THEN Append(mentions[n][name], task[t].row)
                                     ELSE mentions[n][name]
<1> DEFINE k == task[t]
<1>1. k.name \in Shares!Names /\ k.adds \in SUBSET News /\ k.row \in Shares!Mentions
  BY TaskFacts
<1> HIDE DEF k
<1>2. mentions' = [n \in News |-> IF n \in k.adds
                                  THEN [mentions[n] EXCEPT ![k.name] = Append(@, k.row)]
                                  ELSE mentions[n]]
  BY DEF Shares!Written, k
<1>3. \A n \in News, name \in Shares!Names :
        mentions'[n][name] = IF n \in k.adds /\ name = k.name
                             THEN Append(mentions[n][name], k.row) ELSE mentions[n][name]
  BY <1>1, <1>2 DEF SharesTypes
<1>4. \A n \in News, name \in Shares!Names :
        Append(mentions[n][name], k.row) \in Seq(Shares!Mentions)
  BY <1>1 DEF SharesTypes
<1>5. mentions' \in [News -> [Shares!Names -> Seq(Shares!Mentions)]]
  <2>1. ASSUME NEW n \in News PROVE mentions'[n] \in [Shares!Names -> Seq(Shares!Mentions)]
    <3>1. mentions[n] \in [Shares!Names -> Seq(Shares!Mentions)]
      BY DEF SharesTypes
    <3>2. CASE n \in k.adds
      <4>1. mentions'[n] = [mentions[n] EXCEPT ![k.name] = Append(@, k.row)]
        BY <1>2, <3>2
      <4> QED BY <1>1, <1>4, <3>1, <4>1
    <3>3. CASE n \notin k.adds
      BY <1>2, <3>1, <3>3
    <3> QED BY <3>2, <3>3
  <2> QED BY <1>2, <2>1
<1>6. MentionsGrow
  <2> SUFFICES ASSUME NEW n \in News, NEW name \in Shares!Names
               PROVE  /\ Len(mentions'[n][name]) >= Len(mentions[n][name])
                      /\ \A i \in 1..Len(mentions[n][name]) :
                           mentions'[n][name][i].confidence >= mentions[n][name][i].confidence
    BY DEF MentionsGrow
  <2> DEFINE q == mentions[n][name]
  <2>1. q \in Seq(Shares!Mentions)
    BY DEF SharesTypes
  <2>2. mentions'[n][name] = Append(q, k.row) \/ mentions'[n][name] = q
    BY <1>3
  <2>3. \A i \in 1..Len(q) : q[i].confidence \in Nat
    BY <2>1, MentionFacts
  <2> HIDE DEF q
  <2>4. Len(q) \in Nat /\ Len(Append(q, k.row)) = Len(q) + 1
    BY <1>1, <2>1
  <2>5. \A i \in 1..Len(q) : Append(q, k.row)[i] = q[i]
    BY <1>1, <2>1
  <2>6. \A i \in 1..Len(q) : mentions'[n][name][i] = q[i]
    BY <2>2, <2>5
  <2>7. \A i \in 1..Len(q) : mentions'[n][name][i].confidence >= q[i].confidence
    BY <2>3, <2>6
  <2> QED BY <2>2, <2>4, <2>7 DEF q
<1> QED BY <1>3, <1>5, <1>6 DEF k

\* What raising the confidence of a hit changes.
LEMMA RaisedFacts ==
    ASSUME SharesTypes, NEW n \in News, NEW x \in Shares!Names, NEW r \in Shares!Mentions,
           mentions' = [mentions EXCEPT ![n][x] = Shares!Raised(@, r)]
    PROVE  /\ mentions' \in [News -> [Shares!Names -> Seq(Shares!Mentions)]]
           /\ MentionsGrow
           /\ \A o \in News, name \in Shares!Names :
                Len(mentions'[o][name]) = Len(mentions[o][name])
<1> DEFINE q == mentions[n][x]
           p == Shares!Raised(q, r)
<1>1. q \in Seq(Shares!Mentions)
  BY DEF SharesTypes
<1>2. /\ p \in Seq(Shares!Mentions) /\ Len(p) = Len(q)
      /\ \A i \in 1..Len(q) : p[i].confidence >= q[i].confidence
  <2> HIDE DEF q
  <2>1. \A i \in 1..Len(q) : q[i] \in Shares!Mentions /\ q[i].confidence \in Nat
    BY <1>1, MentionFacts
  <2>2. CASE q # <<>> /\ q[1].type = "rule" /\ q[1].confidence < r.confidence
    <3>1. p = [q EXCEPT ![1] = r]
      BY <2>2 DEF Shares!Raised
    <3>2. 1 \in 1..Len(q)
      BY <1>1, <2>2
    <3>3. p \in Seq(Shares!Mentions) /\ Len(p) = Len(q)
      <4>1. q = [i \in 1..Len(q) |-> q[i]] /\ Len(q) \in Nat
        BY <1>1
      <4>2. p = [i \in 1..Len(q) |-> IF i = 1 THEN r ELSE q[i]]
        BY <3>1, <4>1
      <4>3. \A i \in 1..Len(q) : p[i] \in Shares!Mentions
        BY <2>1, <4>2
      <4> HIDE DEF p
      <4> QED BY <4>1, <4>2, <4>3
    <3>4. p[1] = r /\ \A i \in 1..Len(q) : i # 1 => p[i] = q[i]
      BY <1>1, <3>1, <3>2
    <3>5. r.confidence >= q[1].confidence
      BY <2>1, <2>2, <3>2 DEF Shares!Mentions
    <3> QED BY <2>1, <3>3, <3>4, <3>5
  <2>3. CASE ~(q # <<>> /\ q[1].type = "rule" /\ q[1].confidence < r.confidence)
    <3>1. p = q
      BY <2>3 DEF Shares!Raised
    <3> QED BY <1>1, <2>1, <3>1
  <2> QED BY <2>2, <2>3
<1>3. mentions' = [mentions EXCEPT ![n] = [mentions[n] EXCEPT ![x] = p]]
  BY DEF SharesTypes
<1> HIDE DEF p, q
<1>4. \A o \in News, name \in Shares!Names :
        mentions'[o][name] = IF o = n /\ name = x THEN p ELSE mentions[o][name]
  BY <1>3 DEF SharesTypes
<1>5. mentions' \in [News -> [Shares!Names -> Seq(Shares!Mentions)]]
  <2>1. [mentions[n] EXCEPT ![x] = p] \in [Shares!Names -> Seq(Shares!Mentions)]
    BY <1>2 DEF SharesTypes
  <2> QED BY <1>3, <2>1 DEF SharesTypes
<1>6. \A o \in News, name \in Shares!Names : Len(mentions'[o][name]) = Len(mentions[o][name])
  BY <1>2, <1>4 DEF q
<1>7. MentionsGrow
  <2> SUFFICES ASSUME NEW o \in News, NEW name \in Shares!Names
               PROVE  /\ Len(mentions'[o][name]) >= Len(mentions[o][name])
                      /\ \A i \in 1..Len(mentions[o][name]) :
                           mentions'[o][name][i].confidence >= mentions[o][name][i].confidence
    BY DEF MentionsGrow
  <2>1. Len(mentions[o][name]) \in Nat
        /\ \A i \in 1..Len(mentions[o][name]) : mentions[o][name][i].confidence \in Nat
    <3>1. mentions[o][name] \in Seq(Shares!Mentions)
      BY DEF SharesTypes
    <3> QED BY <3>1, MentionFacts
  <2>2. CASE o = n /\ name = x
    BY <1>2, <1>4, <2>1, <2>2 DEF q
  <2>3. CASE ~(o = n /\ name = x)
    BY <1>4, <2>1, <2>3
  <2> QED BY <2>2, <2>3
<1> QED BY <1>5, <1>6, <1>7
-----------------------------------------------------------------------------
\* A thread goes on with its task, or takes one up: nothing is stored.
LEMMA TaskMoves ==
    ASSUME SharesInv, NEW t \in Threads, NEW k \in Shares!Tasks, OneGoesOn(t, k),
           UNCHANGED <<mentions, found, watched>>,
           TaskIsSound(k, mentions, found), LooksHold(t, k, mentions, outrun'),
           \A u \in Threads, n \in News : u # t => (<<u, n>> \in outrun => <<u, n>> \in outrun'),
           shareWriter' \in {shareWriter, t}, k.pc = "created" => shareWriter' = t,
           shareWriter' # shareWriter => shareWriter = None
    PROVE  SharesInv'
<1>1. /\ task'[t] = k /\ k # None
      /\ \A u \in Threads : u # t => task'[u] = task[u]
  BY TasksAssumption DEF OneGoesOn, SharesInv, SharesTypes
<1>2. SharesTypes'
  BY DEF OneGoesOn, SharesInv, SharesTypes
<1>3. LockIsKept'
  <2>1. shareWriter' # None => task'[shareWriter'] # None
    BY <1>1 DEF SharesInv, SharesTypes, LockIsKept
  <2>2. ASSUME NEW u \in Threads, Shares!Does(u, "created")' PROVE shareWriter' = u
    <3>1. CASE u = t
      BY <1>1, <2>2, <3>1 DEF Shares!Does
    <3>2. CASE u # t
      <4>1. shareWriter = u
        BY <1>1, <2>2, <3>2 DEF Shares!Does, SharesInv, LockIsKept
      <4> QED BY <4>1, SharesAssumption
    <3> QED BY <3>1, <3>2
  <2> QED BY <2>1, <2>2 DEF LockIsKept
<1>4. (\A n \in News \ found, name \in Shares!Names : mentions[n][name] = <<>>)'
  BY DEF SharesInv
<1>5. ASSUME NEW u \in Threads, task'[u] # None
      PROVE  TaskIsSound(task'[u], mentions', found')
             /\ LooksHold(u, task'[u], mentions', outrun')
  <2>1. CASE u = t
    BY <1>1, <2>1 DEF TaskIsSound, LooksHold, SearchIsSound, CreationIsSound
  <2>2. CASE u # t
    <3>1. TaskIsSound(task[u], mentions, found) /\ LooksHold(u, task[u], mentions, outrun)
      BY <1>1, <1>5, <2>2 DEF SharesInv
    <3>2. task[u].adds \subseteq News
      BY <1>1, <1>5, <2>2, TaskFacts DEF SharesInv
    <3>3. LooksHold(u, task[u], mentions, outrun')
      BY <2>2, <3>1, <3>2 DEF LooksHold
    <3> QED BY <1>1, <2>2, <3>1, <3>3 DEF TaskIsSound, LooksHold, SearchIsSound
  <2> QED BY <2>1, <2>2
<1> QED BY <1>2, <1>3, <1>4, <1>5 DEF SharesInv

\* A thread is done: its transaction is rolled back, or has raised a confidence.
LEMMA LeavingKeeps ==
    ASSUME SharesInv, NEW t \in Threads, task[t] # None, Shares!Leaves(t),
           found' = found, watched' \in SUBSET Shares!Names,
           mentions' \in [News -> [Shares!Names -> Seq(Shares!Mentions)]], MentionsGrow,
           \A n \in News, name \in Shares!Names :
             Len(mentions'[n][name]) = Len(mentions[n][name])
    PROVE  SharesInv'
<1>1. /\ task'[t] = None
      /\ \A u \in Threads : u # t => task'[u] = task[u]
      /\ shareWriter' = IF shareWriter = t THEN None ELSE shareWriter
      /\ outrun' = {o \in outrun : o[1] # t}
  BY DEF Shares!Leaves, Shares!Holds, SharesInv, SharesTypes
<1>2. SharesTypes'
  BY DEF Shares!Leaves, Shares!Holds, SharesInv, SharesTypes
<1>3. LockIsKept'
  BY <1>1 DEF SharesInv, SharesTypes, LockIsKept, Shares!Does
<1>4. \A n \in News, name \in Shares!Names : mentions[n][name] = <<>> => mentions'[n][name] = <<>>
  BY DEF SharesInv, SharesTypes
<1>5. ASSUME NEW u \in Threads, task'[u] # None
      PROVE  TaskIsSound(task'[u], mentions', found')
             /\ LooksHold(u, task'[u], mentions', outrun')
  <2>1. u # t /\ task'[u] = task[u]
    BY <1>1, <1>5
  <2>2. TaskIsSound(task[u], mentions, found) /\ LooksHold(u, task[u], mentions, outrun)
    BY <1>5, <2>1 DEF SharesInv
  <2>3. task[u] \in Shares!Tasks /\ task[u].adds \subseteq News /\ task[u].name \in Shares!Names
    BY <1>5, <2>1, TaskFacts DEF SharesInv
  <2>4. TaskIsSound(task[u], mentions', found')
    BY <1>2, <2>2, <2>3, SoundnessLasts DEF SharesInv
  <2>5. LooksHold(u, task[u], mentions', outrun')
    BY <1>1, <1>4, <2>1, <2>2, <2>3 DEF LooksHold
  <2> QED BY <2>1, <2>4, <2>5
<1> QED BY <1>2, <1>3, <1>4, <1>5 DEF SharesInv

\* A thread commits what it has added.
LEMMA CommittingKeeps ==
    ASSUME SharesInv, NEW t \in Threads, task[t] # None, Shares!Commits(t),
           found \subseteq found', found' \subseteq News, task[t].adds \subseteq found',
           watched' \in SUBSET Shares!Names
    PROVE  SharesInv'
<1>1. /\ task'[t] = None
      /\ \A u \in Threads : u # t => task'[u] = task[u]
      /\ shareWriter' = IF shareWriter = t THEN None ELSE shareWriter
      /\ outrun' = {o \in outrun : o[1] # t} \union
                   {o \in (Threads \ {t}) \X task[t].adds :
                      task[o[1]] # None /\ task[o[1]].name = task[t].name}
      /\ mentions' = Shares!Written(t)
  BY DEF Shares!Commits, Shares!Holds, SharesInv, SharesTypes
<1>2. /\ mentions' \in [News -> [Shares!Names -> Seq(Shares!Mentions)]]
      /\ MentionsGrow
      /\ \A n \in News, name \in Shares!Names :
           mentions'[n][name] = IF n \in task[t].adds /\ name = task[t].name
                                THEN Append(mentions[n][name], task[t].row)
                                ELSE mentions[n][name]
  BY <1>1, WrittenFacts DEF SharesInv
<1>3. SharesTypes'
  BY <1>2 DEF Shares!Commits, Shares!Holds, SharesInv, SharesTypes
<1>4. LockIsKept'
  BY <1>1 DEF SharesInv, SharesTypes, LockIsKept, Shares!Does
<1>5. ASSUME NEW n \in News \ found', NEW name \in Shares!Names PROVE mentions'[n][name] = <<>>
  BY <1>2 DEF SharesInv
<1>6. ASSUME NEW u \in Threads, task'[u] # None
      PROVE  TaskIsSound(task'[u], mentions', found')
             /\ LooksHold(u, task'[u], mentions', outrun')
  <2>1. u # t /\ task'[u] = task[u]
    BY <1>1, <1>6
  <2>2. TaskIsSound(task[u], mentions, found) /\ LooksHold(u, task[u], mentions, outrun)
    BY <1>6, <2>1 DEF SharesInv
  <2>3. task[u] \in Shares!Tasks /\ task[u].adds \subseteq News /\ task[u].name \in Shares!Names
    BY <1>6, <2>1, TaskFacts DEF SharesInv
  <2>4. TaskIsSound(task[u], mentions', found')
    BY <1>2, <1>3, <2>2, <2>3, SoundnessLasts DEF SharesInv
  <2>5. ASSUME NEW n \in task[u].adds
        PROVE  mentions'[n][task[u].name] = <<>> \/ <<u, n>> \in outrun'
    <3>1. mentions[n][task[u].name] = <<>> \/ <<u, n>> \in outrun
      BY <2>2 DEF LooksHold
    <3>2. CASE <<u, n>> \in outrun
      BY <1>1, <2>1, <3>2
    <3>3. CASE mentions[n][task[u].name] = <<>> /\ n \in task[t].adds /\ task[u].name = task[t].name
      <4>1. <<u, n>> \in (Threads \ {t}) \X task[t].adds
        BY <2>1, <3>3
      <4>2. task[u] # None
        BY <1>6, <2>1
      <4>3. <<u, n>>[1] = u
        OBVIOUS
      <4> QED BY <1>1, <3>3, <4>1, <4>2, <4>3
    <3>4. CASE /\ mentions[n][task[u].name] = <<>>
               /\ ~(n \in task[t].adds /\ task[u].name = task[t].name)
      BY <1>2, <2>3, <3>4
    <3> QED BY <3>1, <3>2, <3>3, <3>4
  <2> QED BY <2>1, <2>4, <2>5 DEF LooksHold
<1> QED BY <1>3, <1>4, <1>5, <1>6 DEF SharesInv
-----------------------------------------------------------------------------
\* Nothing is written to the mentions.
LEMMA UnwrittenFacts ==
    ASSUME SharesTypes, mentions' = mentions
    PROVE  /\ mentions' \in [News -> [Shares!Names -> Seq(Shares!Mentions)]] /\ MentionsGrow
           /\ \A n \in News, name \in Shares!Names :
                Len(mentions'[n][name]) = Len(mentions[n][name])
<1>1. mentions' \in [News -> [Shares!Names -> Seq(Shares!Mentions)]]
  BY DEF SharesTypes
<1>2. ASSUME NEW n \in News, NEW name \in Shares!Names
      PROVE  /\ Len(mentions'[n][name]) >= Len(mentions[n][name])
             /\ \A i \in 1..Len(mentions[n][name]) :
                  mentions'[n][name][i].confidence >= mentions[n][name][i].confidence
  <2>1. mentions[n][name] \in Seq(Shares!Mentions)
    BY DEF SharesTypes
  <2>2. /\ Len(mentions[n][name]) \in Nat
        /\ \A i \in 1..Len(mentions[n][name]) : mentions[n][name][i].confidence \in Nat
    BY <2>1, MentionFacts
  <2> QED BY <2>2
<1>3. MentionsGrow
  BY <1>2 DEF MentionsGrow
<1> QED BY <1>1, <1>3

\* A share is asked for: none that is stored is another name of it.
LEMMA AskCreateKeeps ==
    ASSUME SharesInv, NEW t \in Threads, Shares!AskCreate(t) PROVE SharesInv'
<1>1. PICK r \in Entries :
        /\ Shares!Candidates(r) \intersect watched = {}
        /\ task' = [task EXCEPT ![t] =
             [pc |-> "create", name |-> Shares!StoredName(r), market |-> r.market, adds |-> {},
              row |-> Shares!Row("keyword", 60), saw |-> watched]]
  BY DEF Shares!AskCreate
<1> DEFINE k == [pc |-> "create", name |-> Shares!StoredName(r), market |-> r.market, adds |-> {},
                 row |-> Shares!Row("keyword", 60), saw |-> watched]
<1>2. r.name \in Shares!Names /\ r.market \in STRING
  BY SharesAssumption DEF Shares!Names
<1>3. Shares!StoredName(r) \in Shares!Names
  BY <1>2, SharesAssumption DEF Shares!StoredName, Shares!Names
<1>4. k \in Shares!Tasks
  <2>1. Shares!Row("keyword", 60) \in Shares!Mentions
    BY DEF Shares!Row, Shares!Mentions
  <2> QED BY <1>2, <1>3, <2>1 DEF Shares!Tasks, Shares!Creations, SharesInv, SharesTypes
<1>5. CreationIsSound(k)
  <2> SUFFICES ASSUME r.market = "cn", NEW other \in watched PROVE Normal[other] # Normal[r.name]
    BY DEF CreationIsSound, Shares!StoredName
  <2> QED BY <1>1 DEF Shares!Candidates, SharesInv, SharesTypes
<1>6. TaskIsSound(k, mentions, found)
  BY <1>5 DEF TaskIsSound
<1>7. LooksHold(t, k, mentions, outrun')
  BY DEF LooksHold
<1>8. OneGoesOn(t, k)
  BY <1>1 DEF OneGoesOn
<1> HIDE DEF k
<1>9. k.pc = "create"
  BY DEF k
<1> QED BY <1>4, <1>6, <1>7, <1>8, <1>9, TaskMoves DEF Shares!AskCreate

\* It is stored, and the news that name it are looked up.
LEMMA CreateKeeps ==
    ASSUME SharesInv, NEW t \in Threads, Shares!Create(t) PROVE SharesInv'
<1>1. task[t] # None /\ task[t].pc = "create" /\ shareWriter = None
  BY DEF Shares!Create, Shares!Does
<1>2. task[t] \in Shares!Creations
  BY <1>1, TaskFacts DEF SharesInv
<1> DEFINE matched == Naming[task[t].name] \intersect found
           k == [task[t] EXCEPT !.pc = "created",
                                !.adds = {n \in matched : Shares!Missing(t, n)}]
<1>3. CASE task[t].name \in watched
  <2>1. Shares!Leaves(t) /\ UNCHANGED <<watched, found, mentions>>
    BY <1>3 DEF Shares!Create
  <2>2. SharesTypes
    BY DEF SharesInv
  <2> QED BY <1>1, <2>1, <2>2, LeavingKeeps, UnwrittenFacts DEF SharesTypes
<1>4. CASE task[t].name \notin watched
  <2>1. /\ shareWriter' = t
        /\ task' = [task EXCEPT ![t].pc = "created",
                                ![t].adds = {n \in matched : Shares!Missing(t, n)}]
        /\ outrun' = {o \in outrun : o[1] # t}
        /\ UNCHANGED <<watched, found, mentions>>
    BY <1>4 DEF Shares!Create
  <2>2. /\ k.pc = "created" /\ k.name = task[t].name /\ k.market = task[t].market
        /\ k.saw = task[t].saw /\ k.adds = {n \in matched : Shares!Missing(t, n)}
        /\ k \in Shares!Creations
    <3>1. matched \subseteq News
      BY DEF SharesInv, SharesTypes
    <3>2. {n \in matched : Shares!Missing(t, n)} \in SUBSET News
      BY <3>1
    <3> HIDE DEF matched
    <3> QED BY <1>2, <3>2 DEF Shares!Creations
  <2>3. OneGoesOn(t, k)
    BY <1>2, <2>1 DEF OneGoesOn, SharesInv, SharesTypes, Shares!Creations
  <2>4. TaskIsSound(task[t], mentions, found)
    BY <1>1 DEF SharesInv
  <2> HIDE DEF k
  <2>5. TaskIsSound(k, mentions, found)
    <3>1. CreationIsSound(task[t])
      BY <1>1, <2>4 DEF TaskIsSound
    <3>2. CreationIsSound(k)
      BY <2>2, <3>1 DEF CreationIsSound
    <3>3. k.adds \subseteq found
      BY <2>2
    <3> QED BY <2>2, <3>2, <3>3 DEF TaskIsSound
  <2>6. LooksHold(t, k, mentions, outrun')
    BY <2>2 DEF LooksHold, Shares!Missing
  <2>7. k \in Shares!Tasks
    BY <2>2 DEF Shares!Tasks
  <2>8. \A u \in Threads, n \in News : u # t => (<<u, n>> \in outrun => <<u, n>> \in outrun')
    BY <2>1
  <2> QED BY <1>1, <2>1, <2>3, <2>5, <2>6, <2>7, <2>8, TaskMoves
<1> QED BY <1>3, <1>4

\* The request ends, with or without its commit.
LEMMA EndCreateKeeps ==
    ASSUME SharesInv, NEW t \in Threads, Shares!EndCreate(t) PROVE SharesInv'
<1>1. task[t] # None /\ task[t].pc = "created" /\ found' = found
  BY DEF Shares!EndCreate, Shares!Does
<1>2. CASE Shares!Commits(t) /\ watched' = watched \union {task[t].name}
  <2>1. task[t].name \in Shares!Names
    BY <1>1, TaskFacts DEF SharesInv
  <2>2. task[t].adds \subseteq found
    BY <1>1 DEF SharesInv, TaskIsSound
  <2>3. watched' \in SUBSET Shares!Names /\ found' \subseteq News
    BY <1>1, <1>2, <2>1 DEF SharesInv, SharesTypes
  <2> QED BY <1>1, <1>2, <2>2, <2>3, CommittingKeeps
<1>3. CASE Shares!Leaves(t) /\ UNCHANGED <<watched, mentions>>
  <2>1. SharesTypes
    BY DEF SharesInv
  <2> QED BY <1>1, <1>3, <2>1, LeavingKeeps, UnwrittenFacts DEF SharesTypes
<1> QED BY <1>2, <1>3 DEF Shares!EndCreate

\* A search begins with what the queries found.
LEMMA StartSearchKeeps ==
    ASSUME SharesInv, NEW t \in Threads, Shares!StartSearch(t) PROVE SharesInv'
<1>1. PICK name \in Shares!Names, hits \in Shares!Found :
        task' = [task EXCEPT ![t] =
          [pc |-> "store", name |-> name, adds |-> {}, row |-> Shares!Row("search", 70),
           found |-> hits, new |-> {}, todo |-> hits]]
  BY DEF Shares!StartSearch
<1> DEFINE k == [pc |-> "store", name |-> name, adds |-> {}, row |-> Shares!Row("search", 70),
                 found |-> hits, new |-> {}, todo |-> hits]
<1>2. k \in Shares!Tasks
  <2>1. Shares!Row("search", 70) \in Shares!Mentions
    BY DEF Shares!Row, Shares!Mentions
  <2>2. hits \in SUBSET News
    BY DEF Shares!Found
  <2> QED BY <2>1, <2>2 DEF Shares!Tasks, Shares!Searching
<1>3. TaskIsSound(k, mentions, found) /\ LooksHold(t, k, mentions, outrun')
  BY DEF TaskIsSound, SearchIsSound, LooksHold
<1>4. OneGoesOn(t, k) /\ k.pc = "store"
  BY <1>1 DEF OneGoesOn
<1> HIDE DEF k
<1> QED BY <1>2, <1>3, <1>4, TaskMoves DEF Shares!StartSearch

\* One of the news is looked up.
LEMMA LookKeeps ==
    ASSUME SharesInv, NEW t \in Threads, Shares!Look(t) PROVE SharesInv'
<1> DEFINE n == CHOOSE n \in task[t].todo : TRUE
<1>1. /\ task[t] # None /\ task[t].pc = "store" /\ n \in task[t].todo
      /\ outrun' = outrun \ {<<t, n>>}
      /\ UNCHANGED <<watched, found, mentions, shareWriter>>
      /\ task' = IF n \in found
                 THEN [task EXCEPT ![t].todo = @ \ {n},
                                   ![t].adds = IF Shares!Missing(t, n) THEN @ \union {n} ELSE @]
                 ELSE [task EXCEPT ![t].pc = "insert"]
  BY DEF Shares!Look, Shares!Does
<1> HIDE DEF n
<1>2. task[t] \in Shares!Searching
  BY <1>1, TaskFacts DEF SharesInv
<1>3. /\ SearchIsSound(task[t], mentions, found) /\ LooksHold(t, task[t], mentions, outrun)
      /\ n \in News /\ n \notin task[t].adds
  BY <1>1, <1>2 DEF SharesInv, TaskIsSound, SearchIsSound, Shares!Searching
<1>4. \A u \in Threads, o \in News : u # t => (<<u, o>> \in outrun => <<u, o>> \in outrun')
  BY <1>1
<1>5. \A o \in News : o # n /\ <<t, o>> \in outrun => <<t, o>> \in outrun'
  BY <1>1
<1>6. CASE n \in found
  <2> DEFINE adds == IF Shares!Missing(t, n) THEN task[t].adds \union {n} ELSE task[t].adds
             k == [task[t] EXCEPT !.todo = @ \ {n}, !.adds = adds]
  <2>1. adds \in SUBSET News
    BY <1>2, <1>3 DEF Shares!Searching
  <2>2. OneGoesOn(t, k)
    BY <1>1, <1>2, <1>6 DEF OneGoesOn, SharesInv, SharesTypes, Shares!Searching
  <2>3. adds = IF mentions[n][task[t].name] = <<>> THEN task[t].adds \union {n} ELSE task[t].adds
    BY DEF Shares!Missing
  <2> HIDE DEF adds
  <2>4. /\ k.pc = "store" /\ k.name = task[t].name /\ k.found = task[t].found
        /\ k.new = task[t].new /\ k.todo = task[t].todo \ {n} /\ k.adds = adds
        /\ k \in Shares!Searching
    BY <1>1, <1>2, <2>1 DEF Shares!Searching
  <2> HIDE DEF k
  <2>5. SearchIsSound(k, mentions, found)
    BY <1>1, <1>3, <1>6, <2>3, <2>4 DEF SearchIsSound
  <2>6. LooksHold(t, k, mentions, outrun')
    <3> SUFFICES ASSUME NEW o \in adds
                 PROVE  mentions[o][task[t].name] = <<>> \/ <<t, o>> \in outrun'
      BY <2>4 DEF LooksHold
    <3>1. CASE o \in task[t].adds
      BY <1>2, <1>3, <1>5, <3>1 DEF LooksHold, Shares!Searching
    <3>2. CASE o \notin task[t].adds
      BY <2>3, <3>2
    <3> QED BY <3>1, <3>2
  <2>7. k \in Shares!Tasks /\ TaskIsSound(k, mentions, found)
    BY <2>4, <2>5 DEF Shares!Tasks, TaskIsSound
  <2> QED BY <1>1, <1>4, <2>2, <2>4, <2>6, <2>7, TaskMoves
<1>7. CASE n \notin found
  <2> DEFINE k == [task[t] EXCEPT !.pc = "insert"]
  <2>1. OneGoesOn(t, k)
    BY <1>1, <1>2, <1>7 DEF OneGoesOn, SharesInv, SharesTypes
  <2>2. /\ k.pc = "insert" /\ k.name = task[t].name /\ k.found = task[t].found
        /\ k.new = task[t].new /\ k.todo = task[t].todo /\ k.adds = task[t].adds
        /\ k \in Shares!Searching
    BY <1>2 DEF Shares!Searching
  <2> HIDE DEF k
  <2>3. SearchIsSound(k, mentions, found)
    BY <1>1, <1>3, <2>2 DEF SearchIsSound
  <2>4. LooksHold(t, k, mentions, outrun')
    BY <1>2, <1>3, <1>5, <2>2 DEF LooksHold, Shares!Searching
  <2>5. k \in Shares!Tasks /\ TaskIsSound(k, mentions, found)
    BY <2>2, <2>3 DEF Shares!Tasks, TaskIsSound
  <2> QED BY <1>1, <1>4, <2>1, <2>2, <2>4, <2>5, TaskMoves
<1> QED BY <1>6, <1>7

\* News are stored that no one has stored.
LEMMA InsertNewsKeeps ==
    ASSUME SharesInv, NEW t \in Threads, Shares!Insert(t) PROVE SharesInv'
<1> DEFINE n == CHOOSE n \in task[t].todo : TRUE
<1>1. task[t] # None /\ task[t].pc = "insert" /\ shareWriter \in {None, t}
  BY DEF Shares!Insert, Shares!Does, Shares!MayWrite
<1>2. UNCHANGED <<watched, found, mentions>>
  BY DEF Shares!Insert
<1>3. task[t] \in Shares!Searching
  BY <1>1, TaskFacts DEF SharesInv
<1>4. CASE n \in found
  <2>1. Shares!Leaves(t)
    BY <1>4 DEF Shares!Insert
  <2>2. SharesTypes
    BY DEF SharesInv
  <2> QED BY <1>1, <1>2, <2>1, <2>2, LeavingKeeps, UnwrittenFacts DEF SharesTypes
<1>5. CASE n \notin found
  <2>1. /\ shareWriter' = t /\ outrun' = outrun
        /\ task' = [task EXCEPT ![t].pc = "store", ![t].todo = @ \ {n},
                                ![t].new = @ \union {n}, ![t].adds = @ \union {n}]
    BY <1>5 DEF Shares!Insert
  <2> DEFINE k == [task[t] EXCEPT !.pc = "store", !.todo = @ \ {n},
                                  !.new = @ \union {n}, !.adds = @ \union {n}]
  <2>2. n \in task[t].todo /\ n \in News
    <3>1. task[t].todo # {}
      BY <1>1 DEF SharesInv, TaskIsSound, SearchIsSound
    <3> QED BY <1>3, <3>1 DEF Shares!Searching
  <2> HIDE DEF n
  <2>3. OneGoesOn(t, k)
    BY <1>3, <2>1 DEF OneGoesOn, SharesInv, SharesTypes, Shares!Searching
  <2>4. /\ k.pc = "store" /\ k.name = task[t].name /\ k.found = task[t].found
        /\ k.new = task[t].new \union {n} /\ k.todo = task[t].todo \ {n}
        /\ k.adds = task[t].adds \union {n} /\ k \in Shares!Searching
    BY <1>3, <2>2 DEF Shares!Searching
  <2> HIDE DEF k
  <2>5. SearchIsSound(task[t], mentions, found) /\ LooksHold(t, task[t], mentions, outrun)
    BY <1>1 DEF SharesInv, TaskIsSound
  <2>6. SearchIsSound(k, mentions, found)
    BY <2>4, <2>5 DEF SearchIsSound
  <2>7. LooksHold(t, k, mentions, outrun')
    <3>1. mentions[n][task[t].name] = <<>>
      BY <1>3, <1>5, <2>2 DEF SharesInv, Shares!Searching
    <3> QED BY <2>1, <2>4, <2>5, <3>1 DEF LooksHold
  <2>8. k \in Shares!Tasks /\ TaskIsSound(k, mentions, found)
    BY <2>4, <2>6 DEF Shares!Tasks, TaskIsSound
  <2>9. shareWriter' \in {shareWriter, t} /\ (shareWriter' # shareWriter => shareWriter = None)
    BY <1>1, <2>1
  <2> QED BY <1>2, <2>1, <2>3, <2>4, <2>7, <2>8, <2>9, TaskMoves
<1> QED BY <1>4, <1>5

\* All that was found is stored with one commit, or nothing is.
LEMMA EndSearchKeeps ==
    ASSUME SharesInv, NEW t \in Threads, Shares!EndSearch(t) PROVE SharesInv'
<1>1. /\ task[t] # None /\ task[t].pc = "store" /\ Shares!Commits(t)
      /\ found' = found \union task[t].new /\ watched' = watched
  BY DEF Shares!EndSearch, Shares!Does
<1>2. task[t] \in Shares!Searching
  BY <1>1, TaskFacts DEF SharesInv
<1>3. task[t].adds \subseteq found \union task[t].new
  BY <1>1 DEF SharesInv, TaskIsSound, SearchIsSound
<1>4. found' \subseteq News /\ watched' \in SUBSET Shares!Names
  BY <1>1, <1>2 DEF SharesInv, SharesTypes, Shares!Searching
<1> QED BY <1>1, <1>3, <1>4, CommittingKeeps

\* A search that is lost stores nothing.
LEMMA LoseSearchKeeps ==
    ASSUME SharesInv, NEW t \in Threads, Shares!LoseSearch(t) PROVE SharesInv'
<1>1. /\ task[t] # None /\ Shares!Leaves(t)
      /\ UNCHANGED <<watched, found, mentions>>
  BY DEF Shares!LoseSearch, Shares!Does
<1>2. SharesTypes
  BY DEF SharesInv
<1> QED BY <1>1, <1>2, LeavingKeeps, UnwrittenFacts DEF SharesTypes

\* The pipeline looks up a hit.
LEMMA ApplyHitKeeps ==
    ASSUME SharesInv, NEW t \in Threads, Shares!ApplyHit(t) PROVE SharesInv'
<1>1. PICK h \in Hits, early \in BOOLEAN :
        /\ h.news \in found /\ (early \/ shareWriter = None)
        /\ shareWriter' = IF early THEN shareWriter ELSE t
        /\ task' = [task EXCEPT ![t] =
             [pc |-> "applied", name |-> h.name, row |-> Shares!Row("rule", h.confidence),
              hit |-> h.news,
              adds |-> IF mentions[h.news][h.name] = <<>> THEN {h.news} ELSE {}]]
  BY DEF Shares!ApplyHit
<1>2. UNCHANGED <<watched, found, mentions, outrun>>
  BY DEF Shares!ApplyHit
<1> DEFINE adds == IF mentions[h.news][h.name] = <<>> THEN {h.news} ELSE {}
           k == [pc |-> "applied", name |-> h.name, row |-> Shares!Row("rule", h.confidence),
                 hit |-> h.news, adds |-> adds]
<1>3. h.news \in News /\ h.name \in Shares!Names /\ h.confidence \in Nat
  BY SharesAssumption DEF Shares!Names
<1>4. /\ k.pc = "applied" /\ k.name = h.name /\ k.hit = h.news /\ k.adds = adds
      /\ k \in Shares!Applying
  <2>1. Shares!Row("rule", h.confidence) \in Shares!Mentions
    BY <1>3 DEF Shares!Row, Shares!Mentions
  <2>2. adds \in SUBSET News
    BY <1>3
  <2> HIDE DEF adds
  <2> QED BY <1>3, <2>1, <2>2 DEF Shares!Applying
<1>5. OneGoesOn(t, k)
  BY <1>1 DEF OneGoesOn
<1> HIDE DEF k
<1>6. k \in Shares!Tasks /\ TaskIsSound(k, mentions, found)
  BY <1>1, <1>4 DEF Shares!Tasks, TaskIsSound
<1>7. LooksHold(t, k, mentions, outrun')
  BY <1>4 DEF LooksHold
<1>8. shareWriter' \in {shareWriter, t} /\ (shareWriter' # shareWriter => shareWriter = None)
  BY <1>1
<1> QED BY <1>2, <1>4, <1>5, <1>6, <1>7, <1>8, TaskMoves

\* What the end of a hit writes: a row, or a confidence.
LEMMA EndApplyFacts ==
    ASSUME SharesInv, NEW t \in Threads, Shares!EndApply(t)
    PROVE  /\ task[t] \in Shares!Applying /\ task[t] # None
           /\ UNCHANGED <<watched, found>> /\ task[t].adds \subseteq found
           /\ \/ task[t].adds # {} /\ Shares!Commits(t)
              \/ /\ mentions' = [mentions EXCEPT ![task[t].hit][task[t].name] =
                                    Shares!Raised(@, task[t].row)]
                 /\ Shares!Leaves(t)
<1>1. task[t] # None /\ task[t].pc = "applied" /\ UNCHANGED <<watched, found>>
  BY DEF Shares!EndApply, Shares!Does
<1>2. task[t] \in Shares!Applying
  BY <1>1, TaskFacts DEF SharesInv
<1>3. task[t].adds \subseteq found
  BY <1>1 DEF SharesInv, TaskIsSound
<1> QED BY <1>1, <1>2, <1>3 DEF Shares!EndApply

\* It ends.
LEMMA EndApplyKeeps ==
    ASSUME SharesInv, NEW t \in Threads, Shares!EndApply(t) PROVE SharesInv'
<1> USE EndApplyFacts
<1>1. SharesTypes
  BY DEF SharesInv
<1>2. CASE Shares!Commits(t)
  <2>1. found' \subseteq News /\ watched' \in SUBSET Shares!Names /\ found \subseteq found'
    BY <1>1 DEF SharesTypes
  <2> QED BY <1>2, <2>1, CommittingKeeps
<1>3. CASE /\ mentions' = [mentions EXCEPT ![task[t].hit][task[t].name] =
                              Shares!Raised(@, task[t].row)]
           /\ Shares!Leaves(t)
  <2>1. /\ task[t].hit \in News /\ task[t].name \in Shares!Names
        /\ task[t].row \in Shares!Mentions
    BY DEF Shares!Applying
  <2>2. watched' \in SUBSET Shares!Names
    BY <1>1 DEF SharesTypes
  <2> QED BY <1>1, <1>3, <2>1, <2>2, LeavingKeeps, RaisedFacts
<1> QED BY <1>2, <1>3

\* The invariant holds at first.
LEMMA SharesInitInv == Shares!Init => SharesInv
<1> SUFFICES ASSUME Shares!Init PROVE SharesInv
  OBVIOUS
<1>1. watched = {} /\ found \in SUBSET News /\ shareWriter = None /\ outrun = {}
  BY DEF Shares!Init
<1>2. /\ mentions = [n \in News |-> [name \in Shares!Names |-> <<>>]]
      /\ task = [t \in Threads |-> None]
  BY DEF Shares!Init
<1>3. mentions \in [News -> [Shares!Names -> Seq(Shares!Mentions)]]
  BY <1>2
<1>4. SharesTypes
  BY <1>1, <1>2, <1>3 DEF SharesTypes
<1>5. LockIsKept
  BY <1>1, <1>2 DEF LockIsKept, Shares!Does
<1> QED BY <1>2, <1>4, <1>5 DEF SharesInv

\* A step of a thread.
SharesStep(t) ==
    \/ Shares!AskCreate(t) \/ Shares!Create(t) \/ Shares!EndCreate(t)
    \/ Shares!StartSearch(t) \/ Shares!Look(t) \/ Shares!Insert(t) \/ Shares!EndSearch(t)
    \/ Shares!LoseSearch(t) \/ Shares!ApplyHit(t) \/ Shares!EndApply(t)

\* A step of the user, or none: no thread sees it but in the watchlist.
SharesIdle ==
    /\ watched' \subseteq watched
    /\ UNCHANGED <<found, mentions, task, shareWriter, outrun>>

\* Every step is one of these.
LEMMA SharesSteps ==
    ASSUME [Shares!Next]_sharesVars
    PROVE  SharesIdle \/ \E t \in Threads : SharesStep(t)
<1>1. CASE Shares!Delete \/ Shares!ViewRelated \/ UNCHANGED sharesVars
  BY <1>1 DEF Shares!Delete, Shares!ViewRelated, sharesVars, SharesIdle
<1>2. CASE \E t \in Threads : SharesStep(t)
  BY <1>2
<1> QED BY <1>1, <1>2 DEF Shares!Next, SharesStep

\* Every step keeps the invariant.
LEMMA SharesNextInv == SharesInv /\ [Shares!Next]_sharesVars => SharesInv'
<1> SUFFICES ASSUME SharesInv, [Shares!Next]_sharesVars PROVE SharesInv'
  OBVIOUS
<1>1. CASE SharesIdle
  <2>1. SharesTypes' /\ LockIsKept'
    BY <1>1 DEF SharesIdle, SharesInv, SharesTypes, LockIsKept, Shares!Does
  <2> QED BY <1>1, <2>1 DEF SharesIdle, SharesInv, TaskIsSound, SearchIsSound, LooksHold
<1>2. ASSUME NEW t \in Threads, SharesStep(t) PROVE SharesInv'
  BY <1>2, AskCreateKeeps, CreateKeeps, EndCreateKeeps, StartSearchKeeps, LookKeeps,
     InsertNewsKeeps, EndSearchKeeps, LoseSearchKeeps, ApplyHitKeeps, EndApplyKeeps DEF SharesStep
<1> QED BY <1>1, <1>2, SharesSteps
-----------------------------------------------------------------------------
\* What a step of t writes: nothing, what it added, or a confidence.
Writes(t) ==
    \/ UNCHANGED <<found, mentions>>
    \/ /\ task[t] # None /\ Shares!Commits(t)
       /\ found' = IF task[t].pc = "store" THEN found \union task[t].new ELSE found
    \/ /\ task[t] \in Shares!Applying /\ task[t] # None /\ found' = found
       /\ mentions' = [mentions EXCEPT ![task[t].hit][task[t].name] =
                         Shares!Raised(@, task[t].row)]

\* No step writes anything else.
LEMMA StepWrites ==
    ASSUME SharesInv, NEW t \in Threads, SharesStep(t) PROVE Writes(t)
<1>1. CASE \/ Shares!AskCreate(t) \/ Shares!Create(t) \/ Shares!StartSearch(t)
           \/ Shares!Look(t) \/ Shares!Insert(t) \/ Shares!LoseSearch(t) \/ Shares!ApplyHit(t)
  BY <1>1 DEF Writes, Shares!AskCreate, Shares!Create, Shares!StartSearch, Shares!Look,
     Shares!Insert, Shares!LoseSearch, Shares!ApplyHit
<1>2. CASE Shares!EndCreate(t)
  BY <1>2 DEF Writes, Shares!EndCreate, Shares!Does
<1>3. CASE Shares!EndSearch(t)
  BY <1>3 DEF Writes, Shares!EndSearch, Shares!Does
<1>4. CASE Shares!EndApply(t)
  <2>1. task[t].pc # "store"
    BY <1>4, EndApplyFacts DEF Shares!Applying
  <2> QED BY <1>4, <2>1, EndApplyFacts DEF Writes
<1> QED BY <1>1, <1>2, <1>3, <1>4 DEF SharesStep

\* A thread steps alone.
LEMMA StepsAlone ==
    ASSUME SharesInv, NEW t \in Threads, SharesStep(t), NEW u \in Threads, u # t
    PROVE  task'[u] = task[u]
<1>1. CASE \/ Shares!AskCreate(t) \/ Shares!StartSearch(t) \/ Shares!Look(t) \/ Shares!ApplyHit(t)
  BY <1>1 DEF SharesInv, SharesTypes, Shares!AskCreate, Shares!StartSearch, Shares!Look,
     Shares!ApplyHit
<1>2. CASE Shares!Create(t) \/ Shares!Insert(t)
  BY <1>2 DEF SharesInv, SharesTypes, Shares!Create, Shares!Insert, Shares!Leaves
<1>3. CASE \/ Shares!EndCreate(t) \/ Shares!EndSearch(t) \/ Shares!LoseSearch(t)
           \/ Shares!EndApply(t)
  BY <1>3 DEF SharesInv, SharesTypes, Shares!EndCreate, Shares!EndSearch, Shares!LoseSearch,
     Shares!EndApply, Shares!Leaves, Shares!Commits
<1> QED BY <1>1, <1>2, <1>3 DEF SharesStep

\* Mentions stay, and rows come with a commit.
LEMMA RowsStay ==
    ASSUME SharesInv, NEW t \in Threads, SharesStep(t)
    PROVE  /\ MentionsGrow
           /\ \A n \in News, name \in Shares!Names :
                Len(mentions'[n][name]) > Len(mentions[n][name]) =>
                  Shares!Commits(t) /\ task[t] # None /\ n \in task[t].adds /\ name = task[t].name
<1>1. SharesTypes
  BY DEF SharesInv
<1>2. \A n \in News, name \in Shares!Names : Len(mentions[n][name]) \in Nat
  BY <1>1 DEF SharesTypes
<1>3. CASE UNCHANGED <<found, mentions>>
  BY <1>1, <1>2, <1>3, UnwrittenFacts
<1>4. CASE task[t] # None /\ Shares!Commits(t)
  <2>1. mentions' = Shares!Written(t)
    BY <1>4 DEF Shares!Commits
  <2>2. \A n \in News, name \in Shares!Names :
          Len(mentions'[n][name]) > Len(mentions[n][name]) =>
            n \in task[t].adds /\ name = task[t].name
    BY <1>1, <1>2, <1>4, <2>1, WrittenFacts
  <2> QED BY <1>1, <1>4, <2>1, <2>2, WrittenFacts
<1>5. CASE /\ task[t] \in Shares!Applying
           /\ mentions' = [mentions EXCEPT ![task[t].hit][task[t].name] =
                             Shares!Raised(@, task[t].row)]
  <2>1. /\ task[t].hit \in News /\ task[t].name \in Shares!Names
        /\ task[t].row \in Shares!Mentions
    BY <1>5 DEF Shares!Applying
  <2>2. /\ MentionsGrow
        /\ \A n \in News, name \in Shares!Names :
             Len(mentions'[n][name]) = Len(mentions[n][name])
    BY <1>1, <1>5, <2>1, RaisedFacts
  <2> QED BY <1>2, <2>2
<1> QED BY <1>3, <1>4, <1>5, StepWrites DEF Writes

\* A row that is a second one was looked for before the first one was written.
LEMMA SecondRowsOverlap ==
    ASSUME SharesInv, NEW t \in Threads, SharesStep(t), NEW n \in News, NEW name \in Shares!Names,
           Len(mentions'[n][name]) > Len(mentions[n][name]), Len(mentions[n][name]) > 0
    PROVE  task[t] # None /\ task'[t] = None /\ <<t, n>> \in outrun
<1>1. Shares!Commits(t) /\ task[t] # None /\ n \in task[t].adds /\ name = task[t].name
  BY RowsStay
<1>2. task'[t] = None
  BY <1>1 DEF Shares!Commits, SharesInv, SharesTypes
<1>3. mentions[n][name] # <<>>
  BY DEF SharesInv, SharesTypes
<1> QED BY <1>1, <1>2, <1>3 DEF SharesInv, LooksHold

\* News come with the share they were searched for.
LEMMA NewsComeRelated ==
    ASSUME SharesInv, NEW t \in Threads, SharesStep(t), NEW n \in News, n \in found' \ found
    PROVE  \E name \in Shares!Names : Len(mentions'[n][name]) > 0
<1>1. task[t] # None /\ Shares!Commits(t) /\ task[t].pc = "store" /\ n \in task[t].new
  BY StepWrites DEF Writes
<1>2. task[t].name \in Shares!Names /\ task[t].row \in Shares!Mentions
  BY <1>1, TaskFacts DEF SharesInv
<1>3. n \in task[t].adds
  BY <1>1 DEF SharesInv, TaskIsSound, SearchIsSound
<1>4. mentions'[n][task[t].name] = Append(mentions[n][task[t].name], task[t].row)
  BY <1>1, <1>2, <1>3, WrittenFacts DEF Shares!Commits, SharesInv
<1>5. mentions[n][task[t].name] \in Seq(Shares!Mentions)
  BY <1>2 DEF SharesInv, SharesTypes
<1>6. Len(mentions'[n][task[t].name]) > 0
  BY <1>2, <1>4, <1>5
<1> QED BY <1>2, <1>6

\* A search that ends has stored all it found, or nothing.
LEMMA SearchesAreWhole ==
    ASSUME SharesInv, NEW t \in Threads, SharesStep(t), Shares!Does(t, "store"), task'[t] = None
    PROVE  \/ UNCHANGED <<found, mentions>>
           \/ \A n \in task[t].found : n \in found' /\ mentions'[n][task[t].name] # <<>>
<1>1. task[t] # None /\ task[t].pc = "store"
  BY DEF Shares!Does
<1>2. task[t] \in Shares!Searching
  BY <1>1, TaskFacts DEF SharesInv
<1>3. CASE Shares!EndSearch(t)
  <2>1. /\ task[t].todo = {} /\ Shares!Commits(t) /\ found' = found \union task[t].new
    BY <1>3 DEF Shares!EndSearch
  <2>2. SearchIsSound(task[t], mentions, found)
    BY <1>1 DEF SharesInv, TaskIsSound
  <2>3. SharesTypes /\ mentions' = Shares!Written(t)
    BY <2>1 DEF SharesInv, Shares!Commits
  <2>4. \A n \in News, name \in Shares!Names :
          mentions'[n][name] = IF n \in task[t].adds /\ name = task[t].name
                               THEN Append(mentions[n][name], task[t].row)
                               ELSE mentions[n][name]
    BY <1>1, <2>3, WrittenFacts
  <2> SUFFICES ASSUME NEW n \in task[t].found
               PROVE  n \in found' /\ mentions'[n][task[t].name] # <<>>
    OBVIOUS
  <2>5. /\ n \in News /\ task[t].name \in Shares!Names /\ task[t].row \in Shares!Mentions
    BY <1>2 DEF Shares!Searching
  <2>6. mentions[n][task[t].name] \in Seq(Shares!Mentions)
    BY <2>3, <2>5 DEF SharesTypes
  <2>7. Append(mentions[n][task[t].name], task[t].row) # <<>>
    BY <2>5, <2>6
  <2>8. n \in found \union task[t].new
        /\ (n \in task[t].adds \/ mentions[n][task[t].name] # <<>>)
    BY <2>1, <2>2 DEF SearchIsSound
  <2> QED BY <2>1, <2>4, <2>5, <2>7, <2>8
<1>4. CASE Shares!LoseSearch(t)
  BY <1>4 DEF Shares!LoseSearch
<1>5. ~Shares!Look(t)
  <2> SUFFICES ASSUME Shares!Look(t) PROVE FALSE
    OBVIOUS
  <2>1. task'[t] # None
    <3> DEFINE n == CHOOSE n \in task[t].todo : TRUE
               adds == IF Shares!Missing(t, n) THEN task[t].adds \union {n} ELSE task[t].adds
               k == [task[t] EXCEPT !.todo = @ \ {n}, !.adds = adds]
               j == [task[t] EXCEPT !.pc = "insert"]
    <3>1. n \in task[t].todo
      BY DEF Shares!Look
    <3>2. n \in News
      BY <1>2, <3>1 DEF Shares!Searching
    <3>3. task' = IF n \in found
                  THEN [task EXCEPT ![t].todo = @ \ {n},
                                    ![t].adds = IF Shares!Missing(t, n) THEN @ \union {n} ELSE @]
                  ELSE [task EXCEPT ![t].pc = "insert"]
      BY DEF Shares!Look
    <3> HIDE DEF n
    <3>4. task'[t] = k \/ task'[t] = j
      BY <1>2, <3>3 DEF SharesInv, SharesTypes, Shares!Searching
    <3>5. adds \in SUBSET News
      BY <1>2, <3>2 DEF Shares!Searching
    <3> HIDE DEF adds
    <3>6. k \in Shares!Searching /\ j \in Shares!Searching
      BY <1>2, <3>5 DEF Shares!Searching
    <3> QED BY <3>4, <3>6, TasksAssumption DEF Shares!Tasks
  <2> QED BY <2>1
<1>6. ~(\/ Shares!AskCreate(t) \/ Shares!Create(t) \/ Shares!EndCreate(t) \/ Shares!StartSearch(t)
        \/ Shares!Insert(t) \/ Shares!ApplyHit(t) \/ Shares!EndApply(t))
  BY <1>1 DEF Shares!AskCreate, Shares!Create, Shares!EndCreate, Shares!StartSearch, Shares!Insert,
     Shares!ApplyHit, Shares!EndApply, Shares!Does
<1> QED BY <1>3, <1>4, <1>5, <1>6 DEF SharesStep

\* What the invariant says of the types.
LEMMA SharesInvSuffices == SharesInv => Shares!TypeOK
<1> SUFFICES ASSUME SharesInv PROVE Shares!TypeOK
  OBVIOUS
<1>1. \A t \in Threads, u \in Threads :
        Shares!Does(t, "created") /\ Shares!Does(u, "created") => t = u
  BY DEF SharesInv, LockIsKept
<1>2. shareWriter # None => task[shareWriter] # None
  BY DEF SharesInv, LockIsKept
<1> QED BY <1>1, <1>2 DEF SharesInv, SharesTypes, Shares!TypeOK

\* A step of the instance is as the property wants it.
LEMMA SharesSoundStep ==
    ASSUME SharesInv, [Shares!Next]_sharesVars, Shares!TypeOK'
    PROVE  Shares!SoundStep
<1>1. SharesTypes
  BY DEF SharesInv
<1>2. \A n \in News, name \in Shares!Names : Len(mentions[n][name]) \in Nat
  BY <1>1 DEF SharesTypes
<1>3. /\ MentionsGrow
      /\ \A n \in News, name \in Shares!Names :
           Len(mentions'[n][name]) > Len(mentions[n][name]) /\ Len(mentions[n][name]) > 0 =>
             \E t \in Threads : task[t] # None /\ task'[t] = None /\ <<t, n>> \in outrun
      /\ \A n \in News : n \in found' \ found =>
           \E other \in Shares!Names : Len(mentions'[n][other]) > 0
      /\ \A t \in Threads : Shares!Does(t, "store") /\ task'[t] = None =>
           \/ UNCHANGED <<found, mentions>>
           \/ \A n \in task[t].found : n \in found' /\ mentions'[n][task[t].name] # <<>>
  <2>1. CASE SharesIdle
    BY <1>1, <1>2, <2>1, UnwrittenFacts DEF SharesIdle, Shares!Does
  <2>2. ASSUME NEW t \in Threads, SharesStep(t)
        PROVE  /\ MentionsGrow
               /\ \A n \in News, name \in Shares!Names :
                    Len(mentions'[n][name]) > Len(mentions[n][name]) /\ Len(mentions[n][name]) > 0
                      => \E u \in Threads :
                           task[u] # None /\ task'[u] = None /\ <<u, n>> \in outrun
               /\ \A n \in News : n \in found' \ found =>
                    \E other \in Shares!Names : Len(mentions'[n][other]) > 0
               /\ \A u \in Threads : Shares!Does(u, "store") /\ task'[u] = None =>
                    \/ UNCHANGED <<found, mentions>>
                    \/ \A n \in task[u].found : n \in found' /\ mentions'[n][task[u].name] # <<>>
    <3>1. MentionsGrow
      BY <2>2, RowsStay
    <3>2. \A n \in News, name \in Shares!Names :
            Len(mentions'[n][name]) > Len(mentions[n][name]) /\ Len(mentions[n][name]) > 0
              => task[t] # None /\ task'[t] = None /\ <<t, n>> \in outrun
      BY <2>2, SecondRowsOverlap
    <3>3. \A n \in News : n \in found' \ found =>
            \E other \in Shares!Names : Len(mentions'[n][other]) > 0
      BY <2>2, NewsComeRelated
    <3>4. ASSUME NEW u \in Threads, Shares!Does(u, "store"), task'[u] = None
          PROVE  \/ UNCHANGED <<found, mentions>>
                 \/ \A n \in task[u].found : n \in found' /\ mentions'[n][task[u].name] # <<>>
      <4>1. u = t
        BY <2>2, <3>4, StepsAlone DEF Shares!Does
      <4> QED BY <2>2, <3>4, <4>1, SearchesAreWhole
    <3> QED BY <3>1, <3>2, <3>3, <3>4
  <2> QED BY <2>1, <2>2, SharesSteps
<1>4. ASSUME NEW t \in Threads, NEW other \in Shares!Names, Shares!Does(t, "created"),
             task[t].market = "cn", Normal[other] = task[t].name
      PROVE  other \notin task[t].saw
  <2>1. task[t] # None /\ task[t].pc = "created"
    BY <1>4 DEF Shares!Does
  <2>2. CreationIsSound(task[t])
    BY <2>1 DEF SharesInv, TaskIsSound
  <2> QED BY <1>4, <2>2 DEF CreationIsSound
<1> QED BY <1>3, <1>4 DEF Shares!SoundStep, Shares!Rows, MentionsGrow

\* However requests, searches and the pipeline overlap: a news is related to a share a second
\* time only by a writer that looked before the first one wrote; rows stay and no confidence
\* sinks; a search is stored whole or not at all; and a Chinese share gets no second name but
\* one that was entered in the meantime (create_watchlist_item, _ensure_mention,
\* persist_rule_mentions).
THEOREM SharesTheorem == OneSpec => NewsAreRelatedOnce
<1>1. OneInit => SharesInv
  BY SharesInitInv DEF OneInit
<1>2. [OneNext]_allVars => [Shares!Next]_sharesVars
  BY DEF OneNext, allVars
<1>3. SharesInv /\ [OneNext]_allVars => SharesInv'
  BY <1>2, SharesNextInv
<1>4. SharesInv /\ SharesInv' /\ [OneNext]_allVars
        => [active = "shares" => Shares!SoundStep]_sharesVars
  <2> SUFFICES ASSUME SharesInv, SharesInv', [OneNext]_allVars PROVE Shares!SoundStep
    OBVIOUS
  <2>1. Shares!TypeOK'
    BY SharesInvSuffices, PTL
  <2> QED BY <1>2, <2>1, SharesSoundStep
<1> QED BY <1>1, <1>3, <1>4, PTL DEF OneSpec, NewsAreRelatedOnce
-----------------------------------------------------------------------------
(***************************************************************************)
(* Digests, for every list of slots, day, time zone and grace.             *)
(***************************************************************************)
Names == Reports!SlotNames
Date(s, t) == Reports!LocalDate(s, t)
Hour(s, t) == Reports!LocalTime(s, t)

\* The slots a cycle has not checked.
LeftOf(c) == {c.left[i] : i \in 1..Len(c.left)}

\* Dates grow: what is noted is no later than now, nor than the time of the cycle.
DatesGrow ==
    /\ round # None => round.at <= digestNow
    /\ \A s \in Names : fired[s] # None =>
         fired[s] <= Date(s, IF round = None THEN digestNow ELSE round.at)
    /\ digestRestarts = 0 => \A s \in Names : \A d \in triggered[s] :
         fired[s] # None /\ d <= fired[s]

\* Without overlap there is one generation, and what it has not written yet is the latest.
WritesAreInTurn == ~overlapped =>
    /\ \A p, q \in Reports!Running : p = q
    /\ Reports!Running = {} => file = latest
    /\ \A p \in Reports!Running :
         /\ generation[p].pc = "ask" => file = latest
         /\ generation[p].pc = "write" =>
              latest = [market |-> generation[p].market, at |-> generation[p].at]

\* A worker that was free since a slot's target has checked it, or has not waited longer.
FreeWorkersCheck == \A s \in Names : since[s] =>
    /\ round = None /\ Reports!InWindow(s, digestNow) =>
         \/ Hour(s, digestNow) <= Target[s] + waited
         \/ Date(s, digestNow) \in triggered[s]
    /\ round # None => round.at = digestNow
    /\ round # None /\ Reports!InWindow(s, digestNow) =>
         s \in LeftOf(round) \/ Date(s, digestNow) \in triggered[s]

DigestsInv ==
    /\ Reports!TypeOK
    /\ DatesGrow
    /\ WritesAreInTurn
    /\ FreeWorkersCheck
-----------------------------------------------------------------------------
\* A number of hours is one of days and the hours of the last one.
LEMMA DaysAndHours ==
    ASSUME NEW c \in Nat
    PROVE  /\ c \div DayLength \in Nat /\ c % DayLength \in Nat /\ c % DayLength < DayLength
           /\ c = (c \div DayLength) * DayLength + (c % DayLength)
<1> DEFINE q == c \div DayLength
           m == c % DayLength
<1>1. DayLength \in Nat \ {0} /\ c \in Nat
  BY DigestsAssumption
<1>2. q \in Int /\ m \in Nat /\ m < DayLength /\ c = DayLength * q + m
  BY <1>1
<1>3. q >= 0
  BY <1>1
<1> HIDE DEF q, m
<1>4. q \in Nat /\ DayLength \in Int
  BY <1>1, <1>2, <1>3
<1>5. DayLength * q = q * DayLength
  BY <1>4
<1>6. c = q * DayLength + m
  BY <1>2, <1>5, Zenon
<1> QED BY <1>2, <1>4, <1>6, Zenon DEF q, m

\* A time is its date and its hour.
LEMMA DateAndHour ==
    ASSUME NEW s \in Names, NEW t \in Nat
    PROVE  /\ Date(s, t) \in Nat /\ Hour(s, t) \in Nat /\ Hour(s, t) < DayLength
           /\ t + Offset[s] = Date(s, t) * DayLength + Hour(s, t)
<1>1. t + Offset[s] \in Nat
  BY DigestsAssumption DEF Names
<1> QED BY <1>1, DaysAndHours, Zenon DEF Date, Hour, Reports!LocalDate, Reports!LocalTime

\* Dates do not go back.
LEMMA LaterDates ==
    ASSUME NEW s \in Names, NEW t \in Nat, NEW u \in Nat, t <= u
    PROVE  Date(s, t) <= Date(s, u)
<1> DEFINE x == Date(s, t)
           y == Date(s, u)
           a == Hour(s, t)
           b == Hour(s, u)
<1>1. /\ x \in Nat /\ y \in Nat /\ a \in Nat /\ b \in Nat /\ b < DayLength
      /\ t + Offset[s] = x * DayLength + a /\ u + Offset[s] = y * DayLength + b
  BY DateAndHour
<1>2. DayLength \in Nat \ {0} /\ Offset[s] \in Nat
  BY DigestsAssumption DEF Names
<1> HIDE DEF x, y, a, b
<1> SUFFICES ASSUME y + 1 <= x PROVE FALSE
  BY <1>1 DEF x, y
<1>3. (y + 1) * DayLength <= x * DayLength
  BY <1>1, <1>2
<1> QED BY <1>1, <1>2, <1>3

\* The next hour is one of the same day or the first of the next one.
LEMMA NextHour ==
    ASSUME NEW s \in Names, NEW t \in Nat, Hour(s, t + 1) # 0
    PROVE  Hour(s, t + 1) = Hour(s, t) + 1 /\ Date(s, t + 1) = Date(s, t)
<1> DEFINE x == Date(s, t)
           y == Date(s, t + 1)
           a == Hour(s, t)
           b == Hour(s, t + 1)
<1>1. /\ x \in Nat /\ y \in Nat /\ a \in Nat /\ b \in Nat /\ a < DayLength /\ b < DayLength
      /\ t + Offset[s] = x * DayLength + a /\ (t + 1) + Offset[s] = y * DayLength + b
  BY DateAndHour
<1>2. DayLength \in Nat \ {0} /\ Offset[s] \in Nat /\ b # 0
  BY DigestsAssumption DEF Names
<1>3. x <= y
  BY LaterDates
<1> HIDE DEF x, y, a, b
<1>4. y * DayLength + b = x * DayLength + a + 1
  BY <1>1, <1>2
<1>5. CASE x + 1 <= y
  <2>1. (x + 1) * DayLength <= y * DayLength
    BY <1>1, <1>2, <1>5
  <2>2. (x + 1) * DayLength = x * DayLength + DayLength
    BY <1>1, <1>2
  <2>3. x * DayLength \in Nat /\ y * DayLength \in Nat
    BY <1>1, <1>2
  <2> HIDE DEF x, y, a, b
  <2> QED BY <1>1, <1>2, <1>4, <2>1, <2>2, <2>3
<1>6. CASE x = y
  <2>1. x * DayLength \in Nat
    BY <1>1, <1>2
  <2>2. b = a + 1
    BY <1>1, <1>4, <1>6, <2>1
  <2> QED BY <1>6, <2>2 DEF x, y, a, b
<1> QED BY <1>1, <1>3, <1>5, <1>6

\* The slots a cycle has left after the first.
LEMMA LeftAfter ==
    ASSUME NEW c \in Reports!Cycles, c.left # <<>>
    PROVE  /\ Head(c.left) \in Names /\ [c EXCEPT !.left = Tail(c.left)] \in Reports!Cycles
           /\ LeftOf(c) \subseteq {Head(c.left)} \union LeftOf([c EXCEPT !.left = Tail(c.left)])
<1>1. c.left \in Seq(Names) /\ c.at \in Nat
  BY DEF Reports!Cycles, Names
<1>2. /\ Head(c.left) \in Names /\ Tail(c.left) \in Seq(Names) /\ Head(c.left) = c.left[1]
      /\ Len(Tail(c.left)) = Len(c.left) - 1 /\ Len(c.left) \in Nat
      /\ \A i \in 1..(Len(c.left) - 1) : Tail(c.left)[i] = c.left[i + 1]
  BY <1>1
<1>3. /\ [c EXCEPT !.left = Tail(c.left)] \in Reports!Cycles
      /\ [c EXCEPT !.left = Tail(c.left)].left = Tail(c.left)
  BY <1>1, <1>2 DEF Reports!Cycles
<1>4. ASSUME NEW i \in 1..Len(c.left)
      PROVE  c.left[i] = Head(c.left) \/ \E j \in 1..Len(Tail(c.left)) : c.left[i] = Tail(c.left)[j]
  <2>1. CASE i = 1
    BY <1>2, <2>1
  <2>2. CASE i # 1
    <3>1. i - 1 \in 1..(Len(c.left) - 1) /\ (i - 1) + 1 = i
      BY <1>2, <1>4, <2>2
    <3>2. Tail(c.left)[i - 1] = c.left[i]
      BY <1>2, <3>1
    <3> QED BY <1>2, <3>1, <3>2
  <2> QED BY <2>1, <2>2
<1> QED BY <1>2, <1>3, <1>4 DEF LeftOf
-----------------------------------------------------------------------------
\* The types of what the steps read.
LEMMA DigestTypes ==
    ASSUME Reports!TypeOK
    PROVE  /\ digestNow \in Nat /\ waited \in Nat
           /\ round # None => round \in Reports!Cycles /\ round.at \in Nat
           /\ \A s \in Names : /\ fired[s] # None => fired[s] \in Nat /\ fired[s] \in triggered[s]
                               /\ triggered[s] \in SUBSET Nat
           /\ \A p \in Reports!Makers : generation[p] # None => generation[p] \in Reports!Generations
           /\ Reports!Worker \in Reports!Makers
BY DEF Reports!TypeOK, Names, Reports!Cycles, Reports!Makers

\* A generation begins.
LEMMA GenerateKeeps ==
    ASSUME DigestsInv, NEW p \in Reports!Makers, NEW m \in Names \union {"all"},
           Reports!Generate(p, m), UNCHANGED <<latest, file>>
    PROVE  /\ WritesAreInTurn'
           /\ generation' \in [Reports!Makers -> {None} \union Reports!Generations]
           /\ Reports!Running' = Reports!Running \union {p}
<1> DEFINE g == [market |-> m, at |-> digestNow, pc |-> "ask"]
<1>1. /\ generation' = [generation EXCEPT ![p] = g]
      /\ overlapped' = (overlapped \/ Reports!Running # {})
      /\ generation \in [Reports!Makers -> {None} \union Reports!Generations]
  BY DEF Reports!Generate, DigestsInv, Reports!TypeOK
<1>2. g \in Reports!Generations /\ g # None /\ g.pc = "ask"
  BY DigestTypes, DigestsAssumption DEF DigestsInv, Reports!Generations, Names
<1> HIDE DEF g
<1>3. /\ generation'[p] = g /\ \A q \in Reports!Makers \ {p} : generation'[q] = generation[q]
      /\ generation' \in [Reports!Makers -> {None} \union Reports!Generations]
  BY <1>1, <1>2
<1>4. Reports!Running' = Reports!Running \union {p}
  BY <1>2, <1>3 DEF Reports!Running
<1>5. WritesAreInTurn'
  <2> SUFFICES ASSUME ~overlapped'
               PROVE  /\ \A q, r \in Reports!Running' : q = r
                      /\ Reports!Running' = {} => file' = latest'
                      /\ \A q \in Reports!Running' :
                           /\ generation'[q].pc = "ask" => file' = latest'
                           /\ generation'[q].pc = "write" =>
                                latest' = [market |-> generation'[q].market,
                                           at |-> generation'[q].at]
    BY DEF WritesAreInTurn
  <2>1. Reports!Running = {} /\ Reports!Running' = {p} /\ file = latest
    BY <1>1, <1>4 DEF DigestsInv, WritesAreInTurn
  <2> QED BY <1>2, <1>3, <2>1
<1> QED BY <1>3, <1>4, <1>5

\* A generation goes on or ends.
LEMMA GenerationKeeps ==
    ASSUME DigestsInv, NEW p \in Reports!Makers,
           Reports!SetLatest(p) \/ Reports!WriteSnapshot(p) \/ Reports!GenerationFails(p)
    PROVE  DigestsInv'
<1> USE DEF DigestsInv
<1>1. UNCHANGED <<digestNow, fired, round, waited, asked, digestRestarts, triggered, since>>
  BY DEF Reports!SetLatest, Reports!WriteSnapshot, Reports!GenerationFails
<1>2. /\ generation \in [Reports!Makers -> {None} \union Reports!Generations]
      /\ generation[p] # None /\ generation[p] \in Reports!Generations
      /\ p \in Reports!Running
  BY DEF Reports!SetLatest, Reports!WriteSnapshot, Reports!GenerationFails, Reports!TypeOK,
         Reports!Running
<1>3. /\ generation' \in [Reports!Makers -> {None} \union Reports!Generations]
      /\ Reports!Running' \subseteq Reports!Running
  <2>1. CASE Reports!SetLatest(p)
    <3>1. generation' = [generation EXCEPT ![p] = [generation[p] EXCEPT !.pc = "write"]]
      BY <2>1 DEF Reports!SetLatest
    <3>2. [generation[p] EXCEPT !.pc = "write"] \in Reports!Generations
      BY <1>2 DEF Reports!Generations
    <3> QED BY <1>2, <3>1, <3>2 DEF Reports!Running
  <2>2. CASE Reports!WriteSnapshot(p) \/ Reports!GenerationFails(p)
    <3>1. generation' = [generation EXCEPT ![p] = None]
      BY <2>2 DEF Reports!WriteSnapshot, Reports!GenerationFails
    <3> QED BY <1>2, <3>1 DEF Reports!Running
  <2> QED BY <2>1, <2>2
<1>4. Reports!TypeOK'
  <2>1. round = None => generation'[Reports!Worker] = None
    <3>1. Reports!Worker \in Reports!Makers
      BY DEF Reports!Makers
    <3>2. round = None => generation[Reports!Worker] = None
      BY DEF Reports!TypeOK
    <3> QED BY <1>2, <1>3, <3>1, <3>2 DEF Reports!Running
  <2> QED BY <1>1, <1>3, <2>1 DEF Reports!TypeOK
<1>5. DatesGrow'
  BY <1>1 DEF DatesGrow, Names, Date, Reports!LocalDate, Reports!SlotNames
<1>6. FreeWorkersCheck'
  BY <1>1 DEF FreeWorkersCheck, Names, Date, Hour, LeftOf, Reports!LocalDate, Reports!LocalTime,
              Reports!InWindow, Reports!SlotNames
<1>7. WritesAreInTurn'
  <2> SUFFICES ASSUME ~overlapped'
               PROVE  /\ \A q, r \in Reports!Running' : q = r
                      /\ Reports!Running' = {} => file' = latest'
                      /\ \A q \in Reports!Running' :
                           /\ generation'[q].pc = "ask" => file' = latest'
                           /\ generation'[q].pc = "write" =>
                                latest' = [market |-> generation'[q].market,
                                           at |-> generation'[q].at]
    BY DEF WritesAreInTurn
  <2>1. ~overlapped
    BY DEF Reports!SetLatest, Reports!WriteSnapshot, Reports!GenerationFails
  <2>2. /\ Reports!Running = {p}
        /\ generation[p].pc = "ask" => file = latest
        /\ generation[p].pc = "write" =>
             latest = [market |-> generation[p].market, at |-> generation[p].at]
    BY <1>2, <2>1 DEF WritesAreInTurn
  <2>3. CASE Reports!SetLatest(p)
    <3>1. /\ generation' = [generation EXCEPT ![p] = [generation[p] EXCEPT !.pc = "write"]]
          /\ latest' = [market |-> generation[p].market, at |-> generation[p].at]
      BY <2>3 DEF Reports!SetLatest
    <3>2. generation'[p] = [generation[p] EXCEPT !.pc = "write"]
      BY <1>2, <3>1
    <3>3. /\ generation'[p].pc = "write" /\ generation'[p].market = generation[p].market
          /\ generation'[p].at = generation[p].at /\ generation'[p] \in Reports!Generations
      BY <1>2, <3>2 DEF Reports!Generations
    <3>4. p \in Reports!Running'
      BY <3>3, DigestsAssumption DEF Reports!Running
    <3> QED BY <1>3, <2>2, <3>1, <3>3, <3>4
  <2>4. CASE Reports!WriteSnapshot(p) \/ Reports!GenerationFails(p)
    <3>1. generation' = [generation EXCEPT ![p] = None] /\ latest' = latest
      BY <2>4 DEF Reports!WriteSnapshot, Reports!GenerationFails
    <3>2. Reports!Running' = {}
      BY <1>2, <1>3, <2>2, <3>1 DEF Reports!Running
    <3>3. file' = latest
      BY <2>2, <2>4 DEF Reports!WriteSnapshot, Reports!GenerationFails
    <3> QED BY <3>1, <3>2, <3>3
  <2> QED BY <2>3, <2>4
<1> QED BY <1>4, <1>5, <1>6, <1>7

\* Where neither generations nor digests change.
LEMMA WritesUnchanged ==
    ASSUME WritesAreInTurn, UNCHANGED <<generation, latest, file, overlapped>>
    PROVE  WritesAreInTurn'
BY DEF WritesAreInTurn, Reports!Running, Reports!Makers
-----------------------------------------------------------------------------
LEMMA StartCycleKeeps ==
    ASSUME DigestsInv, Reports!StartCycle
    PROVE  DigestsInv'
<1> USE DEF DigestsInv
<1>1. /\ round = None /\ round' = [at |-> digestNow, left |-> Slots] /\ waited' = 0
      /\ UNCHANGED <<digestNow, fired, generation, latest, file, asked, digestRestarts,
                     triggered, since, overlapped>>
  BY DEF Reports!StartCycle
<1>2. /\ round' \in Reports!Cycles /\ round' # None /\ round'.at = digestNow
      /\ LeftOf(round') = Names
  BY <1>1, DigestsAssumption, DigestTypes
     DEF Reports!Cycles, LeftOf, Names, Reports!SlotNames
<1>3. Reports!TypeOK'
  BY <1>1, <1>2 DEF Reports!TypeOK, Reports!Running
<1>4. DatesGrow'
  BY <1>1, <1>2, DigestTypes DEF DatesGrow, Date, Reports!LocalDate
<1>5. WritesAreInTurn'
  BY <1>1, WritesUnchanged
<1>6. FreeWorkersCheck'
  BY <1>1, <1>2 DEF FreeWorkersCheck
<1> QED BY <1>3, <1>4, <1>5, <1>6

LEMMA EndCycleKeeps ==
    ASSUME DigestsInv, Reports!EndCycle
    PROVE  DigestsInv'
<1> USE DEF DigestsInv
<1>1. /\ round # None /\ round.left = <<>> /\ round' = None /\ generation[Reports!Worker] = None
      /\ UNCHANGED <<digestNow, fired, waited, generation, latest, file, asked,
                     digestRestarts, triggered, since, overlapped>>
  BY DEF Reports!EndCycle
<1>2. LeftOf(round) = {}
  BY <1>1 DEF LeftOf
<1>3. Reports!TypeOK'
  BY <1>1 DEF Reports!TypeOK, Reports!Running
<1>4. DatesGrow'
  <2>1. \A s \in Names : fired[s] # None => fired[s] <= Date(s, digestNow)
    <3> SUFFICES ASSUME NEW s \in Names, fired[s] # None
                 PROVE  fired[s] <= Date(s, digestNow)
      OBVIOUS
    <3>1. /\ fired[s] <= Date(s, round.at) /\ round.at <= digestNow
          /\ round.at \in Nat /\ digestNow \in Nat /\ fired[s] \in Nat
      BY <1>1, DigestTypes DEF DatesGrow
    <3>2. Date(s, round.at) <= Date(s, digestNow)
      BY <3>1, LaterDates
    <3>3. Date(s, round.at) \in Nat /\ Date(s, digestNow) \in Nat
      BY <3>1, DateAndHour
    <3> QED BY <3>1, <3>2, <3>3
  <2> QED BY <1>1, <2>1 DEF DatesGrow, Date, Reports!LocalDate
<1>5. WritesAreInTurn'
  BY <1>1, WritesUnchanged
<1>6. FreeWorkersCheck'
  <2> SUFFICES ASSUME NEW s \in Names, since[s], Reports!InWindow(s, digestNow)
               PROVE  Date(s, digestNow) \in triggered[s]
    BY <1>1 DEF FreeWorkersCheck, Date, Hour, Reports!InWindow, Reports!LocalDate,
                Reports!LocalTime, Names, Reports!SlotNames
  <2> QED BY <1>1, <1>2 DEF FreeWorkersCheck
<1> QED BY <1>3, <1>4, <1>5, <1>6

\* What a check notes and triggers.
LEMMA CheckFacts ==
    ASSUME DigestsInv, Reports!CheckSlot
    PROVE  \E s \in Names :
             /\ round # None /\ round.left # <<>> /\ s = Head(round.left)
             /\ round' = [round EXCEPT !.left = Tail(round.left)]
             /\ generation[Reports!Worker] = None
             /\ UNCHANGED <<digestNow, waited, latest, file, asked, digestRestarts, since>>
             /\ \/ /\ Reports!InWindow(s, round.at) /\ fired[s] # Date(s, round.at)
                   /\ fired' = [fired EXCEPT ![s] = Date(s, round.at)]
                   /\ triggered' = [triggered EXCEPT ![s] = @ \union {Date(s, round.at)}]
                   /\ Reports!Generate(Reports!Worker, s)
                \/ /\ Reports!InWindow(s, round.at) => fired[s] = Date(s, round.at)
                   /\ UNCHANGED <<fired, triggered, generation, overlapped>>
<1> DEFINE s == Head(round.left)
<1>1. round # None /\ round.left # <<>> /\ round \in Reports!Cycles
  BY DigestTypes DEF Reports!CheckSlot, DigestsInv
<1>2. s \in Names
  BY <1>1, LeftAfter
<1>3. /\ round' = [round EXCEPT !.left = Tail(round.left)]
      /\ generation[Reports!Worker] = None
      /\ UNCHANGED <<digestNow, waited, latest, file, asked, digestRestarts, since>>
  BY DEF Reports!CheckSlot
<1>4. \/ /\ Reports!InWindow(s, round.at) /\ fired[s] # Date(s, round.at)
         /\ fired' = [fired EXCEPT ![s] = Date(s, round.at)]
         /\ triggered' = [triggered EXCEPT ![s] = @ \union {Date(s, round.at)}]
         /\ Reports!Generate(Reports!Worker, s)
      \/ /\ Reports!InWindow(s, round.at) => fired[s] = Date(s, round.at)
         /\ UNCHANGED <<fired, triggered, generation, overlapped>>
  BY DEF Reports!CheckSlot, Reports!Due, Date
<1> HIDE DEF s
<1> QED BY <1>1, <1>2, <1>3, <1>4 DEF s

LEMMA CheckKeeps ==
    ASSUME DigestsInv, Reports!CheckSlot
    PROVE  DigestsInv'
<1> USE DEF DigestsInv
<1>1. PICK s \in Names :
        /\ round # None /\ round.left # <<>> /\ s = Head(round.left)
        /\ round' = [round EXCEPT !.left = Tail(round.left)]
        /\ generation[Reports!Worker] = None
        /\ UNCHANGED <<digestNow, waited, latest, file, asked, digestRestarts, since>>
        /\ \/ /\ Reports!InWindow(s, round.at) /\ fired[s] # Date(s, round.at)
              /\ fired' = [fired EXCEPT ![s] = Date(s, round.at)]
              /\ triggered' = [triggered EXCEPT ![s] = @ \union {Date(s, round.at)}]
              /\ Reports!Generate(Reports!Worker, s)
           \/ /\ Reports!InWindow(s, round.at) => fired[s] = Date(s, round.at)
              /\ UNCHANGED <<fired, triggered, generation, overlapped>>
  BY CheckFacts
<1>2. /\ round \in Reports!Cycles /\ round.at \in Nat /\ digestNow \in Nat
      /\ round.at <= digestNow /\ Date(s, round.at) \in Nat
  BY <1>1, DigestTypes, DateAndHour DEF DatesGrow
<1>3. /\ round' \in Reports!Cycles /\ round' # None /\ round'.at = round.at
      /\ LeftOf(round) \subseteq {s} \union LeftOf(round')
  <2>1. round' \in Reports!Cycles /\ LeftOf(round) \subseteq {s} \union LeftOf(round')
    BY <1>1, <1>2, LeftAfter
  <2>2. round'.at = round.at
    BY <1>1, <1>2 DEF Reports!Cycles
  <2> QED BY <2>1, <2>2, DigestsAssumption
<1>4. /\ fired' \in [Names -> {None} \union Nat] /\ triggered' \in [Names -> SUBSET Nat]
      /\ \A z \in Names : z # s => fired'[z] = fired[z] /\ triggered'[z] = triggered[z]
      /\ triggered[s] \subseteq triggered'[s]
      /\ Reports!InWindow(s, round.at) => Date(s, round.at) \in triggered'[s]
      /\ \/ fired'[s] = fired[s] /\ triggered'[s] = triggered[s]
         \/ /\ fired'[s] = Date(s, round.at) /\ fired[s] # Date(s, round.at)
            /\ triggered'[s] = triggered[s] \union {Date(s, round.at)}
  <2>1. /\ fired \in [Names -> {None} \union Nat] /\ triggered \in [Names -> SUBSET Nat]
        /\ \A z \in Names : fired[z] # None => fired[z] \in triggered[z]
    BY DEF Reports!TypeOK, Names
  <2>2. Date(s, round.at) # None
    BY <1>2, DigestsAssumption
  <2>3. CASE UNCHANGED <<fired, triggered>>
            /\ (Reports!InWindow(s, round.at) => fired[s] = Date(s, round.at))
    BY <2>1, <2>2, <2>3
  <2>4. CASE /\ fired' = [fired EXCEPT ![s] = Date(s, round.at)]
             /\ triggered' = [triggered EXCEPT ![s] = @ \union {Date(s, round.at)}]
             /\ fired[s] # Date(s, round.at)
    <3>1. triggered[s] \union {Date(s, round.at)} \in SUBSET Nat
      BY <1>2, <2>1
    <3> QED BY <1>2, <2>1, <2>4, <3>1
  <2> QED BY <1>1, <2>3, <2>4
<1>5. /\ WritesAreInTurn'
      /\ generation' \in [Reports!Makers -> {None} \union Reports!Generations]
      /\ Reports!Running' \subseteq Reports!Running \union {Reports!Worker}
  <2>1. CASE Reports!Generate(Reports!Worker, s)
    BY <1>1, <2>1, GenerateKeeps, DigestTypes
  <2>2. CASE UNCHANGED <<generation, overlapped>>
    BY <1>1, <2>2, WritesUnchanged DEF Reports!TypeOK, Reports!Running, Reports!Makers
  <2> QED BY <1>1, <2>1, <2>2
<1>6. Reports!TypeOK'
  <2>1. \A z \in Names : fired'[z] # None => fired'[z] \in triggered'[z]
    BY <1>4 DEF Reports!TypeOK, Names
  <2> QED BY <1>1, <1>3, <1>4, <1>5, <2>1 DEF Reports!TypeOK, Names
<1>7. DatesGrow'
  <2>1. \A z \in Names : fired'[z] # None => fired'[z] <= Date(z, round.at)
    BY <1>1, <1>2, <1>4 DEF DatesGrow
  <2>2. ASSUME digestRestarts = 0, NEW z \in Names, NEW d \in triggered'[z]
        PROVE  fired'[z] # None /\ d <= fired'[z]
    <3>1. CASE z # s
      BY <1>4, <2>2, <3>1 DEF DatesGrow
    <3>2. CASE z = s /\ fired'[s] = fired[s] /\ triggered'[s] = triggered[s]
      BY <2>2, <3>2 DEF DatesGrow
    <3>3. CASE /\ z = s /\ fired'[s] = Date(s, round.at)
               /\ triggered'[s] = triggered[s] \union {Date(s, round.at)}
      <4>1. d \in triggered[s] => d \in Nat /\ fired[s] \in Nat /\ d <= fired[s]
                                  /\ fired[s] <= Date(s, round.at)
        BY <1>1, <2>2, DigestTypes DEF DatesGrow
      <4>2. d \in triggered[s] \/ d = Date(s, round.at)
        BY <2>2, <3>3
      <4> QED BY <1>2, <3>3, <4>1, <4>2, DigestsAssumption
    <3> QED BY <1>4, <3>1, <3>2, <3>3
  <2> QED BY <1>1, <1>2, <1>3, <2>1, <2>2 DEF DatesGrow, Date, Reports!LocalDate
<1>8. FreeWorkersCheck'
  <2> SUFFICES ASSUME NEW z \in Names, since[z]
               PROVE  /\ round'.at = digestNow
                      /\ Reports!InWindow(z, digestNow) =>
                           z \in LeftOf(round') \/ Date(z, digestNow) \in triggered'[z]
    BY <1>1, <1>3 DEF FreeWorkersCheck, Date, Hour, Reports!InWindow, Reports!LocalDate,
                Reports!LocalTime, Names, Reports!SlotNames
  <2>1. round.at = digestNow
    BY <1>1 DEF FreeWorkersCheck
  <2>2. Reports!InWindow(z, digestNow) => z \in LeftOf(round) \/ Date(z, digestNow) \in triggered[z]
    BY <1>1 DEF FreeWorkersCheck
  <2> QED BY <1>3, <1>4, <2>1, <2>2
<1> QED BY <1>5, <1>6, <1>7, <1>8
-----------------------------------------------------------------------------
LEMMA RequestKeeps ==
    ASSUME DigestsInv, Reports!Request
    PROVE  DigestsInv'
<1> USE DEF DigestsInv
<1>1. PICK p \in Posts \ asked : Reports!Generate(p, "all") /\ asked' = asked \union {p}
  BY DEF Reports!Request
<1>2. UNCHANGED <<digestNow, fired, round, waited, latest, file, digestRestarts, triggered, since>>
  BY DEF Reports!Request
<1>3. p \in Reports!Makers /\ p # Reports!Worker
  BY <1>1, DigestsAssumption DEF Reports!Makers
<1>4. /\ WritesAreInTurn'
      /\ generation' \in [Reports!Makers -> {None} \union Reports!Generations]
      /\ Reports!Running' = Reports!Running \union {p}
  BY <1>1, <1>2, <1>3, GenerateKeeps
<1>5. Reports!TypeOK'
  <2>1. generation'[Reports!Worker] = generation[Reports!Worker]
    BY <1>1, <1>3 DEF Reports!Generate, Reports!TypeOK, Reports!Makers
  <2> QED BY <1>1, <1>2, <1>4, <2>1 DEF Reports!TypeOK
<1>6. DatesGrow'
  BY <1>2 DEF DatesGrow, Names, Date, Reports!LocalDate, Reports!SlotNames
<1>7. FreeWorkersCheck'
  BY <1>2 DEF FreeWorkersCheck, Names, Date, Hour, LeftOf, Reports!LocalDate, Reports!LocalTime,
              Reports!InWindow, Reports!SlotNames
<1> QED BY <1>4, <1>5, <1>6, <1>7

\* Time passes: no free worker waits as long as a window is open.
LEMMA TickFacts ==
    ASSUME DigestsInv, Reports!Tick, NEW s \in Names, since'[s], Hour(s, digestNow + 1) # 0,
           Hour(s, digestNow + 1) > Target[s], Hour(s, digestNow + 1) <= Target[s] + Grace
    PROVE  /\ round = None /\ Date(s, digestNow + 1) = Date(s, digestNow)
           /\ \/ Hour(s, digestNow + 1) <= Target[s] + waited + 1
              \/ Date(s, digestNow) \in triggered[s]
<1> USE DEF DigestsInv
<1>1. /\ digestNow \in Nat /\ waited \in Nat /\ Target[s] \in Nat /\ Grace \in Nat
      /\ Hour(s, digestNow) \in Nat
  BY DigestTypes, DigestsAssumption, DateAndHour DEF Names
<1>2. round = None /\ (since[s] \/ Hour(s, digestNow) = Target[s])
  BY DEF Reports!Tick, Names, Hour
<1>3. Hour(s, digestNow + 1) = Hour(s, digestNow) + 1 /\ Date(s, digestNow + 1) = Date(s, digestNow)
  BY <1>1, NextHour
<1>4. CASE Hour(s, digestNow) = Target[s]
  BY <1>1, <1>2, <1>3, <1>4
<1>5. CASE since[s]
  <2>1. Reports!InWindow(s, digestNow)
    BY <1>1, <1>3 DEF Reports!InWindow, Hour
  <2>2. Hour(s, digestNow) <= Target[s] + waited \/ Date(s, digestNow) \in triggered[s]
    BY <1>2, <1>5, <2>1 DEF FreeWorkersCheck
  <2> QED BY <1>1, <1>2, <1>3, <2>2
<1> QED BY <1>2, <1>4, <1>5

LEMMA DigestTickKeeps ==
    ASSUME DigestsInv, Reports!Tick
    PROVE  DigestsInv'
<1> USE DEF DigestsInv
<1>1. /\ digestNow' = digestNow + 1
      /\ waited' = IF round = None THEN waited + 1 ELSE waited
      /\ since' = [s \in Names |-> round = None
                                   /\ (since[s] \/ Hour(s, digestNow) = Target[s])]
      /\ UNCHANGED <<fired, round, generation, latest, file, asked, digestRestarts, triggered,
                     overlapped>>
  BY DEF Reports!Tick, Names, Hour
<1>2. digestNow \in Nat /\ waited \in Nat /\ (round # None => round.at \in Nat)
  BY DigestTypes
<1>3. Reports!TypeOK'
  BY <1>1, <1>2 DEF Reports!TypeOK, Names, Reports!Running
<1>4. DatesGrow'
  <2>1. \A s \in Names : round = None /\ fired[s] # None => fired[s] <= Date(s, digestNow + 1)
    <3> SUFFICES ASSUME NEW s \in Names, round = None, fired[s] # None
                 PROVE  fired[s] <= Date(s, digestNow + 1)
      OBVIOUS
    <3>1. fired[s] \in Nat /\ fired[s] <= Date(s, digestNow)
      BY DigestTypes DEF DatesGrow
    <3>2. Date(s, digestNow) <= Date(s, digestNow + 1)
      BY <1>2, LaterDates
    <3>3. Date(s, digestNow) \in Nat /\ Date(s, digestNow + 1) \in Nat
      BY <1>2, DateAndHour
    <3> QED BY <3>1, <3>2, <3>3
  <2> QED BY <1>1, <1>2, <2>1 DEF DatesGrow, Date, Reports!LocalDate
<1>5. WritesAreInTurn'
  BY <1>1, WritesUnchanged
<1>6. FreeWorkersCheck'
  <2> SUFFICES ASSUME NEW s \in Names, since'[s], round = None,
                      Reports!InWindow(s, digestNow + 1)
               PROVE  \/ Hour(s, digestNow + 1) <= Target[s] + (waited + 1)
                      \/ Date(s, digestNow + 1) \in triggered[s]
    BY <1>1 DEF FreeWorkersCheck, Date, Hour, Reports!InWindow, Reports!LocalDate,
                Reports!LocalTime, Names, Reports!SlotNames
  <2>1. /\ Target[s] \in Nat /\ Grace \in Nat /\ Hour(s, digestNow + 1) \in Nat
        /\ Hour(s, digestNow + 1) >= Target[s] /\ Hour(s, digestNow + 1) < Target[s] + Grace
    <3>1. digestNow + 1 \in Nat /\ Target[s] \in Nat /\ Grace \in Nat
      BY <1>2, DigestsAssumption DEF Names
    <3>2. Hour(s, digestNow + 1) \in Nat
      BY <3>1, DateAndHour
    <3> QED BY <3>1, <3>2 DEF Reports!InWindow, Hour
  <2>2. CASE Hour(s, digestNow + 1) = Target[s]
    BY <1>2, <2>1, <2>2
  <2>3. CASE Hour(s, digestNow + 1) # Target[s]
    <3>1. Hour(s, digestNow + 1) # 0 /\ Hour(s, digestNow + 1) > Target[s]
          /\ Hour(s, digestNow + 1) <= Target[s] + Grace
      BY <2>1, <2>3
    <3>2. /\ Date(s, digestNow + 1) = Date(s, digestNow)
          /\ \/ Hour(s, digestNow + 1) <= Target[s] + waited + 1
             \/ Date(s, digestNow) \in triggered[s]
      BY <3>1, TickFacts
    <3> QED BY <1>2, <2>1, <3>2
  <2> QED BY <2>2, <2>3
<1> QED BY <1>3, <1>4, <1>5, <1>6

LEMMA DigestRestartKeeps ==
    ASSUME DigestsInv, Reports!Restart
    PROVE  DigestsInv'
<1> USE DEF DigestsInv
<1>1. /\ digestRestarts' = digestRestarts + 1
      /\ fired' = [s \in Names |-> None] /\ round' = None /\ waited' = 0
      /\ generation' = [p \in Reports!Makers |-> None] /\ overlapped' = TRUE
      /\ since' = [s \in Names |-> FALSE] /\ UNCHANGED <<digestNow, asked, triggered>>
  BY DEF Reports!Restart, Names
<1>2. digestRestarts \in Nat /\ digestRestarts' # 0
  BY <1>1 DEF Reports!TypeOK
<1>3. Reports!Running' = {}
  BY <1>1 DEF Reports!Running
<1>4. Reports!TypeOK'
  <2>1. generation'[Reports!Worker] = None
    BY <1>1 DEF Reports!Makers
  <2> QED BY <1>1, <1>2, <1>3, <2>1 DEF Reports!TypeOK, Names
<1>5. DatesGrow'
  BY <1>1, <1>2 DEF DatesGrow
<1>6. WritesAreInTurn' /\ FreeWorkersCheck'
  BY <1>1 DEF WritesAreInTurn, FreeWorkersCheck
<1> QED BY <1>4, <1>5, <1>6

LEMMA DigestsInitInv == Reports!Init => DigestsInv
<1> SUFFICES ASSUME Reports!Init PROVE DigestsInv
  OBVIOUS
<1>1. /\ digestNow = 0 /\ fired = [s \in Names |-> None] /\ round = None /\ waited = 0
      /\ generation = [p \in Reports!Makers |-> None] /\ latest = None /\ file = None
      /\ asked = {} /\ digestRestarts = 0 /\ triggered = [s \in Names |-> {}]
      /\ since = [s \in Names |-> FALSE] /\ overlapped = FALSE
  BY DEF Reports!Init, Names
<1>2. Reports!Running = {} /\ generation[Reports!Worker] = None
  BY <1>1 DEF Reports!Running, Reports!Makers
<1>3. Reports!TypeOK
  BY <1>1, <1>2 DEF Reports!TypeOK, Names
<1>4. DatesGrow /\ WritesAreInTurn /\ FreeWorkersCheck
  BY <1>1, <1>2 DEF DatesGrow, WritesAreInTurn, FreeWorkersCheck
<1> QED BY <1>3, <1>4 DEF DigestsInv

LEMMA DigestsNextInv == DigestsInv /\ [Reports!Next]_digestsVars => DigestsInv'
<1> SUFFICES ASSUME DigestsInv, [Reports!Next]_digestsVars PROVE DigestsInv'
  OBVIOUS
<1>1. CASE Reports!Next
  <2>1. CASE Reports!StartCycle
    BY <2>1, StartCycleKeeps
  <2>2. CASE Reports!CheckSlot
    BY <2>2, CheckKeeps
  <2>3. CASE Reports!EndCycle
    BY <2>3, EndCycleKeeps
  <2>4. CASE Reports!Request
    BY <2>4, RequestKeeps
  <2>5. CASE \E p \in Reports!Makers :
               Reports!SetLatest(p) \/ Reports!WriteSnapshot(p) \/ Reports!GenerationFails(p)
    BY <2>5, GenerationKeeps
  <2>6. CASE Reports!Tick
    BY <2>6, DigestTickKeeps
  <2>7. CASE Reports!Restart
    BY <2>7, DigestRestartKeeps
  <2> QED BY <1>1, <2>1, <2>2, <2>3, <2>4, <2>5, <2>6, <2>7 DEF Reports!Next
<1>2. CASE UNCHANGED digestsVars
  <2>1. UNCHANGED <<digestNow, fired, round, waited, generation, latest, file, asked,
                    digestRestarts, triggered, since, overlapped>>
    BY <1>2 DEF digestsVars
  <2>2. Reports!TypeOK'
    BY <2>1 DEF DigestsInv, Reports!TypeOK, Reports!Running
  <2>3. DatesGrow'
    BY <2>1 DEF DigestsInv, DatesGrow, Names, Date, Reports!LocalDate, Reports!SlotNames
  <2>4. WritesAreInTurn'
    BY <2>1, WritesUnchanged DEF DigestsInv
  <2>5. FreeWorkersCheck'
    BY <2>1 DEF DigestsInv, FreeWorkersCheck, Names, Date, Hour, LeftOf, Reports!LocalDate,
                Reports!LocalTime, Reports!InWindow, Reports!SlotNames
  <2> QED BY <2>2, <2>3, <2>4, <2>5 DEF DigestsInv
<1> QED BY <1>1, <1>2
-----------------------------------------------------------------------------
\* When a window closes over a worker that was free all the time, its slot was triggered.
LEMMA ClosedWereTriggered ==
    ASSUME DigestsInv, Reports!Next, NEW s \in Names, Reports!Closes(s), since'[s]
    PROVE  Date(s, digestNow) \in triggered[s]
<1> USE DEF DigestsInv
<1>1. digestNow' # digestNow /\ Hour(s, digestNow') = Target[s] + Grace
  BY DEF Reports!Closes, Hour
<1>2. Reports!Tick
  BY <1>1 DEF Reports!Next, Reports!StartCycle, Reports!CheckSlot, Reports!EndCycle,
              Reports!Request, Reports!SetLatest, Reports!WriteSnapshot,
              Reports!GenerationFails, Reports!Restart
<1>3. /\ digestNow' = digestNow + 1 /\ (round = None => waited < TickEvery)
      /\ digestNow \in Nat /\ waited \in Nat
  BY <1>2, DigestTypes DEF Reports!Tick
<1>4. /\ Target[s] \in Nat /\ Grace \in Nat /\ TickEvery \in Nat /\ TickEvery < Grace
  BY DigestsAssumption DEF Names
<1>5. /\ Hour(s, digestNow + 1) # 0 /\ Hour(s, digestNow + 1) > Target[s]
      /\ Hour(s, digestNow + 1) <= Target[s] + Grace
  BY <1>1, <1>3, <1>4
<1>6. /\ round = None
      /\ \/ Hour(s, digestNow + 1) <= Target[s] + waited + 1
         \/ Date(s, digestNow) \in triggered[s]
  BY <1>2, <1>5, TickFacts
<1>7. ~(Hour(s, digestNow + 1) <= Target[s] + waited + 1)
  BY <1>1, <1>3, <1>4, <1>6
<1> QED BY <1>6, <1>7

\* Digests: a digest is triggered once a day and slot, in its window, unless the process
\* restarts, and is not missed while the worker is up and free; the file holds the latest
\* digest unless generations overlapped (DigestWorker.do_cycle, generate_digest).
THEOREM DigestsTheorem == OneSpec => DigestsAreSound
<1>1. OneInit => DigestsInv
  BY DigestsInitInv DEF OneInit
<1>2. [OneNext]_allVars => [Reports!Next]_digestsVars
  BY DEF OneNext, allVars
<1>3. DigestsInv /\ [OneNext]_allVars => DigestsInv'
  BY <1>2, DigestsNextInv
<1>4. DigestsInv /\ DigestsInv' /\ [OneNext]_allVars
        => [active = "digests" => Reports!SoundStep]_digestsVars
  <2> SUFFICES ASSUME DigestsInv, DigestsInv', Reports!Next PROVE Reports!SoundStep
    BY <1>2
  <2>1. Reports!TypeOK'
    BY DEF DigestsInv
  <2>2. fired' # fired \/ triggered' # triggered => Reports!CheckSlot \/ Reports!Restart
    BY DEF Reports!Next, Reports!StartCycle, Reports!CheckSlot, Reports!EndCycle,
           Reports!Request, Reports!SetLatest, Reports!WriteSnapshot,
           Reports!GenerationFails, Reports!Restart, Reports!Tick
  <2>3. ASSUME Reports!CheckSlot
        PROVE  \E s \in Names :
                 \/ UNCHANGED <<fired, triggered>>
                 \/ /\ Reports!InWindow(s, round.at) /\ fired[s] # Date(s, round.at)
                    /\ fired' = [fired EXCEPT ![s] = Date(s, round.at)]
                    /\ triggered' = [triggered EXCEPT ![s] = @ \union {Date(s, round.at)}]
                    /\ digestRestarts = 0 => Date(s, round.at) \notin triggered[s]
    <3>1. PICK s \in Names :
            /\ round # None
            /\ \/ UNCHANGED <<fired, triggered>>
               \/ /\ Reports!InWindow(s, round.at) /\ fired[s] # Date(s, round.at)
                  /\ fired' = [fired EXCEPT ![s] = Date(s, round.at)]
                  /\ triggered' = [triggered EXCEPT ![s] = @ \union {Date(s, round.at)}]
      BY <2>3, CheckFacts
    <3>2. ASSUME digestRestarts = 0, fired[s] # Date(s, round.at),
                 Date(s, round.at) \in triggered[s]
          PROVE  FALSE
      <4>1. /\ fired[s] # None /\ Date(s, round.at) <= fired[s]
            /\ fired[s] <= Date(s, round.at)
        BY <3>1, <3>2 DEF DigestsInv, DatesGrow
      <4>2. fired[s] \in Nat /\ Date(s, round.at) \in Nat
        BY <3>1, <4>1, DigestTypes, DateAndHour DEF DigestsInv
      <4> QED BY <3>2, <4>1, <4>2
    <3> QED BY <3>1, <3>2
  <2>4. /\ fired \in [Names -> {None} \union Nat] /\ triggered \in [Names -> SUBSET Nat]
    BY DEF DigestsInv, Reports!TypeOK, Names
  <2>5. ASSUME NEW s \in Names, triggered'[s] # triggered[s]
        PROVE  Reports!InWindow(s, round.at)
    <3>1. Reports!CheckSlot
      BY <2>2, <2>5 DEF Reports!Restart
    <3> QED BY <2>3, <2>4, <2>5, <3>1
  <2>6. ASSUME NEW s \in Names, fired'[s] # fired[s], fired'[s] # None, digestRestarts = 0
        PROVE  triggered'[s] # triggered[s]
    <3>1. Reports!CheckSlot
      <4>1. ~Reports!Restart
        BY <2>6 DEF Reports!Restart, Names
      <4> QED BY <2>2, <2>6, <4>1
    <3>2. PICK z \in Names :
            /\ fired' = [fired EXCEPT ![z] = Date(z, round.at)]
            /\ triggered' = [triggered EXCEPT ![z] = @ \union {Date(z, round.at)}]
            /\ Date(z, round.at) \notin triggered[z]
      BY <2>3, <2>6, <3>1
    <3>3. z = s
      BY <2>4, <2>6, <3>2
    <3>4. Date(s, round.at) \in triggered'[s]
      BY <2>4, <3>2, <3>3
    <3> QED BY <3>2, <3>3, <3>4
  <2>7. \A s \in Names : Reports!Closes(s) /\ since'[s] => Date(s, digestNow) \in triggered[s]
    BY ClosedWereTriggered
  <2>8. Reports!Running = {} /\ ~overlapped => file = latest
    BY DEF DigestsInv, WritesAreInTurn
  <2> QED BY <2>1, <2>5, <2>6, <2>7, <2>8 DEF Reports!SoundStep, Names, Date
<1> QED BY <1>1, <1>3, <1>4, PTL DEF OneSpec, DigestsAreSound
-----------------------------------------------------------------------------
(***************************************************************************)
(* MarketCaches, for every set of requests and sources and all times to    *)
(* live.                                                                   *)
(***************************************************************************)
\* What is cached is as old as its data, and lives no longer than it may.
EntriesAreYoung ==
    /\ boards # None => boards.at <= boards.data /\ boards.data <= cacheNow
    /\ flow # None =>
         IF flow.data # None THEN flow.data <= cacheNow /\ flow.until <= flow.data + FlowTtl
         ELSE flow.until <= cacheNow + FailureTtl
    /\ redis # None => redis.data <= cacheNow /\ redis.until <= redis.data + CandleTtl
    /\ memory # None => memory.data <= cacheNow /\ memory.until <= memory.data + CandleTtl

\* A request for boards that found none began before any were fetched.
RequestsKnow == \A r \in Requests : request[r] # None =>
    /\ request[r].at <= cacheNow
    /\ request[r].of = "boards" /\ request[r].cached = None => ~request[r].loaded

CachesInv == Caches!TypeOK /\ EntriesAreYoung /\ RequestsKnow
-----------------------------------------------------------------------------
\* The types of what the steps read.
LEMMA CacheTypes ==
    ASSUME CachesInv
    PROVE  /\ cacheNow \in Nat
           /\ boards # None => boards \in Caches!BoardEntries /\ boards.data \in Nat
                               /\ boards.at \in Nat /\ boards.data # None
           /\ flow # None => flow \in Caches!FlowEntries /\ flow.until \in Nat
                             /\ (flow.data # None => flow.data \in Nat)
           /\ redis # None => redis \in Caches!CandleEntries /\ redis.data \in Nat
                              /\ redis.until \in Nat /\ redis.data # None
           /\ memory # None => memory \in Caches!CandleEntries /\ memory.data \in Nat
                               /\ memory.until \in Nat /\ memory.data # None
           /\ \A r \in Requests : request[r] # None =>
                /\ request[r] \in Caches!Asked /\ request[r].at \in Nat
                /\ request[r].loaded \in BOOLEAN
                /\ request[r].cached # None =>
                     request[r].cached \in Caches!BoardEntries /\ request[r].cached.data # None
<1>1. \A e \in Caches!BoardEntries : e.data \in Nat /\ e.at \in Nat /\ e.data # None
  BY CachesAssumption DEF Caches!BoardEntries
<1>2. \A e \in Caches!CandleEntries : e.data \in Nat /\ e.until \in Nat /\ e.data # None
  BY CachesAssumption DEF Caches!CandleEntries
<1>3. \A e \in Caches!FlowEntries : e.until \in Nat /\ (e.data # None => e.data \in Nat)
  BY DEF Caches!FlowEntries
<1>4. \A e \in Caches!Asked : /\ e.at \in Nat /\ e.loaded \in BOOLEAN
                              /\ e.cached # None => e.cached \in Caches!BoardEntries
  BY DEF Caches!Asked
<1> QED BY <1>1, <1>2, <1>3, <1>4 DEF CachesInv, Caches!TypeOK

\* A question is answered from the cache, or asks the upstream.
LEMMA AskFacts ==
    ASSUME CachesInv, NEW r \in Requests, Caches!Ask(r)
    PROVE  /\ request[r] = None
           /\ UNCHANGED <<cacheNow, boards, flow, redis, memory, reachable, cacheRestarts, loaded>>
           /\ \/ /\ UNCHANGED request
                 /\ \/ /\ boards # None /\ cacheNow - boards.at < BoardTtl
                       /\ answer' = [of |-> "boards", data |-> boards.data, stale |-> FALSE]
                    \/ /\ flow # None /\ cacheNow < flow.until
                       /\ answer' = [of |-> "flow", data |-> flow.data, stale |-> FALSE]
                    \/ /\ redis # None
                       /\ answer' = [of |-> "candles", data |-> redis.data, stale |-> FALSE]
                    \/ /\ memory # None /\ cacheNow <= memory.until
                       /\ answer' = [of |-> "candles", data |-> memory.data, stale |-> FALSE]
              \/ /\ UNCHANGED answer
                 /\ \E of \in {"boards", "flow", "candles"}, cached \in {boards, None} :
                      /\ of = "boards" => cached = boards
                      /\ request' = [request EXCEPT ![r] =
                           [of |-> of, at |-> cacheNow, cached |-> cached, loaded |-> loaded]]
<1>1. /\ request[r] = None
      /\ UNCHANGED <<cacheNow, boards, flow, redis, memory, reachable, cacheRestarts, loaded>>
  BY DEF Caches!Ask, Caches!AskBoards, Caches!AskFlow, Caches!AskCandles
<1> DEFINE Asking(of, cached) ==
      /\ UNCHANGED answer
      /\ request' = [request EXCEPT ![r] =
           [of |-> of, at |-> cacheNow, cached |-> cached, loaded |-> loaded]]
<1>2. CASE Caches!AskBoards(r)
  <2>1. CASE boards # None /\ cacheNow - boards.at < BoardTtl
    BY <1>1, <1>2, <2>1 DEF Caches!AskBoards, Caches!Answers
  <2>2. CASE ~(boards # None /\ cacheNow - boards.at < BoardTtl)
    <3>1. Asking("boards", boards)
      BY <1>2, <2>2 DEF Caches!AskBoards, Caches!Fetches
    <3> QED BY <1>1, <3>1
  <2> QED BY <2>1, <2>2
<1>3. CASE Caches!AskFlow(r)
  <2>1. CASE flow # None /\ cacheNow < flow.until
    BY <1>1, <1>3, <2>1 DEF Caches!AskFlow, Caches!Answers
  <2>2. CASE ~(flow # None /\ cacheNow < flow.until)
    <3>1. Asking("flow", None)
      BY <1>3, <2>2 DEF Caches!AskFlow, Caches!Fetches
    <3> QED BY <1>1, <3>1
  <2> QED BY <2>1, <2>2
<1>4. CASE Caches!AskCandles(r)
  <2>1. PICK candles : candles = Caches!CandlesFrom(FALSE)
    OBVIOUS
  <2>2. /\ candles # None => /\ answer' = [of |-> "candles", data |-> candles.data, stale |-> FALSE]
                             /\ UNCHANGED request
        /\ candles = None => Asking("candles", None)
    BY <1>4, <2>1 DEF Caches!AskCandles, Caches!Answers, Caches!Fetches
  <2>3. \/ candles = None
        \/ candles = redis /\ redis # None
        \/ candles = memory /\ memory # None /\ cacheNow <= memory.until
    BY <2>1 DEF Caches!CandlesFrom
  <2>4. CASE candles = None
    BY <1>1, <2>2, <2>4
  <2>5. CASE candles # None
    BY <1>1, <2>2, <2>3, <2>5
  <2> QED BY <2>4, <2>5
<1> QED BY <1>2, <1>3, <1>4 DEF Caches!Ask

\* What the upstream's answer, or its failure, leaves in the caches and says.
LEMMA ArriveFacts ==
    ASSUME CachesInv, NEW r \in Requests, Caches!Arrive(r)
    PROVE  /\ request[r] # None /\ request' = [request EXCEPT ![r] = None]
           /\ UNCHANGED <<cacheNow, reachable, cacheRestarts>>
           /\ \/ /\ request[r].of = "boards" /\ UNCHANGED <<flow, redis, memory>>
                 /\ \/ /\ boards' = [data |-> cacheNow, at |-> request[r].at] /\ loaded' = TRUE
                       /\ answer' = [of |-> "boards", data |-> cacheNow, stale |-> FALSE]
                    \/ /\ UNCHANGED <<boards, loaded>>
                       /\ \/ /\ request[r].cached # None
                             /\ answer' = [of |-> "boards", data |-> request[r].cached.data,
                                           stale |-> TRUE]
                          \/ /\ request[r].cached = None
                             /\ answer' = [of |-> "boards", data |-> None, stale |-> FALSE]
              \/ /\ request[r].of = "flow" /\ UNCHANGED <<boards, redis, memory, loaded>>
                 /\ answer' = [of |-> "flow", data |-> flow'.data, stale |-> FALSE]
                 /\ \/ flow' = [data |-> cacheNow, until |-> request[r].at + FlowTtl]
                    \/ flow' = [data |-> None, until |-> request[r].at + FailureTtl]
              \/ /\ request[r].of = "candles" /\ UNCHANGED <<boards, flow, loaded>>
                 /\ \/ /\ memory' = [data |-> cacheNow, until |-> cacheNow + CandleTtl]
                       /\ redis' \in {redis, memory'}
                       /\ answer' = [of |-> "candles", data |-> cacheNow, stale |-> FALSE]
                    \/ /\ UNCHANGED <<memory, redis>>
                       /\ \/ /\ redis # None
                             /\ answer' = [of |-> "candles", data |-> redis.data, stale |-> TRUE]
                          \/ /\ memory # None
                             /\ answer' = [of |-> "candles", data |-> memory.data, stale |-> TRUE]
                          \/ /\ memory = None
                             /\ answer' = [of |-> "candles", data |-> None, stale |-> TRUE]
<1>1. /\ request' = [request EXCEPT ![r] = None]
      /\ UNCHANGED <<cacheNow, reachable, cacheRestarts>>
  BY DEF Caches!Arrive
<1>2. CASE Caches!BoardsArrive(r)
  <2>1. PICK ok \in BOOLEAN :
          /\ boards' = Caches!StoredBoards(r, IF ok THEN cacheNow ELSE None)
          /\ loaded' = (loaded \/ ok)
          /\ IF ok THEN Caches!Answers("boards", cacheNow, FALSE)
             ELSE IF request[r].cached # None
             THEN Caches!Answers("boards", request[r].cached.data, TRUE)
             ELSE Caches!Answers("boards", None, FALSE)
    BY <1>2 DEF Caches!BoardsArrive
  <2>2. /\ request[r] # None /\ request[r].of = "boards" /\ UNCHANGED <<flow, redis, memory>>
        /\ loaded \in BOOLEAN /\ cacheNow # None
    BY <1>2, CachesAssumption DEF Caches!BoardsArrive, Caches!Asks, CachesInv, Caches!TypeOK
  <2>3. CASE ok
    BY <1>1, <2>1, <2>2, <2>3 DEF Caches!StoredBoards, Caches!Answers
  <2>4. CASE ~ok
    BY <1>1, <2>1, <2>2, <2>4 DEF Caches!StoredBoards, Caches!Answers
  <2> QED BY <2>3, <2>4
<1>3. CASE Caches!FlowArrives(r)
  <2>1. PICK ok \in BOOLEAN :
          /\ flow' = [data |-> IF ok THEN cacheNow ELSE None,
                      until |-> request[r].at + IF ok THEN FlowTtl ELSE FailureTtl]
          /\ Caches!Answers("flow", flow'.data, FALSE)
    BY <1>3 DEF Caches!FlowArrives
  <2>2. /\ request[r] # None /\ request[r].of = "flow"
        /\ UNCHANGED <<boards, redis, memory, loaded>>
    BY <1>3 DEF Caches!FlowArrives, Caches!Asks
  <2> QED BY <1>1, <2>1, <2>2 DEF Caches!Answers
<1>4. CASE Caches!CandlesArrive(r)
  <2>1. /\ request[r] # None /\ request[r].of = "candles" /\ UNCHANGED <<boards, flow, loaded>>
    BY <1>4 DEF Caches!CandlesArrive, Caches!Asks
  <2>2. \/ Caches!SetCandles(Caches!Built) /\ Caches!Answers("candles", cacheNow, FALSE)
        \/ /\ UNCHANGED <<memory, redis>>
           /\ \E stale \in {Caches!CandlesFrom(TRUE)} :
                Caches!Answers("candles", IF stale # None THEN stale.data ELSE None, TRUE)
    BY <1>4 DEF Caches!CandlesArrive
  <2>3. CASE Caches!SetCandles(Caches!Built) /\ Caches!Answers("candles", cacheNow, FALSE)
    BY <1>1, <2>1, <2>3 DEF Caches!SetCandles, Caches!Built, Caches!Answers
  <2>4. CASE /\ UNCHANGED <<memory, redis>>
             /\ \E stale \in {Caches!CandlesFrom(TRUE)} :
                  Caches!Answers("candles", IF stale # None THEN stale.data ELSE None, TRUE)
    <3>1. PICK stale : /\ stale = Caches!CandlesFrom(TRUE)
                       /\ answer' = [of |-> "candles",
                                     data |-> IF stale # None THEN stale.data ELSE None,
                                     stale |-> TRUE]
      BY <2>4 DEF Caches!Answers
    <3>2. \/ stale = redis /\ redis # None
          \/ stale = memory /\ memory # None
          \/ stale = None /\ memory = None
      BY <3>1 DEF Caches!CandlesFrom
    <3> QED BY <1>1, <2>1, <2>4, <3>1, <3>2
  <2> QED BY <2>2, <2>3, <2>4
<1> QED BY <1>2, <1>3, <1>4 DEF Caches!Arrive

\* What makes an answer honest, for each kind of it.
LEMMA BoardsHonest ==
    ASSUME CachesInv', NEW d, NEW s, answer' = [of |-> "boards", data |-> d, stale |-> s],
           d # None /\ ~s => cacheNow - d < BoardTtl,
           d = None => \E r \in Requests : Caches!Asks(r, "boards") /\ ~request[r].loaded
    PROVE  Caches!SoundStep
BY DEF Caches!SoundStep, Caches!Age, CachesInv

LEMMA FlowHonest ==
    ASSUME CachesInv', NEW d, NEW s, answer' = [of |-> "flow", data |-> d, stale |-> s],
           d # None => cacheNow - d < FlowTtl,
           d = None => flow'.data = None /\ flow'.until <= cacheNow + FailureTtl
    PROVE  Caches!SoundStep
BY DEF Caches!SoundStep, Caches!Age, CachesInv

LEMMA CandlesHonest ==
    ASSUME CachesInv', NEW d, NEW s, answer' = [of |-> "candles", data |-> d, stale |-> s],
           d # None /\ ~s => cacheNow - d <= CandleTtl,
           d = None => memory = None /\ s,
           s => request' # request
    PROVE  Caches!SoundStep
BY DEF Caches!SoundStep, Caches!Age, CachesInv

\* A step that leaves the last answer, or forgets it, says nothing.
LEMMA SilentHonest ==
    ASSUME CachesInv', answer' = answer \/ answer' = Caches!NoAnswer
    PROVE  Caches!SoundStep
<1>1. answer' = answer \/ answer'.of = "none"
  BY DEF Caches!NoAnswer
<1> QED BY <1>1 DEF Caches!SoundStep, CachesInv

\* The invariant when the caches and the time stay and requests begin or end.
LEMMA AskedKeeps ==
    ASSUME CachesInv,
           UNCHANGED <<cacheNow, boards, flow, redis, memory, loaded>>,
           NEW r \in Requests, NEW q,
           \/ q = None
           \/ /\ q \in Caches!Asked /\ q.at = cacheNow
              /\ (q.of = "boards" /\ q.cached = None => ~q.loaded),
           request' = [request EXCEPT ![r] = q]
    PROVE  CachesInv'
<1>1. request \in [Requests -> {None} \union Caches!Asked] /\ cacheNow \in Nat
      /\ UpstreamTimeout \in Nat
  BY CachesAssumption DEF CachesInv, Caches!TypeOK
<1>2. request' \in [Requests -> {None} \union Caches!Asked]
  BY <1>1
<1>3. \A z \in Requests : request'[z] = IF z = r THEN q ELSE request[z]
  BY <1>1
<1>4. RequestsKnow'
  BY <1>1, <1>3 DEF CachesInv, RequestsKnow
<1>5. \A z \in Requests : request'[z] # None => cacheNow' - request'[z].at <= UpstreamTimeout
  BY <1>1, <1>3 DEF CachesInv, Caches!TypeOK
<1>6. Caches!TypeOK'
  BY <1>2, <1>5 DEF CachesInv, Caches!TypeOK
<1>7. EntriesAreYoung'
  BY DEF CachesInv, EntriesAreYoung
<1> QED BY <1>4, <1>6, <1>7 DEF CachesInv

LEMMA CacheAskKeeps ==
    ASSUME CachesInv, NEW r \in Requests, Caches!Ask(r)
    PROVE  CachesInv' /\ Caches!SoundStep
<1>1. /\ request[r] = None
      /\ UNCHANGED <<cacheNow, boards, flow, redis, memory, reachable, cacheRestarts, loaded>>
  BY AskFacts
<1>2. /\ cacheNow \in Nat /\ request \in [Requests -> {None} \union Caches!Asked]
      /\ loaded \in BOOLEAN /\ (loaded <=> boards # None)
      /\ boards \in {None} \union Caches!BoardEntries
  BY DEF CachesInv, Caches!TypeOK
<1>3. /\ BoardTtl \in Nat /\ FlowTtl \in Nat /\ CandleTtl \in Nat /\ FailureTtl \in Nat
      /\ UpstreamTimeout \in Nat
  BY CachesAssumption
<1>4. ASSUME UNCHANGED request PROVE CachesInv'
  BY <1>1, <1>4 DEF CachesInv, Caches!TypeOK, EntriesAreYoung, RequestsKnow
<1>5. CASE /\ UNCHANGED request
           /\ boards # None /\ cacheNow - boards.at < BoardTtl
           /\ answer' = [of |-> "boards", data |-> boards.data, stale |-> FALSE]
  <2>1. cacheNow - boards.data < BoardTtl /\ boards.data # None
    BY <1>2, <1>3, <1>5, CacheTypes DEF CachesInv, EntriesAreYoung
  <2> QED BY <1>4, <1>5, <2>1, BoardsHonest
<1>6. CASE /\ UNCHANGED request
           /\ flow # None /\ cacheNow < flow.until
           /\ answer' = [of |-> "flow", data |-> flow.data, stale |-> FALSE]
  <2>1. /\ flow.data # None => cacheNow - flow.data < FlowTtl
        /\ flow.data = None => flow'.data = None /\ flow'.until <= cacheNow + FailureTtl
    BY <1>1, <1>2, <1>3, <1>6, CacheTypes DEF CachesInv, EntriesAreYoung
  <2> QED BY <1>4, <1>6, <2>1, FlowHonest
<1>7. CASE /\ UNCHANGED request /\ redis # None
           /\ answer' = [of |-> "candles", data |-> redis.data, stale |-> FALSE]
  <2>1. cacheNow - redis.data <= CandleTtl /\ redis.data # None
    BY <1>2, <1>3, <1>7, CacheTypes DEF CachesInv, EntriesAreYoung, Caches!TypeOK
  <2> QED BY <1>4, <1>7, <2>1, CandlesHonest
<1>8. CASE /\ UNCHANGED request
           /\ memory # None /\ cacheNow <= memory.until
           /\ answer' = [of |-> "candles", data |-> memory.data, stale |-> FALSE]
  <2>1. cacheNow - memory.data <= CandleTtl /\ memory.data # None
    BY <1>2, <1>3, <1>8, CacheTypes DEF CachesInv, EntriesAreYoung
  <2> QED BY <1>4, <1>8, <2>1, CandlesHonest
<1>9. CASE /\ UNCHANGED answer
           /\ \E of \in {"boards", "flow", "candles"}, cached \in {boards, None} :
                /\ of = "boards" => cached = boards
                /\ request' = [request EXCEPT ![r] =
                     [of |-> of, at |-> cacheNow, cached |-> cached, loaded |-> loaded]]
  <2>1. PICK of \in {"boards", "flow", "candles"}, cached \in {boards, None} :
          /\ of = "boards" => cached = boards
          /\ request' = [request EXCEPT ![r] =
               [of |-> of, at |-> cacheNow, cached |-> cached, loaded |-> loaded]]
    BY <1>9
  <2>2. PICK q : q = [of |-> of, at |-> cacheNow, cached |-> cached, loaded |-> loaded]
    OBVIOUS
  <2>3. q \in Caches!Asked
    BY <1>2, <2>2 DEF Caches!Asked
  <2>4. q.at = cacheNow /\ (q.of = "boards" /\ q.cached = None => ~q.loaded)
    BY <1>2, <2>1, <2>2
  <2>5. request' = [request EXCEPT ![r] = q]
    BY <2>1, <2>2
  <2>6. CachesInv'
    BY <1>1, <2>3, <2>4, <2>5, AskedKeeps
  <2> QED BY <1>9, <2>6, SilentHonest
<1> QED BY <1>5, <1>6, <1>7, <1>8, <1>9, AskFacts

\* The invariant when a request ends and the caches keep what is young.
LEMMA ArrivedKeeps ==
    ASSUME CachesInv, NEW r \in Requests, request[r] # None,
           request' = [request EXCEPT ![r] = None], UNCHANGED cacheNow,
           boards' \in {None} \union Caches!BoardEntries,
           flow' \in {None} \union Caches!FlowEntries,
           redis' \in {None} \union Caches!CandleEntries,
           memory' \in {None} \union Caches!CandleEntries,
           loaded' \in BOOLEAN, loaded' <=> boards' # None,
           redis' # None => redis'.until > cacheNow,
           flow' # None => flow'.until <= cacheNow + FlowTtl,
           EntriesAreYoung'
    PROVE  CachesInv' /\ request' # request
<1>1. request \in [Requests -> {None} \union Caches!Asked] /\ cacheNow \in Nat
  BY DEF CachesInv, Caches!TypeOK
<1>2. request' \in [Requests -> {None} \union Caches!Asked]
  BY <1>1
<1>3. \A z \in Requests : request'[z] = IF z = r THEN None ELSE request[z]
  BY <1>1
<1>4. RequestsKnow'
  BY <1>3 DEF CachesInv, RequestsKnow
<1>5. \A z \in Requests : request'[z] # None => cacheNow' - request'[z].at <= UpstreamTimeout
  BY <1>3 DEF CachesInv, Caches!TypeOK
<1>6. Caches!TypeOK'
  BY <1>1, <1>2, <1>5 DEF Caches!TypeOK
<1>7. request' # request
  BY <1>3
<1> QED BY <1>4, <1>6, <1>7 DEF CachesInv

LEMMA BoardsArriveKeeps ==
    ASSUME CachesInv, NEW r \in Requests, request[r] # None, request[r].of = "boards",
           request' = [request EXCEPT ![r] = None],
           UNCHANGED <<cacheNow, flow, redis, memory>>,
           \/ /\ boards' = [data |-> cacheNow, at |-> request[r].at] /\ loaded' = TRUE
              /\ answer' = [of |-> "boards", data |-> cacheNow, stale |-> FALSE]
           \/ /\ UNCHANGED <<boards, loaded>>
              /\ \/ /\ request[r].cached # None
                    /\ answer' = [of |-> "boards", data |-> request[r].cached.data,
                                  stale |-> TRUE]
                 \/ /\ request[r].cached = None
                    /\ answer' = [of |-> "boards", data |-> None, stale |-> FALSE]
    PROVE  CachesInv' /\ Caches!SoundStep
<1>1. /\ cacheNow \in Nat /\ loaded \in BOOLEAN /\ (loaded <=> boards # None)
      /\ boards \in {None} \union Caches!BoardEntries
      /\ flow \in {None} \union Caches!FlowEntries
      /\ redis \in {None} \union Caches!CandleEntries
      /\ memory \in {None} \union Caches!CandleEntries
      /\ redis # None => redis.until > cacheNow
      /\ flow # None => flow.until <= cacheNow + FlowTtl
      /\ EntriesAreYoung
  BY DEF CachesInv, Caches!TypeOK
<1>2. /\ request[r].at \in Nat /\ request[r].at <= cacheNow
      /\ request[r].cached = None => ~request[r].loaded
      /\ request[r].cached # None => request[r].cached.data # None
  BY CacheTypes DEF CachesInv, RequestsKnow
<1>3. BoardTtl \in Nat \ {0} /\ None \notin Caches!BoardEntries /\ None \notin Nat
  BY CachesAssumption
<1>4. CASE /\ boards' = [data |-> cacheNow, at |-> request[r].at] /\ loaded' = TRUE
           /\ answer' = [of |-> "boards", data |-> cacheNow, stale |-> FALSE]
  <2>1. /\ boards' \in Caches!BoardEntries /\ boards' # None
        /\ boards'.at = request[r].at /\ boards'.data = cacheNow
    BY <1>1, <1>2, <1>3, <1>4 DEF Caches!BoardEntries
  <2>2. EntriesAreYoung'
    BY <1>1, <1>2, <2>1 DEF EntriesAreYoung
  <2>3. CachesInv'
    BY <1>1, <1>4, <2>1, <2>2, ArrivedKeeps
  <2>4. cacheNow - cacheNow < BoardTtl /\ cacheNow # None
    BY <1>1, <1>3
  <2> QED BY <1>4, <2>3, <2>4, BoardsHonest
<1>5. CASE UNCHANGED <<boards, loaded>>
  <2>1. EntriesAreYoung'
    BY <1>1, <1>5 DEF EntriesAreYoung
  <2>2. CachesInv'
    BY <1>1, <1>5, <2>1, ArrivedKeeps
  <2>3. CASE /\ request[r].cached # None
             /\ answer' = [of |-> "boards", data |-> request[r].cached.data, stale |-> TRUE]
    BY <1>2, <2>2, <2>3, BoardsHonest
  <2>4. CASE /\ request[r].cached = None
             /\ answer' = [of |-> "boards", data |-> None, stale |-> FALSE]
    <3>1. Caches!Asks(r, "boards") /\ ~request[r].loaded
      BY <1>2, <2>4 DEF Caches!Asks
    <3> QED BY <2>2, <2>4, <3>1, BoardsHonest
  <2>5. CASE boards' = [data |-> cacheNow, at |-> request[r].at] /\ loaded' = TRUE
             /\ answer' = [of |-> "boards", data |-> cacheNow, stale |-> FALSE]
    BY <1>4, <2>5
  <2> QED BY <2>3, <2>4, <2>5
<1> QED BY <1>4, <1>5

LEMMA FlowArrivesKeeps ==
    ASSUME CachesInv, NEW r \in Requests, request[r] # None,
           request' = [request EXCEPT ![r] = None],
           UNCHANGED <<cacheNow, boards, redis, memory, loaded>>,
           answer' = [of |-> "flow", data |-> flow'.data, stale |-> FALSE],
           \/ flow' = [data |-> cacheNow, until |-> request[r].at + FlowTtl]
           \/ flow' = [data |-> None, until |-> request[r].at + FailureTtl]
    PROVE  CachesInv' /\ Caches!SoundStep
<1>1. /\ cacheNow \in Nat /\ loaded \in BOOLEAN /\ (loaded <=> boards # None)
      /\ boards \in {None} \union Caches!BoardEntries
      /\ redis \in {None} \union Caches!CandleEntries
      /\ memory \in {None} \union Caches!CandleEntries
      /\ redis # None => redis.until > cacheNow
      /\ EntriesAreYoung
  BY DEF CachesInv, Caches!TypeOK
<1>2. request[r].at \in Nat /\ request[r].at <= cacheNow
  BY CacheTypes DEF CachesInv, RequestsKnow
<1>3. /\ FlowTtl \in Nat \ {0} /\ FailureTtl \in Nat /\ FailureTtl <= FlowTtl
      /\ None \notin Caches!FlowEntries /\ None \notin Nat
  BY CachesAssumption
<1>4. /\ flow' \in Caches!FlowEntries /\ flow' # None
      /\ flow'.until <= cacheNow + FlowTtl
      /\ flow'.data # None => flow'.data = cacheNow /\ flow'.until <= cacheNow + FlowTtl
      /\ flow'.data = None => flow'.until <= cacheNow + FailureTtl
  BY <1>1, <1>2, <1>3 DEF Caches!FlowEntries
<1>5. EntriesAreYoung'
  BY <1>1, <1>4 DEF EntriesAreYoung
<1>6. CachesInv'
  BY <1>1, <1>4, <1>5, ArrivedKeeps
<1>7. flow'.data # None => cacheNow - flow'.data < FlowTtl
  BY <1>1, <1>3, <1>4
<1> QED BY <1>4, <1>6, <1>7, FlowHonest

LEMMA CandlesArriveKeeps ==
    ASSUME CachesInv, NEW r \in Requests, request[r] # None,
           request' = [request EXCEPT ![r] = None],
           UNCHANGED <<cacheNow, boards, flow, loaded>>,
           \/ /\ memory' = [data |-> cacheNow, until |-> cacheNow + CandleTtl]
              /\ redis' \in {redis, memory'}
              /\ answer' = [of |-> "candles", data |-> cacheNow, stale |-> FALSE]
           \/ /\ UNCHANGED <<memory, redis>>
              /\ \/ /\ redis # None
                    /\ answer' = [of |-> "candles", data |-> redis.data, stale |-> TRUE]
                 \/ /\ memory # None
                    /\ answer' = [of |-> "candles", data |-> memory.data, stale |-> TRUE]
                 \/ /\ memory = None
                    /\ answer' = [of |-> "candles", data |-> None, stale |-> TRUE]
    PROVE  CachesInv' /\ Caches!SoundStep
<1>1. /\ cacheNow \in Nat /\ loaded \in BOOLEAN /\ (loaded <=> boards # None)
      /\ boards \in {None} \union Caches!BoardEntries
      /\ flow \in {None} \union Caches!FlowEntries
      /\ redis \in {None} \union Caches!CandleEntries
      /\ memory \in {None} \union Caches!CandleEntries
      /\ redis # None => redis.until > cacheNow
      /\ flow # None => flow.until <= cacheNow + FlowTtl
      /\ EntriesAreYoung
  BY DEF CachesInv, Caches!TypeOK
<1>2. CandleTtl \in Nat \ {0} /\ None \notin Caches!CandleEntries /\ None \notin Nat
  BY CachesAssumption
<1>3. CASE /\ memory' = [data |-> cacheNow, until |-> cacheNow + CandleTtl]
           /\ redis' \in {redis, memory'}
           /\ answer' = [of |-> "candles", data |-> cacheNow, stale |-> FALSE]
  <2>1. /\ memory' \in Caches!CandleEntries
        /\ memory'.data = cacheNow /\ memory'.until = cacheNow + CandleTtl
    BY <1>1, <1>2, <1>3 DEF Caches!CandleEntries
  <2>2. /\ redis' \in {None} \union Caches!CandleEntries
        /\ redis' # None => redis'.until > cacheNow
    BY <1>1, <1>2, <1>3, <2>1
  <2>3. EntriesAreYoung'
    BY <1>1, <1>2, <1>3, <2>1 DEF EntriesAreYoung
  <2>4. CachesInv'
    BY <1>1, <2>1, <2>2, <2>3, ArrivedKeeps
  <2>5. cacheNow - cacheNow <= CandleTtl /\ cacheNow # None
    BY <1>1, <1>2
  <2> QED BY <1>3, <2>4, <2>5, CandlesHonest
<1>4. CASE UNCHANGED <<memory, redis>>
  <2>1. EntriesAreYoung'
    BY <1>1, <1>4 DEF EntriesAreYoung
  <2>2. CachesInv' /\ request' # request
    BY <1>1, <1>4, <2>1, ArrivedKeeps
  <2>3. /\ redis # None => redis.data # None
        /\ memory # None => memory.data # None
    BY CacheTypes
  <2>4. CASE redis # None
             /\ answer' = [of |-> "candles", data |-> redis.data, stale |-> TRUE]
    BY <2>2, <2>3, <2>4, CandlesHonest
  <2>5. CASE memory # None
             /\ answer' = [of |-> "candles", data |-> memory.data, stale |-> TRUE]
    BY <2>2, <2>3, <2>5, CandlesHonest
  <2>6. CASE memory = None
             /\ answer' = [of |-> "candles", data |-> None, stale |-> TRUE]
    BY <2>2, <2>6, CandlesHonest
  <2> QED BY <1>3, <2>4, <2>5, <2>6
<1> QED BY <1>3, <1>4

LEMMA CacheArriveKeeps ==
    ASSUME CachesInv, NEW r \in Requests, Caches!Arrive(r)
    PROVE  CachesInv' /\ Caches!SoundStep
BY ArriveFacts, BoardsArriveKeeps, FlowArrivesKeeps, CandlesArriveKeeps

\* Time passes for requests that are not over their timeout, and Redis drops what is old.
LEMMA CacheTickKeeps ==
    ASSUME CachesInv, Caches!Tick
    PROVE  CachesInv'
<1>1. /\ cacheNow' = cacheNow + 1
      /\ \A r \in Requests : request[r] # None => cacheNow - request[r].at < UpstreamTimeout
      /\ redis' = IF redis # None /\ redis.until <= cacheNow + 1 THEN None ELSE redis
      /\ UNCHANGED <<boards, flow, memory, request, loaded>>
  BY DEF Caches!Tick
<1>2. /\ cacheNow \in Nat /\ UpstreamTimeout \in Nat
      /\ FlowTtl \in Nat /\ FailureTtl \in Nat /\ CandleTtl \in Nat
  BY CachesAssumption DEF CachesInv, Caches!TypeOK
<1>3. /\ cacheNow' \in Nat /\ loaded' \in BOOLEAN /\ (loaded' <=> boards' # None)
      /\ boards' \in {None} \union Caches!BoardEntries
      /\ flow' \in {None} \union Caches!FlowEntries
      /\ redis' \in {None} \union Caches!CandleEntries
      /\ memory' \in {None} \union Caches!CandleEntries
      /\ request' \in [Requests -> {None} \union Caches!Asked]
  BY <1>1, <1>2 DEF CachesInv, Caches!TypeOK
<1>4. /\ redis' # None => redis'.until > cacheNow'
      /\ flow' # None => flow'.until <= cacheNow' + FlowTtl
  BY <1>1, <1>2, CacheTypes DEF CachesInv, Caches!TypeOK
<1>5. \A r \in Requests : request'[r] # None => cacheNow' - request'[r].at <= UpstreamTimeout
  BY <1>1, <1>2, CacheTypes
<1>6. EntriesAreYoung'
  BY <1>1, <1>2, CacheTypes DEF CachesInv, EntriesAreYoung
<1>7. RequestsKnow'
  BY <1>1, <1>2, CacheTypes DEF CachesInv, RequestsKnow
<1> QED BY <1>3, <1>4, <1>5, <1>6, <1>7 DEF CachesInv, Caches!TypeOK

\* A restart forgets what the process kept.
LEMMA CacheRestartKeeps ==
    ASSUME CachesInv, Caches!Restart
    PROVE  CachesInv'
BY DEF Caches!Restart, CachesInv, Caches!TypeOK, EntriesAreYoung, RequestsKnow

LEMMA CacheInitInv == Caches!Init => CachesInv
<1> SUFFICES ASSUME Caches!Init PROVE CachesInv
  OBVIOUS
<1>1. /\ cacheNow = 0 /\ boards = None /\ flow = None /\ redis = None /\ memory = None
      /\ loaded = FALSE /\ request = [r \in Requests |-> None]
  BY DEF Caches!Init
<1>2. request \in [Requests -> {None} \union Caches!Asked]
  BY <1>1
<1>3. \A r \in Requests : request[r] = None
  BY <1>1
<1> QED BY <1>1, <1>2, <1>3 DEF CachesInv, Caches!TypeOK, EntriesAreYoung, RequestsKnow

\* Every step keeps the invariant, and what it answers is honest.
LEMMA CacheNextKeeps ==
    ASSUME CachesInv, Caches!Next
    PROVE  CachesInv' /\ Caches!SoundStep
<1>1. CASE \E r \in Requests : Caches!Ask(r) \/ Caches!Arrive(r)
  BY <1>1, CacheAskKeeps, CacheArriveKeeps
<1>2. CASE Caches!Tick
  BY <1>2, CacheTickKeeps, SilentHonest DEF Caches!Tick
<1>3. CASE Caches!RedisFlips
  <2>1. CachesInv'
    BY <1>3 DEF Caches!RedisFlips, CachesInv, Caches!TypeOK, EntriesAreYoung, RequestsKnow
  <2> QED BY <1>3, <2>1, SilentHonest DEF Caches!RedisFlips
<1>4. CASE Caches!Restart
  BY <1>4, CacheRestartKeeps, SilentHonest DEF Caches!Restart
<1> QED BY <1>1, <1>2, <1>3, <1>4 DEF Caches!Next

\* MarketCaches: nothing older than its time to live is answered as fresh, boards that were
\* fetched before a request began are not answered to it as missing, a failure is answered
\* for its own time only (get_cached_industry_boards, get_fund_flow, get_kline).
THEOREM CachesTheorem == OneSpec => CachesAreHonest
<1>1. OneInit => CachesInv
  BY CacheInitInv DEF OneInit
<1>2. [OneNext]_allVars => [Caches!Next]_cachesVars
  BY DEF OneNext, allVars
<1>3. CachesInv /\ UNCHANGED cachesVars => CachesInv'
  BY DEF cachesVars, CachesInv, Caches!TypeOK, EntriesAreYoung, RequestsKnow
<1>4. CachesInv /\ [OneNext]_allVars => CachesInv'
  BY <1>2, <1>3, CacheNextKeeps
<1>5. CachesInv /\ [OneNext]_allVars => [active = "caches" => Caches!SoundStep]_cachesVars
  BY <1>2, CacheNextKeeps
<1> QED BY <1>1, <1>4, <1>5, PTL DEF OneSpec, CachesAreHonest
-----------------------------------------------------------------------------
(***************************************************************************)
(* QuoteAlerts, for every clock, market and quiet hours.                   *)
(***************************************************************************)
\* The sessions of the alerts, told apart by the key of the table.
OneOfEachDate ==
    \A a, b \in quoteAlerts : Alarms!DedupeKey(a.at) = Alarms!DedupeKey(b.at) => a = b

QuotesInv ==
    /\ Alarms!TypeOK
    /\ seen = [t \in Alarms!Callers |-> seen[t]]
    /\ OneOfEachDate
    /\ Alarms!QuietUntilMorning
-----------------------------------------------------------------------------
\* A time, split into the day and the slot.
LEMMA SlotOf ==
    ASSUME NEW d \in Int, NEW e \in Nat, e < SlotsPerDay
    PROVE  (d * SlotsPerDay + e) % SlotsPerDay = e
<1> DEFINE y == d * SlotsPerDay + e
           q == y \div SlotsPerDay
           m == y % SlotsPerDay
<1>1. SlotsPerDay \in Nat \ {0} /\ y \in Int
  BY QuotesAssumption
<1>2. q \in Int /\ m \in Nat /\ m < SlotsPerDay /\ y = SlotsPerDay * q + m
  BY <1>1
<1>3. y = d * SlotsPerDay + e
  OBVIOUS
<1> HIDE DEF y, q, m
<1>4. CASE q + 1 <= d
  <2>1. (q + 1) * SlotsPerDay <= d * SlotsPerDay
    BY <1>1, <1>2, <1>4
  <2> QED BY <1>1, <1>2, <1>3, <2>1
<1>5. CASE d + 1 <= q
  <2>1. (d + 1) * SlotsPerDay <= q * SlotsPerDay
    BY <1>1, <1>2, <1>5
  <2> QED BY <1>1, <1>2, <1>3, <2>1
<1>6. CASE q = d
  BY <1>1, <1>2, <1>3, <1>6 DEF m
<1> QED BY <1>1, <1>2, <1>4, <1>5, <1>6 DEF m, y

\* A moment has a day and a slot, and is made of them.
LEMMA DayAndSlot ==
    ASSUME NEW c \in Nat
    PROVE  /\ c \div SlotsPerDay \in Nat /\ c % SlotsPerDay \in Nat /\ c % SlotsPerDay < SlotsPerDay
           /\ c = (c \div SlotsPerDay) * SlotsPerDay + (c % SlotsPerDay)
<1> DEFINE q == c \div SlotsPerDay
           m == c % SlotsPerDay
<1>1. SlotsPerDay \in Nat \ {0} /\ c \in Nat
  BY QuotesAssumption
<1>2. q \in Int /\ m \in Nat /\ m < SlotsPerDay /\ c = SlotsPerDay * q + m
  BY <1>1
<1>3. q >= 0
  BY <1>1
<1> HIDE DEF q, m
<1>4. q \in Nat /\ SlotsPerDay \in Int
  BY <1>1, <1>2, <1>3
<1>5. SlotsPerDay * q = q * SlotsPerDay
  BY <1>4
<1>6. c = q * SlotsPerDay + m
  BY <1>2, <1>5, Zenon
<1> QED BY <1>2, <1>4, <1>6, Zenon DEF q, m

\* An alert written in the quiet hours is for their end, any other one for now.
LEMMA VisibleInTime ==
    ASSUME NEW c \in Nat
    PROVE  /\ Alarms!VisibleAt(c) \in Nat /\ Alarms!VisibleAt(c) >= c
           /\ ~Alarms!Night(Alarms!VisibleAt(c))
           /\ \A x \in c..(Alarms!VisibleAt(c) - 1) : Alarms!Night(x)
           /\ Alarms!VisibleAt(c) = c <=> ~Alarms!Night(c)
<1> DEFINE d == c \div SlotsPerDay
           e == c % SlotsPerDay
           v == Alarms!VisibleAt(c)
           base == d * SlotsPerDay
           next == (d + 1) * SlotsPerDay
<1>1. /\ SlotsPerDay \in Nat \ {0} /\ QuietStart \in Nat /\ QuietEnd \in Nat
      /\ QuietStart < SlotsPerDay /\ QuietEnd < SlotsPerDay
  BY QuotesAssumption
<1>2. d \in Nat /\ e \in Nat /\ e < SlotsPerDay /\ c = base + e
  BY DayAndSlot, Zenon
<1>3. base \in Nat /\ next \in Nat /\ next = base + SlotsPerDay
  BY <1>1, <1>2
<1>4. \A f \in Nat : f < SlotsPerDay => Alarms!Slot(base + f) = f /\ Alarms!Slot(next + f) = f
  BY <1>2, SlotOf DEF Alarms!Slot
<1>5. Alarms!Slot(c) = e /\ Alarms!Day(c) = d
  BY DEF Alarms!Slot, Alarms!Day
<1>6. v = IF Alarms!Night(c)
          THEN IF QuietStart > QuietEnd /\ e >= QuietStart THEN next + QuietEnd ELSE base + QuietEnd
          ELSE c
  <2> HIDE DEF d, e
  <2>1. CASE QuietStart > QuietEnd /\ e >= QuietStart
    BY <1>1, <1>2, <1>5, <2>1 DEF Alarms!VisibleAt
  <2>2. CASE ~(QuietStart > QuietEnd /\ e >= QuietStart)
    BY <1>1, <1>2, <1>5, <2>2 DEF Alarms!VisibleAt
  <2> QED BY <2>1, <2>2
<1> HIDE DEF v, d, e, base, next
<1>7. CASE ~Alarms!Night(c)
  BY <1>6, <1>7 DEF v
<1>8. CASE Alarms!Night(c) /\ QuietStart <= QuietEnd
  <2>1. QuietStart <= e /\ e < QuietEnd /\ v = base + QuietEnd
    BY <1>1, <1>2, <1>5, <1>6, <1>8 DEF Alarms!Night
  <2>2. ~Alarms!Night(v)
    BY <1>1, <1>4, <1>8, <2>1 DEF Alarms!Night
  <2>3. \A x \in c..(v - 1) : Alarms!Night(x)
    <3> TAKE x \in c..(v - 1)
    <3>1. x - base \in Nat /\ x - base < QuietEnd /\ x - base >= QuietStart /\ x = base + (x - base)
      BY <1>1, <1>2, <1>3, <2>1
    <3>2. Alarms!Slot(x) = x - base
      BY <1>1, <1>4, <3>1
    <3> QED BY <1>1, <1>8, <3>1, <3>2 DEF Alarms!Night
  <2> QED BY <1>1, <1>2, <1>3, <1>8, <2>1, <2>2, <2>3 DEF v
<1>9. CASE Alarms!Night(c) /\ QuietStart > QuietEnd /\ e < QuietStart
  <2>1. e < QuietEnd /\ v = base + QuietEnd
    BY <1>1, <1>2, <1>5, <1>6, <1>9 DEF Alarms!Night
  <2>2. ~Alarms!Night(v)
    BY <1>1, <1>4, <1>9, <2>1 DEF Alarms!Night
  <2>3. \A x \in c..(v - 1) : Alarms!Night(x)
    <3> TAKE x \in c..(v - 1)
    <3>1. x - base \in Nat /\ x - base < QuietEnd /\ x = base + (x - base)
      BY <1>1, <1>2, <1>3, <2>1
    <3>2. Alarms!Slot(x) = x - base
      BY <1>1, <1>4, <3>1
    <3> QED BY <1>1, <1>9, <3>1, <3>2 DEF Alarms!Night
  <2> QED BY <1>1, <1>2, <1>3, <1>9, <2>1, <2>2, <2>3 DEF v
<1>10. CASE Alarms!Night(c) /\ QuietStart > QuietEnd /\ e >= QuietStart
  <2>1. v = next + QuietEnd
    BY <1>1, <1>2, <1>6, <1>10
  <2>2. ~Alarms!Night(v)
    BY <1>1, <1>4, <1>10, <2>1 DEF Alarms!Night
  <2>3. \A x \in c..(v - 1) : Alarms!Night(x)
    <3> TAKE x \in c..(v - 1)
    <3>1. CASE x < next
      <4>1. x - base \in Nat /\ x - base < SlotsPerDay /\ x - base >= QuietStart
            /\ x = base + (x - base)
        BY <1>1, <1>2, <1>3, <1>10, <2>1, <3>1
      <4>2. Alarms!Slot(x) = x - base
        BY <1>1, <1>4, <4>1
      <4> QED BY <1>1, <1>10, <4>1, <4>2 DEF Alarms!Night
    <3>2. CASE x >= next
      <4>1. x - next \in Nat /\ x - next < QuietEnd /\ x = next + (x - next)
        BY <1>1, <1>2, <1>3, <2>1, <3>2
      <4>2. Alarms!Slot(x) = x - next
        BY <1>1, <1>4, <4>1
      <4> QED BY <1>1, <1>10, <4>1, <4>2 DEF Alarms!Night
    <3> QED BY <1>1, <1>2, <1>3, <2>1, <3>1, <3>2
  <2> QED BY <1>1, <1>2, <1>3, <1>10, <2>1, <2>2, <2>3 DEF v
<1> QED BY <1>1, <1>2, <1>7, <1>8, <1>9, <1>10

\* A set of numbers that is not empty has a least element.
LEMMA LeastNumber ==
    ASSUME NEW T \in SUBSET Nat, T # {}
    PROVE  \E x \in T : \A y \in T : x <= y
<1> DEFINE R == OpToRel(<, Nat)
<1>1. IsWellFoundedOn(R, Nat)
  BY NatLessThanWellFounded
<1>2. \A x, y \in Nat : <<y, x>> \in R <=> y < x
  BY DEF OpToRel
<1> HIDE DEF R
<1>3. PICK x \in T : \A y \in T : ~(<<y, x>> \in R)
  BY <1>1, WFMin
<1>4. \A y \in T : y \in Nat /\ x \in Nat /\ ~(y < x)
  BY <1>2, <1>3
<1>5. \A y \in T : x <= y
  BY <1>4
<1> QED BY <1>3, <1>5

\* Within a session the market's date stays: it changes between two moments of which one
\* is closed.
LEMMA SessionHasOneDate ==
    ASSUME NEW a \in 0..MaxClock, NEW b \in 0..MaxClock, a <= b, market \in Alarms!Markets,
           \A e \in a..b : Alarms!MarketOpen(e)
    PROVE  Alarms!MarketDate(a) = Alarms!MarketDate(b)
<1> DEFINE Others == {e \in a..b : Alarms!MarketDate(e) # Alarms!MarketDate(a)}
<1>1. MaxClock \in Nat
  BY QuotesAssumption
<1> SUFFICES ASSUME Others # {} PROVE FALSE
  BY <1>1
<1>2. Others \in SUBSET Nat
  BY <1>1
<1>3. PICK e \in Others : \A f \in Others : e <= f
  BY <1>2, LeastNumber
<1>4. e # a /\ e \in a..b
  BY <1>3
<1>5. PICK d : d = e - 1
  OBVIOUS
<1>6. d \in 0..(MaxClock - 1) /\ d \in a..b /\ e = d + 1
  BY <1>1, <1>4, <1>5
<1>7. d \notin Others
  BY <1>2, <1>3, <1>6
<1>8. Alarms!MarketDate(d) # Alarms!MarketDate(d + 1)
  BY <1>3, <1>6, <1>7
<1>9. Alarms!MarketOpen(d) /\ Alarms!MarketOpen(d + 1)
  BY <1>4, <1>6
<1>10. {d % SlotsPerDay, (d + 1) % SlotsPerDay} \subseteq OpenSlots[market]
  BY <1>9 DEF Alarms!MarketOpen, Alarms!Slot
<1>11. (d + DateShift[market]) \div SlotsPerDay = (d + 1 + DateShift[market]) \div SlotsPerDay
  BY <1>6, <1>10, QuotesAssumption
<1> QED BY <1>8, <1>11 DEF Alarms!MarketDate

\* So no two alerts are of one session.
LEMMA OneAlertASession ==
    ASSUME QuotesInv
    PROVE  Alarms!OneAlertPerSession
<1>1. MaxClock \in Nat
  BY QuotesAssumption
<1>2. /\ market \in Alarms!Markets
      /\ \A a \in quoteAlerts : a.at \in 0..MaxClock
  BY <1>1 DEF QuotesInv, Alarms!TypeOK
<1> SUFFICES ASSUME NEW a \in quoteAlerts, NEW b \in quoteAlerts, Alarms!SameSession(a.at, b.at)
             PROVE  a = b
  BY DEF Alarms!OneAlertPerSession
<1>3. \A e \in 0..MaxClock :
        (a.at <= e /\ e <= b.at) \/ (b.at <= e /\ e <= a.at) => Alarms!MarketOpen(e)
  BY DEF Alarms!SameSession
<1>4. CASE a.at <= b.at
  <2>1. \A e \in a.at..b.at : Alarms!MarketOpen(e)
    BY <1>1, <1>2, <1>3
  <2>2. Alarms!MarketDate(a.at) = Alarms!MarketDate(b.at)
    BY <1>2, <1>4, <2>1, SessionHasOneDate
  <2> QED BY <2>2 DEF QuotesInv, OneOfEachDate, Alarms!DedupeKey
<1>5. CASE b.at <= a.at
  <2>1. \A e \in b.at..a.at : Alarms!MarketOpen(e)
    BY <1>1, <1>2, <1>3
  <2>2. Alarms!MarketDate(b.at) = Alarms!MarketDate(a.at)
    BY <1>2, <1>5, <2>1, SessionHasOneDate
  <2> QED BY <2>2 DEF QuotesInv, OneOfEachDate, Alarms!DedupeKey
<1> QED BY <1>1, <1>2, <1>4, <1>5

\* What a caller holds, step by step.
LEMMA HeldIs ==
    /\ Alarms!Held("idle") = {None} /\ Alarms!Held("reading") = {None}
    /\ Alarms!Held("fetching") = {None} \cup Prices
    /\ Alarms!Held("fetched") = {quote \in Alarms!Rows : quote.at <= clock}
    /\ Alarms!Held("read") = {quote \in Alarms!Rows : quote.at <= clock}
    /\ Alarms!Held("quoted") = Prices /\ Alarms!Held("alerting") = 0..clock
BY DEF Alarms!Held

CallerSteps == {"idle", "fetching", "reading", "fetched", "read", "quoted", "alerting"}

\* The invariant, after a step of one caller that makes no alert.
LEMMA CallerKeeps ==
    ASSUME QuotesInv, NEW t \in Alarms!Callers, NEW p \in CallerSteps, NEW h \in Alarms!Held(p),
           pc' = [pc EXCEPT ![t] = p], seen' = [seen EXCEPT ![t] = h],
           UNCHANGED <<clock, market, real, lagging, quoteAlerts>>,
           snapshot' # None => snapshot' \in Alarms!Rows /\ snapshot'.at <= clock
    PROVE  QuotesInv'
<1>1. /\ pc \in [Alarms!Callers -> CallerSteps] /\ seen = [x \in Alarms!Callers |-> seen[x]]
      /\ \A x \in Alarms!Callers : seen[x] \in Alarms!Held(pc[x])
  BY DEF QuotesInv, Alarms!TypeOK, CallerSteps
<1>2. /\ pc' \in [Alarms!Callers -> CallerSteps]
      /\ \A x \in Alarms!Callers : /\ pc'[x] = IF x = t THEN p ELSE pc[x]
                                   /\ seen'[x] = IF x = t THEN h ELSE seen[x]
      /\ seen' = [x \in Alarms!Callers |-> seen'[x]]
  BY <1>1
<1>3. \A x \in Alarms!Callers : seen'[x] \in Alarms!Held(pc'[x])
  BY <1>1, <1>2
<1>4. ASSUME NEW q PROVE Alarms!Held(q)' = Alarms!Held(q)
  BY DEF Alarms!Held
<1>5. \A x \in Alarms!Callers : seen'[x] \in Alarms!Held(pc[x])'
  BY <1>3, <1>4
<1>6. Alarms!TypeOK'
  BY <1>2, <1>5 DEF QuotesInv, Alarms!TypeOK, CallerSteps
<1>7. OneOfEachDate'
  BY DEF QuotesInv, OneOfEachDate, Alarms!DedupeKey, Alarms!MarketDate
<1>8. Alarms!QuietUntilMorning'
  BY DEF QuotesInv, Alarms!QuietUntilMorning
<1> QED BY <1>2, <1>6, <1>7, <1>8 DEF QuotesInv

\* A caller that begins, that fetched or failed to.
LEMMA BeginKeeps ==
    ASSUME QuotesInv, NEW t \in Alarms!Callers, Alarms!Begin(t)
    PROVE  QuotesInv' /\ UNCHANGED <<snapshot, quoteAlerts>>
<1>1. PICK p : p = IF Alarms!Fresh THEN "quoted" ELSE "fetching"
  OBVIOUS
<1>2. PICK h : h = Alarms!Cached
  OBVIOUS
<1>3. /\ pc' = [pc EXCEPT ![t] = p] /\ seen' = [seen EXCEPT ![t] = h]
      /\ UNCHANGED <<clock, market, real, lagging, quoteAlerts, snapshot>>
  BY <1>1, <1>2 DEF Alarms!Begin, Alarms!world
<1>4. snapshot # None => /\ snapshot \in Alarms!Rows /\ snapshot.at <= clock
                         /\ snapshot.price \in Prices
  BY DEF QuotesInv, Alarms!TypeOK, Alarms!Rows
<1>5. p \in CallerSteps /\ h \in Alarms!Held(p)
  BY <1>1, <1>2, <1>4, HeldIs DEF Alarms!Cached, Alarms!Fresh, CallerSteps
<1> QED BY <1>3, <1>4, <1>5, CallerKeeps

LEMMA BeginReadKeeps ==
    ASSUME QuotesInv, Alarms!BeginRead
    PROVE  QuotesInv' /\ UNCHANGED <<snapshot, quoteAlerts>>
<1>1. PICK t : t = "request"
  OBVIOUS
<1>2. PICK h : h = seen[t]
  OBVIOUS
<1>3. /\ pc[t] = "idle" /\ pc' = [pc EXCEPT ![t] = "reading"] /\ t \in Alarms!Callers
      /\ UNCHANGED <<clock, market, real, lagging, quoteAlerts, snapshot, seen>>
  BY <1>1 DEF Alarms!BeginRead, Alarms!world, Alarms!Callers
<1>4. seen' = [seen EXCEPT ![t] = h]
  BY <1>2, <1>3 DEF QuotesInv
<1>5. h = None
  BY <1>2, <1>3, HeldIs DEF QuotesInv, Alarms!TypeOK
<1>6. h \in Alarms!Held("reading") /\ "reading" \in CallerSteps
  BY <1>5, HeldIs DEF CallerSteps
<1>7. snapshot' # None => snapshot' \in Alarms!Rows /\ snapshot'.at <= clock
  BY <1>3 DEF QuotesInv, Alarms!TypeOK
<1> QED BY <1>3, <1>4, <1>6, <1>7, CallerKeeps

LEMMA FetchOkKeeps ==
    ASSUME QuotesInv, NEW t \in Alarms!Callers, Alarms!FetchOk(t)
    PROVE  QuotesInv' /\ UNCHANGED <<snapshot, quoteAlerts>>
<1>1. PICK p : p = IF pc[t] = "fetching" THEN "fetched" ELSE "read"
  OBVIOUS
<1>2. PICK q \in Alarms!Answers : seen' = [seen EXCEPT ![t] = [price |-> q, at |-> clock]]
  BY DEF Alarms!FetchOk
<1>3. PICK h : h = [price |-> q, at |-> clock]
  OBVIOUS
<1>4. real \in Prices /\ lagging \in Prices /\ clock \in Nat
  BY QuotesAssumption DEF QuotesInv, Alarms!TypeOK
<1>5. q \in Prices
  BY <1>4 DEF Alarms!Answers, Alarms!FirstSource, Alarms!SecondSource
<1>6. p \in CallerSteps /\ h \in Alarms!Held(p)
  BY <1>1, <1>3, <1>4, <1>5, HeldIs DEF CallerSteps, Alarms!Rows
<1>7. /\ pc' = [pc EXCEPT ![t] = p] /\ seen' = [seen EXCEPT ![t] = h]
      /\ UNCHANGED <<clock, market, real, lagging, quoteAlerts, snapshot>>
  BY <1>1, <1>2, <1>3 DEF Alarms!FetchOk, Alarms!world, QuotesInv, Alarms!TypeOK
<1>8. snapshot' # None => snapshot' \in Alarms!Rows /\ snapshot'.at <= clock
  BY <1>7 DEF QuotesInv, Alarms!TypeOK
<1> QED BY <1>6, <1>7, <1>8, CallerKeeps

LEMMA FetchFailsKeeps ==
    ASSUME QuotesInv, NEW t \in Alarms!Callers, Alarms!FetchFails(t)
    PROVE  QuotesInv' /\ UNCHANGED <<snapshot, quoteAlerts>>
<1>1. PICK h : h = seen[t]
  OBVIOUS
<1>2. PICK p : p = IF h = None THEN "idle" ELSE "quoted"
  OBVIOUS
<1>3. /\ pc[t] \in {"fetching", "reading"} /\ pc' = [pc EXCEPT ![t] = p]
      /\ UNCHANGED <<clock, market, real, lagging, quoteAlerts, snapshot, seen>>
  BY <1>1, <1>2 DEF Alarms!FetchFails, Alarms!world
<1>4. seen' = [seen EXCEPT ![t] = h]
  BY <1>1, <1>3 DEF QuotesInv
<1>5. h \in {None} \cup Prices
  BY <1>1, <1>3, HeldIs DEF QuotesInv, Alarms!TypeOK
<1>6. p \in CallerSteps /\ h \in Alarms!Held(p)
  BY <1>2, <1>5, HeldIs DEF CallerSteps
<1>7. snapshot' # None => snapshot' \in Alarms!Rows /\ snapshot'.at <= clock
  BY <1>3 DEF QuotesInv, Alarms!TypeOK
<1> QED BY <1>3, <1>4, <1>6, <1>7, CallerKeeps

\* A row is written after those before it, and readers are shown the latest.
LEMMA SaveKeeps ==
    ASSUME QuotesInv, NEW t \in Alarms!Callers, Alarms!Save(t)
    PROVE  QuotesInv' /\ UNCHANGED quoteAlerts /\ Alarms!NeverOlder
<1>1. PICK quote : quote = seen[t]
  OBVIOUS
<1>2. PICK p : p = IF pc[t] = "read" THEN "idle" ELSE "quoted"
  OBVIOUS
<1>3. PICK h : h = IF pc[t] = "read" THEN None ELSE quote.price
  OBVIOUS
<1>4. /\ pc[t] \in {"fetched", "read"} /\ snapshot' = Alarms!Latest(snapshot, quote)
      /\ pc' = [pc EXCEPT ![t] = p] /\ seen' = [seen EXCEPT ![t] = h]
      /\ UNCHANGED <<clock, market, real, lagging, quoteAlerts>>
  BY <1>1, <1>2, <1>3 DEF Alarms!Save, Alarms!world, QuotesInv, Alarms!TypeOK
<1>5. quote \in Alarms!Rows /\ quote.at <= clock
  BY <1>1, <1>4, HeldIs DEF QuotesInv, Alarms!TypeOK
<1>6. quote.price \in Prices /\ quote.at \in Nat /\ quote # None
  BY <1>5, QuotesAssumption DEF Alarms!Rows
<1>7. p \in CallerSteps /\ h \in Alarms!Held(p)
  BY <1>2, <1>3, <1>6, HeldIs DEF CallerSteps
<1>8. snapshot # None => snapshot \in Alarms!Rows /\ snapshot.at \in Nat /\ snapshot.at <= clock
  BY DEF QuotesInv, Alarms!TypeOK, Alarms!Rows
<1>9. /\ snapshot' # None => snapshot' \in Alarms!Rows /\ snapshot'.at <= clock
      /\ Alarms!NeverOlder
  BY <1>4, <1>5, <1>6, <1>8 DEF Alarms!Latest, Alarms!NeverOlder
<1> QED BY <1>4, <1>7, <1>9, CallerKeeps

LEMMA QuotesCheckKeeps ==
    ASSUME QuotesInv, NEW t \in Alarms!Callers, Alarms!Check(t)
    PROVE  QuotesInv' /\ UNCHANGED <<snapshot, quoteAlerts>>
<1>1. /\ UNCHANGED <<clock, market, real, lagging, quoteAlerts, snapshot>>
      /\ \/ pc' = [pc EXCEPT ![t] = "alerting"] /\ seen' = [seen EXCEPT ![t] = clock]
         \/ pc' = [pc EXCEPT ![t] = "idle"] /\ seen' = [seen EXCEPT ![t] = None]
  BY DEF Alarms!Check, Alarms!world
<1>2. /\ clock \in Alarms!Held("alerting") /\ None \in Alarms!Held("idle")
      /\ "alerting" \in CallerSteps /\ "idle" \in CallerSteps
  BY HeldIs, QuotesAssumption DEF CallerSteps, QuotesInv, Alarms!TypeOK
<1>3. snapshot' # None => snapshot' \in Alarms!Rows /\ snapshot'.at <= clock
  BY <1>1 DEF QuotesInv, Alarms!TypeOK
<1>4. CASE pc' = [pc EXCEPT ![t] = "alerting"] /\ seen' = [seen EXCEPT ![t] = clock]
  <2>1. PICK h : h = clock
    OBVIOUS
  <2>2. h \in Alarms!Held("alerting") /\ seen' = [seen EXCEPT ![t] = h]
    BY <1>2, <1>4, <2>1
  <2> QED BY <1>1, <1>2, <1>3, <1>4, <2>2, CallerKeeps
<1>5. CASE pc' = [pc EXCEPT ![t] = "idle"] /\ seen' = [seen EXCEPT ![t] = None]
  BY <1>1, <1>2, <1>3, <1>5, CallerKeeps
<1> QED BY <1>1, <1>4, <1>5

\* An alert is written unless its date has one, and is shown and sent in its time.
LEMMA AlertKeeps ==
    ASSUME QuotesInv, NEW t \in Alarms!Callers, Alarms!Alert(t)
    PROVE  QuotesInv' /\ UNCHANGED snapshot
<1>1. PICK at : at = seen[t]
  OBVIOUS
<1>2. /\ pc[t] = "alerting" /\ pc' = [pc EXCEPT ![t] = "idle"]
      /\ seen' = [seen EXCEPT ![t] = None]
      /\ UNCHANGED <<clock, market, real, lagging, snapshot>>
      /\ quoteAlerts' = IF Alarms!Inserted(Alarms!DedupeKey(at))
                        THEN quoteAlerts \cup {[by |-> t, at |-> at,
                               visible |-> Alarms!VisibleAt(at), sent |-> ~Alarms!Night(at)]}
                        ELSE quoteAlerts
  BY <1>1 DEF Alarms!Alert, Alarms!world
<1>3. at \in 0..clock
  BY <1>1, <1>2, HeldIs DEF QuotesInv, Alarms!TypeOK
<1>4. clock \in Nat /\ at \in Nat
  BY <1>3, QuotesAssumption DEF QuotesInv, Alarms!TypeOK
<1>5. PICK new : new = [by |-> t, at |-> at, visible |-> Alarms!VisibleAt(at),
                        sent |-> ~Alarms!Night(at)]
  OBVIOUS
<1>6. /\ Alarms!VisibleAt(at) \in Nat /\ Alarms!VisibleAt(at) >= at
      /\ ~Alarms!Night(Alarms!VisibleAt(at))
      /\ \A x \in at..(Alarms!VisibleAt(at) - 1) : Alarms!Night(x)
      /\ Alarms!VisibleAt(at) = at <=> ~Alarms!Night(at)
  BY <1>4, VisibleInTime
<1>7. /\ new.at = at /\ new.visible = Alarms!VisibleAt(at) /\ (new.sent <=> ~Alarms!Night(at))
      /\ new \in [by : Alarms!Callers, at : 0..clock, visible : Nat, sent : BOOLEAN]
  <2>1. (~Alarms!Night(at)) \in BOOLEAN
    OBVIOUS
  <2> QED BY <1>3, <1>5, <1>6, <2>1
<1>8. \/ UNCHANGED quoteAlerts
      \/ /\ quoteAlerts' = quoteAlerts \cup {new}
         /\ \A a \in quoteAlerts : Alarms!DedupeKey(a.at) # Alarms!DedupeKey(new.at)
  BY <1>2, <1>5, <1>7 DEF Alarms!Inserted, Alarms!Exists
<1>9. OneOfEachDate'
  <2>1. \A c : Alarms!DedupeKey(c)' = Alarms!DedupeKey(c)
    BY <1>2 DEF Alarms!DedupeKey, Alarms!MarketDate
  <2>2. \A a, b \in quoteAlerts' :
          Alarms!DedupeKey(a.at) = Alarms!DedupeKey(b.at) => a = b
    BY <1>8 DEF QuotesInv, OneOfEachDate
  <2> QED BY <2>1, <2>2 DEF OneOfEachDate, Alarms!DedupeKey, Alarms!MarketDate
<1>10. Alarms!QuietUntilMorning'
  BY <1>6, <1>7, <1>8 DEF QuotesInv, Alarms!QuietUntilMorning
<1>11. /\ pc \in [Alarms!Callers -> CallerSteps] /\ seen = [x \in Alarms!Callers |-> seen[x]]
       /\ \A x \in Alarms!Callers : seen[x] \in Alarms!Held(pc[x])
  BY DEF QuotesInv, Alarms!TypeOK, CallerSteps
<1>12. /\ pc' \in [Alarms!Callers -> CallerSteps]
       /\ \A x \in Alarms!Callers : /\ pc'[x] = IF x = t THEN "idle" ELSE pc[x]
                                    /\ seen'[x] = IF x = t THEN None ELSE seen[x]
       /\ seen' = [x \in Alarms!Callers |-> seen'[x]]
  BY <1>2, <1>11 DEF CallerSteps
<1>13. \A x \in Alarms!Callers : seen'[x] \in Alarms!Held(pc'[x])
  BY <1>11, <1>12, HeldIs
<1>14. ASSUME NEW q PROVE Alarms!Held(q)' = Alarms!Held(q)
  BY <1>2 DEF Alarms!Held
<1>15. \A x \in Alarms!Callers : seen'[x] \in Alarms!Held(pc[x])'
  BY <1>13, <1>14
<1>16. quoteAlerts' \subseteq [by : Alarms!Callers, at : 0..clock', visible : Nat, sent : BOOLEAN]
  BY <1>2, <1>7, <1>8 DEF QuotesInv, Alarms!TypeOK
<1>17. Alarms!TypeOK'
  BY <1>2, <1>12, <1>15, <1>16 DEF QuotesInv, Alarms!TypeOK, CallerSteps
<1> QED BY <1>2, <1>9, <1>10, <1>12, <1>17 DEF QuotesInv

\* The exchange moves, and so does the time, for callers that wait for the network or hold
\* what they fetched.
LEMMA MovesKeeps ==
    ASSUME QuotesInv, Alarms!MarketMoves
    PROVE  QuotesInv' /\ UNCHANGED <<snapshot, quoteAlerts>>
<1>1. /\ real' \in Prices
      /\ UNCHANGED <<clock, market, lagging, snapshot, pc, seen, quoteAlerts>>
  BY DEF Alarms!MarketMoves, Alarms!memory
<1>2. ASSUME NEW q PROVE Alarms!Held(q)' = Alarms!Held(q)
  BY <1>1 DEF Alarms!Held
<1>3. \A x \in Alarms!Callers : seen'[x] \in Alarms!Held(pc[x])'
  BY <1>1, <1>2 DEF QuotesInv, Alarms!TypeOK
<1>4. Alarms!TypeOK'
  BY <1>1, <1>3 DEF QuotesInv, Alarms!TypeOK
<1>5. OneOfEachDate' /\ Alarms!QuietUntilMorning'
  BY <1>1 DEF QuotesInv, OneOfEachDate, Alarms!QuietUntilMorning, Alarms!DedupeKey,
              Alarms!MarketDate
<1> QED BY <1>1, <1>4, <1>5 DEF QuotesInv

LEMMA TickOfQuotesKeeps ==
    ASSUME QuotesInv, Alarms!Tick
    PROVE  QuotesInv' /\ UNCHANGED <<snapshot, quoteAlerts>>
<1>1. /\ clock < MaxClock /\ clock' = clock + 1 /\ lagging' \in {lagging, real}
      /\ \A t \in Alarms!Callers : pc[t] \notin {"quoted", "alerting"}
      /\ UNCHANGED <<market, real, snapshot, pc, seen, quoteAlerts>>
  BY DEF Alarms!Tick, Alarms!memory
<1>2. MaxClock \in Nat /\ clock \in Nat
  BY QuotesAssumption DEF QuotesInv, Alarms!TypeOK
<1>3. /\ clock' \in 0..MaxClock /\ lagging' \in Prices
      /\ \A c : c \in 0..clock => c \in 0..clock'
      /\ \A n \in Nat : n <= clock => n <= clock'
  BY <1>1, <1>2 DEF QuotesInv, Alarms!TypeOK
<1>4. \A q, v : q \notin {"quoted", "alerting"} /\ v \in Alarms!Held(q) /\ q \in CallerSteps
        => v \in Alarms!Held(q)'
  <2> SUFFICES ASSUME NEW q \in CallerSteps, q \notin {"quoted", "alerting"},
                      NEW v \in Alarms!Held(q)
               PROVE  v \in Alarms!Held(q)'
    OBVIOUS
  <2>1. CASE q \in {"idle", "reading", "fetching"}
    BY <2>1 DEF Alarms!Held
  <2>2. CASE q \in {"fetched", "read"}
    <3>1. v \in Alarms!Rows /\ v.at <= clock
      BY <2>2, HeldIs
    <3>2. v \in Alarms!Rows /\ v.at <= clock'
      BY <1>3, <3>1 DEF Alarms!Rows
    <3> QED BY <2>2, <3>2 DEF Alarms!Held
  <2> QED BY <2>1, <2>2 DEF CallerSteps
<1>5. \A x \in Alarms!Callers : seen'[x] \in Alarms!Held(pc[x])'
  BY <1>1, <1>4 DEF QuotesInv, Alarms!TypeOK, CallerSteps
<1>6. /\ snapshot' # None => snapshot' \in Alarms!Rows /\ snapshot'.at <= clock'
      /\ quoteAlerts' \subseteq [by : Alarms!Callers, at : 0..clock', visible : Nat,
                                 sent : BOOLEAN]
  BY <1>1, <1>3 DEF QuotesInv, Alarms!TypeOK, Alarms!Rows
<1>7. Alarms!TypeOK'
  BY <1>1, <1>3, <1>5, <1>6 DEF QuotesInv, Alarms!TypeOK
<1>8. OneOfEachDate' /\ Alarms!QuietUntilMorning'
  BY <1>1 DEF QuotesInv, OneOfEachDate, Alarms!QuietUntilMorning, Alarms!DedupeKey,
              Alarms!MarketDate
<1> QED BY <1>1, <1>7, <1>8 DEF QuotesInv

LEMMA RestartOfQuotesKeeps ==
    ASSUME QuotesInv, Alarms!Restart
    PROVE  QuotesInv' /\ UNCHANGED <<snapshot, quoteAlerts>>
<1>1. /\ pc' = [t \in Alarms!Callers |-> "idle"] /\ seen' = [t \in Alarms!Callers |-> None]
      /\ UNCHANGED <<clock, market, real, lagging, snapshot, quoteAlerts>>
  BY DEF Alarms!Restart
<1>2. /\ pc' \in [Alarms!Callers -> CallerSteps]
      /\ \A x \in Alarms!Callers : pc'[x] = "idle" /\ seen'[x] = None
      /\ seen' = [x \in Alarms!Callers |-> seen'[x]]
  BY <1>1 DEF CallerSteps
<1>3. None \in Alarms!Held("idle")'
  BY DEF Alarms!Held
<1>4. \A x \in Alarms!Callers : seen'[x] \in Alarms!Held(pc[x])'
  BY <1>2, <1>3
<1>5. Alarms!TypeOK'
  BY <1>1, <1>2, <1>4 DEF QuotesInv, Alarms!TypeOK, CallerSteps
<1>6. OneOfEachDate' /\ Alarms!QuietUntilMorning'
  BY <1>1 DEF QuotesInv, OneOfEachDate, Alarms!QuietUntilMorning, Alarms!DedupeKey,
              Alarms!MarketDate
<1> QED BY <1>1, <1>2, <1>5, <1>6 DEF QuotesInv

LEMMA QuotesInitInv == Alarms!Init => QuotesInv
<1> SUFFICES ASSUME Alarms!Init PROVE QuotesInv
  OBVIOUS
<1>1. /\ clock = 0 /\ market \in Alarms!Markets /\ real \in Prices /\ lagging = real
      /\ snapshot = None /\ quoteAlerts = {}
      /\ pc = [t \in Alarms!Callers |-> "idle"] /\ seen = [t \in Alarms!Callers |-> None]
  BY DEF Alarms!Init
<1>2. /\ pc \in [Alarms!Callers -> CallerSteps]
      /\ \A x \in Alarms!Callers : pc[x] = "idle" /\ seen[x] = None
      /\ seen = [x \in Alarms!Callers |-> seen[x]]
  BY <1>1 DEF CallerSteps
<1>3. \A x \in Alarms!Callers : seen[x] \in Alarms!Held(pc[x])
  BY <1>2, HeldIs
<1>4. Alarms!TypeOK
  BY <1>1, <1>2, <1>3, QuotesAssumption DEF Alarms!TypeOK, CallerSteps
<1> QED BY <1>1, <1>2, <1>4 DEF QuotesInv, OneOfEachDate, Alarms!QuietUntilMorning

\* Every step keeps the invariant, and readers are shown nothing older.
LEMMA QuotesNextKeeps ==
    ASSUME QuotesInv, [Alarms!Next]_quotesVars
    PROVE  QuotesInv' /\ Alarms!NeverOlder
<1>1. UNCHANGED snapshot => Alarms!NeverOlder
  <2>1. snapshot # None => snapshot.at \in Nat
    BY DEF QuotesInv, Alarms!TypeOK, Alarms!Rows
  <2> QED BY <2>1 DEF Alarms!NeverOlder
<1>2. CASE UNCHANGED quotesVars
  <2>1. UNCHANGED <<clock, market, real, lagging, snapshot, pc, seen, quoteAlerts>>
    BY <1>2 DEF quotesVars
  <2>2. QuotesInv'
    BY <2>1 DEF QuotesInv, OneOfEachDate, Alarms!QuietUntilMorning, Alarms!TypeOK, Alarms!Held,
                Alarms!DedupeKey, Alarms!MarketDate
  <2> QED BY <1>1, <2>1, <2>2
<1>3. ASSUME NEW t \in Alarms!Callers, Alarms!Step(t) PROVE QuotesInv' /\ Alarms!NeverOlder
  BY <1>1, <1>3, BeginKeeps, FetchOkKeeps, FetchFailsKeeps, SaveKeeps, QuotesCheckKeeps, AlertKeeps
     DEF Alarms!Step
<1> QED BY <1>1, <1>2, <1>3, BeginReadKeeps, MovesKeeps, TickOfQuotesKeeps,
           RestartOfQuotesKeeps DEF Alarms!Next

\* QuoteAlerts: what readers are shown never goes back to an earlier fetch, one session of
\* the stock's market makes one alert at most, and an alert of the quiet hours appears when
\* they end (refresh_watchlist_quotes, on_quotes, _visibility).
THEOREM QuotesTheorem == OneSpec => QuotesAreSound
<1>1. OneInit => QuotesInv
  BY QuotesInitInv DEF OneInit
<1>2. [OneNext]_allVars => [Alarms!Next]_quotesVars
  BY DEF OneNext, allVars
<1>3. QuotesInv /\ [OneNext]_allVars => QuotesInv'
  BY <1>2, QuotesNextKeeps
<1>4. QuotesInv => Alarms!OneAlertPerSession
  BY OneAlertASession
<1>5. QuotesInv /\ QuotesInv' /\ (QuotesInv' => Alarms!OneAlertPerSession') /\ [OneNext]_allVars
        => [active = "quotes" => Alarms!SoundStep]_quotesVars
  <2> SUFFICES ASSUME QuotesInv, QuotesInv', QuotesInv' => Alarms!OneAlertPerSession',
                      [Alarms!Next]_quotesVars
               PROVE  Alarms!SoundStep
    BY <1>2
  <2>1. Alarms!NeverOlder
    BY QuotesNextKeeps
  <2> QED BY <2>1 DEF QuotesInv, Alarms!SoundStep
<1> QED BY <1>1, <1>3, <1>4, <1>5, PTL DEF OneSpec, QuotesAreSound
-----------------------------------------------------------------------------
(* MarketSentiment and NewsSentiment: sums over sets. *)

\* Mood!Cardinality and Cardinality are one operator, so are Coverage!Cardinality and it.
LEMMA MoodCardinality == \A S : Mood!Cardinality(S) = Cardinality(S)
BY Zenon DEF Mood!Cardinality, Cardinality

LEMMA CoverageCardinality == \A S : Coverage!Cardinality(S) = Cardinality(S)
BY Zenon DEF Coverage!Cardinality, Cardinality

LEMMA OneTotal == \A f, S : Coverage!Total(f, S) = Mood!Total(f, S)
BY Zenon DEF Coverage!Total, Mood!Total

\* Induction, with the numbers that have the property as a set.
LEMMA Induction ==
    ASSUME NEW T \in SUBSET Nat, 0 \in T, \A n \in T : n + 1 \in T
    PROVE  \A n \in Nat : n \in T
<1> SUFFICES ASSUME Nat \ T # {} PROVE FALSE
  OBVIOUS
<1>1. PICK x \in Nat \ T : \A y \in Nat \ T : x <= y
  BY LeastNumber
<1>2. x # 0 /\ x - 1 \in Nat
  BY <1>1
<1>3. x - 1 \in T
  BY <1>1, <1>2
<1> QED BY <1>1, <1>2, <1>3

Pick(T) == CHOOSE x \in T : TRUE

\* Induction over the subsets of a finite set, an element less at a time.
LEMMA PickInduction ==
    ASSUME NEW S, IsFiniteSet(S), NEW P \in SUBSET SUBSET S, {} \in P,
           \A T \in SUBSET S : T # {} /\ T \ {Pick(T)} \in P => T \in P
    PROVE  \A T \in SUBSET S : T \in P
<1> DEFINE N == {n \in Nat : \A T \in SUBSET S : Cardinality(T) = n => T \in P}
<1>1. \A T \in SUBSET S : IsFiniteSet(T) /\ Cardinality(T) \in Nat
  BY FS_Subset, FS_CardinalityType
<1>2. 0 \in N
  BY <1>1, FS_EmptySet
<1>3. \A n \in N : n + 1 \in N
  <2> TAKE n \in N
  <2> SUFFICES ASSUME NEW T \in SUBSET S, Cardinality(T) = n + 1 PROVE T \in P
    OBVIOUS
  <2>1. T # {}
    BY FS_EmptySet
  <2>2. Pick(T) \in T
    BY <2>1 DEF Pick
  <2>3. Cardinality(T \ {Pick(T)}) = n
    BY <1>1, <2>2, FS_RemoveElement
  <2> QED BY <2>1, <2>3
<1>4. \A n \in Nat : n \in N
  <2> HIDE DEF N
  <2>1. N \in SUBSET Nat
    BY DEF N
  <2> QED BY <1>2, <1>3, <2>1, Induction
<1> QED BY <1>1, <1>4

\* The sums over the subsets of S.
IsSum(sum, f, S) ==
    \A T \in SUBSET S : sum[T] = IF T = {} THEN 0 ELSE f[Pick(T)] + sum[T \ {Pick(T)}]

\* The recursive function of Total exists.
LEMMA TotalUnfolds ==
    ASSUME NEW S, IsFiniteSet(S), NEW f
    PROVE  \E sum : IsSum(sum, f, S) /\ Mood!Total(f, S) = sum[S]
<1> DEFINE table(sum, U) == [T \in SUBSET U |-> IF T = {} THEN 0
                                               ELSE f[Pick(T)] + sum[T \ {Pick(T)}]]
           N == {n \in Nat : \E sum : \A T \in SUBSET S : Cardinality(T) <= n =>
                   sum[T] = IF T = {} THEN 0 ELSE f[Pick(T)] + sum[T \ {Pick(T)}]}
<1>1. \A T \in SUBSET S : IsFiniteSet(T) /\ Cardinality(T) \in Nat /\ Cardinality(T) <= Cardinality(S)
  BY FS_Subset, FS_CardinalityType
<1>2. 0 \in N
  <2> DEFINE sum == [T \in SUBSET S |-> 0]
  <2>1. \A T \in SUBSET S : Cardinality(T) <= 0 => T = {}
    BY <1>1, FS_EmptySet
  <2>2. \A T \in SUBSET S : Cardinality(T) <= 0 =>
          sum[T] = IF T = {} THEN 0 ELSE f[Pick(T)] + sum[T \ {Pick(T)}]
    BY <2>1
  <2> HIDE DEF sum
  <2> QED BY <2>2
<1>3. \A n \in N : n + 1 \in N
  <2> TAKE n \in N
  <2>1. PICK sum : \A T \in SUBSET S : Cardinality(T) <= n =>
          sum[T] = IF T = {} THEN 0 ELSE f[Pick(T)] + sum[T \ {Pick(T)}]
    OBVIOUS
  <2> DEFINE next == [T \in SUBSET S |-> IF Cardinality(T) <= n THEN sum[T]
                                         ELSE f[Pick(T)] + sum[T \ {Pick(T)}]]
  <2>2. ASSUME NEW T \in SUBSET S, Cardinality(T) <= n + 1
        PROVE  next[T] = IF T = {} THEN 0 ELSE f[Pick(T)] + next[T \ {Pick(T)}]
    <3>1. CASE T = {}
      <4>1. Cardinality(T) <= n
        BY <3>1, FS_EmptySet
      <4> QED BY <2>1, <3>1, <4>1
    <3>2. CASE T # {}
      <4> DEFINE U == T \ {Pick(T)}
      <4>1. Pick(T) \in T
        BY <3>2 DEF Pick
      <4>2. U \in SUBSET S /\ Cardinality(U) <= n
        <5>1. Cardinality(U) = Cardinality(T) - 1
          BY <1>1, <4>1, FS_RemoveElement
        <5> QED BY <1>1, <2>2, <5>1
      <4>3. next[U] = sum[U]
        BY <4>2
      <4>4. next[T] = f[Pick(T)] + sum[U]
        <5>1. CASE Cardinality(T) <= n
          <6>1. sum[T] = f[Pick(T)] + sum[U]
            BY <2>1, <3>2, <5>1
          <6> QED BY <5>1, <6>1
        <5>2. CASE ~(Cardinality(T) <= n)
          BY <5>2
        <5> QED BY <5>1, <5>2
      <4> QED BY <3>2, <4>3, <4>4
    <3> QED BY <3>1, <3>2
  <2> HIDE DEF next
  <2>3. n + 1 \in Nat
    OBVIOUS
  <2> QED BY <2>2, <2>3
<1>4. Cardinality(S) \in N
  <2> HIDE DEF N
  <2>1. N \in SUBSET Nat
    BY DEF N
  <2> QED BY <1>1, <1>2, <1>3, <2>1, Induction
<1>5. PICK some : IsSum(some, f, S)
  BY <1>1, <1>4 DEF IsSum
<1> DEFINE whole == [T \in SUBSET S |-> some[T]]
<1>6. whole = table(whole, S)
  <2>1. \A T \in SUBSET S : T \ {Pick(T)} \in SUBSET S
    OBVIOUS
  <2>2. \A T \in SUBSET S :
          whole[T] = IF T = {} THEN 0 ELSE f[Pick(T)] + whole[T \ {Pick(T)}]
    BY <1>5, <2>1 DEF IsSum
  <2>3. whole = [T \in SUBSET S |-> whole[T]]
    OBVIOUS
  <2> HIDE DEF whole
  <2> QED BY <2>2, <2>3
<1> DEFINE sums == CHOOSE sum : sum = table(sum, S)
<1>7. sums = table(sums, S)
  <2> HIDE DEF table, whole
  <2> QED BY <1>6
<1>8. Mood!Total(f, S) = sums[S]
  BY DEF Mood!Total, Pick
<1>9. IsSum(sums, f, S)
  <2> HIDE DEF sums
  <2> QED BY <1>7 DEF IsSum
<1> QED BY <1>8, <1>9

\* A sum of natural numbers is one, and no less than two of them.
LEMMA TotalOfNaturals ==
    ASSUME NEW S, IsFiniteSet(S), NEW f, \A x \in S : f[x] \in Nat
    PROVE  /\ Mood!Total(f, S) \in Nat
           /\ \A x \in S : f[x] <= Mood!Total(f, S)
           /\ \A x, y \in S : x # y => f[x] + f[y] <= Mood!Total(f, S)
<1>1. PICK sum : IsSum(sum, f, S) /\ Mood!Total(f, S) = sum[S]
  BY TotalUnfolds
<1> DEFINE P == {T \in SUBSET S : /\ sum[T] \in Nat
                                  /\ \A x \in T : f[x] <= sum[T]
                                  /\ \A x, y \in T : x # y => f[x] + f[y] <= sum[T]}
<1>2. {} \in P
  <2>1. sum[{}] = 0
    BY <1>1 DEF IsSum
  <2> QED BY <2>1
<1>3. ASSUME NEW T \in SUBSET S, T # {}, T \ {Pick(T)} \in P PROVE T \in P
  <2> DEFINE e == Pick(T)
             U == T \ {e}
  <2>1. e \in T
    BY <1>3 DEF Pick
  <2>2. sum[T] = f[e] + sum[U]
    BY <1>1, <1>3 DEF IsSum
  <2>3. U \in P
    BY <1>3
  <2> HIDE DEF e
  <2>4. \A x \in T : x = e \/ x \in U
    OBVIOUS
  <2>5. f[e] \in Nat /\ sum[U] \in Nat /\ \A x \in T : f[x] \in Nat
    BY <2>1, <2>3
  <2>6. /\ \A x \in U : f[x] <= sum[U]
        /\ \A x, y \in U : x # y => f[x] + f[y] <= sum[U]
    BY <2>3
  <2> HIDE DEF U
  <2> QED BY <2>2, <2>4, <2>5, <2>6
<1>4. S \in P
  <2> HIDE DEF P
  <2>1. P \in SUBSET SUBSET S
    BY DEF P
  <2> QED BY <1>2, <1>3, <2>1, PickInduction
<1> QED BY <1>1, <1>4

\* A sum grows with what is summed.
LEMMA TotalGrows ==
    ASSUME NEW S, IsFiniteSet(S), NEW f, NEW g,
           \A x \in S : f[x] \in Int /\ g[x] \in Int /\ f[x] <= g[x]
    PROVE  Mood!Total(f, S) \in Int /\ Mood!Total(g, S) \in Int /\ Mood!Total(f, S) <= Mood!Total(g, S)
<1>1. PICK a : IsSum(a, f, S) /\ Mood!Total(f, S) = a[S]
  BY TotalUnfolds
<1>2. PICK b : IsSum(b, g, S) /\ Mood!Total(g, S) = b[S]
  BY TotalUnfolds
<1> DEFINE P == {T \in SUBSET S : a[T] \in Int /\ b[T] \in Int /\ a[T] <= b[T]}
<1>3. {} \in P
  <2>1. a[{}] = 0 /\ b[{}] = 0
    BY <1>1, <1>2 DEF IsSum
  <2> QED BY <2>1
<1>4. ASSUME NEW T \in SUBSET S, T # {}, T \ {Pick(T)} \in P PROVE T \in P
  <2> DEFINE e == Pick(T)
             U == T \ {e}
  <2>1. e \in T
    BY <1>4 DEF Pick
  <2>2. a[T] = f[e] + a[U] /\ b[T] = g[e] + b[U]
    BY <1>1, <1>2, <1>4 DEF IsSum
  <2>3. a[U] \in Int /\ b[U] \in Int /\ a[U] <= b[U]
    BY <1>4
  <2> HIDE DEF e, U
  <2>4. f[e] \in Int /\ g[e] \in Int /\ f[e] <= g[e]
    BY <2>1
  <2>5. a[T] \in Int /\ b[T] \in Int /\ a[T] <= b[T]
    BY <2>2, <2>3, <2>4
  <2> QED BY <2>5
<1>5. S \in P
  <2> HIDE DEF P
  <2>1. P \in SUBSET SUBSET S
    BY DEF P
  <2> QED BY <1>3, <1>4, <2>1, PickInduction
<1> QED BY <1>1, <1>2, <1>5

\* It depends on nothing else.
LEMMA TotalIsSame ==
    ASSUME NEW S, IsFiniteSet(S), NEW f, NEW g, \A x \in S : f[x] \in Int /\ f[x] = g[x]
    PROVE  Mood!Total(f, S) = Mood!Total(g, S) /\ Mood!Total(f, S) \in Int
<1>1. Mood!Total(f, S) <= Mood!Total(g, S) /\ Mood!Total(f, S) \in Int /\ Mood!Total(g, S) \in Int
  BY TotalGrows
<1>2. Mood!Total(g, S) <= Mood!Total(f, S)
  BY TotalGrows
<1> QED BY <1>1, <1>2

\* One more of one element is one more.
LEMMA TotalOfOneMore ==
    ASSUME NEW S, IsFiniteSet(S), NEW f, NEW g, NEW e \in S,
           \A x \in S : f[x] \in Int /\ g[x] = IF x = e THEN f[x] + 1 ELSE f[x]
    PROVE  Mood!Total(g, S) = Mood!Total(f, S) + 1
<1>1. PICK a : IsSum(a, f, S) /\ Mood!Total(f, S) = a[S]
  BY TotalUnfolds
<1>2. PICK b : IsSum(b, g, S) /\ Mood!Total(g, S) = b[S]
  BY TotalUnfolds
<1> DEFINE more(T) == IF e \in T THEN 1 ELSE 0
           P == {T \in SUBSET S : a[T] \in Int /\ b[T] = a[T] + more(T)}
<1>3. {} \in P
  <2>1. a[{}] = 0 /\ b[{}] = 0
    BY <1>1, <1>2 DEF IsSum
  <2> QED BY <2>1
<1>4. ASSUME NEW T \in SUBSET S, T # {}, T \ {Pick(T)} \in P PROVE T \in P
  <2> DEFINE x == Pick(T)
             U == T \ {x}
  <2>1. x \in T
    BY <1>4 DEF Pick
  <2>2. a[T] = f[x] + a[U] /\ b[T] = g[x] + b[U]
    BY <1>1, <1>2, <1>4 DEF IsSum
  <2>3. a[U] \in Int /\ b[U] = a[U] + more(U)
    BY <1>4
  <2>4. more(T) = IF x = e THEN more(U) + 1 ELSE more(U)
    BY <2>1
  <2>5. more(U) \in Int
    OBVIOUS
  <2> HIDE DEF x, U, more
  <2>6. f[x] \in Int /\ g[x] = IF x = e THEN f[x] + 1 ELSE f[x]
    BY <2>1
  <2>7. a[T] \in Int /\ b[T] = a[T] + more(T)
    BY <2>2, <2>3, <2>4, <2>5, <2>6
  <2> QED BY <2>7
<1>5. S \in P
  <2> HIDE DEF P
  <2>1. P \in SUBSET SUBSET S
    BY DEF P
  <2> QED BY <1>3, <1>4, <2>1, PickInduction
<1>6. b[S] = a[S] + 1
  BY <1>5
<1> QED BY <1>1, <1>2, <1>6
-----------------------------------------------------------------------------
(* MarketSentiment: its scores. *)

LEMMA Quotients ==
    ASSUME NEW a \in Int, NEW d \in Nat \ {0}
    PROVE  a = d * (a \div d) + (a % d) /\ a % d \in 0..(d - 1) /\ a \div d \in Int
OBVIOUS

\* Multiples are apart.
LEMMA Multiples ==
    ASSUME NEW k \in Int, NEW m \in Int, NEW d \in Nat \ {0}, m < k
    PROVE  d * k >= d * m + d
OBVIOUS

LEMMA QuotientsGrow ==
    ASSUME NEW a \in Int, NEW b \in Int, NEW d \in Nat \ {0}, a <= b
    PROVE  a \div d \in Int /\ b \div d \in Int /\ a \div d <= b \div d
<1> DEFINE p == a \div d
           q == b \div d
           r == a % d
           s == b % d
<1>1. /\ a = d * p + r /\ r \in 0..(d - 1) /\ p \in Int
      /\ b = d * q + s /\ s \in 0..(d - 1) /\ q \in Int
  BY Quotients
<1> HIDE DEF p, q, r, s
<1>2. ASSUME q < p PROVE FALSE
  <2>1. d * p >= d * q + d
    BY <1>1, <1>2, Multiples
  <2> DEFINE x == d * p
             y == d * q
  <2>2. x \in Int /\ y \in Int
    BY <1>1
  <2> HIDE DEF x, y
  <2>3. a = x + r /\ b = y + s /\ x >= y + d
    BY <1>1, <2>1 DEF x, y
  <2> QED BY <1>1, <2>2, <2>3
<1> QED BY <1>1, <1>2 DEF p, q

LEMMA MomentumGrows ==
    ASSUME NEW x \in Int, NEW y \in Int, x <= y
    PROVE  /\ Mood!MomentumScore(x) \in Int /\ Mood!MomentumScore(y) \in Int
           /\ Mood!MomentumScore(x) <= Mood!MomentumScore(y)
<1>1. \A z \in Int : /\ Mood!Lerp(z, -16, -Mood!Scale, -4, -Mood!Half) = -8400 + ((z + 16) * 4200) \div 12
                     /\ Mood!Lerp(z, -4, -Mood!Half, 4, 0) = -4200 + ((z + 4) * 4200) \div 8
                     /\ Mood!Lerp(z, 4, 0, 16, Mood!Half) = ((z - 4) * 4200) \div 12
  BY DEF Mood!Lerp, Mood!Scale, Mood!Half
<1>2. \A z \in Int : Mood!MomentumScore(z) =
        IF z <= -16 THEN -8400 ELSE IF z >= 16 THEN 8400
        ELSE IF z < -4 THEN -8400 + ((z + 16) * 4200) \div 12
        ELSE IF z <= 4 THEN -4200 + ((z + 4) * 4200) \div 8
        ELSE ((z - 4) * 4200) \div 12
  BY <1>1 DEF Mood!MomentumScore, Mood!Scale
<1> QED BY <1>2

LEMMA VixFalls ==
    ASSUME NEW x \in Int, NEW y \in Int, x <= y
    PROVE  /\ Mood!VixScore(x) \in Int /\ Mood!VixScore(y) \in Int
           /\ Mood!VixScore(y) <= Mood!VixScore(x)
<1>1. \A z \in Int : /\ Mood!Lerp(z, 13, Mood!Half, 20, 0) = 4200 + ((z - 13) * (-4200)) \div 7
                     /\ Mood!Lerp(z, 20, 0, 30, -Mood!Half) = ((z - 20) * (-4200)) \div 10
  BY DEF Mood!Lerp, Mood!Scale, Mood!Half
<1>2. \A z \in Int : Mood!VixScore(z) =
        IF z >= 30 THEN -8400 ELSE IF z < 13 THEN 4200
        ELSE IF z < 20 THEN 4200 + ((z - 13) * (-4200)) \div 7
        ELSE ((z - 20) * (-4200)) \div 10
  BY <1>1 DEF Mood!VixScore, Mood!Scale, Mood!Half
<1> QED BY <1>2

LEMMA AdvanceGrows ==
    ASSUME NEW x \in Nat, NEW y \in Nat, NEW all \in Nat \ {0}, x <= y
    PROVE  /\ Mood!AdvanceScore(x, all) \in Int /\ Mood!AdvanceScore(y, all) \in Int
           /\ Mood!AdvanceScore(x, all) <= Mood!AdvanceScore(y, all)
<1> DEFINE d == 4 * all
           over(z) == (10 * z - 3 * all) * 8400
           between(z) == -4200 + over(z) \div d
<1>1. d \in Nat \ {0} /\ 7 * all - 3 * all = d /\ 2100 * d = 8400 * all
  OBVIOUS
<1>2. \A z \in Nat : Mood!AdvanceScore(z, all) =
        IF 10 * z <= 3 * all THEN -4200 ELSE IF 10 * z >= 7 * all THEN 4200 ELSE between(z)
  BY <1>1 DEF Mood!AdvanceScore, Mood!Lerp, Mood!Scale, Mood!Half
<1>3. \A z \in Nat : over(z) \in Int
  OBVIOUS
<1>4. over(x) <= over(y)
  OBVIOUS
<1>5. ASSUME NEW z \in Nat, ~(10 * z <= 3 * all), ~(10 * z >= 7 * all)
      PROVE  between(z) \in Int /\ -4200 <= between(z) /\ between(z) <= 4200
  <2>1. 0 <= over(z) /\ over(z) <= 8400 * d
    BY <1>5
  <2>2. over(z) \div d \in Int /\ 0 \div d <= over(z) \div d /\ over(z) \div d <= (8400 * d) \div d
    <3> HIDE DEF over, d
    <3>1. over(z) \in Int /\ 8400 * d \in Int
      BY <1>1, <1>3
    <3> QED BY <1>1, <2>1, <3>1, QuotientsGrow
  <2>3. 0 \div d = 0 /\ (8400 * d) \div d = 8400
    <3> HIDE DEF d
    <3> QED BY <1>1
  <2> HIDE DEF over, d
  <2> QED BY <2>2, <2>3
<1>6. between(x) \in Int /\ between(y) \in Int /\ between(x) <= between(y)
  <2>1. over(x) \div d \in Int /\ over(y) \div d \in Int /\ over(x) \div d <= over(y) \div d
    <3> HIDE DEF over, d
    <3> QED BY <1>1, <1>3, <1>4, QuotientsGrow
  <2> HIDE DEF over, d
  <2> QED BY <2>1
<1> HIDE DEF between
<1> QED BY <1>2, <1>5, <1>6
-----------------------------------------------------------------------------
\* The first L of an order are L: ahead[x] are those before x.
LEMMA FirstOnes ==
    ASSUME NEW S, IsFiniteSet(S), NEW ahead \in [S -> SUBSET S],
           \A x \in S : x \notin ahead[x],
           \A x, y \in S : y \in ahead[x] => ahead[y] \subseteq ahead[x],
           \A x, y \in S : x = y \/ x \in ahead[y] \/ y \in ahead[x],
           NEW n \in 0..Cardinality(S)
    PROVE  Cardinality({x \in S : Cardinality(ahead[x]) < n}) = n
<1> DEFINE size(x) == Cardinality(ahead[x])
           First(k) == {x \in S : size(x) < k}
           N == {k \in Nat : k <= Cardinality(S) => Cardinality(First(k)) = k}
<1>1. \A x \in S : IsFiniteSet(ahead[x]) /\ size(x) \in Nat
  BY FS_Subset, FS_CardinalityType
<1>2. \A x, y \in S : ahead[x] \subseteq ahead[y] =>
        size(x) <= size(y) /\ (size(x) = size(y) => ahead[x] = ahead[y])
  BY <1>1, FS_Subset
<1>3. Cardinality(S) \in Nat
  BY FS_CardinalityType
<1> HIDE DEF size
<1>4. 0 \in N
  <2>1. First(0) = {}
    BY <1>1
  <2> QED BY <2>1, FS_EmptySet
<1>5. \A k \in N : k + 1 \in N
  <2> TAKE k \in N
  <2> SUFFICES ASSUME k + 1 <= Cardinality(S) PROVE Cardinality(First(k + 1)) = k + 1
    OBVIOUS
  <2>1. k \in Nat /\ k <= Cardinality(S)
    BY <1>3
  <2>2. Cardinality(First(k)) = k
    BY <2>1
  <2> DEFINE F == First(k)
             sizes == {size(x) : x \in S \ F}
  <2>3. IsFiniteSet(F) /\ F \subseteq S
    BY FS_Subset
  <2>4. S \ F # {}
    <3> SUFFICES ASSUME S = F PROVE FALSE
      BY <2>3
    <3> HIDE DEF F, First
    <3>1. Cardinality(F) = k
      BY <2>2 DEF F
    <3> QED BY <1>3, <2>1, <3>1
  <2>5. PICK e \in S \ F : \A x \in S \ F : size(e) <= size(x)
    <3>1. sizes \in SUBSET Nat /\ sizes # {}
      BY <1>1, <2>4
    <3>2. PICK least \in sizes : \A s \in sizes : least <= s
      <4> HIDE DEF sizes
      <4> QED BY <3>1, LeastNumber
    <3> QED BY <3>2
  <2>6. ahead[e] = F
    <3>1. ASSUME NEW t \in F PROVE t \in ahead[e]
      <4>1. size(t) < k /\ size(e) >= k /\ t # e
        BY <1>1, <2>1, <2>5
      <4>2. e \notin ahead[t]
        BY <1>1, <1>2, <2>1, <4>1
      <4> QED BY <4>1, <4>2
    <3>2. ASSUME NEW y \in ahead[e], y \notin F PROVE FALSE
      <4>1. y \in S \ F
        BY <3>2
      <4>2. size(e) <= size(y) /\ ahead[y] \subseteq ahead[e]
        BY <2>5, <4>1
      <4>3. ahead[y] = ahead[e]
        BY <1>1, <1>2, <4>1, <4>2
      <4> QED BY <3>2, <4>1, <4>3
    <3> QED BY <3>1, <3>2
  <2>7. size(e) = k
    BY <2>2, <2>6 DEF size
  <2>8. ASSUME NEW x \in S \ F, x # e PROVE ~(size(x) < k + 1)
    <3>1. e \in ahead[x] /\ ahead[e] \subseteq ahead[x]
      BY <2>6, <2>8
    <3>2. size(x) >= k /\ (size(x) = k => ahead[e] = ahead[x])
      BY <1>1, <1>2, <2>1, <2>7, <3>1
    <3>3. size(x) # k
      BY <2>5, <3>1, <3>2
    <3> QED BY <1>1, <2>1, <3>2, <3>3
  <2>9. First(k + 1) = F \cup {e}
    <3>1. \A x \in F : size(x) < k + 1
      BY <1>1, <2>1
    <3>2. size(e) < k + 1
      BY <2>1, <2>7
    <3>3. F \subseteq First(k + 1) /\ e \in First(k + 1)
      BY <2>3, <3>1, <3>2
    <3>4. \A x \in First(k + 1) : x \in F \/ x = e
      BY <2>8
    <3> QED BY <3>3, <3>4
  <2>10. Cardinality(F \cup {e}) = k + 1
    <3> HIDE DEF F
    <3> QED BY <2>2, <2>3, <2>5, FS_AddElement DEF F
  <2> QED BY <2>9, <2>10
<1>6. \A k \in Nat : k \in N
  <2> HIDE DEF N
  <2>1. N \in SUBSET Nat
    BY DEF N
  <2> QED BY <1>4, <1>5, <2>1, Induction
<1>7. n \in Nat /\ n <= Cardinality(S)
  BY <1>3
<1>8. Cardinality(First(n)) = n
  BY <1>6, <1>7
<1> QED BY <1>8 DEF size

MoodTypes ==
    /\ change \in [Indices -> Changes \cup {None}]
    /\ vix \in Volatilities \cup {None}
    /\ board \in [Boards -> Quotes] \cup {None}

\* As many boards are taken as should be.
LEMMA BoardsTaken ==
    ASSUME MoodTypes, board # None
    PROVE  Cardinality(Mood!Taken) = BoardLimit /\ Mood!Taken \subseteq Boards
<1> DEFINE ahead == [b \in Boards |-> {c \in Boards : Mood!Before(c, b)}]
<1>1. board \in [Boards -> Quotes] /\ Boards \subseteq Nat /\ IsFiniteSet(Boards)
  BY MoodAssumption DEF MoodTypes
<1>2. \A b \in Boards : board[b].change \in Int /\ b \in Int
  BY <1>1, MoodAssumption
<1>3. ahead \in [Boards -> SUBSET Boards]
  OBVIOUS
<1>4. \A b \in Boards : b \notin ahead[b]
  BY <1>2 DEF Mood!Before
<1>5. \A b, c \in Boards : c \in ahead[b] => ahead[c] \subseteq ahead[b]
  BY <1>2 DEF Mood!Before
<1>6. \A b, c \in Boards : b = c \/ b \in ahead[c] \/ c \in ahead[b]
  BY <1>2 DEF Mood!Before
<1>7. \A b \in Boards : ahead[b] = {c \in Boards : Mood!Before(c, b)}
  OBVIOUS
<1> HIDE DEF ahead
<1>8. BoardLimit \in 0..Cardinality(Boards)
  BY <1>1, MoodAssumption, FS_CardinalityType
<1>9. Cardinality({b \in Boards : Cardinality(ahead[b]) < BoardLimit}) = BoardLimit
  BY <1>1, <1>3, <1>4, <1>5, <1>6, <1>8, FirstOnes
<1>10. Mood!Taken = {b \in Boards : Cardinality(ahead[b]) < BoardLimit}
  BY <1>7, MoodCardinality DEF Mood!Taken
<1> QED BY <1>9, <1>10
-----------------------------------------------------------------------------
(* MarketSentiment: a step. *)

IndexPart == IF Mood!HasIndices THEN 60 * Mood!MomentumScore(Mood!AverageChange) ELSE 0
VixPart == IF Mood!HasVix THEN 25 * Mood!VixScore(vix) ELSE 0
BoardPart == IF Mood!HasBoards THEN 15 * Mood!Advance(Mood!Taken) ELSE 0

LabelOf(sum, weight) ==
    IF weight = 0 THEN 0
    ELSE IF 5 * sum <= -25200 * weight THEN 1
    ELSE IF 5 * sum <= -8400 * weight THEN 2
    ELSE IF 5 * sum <= 8400 * weight THEN 3
    ELSE IF 5 * sum <= 25200 * weight THEN 4 ELSE 5

AverageFacts ==
    /\ Mood!AverageChange = Mood!Total(change, Mood!Known) \div Cardinality(Mood!Known)
    /\ IsFiniteSet(Mood!Known) /\ Cardinality(Mood!Known) \in Nat \ {0}
    /\ \A i \in Mood!Known : i \in Indices /\ change[i] \in Int
    /\ Mood!Total(change, Mood!Known) \in Int

\* What the indices that are known say.
LEMMA AverageIsThere ==
    ASSUME MoodTypes, Mood!HasIndices
    PROVE  AverageFacts
<1>1. Mood!Known \subseteq Indices /\ Mood!Known # {} /\ IsFiniteSet(Indices)
  BY MoodAssumption DEF Mood!Known, Mood!HasIndices
<1>2. IsFiniteSet(Mood!Known) /\ Cardinality(Mood!Known) \in Nat
  BY <1>1, FS_Subset, FS_CardinalityType
<1>3. Cardinality(Mood!Known) # 0
  BY <1>1, <1>2, FS_EmptySet
<1>4. \A i \in Mood!Known : i \in Indices /\ change[i] \in Int
  BY MoodAssumption DEF MoodTypes, Mood!Known
<1>5. Mood!Total(change, Mood!Known) \in Int
  BY <1>2, <1>4, TotalIsSame
<1>6. Mood!AverageChange = Mood!Total(change, Mood!Known) \div Cardinality(Mood!Known)
  BY MoodCardinality DEF Mood!AverageChange
<1> QED BY <1>2, <1>3, <1>4, <1>5, <1>6 DEF AverageFacts

Ups == [b \in Boards |-> board[b].up]

AdvanceFacts ==
    /\ Mood!Advance(Mood!Taken) = Mood!AdvanceScore(Mood!Total(Ups, Mood!Taken), 10 * BoardLimit)
    /\ IsFiniteSet(Mood!Taken) /\ 10 * BoardLimit \in Nat \ {0}
    /\ \A b \in Mood!Taken : b \in Boards /\ Ups[b] \in Nat
    /\ Mood!Total(Ups, Mood!Taken) \in Nat

\* What the boards that are taken say.
LEMMA AdvanceIsThere ==
    ASSUME MoodTypes, Mood!HasBoards
    PROVE  AdvanceFacts
<1>1. Cardinality(Mood!Taken) = BoardLimit /\ Mood!Taken \subseteq Boards
  BY BoardsTaken DEF Mood!HasBoards
<1>2. IsFiniteSet(Mood!Taken)
  BY <1>1, MoodAssumption, FS_Subset
<1>3. BoardLimit \in Nat \ {0}
  BY MoodAssumption, FS_CardinalityType
<1>4. \A b \in Mood!Taken : b \in Boards /\ Ups[b] \in Nat
  BY <1>1, MoodAssumption DEF MoodTypes, Mood!HasBoards, Ups
<1>5. Mood!Total(Ups, Mood!Taken) \in Nat
  BY <1>2, <1>4, TotalOfNaturals
<1>6. Mood!Advance(Mood!Taken) = Mood!AdvanceScore(Mood!Total(Ups, Mood!Taken), 10 * BoardLimit)
  BY <1>1, MoodCardinality DEF Mood!Advance, Ups
<1> QED BY <1>2, <1>3, <1>4, <1>5, <1>6 DEF AdvanceFacts

LabelFacts ==
    /\ Mood!Label = LabelOf(Mood!Sum, Mood!Weight)
    /\ Mood!Sum = IndexPart + VixPart + BoardPart
    /\ IndexPart \in Int /\ VixPart \in Int /\ BoardPart \in Int
    /\ Mood!Weight = (IF Mood!HasIndices THEN 60 ELSE 0)
                     + (IF Mood!HasVix THEN 25 ELSE 0) + (IF Mood!HasBoards THEN 15 ELSE 0)

\* The label is that of the parts.
LEMMA LabelIsThere ==
    ASSUME MoodTypes
    PROVE  LabelFacts
<1>1. IndexPart \in Int
  <2>1. CASE Mood!HasIndices
    <3>1. Mood!AverageChange \in Int
      BY <2>1, AverageIsThere, Quotients DEF AverageFacts
    <3>2. Mood!MomentumScore(Mood!AverageChange) \in Int
      BY <3>1, MomentumGrows
    <3> QED BY <2>1, <3>2 DEF IndexPart
  <2>2. CASE ~Mood!HasIndices
    BY <2>2 DEF IndexPart
  <2> QED BY <2>1, <2>2
<1>2. VixPart \in Int
  <2>1. CASE Mood!HasVix
    <3>1. vix \in Int
      BY <2>1, MoodAssumption DEF Mood!HasVix, MoodTypes
    <3>2. Mood!VixScore(vix) \in Int
      BY <3>1, VixFalls
    <3> QED BY <2>1, <3>2 DEF VixPart
  <2>2. CASE ~Mood!HasVix
    BY <2>2 DEF VixPart
  <2> QED BY <2>1, <2>2
<1>3. BoardPart \in Int
  <2>1. CASE Mood!HasBoards
    <3>1. Mood!Advance(Mood!Taken) \in Int
      BY <2>1, AdvanceIsThere, AdvanceGrows DEF AdvanceFacts
    <3> QED BY <2>1, <3>1 DEF BoardPart
  <2>2. CASE ~Mood!HasBoards
    BY <2>2 DEF BoardPart
  <2> QED BY <2>1, <2>2
<1>4. Mood!Sum = IndexPart + VixPart + BoardPart
  BY DEF Mood!Sum, IndexPart, VixPart, BoardPart
<1>5. Mood!Weight = (IF Mood!HasIndices THEN 60 ELSE 0)
                    + (IF Mood!HasVix THEN 25 ELSE 0) + (IF Mood!HasBoards THEN 15 ELSE 0)
  BY DEF Mood!Weight
<1>6. Mood!Weight \in Nat /\ Mood!Sum \in Int
  BY <1>1, <1>2, <1>3, <1>4, <1>5
<1>7. Mood!Label = LabelOf(Mood!Sum, Mood!Weight)
  BY <1>6 DEF Mood!Label, LabelOf, Mood!Scale
<1> QED BY <1>1, <1>2, <1>3, <1>4, <1>5, <1>7 DEF LabelFacts

LEMMA LabelGrows ==
    ASSUME NEW s \in Int, NEW t \in Int, NEW w \in Nat, s <= t
    PROVE  LabelOf(s, w) <= LabelOf(t, w)
BY DEF LabelOf

\* An input that said no more than the mean leaves no lower label when it is lost, and
\* one that said no less no higher one.
LEMMA LabelWithout ==
    ASSUME NEW rest \in Int, NEW lost \in Int, NEW w \in {15, 60, 75}
    PROVE  /\ lost * (w + 25) <= rest + 25 * lost
                => LabelOf(rest, w) >= LabelOf(rest + 25 * lost, w + 25)
           /\ lost * (w + 25) >= rest + 25 * lost
                => LabelOf(rest, w) <= LabelOf(rest + 25 * lost, w + 25)
<1>1. CASE w = 15
  BY <1>1 DEF LabelOf
<1>2. CASE w = 60
  BY <1>2 DEF LabelOf
<1>3. CASE w = 75
  BY <1>3 DEF LabelOf
<1> QED BY <1>1, <1>2, <1>3

LEMMA MoodTypesStep ==
    ASSUME MoodTypes, [Mood!Next]_moodVars PROVE MoodTypes'
<1>1. CASE UNCHANGED moodVars
  BY <1>1 DEF MoodTypes, moodVars
<1>2. CASE Mood!QuoteIndex
  BY <1>2 DEF MoodTypes, Mood!QuoteIndex
<1>3. CASE Mood!QuoteVix
  BY <1>3 DEF MoodTypes, Mood!QuoteVix
<1>4. CASE Mood!QuoteBoards
  <2>1. change' = change /\ vix' = vix
    BY <1>4 DEF Mood!QuoteBoards
  <2>2. board' \in [Boards -> Quotes] \cup {None}
    BY <1>4 DEF MoodTypes, Mood!QuoteBoards
  <2> QED BY <2>1, <2>2 DEF MoodTypes
<1> QED BY <1>1, <1>2, <1>3, <1>4 DEF Mood!Next

\* What is better makes no part of the sum less.
LEMMA BetterStep ==
    ASSUME MoodTypes, MoodTypes', Mood!Better
    PROVE  Mood!Label' >= Mood!Label
<1>1. /\ Mood!HasIndices' = Mood!HasIndices /\ Mood!HasVix' = Mood!HasVix
      /\ Mood!HasBoards' = Mood!HasBoards
  BY DEF Mood!Better, Mood!HasIndices
<1>2. /\ Mood!Label' = LabelOf(Mood!Sum', Mood!Weight')
      /\ Mood!Sum' = IndexPart' + VixPart' + BoardPart'
      /\ IndexPart' \in Int /\ VixPart' \in Int /\ BoardPart' \in Int
      /\ Mood!Weight' = (IF Mood!HasIndices' THEN 60 ELSE 0)
                        + (IF Mood!HasVix' THEN 25 ELSE 0) + (IF Mood!HasBoards' THEN 15 ELSE 0)
  <2>1. LabelFacts'
    BY LabelIsThere, PTL
  <2> QED BY <2>1 DEF LabelFacts
<1>3. IndexPart <= IndexPart'
  <2>1. CASE Mood!HasIndices
    <3>1. Mood!Known' = Mood!Known /\ \A i \in Mood!Known : change[i] <= change'[i]
      <4>1. \A i \in Mood!Known : change[i] \in Int
        BY <2>1, AverageIsThere DEF AverageFacts
      <4>2. \A i \in Mood!Known : change'[i] >= change[i]
        BY DEF Mood!Better
      <4> QED BY <4>1, <4>2, MoodAssumption DEF Mood!Better, Mood!Known, MoodTypes
    <3>2. /\ Mood!AverageChange' = Mood!Total(change', Mood!Known') \div Cardinality(Mood!Known')
          /\ \A i \in Mood!Known' : i \in Indices /\ change'[i] \in Int
      <4>1. Mood!HasIndices'
        BY <1>1, <2>1
      <4>2. AverageFacts'
        BY <4>1, AverageIsThere, PTL
      <4> QED BY <4>2 DEF AverageFacts
    <3> DEFINE old == Mood!Total(change, Mood!Known)
               new == Mood!Total(change', Mood!Known)
               size == Cardinality(Mood!Known)
    <3>3. old \in Int /\ new \in Int /\ old <= new
      BY <2>1, <3>1, <3>2, AverageIsThere, TotalGrows DEF AverageFacts
    <3>4. size \in Nat \ {0} /\ Mood!AverageChange = old \div size /\ Mood!AverageChange' = new \div size
      BY <2>1, <3>1, <3>2, AverageIsThere DEF AverageFacts
    <3> HIDE DEF old, new, size
    <3>5. /\ Mood!AverageChange \in Int /\ Mood!AverageChange' \in Int
          /\ Mood!AverageChange <= Mood!AverageChange'
      BY <3>3, <3>4, QuotientsGrow
    <3>6. /\ Mood!MomentumScore(Mood!AverageChange) \in Int
          /\ Mood!MomentumScore(Mood!AverageChange') \in Int
          /\ Mood!MomentumScore(Mood!AverageChange) <= Mood!MomentumScore(Mood!AverageChange')
      BY <3>5, MomentumGrows
    <3>7. /\ IndexPart = 60 * Mood!MomentumScore(Mood!AverageChange)
          /\ IndexPart' = 60 * Mood!MomentumScore(Mood!AverageChange')
      BY <1>1, <2>1 DEF IndexPart
    <3> QED BY <3>6, <3>7
  <2>2. CASE ~Mood!HasIndices
    BY <1>1, <2>2 DEF IndexPart
  <2> QED BY <2>1, <2>2
<1>4. VixPart <= VixPart'
  <2>1. CASE Mood!HasVix
    <3>1. vix \in Int /\ vix' \in Int /\ vix' <= vix
      BY <1>1, <2>1, MoodAssumption DEF Mood!HasVix, MoodTypes, Mood!Better
    <3>2. /\ Mood!VixScore(vix) \in Int /\ Mood!VixScore(vix') \in Int
          /\ Mood!VixScore(vix) <= Mood!VixScore(vix')
      BY <3>1, VixFalls
    <3>3. VixPart = 25 * Mood!VixScore(vix) /\ VixPart' = 25 * Mood!VixScore(vix')
      BY <1>1, <2>1 DEF VixPart
    <3> QED BY <3>2, <3>3
  <2>2. CASE ~Mood!HasVix
    BY <1>1, <2>2 DEF VixPart
  <2> QED BY <2>1, <2>2
<1>5. BoardPart <= BoardPart'
  <2>1. CASE Mood!HasBoards
    <3>1. \A b \in Boards : board'[b].change = board[b].change /\ board'[b].up >= board[b].up
      BY <2>1 DEF Mood!Better
    <3>2. Mood!Taken' = Mood!Taken
      BY <3>1 DEF Mood!Taken, Mood!Before
    <3>3. Mood!HasBoards'
      BY <1>1, <2>1
    <3>4. /\ Mood!Advance(Mood!Taken)' = Mood!AdvanceScore(Mood!Total(Ups', Mood!Taken'), 10 * BoardLimit)
          /\ \A b \in Mood!Taken' : b \in Boards /\ Ups'[b] \in Nat
          /\ Mood!Total(Ups', Mood!Taken') \in Nat
      <4>1. AdvanceFacts'
        BY <3>3, AdvanceIsThere, PTL
      <4> QED BY <4>1 DEF AdvanceFacts
    <3>5. \A b \in Mood!Taken : Ups[b] \in Int /\ Ups'[b] \in Int /\ Ups[b] <= Ups'[b]
      <4>1. \A b \in Mood!Taken : b \in Boards /\ Ups[b] \in Nat
        BY <2>1, AdvanceIsThere DEF AdvanceFacts
      <4>2. \A b \in Boards : Ups[b] = board[b].up /\ Ups'[b] = board'[b].up
        BY DEF Ups
      <4> QED BY <3>1, <3>2, <3>4, <4>1, <4>2
    <3> DEFINE old == Mood!Total(Ups, Mood!Taken)
               new == Mood!Total(Ups', Mood!Taken)
    <3>6. old <= new /\ old \in Nat /\ new \in Nat
      BY <2>1, <3>2, <3>4, <3>5, AdvanceIsThere, TotalGrows DEF AdvanceFacts
    <3>7. /\ Mood!Advance(Mood!Taken) = Mood!AdvanceScore(old, 10 * BoardLimit)
          /\ Mood!Advance(Mood!Taken)' = Mood!AdvanceScore(new, 10 * BoardLimit)
          /\ 10 * BoardLimit \in Nat \ {0}
      BY <2>1, <3>2, <3>4, AdvanceIsThere DEF AdvanceFacts
    <3> DEFINE all == 10 * BoardLimit
               a == Mood!Advance(Mood!Taken)
               b == Mood!Advance(Mood!Taken)'
    <3>8. a \in Int /\ b \in Int /\ a <= b
      <4> HIDE DEF old, new, all
      <4> QED BY <3>6, <3>7, AdvanceGrows DEF all
    <3>9. BoardPart = 15 * a /\ BoardPart' = 15 * b
      BY <2>1, <3>3 DEF BoardPart
    <3> HIDE DEF a, b
    <3> QED BY <3>8, <3>9
  <2>2. CASE ~Mood!HasBoards
    BY <1>1, <2>2 DEF BoardPart
  <2> QED BY <2>1, <2>2
<1>6. Mood!Weight' = Mood!Weight /\ Mood!Weight \in Nat
  BY <1>1, <1>2, LabelIsThere DEF LabelFacts
<1>7. Mood!Sum \in Int /\ Mood!Sum' \in Int /\ Mood!Sum <= Mood!Sum'
  BY <1>2, <1>3, <1>4, <1>5, LabelIsThere DEF LabelFacts
<1>8. LabelOf(Mood!Sum, Mood!Weight) <= LabelOf(Mood!Sum', Mood!Weight)
  BY <1>6, <1>7, LabelGrows
<1>9. LabelOf(Mood!Sum, Mood!Weight) \in Int /\ LabelOf(Mood!Sum', Mood!Weight) \in Int
  BY DEF LabelOf
<1> QED BY <1>2, <1>6, <1>8, <1>9, LabelIsThere DEF LabelFacts

\* The VIX is lost alone.
LEMMA LostVixStep ==
    ASSUME MoodTypes, MoodTypes', [Mood!Next]_moodVars,
           Mood!HasVix, ~Mood!HasVix', Mood!Weight' > 0
    PROVE  /\ Mood!VixScore(vix) * Mood!Weight <= Mood!Sum => Mood!Label' >= Mood!Label
           /\ Mood!VixScore(vix) * Mood!Weight >= Mood!Sum => Mood!Label' <= Mood!Label
<1>1. change' = change /\ board' = board
  <2>1. vix' # vix
    BY DEF Mood!HasVix
  <2>2. Mood!QuoteVix
    BY <2>1 DEF Mood!Next, Mood!QuoteIndex, Mood!QuoteBoards, moodVars
  <2> QED BY <2>2 DEF Mood!QuoteVix
<1>2. /\ Mood!HasIndices' = Mood!HasIndices /\ Mood!HasBoards' = Mood!HasBoards
      /\ IndexPart' = IndexPart /\ BoardPart' = BoardPart
  <2>1. Mood!Known' = Mood!Known /\ Mood!AverageChange' = Mood!AverageChange
    BY <1>1 DEF Mood!Known, Mood!AverageChange
  <2>2. Mood!HasIndices' = Mood!HasIndices /\ Mood!HasBoards' = Mood!HasBoards
    BY <1>1, <2>1 DEF Mood!HasIndices, Mood!HasBoards
  <2>3. Mood!Taken' = Mood!Taken
    BY <1>1 DEF Mood!Taken, Mood!Before
  <2>4. Mood!Advance(Mood!Taken)' = Mood!Advance(Mood!Taken)
    BY <1>1, <2>3 DEF Mood!Advance
  <2>5. IndexPart' = IndexPart
    BY <2>1, <2>2 DEF IndexPart
  <2>6. BoardPart' = BoardPart
    BY <2>2, <2>4 DEF BoardPart
  <2> QED BY <2>2, <2>5, <2>6
<1>3. LabelFacts /\ LabelFacts'
  BY LabelIsThere, PTL
<1> DEFINE rest == IndexPart + BoardPart
           lost == Mood!VixScore(vix)
           w == Mood!Weight'
<1>4. vix \in Int /\ lost \in Int
  <2>1. vix \in Int
    BY MoodAssumption DEF Mood!HasVix, MoodTypes
  <2> QED BY <2>1, VixFalls
<1>5. VixPart = 25 * lost /\ VixPart' = 0
  BY DEF VixPart
<1>6. rest \in Int /\ w \in {15, 60, 75} /\ Mood!Weight = w + 25
  BY <1>2, <1>3 DEF LabelFacts
<1>7. Mood!Sum = rest + 25 * lost /\ Mood!Sum' = rest
  BY <1>2, <1>3, <1>4, <1>5 DEF LabelFacts
<1>8. Mood!Label' = LabelOf(rest, w) /\ Mood!Label = LabelOf(rest + 25 * lost, w + 25)
  BY <1>3, <1>6, <1>7 DEF LabelFacts
<1> HIDE DEF rest, lost, w
<1>9. /\ lost * (w + 25) <= rest + 25 * lost
           => LabelOf(rest, w) >= LabelOf(rest + 25 * lost, w + 25)
      /\ lost * (w + 25) >= rest + 25 * lost
           => LabelOf(rest, w) <= LabelOf(rest + 25 * lost, w + 25)
  BY <1>4, <1>6, LabelWithout
<1> QED BY <1>6, <1>7, <1>8, <1>9 DEF lost

MoodTypeOK == Mood!TypeOK

LEMMA MoodTypesOK ==
    ASSUME MoodTypes PROVE MoodTypeOK
BY BoardsTaken, MoodCardinality DEF MoodTypes, MoodTypeOK, Mood!TypeOK

LEMMA MoodStep ==
    ASSUME MoodTypes, [Mood!Next]_moodVars
    PROVE  MoodTypes' /\ Mood!SoundStep
<1>1. MoodTypes'
  BY MoodTypesStep
<1>2. Mood!TypeOK'
  <2>1. MoodTypeOK'
    BY <1>1, MoodTypesOK, PTL
  <2> QED BY <2>1 DEF MoodTypeOK
<1>3. Mood!Better => Mood!Label' >= Mood!Label
  BY <1>1, BetterStep
<1>4. Mood!HasVix /\ ~Mood!HasVix' /\ Mood!Weight' > 0 =>
        /\ Mood!VixScore(vix) * Mood!Weight <= Mood!Sum => Mood!Label' >= Mood!Label
        /\ Mood!VixScore(vix) * Mood!Weight >= Mood!Sum => Mood!Label' <= Mood!Label
  BY <1>1, LostVixStep
<1>5. Mood!Label' = 0 <=> ~Mood!HasIndices' /\ ~Mood!HasVix' /\ ~Mood!HasBoards'
  <2>1. LabelFacts'
    BY <1>1, LabelIsThere, PTL
  <2>2. Mood!Label' = 0 <=> Mood!Weight' = 0
    BY <2>1 DEF LabelFacts, LabelOf
  <2> QED BY <2>1, <2>2 DEF LabelFacts
<1> QED BY <1>1, <1>2, <1>3, <1>4, <1>5 DEF Mood!SoundStep
-----------------------------------------------------------------------------
(* NewsSentiment: the market news count for. *)

CoverageTypes ==
    /\ newsNow \in Nat
    /\ news \in [CoveredNews -> [market : RawMarkets, at : Nat] \cup {None}]
    /\ counts \in [CoveredNews -> [RawMarkets -> Nat]]
    /\ score \in [CoveredNews -> Scores \cup {None}]
    /\ analysis \in [CoveredNews -> Labels \cup {None}]
    /\ \A n \in CoveredNews : news[n] = None => score[n] = None /\ analysis[n] = None

\* The markets that have three of five of the mentions c.
Most(c) == {m \in ShownMarkets : c[m] > 0 /\ 10 * c[m] >= 6 * Mood!Total(c, ShownMarkets)}

LEMMA MostIsOne ==
    ASSUME NEW c \in [ShownMarkets -> Nat], NEW m \in Most(c), NEW k \in Most(c) PROVE m = k
<1> DEFINE all == Mood!Total(c, ShownMarkets)
<1>1. /\ all \in Nat /\ \A x \in ShownMarkets : c[x] <= all
      /\ \A x, y \in ShownMarkets : x # y => c[x] + c[y] <= all
  BY CoverageAssumption, TotalOfNaturals
<1>2. \A x \in ShownMarkets : c[x] \in Nat
  OBVIOUS
<1>3. /\ m \in ShownMarkets /\ c[m] > 0 /\ 10 * c[m] >= 6 * all
      /\ k \in ShownMarkets /\ c[k] > 0 /\ 10 * c[k] >= 6 * all
  BY DEF Most
<1> HIDE DEF all
<1> QED BY <1>1, <1>2, <1>3

\* One more mention of a market takes no news from it, and gives it to no other.
LEMMA MostWithOneMore ==
    ASSUME NEW c \in [ShownMarkets -> Nat], NEW d \in [ShownMarkets -> Nat], NEW k \in ShownMarkets,
           \A x \in ShownMarkets : d[x] = IF x = k THEN c[x] + 1 ELSE c[x]
    PROVE  (k \in Most(c) => k \in Most(d)) /\ (Most(d) \subseteq Most(c) \cup {k})
<1> DEFINE old == Mood!Total(c, ShownMarkets)
           new == Mood!Total(d, ShownMarkets)
<1>1. old \in Nat /\ new = old + 1
  BY CoverageAssumption, TotalOfNaturals, TotalOfOneMore
<1>2. \A x \in ShownMarkets : c[x] \in Nat
  OBVIOUS
<1>3. /\ \A x \in ShownMarkets : x \in Most(c) <=> c[x] > 0 /\ 10 * c[x] >= 6 * old
      /\ \A x \in ShownMarkets : x \in Most(d) <=> d[x] > 0 /\ 10 * d[x] >= 6 * new
      /\ Most(d) \subseteq ShownMarkets
  BY DEF Most
<1> HIDE DEF old, new
<1> QED BY <1>1, <1>2, <1>3

MentionsOf(n) == [m \in ShownMarkets |-> Coverage!Mentioned(n, m)]

AttributionFacts(n) ==
    /\ MentionsOf(n) \in [ShownMarkets -> Nat]
    /\ Coverage!Attributed(n) = IF Most(MentionsOf(n)) # {} THEN CHOOSE m \in Most(MentionsOf(n)) : TRUE
                                ELSE MarketOf[news[n].market]
    /\ Most(MentionsOf(n)) \subseteq ShownMarkets
    /\ news[n].market \in RawMarkets
    /\ Coverage!Attributed(n) \in ShownMarkets \cup {None}

LEMMA MentionedIsThere ==
    ASSUME NEW f \in [RawMarkets -> Nat], NEW m
    PROVE  /\ IsFiniteSet({raw \in RawMarkets : MarketOf[raw] = m})
           /\ Mood!Total(f, {raw \in RawMarkets : MarketOf[raw] = m}) \in Nat
<1>1. IsFiniteSet({raw \in RawMarkets : MarketOf[raw] = m})
  BY CoverageAssumption, FS_Subset
<1>2. \A raw \in {r \in RawMarkets : MarketOf[r] = m} : f[raw] \in Nat
  OBVIOUS
<1> QED BY <1>1, <1>2, TotalOfNaturals

LEMMA AttributionIsThere ==
    ASSUME CoverageTypes, NEW n \in CoveredNews, news[n] # None PROVE AttributionFacts(n)
<1>1. MentionsOf(n) \in [ShownMarkets -> Nat]
  <2>1. counts[n] \in [RawMarkets -> Nat]
    BY DEF CoverageTypes
  <2>2. \A m \in ShownMarkets : Coverage!Mentioned(n, m) \in Nat
    BY <2>1, MentionedIsThere, OneTotal DEF Coverage!Mentioned
  <2> QED BY <2>2 DEF MentionsOf
<1>2. \A m \in ShownMarkets : Coverage!Mentioned(n, m) = MentionsOf(n)[m]
  BY DEF MentionsOf
<1>3. Most(MentionsOf(n)) = {m \in ShownMarkets : Coverage!Mentioned(n, m) > 0
        /\ 10 * Coverage!Mentioned(n, m) >= 6 * Coverage!Total(MentionsOf(n), ShownMarkets)}
  BY <1>2, OneTotal DEF Most
<1>4. Coverage!Attributed(n) = IF Most(MentionsOf(n)) # {} THEN CHOOSE m \in Most(MentionsOf(n)) : TRUE
                               ELSE MarketOf[news[n].market]
  <2> DEFINE most == {m \in ShownMarkets : Coverage!Mentioned(n, m) > 0
        /\ 10 * Coverage!Mentioned(n, m) >= 6 * Coverage!Total(MentionsOf(n), ShownMarkets)}
  <2>1. Coverage!Attributed(n) = IF most # {} THEN CHOOSE m \in most : TRUE
                                 ELSE MarketOf[news[n].market]
    BY Zenon DEF Coverage!Attributed, MentionsOf
  <2>2. most = Most(MentionsOf(n))
    BY <1>3
  <2> HIDE DEF most
  <2> QED BY <2>1, <2>2
<1>5. Most(MentionsOf(n)) \subseteq ShownMarkets
  BY DEF Most
<1>6. news[n].market \in RawMarkets
  BY DEF CoverageTypes
<1>7. Coverage!Attributed(n) \in ShownMarkets \cup {None}
  BY <1>4, <1>5, <1>6, CoverageAssumption
<1> QED BY <1>1, <1>4, <1>5, <1>6, <1>7 DEF AttributionFacts

AllAttributed == \A n \in CoveredNews : news[n] # None => AttributionFacts(n)

LEMMA AllAreAttributed == ASSUME CoverageTypes PROVE AllAttributed
BY AttributionIsThere DEF AllAttributed

CoverageTypeOK == Coverage!TypeOK

LEMMA CoverageTypesOK ==
    ASSUME CoverageTypes PROVE CoverageTypeOK
<1>1. ASSUME NEW n \in CoveredNews PROVE Coverage!Home(n) \in ShownMarkets \cup {None}
  BY AttributionIsThere DEF AttributionFacts, Coverage!Home, Coverage!Stored
<1>2. \A n \in CoveredNews : n \notin Coverage!Stored => score[n] = None /\ analysis[n] = None
  BY DEF CoverageTypes, Coverage!Stored
<1> QED BY <1>1, <1>2 DEF CoverageTypeOK, Coverage!TypeOK

LEMMA CoverageTypesStep ==
    ASSUME CoverageTypes, [Coverage!Next]_coverageVars PROVE CoverageTypes'
<1>1. CASE UNCHANGED coverageVars
  BY <1>1 DEF CoverageTypes, coverageVars
<1>2. CASE Coverage!Tick
  BY <1>2 DEF CoverageTypes, Coverage!Tick
<1>3. ASSUME NEW n \in CoveredNews, Coverage!Store(n) PROVE CoverageTypes'
  <2>1. PICK m \in RawMarkets, at \in 0..newsNow :
          news' = [news EXCEPT ![n] = [market |-> m, at |-> at]]
    BY <1>3 DEF Coverage!Store
  <2>2. [market |-> m, at |-> at] \in [market : RawMarkets, at : Nat]
    BY DEF CoverageTypes
  <2>3. [market |-> m, at |-> at] # None
    BY <2>2, CoverageAssumption
  <2> DEFINE stored == [market |-> m, at |-> at]
  <2> HIDE DEF stored
  <2>4. news' = [news EXCEPT ![n] = stored]
    BY <2>1 DEF stored
  <2>5. news' \in [CoveredNews -> [market : RawMarkets, at : Nat] \cup {None}]
    BY <2>2, <2>4 DEF CoverageTypes, stored
  <2>6. \A o \in CoveredNews : news'[o] = None => news[o] = None
    BY <2>3, <2>4 DEF CoverageTypes, stored
  <2> QED BY <1>3, <2>5, <2>6 DEF CoverageTypes, Coverage!Store
<1>4. ASSUME NEW n \in CoveredNews, Coverage!Mention(n) PROVE CoverageTypes'
  <2>1. PICK m \in RawMarkets : counts' = [counts EXCEPT ![n][m] = @ + 1]
    BY <1>4 DEF Coverage!Mention
  <2>2. counts' \in [CoveredNews -> [RawMarkets -> Nat]]
    BY <2>1 DEF CoverageTypes
  <2> QED BY <1>4, <2>2 DEF CoverageTypes, Coverage!Mention
<1>5. ASSUME NEW n \in CoveredNews, Coverage!Classify(n) PROVE CoverageTypes'
  <2>1. news[n] # None
    BY <1>5 DEF Coverage!Classify, Coverage!Stored
  <2> QED BY <1>5, <2>1 DEF CoverageTypes, Coverage!Classify
<1>6. ASSUME NEW n \in CoveredNews, Coverage!Analyse(n) PROVE CoverageTypes'
  <2>1. news[n] # None
    BY <1>6 DEF Coverage!Analyse, Coverage!Stored
  <2> QED BY <1>6, <2>1 DEF CoverageTypes, Coverage!Analyse
<1> QED BY <1>1, <1>2, <1>3, <1>4, <1>5, <1>6 DEF Coverage!Next

\* A mention of a share.
LEMMA MentionStep ==
    ASSUME CoverageTypes, CoverageTypes', [Coverage!Next]_coverageVars,
           NEW n \in Coverage!Stored, NEW m \in RawMarkets, Coverage!Mentions(n, m)
    PROVE  /\ MarketOf[m] = Coverage!Home(n) => Coverage!Home(n)' = Coverage!Home(n)
           /\ MarketOf[m] = None => Coverage!Home(n)' = Coverage!Home(n)
<1>1. n \in CoveredNews /\ news[n] # None
  BY DEF Coverage!Stored
<1>2. counts'[n] # counts[n]
  BY <1>1 DEF Coverage!Mentions, CoverageTypes
<1>3. PICK o \in CoveredNews : Coverage!Mention(o)
  BY <1>2 DEF Coverage!Next, Coverage!Tick, Coverage!Store, Coverage!Classify, Coverage!Analyse,
      coverageVars
<1>4. news' = news
  BY <1>3 DEF Coverage!Mention
<1>5. PICK r \in RawMarkets : counts' = [counts EXCEPT ![o][r] = @ + 1]
  BY <1>3 DEF Coverage!Mention
<1>6. \A raw \in RawMarkets : counts'[n][raw] = IF raw = m THEN counts[n][raw] + 1 ELSE counts[n][raw]
  <2>1. counts \in [CoveredNews -> [RawMarkets -> Nat]]
    BY DEF CoverageTypes
  <2>2. n = o
    BY <1>1, <1>2, <1>5, <2>1
  <2>3. m = r
    BY <1>1, <1>5, <2>1, <2>2 DEF Coverage!Mentions
  <2> QED BY <1>1, <1>5, <2>1, <2>2, <2>3
<1> DEFINE c == MentionsOf(n)
           d == MentionsOf(n)'
           of(k) == {raw \in RawMarkets : MarketOf[raw] = k}
<1>7. AttributionFacts(n) /\ AttributionFacts(n)'
  <2>1. AllAttributed /\ AllAttributed'
    BY AllAreAttributed, PTL
  <2> QED BY <1>1, <1>4, <2>1 DEF AllAttributed
<1>8. \A k \in ShownMarkets : /\ c[k] = Mood!Total(counts[n], of(k))
                         /\ d[k] = Mood!Total(counts'[n], of(k))
  BY OneTotal DEF MentionsOf, Coverage!Mentioned
<1>9. counts[n] \in [RawMarkets -> Nat] /\ counts'[n] \in [RawMarkets -> Nat]
  BY <1>1 DEF CoverageTypes
<1>10. ASSUME NEW k \in ShownMarkets PROVE d[k] = IF MarketOf[m] = k THEN c[k] + 1 ELSE c[k]
  <2>1. IsFiniteSet(of(k))
    BY <1>9, MentionedIsThere
  <2>2. \A raw \in of(k) : /\ counts[n][raw] \in Int
                           /\ counts'[n][raw] = IF raw = m THEN counts[n][raw] + 1 ELSE counts[n][raw]
    BY <1>6, <1>9
  <2>3. CASE MarketOf[m] = k
    <3>1. m \in of(k)
      BY <2>3
    <3> HIDE DEF of, c, d
    <3>2. Mood!Total(counts'[n], of(k)) = Mood!Total(counts[n], of(k)) + 1
      BY <2>1, <2>2, <3>1, TotalOfOneMore
    <3> QED BY <1>8, <2>3, <3>2
  <2>4. CASE MarketOf[m] # k
    <3>1. m \notin of(k)
      BY <2>4
    <3> HIDE DEF of, c, d
    <3>2. \A raw \in of(k) : counts[n][raw] \in Int /\ counts[n][raw] = counts'[n][raw]
      BY <2>2, <3>1
    <3>3. Mood!Total(counts'[n], of(k)) = Mood!Total(counts[n], of(k))
      BY <2>1, <3>2, TotalIsSame
    <3> QED BY <1>8, <2>4, <3>3
  <2> QED BY <2>3, <2>4
<1>11. c \in [ShownMarkets -> Nat] /\ d \in [ShownMarkets -> Nat]
  BY <1>7 DEF AttributionFacts
<1>12. /\ Coverage!Home(n) = IF Most(c) # {} THEN CHOOSE k \in Most(c) : TRUE
                             ELSE MarketOf[news[n].market]
       /\ Coverage!Home(n)' = IF Most(d) # {} THEN CHOOSE k \in Most(d) : TRUE
                              ELSE MarketOf[news[n].market]
  BY <1>1, <1>4, <1>7 DEF AttributionFacts, Coverage!Home, Coverage!Stored
<1>13. ASSUME MarketOf[m] = None PROVE Coverage!Home(n)' = Coverage!Home(n)
  <2> HIDE DEF c, d
  <2>1. \A k \in ShownMarkets : d[k] = c[k]
    BY <1>10, <1>13, CoverageAssumption
  <2>2. c = d
    BY <1>11, <2>1
  <2> QED BY <1>12, <2>2
<1>14. ASSUME MarketOf[m] = Coverage!Home(n), MarketOf[m] # None
       PROVE  Coverage!Home(n)' = Coverage!Home(n)
  <2> DEFINE k == MarketOf[m]
  <2>1. k \in ShownMarkets
    BY <1>14, CoverageAssumption
  <2>2. \A x \in ShownMarkets : d[x] = IF x = k THEN c[x] + 1 ELSE c[x]
    BY <1>10
  <2>3. k = Coverage!Home(n)
    BY <1>14
  <2> HIDE DEF c, d, k
  <2>4. (k \in Most(c) => k \in Most(d)) /\ (Most(d) \subseteq Most(c) \cup {k})
    BY <1>11, <2>1, <2>2, MostWithOneMore
  <2>5. \A x, y \in Most(c) : x = y
    BY <1>11, MostIsOne
  <2>6. \A x, y \in Most(d) : x = y
    BY <1>11, MostIsOne
  <2>7. CASE Most(c) # {}
    <3>1. k \in Most(d)
      BY <1>12, <2>3, <2>4, <2>7
    <3> QED BY <1>12, <2>3, <2>6, <3>1
  <2>8. CASE Most(c) = {}
    <3>1. Most(d) \subseteq {k} /\ k = MarketOf[news[n].market]
      BY <1>12, <2>3, <2>4, <2>8
    <3> QED BY <1>12, <2>3, <3>1
  <2> QED BY <2>7, <2>8
<1> QED BY <1>13, <1>14
-----------------------------------------------------------------------------
(* NewsSentiment: the sentiment of a market. *)

LEMMA ScoreIsThere ==
    ASSUME CoverageTypes, NEW n \in CoveredNews, Coverage!Score(n) # None
    PROVE  Coverage!Score(n) \in Int
<1>1. CASE score[n] # None
  <2>1. score[n] \in Int
    BY <1>1, CoverageAssumption DEF CoverageTypes
  <2> QED BY <1>1, <2>1 DEF Coverage!Score
<1>2. CASE score[n] = None
  <2>1. analysis[n] # None
    BY <1>2 DEF Coverage!Score
  <2>2. analysis[n] \in {"positive", "neutral", "negative", "unknown"}
    BY <2>1, CoverageAssumption DEF CoverageTypes
  <2>3. Coverage!Score(n) = Coverage!LabelScores[analysis[n]]
    BY <1>2, <2>1 DEF Coverage!Score
  <2>4. Coverage!LabelScores[analysis[n]] \in {1, 0, -1, None}
    BY <2>2 DEF Coverage!LabelScores
  <2> QED BY <2>3, <2>4
<1> QED BY <1>1, <1>2

Sample(m) == {n \in Coverage!Bucket(m) : Coverage!Score(n) # None}
Samples(m) == [n \in Sample(m) |-> Coverage!Score(n)]

LEMMA SentimentIs ==
    ASSUME NEW m
    PROVE  Coverage!Sentiment(m) = IF Cardinality(Sample(m)) >= MinSample
              THEN [sum |-> Mood!Total(Samples(m), Sample(m)), count |-> Cardinality(Sample(m))]
              ELSE None
<1>1. Coverage!Sentiment(m) = IF Coverage!Cardinality(Sample(m)) >= MinSample
        THEN [sum |-> Coverage!Total(Samples(m), Sample(m)), count |-> Coverage!Cardinality(Sample(m))]
        ELSE None
  BY Zenon DEF Coverage!Sentiment, Sample, Samples
<1> QED BY <1>1, CoverageCardinality, OneTotal

Changed(n) == <<news'[n], counts'[n], Coverage!Score(n)'>> # <<news[n], counts[n], Coverage!Score(n)>>

LEMMA AttributionStays ==
    ASSUME NEW n, news'[n] = news[n], counts'[n] = counts[n]
    PROVE  Coverage!Attributed(n)' = Coverage!Attributed(n)
<1>1. \A k : Coverage!Mentioned(n, k)' = Coverage!Mentioned(n, k)
  BY DEF Coverage!Mentioned
<1>2. MentionsOf(n)' = MentionsOf(n)
  BY <1>1 DEF MentionsOf
<1> DEFINE all == Coverage!Total(MentionsOf(n), ShownMarkets)
           most == {m \in ShownMarkets : Coverage!Mentioned(n, m) > 0 /\ 10 * Coverage!Mentioned(n, m) >= 6 * all}
           next == {m \in ShownMarkets : Coverage!Mentioned(n, m)' > 0
                      /\ 10 * Coverage!Mentioned(n, m)' >= 6 * Coverage!Total(MentionsOf(n)', ShownMarkets)}
<1>3. Coverage!Attributed(n) = IF most # {} THEN CHOOSE m \in most : TRUE ELSE MarketOf[news[n].market]
  BY Zenon DEF Coverage!Attributed, MentionsOf
<1>4. Coverage!Attributed(n)' = IF next # {} THEN CHOOSE m \in next : TRUE ELSE MarketOf[news'[n].market]
  BY Zenon DEF Coverage!Attributed, MentionsOf
<1>5. next = most
  BY <1>1, <1>2
<1> HIDE DEF next, most
<1> QED BY <1>3, <1>4, <1>5

\* What is not changed counts where it did.
LEMMA UnchangedCounts ==
    ASSUME newsNow' = newsNow, NEW n \in CoveredNews, NEW m,
           news'[n] = news[n], counts'[n] = counts[n]
    PROVE  n \in Coverage!Bucket(m)' <=> n \in Coverage!Bucket(m)
<1>1. Coverage!Attributed(n)' = Coverage!Attributed(n)
  BY AttributionStays
<1> QED BY <1>1 DEF Coverage!Bucket, Coverage!InWindow, Coverage!Stored

\* A sentiment moves with news that count for the market, before or after.
LEMMA SentimentMoves ==
    ASSUME newsNow' = newsNow, NEW m, Coverage!Sentiment(m)' # Coverage!Sentiment(m)
    PROVE  \E n \in CoveredNews : m \in {Coverage!Home(n), Coverage!Home(n)'} /\ Changed(n)
<1> SUFFICES ASSUME \A n \in CoveredNews : Changed(n) => m \notin {Coverage!Home(n), Coverage!Home(n)'}
             PROVE  Coverage!Sentiment(m)' = Coverage!Sentiment(m)
  OBVIOUS
<1>1. ASSUME NEW n \in CoveredNews, Changed(n)
      PROVE  n \notin Coverage!Bucket(m) /\ n \notin Coverage!Bucket(m)'
  BY <1>1 DEF Coverage!Bucket, Coverage!InWindow, Coverage!Home
<1>2. ASSUME NEW n \in CoveredNews, ~Changed(n)
      PROVE  /\ n \in Coverage!Bucket(m)' <=> n \in Coverage!Bucket(m)
             /\ Coverage!Score(n)' = Coverage!Score(n)
  <2>1. news'[n] = news[n] /\ counts'[n] = counts[n] /\ Coverage!Score(n)' = Coverage!Score(n)
    BY <1>2 DEF Changed
  <2> QED BY <2>1, UnchangedCounts
<1>3. Coverage!Bucket(m) \subseteq CoveredNews /\ Coverage!Bucket(m)' \subseteq CoveredNews
  BY DEF Coverage!Bucket, Coverage!InWindow, Coverage!Stored
<1>4. Sample(m)' = Sample(m) /\ \A n \in Sample(m) : Coverage!Score(n)' = Coverage!Score(n)
  BY <1>1, <1>2, <1>3 DEF Sample
<1>5. Samples(m)' = Samples(m)
  BY <1>4 DEF Samples
<1> QED BY <1>4, <1>5 DEF Coverage!Sentiment, Sample, Samples

\* An analysis of news that have a score does not move it.
LEMMA AnalysisMovesNothing ==
    ASSUME CoverageTypes, [Coverage!Next]_coverageVars, newsNow' = newsNow, NEW m,
           Coverage!Sentiment(m)' # Coverage!Sentiment(m),
           NEW n \in CoveredNews, analysis'[n] # analysis[n]
    PROVE  score[n] = None
<1> SUFFICES ASSUME score[n] # None PROVE FALSE
  OBVIOUS
<1>1. PICK o \in CoveredNews : Coverage!Analyse(o)
  BY DEF Coverage!Next, Coverage!Tick, Coverage!Store, Coverage!Mention, Coverage!Classify, coverageVars
<1>2. PICK a \in Labels : analysis' = [analysis EXCEPT ![o] = a]
  BY <1>1 DEF Coverage!Analyse
<1>3. o = n /\ \A x \in CoveredNews : x # n => analysis'[x] = analysis[x]
  BY <1>2 DEF CoverageTypes
<1>4. news' = news /\ counts' = counts /\ score' = score
  BY <1>1 DEF Coverage!Analyse
<1>5. \A x \in CoveredNews : Coverage!Score(x)' = Coverage!Score(x)
  BY <1>3, <1>4 DEF Coverage!Score
<1>6. \A x \in CoveredNews : ~Changed(x)
  BY <1>4, <1>5 DEF Changed
<1> QED BY <1>6, SentimentMoves

\* With time news only leave the window.
LEMMA WindowShrinks ==
    ASSUME CoverageTypes, [Coverage!Next]_coverageVars, newsNow' # newsNow, NEW m,
           Coverage!Sentiment(m)' # None
    PROVE  Coverage!Sentiment(m) # None
<1>1. Coverage!Tick
  BY DEF Coverage!Next, Coverage!Store, Coverage!Mention, Coverage!Classify, Coverage!Analyse,
      coverageVars
<1>2. /\ newsNow' = newsNow + 1 /\ news' = news /\ counts' = counts
      /\ score' = score /\ analysis' = analysis
  BY <1>1 DEF Coverage!Tick
<1>3. ASSUME NEW n PROVE Coverage!Attributed(n)' = Coverage!Attributed(n)
  BY <1>2, AttributionStays
<1>4. \A n : Coverage!Score(n)' = Coverage!Score(n)
  BY <1>2 DEF Coverage!Score
<1>5. ASSUME NEW n \in Coverage!InWindow' PROVE n \in Coverage!InWindow
  <2>1. n \in CoveredNews /\ news[n] # None /\ news'[n].at >= newsNow' - Lookback
    BY <1>2 DEF Coverage!InWindow, Coverage!Stored
  <2>2. news[n].at \in Nat /\ newsNow \in Nat /\ Lookback \in Nat
    BY <2>1, CoverageAssumption DEF CoverageTypes
  <2>3. news[n].at >= newsNow - Lookback
    BY <1>2, <2>1, <2>2
  <2> QED BY <2>1, <2>3 DEF Coverage!InWindow, Coverage!Stored
<1>6. Sample(m)' \subseteq Sample(m)
  BY <1>3, <1>4, <1>5 DEF Sample, Coverage!Bucket
<1>7. Sample(m) \subseteq CoveredNews
  BY DEF Sample, Coverage!Bucket, Coverage!InWindow, Coverage!Stored
<1>8. IsFiniteSet(Sample(m)) /\ IsFiniteSet(Sample(m)')
  BY <1>6, <1>7, CoverageAssumption, FS_Subset
<1>9. /\ Cardinality(Sample(m)) \in Nat /\ Cardinality(Sample(m)') \in Nat
      /\ Cardinality(Sample(m)') <= Cardinality(Sample(m))
  BY <1>6, <1>8, FS_Subset, FS_CardinalityType
<1>10. Cardinality(Sample(m)') >= MinSample
  BY MoodCardinality, CoverageCardinality DEF Coverage!Sentiment, Sample
<1>11. Coverage!Sentiment(m)
         = [sum |-> Mood!Total(Samples(m), Sample(m)), count |-> Cardinality(Sample(m))]
  <2>1. MinSample \in Nat
    BY CoverageAssumption
  <2>2. Cardinality(Sample(m)) >= MinSample
    BY <1>9, <1>10, <2>1
  <2> QED BY <2>2, SentimentIs
<1>12. Mood!Total(Samples(m), Sample(m)) \in Int
  <2>1. \A n \in Sample(m) : Samples(m)[n] \in Int
    BY <1>7, ScoreIsThere DEF Samples, Sample
  <2> QED BY <1>8, <2>1, TotalIsSame
<1> QED BY <1>9, <1>11, <1>12, CoverageAssumption

LEMMA CoverageStep ==
    ASSUME CoverageTypes, [Coverage!Next]_coverageVars
    PROVE  CoverageTypes' /\ Coverage!SoundStep
<1>1. CoverageTypes'
  BY CoverageTypesStep
<1>2. Coverage!TypeOK'
  <2>1. CoverageTypeOK'
    BY <1>1, CoverageTypesOK, PTL
  <2> QED BY <2>1 DEF CoverageTypeOK
<1>3. \A n \in Coverage!Stored, m \in RawMarkets : Coverage!Mentions(n, m) =>
        /\ MarketOf[m] = Coverage!Home(n) => Coverage!Home(n)' = Coverage!Home(n)
        /\ MarketOf[m] = None => Coverage!Home(n)' = Coverage!Home(n)
  BY <1>1, MentionStep
<1>4. newsNow' = newsNow => \A m \in ShownMarkets : Coverage!Sentiment(m)' # Coverage!Sentiment(m) =>
        /\ \E n \in CoveredNews : /\ m \in {Coverage!Home(n), Coverage!Home(n)'}
                                  /\ <<news'[n], counts'[n], Coverage!Score(n)'>>
                                       # <<news[n], counts[n], Coverage!Score(n)>>
        /\ \A n \in CoveredNews : analysis'[n] # analysis[n] => score[n] = None
  BY SentimentMoves, AnalysisMovesNothing DEF Changed
<1>5. newsNow' # newsNow =>
        \A m \in ShownMarkets : Coverage!Sentiment(m)' # None => Coverage!Sentiment(m) # None
  BY WindowShrinks
<1> QED BY <1>1, <1>2, <1>3, <1>4, <1>5 DEF Coverage!SoundStep

SentimentInv == MoodTypes /\ CoverageTypes

\* MarketSentiment and NewsSentiment: as long as the same is known of a market, what is
\* better does not lower its mood, and the VIX that is lost moves the mood away from what
\* it said; news count for one market, and only what is learnt of them moves its sentiment
\* (compute_market_sentiment, aggregate_all_markets, _attribute_market).
THEOREM SentimentTheorem == OneSpec => SentimentIsSound
<1>1. OneInit => SentimentInv
  <2> SUFFICES ASSUME Mood!Init, Coverage!Init PROVE MoodTypes /\ CoverageTypes
    BY DEF OneInit, SentimentInv
  <2>1. MoodTypes
    BY DEF Mood!Init, MoodTypes
  <2>2. CoverageTypes
    BY DEF Coverage!Init, CoverageTypes
  <2> QED BY <2>1, <2>2
<1>2. [OneNext]_allVars => [Mood!Next]_moodVars /\ [Coverage!Next]_coverageVars
  BY DEF OneNext, allVars
<1>3. SentimentInv /\ [OneNext]_allVars => SentimentInv' /\ Mood!SoundStep /\ Coverage!SoundStep
  BY <1>2, MoodStep, CoverageStep DEF SentimentInv
<1>4. SentimentInv /\ [OneNext]_allVars
        => [ /\ active = "mood" => Mood!SoundStep
             /\ active = "coverage" => Coverage!SoundStep ]_<<moodVars, coverageVars>>
  BY <1>3
<1> QED BY <1>1, <1>3, <1>4, PTL DEF OneSpec, SentimentIsSound
=============================================================================
