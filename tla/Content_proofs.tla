--------------------------- MODULE Content_proofs ---------------------------
(***************************************************************************)
(* The instances of MCContent, proved for every value of the constants     *)
(* they share with it: the alert centre's page agrees with the server      *)
(* (AlertCentre), the paged list has no row twice and skips none           *)
(* (FeedPages), the topics hold what their news are about (Topics), the    *)
(* gate lets one row in for a link (DuplicateGate), a news keeps the body  *)
(* it has (Articles), saying more makes an item no less relevant           *)
(* (RelevanceGate), what a feed offers is read with its time               *)
(* (FeedParsing), and an event has one card that opens on itself           *)
(* (EventCards).                                                           *)
(***************************************************************************)
EXTENDS MCContent, FiniteSetTheorems, TLAPS

\* The rows and the requests of the page.
CallKinds == {"list", "count", "mark", "all"}
CallRecord == [kind : CallKinds, of : Alerts \cup {None}, stage : {"asked", "answered"},
               answer : SUBSET (Alerts \X BOOLEAN), calm : BOOLEAN]
RowRecord == [visible : Int, read : BOOLEAN]

\* What the badge should say.
Truth == Cardinality(Centre!Unread \ (pushed \cup untold))

\* The types, in three parts.
RowTypes ==
    /\ centreClock \in 0..MaxClock /\ askedFor \in 0..MaxAsked
    /\ centreRows \in [Alerts -> RowRecord \cup {None}]
CallTypes == centreCalls \in [Requests -> CallRecord \cup {None}]
PageParts ==
    /\ DOMAIN shown \subseteq Centre!Created /\ late \subseteq DOMAIN shown /\ unread \in Nat
    /\ pushed \subseteq Centre!Created /\ untold \subseteq Centre!Created /\ pushed \cap untold = {}

\* Nothing is shown, pushed or read before its time, and what is not due yet is untold.
AlertsOnTime ==
    /\ \A a \in pushed \cup DOMAIN shown : centreRows[a].visible <= centreClock
    /\ \A a \in Centre!Created : centreRows[a].read => centreRows[a].visible <= centreClock
    /\ \A a \in Centre!Created : centreRows[a].visible > centreClock => a \in untold

\* The server has marked, the page has not.
Marking(r) == centreCalls[r].stage = "answered" /\ centreCalls[r].kind \in {"mark", "all"}
Pending == {r \in Centre!InFlight : Marking(r)}

\* What an answer says was so, and of what is read it still is.
AnswerIsTrue(r) ==
    /\ \A a \in Alerts, b \in BOOLEAN :
         <<a, b>> \in centreCalls[r].answer =>
           a \in Centre!Created /\ centreRows[a].visible <= centreClock
                 /\ (b = TRUE => centreRows[a].read)
    /\ centreCalls[r].stage = "answered" /\ centreCalls[r].kind = "all" =>
         \A a \in Alerts, b \in BOOLEAN : <<a, b>> \in centreCalls[r].answer => centreRows[a].read
    /\ centreCalls[r].kind = "mark" =>
         /\ centreCalls[r].of \in Centre!Created
         /\ centreRows[centreCalls[r].of].visible <= centreClock
         /\ centreCalls[r].stage = "answered" => centreRows[centreCalls[r].of].read
AnswersAreTrue == \A r \in Centre!InFlight : AnswerIsTrue(r)

\* A request around which nothing happened is the only one, and its answer is up to date.
CalmIsAlone(r) ==
    centreCalls[r].calm =>
      /\ Centre!InFlight = {r}
      /\ centreCalls[r].stage = "answered" =>
           centreCalls[r].answer = {<<a, centreRows[a].read>> : a \in Centre!Visible(centreClock)}
CalmAreAlone == \A r \in Centre!InFlight : CalmIsAlone(r)

\* The badge: right unless a marking is on its way back, and then it is one too high or
\* something overlapped.
ExactIsExact ==
    exact =>
      /\ pushed \cap DOMAIN shown = {}
      /\ \A r \in Centre!InFlight : centreCalls[r].kind = "mark" => centreCalls[r].of \notin pushed
      /\ Pending = {} => unread = Truth /\ \A a \in pushed : ~centreRows[a].read
      /\ \A r \in Pending : centreCalls[r].calm /\ centreCalls[r].kind = "mark"
           /\ centreCalls[r].of \notin untold =>
           unread = Truth + 1

CentreInv ==
    /\ RowTypes /\ CallTypes /\ PageParts /\ AlertsOnTime /\ AnswersAreTrue /\ CalmAreAlone
    /\ ExactIsExact /\ Centre!ReadIsRead

-----------------------------------------------------------------------------
\* Centre!Cardinality and Cardinality are one operator.
LEMMA CentreCardinality == \A S : Centre!Cardinality(S) = Cardinality(S)
BY Zenon DEF Centre!Cardinality, Cardinality

\* The alerts that are unread are finite in number.
LEMMA UnreadIsFinite ==
    /\ IsFiniteSet(Centre!Unread)
    /\ \A S : IsFiniteSet(Centre!Unread \ S) /\ Cardinality(Centre!Unread \ S) \in Nat
<1>1. \A S : Centre!Unread \ S \subseteq Alerts
  BY DEF Centre!Unread, Centre!Visible, Centre!Created
<1>2. \A S : IsFiniteSet(Centre!Unread \ S)
  BY <1>1, CentreAssumption, FS_Subset
<1>3. Centre!Unread \subseteq Alerts
  BY DEF Centre!Unread, Centre!Visible, Centre!Created
<1> QED BY <1>2, <1>3, CentreAssumption, FS_Subset, FS_CardinalityType

\* What happens elsewhere leaves a request as it is, but for its calm.
Copied(r) ==
    IF centreCalls[r] = None THEN centreCalls'[r] = None
    ELSE /\ centreCalls'[r] \in CallRecord /\ centreCalls'[r] # None
         /\ centreCalls'[r].kind = centreCalls[r].kind /\ centreCalls'[r].of = centreCalls[r].of
         /\ centreCalls'[r].stage = centreCalls[r].stage
         /\ centreCalls'[r].answer = centreCalls[r].answer
         /\ centreCalls'[r].calm = FALSE

\* A request around which something happens differs in being calm only.
LEMMA DisturbedRecord ==
    ASSUME NEW c \in CallRecord
    PROVE  /\ [c EXCEPT !.calm = FALSE] \in CallRecord
           /\ [c EXCEPT !.calm = FALSE] # None
           /\ [c EXCEPT !.calm = FALSE].kind = c.kind /\ [c EXCEPT !.calm = FALSE].of = c.of
           /\ [c EXCEPT !.calm = FALSE].stage = c.stage
           /\ [c EXCEPT !.calm = FALSE].answer = c.answer
           /\ [c EXCEPT !.calm = FALSE].calm = FALSE
<1>1. [c EXCEPT !.calm = FALSE] \in CallRecord
  BY DEF CallRecord
<1>2. [c EXCEPT !.calm = FALSE] # None
  BY <1>1, CentreAssumption DEF CallRecord, CallKinds
<1> QED BY <1>1, <1>2 DEF CallRecord

\* So `Disturbed` copies the request, as a step around it may.
LEMMA CopiedFacts ==
    ASSUME NEW r \in Requests, centreCalls[r] # None => centreCalls[r] \in CallRecord,
           centreCalls'[r] = IF centreCalls[r] # None THEN [centreCalls[r] EXCEPT !.calm = FALSE] ELSE centreCalls[r]
    PROVE  Copied(r)
<1>1. CASE centreCalls[r] = None
  BY <1>1 DEF Copied
<1>2. CASE centreCalls[r] # None
  <2>1. centreCalls[r] \in CallRecord /\ centreCalls'[r] = [centreCalls[r] EXCEPT !.calm = FALSE]
    BY <1>2
  <2>2. /\ centreCalls'[r] \in CallRecord /\ centreCalls'[r] # None
        /\ centreCalls'[r].kind = centreCalls[r].kind /\ centreCalls'[r].of = centreCalls[r].of
        /\ centreCalls'[r].stage = centreCalls[r].stage
        /\ centreCalls'[r].answer = centreCalls[r].answer
        /\ centreCalls'[r].calm = FALSE
    BY <2>1, DisturbedRecord
  <2> QED BY <1>2, <2>2 DEF Copied
<1> QED BY <1>1, <1>2

\* A step of the server or of the stream disturbs all requests and changes no other fact of them.
LEMMA AllDisturbed ==
    ASSUME CallTypes, centreCalls' = Centre!Disturbed({})
    PROVE  CallTypes' /\ \A r \in Requests : Copied(r)
<1>1. \A r \in Requests :
        centreCalls'[r] = IF centreCalls[r] # None THEN [centreCalls[r] EXCEPT !.calm = FALSE] ELSE centreCalls[r]
  BY DEF Centre!Disturbed, Centre!InFlight
<1>2. \A r \in Requests : centreCalls[r] # None => centreCalls[r] \in CallRecord
  BY DEF CallTypes
<1>3. \A r \in Requests : Copied(r)
  BY <1>1, <1>2, CopiedFacts
<1>4. \A r \in Requests : centreCalls'[r] \in CallRecord \cup {None}
  BY <1>3 DEF Copied
<1>5. centreCalls' = [r \in Requests |-> centreCalls'[r]]
  BY DEF Centre!Disturbed
<1> QED BY <1>3, <1>4, <1>5 DEF CallTypes

\* A step of one request sets that request and disturbs the others.
LEMMA OthersDisturbed ==
    ASSUME CallTypes, NEW r \in Requests, NEW c \in CallRecord \cup {None},
           NEW e \in SUBSET {r}, centreCalls' = [Centre!Disturbed(e) EXCEPT ![r] = c]
    PROVE  CallTypes' /\ centreCalls'[r] = c /\ \A s \in Requests \ {r} : Copied(s)
<1>1. \A s \in Requests \ {r} :
        centreCalls'[s] = IF centreCalls[s] # None THEN [centreCalls[s] EXCEPT !.calm = FALSE] ELSE centreCalls[s]
  BY DEF Centre!Disturbed, Centre!InFlight
<1>2. \A s \in Requests : centreCalls[s] # None => centreCalls[s] \in CallRecord
  BY DEF CallTypes
<1>3. \A s \in Requests \ {r} : Copied(s)
  BY <1>1, <1>2, CopiedFacts
<1>4. centreCalls'[r] = c
  BY DEF Centre!Disturbed
<1>5. \A s \in Requests : centreCalls'[s] \in CallRecord \cup {None}
  BY <1>3, <1>4 DEF Copied
<1>6. centreCalls' = [s \in Requests |-> centreCalls'[s]]
  BY DEF Centre!Disturbed
<1> QED BY <1>3, <1>4, <1>5, <1>6 DEF CallTypes

\* Rows are added and marked, and keep their time.
RowsGrow ==
    /\ centreClock <= centreClock' /\ centreClock \in Int /\ centreClock' \in Int
    /\ \A a \in Alerts : centreRows[a] # None =>
         /\ centreRows'[a] # None /\ centreRows'[a].visible = centreRows[a].visible
         /\ centreRows[a].visible \in Int
         /\ centreRows[a].read => centreRows'[a].read

\* A request left alone stays true, and is calm no more.
LEMMA CopiedKeeps ==
    ASSUME RowsGrow, AnswersAreTrue, NEW r \in Requests, Copied(r), centreCalls'[r] # None
    PROVE  AnswerIsTrue(r)' /\ CalmIsAlone(r)'
<1>1. centreCalls[r] # None /\ AnswerIsTrue(r)
  BY DEF Copied, AnswersAreTrue, Centre!InFlight
<1>2. /\ centreCalls'[r].kind = centreCalls[r].kind /\ centreCalls'[r].of = centreCalls[r].of
      /\ centreCalls'[r].stage = centreCalls[r].stage
      /\ centreCalls'[r].answer = centreCalls[r].answer
      /\ centreCalls'[r].calm = FALSE
  BY <1>1 DEF Copied
<1>3. \A a \in Alerts : a \in Centre!Created => a \in Centre!Created'
        /\ (centreRows[a].visible <= centreClock => centreRows'[a].visible <= centreClock')
                                         /\ (centreRows[a].read => centreRows'[a].read)
  BY DEF RowsGrow, Centre!Created
<1>4. AnswerIsTrue(r)'
  BY <1>1, <1>2, <1>3 DEF AnswerIsTrue, Centre!Created
<1> QED BY <1>2, <1>4 DEF CalmIsAlone

\* Steps around the requests: none stays calm, and the answers under way stay true.
LEMMA DisturbedKeeps ==
    ASSUME RowsGrow, AnswersAreTrue, \A r \in Requests : Copied(r) \/ centreCalls'[r] = None
    PROVE  AnswersAreTrue' /\ CalmAreAlone'
<1> SUFFICES ASSUME NEW r \in Requests, centreCalls'[r] # None
             PROVE  AnswerIsTrue(r)' /\ CalmIsAlone(r)'
  BY DEF AnswersAreTrue, CalmAreAlone, Centre!InFlight
<1> QED BY CopiedKeeps

\* What the requests ask of the badge when they are left alone.
LEMMA CopiedRequests ==
    ASSUME \A r \in Requests : Copied(r)
    PROVE  /\ Centre!InFlight' = Centre!InFlight /\ Pending' = Pending
           /\ \A r \in Centre!InFlight : centreCalls'[r].kind = centreCalls[r].kind
                /\ centreCalls'[r].of = centreCalls[r].of
                                  /\ centreCalls'[r].calm = FALSE
BY DEF Centre!InFlight, Pending, Marking, Copied

\* A row that is written now is for now, but at night.
LEMMA VisibleAtFacts ==
    ASSUME centreClock \in 0..MaxClock
    PROVE  /\ Centre!VisibleAt(centreClock) \in Int
           /\ ~Centre!Night(centreClock) => Centre!VisibleAt(centreClock) = centreClock
<1>1. centreClock \in Int /\ SlotsPerDay \in Int /\ SlotsPerDay > 0 /\ QuietEnd \in Int
  BY CentreAssumption
<1>2. Centre!Day(centreClock) \in Int
  BY <1>1 DEF Centre!Day
<1>3. \A d \in {0, 1} : (Centre!Day(centreClock) + d) * SlotsPerDay + QuietEnd \in Int
  BY <1>1, <1>2
<1> QED BY <1>1, <1>3 DEF Centre!VisibleAt

\* A new row: a push at once, or at night a badge that hears of it with the next count.
LEMMA CreateKeeps == ASSUME CentreInv, NEW a \in Alerts, Centre!Create(a) PROVE CentreInv'
<1> DEFINE new == [visible |-> Centre!VisibleAt(centreClock), read |-> FALSE]
<1>1. /\ centreRows[a] = None /\ centreRows' = [centreRows EXCEPT ![a] = new]
      /\ centreCalls' = Centre!Disturbed({})
      /\ UNCHANGED <<centreClock, askedFor, shown, unread, late, exact>>
  BY DEF Centre!Create
<1>2. \/ Centre!Night(centreClock) /\ untold' = untold \cup {a} /\ pushed' = pushed
      \/ ~Centre!Night(centreClock) /\ pushed' = pushed \cup {a} /\ untold' = untold
  BY DEF Centre!Create
<1>3. new \in RowRecord /\ new # None
  <2>1. new \in RowRecord
    BY VisibleAtFacts DEF RowRecord, CentreInv, RowTypes
  <2> QED BY <2>1, CentreAssumption DEF RowRecord
<1>4. /\ centreRows' \in [Alerts -> RowRecord \cup {None}] /\ centreRows'[a] = new
      /\ \A b \in Alerts \ {a} : centreRows'[b] = centreRows[b]
  BY <1>1, <1>3 DEF CentreInv, RowTypes
<1> HIDE DEF new
<1>5. new.visible = Centre!VisibleAt(centreClock) /\ new.read = FALSE
  BY DEF new
<1>6. Centre!Created' = Centre!Created \cup {a} /\ a \notin Centre!Created
  BY <1>1, <1>3, <1>4 DEF Centre!Created
<1>7. RowTypes'
  BY <1>1, <1>4 DEF CentreInv, RowTypes
<1>8. CallTypes' /\ \A r \in Requests : Copied(r)
  BY <1>1, AllDisturbed DEF CentreInv
<1>9. RowsGrow
  <2>1. centreClock \in Int /\ centreClock' = centreClock
    BY <1>1 DEF CentreInv, RowTypes
  <2>2. \A b \in Alerts : centreRows[b] # None => b # a /\ centreRows'[b] = centreRows[b]
          /\ centreRows[b] \in RowRecord
    BY <1>1, <1>4 DEF CentreInv, RowTypes
  <2> QED BY <2>1, <2>2 DEF RowsGrow, RowRecord
<1>10. AnswersAreTrue' /\ CalmAreAlone'
  BY <1>8, <1>9, DisturbedKeeps DEF CentreInv
<1>11. PageParts'
  BY <1>1, <1>2, <1>6 DEF CentreInv, PageParts
<1>12. AlertsOnTime'
  <2>1. \A b \in Centre!Created : b # a /\ centreRows'[b] = centreRows[b]
    BY <1>4, <1>6 DEF Centre!Created
  <2>2. centreClock' = centreClock /\ (a \in pushed' => centreRows'[a].visible <= centreClock)
        /\ (centreRows'[a].visible > centreClock => a \in untold') /\ centreRows'[a].read = FALSE
    <3>1. centreClock \in Int
      BY DEF CentreInv, RowTypes
    <3>2. a \notin pushed
      BY <1>6 DEF CentreInv, PageParts
    <3> QED BY <1>1, <1>2, <1>4, <1>5, <3>1, <3>2, VisibleAtFacts DEF CentreInv, RowTypes
  <2>3. pushed' \cup DOMAIN shown' \subseteq (pushed \cup DOMAIN shown) \cup (pushed' \cap {a})
    BY <1>1, <1>2
  <2>4. pushed \cup DOMAIN shown \subseteq Centre!Created /\ a \notin DOMAIN shown
          /\ untold \subseteq untold'
    BY <1>2, <1>6 DEF CentreInv, PageParts
  <2>5. \A b \in pushed' \cup DOMAIN shown' : centreRows'[b].visible <= centreClock'
    BY <1>1, <2>1, <2>2, <2>3, <2>4 DEF CentreInv, AlertsOnTime
  <2>6. \A b \in Centre!Created' : centreRows'[b].read => centreRows'[b].visible <= centreClock'
    BY <1>6, <2>1, <2>2 DEF CentreInv, AlertsOnTime
  <2>7. \A b \in Centre!Created' : centreRows'[b].visible > centreClock' => b \in untold'
    BY <1>6, <2>1, <2>2, <2>4 DEF CentreInv, AlertsOnTime
  <2> QED BY <2>5, <2>6, <2>7 DEF AlertsOnTime
<1>13. Truth' = Truth
  <2>1. (Centre!Unread \ (pushed \cup untold))' = Centre!Unread \ (pushed \cup untold)
    <3>1. \A b \in Centre!Created : b # a /\ centreRows'[b] = centreRows[b]
      BY <1>4, <1>6 DEF Centre!Created
    <3>2. a \in pushed' \cup untold' /\ pushed' \cup untold' = pushed \cup untold \cup {a}
      BY <1>2
    <3>3. Centre!Unread' \ {a} = Centre!Unread \ {a}
      BY <1>1, <1>6, <3>1 DEF Centre!Unread, Centre!Visible
    <3>4. a \notin Centre!Unread
      BY <1>6 DEF Centre!Unread, Centre!Visible
    <3> QED BY <3>2, <3>3, <3>4
  <2> QED BY <2>1 DEF Truth
<1>14. ExactIsExact'
  <2> SUFFICES ASSUME exact' PROVE ExactIsExact'
    BY DEF ExactIsExact
  <2>1. exact /\ ExactIsExact
    BY <1>1 DEF CentreInv
  <2>2. /\ Centre!InFlight' = Centre!InFlight /\ Pending' = Pending
        /\ \A r \in Centre!InFlight : centreCalls'[r].kind = centreCalls[r].kind
             /\ centreCalls'[r].of = centreCalls[r].of
                               /\ centreCalls'[r].calm = FALSE
    BY <1>8, CopiedRequests
  <2>3. pushed' \cap DOMAIN shown' = {}
    BY <1>1, <1>2, <1>6, <2>1 DEF ExactIsExact, CentreInv, PageParts
  <2>4. ASSUME NEW r \in Centre!InFlight, centreCalls[r].kind = "mark"
          PROVE centreCalls[r].of \notin pushed'
    <3>1. centreCalls[r].of \in Centre!Created /\ centreCalls[r].of \notin pushed
      BY <2>1, <2>4 DEF ExactIsExact, CentreInv, AnswersAreTrue, AnswerIsTrue
    <3> QED BY <1>2, <1>6, <3>1
  <2>5. ASSUME Pending = {} PROVE unread' = Truth' /\ \A b \in pushed' : ~centreRows'[b].read
    <3>1. unread = Truth /\ \A b \in pushed : ~centreRows[b].read
      BY <2>1, <2>5 DEF ExactIsExact
    <3>2. \A b \in pushed : b # a /\ centreRows'[b] = centreRows[b]
      BY <1>4, <1>6 DEF CentreInv, PageParts, Centre!Created
    <3>3. centreRows'[a].read = FALSE
      BY <1>4, <1>5
    <3> QED BY <1>1, <1>2, <1>13, <3>1, <3>2, <3>3
  <2>6. \A r \in Pending' : ~centreCalls'[r].calm
    BY <2>2 DEF Pending
  <2> QED BY <2>2, <2>3, <2>4, <2>5, <2>6 DEF ExactIsExact
<1>15. Centre!ReadIsRead'
  <2>1. \A b \in DOMAIN shown : centreRows'[b] = centreRows[b]
    BY <1>4, <1>6 DEF CentreInv, PageParts, Centre!Created
  <2> QED BY <1>1, <2>1 DEF CentreInv, Centre!ReadIsRead
<1> QED BY <1>7, <1>8, <1>10, <1>11, <1>12, <1>14, <1>15 DEF CentreInv

\* Steps that change no row: the answers stay true if time does not go back.
LEMMA SameRows ==
    ASSUME CentreInv, centreRows' = centreRows, centreClock' \in 0..MaxClock,
          centreClock <= centreClock'
    PROVE  RowsGrow /\ Centre!Created' = Centre!Created
<1>1. centreClock \in Int /\ centreClock' \in Int
  BY DEF CentreInv, RowTypes
<1>2. \A b \in Alerts : centreRows[b] # None => centreRows[b].visible \in Int
  BY DEF CentreInv, RowTypes, RowRecord
<1> QED BY <1>1, <1>2 DEF RowsGrow, Centre!Created

\* A push arrives: the badge counts it, unless the list brought it already.
LEMMA ReceiveKeeps == ASSUME CentreInv, NEW a \in Alerts, Centre!Receive(a) PROVE CentreInv'
<1>1. /\ a \in pushed /\ pushed' = pushed \ {a} /\ centreCalls' = Centre!Disturbed({})
      /\ exact' = (exact /\ Centre!InFlight = {})
      /\ UNCHANGED <<centreClock, askedFor, centreRows, late, untold>>
  BY DEF Centre!Receive
<1>2. \/ a \in DOMAIN shown /\ shown' = shown /\ unread' = unread
      \/ /\ a \notin DOMAIN shown /\ unread' = unread + 1
         /\ shown' = [b \in DOMAIN shown \cup {a} |-> IF b = a THEN FALSE ELSE shown[b]]
  BY DEF Centre!Receive
<1>3. RowsGrow /\ Centre!Created' = Centre!Created
  BY <1>1, SameRows DEF CentreInv, RowTypes
<1>4. CallTypes' /\ \A r \in Requests : Copied(r)
  BY <1>1, AllDisturbed DEF CentreInv
<1>5. AnswersAreTrue' /\ CalmAreAlone'
  BY <1>3, <1>4, DisturbedKeeps DEF CentreInv
<1>6. RowTypes'
  BY <1>1 DEF CentreInv, RowTypes
<1>7. DOMAIN shown' = DOMAIN shown \cup {a}
  BY <1>2
<1>8. PageParts'
  <2>1. unread' \in Nat
    <3>1. unread \in Nat /\ (unread' = unread \/ unread' = unread + 1)
      BY <1>2 DEF CentreInv, PageParts
    <3> QED BY <3>1
  <2>2. DOMAIN shown' \subseteq Centre!Created' /\ late' \subseteq DOMAIN shown'
    BY <1>1, <1>3, <1>7 DEF CentreInv, PageParts
  <2> QED BY <1>1, <1>3, <2>1, <2>2 DEF CentreInv, PageParts
<1>9. AlertsOnTime'
  <2>1. pushed' \cup DOMAIN shown' \subseteq pushed \cup DOMAIN shown
    BY <1>1, <1>7
  <2> QED BY <1>1, <1>3, <2>1 DEF CentreInv, AlertsOnTime
<1>10. Centre!ReadIsRead'
  <2>1. \A b \in DOMAIN shown' : shown'[b] => b \in DOMAIN shown /\ shown[b]
    BY <1>2
  <2> QED BY <1>1, <2>1 DEF CentreInv, Centre!ReadIsRead
<1>11. ExactIsExact'
  <2> SUFFICES ASSUME exact' PROVE ExactIsExact'
    BY DEF ExactIsExact
  <2>1. exact /\ Centre!InFlight = {} /\ ExactIsExact
    BY <1>1 DEF CentreInv
  <2>2. Centre!InFlight' = {} /\ Pending' = {} /\ Pending = {}
    BY <1>4, <2>1, CopiedRequests DEF Pending
  <2>3. /\ unread = Truth /\ \A b \in pushed : ~centreRows[b].read
        /\ pushed \cap DOMAIN shown = {}
    BY <2>1, <2>2 DEF ExactIsExact
  <2>4. unread' = unread + 1
    BY <1>1, <1>2, <2>3
  <2>5. Truth' = Truth + 1
    <3>1. a \in Centre!Unread
      BY <1>1, <2>3 DEF CentreInv, PageParts, AlertsOnTime, Centre!Unread, Centre!Visible
    <3>2. a \notin untold
      BY <1>1 DEF CentreInv, PageParts
    <3>3. Centre!Unread' = Centre!Unread
      BY <1>1, <1>3 DEF Centre!Unread, Centre!Visible
    <3>4. /\ (Centre!Unread \ (pushed \cup untold))' = (Centre!Unread \ (pushed \cup untold))
               \cup {a}
          /\ a \notin Centre!Unread \ (pushed \cup untold)
      BY <1>1, <3>1, <3>2, <3>3
    <3> DEFINE before == Centre!Unread \ (pushed \cup untold)
    <3>5. IsFiniteSet(before) /\ Cardinality(before) \in Nat
      BY UnreadIsFinite
    <3> HIDE DEF before
    <3>6. Cardinality(before \cup {a}) = Cardinality(before) + 1
      BY <3>4, <3>5, FS_AddElement DEF before
    <3>7. Truth = Cardinality(before)
      BY DEF Truth, before
    <3>8. (Centre!Unread \ (pushed \cup untold))' = before \cup {a}
      BY <3>4 DEF before
    <3>9. Truth' = Cardinality(before \cup {a})
      BY <3>8 DEF Truth
    <3> QED BY <3>6, <3>7, <3>9
  <2>6. pushed' \cap DOMAIN shown' = {}
    BY <1>1, <1>7, <2>3
  <2>7. \A b \in pushed' : ~centreRows'[b].read
    BY <1>1, <2>3
  <2> QED BY <2>2, <2>3, <2>4, <2>5, <2>6, <2>7 DEF ExactIsExact
<1> QED BY <1>4, <1>5, <1>6, <1>8, <1>9, <1>10, <1>11 DEF CentreInv

\* A push that is lost leaves the badge as right as it was.
LEMMA LoseKeeps == ASSUME CentreInv, NEW a \in Alerts, Centre!Lose(a) PROVE CentreInv'
<1>1. /\ a \in pushed /\ pushed' = pushed \ {a} /\ untold' = untold \cup {a}
      /\ centreCalls' = Centre!Disturbed({})
      /\ UNCHANGED <<centreClock, askedFor, centreRows, shown, unread, late, exact>>
  BY DEF Centre!Lose
<1>2. RowsGrow /\ Centre!Created' = Centre!Created
  BY <1>1, SameRows DEF CentreInv, RowTypes
<1>3. CallTypes' /\ \A r \in Requests : Copied(r)
  BY <1>1, AllDisturbed DEF CentreInv
<1>4. AnswersAreTrue' /\ CalmAreAlone'
  BY <1>2, <1>3, DisturbedKeeps DEF CentreInv
<1>5. RowTypes' /\ PageParts' /\ Centre!ReadIsRead'
  BY <1>1, <1>2 DEF CentreInv, RowTypes, PageParts, Centre!ReadIsRead
<1>6. AlertsOnTime'
  BY <1>1, <1>2 DEF CentreInv, AlertsOnTime
<1>7. Truth' = Truth
  <2>1. Centre!Unread' = Centre!Unread /\ pushed' \cup untold' = pushed \cup untold
    BY <1>1, <1>2 DEF Centre!Unread, Centre!Visible
  <2> QED BY <2>1 DEF Truth
<1>8. ExactIsExact'
  <2> SUFFICES ASSUME exact' PROVE ExactIsExact'
    BY DEF ExactIsExact
  <2>1. exact /\ ExactIsExact
    BY <1>1 DEF CentreInv
  <2>2. /\ Centre!InFlight' = Centre!InFlight /\ Pending' = Pending
        /\ \A r \in Centre!InFlight : centreCalls'[r].kind = centreCalls[r].kind
             /\ centreCalls'[r].of = centreCalls[r].of
                               /\ centreCalls'[r].calm = FALSE
    BY <1>3, CopiedRequests
  <2>3. \A r \in Pending' : ~centreCalls'[r].calm
    BY <2>2 DEF Pending
  <2>4. pushed' \subseteq pushed
    BY <1>1
  <2> QED BY <1>1, <1>7, <2>1, <2>2, <2>3, <2>4 DEF ExactIsExact
<1> QED BY <1>3, <1>4, <1>5, <1>6, <1>8 DEF CentreInv

\* What becomes visible with time is what the badge has not heard of.
LEMMA TickKeeps == ASSUME CentreInv, Centre!Tick PROVE CentreInv'
<1>1. /\ centreClock < MaxClock /\ centreClock' = centreClock + 1
      /\ centreCalls' = Centre!Disturbed({})
      /\ UNCHANGED <<askedFor, centreRows, pushed, shown, unread, late, untold, exact>>
  BY DEF Centre!Tick
<1>2. centreClock' \in 0..MaxClock /\ centreClock \in Int /\ centreClock <= centreClock'
  BY <1>1, CentreAssumption DEF CentreInv, RowTypes
<1>3. RowsGrow /\ Centre!Created' = Centre!Created
  BY <1>1, <1>2, SameRows
<1>4. CallTypes' /\ \A r \in Requests : Copied(r)
  BY <1>1, AllDisturbed DEF CentreInv
<1>5. AnswersAreTrue' /\ CalmAreAlone'
  BY <1>3, <1>4, DisturbedKeeps DEF CentreInv
<1>6. RowTypes' /\ PageParts' /\ Centre!ReadIsRead'
  BY <1>1, <1>2, <1>3 DEF CentreInv, RowTypes, PageParts, Centre!ReadIsRead
<1>7. \A b \in Centre!Created : centreRows[b].visible \in Int
  BY DEF CentreInv, RowTypes, RowRecord, Centre!Created
<1>8. AlertsOnTime'
  <2>1. pushed \cup DOMAIN shown \subseteq Centre!Created
    BY DEF CentreInv, PageParts
  <2>2. \A b \in Centre!Created :
          (centreRows[b].visible <= centreClock => centreRows[b].visible <= centreClock')
                           /\ (centreRows[b].visible > centreClock' =>
                                centreRows[b].visible > centreClock)
    BY <1>1, <1>2, <1>7
  <2> QED BY <1>1, <1>3, <2>1, <2>2 DEF CentreInv, AlertsOnTime
<1>9. Truth' = Truth
  <2>1. ASSUME NEW b \in Centre!Created, b \notin untold
        PROVE  centreRows[b].visible <= centreClock /\ centreRows[b].visible <= centreClock'
    BY <1>2, <1>7, <2>1 DEF CentreInv, AlertsOnTime
  <2>2. (Centre!Unread \ (pushed \cup untold))' = Centre!Unread \ (pushed \cup untold)
    BY <1>1, <1>3, <2>1 DEF Centre!Unread, Centre!Visible
  <2> QED BY <2>2 DEF Truth
<1>10. ExactIsExact'
  <2> SUFFICES ASSUME exact' PROVE ExactIsExact'
    BY DEF ExactIsExact
  <2>1. exact /\ ExactIsExact
    BY <1>1 DEF CentreInv
  <2>2. /\ Centre!InFlight' = Centre!InFlight /\ Pending' = Pending
        /\ \A r \in Centre!InFlight : centreCalls'[r].kind = centreCalls[r].kind
             /\ centreCalls'[r].of = centreCalls[r].of
                               /\ centreCalls'[r].calm = FALSE
    BY <1>4, CopiedRequests
  <2>3. \A r \in Pending' : ~centreCalls'[r].calm
    BY <2>2 DEF Pending
  <2> QED BY <1>1, <1>9, <2>1, <2>2, <2>3 DEF ExactIsExact
<1> QED BY <1>4, <1>5, <1>6, <1>8, <1>10 DEF CentreInv

\* A request begins calm if it is alone.
LEMMA AskKeeps ==
    ASSUME CentreInv, NEW r \in Requests, NEW kind \in CallKinds, NEW a \in Alerts \cup {None},
           kind = "mark" => a \in Alerts, Centre!Ask(r, kind, a)
    PROVE  CentreInv'
<1> DEFINE c == [kind |-> kind, of |-> a, stage |-> "asked", answer |-> {},
      calm |-> Centre!InFlight = {}]
<1>1. /\ centreCalls[r] = None /\ askedFor < MaxAsked /\ askedFor' = askedFor + 1
      /\ kind = "mark" => a \in DOMAIN shown
      /\ centreCalls' = [Centre!Disturbed({}) EXCEPT ![r] = c]
      /\ UNCHANGED <<centreClock, centreRows, pushed, shown, unread, late, untold, exact>>
  BY DEF Centre!Ask
<1>2. (Centre!InFlight = {}) \in BOOLEAN
  BY Zenon
<1>3. c \in CallRecord
  BY <1>2 DEF CallRecord
<1>4. c # None
  BY <1>3, CentreAssumption DEF CallRecord, CallKinds
<1>5. /\ c.kind = kind /\ c.of = a /\ c.stage = "asked" /\ c.answer = {}
      /\ (c.calm => Centre!InFlight = {})
  OBVIOUS
<1> HIDE DEF c
<1>6. CallTypes' /\ centreCalls'[r] = c /\ \A s \in Requests \ {r} : Copied(s)
  BY <1>1, <1>3, OthersDisturbed DEF CentreInv
<1>7. RowsGrow /\ Centre!Created' = Centre!Created
  BY <1>1, SameRows DEF CentreInv, RowTypes
<1>8. Centre!InFlight' = Centre!InFlight \cup {r} /\ r \notin Centre!InFlight /\ Pending' = Pending
  BY <1>1, <1>4, <1>5, <1>6 DEF Centre!InFlight, Copied, Pending, Marking
<1>9. kind = "mark" => a \in Centre!Created /\ centreRows[a].visible <= centreClock
  BY <1>1 DEF CentreInv, PageParts, AlertsOnTime
<1>10. AnswersAreTrue' /\ CalmAreAlone'
  <2> SUFFICES ASSUME NEW s \in Centre!InFlight' PROVE AnswerIsTrue(s)' /\ CalmIsAlone(s)'
    BY DEF AnswersAreTrue, CalmAreAlone
  <2>1. CASE s = r
    <3>1. AnswerIsTrue(s)'
      BY <1>1, <1>5, <1>6, <1>7, <1>9, <2>1 DEF AnswerIsTrue
    <3>2. CalmIsAlone(s)'
      BY <1>5, <1>6, <1>8, <2>1 DEF CalmIsAlone
    <3> QED BY <3>1, <3>2
  <2>2. CASE s # r
    BY <1>6, <1>7, <2>2, CopiedKeeps DEF CentreInv, Centre!InFlight
  <2> QED BY <2>1, <2>2
<1>11. RowTypes' /\ PageParts' /\ Centre!ReadIsRead' /\ AlertsOnTime'
  BY <1>1, <1>7, CentreAssumption DEF CentreInv, RowTypes, PageParts, Centre!ReadIsRead,
        AlertsOnTime
<1>12. ExactIsExact'
  <2> SUFFICES ASSUME exact' PROVE ExactIsExact'
    BY DEF ExactIsExact
  <2>1. exact /\ ExactIsExact
    BY <1>1 DEF CentreInv
  <2>2. Truth' = Truth
    BY <1>1, <1>7 DEF Truth, Centre!Unread, Centre!Visible
  <2>3. \A s \in Centre!InFlight : s \in Requests \ {r} /\ centreCalls[s] # None
    BY <1>8 DEF Centre!InFlight
  <2>4. \A s \in Centre!InFlight : centreCalls'[s].kind = centreCalls[s].kind
          /\ centreCalls'[s].of = centreCalls[s].of
                            /\ centreCalls'[s].calm = FALSE
    BY <1>6, <2>3 DEF Copied
  <2>5. \A s \in Centre!InFlight' : centreCalls'[s].kind = "mark" =>
          centreCalls'[s].of \notin pushed'
    <3>1. kind = "mark" => a \notin pushed
      BY <1>1, <2>1 DEF ExactIsExact
    <3> QED BY <1>1, <1>5, <1>6, <1>8, <2>1, <2>4, <3>1 DEF ExactIsExact
  <2>6. \A s \in Pending' : ~centreCalls'[s].calm
    BY <1>8, <2>4 DEF Pending
  <2> QED BY <1>1, <1>8, <2>1, <2>2, <2>5, <2>6 DEF ExactIsExact
<1> QED BY <1>6, <1>10, <1>11, <1>12 DEF CentreInv

\* The server's half of a request changes one request and marks rows.
LEMMA ServeKeeps == ASSUME CentreInv, NEW r \in Requests, Centre!Serve(r) PROVE CentreInv'
<1> DEFINE marked == Centre!Marked(centreCalls[r])
           calm == centreCalls[r].calm
                 /\ (centreCalls[r].kind = "mark" => ~centreRows[centreCalls[r].of].read)
           answer == {<<a, centreRows'[a].read>> : a \in Centre!Visible(centreClock)}
           c == [centreCalls[r] EXCEPT !.stage = "answered", !.calm = calm, !.answer = answer]
<1>1. /\ centreCalls[r] # None /\ centreCalls[r].stage = "asked" /\ centreCalls[r] \in CallRecord
      /\ r \in Centre!InFlight
      /\ UNCHANGED <<centreClock, askedFor, pushed, shown, unread, late, untold, exact>>
  BY DEF Centre!Serve, CentreInv, CallTypes, Centre!InFlight
<1>2. AnswerIsTrue(r) /\ CalmIsAlone(r) /\ \A s \in Centre!InFlight : CalmIsAlone(s)
  BY <1>1 DEF CentreInv, AnswersAreTrue, CalmAreAlone
<1>3. marked \subseteq Centre!Created /\ \A a \in marked : centreRows[a].visible <= centreClock
  BY <1>1, <1>2 DEF Centre!Marked, AnswerIsTrue, Centre!Visible
<1>4. centreCalls[r].kind \in {"list", "count"} => marked = {}
  BY DEF Centre!Marked
<1>5. \A a \in Alerts :
        centreRows'[a] = IF a \in marked THEN [centreRows[a] EXCEPT !.read = TRUE] ELSE centreRows[a]
  BY DEF Centre!Serve
<1>6. centreRows' = [a \in Alerts |-> centreRows'[a]]
  BY DEF Centre!Serve
<1>7. \A a \in Centre!Created : centreRows[a] \in RowRecord
  BY DEF CentreInv, RowTypes, Centre!Created
<1>8. \A a \in marked : centreRows'[a] \in RowRecord
        /\ centreRows'[a].visible = centreRows[a].visible /\ centreRows'[a].read = TRUE
  BY <1>3, <1>5, <1>7 DEF RowRecord, Centre!Created
<1>9. \A a \in Alerts \ marked : centreRows'[a] = centreRows[a]
  BY <1>5
<1> HIDE DEF marked
<1>10. \A a \in Alerts : centreRows'[a] \in RowRecord \cup {None}
  BY <1>8, <1>9 DEF CentreInv, RowTypes
<1>11. RowTypes'
  BY <1>1, <1>6, <1>10 DEF CentreInv, RowTypes
<1>12. None \notin RowRecord
  BY CentreAssumption DEF RowRecord
<1>13. Centre!Created' = Centre!Created
  BY <1>3, <1>7, <1>8, <1>9, <1>12 DEF Centre!Created
<1>14. /\ \A a \in Centre!Created : centreRows'[a] \in RowRecord
            /\ centreRows'[a].visible = centreRows[a].visible
                             /\ (centreRows[a].read => centreRows'[a].read)
       /\ Centre!Visible(centreClock)' = Centre!Visible(centreClock)
  <2>1. \A a \in Centre!Created : centreRows'[a] \in RowRecord
          /\ centreRows'[a].visible = centreRows[a].visible
                           /\ (centreRows[a].read => centreRows'[a].read)
    BY <1>7, <1>8, <1>9 DEF Centre!Created
  <2>2. Centre!Visible(centreClock)' = Centre!Visible(centreClock)
    BY <1>1, <1>13, <2>1 DEF Centre!Visible
  <2> QED BY <2>1, <2>2
<1>15. RowsGrow
  <2>1. centreClock \in Int /\ centreClock' = centreClock
    BY <1>1 DEF CentreInv, RowTypes
  <2>2. \A a \in Alerts : centreRows[a] # None => centreRows'[a] # None
          /\ centreRows[a].visible \in Int
    BY <1>7, <1>13 DEF Centre!Created, RowRecord
  <2> QED BY <1>14, <2>1, <2>2 DEF RowsGrow, Centre!Created
<1>16. calm \in BOOLEAN
  BY Zenon
<1>17. answer \in SUBSET (Alerts \X BOOLEAN)
  BY <1>14 DEF Centre!Visible, Centre!Created, RowRecord
<1>18. centreCalls' = [Centre!Disturbed({r}) EXCEPT ![r] = c]
  <2>1. Centre!Disturbed({r})[r] = centreCalls[r]
    BY DEF Centre!Disturbed
  <2> QED BY <2>1 DEF Centre!Serve
<1> HIDE DEF calm, answer
<1>19. /\ c \in CallRecord /\ c.kind = centreCalls[r].kind /\ c.of = centreCalls[r].of
       /\ c.stage = "answered" /\ c.calm = calm /\ c.answer = answer
  BY <1>1, <1>16, <1>17 DEF CallRecord
<1>20. c # None
  BY <1>19, CentreAssumption DEF CallRecord, CallKinds
<1> HIDE DEF c
<1>21. CallTypes' /\ centreCalls'[r] = c /\ \A s \in Requests \ {r} : Copied(s)
  BY <1>18, <1>19, OthersDisturbed DEF CentreInv
<1>22. Centre!InFlight' = Centre!InFlight
  BY <1>1, <1>20, <1>21 DEF Centre!InFlight, Copied
<1>23. AnswerIsTrue(r)'
  <2>1. ASSUME NEW a \in Alerts, NEW b \in BOOLEAN, <<a, b>> \in answer
        PROVE  a \in Centre!Visible(centreClock) /\ b = centreRows'[a].read
    BY <2>1 DEF answer
  <2>2. centreCalls[r].kind = "all" => Centre!Visible(centreClock) = marked
    BY DEF marked, Centre!Marked
  <2>3. centreCalls[r].kind = "mark" => marked = {centreCalls[r].of}
    BY DEF marked, Centre!Marked
  <2>4. \A a \in Centre!Visible(centreClock) : a \in Centre!Created
          /\ centreRows'[a].visible <= centreClock
    BY <1>14 DEF Centre!Visible
  <2>5. \A a \in Alerts, b \in BOOLEAN : <<a, b>> \in answer =>
          a \in Centre!Created /\ centreRows'[a].visible <= centreClock
                /\ (b = TRUE => centreRows'[a].read)
    BY <2>1, <2>4
  <2>6. centreCalls[r].kind = "all" => \A a \in Alerts, b \in BOOLEAN : <<a, b>> \in answer =>
          centreRows'[a].read
    BY <1>8, <2>1, <2>2
  <2>7. centreCalls[r].kind = "mark" =>
          centreCalls[r].of \in Centre!Created
                /\ centreRows'[centreCalls[r].of].visible <= centreClock
                /\ centreRows'[centreCalls[r].of].read
    BY <1>3, <1>8, <2>3
  <2> QED BY <1>1, <1>13, <1>19, <1>21, <2>5, <2>6, <2>7 DEF AnswerIsTrue
<1>24. CalmIsAlone(r)'
  <2>1. calm => Centre!InFlight = {r}
    BY <1>2 DEF CalmIsAlone, calm
  <2>2. answer = {<<a, centreRows'[a].read>> : a \in Centre!Visible(centreClock)'}
    BY <1>14 DEF answer
  <2> QED BY <1>19, <1>21, <1>22, <2>1, <2>2 DEF CalmIsAlone
<1>25. AnswersAreTrue' /\ CalmAreAlone'
  <2> SUFFICES ASSUME NEW s \in Centre!InFlight' PROVE AnswerIsTrue(s)' /\ CalmIsAlone(s)'
    BY DEF AnswersAreTrue, CalmAreAlone
  <2>1. CASE s = r
    BY <1>23, <1>24, <2>1
  <2>2. CASE s # r
    BY <1>15, <1>21, <2>2, CopiedKeeps DEF CentreInv, Centre!InFlight
  <2> QED BY <2>1, <2>2
<1>26. PageParts'
  BY <1>1, <1>13 DEF CentreInv, PageParts
<1>27. AlertsOnTime'
  <2>1. pushed \cup DOMAIN shown \subseteq Centre!Created
    BY DEF CentreInv, PageParts
  <2>2. \A a \in Centre!Created : centreRows'[a].read => centreRows'[a].visible <= centreClock
    BY <1>3, <1>8, <1>9, <1>14 DEF CentreInv, AlertsOnTime, Centre!Created
  <2> QED BY <1>1, <1>13, <1>14, <2>1, <2>2 DEF CentreInv, AlertsOnTime
<1>28. Centre!ReadIsRead'
  BY <1>1, <1>14 DEF CentreInv, PageParts, Centre!ReadIsRead
<1>29. ExactIsExact'
  <2> SUFFICES ASSUME exact' PROVE ExactIsExact'
    BY DEF ExactIsExact
  <2>1. exact /\ ExactIsExact
    BY <1>1 DEF CentreInv
  <2>2. \A s \in Centre!InFlight \ {r} : centreCalls'[s].kind = centreCalls[s].kind
          /\ centreCalls'[s].of = centreCalls[s].of
                                  /\ centreCalls'[s].stage = centreCalls[s].stage
                                  /\ centreCalls'[s].calm = FALSE
    BY <1>21 DEF Copied, Centre!InFlight
  <2>3. \A s \in Centre!InFlight' : centreCalls'[s].kind = "mark" =>
          centreCalls'[s].of \notin pushed'
    BY <1>1, <1>19, <1>21, <1>22, <2>1, <2>2 DEF ExactIsExact
  <2>4. pushed' \cap DOMAIN shown' = {}
    BY <1>1, <2>1 DEF ExactIsExact
  <2>5. CASE centreCalls[r].kind \in {"list", "count"}
    <3>1. centreRows' = centreRows
      <4>1. \A a \in Alerts : centreRows'[a] = centreRows[a]
        BY <1>4, <1>9, <2>5 DEF marked
      <4> QED BY <1>6, <4>1 DEF CentreInv, RowTypes
    <3>2. Truth' = Truth
      BY <1>1, <1>13, <3>1 DEF Truth, Centre!Unread, Centre!Visible
    <3>3. Pending' = Pending /\ r \notin Pending
      BY <1>1, <1>19, <1>21, <1>22, <2>2, <2>5 DEF Pending, Marking
    <3>4. \A s \in Pending' : ~centreCalls'[s].calm
      BY <2>2, <3>3 DEF Pending
    <3> QED BY <1>1, <2>1, <2>3, <2>4, <3>1, <3>2, <3>3, <3>4 DEF ExactIsExact
  <2>6. CASE centreCalls[r].kind \in {"mark", "all"}
    <3>1. r \in Pending'
      BY <1>1, <1>19, <1>21, <1>22, <2>6 DEF Pending, Marking
    <3>2. ASSUME centreCalls'[r].calm, centreCalls'[r].kind = "mark",
            centreCalls'[r].of \notin untold'
          PROVE  unread' = Truth' + 1
      <4> DEFINE of == centreCalls[r].of
                 before == Centre!Unread \ (pushed \cup untold)
      <4>1. calm /\ centreCalls[r].calm /\ ~centreRows[of].read /\ centreCalls[r].kind = "mark"
              /\ of \notin untold
        BY <1>1, <1>19, <1>21, <3>2 DEF calm
      <4>2. Centre!InFlight = {r}
        BY <1>2, <4>1 DEF CalmIsAlone
      <4>3. Pending = {}
        BY <1>1, <4>2 DEF Pending, Marking
      <4>4. unread = Truth /\ of \notin pushed
        BY <1>1, <2>1, <4>1, <4>3 DEF ExactIsExact
      <4>5. of \in Centre!Created /\ centreRows[of].visible <= centreClock
        BY <1>2, <4>1 DEF AnswerIsTrue
      <4>6. of \in before
        BY <4>1, <4>4, <4>5 DEF Centre!Unread, Centre!Visible
      <4>7. marked = {of}
        BY <4>1 DEF marked, Centre!Marked
      <4>8. Centre!Unread' = Centre!Unread \ {of}
        BY <1>1, <1>8, <1>9, <1>14, <4>7 DEF Centre!Unread, Centre!Visible, Centre!Created
      <4>9. (Centre!Unread \ (pushed \cup untold))' = before \ {of}
        BY <1>1, <4>8
      <4>10. IsFiniteSet(before) /\ Cardinality(before) \in Nat
        BY UnreadIsFinite
      <4>11. Truth = Cardinality(before)
        BY DEF Truth
      <4>12. Truth' = Cardinality(before \ {of})
        BY <4>9 DEF Truth
      <4> HIDE DEF before, of
      <4>13. Cardinality(before \ {of}) = Cardinality(before) - 1
        BY <4>6, <4>10, FS_RemoveElement
      <4> QED BY <1>1, <4>4, <4>10, <4>11, <4>12, <4>13
    <3>3. \A s \in Pending' : centreCalls'[s].calm => s = r
      BY <1>22, <2>2 DEF Pending
    <3> QED BY <2>3, <2>4, <3>1, <3>2, <3>3 DEF ExactIsExact
  <2> QED BY <1>1, <2>5, <2>6 DEF CallRecord, CallKinds
<1> QED BY <1>11, <1>21, <1>25, <1>26, <1>27, <1>28, <1>29 DEF CentreInv

\* The end of a request.
LEMMA DoneFacts ==
    ASSUME CentreInv, NEW r \in Centre!InFlight,
          centreCalls' = [Centre!Disturbed({r}) EXCEPT ![r] = None],
           centreRows' = centreRows, centreClock' = centreClock
    PROVE  /\ CallTypes' /\ AnswersAreTrue' /\ CalmAreAlone'
           /\ Centre!Created' = Centre!Created /\ Centre!InFlight' = Centre!InFlight \ {r}
           /\ Pending' = Pending \ {r}
           /\ \A s \in Centre!InFlight' : centreCalls'[s].kind = centreCalls[s].kind
                /\ centreCalls'[s].of = centreCalls[s].of
                                   /\ centreCalls'[s].calm = FALSE
<1>1. r \in Requests
  BY DEF Centre!InFlight
<1>2. CallTypes' /\ centreCalls'[r] = None /\ \A s \in Requests \ {r} : Copied(s)
  BY <1>1, OthersDisturbed DEF CentreInv
<1>3. RowsGrow /\ Centre!Created' = Centre!Created
  BY SameRows DEF CentreInv, RowTypes
<1>4. AnswersAreTrue' /\ CalmAreAlone'
  BY <1>2, <1>3, DisturbedKeeps DEF CentreInv
<1>5. Centre!InFlight' = Centre!InFlight \ {r}
  BY <1>2 DEF Centre!InFlight, Copied
<1>6. \A s \in Centre!InFlight' : centreCalls'[s].kind = centreCalls[s].kind
        /\ centreCalls'[s].of = centreCalls[s].of
                           /\ centreCalls'[s].stage = centreCalls[s].stage
                           /\ centreCalls'[s].calm = FALSE
  BY <1>2, <1>5 DEF Centre!InFlight, Copied
<1>7. Pending' = Pending \ {r}
  BY <1>5, <1>6 DEF Pending, Marking
<1> QED BY <1>2, <1>3, <1>4, <1>5, <1>6, <1>7

\* A request that fails leaves the badge as it is, or wrong.
LEMMA FailKeeps == ASSUME CentreInv, NEW r \in Requests, Centre!Fail(r) PROVE CentreInv'
<1>1. /\ r \in Centre!InFlight /\ centreCalls' = [Centre!Disturbed({r}) EXCEPT ![r] = None]
      /\ exact' = (exact
           /\ (centreCalls[r].stage = "answered" => centreCalls[r].kind \in {"list", "count"}))
      /\ UNCHANGED <<centreClock, askedFor, centreRows, pushed, shown, unread, late, untold>>
  BY DEF Centre!Fail, Centre!InFlight
<1>2. /\ CallTypes' /\ AnswersAreTrue' /\ CalmAreAlone'
      /\ Centre!Created' = Centre!Created /\ Centre!InFlight' = Centre!InFlight \ {r}
      /\ Pending' = Pending \ {r}
      /\ \A s \in Centre!InFlight' : centreCalls'[s].kind = centreCalls[s].kind
           /\ centreCalls'[s].of = centreCalls[s].of
                              /\ centreCalls'[s].calm = FALSE
  BY <1>1, DoneFacts
<1>3. RowTypes' /\ PageParts' /\ Centre!ReadIsRead' /\ AlertsOnTime'
  BY <1>1, <1>2 DEF CentreInv, RowTypes, PageParts, Centre!ReadIsRead, AlertsOnTime
<1>4. ExactIsExact'
  <2> SUFFICES ASSUME exact' PROVE ExactIsExact'
    BY DEF ExactIsExact
  <2>1. exact /\ ExactIsExact /\ r \notin Pending
    BY <1>1 DEF CentreInv, Pending, Marking
  <2>2. Truth' = Truth /\ Pending' = Pending
    BY <1>1, <1>2, <2>1 DEF Truth, Centre!Unread, Centre!Visible
  <2>3. \A s \in Pending' : ~centreCalls'[s].calm
    BY <1>2 DEF Pending
  <2>4. pushed' \cap DOMAIN shown' = {}
    BY <1>1, <2>1 DEF ExactIsExact
  <2>5. ASSUME NEW s \in Centre!InFlight', centreCalls'[s].kind = "mark"
          PROVE centreCalls'[s].of \notin pushed'
    <3>1. s \in Centre!InFlight /\ centreCalls[s].kind = "mark"
            /\ centreCalls'[s].of = centreCalls[s].of /\ pushed' = pushed
      BY <1>1, <1>2, <2>5
    <3>2. centreCalls[s].of \notin pushed
      BY <2>1, <3>1 DEF ExactIsExact
    <3> QED BY <3>1, <3>2
  <2>6. Pending' = {} => unread' = Truth' /\ \A a \in pushed' : ~centreRows'[a].read
    BY <1>1, <2>1, <2>2 DEF ExactIsExact
  <2> QED BY <2>3, <2>4, <2>5, <2>6 DEF ExactIsExact
<1> QED BY <1>2, <1>3, <1>4 DEF CentreInv

\* A reply that is calm finds no other request, and finds the rows as the server left them.
LEMMA CalmFacts ==
    ASSUME CentreInv, NEW r \in Centre!InFlight, Centre!Calm(r), centreCalls[r].stage = "answered"
    PROVE  /\ pushed = {} /\ Centre!InFlight = {r}
           /\ centreCalls[r].answer = {<<a, centreRows[a].read>> :
                a \in Centre!Visible(centreClock)}
BY DEF CentreInv, CalmAreAlone, CalmIsAlone, Centre!Calm

\* With nothing pushed and no request under way the badge need only be right.
LEMMA QuietBadge ==
    ASSUME exact' => /\ pushed' = {} /\ Centre!InFlight' = {}
                     /\ unread' = Truth'
    PROVE  ExactIsExact'
BY DEF ExactIsExact, Pending

\* The list replaces what is shown; the badge stays, and stays right only if the request is calm.
LEMMA ApplyListKeeps == ASSUME CentreInv, NEW r \in Requests, Centre!ApplyList(r) PROVE CentreInv'
<1>1. /\ r \in Centre!InFlight /\ centreCalls[r].stage = "answered" /\ centreCalls[r].kind = "list"
      /\ centreCalls' = [Centre!Disturbed({r}) EXCEPT ![r] = None]
      /\ exact' = (exact /\ Centre!Calm(r)) /\ late' = late \cap DOMAIN shown'
      /\ shown' = [a \in {x[1] : x \in centreCalls[r].answer} |->
                    <<a, TRUE>> \in centreCalls[r].answer]
      /\ UNCHANGED <<centreClock, askedFor, centreRows, pushed, unread, untold>>
  BY DEF Centre!ApplyList, Centre!Answered, Centre!Done, Centre!InFlight
<1>2. /\ CallTypes' /\ AnswersAreTrue' /\ CalmAreAlone'
      /\ Centre!Created' = Centre!Created /\ Centre!InFlight' = Centre!InFlight \ {r}
      /\ Pending' = Pending \ {r}
  BY <1>1, DoneFacts
<1>3. AnswerIsTrue(r) /\ centreCalls[r] \in CallRecord
  BY <1>1 DEF CentreInv, AnswersAreTrue, CallTypes, Centre!InFlight
<1>4. \A a \in DOMAIN shown' : /\ a \in Centre!Created /\ centreRows[a].visible <= centreClock
                               /\ (shown'[a] => centreRows[a].read)
  <2> SUFFICES ASSUME NEW a \in DOMAIN shown'
               PROVE  a \in Centre!Created /\ centreRows[a].visible <= centreClock
                     /\ (shown'[a] => centreRows[a].read)
    OBVIOUS
  <2>1. PICK x \in centreCalls[r].answer : a = x[1]
    BY <1>1
  <2>2. x \in Alerts \X BOOLEAN
    BY <1>3 DEF CallRecord
  <2>3. PICK b \in BOOLEAN : x = <<a, b>> /\ a \in Alerts
    BY <2>1, <2>2
  <2>4. a \in Centre!Created /\ centreRows[a].visible <= centreClock
    BY <1>3, <2>3 DEF AnswerIsTrue
  <2>5. shown'[a] => <<a, TRUE>> \in centreCalls[r].answer
    BY <1>1
  <2>6. shown'[a] => centreRows[a].read
    BY <1>3, <2>3, <2>5 DEF AnswerIsTrue
  <2> QED BY <2>4, <2>6
<1>5. RowTypes' /\ PageParts'
  BY <1>1, <1>2, <1>4 DEF CentreInv, RowTypes, PageParts
<1>6. AlertsOnTime' /\ Centre!ReadIsRead'
  BY <1>1, <1>2, <1>4 DEF CentreInv, AlertsOnTime, Centre!ReadIsRead
<1>7. ExactIsExact'
  <2>1. ASSUME exact' PROVE pushed' = {} /\ Centre!InFlight' = {} /\ unread' = Truth'
    <3>1. exact /\ pushed = {} /\ Centre!InFlight = {r} /\ ExactIsExact
      BY <1>1, <2>1, CalmFacts DEF CentreInv
    <3>2. Pending = {}
      BY <1>1, <3>1 DEF Pending, Marking
    <3>3. Truth' = Truth
      BY <1>1, <1>2 DEF Truth, Centre!Unread, Centre!Visible
    <3> QED BY <1>1, <1>2, <3>1, <3>2, <3>3 DEF ExactIsExact
  <2> QED BY <2>1, QuietBadge
<1> QED BY <1>2, <1>5, <1>6, <1>7 DEF CentreInv

\* Counting the answers that are unread is counting the rows.
LEMMA CountFacts ==
    ASSUME NEW S, IsFiniteSet(S)
    PROVE  Cardinality({<<a, FALSE>> : a \in S}) = Cardinality(S)
<1> DEFINE T == {<<a, FALSE>> : a \in S}
           f == [a \in S |-> <<a, FALSE>>]
<1>1. f \in Bijection(S, T)
  BY DEF Bijection, Injection, Surjection, IsInjective
<1>2. ExistsBijection(S, T)
  BY <1>1 DEF ExistsBijection
<1> QED BY <1>2, FS_Bijection

\* A calm count sets the badge right; the others leave it wrong until the next one.
LEMMA ApplyCountKeeps == ASSUME CentreInv, NEW r \in Requests, Centre!ApplyCount(r) PROVE CentreInv'
<1> DEFINE count == {x \in centreCalls[r].answer : ~x[2]}
           heard == {x[1] : x \in centreCalls[r].answer}
<1>1. /\ r \in Centre!InFlight /\ centreCalls[r].stage = "answered" /\ centreCalls[r].kind = "count"
      /\ centreCalls' = [Centre!Disturbed({r}) EXCEPT ![r] = None]
      /\ exact' = Centre!Calm(r) /\ unread' = Cardinality(count) /\ untold' = untold \ heard
      /\ UNCHANGED <<centreClock, askedFor, centreRows, pushed, shown, late>>
  BY CentreCardinality DEF Centre!ApplyCount, Centre!Answered, Centre!Done, Centre!InFlight
<1>2. /\ CallTypes' /\ AnswersAreTrue' /\ CalmAreAlone'
      /\ Centre!Created' = Centre!Created /\ Centre!InFlight' = Centre!InFlight \ {r}
      /\ Pending' = Pending \ {r}
  BY <1>1, DoneFacts
<1>3. AnswerIsTrue(r) /\ centreCalls[r] \in CallRecord
  BY <1>1 DEF CentreInv, AnswersAreTrue, CallTypes, Centre!InFlight
<1>4. \A a \in heard : a \in Centre!Created /\ centreRows[a].visible <= centreClock
  <2> SUFFICES ASSUME NEW x \in centreCalls[r].answer
               PROVE  x[1] \in Centre!Created /\ centreRows[x[1]].visible <= centreClock
    OBVIOUS
  <2>1. x \in Alerts \X BOOLEAN
    BY <1>3 DEF CallRecord
  <2>2. PICK a \in Alerts, b \in BOOLEAN : x = <<a, b>>
    BY <2>1
  <2> QED BY <1>3, <2>2 DEF AnswerIsTrue
<1>5. IsFiniteSet(count)
  <2>1. IsFiniteSet(Alerts \X BOOLEAN)
    <3>1. IsFiniteSet({FALSE} \cup {TRUE})
      BY Zenon, FS_Singleton, FS_AddElement
    <3>2. BOOLEAN = {FALSE} \cup {TRUE}
      BY Zenon
    <3> QED BY <3>1, <3>2, CentreAssumption, FS_Product
  <2>2. count \subseteq Alerts \X BOOLEAN
    BY <1>3 DEF CallRecord
  <2> QED BY <2>1, <2>2, FS_Subset
<1>6. unread' \in Nat
  BY <1>1, <1>5, FS_CardinalityType
<1>7. RowTypes' /\ PageParts' /\ Centre!ReadIsRead'
  BY <1>1, <1>2, <1>6 DEF CentreInv, RowTypes, PageParts, Centre!ReadIsRead
<1>8. \A a \in Centre!Created : centreRows[a].visible > centreClock => a \in untold /\ a \notin heard
  <2>1. \A a \in Centre!Created : centreRows[a].visible \in Int /\ centreClock \in Int
    BY DEF CentreInv, RowTypes, RowRecord, Centre!Created
  <2> QED BY <1>4, <2>1 DEF CentreInv, AlertsOnTime
<1>9. AlertsOnTime'
  BY <1>1, <1>2, <1>8 DEF CentreInv, AlertsOnTime
<1>10. ExactIsExact'
  <2>1. ASSUME exact' PROVE pushed' = {} /\ Centre!InFlight' = {} /\ unread' = Truth'
    <3>1. /\ pushed = {} /\ Centre!InFlight = {r}
          /\ centreCalls[r].answer = {<<a, centreRows[a].read>> : a \in Centre!Visible(centreClock)}
      BY <1>1, <2>1, CalmFacts
    <3>2. heard = Centre!Visible(centreClock)
      <4>1. \A a \in Centre!Visible(centreClock) :
              <<a, centreRows[a].read>> \in centreCalls[r].answer
                /\ <<a, centreRows[a].read>>[1] = a
        BY <3>1
      <4>2. ASSUME NEW x \in centreCalls[r].answer PROVE x[1] \in Centre!Visible(centreClock)
        <5>1. PICK a \in Centre!Visible(centreClock) : x = <<a, centreRows[a].read>>
          BY <3>1
        <5> QED BY <5>1
      <4> QED BY <4>1, <4>2
    <3>3. \A a \in Centre!Visible(centreClock) : centreRows[a].read \in BOOLEAN
      BY DEF CentreInv, RowTypes, RowRecord, Centre!Visible, Centre!Created
    <3>4. count = {<<a, FALSE>> : a \in Centre!Unread}
      <4>1. ASSUME NEW x \in count PROVE x \in {<<a, FALSE>> : a \in Centre!Unread}
        <5>1. PICK a \in Centre!Visible(centreClock) : x = <<a, centreRows[a].read>>
          BY <3>1
        <5>2. x[2] = centreRows[a].read /\ ~x[2]
          BY <5>1
        <5>3. centreRows[a].read = FALSE /\ a \in Centre!Unread
          BY <3>3, <5>2 DEF Centre!Unread
        <5> QED BY <5>1, <5>3
      <4>2. ASSUME NEW a \in Centre!Unread PROVE <<a, FALSE>> \in count
        <5>1. a \in Centre!Visible(centreClock) /\ centreRows[a].read = FALSE
          BY <3>3 DEF Centre!Unread
        <5>2. <<a, FALSE>> \in centreCalls[r].answer
          BY <3>1, <5>1
        <5>3. <<a, FALSE>>[2] = FALSE
          OBVIOUS
        <5> QED BY <5>2, <5>3
      <4> QED BY <4>1, <4>2
    <3>5. Cardinality(count) = Cardinality(Centre!Unread)
      BY <3>4, UnreadIsFinite, CountFacts
    <3>6. (Centre!Unread \ (pushed \cup untold))' = Centre!Unread
      BY <1>1, <1>2, <3>1, <3>2 DEF Centre!Unread, Centre!Visible
    <3>7. Truth' = Cardinality(Centre!Unread)
      BY <3>6 DEF Truth
    <3> QED BY <1>1, <1>2, <3>1, <3>5, <3>7
  <2> QED BY <2>1, QuietBadge
<1> QED BY <1>2, <1>7, <1>9, <1>10 DEF CentreInv

\* One alert read: the server took it from the truth before, the badge is lowered now.
LEMMA ApplyMarkKeeps == ASSUME CentreInv, NEW r \in Requests, Centre!ApplyMark(r) PROVE CentreInv'
<1>1. /\ r \in Centre!InFlight /\ centreCalls[r].stage = "answered" /\ centreCalls[r].kind = "mark"
      /\ centreCalls' = [Centre!Disturbed({r}) EXCEPT ![r] = None]
      /\ shown' = [a \in DOMAIN shown |-> shown[a] \/ a = centreCalls[r].of]
      /\ unread' = Centre!Decremented(unread) /\ late' = late \ {centreCalls[r].of}
      /\ exact' = (exact /\ Centre!Calm(r) /\ centreCalls[r].of \notin untold)
      /\ UNCHANGED <<centreClock, askedFor, centreRows, pushed, untold>>
  BY DEF Centre!ApplyMark, Centre!Answered, Centre!Done, Centre!InFlight
<1>2. /\ CallTypes' /\ AnswersAreTrue' /\ CalmAreAlone'
      /\ Centre!Created' = Centre!Created /\ Centre!InFlight' = Centre!InFlight \ {r}
      /\ Pending' = Pending \ {r}
  BY <1>1, DoneFacts
<1>3. centreRows[centreCalls[r].of].read
  BY <1>1 DEF CentreInv, AnswersAreTrue, AnswerIsTrue
<1>4. DOMAIN shown' = DOMAIN shown /\ unread' \in Nat
  <2>1. unread \in Nat
    BY DEF CentreInv, PageParts
  <2> QED BY <1>1, <2>1 DEF Centre!Decremented
<1>5. RowTypes' /\ PageParts' /\ AlertsOnTime'
  BY <1>1, <1>2, <1>4 DEF CentreInv, RowTypes, PageParts, AlertsOnTime
<1>6. Centre!ReadIsRead'
  <2>1. \A a \in DOMAIN shown : shown'[a] => shown[a] \/ a = centreCalls[r].of
    BY <1>1
  <2> QED BY <1>1, <1>3, <1>4, <2>1 DEF CentreInv, Centre!ReadIsRead
<1>7. ExactIsExact'
  <2>1. ASSUME exact' PROVE pushed' = {} /\ Centre!InFlight' = {} /\ unread' = Truth'
    <3>1. exact /\ pushed = {} /\ Centre!InFlight = {r} /\ ExactIsExact
            /\ centreCalls[r].of \notin untold
          /\ centreCalls[r].calm
      BY <1>1, <2>1, CalmFacts DEF CentreInv, Centre!Calm
    <3>2. r \in Pending
      BY <1>1, <3>1 DEF Pending, Marking
    <3>3. unread = Truth + 1
      BY <1>1, <3>1, <3>2 DEF ExactIsExact
    <3>4. Truth' = Truth /\ Truth \in Nat
      BY <1>1, <1>2, UnreadIsFinite DEF Truth, Centre!Unread, Centre!Visible
    <3> QED BY <1>1, <1>2, <3>1, <3>3, <3>4 DEF Centre!Decremented
  <2> QED BY <2>1, QuietBadge
<1> QED BY <1>2, <1>5, <1>6, <1>7 DEF CentreInv

\* All read: the badge is 0, and what was shown meanwhile is late.
LEMMA ApplyAllKeeps == ASSUME CentreInv, NEW r \in Requests, Centre!ApplyAll(r) PROVE CentreInv'
<1> DEFINE heard == {x[1] : x \in centreCalls[r].answer}
<1>1. /\ r \in Centre!InFlight /\ centreCalls[r].stage = "answered" /\ centreCalls[r].kind = "all"
      /\ centreCalls' = [Centre!Disturbed({r}) EXCEPT ![r] = None]
      /\ shown' = [a \in DOMAIN shown |-> TRUE] /\ unread' = 0 /\ exact' = Centre!Calm(r)
      /\ late' = late \cup {a \in DOMAIN shown : ~shown[a] /\ a \notin heard}
      /\ UNCHANGED <<centreClock, askedFor, centreRows, pushed, untold>>
  BY DEF Centre!ApplyAll, Centre!Answered, Centre!Done, Centre!InFlight
<1>2. /\ CallTypes' /\ AnswersAreTrue' /\ CalmAreAlone'
      /\ Centre!Created' = Centre!Created /\ Centre!InFlight' = Centre!InFlight \ {r}
      /\ Pending' = Pending \ {r}
  BY <1>1, DoneFacts
<1>3. AnswerIsTrue(r) /\ centreCalls[r] \in CallRecord
  BY <1>1 DEF CentreInv, AnswersAreTrue, CallTypes, Centre!InFlight
<1>4. \A a \in heard : centreRows[a].read
  <2> SUFFICES ASSUME NEW x \in centreCalls[r].answer PROVE centreRows[x[1]].read
    OBVIOUS
  <2>1. x \in Alerts \X BOOLEAN
    BY <1>3 DEF CallRecord
  <2>2. PICK a \in Alerts, b \in BOOLEAN : x = <<a, b>>
    BY <2>1
  <2> QED BY <1>1, <1>3, <2>2 DEF AnswerIsTrue
<1>5. DOMAIN shown' = DOMAIN shown
  BY <1>1
<1>6. RowTypes' /\ PageParts' /\ AlertsOnTime'
  BY <1>1, <1>2, <1>5 DEF CentreInv, RowTypes, PageParts, AlertsOnTime
<1>7. Centre!ReadIsRead'
  <2>1. ASSUME NEW a \in DOMAIN shown PROVE centreRows[a].read \/ a \in late'
    BY <1>1, <1>4 DEF CentreInv, Centre!ReadIsRead
  <2> QED BY <1>1, <1>5, <2>1 DEF Centre!ReadIsRead
<1>8. ExactIsExact'
  <2>1. ASSUME exact' PROVE pushed' = {} /\ Centre!InFlight' = {} /\ unread' = Truth'
    <3>1. /\ pushed = {} /\ Centre!InFlight = {r}
          /\ centreCalls[r].answer = {<<a, centreRows[a].read>> : a \in Centre!Visible(centreClock)}
      BY <1>1, <2>1, CalmFacts
    <3>2. heard = Centre!Visible(centreClock)
      <4>1. \A a \in Centre!Visible(centreClock) :
              <<a, centreRows[a].read>> \in centreCalls[r].answer
                /\ <<a, centreRows[a].read>>[1] = a
        BY <3>1
      <4>2. ASSUME NEW x \in centreCalls[r].answer PROVE x[1] \in Centre!Visible(centreClock)
        <5>1. PICK a \in Centre!Visible(centreClock) : x = <<a, centreRows[a].read>>
          BY <3>1
        <5> QED BY <5>1
      <4> QED BY <4>1, <4>2
    <3>3. (Centre!Unread \ (pushed \cup untold))' = {}
      BY <1>1, <1>2, <1>4, <3>2 DEF Centre!Unread, Centre!Visible
    <3>4. Truth' = 0
      BY <3>3, FS_EmptySet DEF Truth
    <3> QED BY <1>1, <1>2, <3>1, <3>4
  <2> QED BY <2>1, QuietBadge
<1> QED BY <1>2, <1>6, <1>7, <1>8 DEF CentreInv

-----------------------------------------------------------------------------
\* At the start there is nothing, and the badge is 0.
LEMMA CentreInitInv == Centre!Init => CentreInv
<1> SUFFICES ASSUME Centre!Init PROVE CentreInv
  OBVIOUS
<1> USE CentreAssumption DEF Centre!Init
<1>1. Centre!Created = {} /\ Centre!InFlight = {} /\ DOMAIN shown = {}
  BY DEF Centre!Created, Centre!InFlight
<1>2. RowTypes /\ CallTypes /\ PageParts
  BY <1>1 DEF RowTypes, CallTypes, PageParts
<1>3. AlertsOnTime /\ AnswersAreTrue /\ CalmAreAlone /\ Centre!ReadIsRead
  BY <1>1 DEF AlertsOnTime, AnswersAreTrue, CalmAreAlone, Centre!ReadIsRead
<1>4. Truth = 0
  <2>1. Centre!Unread \ (pushed \cup untold) = {}
    BY <1>1 DEF Centre!Unread, Centre!Visible
  <2> QED BY <2>1, FS_EmptySet DEF Truth
<1>5. ExactIsExact
  BY <1>1, <1>4 DEF ExactIsExact, Pending
<1> QED BY <1>2, <1>3, <1>5 DEF CentreInv

\* Every step of the alert centre keeps the invariant, a stutter too.
LEMMA CentreNextInv == CentreInv /\ [Centre!Next]_centreVars => CentreInv'
<1> SUFFICES ASSUME CentreInv, [Centre!Next]_centreVars PROVE CentreInv'
  OBVIOUS
<1>1. CASE \E a \in Alerts : Centre!Create(a) \/ Centre!Receive(a) \/ Centre!Lose(a)
  BY <1>1, CreateKeeps, ReceiveKeeps, LoseKeeps
<1>2. CASE \E r \in Requests : \E kind \in {"list", "count", "all"} : Centre!Ask(r, kind, None)
  <2>1. PICK r \in Requests, kind \in {"list", "count", "all"} : Centre!Ask(r, kind, None)
    BY <1>2
  <2>2. kind \in CallKinds /\ kind # "mark" /\ None \in Alerts \cup {None}
    BY DEF CallKinds
  <2> QED BY <2>1, <2>2, AskKeeps
<1>3. CASE \E r \in Requests : \E a \in Alerts : Centre!Ask(r, "mark", a)
  <2>1. PICK r \in Requests, a \in Alerts : Centre!Ask(r, "mark", a)
    BY <1>3
  <2>2. "mark" \in CallKinds /\ a \in Alerts \cup {None}
    BY DEF CallKinds
  <2> QED BY <2>1, <2>2, AskKeeps
<1>4. CASE \E r \in Requests : Centre!Serve(r) \/ Centre!Fail(r)
  BY <1>4, ServeKeeps, FailKeeps
<1>5. CASE \E r \in Requests : Centre!Apply(r)
  BY <1>5, ApplyListKeeps, ApplyCountKeeps, ApplyMarkKeeps, ApplyAllKeeps DEF Centre!Apply
<1>6. CASE Centre!Tick
  BY <1>6, TickKeeps
<1>7. CASE UNCHANGED centreVars
  <2>1. /\ Centre!Created' = Centre!Created /\ Centre!InFlight' = Centre!InFlight
        /\ Pending' = Pending /\ Truth' = Truth
        /\ Centre!Visible(centreClock)' = Centre!Visible(centreClock)
    BY <1>7 DEF centreVars, Centre!Created, Centre!InFlight, Pending, Marking, Truth,
          Centre!Unread, Centre!Visible
  <2>2. RowTypes' /\ CallTypes' /\ PageParts' /\ AlertsOnTime' /\ Centre!ReadIsRead'
    BY <1>7, <2>1 DEF centreVars, CentreInv, RowTypes, CallTypes, PageParts, AlertsOnTime,
          Centre!ReadIsRead
  <2>3. AnswersAreTrue' /\ CalmAreAlone'
    BY <1>7, <2>1 DEF centreVars, CentreInv, AnswersAreTrue, AnswerIsTrue, CalmAreAlone, CalmIsAlone
  <2>4. ExactIsExact'
    BY <1>7, <2>1 DEF centreVars, CentreInv, ExactIsExact
  <2> QED BY <2>2, <2>3, <2>4 DEF CentreInv
<1> QED BY <1>1, <1>2, <1>3, <1>4, <1>5, <1>6, <1>7 DEF Centre!Next

\* Whatever pushes, loads, counts and markings overlap, fail or come late: what the page
\* shows as read is read on the server, unless it came while markAllRead was on its way
\* back; no alert of the quiet hours is shown before its time; and the badge is the server's
\* count again after the next count around which nothing happens (alertStore.ts, alerts.py).
THEOREM CentreTheorem == OneSpec => []CentreIsSound
<1>1. OneInit => CentreInv
  BY CentreInitInv DEF OneInit
<1>2. CentreInv /\ [OneNext]_allVars => CentreInv'
  <2>1. [OneNext]_allVars => [Centre!Next]_centreVars
    BY DEF OneNext, allVars
  <2> QED BY <2>1, CentreNextInv
<1>3. CentreInv => CentreIsSound
  <2> SUFFICES ASSUME CentreInv PROVE Centre!TypeOK /\ Centre!CentreIsSound
    BY DEF CentreIsSound
  <2>1. Centre!TypeOK
    BY DEF CentreInv, RowTypes, PageParts, Centre!TypeOK
  <2>2. Centre!UnseenIsUnread
    BY DEF CentreInv, AlertsOnTime, Centre!UnseenIsUnread
  <2>3. Centre!BadgeIsRight
    <3>1. Centre!InFlight = {} => Pending = {}
      BY DEF Pending
    <3>2. exact /\ Centre!InFlight = {} => unread = Truth
      BY <3>1 DEF CentreInv, ExactIsExact
    <3> QED BY <3>2, CentreCardinality DEF Truth, Centre!BadgeIsRight
  <2> QED BY <2>1, <2>2, <2>3 DEF CentreInv, Centre!CentreIsSound
<1> QED BY <1>1, <1>2, <1>3, PTL DEF OneSpec
-----------------------------------------------------------------------------
(* FeedPages. *)

\* The elements of a finite set in a strict order have the ranks 0 to n - 1: before[x] are
\* those before x.
LEMMA Ranking ==
    ASSUME NEW S, IsFiniteSet(S), NEW before \in [S -> SUBSET S],
           \A x \in S : x \notin before[x],
           \A x, y \in S : x = y \/ x \in before[y] \/ y \in before[x],
           \A x, y \in S : x \in before[y] => before[x] \subseteq before[y]
    PROVE  /\ Cardinality(S) \in Nat
           /\ \A x \in S : Cardinality(before[x]) \in 0..(Cardinality(S) - 1)
           /\ \A k \in 1..Cardinality(S) : \E x \in S : Cardinality(before[x]) = k - 1
           /\ \A x, y \in S : x \in before[y] <=> Cardinality(before[x]) < Cardinality(before[y])
<1> DEFINE n == Cardinality(S)
           rank == [x \in S |-> Cardinality(before[x])]
<1>1. n \in Nat
  BY FS_CardinalityType
<1>2. \A x \in S : IsFiniteSet(before[x]) /\ rank[x] \in Nat
  <2> TAKE x \in S
  <2>1. before[x] \subseteq S
    OBVIOUS
  <2>2. IsFiniteSet(before[x])
    BY <2>1, FS_Subset
  <2> QED BY <2>2, FS_CardinalityType
<1>3. ASSUME NEW T, NEW U, IsFiniteSet(U), T \subseteq U, NEW x \in U, x \notin T
      PROVE  Cardinality(T) < Cardinality(U)
  <2>1. IsFiniteSet(T) /\ Cardinality(T) <= Cardinality(U) /\ T # U
        /\ (Cardinality(U) = Cardinality(T) => U = T)
    BY <1>3, FS_Subset
  <2>2. Cardinality(T) \in Nat /\ Cardinality(U) \in Nat
    BY <1>3, <2>1, FS_CardinalityType
  <2> QED BY <2>1, <2>2
<1>4. \A x \in S : rank[x] \in 0..(n - 1)
  <2> TAKE x \in S
  <2>1. before[x] \subseteq S /\ x \notin before[x]
    OBVIOUS
  <2>2. Cardinality(before[x]) < Cardinality(S)
    BY <1>3, <2>1
  <2> QED BY <1>1, <1>2, <2>2
<1>5. \A x, y \in S : x \in before[y] => rank[x] < rank[y]
  <2> SUFFICES ASSUME NEW x \in S, NEW y \in S, x \in before[y] PROVE rank[x] < rank[y]
    OBVIOUS
  <2>1. before[x] \subseteq before[y] /\ x \notin before[x] /\ IsFiniteSet(before[y])
    BY <1>2
  <2>2. Cardinality(before[x]) < Cardinality(before[y])
    BY <1>3, <2>1
  <2> QED BY <2>2
<1>6. \A x, y \in S : rank[x] < rank[y] => x \in before[y]
  <2> SUFFICES ASSUME NEW x \in S, NEW y \in S, rank[x] < rank[y], x \notin before[y] PROVE FALSE
    OBVIOUS
  <2>1. rank[x] \in Nat /\ rank[y] \in Nat
    BY <1>2
  <2>2. y \in before[x] => rank[y] < rank[x]
    BY <1>5
  <2> HIDE DEF rank
  <2>3. x # y
    BY <2>1
  <2> QED BY <2>1, <2>2, <2>3
<1>7. \A x, y \in S : rank[x] = rank[y] => x = y
  <2> SUFFICES ASSUME NEW x \in S, NEW y \in S, rank[x] = rank[y], x # y PROVE FALSE
    OBVIOUS
  <2>1. rank[x] \in Nat /\ rank[y] \in Nat
    BY <1>2
  <2>2. (x \in before[y] => rank[x] < rank[y]) /\ (y \in before[x] => rank[y] < rank[x])
    BY <1>5
  <2> HIDE DEF rank
  <2> QED BY <2>1, <2>2
<1>8. rank \in Injection(S, 0..(n - 1))
  <2>1. rank \in [S -> 0..(n - 1)]
    <3> HIDE DEF n
    <3> QED BY <1>4
  <2> HIDE DEF rank, n
  <2> QED BY <1>7, <2>1 DEF Injection, IsInjective
<1>9. IsFiniteSet(0..(n - 1)) /\ Cardinality(0..(n - 1)) = n
  <2>1. 0 \in Int /\ n - 1 \in Int
    BY <1>1
  <2> HIDE DEF n
  <2>2. /\ IsFiniteSet(0..(n - 1))
        /\ Cardinality(0..(n - 1)) = IF 0 > n - 1 THEN 0 ELSE (n - 1) - 0 + 1
    BY <2>1, FS_Interval
  <2> QED BY <1>1, <2>2
<1>10. rank \in Surjection(S, 0..(n - 1))
  <2>1. Cardinality(S) = Cardinality(0..(n - 1))
    BY <1>9
  <2> HIDE DEF rank, n
  <2> QED BY <1>8, <1>9, <2>1, FS_Injection
<1>11. \A k \in 1..n : \E x \in S : rank[x] = k - 1
  <2> TAKE k \in 1..n
  <2> HIDE DEF rank, n
  <2>1. k - 1 \in 0..(n - 1)
    BY <1>1
  <2> QED BY <1>10, <2>1 DEF Surjection
<1> QED BY <1>1, <1>4, <1>5, <1>6, <1>11
-----------------------------------------------------------------------------
\* A list that has nothing twice.
Distinct(s) == \A i, j \in 1..Len(s) : s[i] = s[j] => i = j

\* The instance counts as FiniteSets does.
LEMMA ListsCardinality == \A S : Lists!Cardinality(S) = Cardinality(S)
BY Zenon DEF Lists!Cardinality, Cardinality

\* The elements of a list, by their positions.
LEMMA ListElements ==
    ASSUME NEW s \in Seq(ListRows)
    PROVE  /\ Len(s) \in Nat /\ \A i \in 1..Len(s) : s[i] \in ListRows
           /\ Lists!ToSet(s) = {s[i] : i \in 1..Len(s)} /\ Lists!ToSet(s) \subseteq ListRows
<1>1. DOMAIN s = 1..Len(s) /\ Len(s) \in Nat /\ \A i \in 1..Len(s) : s[i] \in ListRows
  OBVIOUS
<1>2. Lists!ToSet(s) = {s[i] : i \in 1..Len(s)}
  BY <1>1 DEF Lists!ToSet
<1> QED BY <1>1, <1>2

\* ORDER BY tells any two rows apart.
LEMMA Ordering ==
    /\ \A r \in ListRows : ~Lists!First(r, r)
    /\ \A r, s \in ListRows : r = s \/ Lists!First(r, s) \/ Lists!First(s, r)
    /\ \A r, s, t \in ListRows : Lists!First(r, s) /\ Lists!First(s, t) => Lists!First(r, t)
    /\ \A r, s \in ListRows : Lists!First(r, s) <=> Lists!Below(s, r)
<1>1. \A r \in ListRows : r \in Nat /\ At[r] \in Nat
  BY PagesAssumption
<1> QED BY <1>1 DEF Lists!First, Lists!Below

\* What ORDER BY makes of a set of rows.
LEMMA SortedFacts ==
    ASSUME NEW rs \in SUBSET ListRows
    PROVE  /\ Lists!Sorted(rs) \in Seq(ListRows) /\ Distinct(Lists!Sorted(rs))
           /\ Lists!ToSet(Lists!Sorted(rs)) = rs
           /\ \A i, j \in 1..Len(Lists!Sorted(rs)) :
                i < j => Lists!First(Lists!Sorted(rs)[i], Lists!Sorted(rs)[j])
<1> DEFINE n == Cardinality(rs)
           before == [r \in rs |-> {s \in rs : Lists!First(s, r)}]
           list == Lists!Sorted(rs)
<1>1. IsFiniteSet(rs)
  BY PagesAssumption, FS_Subset
<1>2. before \in [rs -> SUBSET rs]
  OBVIOUS
<1>3. /\ \A x \in rs : x \notin before[x]
      /\ \A x, y \in rs : x = y \/ x \in before[y] \/ y \in before[x]
      /\ \A x, y \in rs : x \in before[y] => before[x] \subseteq before[y]
  BY Ordering
<1>4. /\ n \in Nat
      /\ \A x \in rs : Cardinality(before[x]) \in 0..(n - 1)
      /\ \A k \in 1..n : \E x \in rs : Cardinality(before[x]) = k - 1
      /\ \A x, y \in rs : x \in before[y] <=> Cardinality(before[x]) < Cardinality(before[y])
  <2> HIDE DEF before
  <2> QED BY <1>1, <1>2, <1>3, Ranking
<1>5. list = [i \in 1..n |-> CHOOSE r \in rs : Cardinality({s \in rs : Lists!First(s, r)}) = i - 1]
  BY Zenon DEF Lists!Sorted, Lists!Cardinality, Cardinality
<1>6. ASSUME NEW i \in 1..n
      PROVE  list[i] \in rs /\ Cardinality(before[list[i]]) = i - 1
  <2>1. list[i] = CHOOSE r \in rs : Cardinality({s \in rs : Lists!First(s, r)}) = i - 1
    BY <1>5
  <2>2. \A r \in rs : before[r] = {s \in rs : Lists!First(s, r)}
    OBVIOUS
  <2>3. \E r \in rs : Cardinality({s \in rs : Lists!First(s, r)}) = i - 1
    BY <1>4, <2>2
  <2> HIDE DEF list, before, n
  <2>4. list[i] \in rs /\ Cardinality({s \in rs : Lists!First(s, list[i])}) = i - 1
    BY <2>1, <2>3
  <2> QED BY <2>2, <2>4
<1>7. list \in Seq(ListRows) /\ Len(list) = n
  <2>1. list = [i \in 1..n |-> list[i]]
    BY <1>5
  <2> HIDE DEF list, n
  <2>2. \A i \in 1..n : list[i] \in ListRows
    BY <1>6
  <2> QED BY <1>4, <2>1, <2>2
<1> HIDE DEF list, before, n
<1>8. Distinct(list)
  <2> SUFFICES ASSUME NEW i \in 1..n, NEW j \in 1..n, list[i] = list[j] PROVE i = j
    BY <1>7 DEF Distinct
  <2>1. i - 1 = j - 1
    BY <1>6
  <2> QED BY <1>4, <2>1
<1>9. Lists!ToSet(list) = rs
  <2>1. \A r \in rs : \E i \in 1..n : list[i] = r
    <3> TAKE r \in rs
    <3> DEFINE k == Cardinality(before[r])
    <3>1. k \in 0..(n - 1)
      BY <1>4
    <3> HIDE DEF k
    <3>2. k + 1 \in 1..n /\ (k + 1) - 1 = k
      BY <1>4, <3>1
    <3>3. list[k + 1] \in rs /\ Cardinality(before[list[k + 1]]) = k
      BY <1>6, <3>2
    <3>4. r \notin before[list[k + 1]] /\ list[k + 1] \notin before[r]
      BY <1>4, <3>1, <3>3 DEF k
    <3>5. list[k + 1] = r
      BY <1>3, <3>3, <3>4
    <3> QED BY <3>2, <3>5
  <2>2. \A i \in 1..n : list[i] \in rs
    BY <1>6
  <2>3. Lists!ToSet(list) = {list[i] : i \in 1..n}
    BY <1>7, ListElements
  <2> QED BY <2>1, <2>2, <2>3
<1>10. \A i, j \in 1..n : i < j => Lists!First(list[i], list[j])
  <2> SUFFICES ASSUME NEW i \in 1..n, NEW j \in 1..n, i < j PROVE Lists!First(list[i], list[j])
    OBVIOUS
  <2>1. list[i] \in before[list[j]]
    <3>1. i - 1 < j - 1
      BY <1>4
    <3> QED BY <1>4, <1>6, <3>1
  <2> QED BY <1>6, <2>1 DEF before
<1> QED BY <1>7, <1>8, <1>9, <1>10 DEF list

\* What is left of a list keeps its order and has nothing twice.
LEMMA KeptFacts ==
    ASSUME NEW s \in Seq(ListRows), Distinct(s), NEW ps \in SUBSET (1..Len(s))
    PROVE  /\ Lists!Kept(s, ps) \in Seq(ListRows) /\ Distinct(Lists!Kept(s, ps))
           /\ Lists!ToSet(Lists!Kept(s, ps)) = {s[i] : i \in ps}
<1> DEFINE n == Cardinality(ps)
           before == [i \in ps |-> {j \in ps : j < i}]
           at(k) == CHOOSE i \in ps : Cardinality({j \in ps : j < i}) = k - 1
           list == Lists!Kept(s, ps)
<1>1. IsFiniteSet(ps)
  <2>1. IsFiniteSet(1..Len(s))
    BY FS_Interval, ListElements
  <2> QED BY <2>1, FS_Subset
<1>2. before \in [ps -> SUBSET ps]
  OBVIOUS
<1>3. /\ \A x \in ps : x \notin before[x]
      /\ \A x, y \in ps : x = y \/ x \in before[y] \/ y \in before[x]
      /\ \A x, y \in ps : x \in before[y] => before[x] \subseteq before[y]
  <2>1. \A x \in ps : x \in Nat
    BY ListElements
  <2>2. \A x \in ps : before[x] = {j \in ps : j < x}
    OBVIOUS
  <2> HIDE DEF before
  <2>3. \A x, y \in ps : x \in before[y] <=> x < y
    BY <2>2
  <2>4. \A x, y, z \in ps : z \in before[x] /\ x \in before[y] => z \in before[y]
    BY <2>1, <2>3
  <2>5. \A x, y \in ps : x \in before[y] => before[x] \subseteq before[y]
    <3>1. \A x \in ps : before[x] \subseteq ps
      BY <2>2
    <3> QED BY <2>4, <3>1
  <2>6. \A x, y \in ps : x = y \/ x < y \/ y < x
    BY <2>1
  <2>7. \A x \in ps : ~(x < x)
    BY <2>1
  <2> QED BY <2>3, <2>5, <2>6, <2>7
<1>4. /\ n \in Nat
      /\ \A x \in ps : Cardinality(before[x]) \in 0..(n - 1)
      /\ \A k \in 1..n : \E x \in ps : Cardinality(before[x]) = k - 1
      /\ \A x, y \in ps : x \in before[y] <=> Cardinality(before[x]) < Cardinality(before[y])
  <2> HIDE DEF before
  <2> QED BY <1>1, <1>2, <1>3, Ranking
<1>5. list = [k \in 1..n |-> s[at(k)]]
  BY Zenon DEF Lists!Kept, Lists!Cardinality, Cardinality
<1>6. ASSUME NEW k \in 1..n
      PROVE  at(k) \in ps /\ Cardinality(before[at(k)]) = k - 1
  <2>1. \A i \in ps : before[i] = {j \in ps : j < i}
    OBVIOUS
  <2>2. \E i \in ps : Cardinality({j \in ps : j < i}) = k - 1
    BY <1>4, <2>1
  <2> HIDE DEF before, n
  <2>3. at(k) \in ps /\ Cardinality({j \in ps : j < at(k)}) = k - 1
    BY <2>2
  <2> QED BY <2>1, <2>3
<1> HIDE DEF at, before, n
<1>7. list \in Seq(ListRows) /\ Len(list) = n /\ \A k \in 1..n : list[k] = s[at(k)]
  <2> HIDE DEF list
  <2>1. \A k \in 1..n : s[at(k)] \in ListRows
    BY <1>6, ListElements
  <2> QED BY <1>4, <1>5, <2>1
<1> HIDE DEF list
<1>8. Distinct(list)
  <2> SUFFICES ASSUME NEW i \in 1..n, NEW j \in 1..n, list[i] = list[j] PROVE i = j
    BY <1>7 DEF Distinct
  <2>1. at(i) = at(j)
    BY <1>6, <1>7 DEF Distinct
  <2>2. i - 1 = j - 1
    BY <1>6, <2>1
  <2> QED BY <1>4, <2>2
<1>9. \A i \in ps : \E k \in 1..n : list[k] = s[i]
  <2> TAKE i \in ps
  <2> DEFINE k == Cardinality(before[i])
  <2>1. k \in 0..(n - 1) /\ Cardinality(before[i]) = k
    BY <1>4
  <2> HIDE DEF k
  <2>2. k + 1 \in 1..n /\ (k + 1) - 1 = k
    BY <1>4, <2>1
  <2>3. PICK p \in ps : p = at(k + 1) /\ Cardinality(before[p]) = k
    BY <1>6, <2>2
  <2>4. i \notin before[p] /\ p \notin before[i]
    <3>1. ~(k < k)
      BY <2>1, <1>4
    <3> QED BY <1>4, <2>1, <2>3, <3>1
  <2>5. p = i
    BY <1>3, <2>4
  <2>6. list[k + 1] = s[i]
    BY <1>7, <2>2, <2>3, <2>5
  <2> QED BY <2>2, <2>6
<1>10. Lists!ToSet(list) = {s[i] : i \in ps}
  <2>1. Lists!ToSet(list) = {list[k] : k \in 1..n}
    BY <1>7, ListElements
  <2>2. \A k \in 1..n : at(k) \in ps /\ list[k] = s[at(k)]
    BY <1>6, <1>7
  <2>3. \A r \in Lists!ToSet(list) : \E i \in ps : r = s[i]
    BY <2>1, <2>2
  <2>4. \A i \in ps : s[i] \in Lists!ToSet(list)
    BY <1>9, <2>1
  <2> QED BY <2>3, <2>4
<1> QED BY <1>7, <1>8, <1>10 DEF list
-----------------------------------------------------------------------------
\* Two lists without a common row.
LEMMA Joined ==
    ASSUME NEW s \in Seq(ListRows), NEW t \in Seq(ListRows), Distinct(s), Distinct(t),
           Lists!ToSet(s) \cap Lists!ToSet(t) = {}
    PROVE  /\ s \o t \in Seq(ListRows) /\ Distinct(s \o t)
           /\ Lists!ToSet(s \o t) = Lists!ToSet(s) \cup Lists!ToSet(t)
<1> DEFINE m == Len(s)
           n == Len(t)
           u == s \o t
<1>1. m \in Nat /\ n \in Nat
  BY ListElements
<1>2. u \in Seq(ListRows) /\ Len(u) = m + n
  OBVIOUS
<1>3. \A i \in 1..m : i \in 1..(m + n) /\ u[i] = s[i]
  OBVIOUS
<1>4. \A i \in 1..n : m + i \in 1..(m + n) /\ u[m + i] = t[i]
  OBVIOUS
<1> HIDE DEF u
<1>5. /\ \A i \in 1..m : s[i] \in Lists!ToSet(s)
      /\ \A i \in 1..n : t[i] \in Lists!ToSet(t)
  BY ListElements
<1> HIDE DEF m, n
<1>6. \A i \in 1..(m + n) : i \in 1..m \/ \E j \in 1..n : i = m + j
  <2> SUFFICES ASSUME NEW i \in 1..(m + n), i \notin 1..m PROVE \E j \in 1..n : i = m + j
    OBVIOUS
  <2>1. i - m \in 1..n /\ i = m + (i - m)
    BY <1>1
  <2> QED BY <2>1
<1>7. \A i, j \in 1..(m + n) : u[i] = u[j] => i = j
  <2> SUFFICES ASSUME NEW i \in 1..(m + n), NEW j \in 1..(m + n), u[i] = u[j] PROVE i = j
    OBVIOUS
  <2>1. CASE i \in 1..m /\ j \in 1..m
    BY <1>3, <2>1 DEF Distinct, m
  <2>2. CASE i \in 1..m /\ j \notin 1..m
    <3>1. PICK k \in 1..n : j = m + k
      BY <1>6, <2>2
    <3> QED BY <1>3, <1>4, <1>5, <2>2, <3>1
  <2>3. CASE i \notin 1..m /\ j \in 1..m
    <3>1. PICK k \in 1..n : i = m + k
      BY <1>6, <2>3
    <3> QED BY <1>3, <1>4, <1>5, <2>3, <3>1
  <2>4. CASE i \notin 1..m /\ j \notin 1..m
    <3>1. PICK k \in 1..n : i = m + k
      BY <1>6, <2>4
    <3>2. PICK l \in 1..n : j = m + l
      BY <1>6, <2>4
    <3>3. k = l
      BY <1>4, <3>1, <3>2 DEF Distinct, n
    <3> QED BY <3>1, <3>2, <3>3
  <2> QED BY <2>1, <2>2, <2>3, <2>4
<1>8. Lists!ToSet(u) = Lists!ToSet(s) \cup Lists!ToSet(t)
  <2>1. Lists!ToSet(u) = {u[i] : i \in 1..(m + n)}
    BY <1>2, ListElements
  <2>2. /\ Lists!ToSet(s) = {s[i] : i \in 1..m}
        /\ Lists!ToSet(t) = {t[i] : i \in 1..n}
    BY ListElements DEF m, n
  <2>3. \A r \in Lists!ToSet(u) : r \in Lists!ToSet(s) \/ r \in Lists!ToSet(t)
    BY <1>3, <1>4, <1>5, <1>6, <2>1
  <2>4. \A r \in Lists!ToSet(s) : r \in Lists!ToSet(u)
    BY <1>3, <2>1, <2>2
  <2>5. \A r \in Lists!ToSet(t) : r \in Lists!ToSet(u)
    BY <1>4, <2>1, <2>2
  <2> QED BY <2>3, <2>4, <2>5
<1> QED BY <1>2, <1>7, <1>8 DEF u, Distinct

\* The first rows of a list.
LEMMA Cut ==
    ASSUME NEW s \in Seq(ListRows), Distinct(s), NEW n \in Nat, n <= Len(s)
    PROVE  /\ SubSeq(s, 1, n) \in Seq(ListRows) /\ Len(SubSeq(s, 1, n)) = n
           /\ Distinct(SubSeq(s, 1, n))
           /\ \A i \in 1..n : SubSeq(s, 1, n)[i] = s[i]
<1> DEFINE u == SubSeq(s, 1, n)
<1>1. u \in Seq(ListRows) /\ Len(u) = n /\ \A i \in 1..n : u[i] = s[i]
  OBVIOUS
<1> HIDE DEF u
<1>2. Distinct(u)
  <2>1. \A i \in 1..n : i \in 1..Len(s)
    BY ListElements
  <2> QED BY <1>1, <2>1 DEF Distinct
<1> QED BY <1>1, <1>2 DEF u

\* A page: its rows, and the last of them if there are more.
PageRecord == [rows : Seq(ListRows), next : ListRows \cup {None}]

\* A page has every row beyond the page before it, up to its own last one.
LEMMA PageFacts ==
    ASSUME NEW filter, NEW after
    PROVE  /\ Lists!Page(filter, after) \in PageRecord
           /\ Distinct(Lists!Page(filter, after).rows)
           /\ \A r \in Lists!Beyond(filter, after) :
                Lists!Reached(r, Lists!Page(filter, after).next) =>
                  r \in Lists!ToSet(Lists!Page(filter, after).rows)
<1> DEFINE beyond == Lists!Beyond(filter, after)
           list == Lists!Sorted(beyond)
           first == SubSeq(list, 1, Limit)
           p == Lists!Page(filter, after)
<1>1. beyond \in SUBSET ListRows
  BY DEF Lists!Beyond
<1>2. /\ list \in Seq(ListRows) /\ Distinct(list) /\ Lists!ToSet(list) = beyond
      /\ \A i, j \in 1..Len(list) : i < j => Lists!First(list[i], list[j])
  <2> HIDE DEF beyond
  <2> QED BY <1>1, SortedFacts
<1>3. p = IF Len(list) > Limit THEN [rows |-> first, next |-> list[Limit]]
          ELSE [rows |-> list, next |-> None]
  BY DEF Lists!Page
<1> HIDE DEF p, beyond, list, first
<1>4. Limit \in Nat \ {0} /\ Len(list) \in Nat /\ None \notin ListRows
  BY <1>2, PagesAssumption, ListElements
<1>5. CASE Len(list) > Limit
  <2>1. p.rows = first /\ p.next = list[Limit] /\ p = [rows |-> first, next |-> list[Limit]]
    BY <1>3, <1>5
  <2>2. Limit \in 1..Len(list) /\ list[Limit] \in ListRows
    BY <1>2, <1>4, <1>5, ListElements
  <2>3. /\ first \in Seq(ListRows) /\ Len(first) = Limit /\ Distinct(first)
        /\ \A i \in 1..Limit : first[i] = list[i]
    BY <1>2, <1>4, <1>5, Cut DEF first
  <2>4. ASSUME NEW r \in beyond, Lists!Reached(r, list[Limit]) PROVE r \in Lists!ToSet(first)
    <3>1. PICK i \in 1..Len(list) : r = list[i]
      BY <1>2, ListElements
    <3>2. i <= Limit
      <4> SUFFICES ASSUME Limit < i PROVE FALSE
        BY <1>4
      <4>1. Lists!First(list[Limit], r)
        BY <1>2, <2>2, <3>1
      <4>2. r \in ListRows /\ list[Limit] # None
        BY <1>1, <1>4, <2>2
      <4>3. r = list[Limit] \/ Lists!First(r, list[Limit])
        BY <2>4, <4>2 DEF Lists!Reached
      <4> QED BY <2>2, <4>1, <4>2, <4>3, Ordering
    <3>3. i \in 1..Limit
      BY <1>4, <3>2
    <3>4. Lists!ToSet(first) = {first[k] : k \in 1..Limit}
      BY <2>3, ListElements
    <3> QED BY <2>3, <3>1, <3>3, <3>4
  <2> QED BY <2>1, <2>2, <2>3, <2>4 DEF PageRecord, beyond, p
<1>6. CASE ~(Len(list) > Limit)
  <2>1. p.rows = list /\ p.next = None /\ p = [rows |-> list, next |-> None]
    BY <1>3, <1>6
  <2> QED BY <1>2, <2>1 DEF PageRecord, beyond, p
<1> QED BY <1>5, <1>6

\* A row's event: a row that the filter asks for is in the list then.
LEMMA UpsertedFacts ==
    ASSUME items \in Seq(ListRows), Distinct(items), NEW r \in ListRows, NEW label
    PROVE  /\ Lists!Upserted(items, r, label) \in Seq(ListRows)
           /\ Distinct(Lists!Upserted(items, r, label))
           /\ Lists!Matches(label, query) => r \in Lists!ToSet(Lists!Upserted(items, r, label))
<1> DEFINE new == Lists!Upserted(items, r, label)
           ps == {i \in DOMAIN items : items[i] # r}
           longer == <<r>> \o items
           cap == IF Len(items) > Limit THEN Len(items) ELSE Limit
<1>1. CASE ~Lists!Matches(label, query)
  <2>1. new = Lists!Kept(items, ps)
    BY <1>1 DEF Lists!Upserted
  <2>2. ps \in SUBSET (1..Len(items))
    OBVIOUS
  <2> HIDE DEF ps, new
  <2> QED BY <1>1, <2>1, <2>2, KeptFacts DEF new
<1>2. CASE Lists!Matches(label, query) /\ r \in Lists!ToSet(items)
  BY <1>2 DEF Lists!Upserted
<1>3. CASE Lists!Matches(label, query) /\ r \notin Lists!ToSet(items)
  <2>1. new = IF Len(longer) > cap THEN SubSeq(longer, 1, cap) ELSE longer
    BY <1>3 DEF Lists!Upserted, Lists!Inserted
  <2>2. Limit \in Nat \ {0} /\ Len(items) \in Nat
    BY PagesAssumption, ListElements
  <2>3. cap \in Nat /\ 1 <= cap
    BY <2>2
  <2>4. longer \in Seq(ListRows) /\ Distinct(longer) /\ longer[1] = r /\ Len(longer) = Len(items) + 1
    <3> DEFINE one == <<r>>
    <3>1. one \in Seq(ListRows) /\ Distinct(one) /\ Len(one) = 1 /\ one[1] = r
      BY DEF Distinct
    <3>2. longer = one \o items
      OBVIOUS
    <3>3. longer[1] = r /\ Len(longer) = Len(items) + 1
      OBVIOUS
    <3> HIDE DEF one, longer
    <3>4. Lists!ToSet(one) = {r}
      <4>1. Lists!ToSet(one) = {one[i] : i \in 1..1}
        BY <3>1, ListElements
      <4> QED BY <3>1, <4>1
    <3>5. longer \in Seq(ListRows) /\ Distinct(longer)
      BY <1>3, <3>1, <3>2, <3>4, Joined
    <3> QED BY <3>3, <3>5
  <2> HIDE DEF longer, cap, new
  <2>5. new \in Seq(ListRows) /\ Distinct(new) /\ Len(new) \in Nat /\ 1 <= Len(new) /\ new[1] = r
    <3>1. CASE Len(longer) > cap
      <4>1. cap <= Len(longer)
        BY <2>2, <2>3, <2>4, <3>1
      <4>2. /\ SubSeq(longer, 1, cap) \in Seq(ListRows) /\ Len(SubSeq(longer, 1, cap)) = cap
            /\ Distinct(SubSeq(longer, 1, cap))
            /\ \A i \in 1..cap : SubSeq(longer, 1, cap)[i] = longer[i]
        BY <2>3, <2>4, <4>1, Cut
      <4>3. 1 \in 1..cap
        BY <2>3
      <4> QED BY <2>1, <2>3, <2>4, <3>1, <4>2, <4>3
    <3>2. CASE ~(Len(longer) > cap)
      BY <2>1, <2>2, <2>4, <3>2
    <3> QED BY <3>1, <3>2
  <2>6. r \in Lists!ToSet(new)
    <3>1. 1 \in 1..Len(new)
      BY <2>5
    <3>2. Lists!ToSet(new) = {new[i] : i \in 1..Len(new)}
      BY <2>5, ListElements
    <3> QED BY <2>5, <3>1, <3>2
  <2> QED BY <2>5, <2>6 DEF new
<1> QED BY <1>1, <1>2, <1>3
-----------------------------------------------------------------------------
\* A request and its answer.
PageRequest == [filter : Labels \cup {All}, after : ListRows \cup {None},
                answer : PageRecord \cup {None},
                was : [ListRows -> Labels \cup {None}] \cup {None},
                hit : BOOLEAN, current : BOOLEAN]

\* The types; a list has no row twice.
PageTypes ==
    /\ db \in [ListRows -> Labels \cup {None}]
    /\ items \in Seq(ListRows) /\ Distinct(items)
    /\ query \in Labels \cup {All} /\ cursor \in ListRows \cup {None}
    /\ load \in PageRequest \cup {None} /\ more \in PageRequest \cup {None}

\* The rows a list up to the row "next" should have, but for what the stream lost.
WantedUpTo(next) ==
    {r \in ListRows \ unseen : db[r] # None /\ Lists!Matches(db[r], query) /\ Lists!Reached(r, next)}

\* A page has all rows of the filter beyond the page before it, up to its own last one, as
\* they were when it was read.
IsWhole(x) ==
    /\ x.answer \in PageRecord /\ Distinct(x.answer.rows)
    /\ x.was \in [ListRows -> Labels \cup {None}]
    /\ \A r \in ListRows :
         /\ x.was[r] # None /\ Lists!Matches(x.was[r], x.filter)
         /\ x.after = None \/ Lists!Below(r, x.after)
         /\ Lists!Reached(r, x.answer.next)
         => r \in Lists!ToSet(x.answer.rows)

\* So is every page that is cached.
CacheIsWhole == \A e \in cache : IsWhole(e)

\* So is the answer to a load, which is of the filter of the list.
LoadIsWhole ==
    load # None =>
      /\ load.filter = query /\ load.after = None
      /\ load.answer # None => IsWhole(load)

\* So is the answer to a further page; while that is awaited nothing is loaded anew.
MoreIsWhole ==
    more # None =>
      /\ more.answer # None => IsWhole(more)
      /\ more.current => load = None /\ more.filter = query /\ more.after = cursor /\ cursor # None

\* NothingSkipped, in these words.
ListIsWhole == load = None /\ ~mixed => \A r \in WantedUpTo(cursor) : r \in Lists!ToSet(items)

\* The inductive invariant.
PagesInv == PageTypes /\ CacheIsWhole /\ LoadIsWhole /\ MoreIsWhole /\ ListIsWhole

\* A request is something.
LEMMA RequestIsSomething == None \notin PageRequest
BY PagesAssumption DEF PageRequest, PageRecord

\* What is asked is a request.
LEMMA AskedFacts ==
    ASSUME NEW filter \in Labels \cup {All}, NEW after \in ListRows \cup {None}
    PROVE  /\ Lists!Asked(filter, after) \in PageRequest
           /\ Lists!Asked(filter, after).filter = filter /\ Lists!Asked(filter, after).after = after
           /\ Lists!Asked(filter, after).answer = None
BY DEF Lists!Asked, PageRequest

\* A request whose answer is a page of the cache, or the page as it is now, and what the
\* cache keeps then.
LEMMA AnswerFacts ==
    ASSUME PagesInv, NEW q \in PageRequest, NEW q1,
           q1 \in Lists!Hit(q) \/ q1 = Lists!Missed(q)
    PROVE  /\ q1 \in PageRequest /\ IsWhole(q1) /\ q1.filter = q.filter /\ q1.after = q.after
           /\ q1.current = q.current
<1>1. CASE q1 \in Lists!Hit(q)
  <2>1. PICK e \in Lists!Hits(q) : q1 = [q EXCEPT !.answer = e.answer, !.was = e.was, !.hit = TRUE]
    BY <1>1, Zenon DEF Lists!Hit
  <2>2. e \in cache /\ e.filter = q.filter /\ e.after = q.after
    BY DEF Lists!Hits
  <2>3. IsWhole(e)
    BY <2>2 DEF PagesInv, CacheIsWhole
  <2>4. e.answer \in PageRecord /\ e.was \in [ListRows -> Labels \cup {None}]
    BY <2>3 DEF IsWhole
  <2>5. /\ q1 \in PageRequest /\ q1.filter = e.filter /\ q1.after = e.after
        /\ q1.answer = e.answer /\ q1.was = e.was /\ q1.current = q.current
    BY <2>1, <2>2, <2>4 DEF PageRequest
  <2>6. IsWhole(q1)
    BY <2>3, <2>5 DEF IsWhole
  <2> QED BY <2>2, <2>5, <2>6
<1>2. CASE q1 = Lists!Missed(q)
  <2> DEFINE p == Lists!Page(q.filter, q.after)
  <2>1. q1 = [q EXCEPT !.answer = p, !.was = db]
    BY <1>2 DEF Lists!Missed
  <2>2. /\ p \in PageRecord /\ Distinct(p.rows)
        /\ \A r \in Lists!Beyond(q.filter, q.after) :
             Lists!Reached(r, p.next) => r \in Lists!ToSet(p.rows)
    BY PageFacts
  <2> HIDE DEF p
  <2>3. db \in [ListRows -> Labels \cup {None}]
    BY DEF PagesInv, PageTypes
  <2>4. /\ q1 \in PageRequest /\ q1.filter = q.filter /\ q1.after = q.after
        /\ q1.answer = p /\ q1.was = db /\ q1.current = q.current
    BY <2>1, <2>2, <2>3 DEF PageRequest
  <2>5. \A r \in ListRows :
          /\ db[r] # None /\ Lists!Matches(db[r], q.filter)
          /\ q.after = None \/ Lists!Below(r, q.after)
          => r \in Lists!Beyond(q.filter, q.after)
    BY DEF Lists!Beyond
  <2>6. IsWhole(q1)
    BY <2>2, <2>3, <2>4, <2>5 DEF IsWhole
  <2> QED BY <2>4, <2>6
<1> QED BY <1>1, <1>2

\* What is kept of a request that was answered.
LEMMA CachedFacts ==
    ASSUME PagesInv, NEW q \in PageRequest, IsWhole(q)
    PROVE  \A e \in Lists!Cached(q) : IsWhole(e)
<1>1. IsWhole(Lists!Entry(q))
  <2>1. /\ Lists!Entry(q).filter = q.filter /\ Lists!Entry(q).after = q.after
        /\ Lists!Entry(q).answer = q.answer /\ Lists!Entry(q).was = q.was
    BY DEF Lists!Entry
  <2> HIDE DEF Lists!Entry
  <2> QED BY <2>1 DEF IsWhole
<1>2. \A e \in Lists!Cached(q) : e \in cache \/ e = Lists!Entry(q)
  BY DEF Lists!Cached
<1> QED BY <1>1, <1>2 DEF PagesInv, CacheIsWhole

\* A load begins: it overtakes a further page.
LEMMA LoadKeeps == ASSUME PagesInv, Lists!LoadFeedNews PROVE PagesInv'
<1>1. PICK filter \in Labels \cup {All} :
        load' = Lists!Asked(filter, None) /\ query' = filter
  BY DEF Lists!LoadFeedNews
<1>2. more' = Lists!Overtaken(more) /\ UNCHANGED <<db, cache, items, cursor, unseen, mixed>>
  BY DEF Lists!LoadFeedNews
<1>3. /\ load' \in PageRequest /\ load' # None /\ load'.answer = None
      /\ load'.filter = query' /\ load'.after = None
  BY <1>1, AskedFacts, RequestIsSomething
<1>4. /\ more' \in PageRequest \cup {None}
      /\ more' # None => ~more'.current /\ (more'.answer # None => IsWhole(more'))
  <2>1. CASE more = None
    BY <1>2, <2>1 DEF Lists!Overtaken
  <2>2. CASE more # None
    <3>1. more \in PageRequest /\ more' = [more EXCEPT !.current = FALSE]
      BY <1>2, <2>2 DEF Lists!Overtaken, PagesInv, PageTypes
    <3>2. /\ more' \in PageRequest /\ more'.current = FALSE /\ more'.answer = more.answer
          /\ more'.filter = more.filter /\ more'.after = more.after /\ more'.was = more.was
      BY <3>1 DEF PageRequest
    <3>3. more.answer # None => IsWhole(more)
      BY <2>2 DEF PagesInv, MoreIsWhole
    <3> QED BY <3>2, <3>3 DEF IsWhole
  <2> QED BY <2>1, <2>2
<1>5. PageTypes'
  BY <1>1, <1>2, <1>3, <1>4 DEF PagesInv, PageTypes, Distinct
<1>6. CacheIsWhole'
  BY <1>2 DEF PagesInv, CacheIsWhole
<1>7. MoreIsWhole'
  BY <1>4 DEF MoreIsWhole, IsWhole
<1> QED BY <1>3, <1>5, <1>6, <1>7 DEF PagesInv, LoadIsWhole, ListIsWhole

\* A further page is asked for.
LEMMA LoadMoreKeeps == ASSUME PagesInv, Lists!LoadMore PROVE PagesInv'
<1>1. /\ cursor # None /\ load = None /\ more' = Lists!Asked(query, cursor)
      /\ UNCHANGED <<db, cache, items, query, cursor, load, unseen, mixed>>
  BY DEF Lists!LoadMore
<1>2. /\ more' \in PageRequest /\ more'.filter = query /\ more'.after = cursor
      /\ more'.answer = None
  BY <1>1, AskedFacts DEF PagesInv, PageTypes
<1>3. PageTypes'
  BY <1>1, <1>2 DEF PagesInv, PageTypes, Distinct
<1>4. CacheIsWhole' /\ LoadIsWhole' /\ MoreIsWhole'
  BY <1>1, <1>2 DEF PagesInv, CacheIsWhole, LoadIsWhole, MoreIsWhole
<1>5. ListIsWhole'
  <2>1. WantedUpTo(cursor)' = WantedUpTo(cursor)
    BY <1>1 DEF WantedUpTo
  <2> QED BY <1>1, <2>1 DEF PagesInv, ListIsWhole
<1> QED BY <1>3, <1>4, <1>5 DEF PagesInv

\* The server answers a load with the first page, as it is now or as it was cached.
LEMMA AnswerLoadKeeps == ASSUME PagesInv, Lists!AnswerLoad PROVE PagesInv'
<1>1. /\ load # None /\ (load' \in Lists!Hit(load) \/ load' = Lists!Missed(load))
      /\ cache' \subseteq cache /\ UNCHANGED <<db, items, query, cursor, more, unseen, mixed>>
  BY DEF Lists!AnswerLoad
<1>2. load \in PageRequest
  BY <1>1 DEF PagesInv, PageTypes
<1>3. load' \in PageRequest /\ IsWhole(load') /\ load'.filter = load.filter /\ load'.after = load.after
  BY <1>1, <1>2, AnswerFacts
<1>4. load' # None
  BY <1>3, RequestIsSomething
<1>5. PageTypes'
  BY <1>1, <1>3 DEF PagesInv, PageTypes, Distinct
<1>6. LoadIsWhole'
  BY <1>1, <1>3 DEF PagesInv, LoadIsWhole, IsWhole
<1>7. CacheIsWhole'
  BY <1>1 DEF PagesInv, CacheIsWhole, IsWhole
<1>8. MoreIsWhole' /\ ListIsWhole'
  BY <1>1, <1>4 DEF PagesInv, MoreIsWhole, ListIsWhole, IsWhole
<1> QED BY <1>5, <1>6, <1>7, <1>8 DEF PagesInv

\* The server answers with the rows beyond the cursor, as they are now or as they were cached.
LEMMA AnswerMoreKeeps == ASSUME PagesInv, Lists!AnswerMore PROVE PagesInv'
<1>1. /\ more # None /\ (more' \in Lists!Hit(more) \/ more' = Lists!Missed(more))
      /\ cache' \subseteq cache /\ UNCHANGED <<db, items, query, cursor, load, unseen, mixed>>
  BY DEF Lists!AnswerMore
<1>2. more \in PageRequest
  BY <1>1 DEF PagesInv, PageTypes
<1>3. /\ more' \in PageRequest /\ IsWhole(more') /\ more'.filter = more.filter
      /\ more'.after = more.after /\ more'.current = more.current
  BY <1>1, <1>2, AnswerFacts
<1>4. PageTypes'
  BY <1>1, <1>3 DEF PagesInv, PageTypes, Distinct
<1>5. MoreIsWhole'
  BY <1>1, <1>3 DEF PagesInv, MoreIsWhole, IsWhole
<1>6. CacheIsWhole' /\ LoadIsWhole'
  BY <1>1 DEF PagesInv, CacheIsWhole, LoadIsWhole, IsWhole
<1>7. ListIsWhole'
  BY <1>1 DEF PagesInv, ListIsWhole, WantedUpTo
<1> QED BY <1>4, <1>5, <1>6, <1>7 DEF PagesInv
-----------------------------------------------------------------------------
\* The list is replaced.
LEMMA ReceiveLoadKeeps == ASSUME PagesInv, Lists!ReceiveLoad PROVE PagesInv'
<1>1. /\ load # None /\ load.answer # None /\ cache' = Lists!Cached(load)
      /\ items' = load.answer.rows /\ cursor' = load.answer.next
      /\ unseen' = {r \in ListRows : db[r] # load.was[r]} \ Lists!ToSet(items')
      /\ load' = None /\ UNCHANGED <<db, query, more>>
  BY DEF Lists!ReceiveLoad
<1>2. load \in PageRequest /\ load.filter = query /\ load.after = None /\ IsWhole(load)
  BY <1>1 DEF PagesInv, PageTypes, LoadIsWhole
<1>3. PageTypes'
  <2>1. items' \in Seq(ListRows) /\ cursor' \in ListRows \cup {None}
    BY <1>1, <1>2 DEF PageRecord, IsWhole
  <2>2. Distinct(items)'
    BY <1>1, <1>2 DEF Distinct, IsWhole
  <2> QED BY <1>1, <2>1, <2>2 DEF PagesInv, PageTypes
<1>4. CacheIsWhole'
  BY <1>1, <1>2, CachedFacts DEF CacheIsWhole, IsWhole
<1>5. more # None => ~more.current /\ (more.answer # None => IsWhole(more))
  BY <1>1 DEF PagesInv, MoreIsWhole
<1>6. LoadIsWhole' /\ MoreIsWhole'
  BY <1>1, <1>5 DEF LoadIsWhole, MoreIsWhole, IsWhole
<1>7. ListIsWhole'
  <2> SUFFICES ASSUME NEW r \in ListRows \ unseen', db[r] # None, Lists!Matches(db[r], query),
                      Lists!Reached(r, cursor')
               PROVE  r \in Lists!ToSet(items')
    BY <1>1 DEF ListIsWhole, WantedUpTo
  <2>1. db[r] = load.was[r] \/ r \in Lists!ToSet(items')
    BY <1>1
  <2> QED BY <1>1, <1>2, <2>1 DEF IsWhole
<1> QED BY <1>3, <1>4, <1>6, <1>7 DEF PagesInv

\* What the server keeps for a request that was given up.
LEMMA GivenUpKeeps ==
    ASSUME PagesInv, NEW q \in PageRequest, q.answer # None => IsWhole(q), Lists!GivenUp(q)
    PROVE  CacheIsWhole'
<1>1. CASE cache' = cache
  BY <1>1 DEF PagesInv, CacheIsWhole, IsWhole
<1>2. CASE q.answer # None /\ cache' = Lists!Cached(q)
  BY <1>2, CachedFacts DEF CacheIsWhole, IsWhole
<1> QED BY <1>1, <1>2 DEF Lists!GivenUp

\* A load fails: the list is not of the new filter.
LEMMA LoadFailsKeeps == ASSUME PagesInv, Lists!LoadFails PROVE PagesInv'
<1>1. /\ load # None /\ load' = None /\ mixed' = TRUE /\ Lists!GivenUp(load)
      /\ UNCHANGED <<db, items, query, cursor, more, unseen>>
  BY DEF Lists!LoadFails
<1>2. load \in PageRequest /\ (load.answer # None => IsWhole(load))
  BY <1>1 DEF PagesInv, PageTypes, LoadIsWhole
<1>3. CacheIsWhole'
  BY <1>1, <1>2, GivenUpKeeps
<1>4. more # None => ~more.current /\ (more.answer # None => IsWhole(more))
  BY <1>1 DEF PagesInv, MoreIsWhole
<1>5. PageTypes'
  BY <1>1 DEF PagesInv, PageTypes, Distinct
<1>6. MoreIsWhole'
  BY <1>1, <1>4 DEF MoreIsWhole, IsWhole
<1> QED BY <1>1, <1>3, <1>5, <1>6 DEF PagesInv, LoadIsWhole, ListIsWhole

\* A further page fails: the list stays as it is.
LEMMA MoreFailsKeeps == ASSUME PagesInv, Lists!MoreFails PROVE PagesInv'
<1>1. /\ more # None /\ more' = None /\ Lists!GivenUp(more)
      /\ UNCHANGED <<db, items, query, cursor, load, unseen, mixed>>
  BY DEF Lists!MoreFails
<1>2. more \in PageRequest /\ (more.answer # None => IsWhole(more))
  BY <1>1 DEF PagesInv, PageTypes, MoreIsWhole
<1>3. CacheIsWhole'
  BY <1>1, <1>2, GivenUpKeeps
<1>4. PageTypes'
  BY <1>1 DEF PagesInv, PageTypes, Distinct
<1>5. LoadIsWhole' /\ MoreIsWhole' /\ ListIsWhole'
  BY <1>1 DEF PagesInv, LoadIsWhole, MoreIsWhole, ListIsWhole, WantedUpTo, IsWhole
<1> QED BY <1>3, <1>4, <1>5 DEF PagesInv

\* A further page is appended, or it was overtaken.
LEMMA ReceiveMoreKeeps == ASSUME PagesInv, Lists!ReceiveMore PROVE PagesInv'
<1>1. /\ more # None /\ more.answer # None /\ more' = None /\ cache' = Lists!Cached(more)
      /\ UNCHANGED <<db, query, load, mixed>>
  BY DEF Lists!ReceiveMore
<1>2. more \in PageRequest /\ IsWhole(more) /\ more.answer \in PageRecord
  BY <1>1 DEF PagesInv, PageTypes, MoreIsWhole, IsWhole
<1>3. CacheIsWhole'
  BY <1>1, <1>2, CachedFacts DEF CacheIsWhole, IsWhole
<1>4. CASE ~more.current
  <2>1. items' = items /\ cursor' = cursor /\ unseen' = unseen
    BY <1>4 DEF Lists!ReceiveMore
  <2> QED BY <1>1, <1>3, <2>1
       DEF PagesInv, PageTypes, Distinct, LoadIsWhole, MoreIsWhole, ListIsWhole, WantedUpTo, IsWhole
<1>5. CASE more.current
  <2> DEFINE list == more.answer.rows
             ps == {i \in DOMAIN list : list[i] \notin Lists!ToSet(items)}
             rest == Lists!Kept(list, ps)
  <2>1. /\ items' = items \o rest /\ cursor' = more.answer.next
        /\ unseen' = unseen \cup ({r \in ListRows : db[r] # more.was[r]} \ Lists!ToSet(items'))
    BY <1>5 DEF Lists!ReceiveMore, Lists!Appended
  <2>2. /\ load = None /\ Distinct(list) /\ more.filter = query /\ more.after = cursor
        /\ cursor # None
    BY <1>1, <1>2, <1>5 DEF PagesInv, MoreIsWhole, IsWhole
  <2>3. list \in Seq(ListRows) /\ cursor' \in ListRows \cup {None}
    BY <1>2, <2>1 DEF PageRecord
  <2>4. ps \in SUBSET (1..Len(list))
    BY <2>3
  <2>5. \A i \in ps : list[i] \notin Lists!ToSet(items)
    OBVIOUS
  <2>6. \A i \in 1..Len(list) : i \in ps \/ list[i] \in Lists!ToSet(items)
    BY <2>3
  <2> HIDE DEF list, ps, rest
  <2>7. rest \in Seq(ListRows) /\ Distinct(rest) /\ Lists!ToSet(rest) = {list[i] : i \in ps}
    BY <2>2, <2>3, <2>4, KeptFacts DEF rest
  <2>8. items \in Seq(ListRows) /\ Distinct(items)
    BY DEF PagesInv, PageTypes
  <2>9. Lists!ToSet(items) \cap Lists!ToSet(rest) = {}
    BY <2>5, <2>7
  <2>10. /\ items \o rest \in Seq(ListRows) /\ Distinct(items \o rest)
         /\ Lists!ToSet(items \o rest) = Lists!ToSet(items) \cup Lists!ToSet(rest)
    BY <2>7, <2>8, <2>9, Joined
  <2>11. \A r \in Lists!ToSet(list) : r \in Lists!ToSet(items \o rest)
    BY <2>3, <2>6, <2>7, <2>10, ListElements
  <2>12. PageTypes'
    <3>1. items' \in Seq(ListRows) /\ Distinct(items)'
      BY <2>1, <2>10 DEF Distinct
    <3> QED BY <1>1, <2>3, <3>1 DEF PagesInv, PageTypes
  <2>13. LoadIsWhole' /\ MoreIsWhole'
    BY <1>1, <2>2 DEF LoadIsWhole, MoreIsWhole
  <2>14. ListIsWhole'
    <3> SUFFICES ASSUME ~mixed, NEW r \in ListRows \ unseen', db[r] # None,
                        Lists!Matches(db[r], query), Lists!Reached(r, more.answer.next)
                 PROVE  r \in Lists!ToSet(items')
      BY <1>1, <2>1 DEF ListIsWhole, WantedUpTo
    <3>1. r \notin unseen /\ (db[r] = more.was[r] \/ r \in Lists!ToSet(items'))
      BY <2>1
    <3>2. CASE Lists!Reached(r, cursor)
      <4>1. r \in Lists!ToSet(items)
        BY <2>2, <3>1, <3>2 DEF PagesInv, ListIsWhole, WantedUpTo
      <4> QED BY <2>1, <2>10, <4>1
    <3>3. CASE ~Lists!Reached(r, cursor) /\ db[r] = more.was[r]
      <4>1. cursor \in ListRows
        BY <2>2 DEF PagesInv, PageTypes
      <4>2. Lists!Below(r, cursor)
        BY <2>2, <3>3, <4>1, Ordering DEF Lists!Reached
      <4>3. r \in Lists!ToSet(list)
        BY <1>2, <2>2, <3>3, <4>2 DEF IsWhole, list
      <4> QED BY <2>1, <2>11, <4>3
    <3> QED BY <3>1, <3>2, <3>3
  <2> QED BY <1>3, <2>12, <2>13, <2>14 DEF PagesInv
<1> QED BY <1>4, <1>5

\* A row is stored or labelled anew: its event puts it into the list or out of it, and what
\* the list loses by that, or by the event's loss, is written down.
LEMMA AnnounceKeeps ==
    ASSUME PagesInv, NEW r \in ListRows, NEW label \in Labels, db' = [db EXCEPT ![r] = label],
           Lists!Announce(r, label), UNCHANGED <<cache, query, cursor, load, more, mixed>>
    PROVE  PagesInv'
<1>1. items \in Seq(ListRows) /\ Distinct(items) /\ db \in [ListRows -> Labels \cup {None}]
  BY DEF PagesInv, PageTypes
<1>2. /\ db' \in [ListRows -> Labels \cup {None}] /\ db'[r] = label
      /\ \A x \in ListRows : x # r => db'[x] = db[x]
  BY <1>1
<1>3. /\ items' \in Seq(ListRows) /\ Distinct(items')
      /\ \A x \in ListRows : x \in Lists!ToSet(items) => x \in Lists!ToSet(items') \cup unseen'
      /\ \A x \in unseen : x \in Lists!ToSet(items') \cup unseen'
      /\ Lists!Matches(label, query) => r \in Lists!ToSet(items') \cup unseen'
  <2>1. CASE /\ items' = Lists!Upserted(items, r, label)
             /\ unseen' = (unseen \ Lists!ToSet(items'))
                            \cup (Lists!ToSet(items) \ Lists!ToSet(items'))
    <3>1. /\ items' \in Seq(ListRows) /\ Distinct(items')
          /\ Lists!Matches(label, query) => r \in Lists!ToSet(items')
      BY <1>1, <2>1, UpsertedFacts
    <3> QED BY <2>1, <3>1
  <2>2. CASE unseen' = unseen \cup {r} /\ items' = items
    BY <1>1, <2>2
  <2> QED BY <2>1, <2>2 DEF Lists!Announce
<1>4. PageTypes'
  <2>1. Distinct(items)'
    BY <1>3 DEF Distinct
  <2> QED BY <1>2, <1>3, <2>1 DEF PagesInv, PageTypes
<1>5. \A next, x : x \in WantedUpTo(next)' =>
        x \in Lists!ToSet(items') \/ (x \in WantedUpTo(next) /\ x \notin Lists!ToSet(items))
  <2> SUFFICES ASSUME NEW next, NEW x \in ListRows \ unseen', db'[x] # None,
                      Lists!Matches(db'[x], query), Lists!Reached(x, next),
                      x \notin Lists!ToSet(items')
               PROVE  x \in WantedUpTo(next) /\ x \notin Lists!ToSet(items)
    BY DEF WantedUpTo
  <2>1. x # r
    BY <1>2, <1>3
  <2>2. x \notin unseen /\ x \notin Lists!ToSet(items)
    BY <1>3
  <2> QED BY <1>2, <2>1, <2>2 DEF WantedUpTo
<1>6. CacheIsWhole' /\ LoadIsWhole' /\ MoreIsWhole'
  BY DEF PagesInv, CacheIsWhole, LoadIsWhole, MoreIsWhole, IsWhole
<1>7. ListIsWhole'
  <2> SUFFICES ASSUME load = None, ~mixed, NEW x \in WantedUpTo(cursor)'
               PROVE  x \in Lists!ToSet(items')
    BY DEF ListIsWhole, WantedUpTo
  <2>1. \A y \in WantedUpTo(cursor) : y \in Lists!ToSet(items)
    BY DEF PagesInv, ListIsWhole
  <2>2. x \in Lists!ToSet(items') \/ (x \in WantedUpTo(cursor) /\ x \notin Lists!ToSet(items))
    BY <1>5 DEF WantedUpTo
  <2> QED BY <2>1, <2>2
<1> QED BY <1>4, <1>6, <1>7 DEF PagesInv

\* The empty list of the initial state.
LEMMA PagesInitInv == Lists!Init => PagesInv
<1> SUFFICES ASSUME Lists!Init PROVE PagesInv
  OBVIOUS
<1>1. /\ db = [r \in ListRows |-> None] /\ items = <<>> /\ query = All /\ cursor = None
      /\ load = None /\ more = None /\ cache = {}
  BY DEF Lists!Init
<1>2. PageTypes
  <2>1. items \in Seq(ListRows) /\ Distinct(items)
    BY <1>1 DEF Distinct
  <2> QED BY <1>1, <2>1 DEF PageTypes
<1>3. \A r \in ListRows : db[r] = None
  BY <1>1
<1> QED BY <1>1, <1>2, <1>3 DEF PagesInv, CacheIsWhole, LoadIsWhole, MoreIsWhole, ListIsWhole, WantedUpTo

\* Every step, one case for each action.
LEMMA PagesNextInv == PagesInv /\ [Lists!Next]_pagesVars => PagesInv'
<1> SUFFICES ASSUME PagesInv, [Lists!Next]_pagesVars PROVE PagesInv'
  OBVIOUS
<1>1. CASE Lists!LoadFeedNews \/ Lists!LoadMore \/ Lists!AnswerLoad \/ Lists!AnswerMore
  BY <1>1, LoadKeeps, LoadMoreKeeps, AnswerLoadKeeps, AnswerMoreKeeps
<1>2. CASE Lists!ReceiveLoad \/ Lists!LoadFails \/ Lists!ReceiveMore \/ Lists!MoreFails
  BY <1>2, ReceiveLoadKeeps, LoadFailsKeeps, ReceiveMoreKeeps, MoreFailsKeeps
<1>3. CASE Lists!Store
  <2>1. PICK r \in ListRows, label \in Labels :
          db' = [db EXCEPT ![r] = label] /\ Lists!Announce(r, label)
    BY <1>3 DEF Lists!Store
  <2>2. UNCHANGED <<cache, query, cursor, load, more, mixed>>
    BY <1>3 DEF Lists!Store
  <2> QED BY <2>1, <2>2, AnnounceKeeps
<1>4. CASE Lists!Relabel
  <2>1. PICK r \in ListRows, label \in Labels :
          db' = [db EXCEPT ![r] = label] /\ Lists!Announce(r, label)
    BY <1>4 DEF Lists!Relabel
  <2>2. UNCHANGED <<cache, query, cursor, load, more, mixed>>
    BY <1>4 DEF Lists!Relabel
  <2> QED BY <2>1, <2>2, AnnounceKeeps
<1>5. CASE UNCHANGED pagesVars
  BY <1>5 DEF pagesVars, PagesInv, PageTypes, Distinct, CacheIsWhole, LoadIsWhole, MoreIsWhole,
              IsWhole, ListIsWhole, WantedUpTo
<1> QED BY <1>1, <1>2, <1>3, <1>4, <1>5 DEF Lists!Next

\* FeedPages: however loads, further pages, cached replies, failures and the event stream
\* interleave, the list has no row twice, and what it lacks of the filter up to its cursor
\* the stream has lost or cut off or has changed since the server read the page, cached or
\* not, or its load is out or has failed.
THEOREM PagesTheorem == OneSpec => []PagesAreSound
<1>1. OneInit => PagesInv
  BY PagesInitInv DEF OneInit
<1>2. PagesInv /\ [OneNext]_allVars => PagesInv'
  <2>1. [OneNext]_allVars => [Lists!Next]_pagesVars
    BY DEF OneNext, allVars
  <2> QED BY <2>1, PagesNextInv
<1>3. PagesInv => PagesAreSound
  <2> SUFFICES ASSUME PagesInv PROVE Lists!TypeOK /\ Lists!PagesAreSound
    BY DEF PagesAreSound
  <2>1. Lists!ToSet(items) \subseteq ListRows
    BY ListElements DEF PagesInv, PageTypes
  <2>2. Lists!NoRowTwice
    BY DEF PagesInv, PageTypes, Distinct, Lists!NoRowTwice
  <2>3. Lists!NothingSkipped
    BY DEF PagesInv, ListIsWhole, WantedUpTo, Lists!NothingSkipped
  <2> QED BY <2>1, <2>2, <2>3 DEF PagesInv, PageTypes, Lists!TypeOK, Lists!PagesAreSound
<1> QED BY <1>1, <1>2, <1>3, PTL DEF OneSpec
-----------------------------------------------------------------------------
\* A set of numbers that is not empty has a least element.
LEMMA LeastNumber ==
    ASSUME NEW T \in SUBSET Nat, T # {}
    PROVE  \E x \in T : \A y \in T : x <= y
<1> DEFINE R == OpToRel(<, Nat)
<1>1. IsWellFoundedOn(R, Nat)
  BY NatLessThanWellFounded
<1>2. \A x, y \in Nat : <<y, x>> \in R <=> y < x
  BY DEF OpToRel
<1> HIDE DEF R
<1>3. PICK x \in T : \A y \in T : ~(<<y, x>> \in R)
  BY <1>1, WFMin
<1>4. \A y \in T : y \in Nat /\ x \in Nat /\ ~(y < x)
  BY <1>2, <1>3
<1>5. \A y \in T : x <= y
  BY <1>4
<1> QED BY <1>3, <1>5

\* Induction, with the numbers that have the property as a set.
LEMMA Induction ==
    ASSUME NEW T \in SUBSET Nat, 0 \in T, \A n \in T : n + 1 \in T
    PROVE  \A n \in Nat : n \in T
<1> SUFFICES ASSUME Nat \ T # {} PROVE FALSE
  OBVIOUS
<1>1. PICK x \in Nat \ T : \A y \in Nat \ T : x <= y
  BY LeastNumber
<1>2. x # 0 /\ x - 1 \in Nat
  BY <1>1
<1>3. x - 1 \in T
  BY <1>1, <1>2
<1> QED BY <1>1, <1>2, <1>3
-----------------------------------------------------------------------------
(* Topics. *)

Ids == Subjects!TopicIds
TopicLink == Ids \X Classified
TopicRow == [key : Seq(Vocabulary), words : Seq(Vocabulary), counted : SUBSET Classified]
Reading == [news : Classified, words : Seq(Vocabulary)]
CandidateRow == [id : Ids, words : Seq(Vocabulary)]
Created == DOMAIN flushed.topics
PrunedIds == {l[1] : l \in pruned}

\* The types, in two parts.
TableTypes ==
    /\ topics \in [Ids -> TopicRow \union {None}]
    /\ topicLinks \in SUBSET TopicLink /\ pruned \in SUBSET TopicLink
    /\ processed \in SUBSET Classified /\ owed \in [Ids -> SUBSET Classified]
SessionTypes ==
    /\ todo \in Seq(Reading) /\ done \in SUBSET Classified
    /\ Created \in SUBSET Ids /\ flushed.topics \in [Created -> TopicRow]
    /\ flushed.links \in SUBSET TopicLink /\ added \in SUBSET TopicLink
    /\ candidates \in [rows : SUBSET CandidateRow] \union {None}
    /\ touched \in SUBSET Ids
    /\ counted \in [DOMAIN counted -> SUBSET Classified]
    /\ pc \in {"idle", "apply", "commit"}

\* The entity of a row is the first word of its key, if that means something.
RowIsSound(q) == Subjects!Clusterable(q.key) => Subjects!Entity(q) = q.key[1]
RowsAreSound ==
    /\ \A t \in Subjects!VisibleTopics : RowIsSound(Subjects!RowOf(t))
    /\ \A t, u \in Subjects!VisibleTopics :
         Subjects!RowOf(t).key = Subjects!RowOf(u).key => t = u
    /\ \A t \in Created : topics[t] = None /\ flushed.topics[t].counted = {}

\* A reading of the news names what the topic is about.
Fits(n, q) == \E w \in Readings[n] : Subjects!Entity(q) \in Subjects!Range(w)
LinksAreSound ==
    /\ \A l \in topicLinks : topics[l[1]] # None
    /\ \A l \in topicLinks \union flushed.links \union added :
         l[1] \in Subjects!VisibleTopics => Fits(l[2], Subjects!RowOf(l[1]))
    /\ \A l \in flushed.links \union added : l[1] \in touched
    /\ Created = {} => flushed.links = {}

\* A topic the session has touched is there, or known not to be a new one.
SessionIsSound ==
    /\ candidates # None => \A c \in candidates.rows :
         c.id \in Subjects!VisibleTopics => Subjects!RowOf(c.id).words = c.words
    /\ Created \subseteq touched
    /\ \A t \in touched :
         \/ t \in Subjects!CandidateIds \union PrunedIds
         \/ t \in Subjects!VisibleTopics /\ Subjects!Clusterable(Subjects!RowOf(t).key)
    /\ \A i \in 1..Len(todo) : todo[i].words \in Readings[todo[i].news]

\* What the script deletes has a key that says nothing, or loses a link.
ScriptIsSound ==
    seen # None =>
      /\ seen.unrelated \subseteq TopicLink
      /\ seen.drop \subseteq Subjects!Rows
      /\ \A t \in seen.drop : ~Subjects!Clusterable(topics[t].key)
      /\ \A t \in seen.emptied : \E l \in seen.unrelated : l[1] = t

\* What is counted, and what is going to be.
StatisticsAreSound ==
    /\ \A t \in Ids : owed[t] \subseteq Subjects!LinkedIn(topicLinks \union pruned, t)
    /\ \A t \in Subjects!Rows :
         /\ owed[t] \subseteq topics[t].counted \union Subjects!LinkedIn(pruned, t)
         /\ topics[t].counted \subseteq Subjects!LinkedIn(topicLinks \union pruned, t)
    /\ pc = "commit" =>
         /\ DOMAIN counted \subseteq touched
         /\ \A t \in touched \ DOMAIN counted :
              t \in Subjects!VisibleTopics => Subjects!LinkedIn(topicLinks, t) = {}
         /\ \A t \in DOMAIN counted :
              /\ Subjects!LinkedIn(topicLinks, t) \subseteq counted[t]
              /\ counted[t] \subseteq
                   Subjects!LinkedIn(topicLinks \union flushed.links \union pruned, t)

\* A news is linked, has been, or cannot be.
Placed(n, ls) ==
    \/ \E l \in ls : l[2] = n
    \/ \E w \in Readings[n] : ~Subjects!Clusterable(Subjects!TopicKey(w))
WorkIsPlaced ==
    /\ \A n \in processed : Placed(n, topicLinks \union pruned)
    /\ \A n \in done : Placed(n, topicLinks \union pruned \union flushed.links \union added)

TopicsInv ==
    /\ TableTypes /\ SessionTypes /\ RowsAreSound /\ LinksAreSound
    /\ SessionIsSound /\ ScriptIsSound /\ StatisticsAreSound /\ WorkIsPlaced
-----------------------------------------------------------------------------
\* A set of numbers has a least one.
LEMMA LeastFacts ==
    ASSUME NEW T \in SUBSET Nat, T # {}
    PROVE  Subjects!Least(T) \in T /\ \A j \in T : Subjects!Least(T) <= j
BY LeastNumber DEF Subjects!Least

\* The elements of a list of words.
LEMMA WordFacts ==
    ASSUME NEW w \in Seq(Vocabulary)
    PROVE  /\ Len(w) \in Nat /\ DOMAIN w = 1..Len(w) /\ \A i \in 1..Len(w) : w[i] \in Vocabulary
           /\ w # <<>> => 1 \in DOMAIN w
           /\ Subjects!Range(w) \subseteq Vocabulary /\ None \notin Subjects!Range(w)
           /\ \A i \in DOMAIN w : w[i] \in Subjects!Range(w)
<1>1. Len(w) \in Nat /\ DOMAIN w = 1..Len(w) /\ \A i \in 1..Len(w) : w[i] \in Vocabulary
  OBVIOUS
<1>2. w # <<>> => 1 \in DOMAIN w
  <2> SUFFICES ASSUME w # <<>> PROVE 1 \in DOMAIN w
    OBVIOUS
  <2>1. Len(w) # 0
    OBVIOUS
  <2> QED BY <1>1, <2>1
<1>3. Subjects!Range(w) \subseteq Vocabulary /\ \A i \in DOMAIN w : w[i] \in Subjects!Range(w)
  BY <1>1 DEF Subjects!Range
<1> QED BY <1>1, <1>2, <1>3, TopicsAssumption

\* A key begins with the first of the words.
LEMMA KeyFacts ==
    ASSUME NEW w \in Seq(Vocabulary)
    PROVE  /\ Subjects!TopicKey(w) \in Seq(Vocabulary)
           /\ Subjects!Clusterable(Subjects!TopicKey(w)) =>
                w # <<>> /\ Subjects!TopicKey(w)[1] = w[1] /\ w[1] \notin Generic
<1> DEFINE rest == 2..Len(w)
           themes == {i \in rest : w[i] \in Themes}
           chosen == IF themes = {} THEN rest ELSE themes
           start == Subjects!Least(chosen)
           others == chosen \ {start}
<1>1. Len(w) \in Nat /\ \A i \in 1..Len(w) : w[i] \in Vocabulary
  BY WordFacts
<1>2. Subjects!TopicKey(w) =
        IF w = <<>> THEN <<>>
        ELSE IF chosen = {} THEN <<w[1]>>
        ELSE IF others = {} THEN <<w[1], w[start]>>
        ELSE <<w[1], w[start], w[Subjects!Least(others)]>>
  BY DEF Subjects!TopicKey, Subjects!Fallback
<1>3. chosen \in SUBSET Nat /\ chosen \subseteq 1..Len(w) /\ others \subseteq chosen
  BY <1>1
<1>4. w # <<>> => w[1] \in Vocabulary
  BY WordFacts
<1> HIDE DEF chosen, others, start
<1>5. CASE w = <<>>
  <2>1. Subjects!TopicKey(w) = <<>>
    BY <1>2, <1>5
  <2> QED BY <2>1 DEF Subjects!Clusterable, Subjects!Fallback
<1>6. CASE w # <<>> /\ chosen = {}
  <2>1. Subjects!TopicKey(w) = <<w[1]>>
    BY <1>2, <1>6
  <2> QED BY <1>4, <1>6, <2>1 DEF Subjects!Clusterable
<1>7. CASE w # <<>> /\ chosen # {} /\ others = {}
  <2>1. Subjects!TopicKey(w) = <<w[1], w[start]>>
    BY <1>2, <1>7
  <2>2. w[start] \in Vocabulary
    BY <1>1, <1>3, <1>7, LeastFacts DEF start
  <2> QED BY <1>4, <1>7, <2>1, <2>2 DEF Subjects!Clusterable
<1>8. CASE w # <<>> /\ chosen # {} /\ others # {}
  <2>1. Subjects!TopicKey(w) = <<w[1], w[start], w[Subjects!Least(others)]>>
    BY <1>2, <1>8
  <2>2. w[start] \in Vocabulary /\ w[Subjects!Least(others)] \in Vocabulary
    BY <1>1, <1>3, <1>8, LeastFacts DEF start
  <2> QED BY <1>4, <1>8, <2>1, <2>2 DEF Subjects!Clusterable
<1> QED BY <1>5, <1>6, <1>7, <1>8

\* The first word, if it means something, is the subject.
LEMMA FirstIsSubject ==
    ASSUME NEW w \in Seq(Vocabulary), w # <<>>, w[1] \notin Generic
    PROVE  Subjects!Subject(w) = w[1] /\ w[1] # None /\ w[1] \in Subjects!Range(w)
<1> DEFINE at == {i \in DOMAIN w : w[i] \notin Generic}
<1>1. 1 \in at /\ at \in SUBSET Nat /\ \A i \in at : 1 <= i
  BY WordFacts
<1>2. Subjects!Subject(w) = IF at = {} THEN None ELSE w[Subjects!Least(at)]
  BY DEF Subjects!Subject
<1>3. w[1] \in Vocabulary /\ w[1] \in Subjects!Range(w)
  BY WordFacts
<1> HIDE DEF at
<1>4. Subjects!Least(at) \in Nat /\ 1 <= Subjects!Least(at) /\ Subjects!Least(at) <= 1
  BY <1>1, LeastFacts
<1>5. Subjects!Least(at) = 1
  BY <1>4
<1> QED BY <1>1, <1>2, <1>3, <1>5, TopicsAssumption

\* A row made of these words is sound.
LEMMA NewRowIsSound ==
    ASSUME NEW q, q.words \in Seq(Vocabulary), q.key = Subjects!TopicKey(q.words)
    PROVE  RowIsSound(q)
<1> SUFFICES ASSUME Subjects!Clusterable(q.key) PROVE Subjects!Entity(q) = q.key[1]
  BY DEF RowIsSound
<1>1. q.words # <<>> /\ q.key[1] = q.words[1] /\ q.words[1] \notin Generic
  BY KeyFacts
<1>2. Subjects!Subject(q.words) = q.words[1] /\ q.words[1] # None
  BY <1>1, FirstIsSubject
<1> QED BY <1>1, <1>2 DEF Subjects!Entity

\* The topic of a key fits what has that key.
LEMMA ExactFits ==
    ASSUME NEW w \in Seq(Vocabulary), NEW q, RowIsSound(q), q.key = Subjects!TopicKey(w),
           Subjects!Clusterable(q.key)
    PROVE  Subjects!Entity(q) \in Subjects!Range(w)
<1>1. w # <<>> /\ q.key[1] = w[1]
  BY KeyFacts
<1>2. Subjects!Entity(q) = w[1]
  BY <1>1 DEF RowIsSound
<1> QED BY <1>1, <1>2, WordFacts

\* A topic whose keywords match fits, too.
LEMMA MatchFits ==
    ASSUME NEW w \in Seq(Vocabulary), NEW q, Subjects!KeywordsMatch(w, q.words)
    PROVE  Subjects!Entity(q) \in Subjects!Range(w)
<1>1. Subjects!Subject(q.words) \in Subjects!Range(w)
  BY DEF Subjects!KeywordsMatch, Subjects!Meaningful
<1>2. Subjects!Subject(q.words) # None
  BY <1>1, WordFacts
<1> QED BY <1>1, <1>2 DEF Subjects!Entity
-----------------------------------------------------------------------------
\* What a SELECT of the session sees are rows.
LEMMA VisibleFacts ==
    ASSUME TopicsInv
    PROVE  /\ Ids \in SUBSET Nat /\ Subjects!VisibleTopics \subseteq Ids
           /\ Subjects!Rows = {t \in Ids : topics[t] # None}
           /\ Subjects!Rows \intersect Created = {}
           /\ Subjects!VisibleTopics = Subjects!Rows \union Created
           /\ \A t \in Subjects!VisibleTopics : Subjects!RowOf(t) \in TopicRow
           /\ \A t \in Subjects!Rows : Subjects!RowOf(t) = topics[t]
           /\ \A t \in Created : Subjects!RowOf(t) = flushed.topics[t]
<1>1. Ids \in SUBSET Nat
  BY TopicsAssumption DEF Ids, Subjects!TopicIds
<1>2. Subjects!Rows = {t \in Ids : topics[t] # None}
  BY DEF Subjects!Rows, Ids
<1>3. Subjects!VisibleTopics = Subjects!Rows \union Created
  BY DEF Subjects!VisibleTopics, Created
<1>4. Created \subseteq Ids /\ \A t \in Created : topics[t] = None
  BY DEF TopicsInv, SessionTypes, RowsAreSound
<1>5. \A t \in Created : Subjects!RowOf(t) = flushed.topics[t]
  BY DEF Subjects!RowOf, Created
<1>6. \A t \in Subjects!Rows : Subjects!RowOf(t) = topics[t]
  BY <1>2, <1>4 DEF Subjects!RowOf, Created
<1>7. \A t \in Created : flushed.topics[t] \in TopicRow
  BY DEF TopicsInv, SessionTypes
<1>8. \A t \in Subjects!Rows : topics[t] \in TopicRow
  BY <1>2 DEF TopicsInv, TableTypes
<1> QED BY <1>1, <1>2, <1>3, <1>4, <1>5, <1>6, <1>7, <1>8

\* Tables and flushed rows that stay are seen as before.
LEMMA SameTables ==
    ASSUME UNCHANGED <<topics, flushed>>
    PROVE  /\ Created' = Created /\ Subjects!Rows' = Subjects!Rows
           /\ Subjects!VisibleTopics' = Subjects!VisibleTopics
           /\ \A t \in Subjects!VisibleTopics : Subjects!RowOf(t)' = Subjects!RowOf(t)
BY DEF Created, Subjects!Rows, Subjects!VisibleTopics, Subjects!RowOf

\* The instance counts as FiniteSets does.
LEMMA SubjectsCardinality == \A S : Subjects!Cardinality(S) = Cardinality(S)
BY Zenon DEF Subjects!Cardinality, Cardinality

\* A batch is read, in the order of the ids.
LEMMA StartBatchKeeps == ASSUME TopicsInv, Subjects!StartBatch PROVE TopicsInv'
<1>1. \E chosen \in SUBSET (Classified \ processed) :
        \E reading \in [chosen -> UNION {Readings[n] : n \in Classified}] :
          /\ \A n \in chosen : reading[n] \in Readings[n]
          /\ \E order \in [1..Subjects!Cardinality(chosen) -> chosen] :
               todo' = [i \in DOMAIN order |-> [news |-> order[i], words |-> reading[order[i]]]]
  BY DEF Subjects!StartBatch
<1>2. /\ pc' = "apply"
      /\ UNCHANGED <<topics, topicLinks, processed, done, flushed, added, candidates, touched,
                     counted, seen, pruned, owed>>
  BY DEF Subjects!StartBatch
<1>3. todo' \in Seq(Reading) /\ \A i \in 1..Len(todo') : todo'[i].words \in Readings[todo'[i].news]
  <2>a. PICK chosen \in SUBSET (Classified \ processed) :
          \E reading \in [chosen -> UNION {Readings[n] : n \in Classified}] :
            /\ \A n \in chosen : reading[n] \in Readings[n]
            /\ \E order \in [1..Subjects!Cardinality(chosen) -> chosen] :
                 todo' = [i \in DOMAIN order |-> [news |-> order[i], words |-> reading[order[i]]]]
    BY <1>1
  <2>b. PICK reading \in [chosen -> UNION {Readings[n] : n \in Classified}] :
          /\ \A n \in chosen : reading[n] \in Readings[n]
          /\ \E order \in [1..Subjects!Cardinality(chosen) -> chosen] :
               todo' = [i \in DOMAIN order |-> [news |-> order[i], words |-> reading[order[i]]]]
    BY <2>a
  <2>c. PICK order \in [1..Subjects!Cardinality(chosen) -> chosen] :
          todo' = [i \in DOMAIN order |-> [news |-> order[i], words |-> reading[order[i]]]]
    BY <2>b
  <2> DEFINE k == Subjects!Cardinality(chosen)
  <2> DEFINE new == [i \in 1..k |-> [news |-> order[i], words |-> reading[order[i]]]]
  <2>1. \A i \in 1..k : order[i] \in chosen
    BY <2>c
  <2>2. \A i \in 1..k : /\ [news |-> order[i], words |-> reading[order[i]]] \in Reading
                        /\ reading[order[i]] \in Readings[order[i]]
    <3> TAKE i \in 1..k
    <3>1. order[i] \in Classified /\ reading[order[i]] \in Readings[order[i]]
      BY <2>1, <2>b
    <3>2. reading[order[i]] \in Seq(Vocabulary)
      BY <3>1, TopicsAssumption
    <3> QED BY <3>1, <3>2 DEF Reading
  <2>3. todo' = new
    BY <2>c
  <2>4. k \in Nat
    <3>1. IsFiniteSet(chosen) /\ k = Cardinality(chosen)
      BY FS_Subset, TopicsAssumption, SubjectsCardinality
    <3> HIDE DEF k
    <3> QED BY <3>1, FS_CardinalityType
  <2> HIDE DEF k
  <2>5. todo' \in Seq(Reading) /\ Len(todo') = k
    <3>1. new \in [1..k -> Reading]
      BY <2>2
    <3> HIDE DEF new
    <3> QED BY <2>3, <2>4, <3>1
  <2> QED BY <2>2, <2>3, <2>5
<1> USE <1>2, <1>3, SameTables
<1>4. TableTypes' /\ SessionTypes'
  BY DEF TopicsInv, TableTypes, SessionTypes, Created
<1>5. RowsAreSound' /\ LinksAreSound'
  BY DEF TopicsInv, RowsAreSound, LinksAreSound
<1>6. SessionIsSound' /\ ScriptIsSound'
  BY DEF TopicsInv, SessionIsSound, ScriptIsSound, Subjects!CandidateIds, PrunedIds
<1>7. StatisticsAreSound' /\ WorkIsPlaced'
  BY DEF TopicsInv, StatisticsAreSound, WorkIsPlaced
<1> QED BY <1>4, <1>5, <1>6, <1>7 DEF TopicsInv

\* The head of the queue is read from the batch, and so is what follows it.
LEMMA HeadFacts ==
    ASSUME TopicsInv, todo # <<>>
    PROVE  /\ Head(todo) \in Reading /\ Head(todo).news \in Classified
           /\ Head(todo).words \in Seq(Vocabulary)
           /\ Head(todo).words \in Readings[Head(todo).news]
           /\ Tail(todo) \in Seq(Reading)
           /\ \A i \in 1..Len(Tail(todo)) :
                Tail(todo)[i].words \in Readings[Tail(todo)[i].news]
<1>1. todo \in Seq(Reading) /\ \A i \in 1..Len(todo) : todo[i].words \in Readings[todo[i].news]
  BY DEF TopicsInv, SessionTypes, SessionIsSound
<1>2. Len(todo) \in Nat /\ Len(todo) >= 1 /\ Head(todo) = todo[1] /\ todo[1] \in Reading
  BY <1>1
<1>3. Tail(todo) \in Seq(Reading) /\ Len(Tail(todo)) = Len(todo) - 1
  BY <1>1
<1>4. \A i \in 1..Len(Tail(todo)) : Tail(todo)[i] = todo[i + 1] /\ i + 1 \in 1..Len(todo)
  BY <1>1, <1>2, <1>3
<1>5. Head(todo).news \in Classified /\ Head(todo).words \in Seq(Vocabulary)
  BY <1>2 DEF Reading
<1>6. Head(todo).words \in Readings[Head(todo).news]
  BY <1>1, <1>2
<1> QED BY <1>1, <1>2, <1>3, <1>4, <1>5, <1>6

\* The candidates are visible, or were when they were read.
LEMMA CandidateFacts ==
    ASSUME TopicsInv
    PROVE  /\ Subjects!Candidates \in SUBSET CandidateRow
           /\ \A c \in Subjects!Candidates :
                /\ c.id \in Ids /\ c.id \in Subjects!VisibleTopics \union Subjects!CandidateIds
                /\ c.id \in Subjects!VisibleTopics => Subjects!RowOf(c.id).words = c.words
           /\ Subjects!CandidateIds \subseteq {c.id : c \in Subjects!Candidates}
           /\ Subjects!CandidateIds \subseteq Ids
<1>1. CASE candidates # None
  <2>1. Subjects!Candidates = candidates.rows /\ Subjects!CandidateIds = {c.id : c \in candidates.rows}
    BY <1>1 DEF Subjects!Candidates, Subjects!CandidateIds
  <2>2. candidates.rows \in SUBSET CandidateRow
    BY <1>1 DEF TopicsInv, SessionTypes
  <2>3. \A c \in candidates.rows :
          c.id \in Ids /\ (c.id \in Subjects!VisibleTopics => Subjects!RowOf(c.id).words = c.words)
    BY <1>1, <2>2 DEF TopicsInv, SessionIsSound, CandidateRow
  <2> QED BY <2>1, <2>2, <2>3
<1>2. CASE candidates = None
  <2>1. /\ Subjects!Candidates = {[id |-> t, words |-> Subjects!RowOf(t).words] :
                                     t \in Subjects!VisibleTopics}
        /\ Subjects!CandidateIds = {}
    BY <1>2 DEF Subjects!Candidates, Subjects!CandidateIds
  <2>2. \A t \in Subjects!VisibleTopics : t \in Ids /\ Subjects!RowOf(t).words \in Seq(Vocabulary)
    BY VisibleFacts DEF TopicRow
  <2> QED BY <2>1, <2>2 DEF CandidateRow
<1> QED BY <1>1, <1>2

\* What is found has the key, or is a candidate that matches.
LEMMA FindFacts ==
    ASSUME TopicsInv, NEW key, NEW words
    PROVE  LET found == Subjects!FindTopic(key, words)
           IN  /\ found = None => Subjects!Exact(key) = {}
               /\ found # None =>
                    \/ /\ found \in Subjects!VisibleTopics /\ Subjects!RowOf(found).key = key
                    \/ /\ Subjects!Exact(key) = {}
                       /\ \E c \in Subjects!Candidates :
                            c.id = found /\ Subjects!KeywordsMatch(words, c.words)
<1> DEFINE same == Subjects!Exact(key)
           matching == Subjects!Matching(words)
           found == Subjects!FindTopic(key, words)
<1>1. found = IF same # {} THEN CHOOSE t \in same : TRUE
              ELSE IF matching # {} THEN Subjects!Least(matching) ELSE None
  BY DEF Subjects!FindTopic
<1>2. same = {t \in Subjects!VisibleTopics : Subjects!RowOf(t).key = key}
  BY DEF Subjects!Exact
<1>3. matching = {c.id : c \in {d \in Subjects!Candidates : Subjects!KeywordsMatch(words, d.words)}}
  BY DEF Subjects!Matching
<1>4. Ids \in SUBSET Nat /\ None \notin Nat /\ matching \in SUBSET Nat /\ same \in SUBSET Nat
  BY <1>2, <1>3, CandidateFacts, VisibleFacts, TopicsAssumption
<1> HIDE DEF same, matching, found
<1>5. CASE same # {}
  <2>1. found \in same
    BY <1>1, <1>5
  <2>2. found # None /\ found \in Subjects!VisibleTopics /\ Subjects!RowOf(found).key = key
    BY <1>2, <1>4, <2>1
  <2> QED BY <2>2 DEF found
<1>6. CASE same = {} /\ matching # {}
  <2>1. found = Subjects!Least(matching)
    BY <1>1, <1>6
  <2>2. found \in matching
    BY <1>4, <1>6, <2>1, LeastFacts
  <2>3. PICK c \in Subjects!Candidates : c.id = found /\ Subjects!KeywordsMatch(words, c.words)
    BY <1>3, <2>2
  <2>4. found # None
    BY <1>4, <2>2
  <2> QED BY <1>6, <2>3, <2>4 DEF found, same
<1>7. CASE same = {} /\ matching = {}
  <2>1. found = None
    BY <1>1, <1>7
  <2> QED BY <1>7, <2>1 DEF found, same
<1> QED BY <1>5, <1>6, <1>7

\* What every way of applying a reading has in common.
LEMMA ApplyingKeeps ==
    ASSUME TopicsInv, todo # <<>>, pc = "apply", todo' = Tail(todo),
           done' = done \union {Head(todo).news},
           UNCHANGED <<topics, topicLinks, processed, counted, pc, seen, pruned, owed>>,
           Created' \in SUBSET Ids, flushed'.topics \in [Created' -> TopicRow],
           flushed'.links \in SUBSET TopicLink, added' \in SUBSET TopicLink,
           candidates' \in [rows : SUBSET CandidateRow] \union {None}, touched' \in SUBSET Ids,
           flushed.links \union added \subseteq flushed'.links \union added',
           Placed(Head(todo).news, topicLinks \union pruned \union flushed'.links \union added'),
           RowsAreSound', LinksAreSound', Created' \subseteq touched',
           candidates' # None => \A c \in candidates'.rows :
             c.id \in Subjects!VisibleTopics' => Subjects!RowOf(c.id)'.words = c.words,
           \A t \in touched' :
             \/ t \in Subjects!CandidateIds' \union PrunedIds
             \/ t \in Subjects!VisibleTopics' /\ Subjects!Clusterable(Subjects!RowOf(t)'.key)
    PROVE  TopicsInv'
<1>1. TableTypes'
  BY DEF TopicsInv, TableTypes
<1>2. SessionTypes'
  <2>1. todo' \in Seq(Reading) /\ done' \in SUBSET Classified
    BY HeadFacts DEF TopicsInv, SessionTypes
  <2>2. counted' \in [DOMAIN counted' -> SUBSET Classified] /\ pc' \in {"idle", "apply", "commit"}
    BY DEF TopicsInv, SessionTypes
  <2> QED BY <2>1, <2>2 DEF SessionTypes
<1>3. SessionIsSound'
  <2>1. \A i \in 1..Len(todo') : todo'[i].words \in Readings[todo'[i].news]
    BY HeadFacts
  <2>2. PrunedIds' = PrunedIds
    BY DEF PrunedIds
  <2> QED BY <2>1, <2>2 DEF SessionIsSound
<1>4. ScriptIsSound' /\ StatisticsAreSound'
  <2>1. Subjects!Rows' = Subjects!Rows
    BY DEF Subjects!Rows
  <2> QED BY <2>1 DEF TopicsInv, ScriptIsSound, StatisticsAreSound
<1>5. WorkIsPlaced'
  <2>1. \A n \in processed : Placed(n, topicLinks \union pruned)
    BY DEF TopicsInv, WorkIsPlaced
  <2>2. \A n \in done : Placed(n, topicLinks \union pruned \union flushed.links \union added)
    BY DEF TopicsInv, WorkIsPlaced
  <2>3. \A n \in done' : Placed(n, topicLinks \union pruned \union flushed'.links \union added')
    BY <2>2 DEF Placed
  <2> QED BY <2>1, <2>3 DEF WorkIsPlaced
<1> QED BY <1>1, <1>2, <1>3, <1>4, <1>5 DEF TopicsInv

\* A reading whose key says nothing leaves no link.
LEMMA SkippingKeeps ==
    ASSUME TopicsInv, todo # <<>>, pc = "apply", todo' = Tail(todo),
           done' = done \union {Head(todo).news},
           UNCHANGED <<topics, topicLinks, processed, counted, pc, seen, pruned, owed>>,
           ~Subjects!Clusterable(Subjects!TopicKey(Head(todo).words)),
           UNCHANGED <<flushed, added, candidates, touched>>
    PROVE  TopicsInv'
<1> USE SameTables
<1>1. /\ Created' \in SUBSET Ids /\ flushed'.topics \in [Created' -> TopicRow]
      /\ flushed'.links \in SUBSET TopicLink /\ added' \in SUBSET TopicLink
      /\ candidates' \in [rows : SUBSET CandidateRow] \union {None} /\ touched' \in SUBSET Ids
  BY DEF TopicsInv, SessionTypes
<1>2. RowsAreSound' /\ LinksAreSound'
  BY DEF TopicsInv, RowsAreSound, LinksAreSound
<1>3. Placed(Head(todo).news, topicLinks \union pruned \union flushed'.links \union added')
  BY HeadFacts DEF Placed
<1>4. Subjects!CandidateIds' = Subjects!CandidateIds
  BY DEF Subjects!CandidateIds
<1>5. /\ Created' \subseteq touched'
      /\ candidates' # None => \A c \in candidates'.rows :
           c.id \in Subjects!VisibleTopics' => Subjects!RowOf(c.id)'.words = c.words
      /\ \A t \in touched' :
           \/ t \in Subjects!CandidateIds' \union PrunedIds
           \/ t \in Subjects!VisibleTopics' /\ Subjects!Clusterable(Subjects!RowOf(t)'.key)
  BY <1>4 DEF TopicsInv, SessionIsSound
<1> QED BY <1>1, <1>2, <1>3, <1>5, ApplyingKeeps

\* The news joins a topic that fits it.
LEMMA JoiningKeeps ==
    ASSUME TopicsInv, todo # <<>>, pc = "apply", todo' = Tail(todo),
           done' = done \union {Head(todo).news},
           UNCHANGED <<topics, topicLinks, processed, counted, pc, seen, pruned, owed>>,
           Subjects!Clusterable(Subjects!TopicKey(Head(todo).words)),
           NEW u, u = Subjects!FindTopic(Subjects!TopicKey(Head(todo).words), Head(todo).words),
           u # None,
           Subjects!JoinTopic(u, Subjects!TopicKey(Head(todo).words), Head(todo).news)
    PROVE  TopicsInv'
<1> DEFINE n == Head(todo).news
           words == Head(todo).words
           key == Subjects!TopicKey(words)
<1>1. /\ added' = added \union ({<<u, n>>} \ topicLinks)
      /\ touched' = touched \union {u}
      /\ candidates' = IF Subjects!Exact(key) = {} THEN [rows |-> Subjects!Candidates] ELSE candidates
      /\ flushed' = flushed
  BY DEF Subjects!JoinTopic, Subjects!Remember
<1>2. n \in Classified /\ words \in Seq(Vocabulary) /\ words \in Readings[n]
  BY HeadFacts
<1>3. \/ u \in Subjects!VisibleTopics /\ Subjects!RowOf(u).key = key
      \/ /\ Subjects!Exact(key) = {}
         /\ \E c \in Subjects!Candidates : c.id = u /\ Subjects!KeywordsMatch(words, c.words)
  BY FindFacts
<1>4. Subjects!Clusterable(key)
  OBVIOUS
<1> HIDE DEF key, words, n
<1>5. u \in Ids
  BY <1>3, VisibleFacts, CandidateFacts
<1>6. u \in Subjects!VisibleTopics => Fits(n, Subjects!RowOf(u))
  <2> SUFFICES ASSUME u \in Subjects!VisibleTopics
               PROVE  Subjects!Entity(Subjects!RowOf(u)) \in Subjects!Range(words)
    BY <1>2 DEF Fits
  <2>1. CASE Subjects!RowOf(u).key = key
    <3>1. RowIsSound(Subjects!RowOf(u))
      BY DEF TopicsInv, RowsAreSound
    <3> QED BY <1>2, <1>4, <2>1, <3>1, ExactFits DEF key
  <2>2. CASE \E c \in Subjects!Candidates : c.id = u /\ Subjects!KeywordsMatch(words, c.words)
    <3>1. Subjects!KeywordsMatch(words, Subjects!RowOf(u).words)
      BY <2>2, CandidateFacts
    <3> QED BY <1>2, <3>1, MatchFits
  <2> QED BY <1>3, <2>1, <2>2
<1> USE SameTables
<1>7. UNCHANGED <<topics, flushed>>
  BY <1>1
<1>8. /\ Created' \in SUBSET Ids /\ flushed'.topics \in [Created' -> TopicRow]
      /\ flushed'.links \in SUBSET TopicLink /\ added' \in SUBSET TopicLink
      /\ touched' \in SUBSET Ids
  BY <1>1, <1>2, <1>5, <1>7 DEF TopicsInv, SessionTypes, TopicLink
<1>9. candidates' \in [rows : SUBSET CandidateRow] \union {None}
  BY <1>1, CandidateFacts DEF TopicsInv, SessionTypes
<1>10. RowsAreSound'
  BY <1>7 DEF TopicsInv, RowsAreSound
<1>11. LinksAreSound'
  <2>1. \A l \in topicLinks' : topics'[l[1]] # None
    BY DEF TopicsInv, LinksAreSound
  <2>2. topicLinks' \union flushed'.links \union added' \subseteq
          (topicLinks \union flushed.links \union added) \union {<<u, n>>}
    BY <1>1
  <2>3. \A l \in topicLinks \union flushed.links \union added :
          l[1] \in Subjects!VisibleTopics => Fits(l[2], Subjects!RowOf(l[1]))
    BY DEF TopicsInv, LinksAreSound
  <2>4. \A l \in topicLinks' \union flushed'.links \union added' :
          l[1] \in Subjects!VisibleTopics => Fits(l[2], Subjects!RowOf(l[1]))
    BY <1>6, <2>2, <2>3
  <2>5. \A l \in topicLinks' \union flushed'.links \union added' :
          l[1] \in Subjects!VisibleTopics' => Fits(l[2], Subjects!RowOf(l[1])')
    BY <1>7, <2>4
  <2>6. \A l \in flushed'.links \union added' : l[1] \in touched'
    BY <1>1 DEF TopicsInv, LinksAreSound
  <2>7. Created' = {} => flushed'.links = {}
    BY <1>1, <1>7 DEF TopicsInv, LinksAreSound
  <2> QED BY <2>1, <2>5, <2>6, <2>7 DEF LinksAreSound, Fits
<1>12. Placed(n, topicLinks \union pruned \union flushed'.links \union added')
  <2>1. <<u, n>> \in topicLinks \union pruned \union flushed'.links \union added' /\ <<u, n>>[2] = n
    BY <1>1
  <2> QED BY <2>1 DEF Placed
<1>13. Created' \subseteq touched'
  BY <1>1, <1>7 DEF TopicsInv, SessionIsSound
<1>14. candidates' # None => \A c \in candidates'.rows :
         c.id \in Subjects!VisibleTopics' => Subjects!RowOf(c.id)'.words = c.words
  <2>1. candidates' # None => \A c \in candidates'.rows :
          c.id \in Subjects!VisibleTopics => Subjects!RowOf(c.id).words = c.words
    BY <1>1, CandidateFacts DEF TopicsInv, SessionIsSound
  <2> QED BY <1>7, <2>1
<1>15. \A t \in touched' :
         \/ t \in Subjects!CandidateIds' \union PrunedIds
         \/ t \in Subjects!VisibleTopics' /\ Subjects!Clusterable(Subjects!RowOf(t)'.key)
  <2>1. Subjects!CandidateIds' = IF candidates' = None THEN {} ELSE {c.id : c \in candidates'.rows}
    BY DEF Subjects!CandidateIds
  <2>2. Subjects!CandidateIds \subseteq Subjects!CandidateIds'
    <3>1. CASE Subjects!Exact(key) = {}
      <4>1. candidates' # None /\ candidates'.rows = Subjects!Candidates
        BY <1>1, <3>1, CandidateFacts, TopicsAssumption, VisibleFacts DEF CandidateRow
      <4> QED BY <2>1, <4>1, CandidateFacts
    <3>2. CASE Subjects!Exact(key) # {}
      BY <1>1, <3>2 DEF Subjects!CandidateIds
    <3> QED BY <3>1, <3>2
  <2>3. \A t \in touched :
          \/ t \in Subjects!CandidateIds' \union PrunedIds
          \/ t \in Subjects!VisibleTopics' /\ Subjects!Clusterable(Subjects!RowOf(t)'.key)
    BY <1>7, <2>2 DEF TopicsInv, SessionIsSound
  <2>4. \/ u \in Subjects!CandidateIds'
        \/ u \in Subjects!VisibleTopics' /\ Subjects!Clusterable(Subjects!RowOf(u)'.key)
    <3>1. CASE u \in Subjects!VisibleTopics /\ Subjects!RowOf(u).key = key
      BY <1>4, <1>7, <3>1
    <3>2. CASE /\ Subjects!Exact(key) = {}
               /\ \E c \in Subjects!Candidates : c.id = u /\ Subjects!KeywordsMatch(words, c.words)
      <4>1. candidates' # None /\ candidates'.rows = Subjects!Candidates
        BY <1>1, <3>2, CandidateFacts, TopicsAssumption, VisibleFacts DEF CandidateRow
      <4> QED BY <2>1, <3>2, <4>1
    <3> QED BY <1>3, <3>1, <3>2
  <2> QED BY <1>1, <2>3, <2>4
<1>16. /\ flushed.links \union added \subseteq flushed'.links \union added'
       /\ done' = done \union {n}
  BY <1>1 DEF n
<1> QED BY <1>8, <1>9, <1>10, <1>11, <1>12, <1>13, <1>14, <1>15, <1>16, ApplyingKeeps DEF n

\* A topic of its own is new to all that were ever there, or ever linked.
LEMMA FreeFacts ==
    ASSUME TopicsInv, Subjects!FreeIds # {}
    PROVE  LET t == Subjects!Least(Subjects!FreeIds)
           IN  /\ t \in Ids /\ t \notin Subjects!VisibleTopics /\ t \notin Created
               /\ topics[t] = None /\ t \notin touched
               /\ t \notin {c.id : c \in Subjects!Candidates}
               /\ \A l \in topicLinks \union flushed.links \union added : l[1] # t
<1> DEFINE t == Subjects!Least(Subjects!FreeIds)
           old == Subjects!VisibleTopics \union {l[1] : l \in pruned} \union Subjects!CandidateIds
<1>1. Subjects!FreeIds = {x \in Ids : \A u \in old : u < x}
  BY DEF Subjects!FreeIds, Ids
<1>2. Ids \in SUBSET Nat
  BY VisibleFacts
<1>3. t \in Subjects!FreeIds
  BY <1>1, <1>2, LeastFacts
<1> HIDE DEF t, old
<1>4. t \in Ids /\ \A u \in old : u < t
  BY <1>1, <1>3
<1>5. t \notin old
  BY <1>2, <1>4
<1>6. t \notin Subjects!VisibleTopics /\ t \notin Created /\ topics[t] = None
  BY <1>4, <1>5, VisibleFacts DEF old
<1>7. t \notin touched
  <2>1. \A u \in touched : u \in old
    BY DEF TopicsInv, SessionIsSound, PrunedIds, old
  <2> QED BY <1>5, <2>1
<1>8. t \notin {c.id : c \in Subjects!Candidates}
  BY <1>5, <1>6, CandidateFacts DEF old
<1>9. \A l \in topicLinks \union flushed.links \union added : l[1] # t
  <2>1. \A l \in topicLinks : topics[l[1]] # None
    BY DEF TopicsInv, LinksAreSound
  <2>2. \A l \in flushed.links \union added : l[1] \in touched
    BY DEF TopicsInv, LinksAreSound
  <2> QED BY <1>6, <1>7, <2>1, <2>2
<1> QED BY <1>4, <1>6, <1>7, <1>8, <1>9 DEF t

\* The news gets a topic of its own; what the session holds is written with it.
LEMMA CreatingKeeps ==
    ASSUME TopicsInv, todo # <<>>, pc = "apply", todo' = Tail(todo),
           done' = done \union {Head(todo).news},
           UNCHANGED <<topics, topicLinks, processed, counted, pc, seen, pruned, owed>>,
           Subjects!Clusterable(Subjects!TopicKey(Head(todo).words)),
           None = Subjects!FindTopic(Subjects!TopicKey(Head(todo).words), Head(todo).words),
           Subjects!CreateTopic(Subjects!TopicKey(Head(todo).words), Head(todo).words,
                                Head(todo).news)
    PROVE  TopicsInv'
<1> DEFINE n == Head(todo).news
           words == Head(todo).words
           key == Subjects!TopicKey(words)
<1> PICK t : t = Subjects!Least(Subjects!FreeIds)
  OBVIOUS
<1> DEFINE row == [key |-> key, words |-> words, counted |-> {}]
<1>1. /\ flushed' = [topics |-> [x \in Created \union {t} |->
                                   IF x = t THEN row ELSE flushed.topics[x]],
                     links |-> flushed.links \union added]
      /\ added' = {<<t, n>>}
      /\ touched' = touched \union {t}
      /\ candidates' = [rows |-> Subjects!Candidates \union {[id |-> t, words |-> words]}]
  BY DEF Subjects!CreateTopic, Created
<1>2. n \in Classified /\ words \in Seq(Vocabulary) /\ words \in Readings[n]
  BY HeadFacts
<1>3. Subjects!Exact(key) = {}
  BY FindFacts
<1>4. Subjects!Clusterable(key)
  OBVIOUS
<1>5. /\ t \in Ids /\ t \notin Subjects!VisibleTopics /\ t \notin Created
      /\ topics[t] = None /\ t \notin touched
      /\ t \notin {c.id : c \in Subjects!Candidates}
      /\ \A l \in topicLinks \union flushed.links \union added : l[1] # t
  BY FreeFacts DEF Subjects!CreateTopic
<1>6. row \in TopicRow /\ row.key = key /\ row.words = words /\ row.counted = {}
  BY <1>2, KeyFacts DEF TopicRow
<1>7. RowIsSound(row)
  BY <1>2, <1>6, NewRowIsSound
<1>8. Fits(n, row)
  <2>1. Subjects!Entity(row) \in Subjects!Range(words)
    BY <1>2, <1>4, <1>6, <1>7, ExactFits
  <2> QED BY <1>2, <2>1 DEF Fits
<1>9. done' = done \union {n}
  OBVIOUS
<1> HIDE DEF row, key, words, n
<1>10. /\ Created' = Created \union {t} /\ flushed'.links = flushed.links \union added
       /\ flushed'.topics = [x \in Created \union {t} |-> IF x = t THEN row ELSE flushed.topics[x]]
  BY <1>1 DEF Created
<1>11. /\ flushed'.topics[t] = row
       /\ \A x \in Created : x # t /\ flushed'.topics[x] = flushed.topics[x]
  BY <1>5, <1>10
<1>12. /\ Subjects!Rows' = Subjects!Rows
       /\ Subjects!VisibleTopics' = Subjects!VisibleTopics \union {t}
  BY <1>10 DEF Subjects!VisibleTopics, Subjects!Rows, Created
<1>13. /\ Subjects!RowOf(t)' = row
       /\ \A x \in Subjects!VisibleTopics : x # t /\ Subjects!RowOf(x)' = Subjects!RowOf(x)
  <2>1. \A x : Subjects!RowOf(x)' = IF x \in Created' THEN flushed'.topics[x] ELSE topics[x]
    BY DEF Subjects!RowOf, Created
  <2>2. \A x : Subjects!RowOf(x) = IF x \in Created THEN flushed.topics[x] ELSE topics[x]
    BY DEF Subjects!RowOf, Created
  <2> QED BY <1>5, <1>10, <1>11, <2>1, <2>2
<1>14. Created' \in SUBSET Ids /\ flushed'.topics \in [Created' -> TopicRow]
  <2>1. Created \in SUBSET Ids /\ flushed.topics \in [Created -> TopicRow]
    BY DEF TopicsInv, SessionTypes
  <2> QED BY <1>5, <1>6, <1>10, <2>1
<1>15. /\ flushed'.links \in SUBSET TopicLink /\ added' \in SUBSET TopicLink
       /\ touched' \in SUBSET Ids
  BY <1>1, <1>2, <1>5, <1>10 DEF TopicsInv, SessionTypes, TopicLink
<1>16. [id |-> t, words |-> words] \in CandidateRow
  BY <1>2, <1>5 DEF CandidateRow
<1>17. candidates' \in [rows : SUBSET CandidateRow] \union {None}
  BY <1>1, <1>16, CandidateFacts
<1>18. RowsAreSound'
  <2>1. \A x \in Subjects!VisibleTopics : RowIsSound(Subjects!RowOf(x))
    BY DEF TopicsInv, RowsAreSound
  <2>2. \A x \in Subjects!VisibleTopics' : RowIsSound(Subjects!RowOf(x)')
    BY <1>7, <1>12, <1>13, <2>1
  <2>3. \A x, y \in Subjects!VisibleTopics :
          Subjects!RowOf(x).key = Subjects!RowOf(y).key => x = y
    BY DEF TopicsInv, RowsAreSound
  <2>4. \A x \in Subjects!VisibleTopics : Subjects!RowOf(x).key # row.key
    BY <1>3, <1>6 DEF Subjects!Exact
  <2>5. \A x, y \in Subjects!VisibleTopics' :
          Subjects!RowOf(x)'.key = Subjects!RowOf(y)'.key => x = y
    BY <1>12, <1>13, <2>3, <2>4
  <2>6. \A x \in Created' : topics'[x] = None /\ flushed'.topics[x].counted = {}
    <3>1. \A x \in Created : topics[x] = None /\ flushed.topics[x].counted = {}
      BY DEF TopicsInv, RowsAreSound
    <3> QED BY <1>5, <1>6, <1>10, <1>11, <3>1
  <2> QED BY <2>2, <2>5, <2>6 DEF RowsAreSound, RowIsSound
<1>19. LinksAreSound'
  <2>1. \A l \in topicLinks' : topics'[l[1]] # None
    BY DEF TopicsInv, LinksAreSound
  <2>2. topicLinks' \union flushed'.links \union added' =
          (topicLinks \union flushed.links \union added) \union {<<t, n>>}
    BY <1>1, <1>10
  <2>3. \A l \in topicLinks \union flushed.links \union added :
          /\ l[1] \in Subjects!VisibleTopics => Fits(l[2], Subjects!RowOf(l[1]))
          /\ l[1] # t
    BY <1>5 DEF TopicsInv, LinksAreSound
  <2>4. \A l \in topicLinks \union flushed.links \union added :
          l[1] \in Subjects!VisibleTopics' => Fits(l[2], Subjects!RowOf(l[1])')
    BY <1>12, <1>13, <2>3
  <2>5. Fits(<<t, n>>[2], Subjects!RowOf(<<t, n>>[1])')
    BY <1>8, <1>13
  <2>6. \A l \in topicLinks' \union flushed'.links \union added' :
          l[1] \in Subjects!VisibleTopics' => Fits(l[2], Subjects!RowOf(l[1])')
    BY <2>2, <2>4, <2>5
  <2>7. \A l \in flushed'.links \union added' : l[1] \in touched'
    <3>1. \A l \in flushed.links \union added : l[1] \in touched
      BY DEF TopicsInv, LinksAreSound
    <3> QED BY <1>1, <1>10, <3>1
  <2>8. Created' # {}
    BY <1>10
  <2> QED BY <2>1, <2>6, <2>7, <2>8 DEF LinksAreSound, Fits
<1>20. Placed(n, topicLinks \union pruned \union flushed'.links \union added')
  <2>1. <<t, n>> \in topicLinks \union pruned \union flushed'.links \union added' /\ <<t, n>>[2] = n
    BY <1>1
  <2> QED BY <2>1 DEF Placed
<1>21. Created' \subseteq touched'
  BY <1>1, <1>10 DEF TopicsInv, SessionIsSound
<1>22. candidates' # None => \A c \in candidates'.rows :
         c.id \in Subjects!VisibleTopics' => Subjects!RowOf(c.id)'.words = c.words
  <2>1. candidates'.rows = Subjects!Candidates \union {[id |-> t, words |-> words]}
    BY <1>1
  <2>2. \A c \in Subjects!Candidates : c.id # t
    BY <1>5
  <2>3. \A c \in Subjects!Candidates :
          c.id \in Subjects!VisibleTopics' => Subjects!RowOf(c.id)'.words = c.words
    BY <1>12, <1>13, <2>2, CandidateFacts
  <2> QED BY <1>6, <1>13, <2>1, <2>3
<1>23. \A u \in touched' :
         \/ u \in Subjects!CandidateIds' \union PrunedIds
         \/ u \in Subjects!VisibleTopics' /\ Subjects!Clusterable(Subjects!RowOf(u)'.key)
  <2>1. candidates' # None
    <3> DEFINE read == Subjects!Candidates \union {[id |-> t, words |-> words]}
    <3>1. read \in SUBSET CandidateRow
      BY <1>16, CandidateFacts
    <3>2. CandidateRow \subseteq [id : Nat, words : Seq(Vocabulary)]
      BY VisibleFacts DEF CandidateRow
    <3>3. candidates' = [rows |-> read]
      BY <1>1
    <3> HIDE DEF read
    <3>4. [rows |-> read] \in [rows : SUBSET [id : Nat, words : Seq(Vocabulary)]]
      BY <3>1, <3>2
    <3> QED BY <3>3, <3>4, TopicsAssumption
  <2>2. Subjects!CandidateIds' = {c.id : c \in candidates'.rows}
    BY <2>1 DEF Subjects!CandidateIds
  <2>3. candidates'.rows = Subjects!Candidates \union {[id |-> t, words |-> words]}
    BY <1>1
  <2>4. t \in Subjects!CandidateIds' /\ Subjects!CandidateIds \subseteq Subjects!CandidateIds'
    BY <2>2, <2>3, CandidateFacts
  <2>5. \A u \in touched :
          \/ u \in Subjects!CandidateIds \union PrunedIds
          \/ u \in Subjects!VisibleTopics /\ Subjects!Clusterable(Subjects!RowOf(u).key)
    BY DEF TopicsInv, SessionIsSound
  <2> QED BY <1>1, <1>12, <1>13, <2>4, <2>5
<1>24. flushed.links \union added \subseteq flushed'.links \union added'
  BY <1>10
<1> QED BY <1>9, <1>14, <1>15, <1>17, <1>18, <1>19, <1>20, <1>21, <1>22, <1>23, <1>24,
           ApplyingKeeps DEF n

\* The next reading of the batch.
LEMMA ApplyResultKeeps == ASSUME TopicsInv, Subjects!ApplyResult PROVE TopicsInv'
<1> DEFINE found == Subjects!FindTopic(Subjects!TopicKey(Head(todo).words), Head(todo).words)
<1>1. /\ pc = "apply" /\ todo # <<>> /\ todo' = Tail(todo)
      /\ done' = done \union {Head(todo).news}
      /\ UNCHANGED <<topics, topicLinks, processed, counted, pc, seen, pruned, owed>>
  BY DEF Subjects!ApplyResult
<1>2. \/ /\ ~Subjects!Clusterable(Subjects!TopicKey(Head(todo).words))
         /\ UNCHANGED <<flushed, added, candidates, touched>>
      \/ /\ Subjects!Clusterable(Subjects!TopicKey(Head(todo).words)) /\ found # None
         /\ Subjects!JoinTopic(found, Subjects!TopicKey(Head(todo).words), Head(todo).news)
      \/ /\ Subjects!Clusterable(Subjects!TopicKey(Head(todo).words)) /\ found = None
         /\ Subjects!CreateTopic(Subjects!TopicKey(Head(todo).words), Head(todo).words,
                                 Head(todo).news)
  BY DEF Subjects!ApplyResult
<1> HIDE DEF found
<1>3. CASE /\ ~Subjects!Clusterable(Subjects!TopicKey(Head(todo).words))
           /\ UNCHANGED <<flushed, added, candidates, touched>>
  BY <1>1, <1>3, SkippingKeeps
<1>4. CASE /\ Subjects!Clusterable(Subjects!TopicKey(Head(todo).words)) /\ found # None
           /\ Subjects!JoinTopic(found, Subjects!TopicKey(Head(todo).words), Head(todo).news)
  BY <1>1, <1>4, JoiningKeeps DEF found
<1>5. CASE /\ Subjects!Clusterable(Subjects!TopicKey(Head(todo).words)) /\ found = None
           /\ Subjects!CreateTopic(Subjects!TopicKey(Head(todo).words), Head(todo).words,
                                   Head(todo).news)
  BY <1>1, <1>5, CreatingKeeps DEF found
<1> QED BY <1>2, <1>3, <1>4, <1>5

\* The statistics of the topics touched, from what the session sees.
LEMMA RefreshKeeps == ASSUME TopicsInv, Subjects!Refresh PROVE TopicsInv'
<1> DEFINE ids == touched \intersect Subjects!VisibleTopics
           seenLinks1 == topicLinks \union flushed.links
<1>1. /\ counted' = [t \in {x \in ids : Subjects!LinkedIn(seenLinks1, x) # {}} |->
                       Subjects!LinkedIn(seenLinks1, t)]
      /\ pc' = "commit"
      /\ UNCHANGED <<topics, topicLinks, processed, todo, done, flushed, added, candidates,
                     touched, seen, pruned, owed>>
  BY DEF Subjects!Refresh, Subjects!RefreshTopicStats
<1>2. DOMAIN counted' = {x \in ids : Subjects!LinkedIn(seenLinks1, x) # {}}
      /\ \A t \in DOMAIN counted' : counted'[t] = Subjects!LinkedIn(seenLinks1, t)
  BY <1>1
<1> HIDE DEF ids, seenLinks1
<1> USE SameTables
<1>3. UNCHANGED <<topics, flushed>>
  BY <1>1
<1>4. \A t : Subjects!LinkedIn(seenLinks1, t) \in SUBSET Classified
  BY DEF TopicsInv, TableTypes, SessionTypes, TopicLink, Subjects!LinkedIn, seenLinks1
<1>5. TableTypes'
  BY <1>1 DEF TopicsInv, TableTypes
<1>6. SessionTypes'
  <2>1. counted' \in [DOMAIN counted' -> SUBSET Classified]
    BY <1>1, <1>2, <1>4
  <2> QED BY <1>1, <1>3, <2>1 DEF TopicsInv, SessionTypes
<1>7. RowsAreSound' /\ LinksAreSound'
  BY <1>1, <1>3 DEF TopicsInv, RowsAreSound, LinksAreSound
<1>8. SessionIsSound' /\ ScriptIsSound'
  BY <1>1, <1>3 DEF TopicsInv, SessionIsSound, ScriptIsSound, Subjects!CandidateIds, PrunedIds
<1>9. StatisticsAreSound'
  <2>1. \A t : Subjects!LinkedIn(topicLinks, t) \subseteq Subjects!LinkedIn(seenLinks1, t)
    BY DEF Subjects!LinkedIn, seenLinks1
  <2>2. \A t : Subjects!LinkedIn(seenLinks1, t) \subseteq
                 Subjects!LinkedIn(topicLinks \union flushed.links \union pruned, t)
    BY DEF Subjects!LinkedIn, seenLinks1
  <2>3. DOMAIN counted' \subseteq touched'
    BY <1>1, <1>2 DEF ids
  <2>4. \A t \in touched' \ DOMAIN counted' :
          t \in Subjects!VisibleTopics' => Subjects!LinkedIn(topicLinks', t) = {}
    BY <1>1, <1>2, <1>3, <2>1 DEF ids
  <2>5. \A t \in DOMAIN counted' :
          /\ Subjects!LinkedIn(topicLinks', t) \subseteq counted'[t]
          /\ counted'[t] \subseteq
               Subjects!LinkedIn(topicLinks' \union flushed'.links \union pruned', t)
    BY <1>1, <1>2, <2>1, <2>2
  <2>6. /\ \A t \in Ids : owed'[t] \subseteq Subjects!LinkedIn(topicLinks' \union pruned', t)
        /\ \A t \in Subjects!Rows' :
             /\ owed'[t] \subseteq topics'[t].counted \union Subjects!LinkedIn(pruned', t)
             /\ topics'[t].counted \subseteq Subjects!LinkedIn(topicLinks' \union pruned', t)
    BY <1>1, <1>3 DEF TopicsInv, StatisticsAreSound
  <2> QED BY <2>3, <2>4, <2>5, <2>6 DEF StatisticsAreSound
<1>10. WorkIsPlaced'
  BY <1>1 DEF TopicsInv, WorkIsPlaced
<1> QED BY <1>5, <1>6, <1>7, <1>8, <1>9, <1>10 DEF TopicsInv

\* A session without anything.
LEMMA EmptySession ==
    ASSUME Subjects!EndSession
    PROVE  /\ Created' = {} /\ flushed'.links = {} /\ added' = {} /\ candidates' = None
           /\ touched' = {} /\ DOMAIN counted' = {} /\ done' = {} /\ todo' = <<>> /\ pc' = "idle"
           /\ SessionTypes' /\ SessionIsSound'
           /\ Subjects!VisibleTopics' = Subjects!Rows'
           /\ \A t : Subjects!RowOf(t)' = topics'[t]
<1>1. /\ flushed' = [topics |-> [t \in {} |-> None], links |-> {}]
      /\ added' = {} /\ candidates' = None /\ touched' = {} /\ counted' = [t \in {} |-> {}]
      /\ done' = {} /\ todo' = <<>> /\ pc' = "idle"
  BY DEF Subjects!EndSession
<1>2. Created' = {} /\ flushed'.links = {} /\ DOMAIN counted' = {}
  BY <1>1 DEF Created
<1>3. SessionTypes'
  <2>1. todo' \in Seq(Reading) /\ done' \in SUBSET Classified
    BY <1>1
  <2>2. Created' \in SUBSET Ids /\ flushed'.topics \in [Created' -> TopicRow]
    BY <1>1, <1>2
  <2>3. counted' \in [DOMAIN counted' -> SUBSET Classified]
    BY <1>1, <1>2
  <2> QED BY <1>1, <1>2, <2>1, <2>2, <2>3 DEF SessionTypes
<1>4. SessionIsSound'
  <2>1. Len(todo') = 0
    BY <1>1
  <2> QED BY <1>1, <1>2, <2>1 DEF SessionIsSound
<1>5. Subjects!VisibleTopics' = Subjects!Rows' /\ \A t : Subjects!RowOf(t)' = topics'[t]
  BY <1>2 DEF Created, Subjects!VisibleTopics, Subjects!RowOf
<1> QED BY <1>1, <1>2, <1>3, <1>4, <1>5

\* Nothing of the batch stays.
LEMMA RollBackKeeps == ASSUME TopicsInv, Subjects!RollBack PROVE TopicsInv'
<1>1. Subjects!EndSession /\ UNCHANGED <<topics, topicLinks, processed, seen, pruned, owed>>
  BY DEF Subjects!RollBack
<1> USE <1>1, EmptySession
<1>2. Subjects!Rows' = Subjects!Rows /\ Subjects!Rows \subseteq Subjects!VisibleTopics
  BY VisibleFacts DEF Subjects!Rows
<1>3. \A t \in Subjects!VisibleTopics' :
        t \in Subjects!VisibleTopics /\ Subjects!RowOf(t)' = Subjects!RowOf(t)
  BY <1>2, VisibleFacts
<1>4. TableTypes'
  BY DEF TopicsInv, TableTypes
<1>5. RowsAreSound'
  <2>1. \A t \in Subjects!VisibleTopics' : RowIsSound(Subjects!RowOf(t)')
    BY <1>3 DEF TopicsInv, RowsAreSound
  <2>2. \A t, u \in Subjects!VisibleTopics' :
          Subjects!RowOf(t)'.key = Subjects!RowOf(u)'.key => t = u
    BY <1>3 DEF TopicsInv, RowsAreSound
  <2> QED BY <2>1, <2>2 DEF RowsAreSound, RowIsSound
<1>6. LinksAreSound'
  <2>1. \A l \in topicLinks' : topics'[l[1]] # None
    BY DEF TopicsInv, LinksAreSound
  <2>2. \A l \in topicLinks' \union flushed'.links \union added' :
          l[1] \in Subjects!VisibleTopics' => Fits(l[2], Subjects!RowOf(l[1])')
    BY <1>3 DEF TopicsInv, LinksAreSound
  <2> QED BY <2>1, <2>2 DEF LinksAreSound, Fits
<1>7. ScriptIsSound' /\ StatisticsAreSound' /\ WorkIsPlaced'
  BY <1>2 DEF TopicsInv, ScriptIsSound, StatisticsAreSound, WorkIsPlaced
<1> QED BY <1>4, <1>5, <1>6, <1>7 DEF TopicsInv

\* The news linked to a topic, by parts.
LEMMA LinkedFacts ==
    \A t, ls, ms :
      /\ Subjects!LinkedIn(ls \union ms, t) = Subjects!LinkedIn(ls, t) \union Subjects!LinkedIn(ms, t)
      /\ ls \subseteq ms => Subjects!LinkedIn(ls, t) \subseteq Subjects!LinkedIn(ms, t)
BY DEF Subjects!LinkedIn

\* Only the key and the words of a row say what it is about.
LEMMA SameSubject ==
    ASSUME NEW q, NEW r, q.key = r.key, q.words = r.words
    PROVE  /\ Subjects!Entity(q) = Subjects!Entity(r)
           /\ RowIsSound(q) <=> RowIsSound(r)
           /\ \A n : Fits(n, q) <=> Fits(n, r)
<1>1. Subjects!Entity(q) = Subjects!Entity(r)
  BY DEF Subjects!Entity
<1> QED BY <1>1 DEF RowIsSound, Fits

\* What the commit writes, row by row.
LEMMA CommitRows ==
    ASSUME TopicsInv, Subjects!Commit
    PROVE  /\ topics' \in [Ids -> TopicRow \union {None}]
           /\ Subjects!Rows' = Subjects!VisibleTopics
           /\ DOMAIN counted \subseteq touched /\ touched \subseteq Subjects!VisibleTopics
           /\ \A t \in Subjects!VisibleTopics :
                /\ topics'[t].key = Subjects!RowOf(t).key
                /\ topics'[t].words = Subjects!RowOf(t).words
                /\ topics'[t].counted = IF t \in DOMAIN counted THEN counted[t]
                                        ELSE Subjects!RowOf(t).counted
<1>1. /\ pc = "commit" /\ touched \subseteq Subjects!VisibleTopics
      /\ topics' = [t \in Ids |->
                      LET row == IF t \in Subjects!VisibleTopics THEN Subjects!RowOf(t) ELSE None
                      IN  IF t \in DOMAIN counted THEN [row EXCEPT !.counted = counted[t]] ELSE row]
  BY DEF Subjects!Commit, Subjects!CanCommit, Ids
<1>2. DOMAIN counted \subseteq touched
  BY <1>1 DEF TopicsInv, StatisticsAreSound
<1>3. \A t \in DOMAIN counted : counted[t] \in SUBSET Classified
  BY DEF TopicsInv, SessionTypes
<1>4. \A t \in Subjects!VisibleTopics : t \in Ids /\ Subjects!RowOf(t) \in TopicRow
  BY VisibleFacts
<1>5. ASSUME NEW t \in Subjects!VisibleTopics
      PROVE  /\ topics'[t] \in TopicRow
             /\ topics'[t].key = Subjects!RowOf(t).key
             /\ topics'[t].words = Subjects!RowOf(t).words
             /\ topics'[t].counted = IF t \in DOMAIN counted THEN counted[t]
                                     ELSE Subjects!RowOf(t).counted
  <2>1. CASE t \in DOMAIN counted
    <3>1. topics'[t] = [Subjects!RowOf(t) EXCEPT !.counted = counted[t]]
      BY <1>1, <1>4, <2>1
    <3> QED BY <1>3, <1>4, <2>1, <3>1 DEF TopicRow
  <2>2. CASE t \notin DOMAIN counted
    BY <1>1, <1>4, <2>2
  <2> QED BY <2>1, <2>2
<1>6. \A t \in Ids \ Subjects!VisibleTopics : topics'[t] = None
  BY <1>1, <1>2
<1>7. None \notin TopicRow
  BY TopicsAssumption DEF TopicRow
<1>8. Subjects!Rows' = Subjects!VisibleTopics
  <2>1. Subjects!Rows' = {t \in Ids : topics'[t] # None}
    BY DEF Subjects!Rows, Ids
  <2>2. \A t \in Subjects!VisibleTopics : topics'[t] # None
    BY <1>5, <1>7
  <2> QED BY <1>4, <1>6, <2>1, <2>2
<1>9. topics' \in [Ids -> TopicRow \union {None}]
  <2>1. \A t \in Ids : topics'[t] \in TopicRow \union {None}
    BY <1>5, <1>6
  <2>2. topics' = [t \in Ids |-> topics'[t]]
    BY <1>1
  <2> QED BY <2>1, <2>2
<1> QED BY <1>1, <1>2, <1>5, <1>8, <1>9

\* The batch is written.
LEMMA CommitKeeps == ASSUME TopicsInv, Subjects!Commit PROVE TopicsInv'
<1>1. /\ Subjects!EndSession /\ UNCHANGED <<seen, pruned>> /\ pc = "commit"
      /\ topicLinks' = topicLinks \union flushed.links \union added
      /\ processed' = processed \union done
      /\ owed' = [t \in Ids |-> IF t \in touched THEN Subjects!LinkedIn(topicLinks, t) ELSE owed[t]]
  BY DEF Subjects!Commit, Ids
<1>2. TableTypes'
  <2>1. \A t : Subjects!LinkedIn(topicLinks, t) \in SUBSET Classified
    BY DEF TopicsInv, TableTypes, TopicLink, Subjects!LinkedIn
  <2>2. owed' \in [Ids -> SUBSET Classified]
    BY <1>1, <2>1 DEF TopicsInv, TableTypes
  <2> QED BY <1>1, <2>2, CommitRows DEF TopicsInv, TableTypes, SessionTypes
<1>3. /\ Created' = {} /\ flushed'.links = {} /\ added' = {} /\ done' = {} /\ pc' = "idle"
      /\ SessionTypes' /\ SessionIsSound'
      /\ Subjects!VisibleTopics' = Subjects!VisibleTopics
      /\ \A t : Subjects!RowOf(t)' = topics'[t]
  BY <1>1, EmptySession, CommitRows
<1>4. \A t \in Subjects!VisibleTopics :
        /\ Subjects!RowOf(t)'.key = Subjects!RowOf(t).key
        /\ Subjects!RowOf(t)'.words = Subjects!RowOf(t).words
  BY <1>3, CommitRows
<1>5. RowsAreSound'
  <2>1. \A t \in Subjects!VisibleTopics' : RowIsSound(Subjects!RowOf(t)')
    <3>1. \A t \in Subjects!VisibleTopics : RowIsSound(Subjects!RowOf(t))
      BY DEF TopicsInv, RowsAreSound
    <3> QED BY <1>3, <1>4, <3>1, SameSubject
  <2>2. \A t, u \in Subjects!VisibleTopics' :
          Subjects!RowOf(t)'.key = Subjects!RowOf(u)'.key => t = u
    BY <1>3, <1>4 DEF TopicsInv, RowsAreSound
  <2> QED BY <1>3, <2>1, <2>2 DEF RowsAreSound, RowIsSound
<1>6. LinksAreSound'
  <2>1. \A l \in topicLinks' : l[1] \in Subjects!Rows'
    <3>1. \A l \in topicLinks : topics[l[1]] # None /\ l[1] \in Ids
      BY DEF TopicsInv, LinksAreSound, TableTypes, TopicLink
    <3>2. \A l \in topicLinks : l[1] \in Subjects!VisibleTopics
      BY <3>1, VisibleFacts
    <3>3. \A l \in flushed.links \union added : l[1] \in touched
      BY DEF TopicsInv, LinksAreSound
    <3> QED BY <1>1, <3>2, <3>3, CommitRows
  <2>2. \A l \in topicLinks' : topics'[l[1]] # None
    BY <2>1 DEF Subjects!Rows
  <2>3. \A l \in topicLinks' :
          l[1] \in Subjects!VisibleTopics => Fits(l[2], Subjects!RowOf(l[1]))
    BY <1>1 DEF TopicsInv, LinksAreSound
  <2>4. \A l \in topicLinks' :
          l[1] \in Subjects!VisibleTopics' => Fits(l[2], Subjects!RowOf(l[1])')
    BY <1>3, <1>4, <2>3, SameSubject
  <2> QED BY <1>3, <2>2, <2>4 DEF LinksAreSound, Fits
<1>7. ScriptIsSound'
  <2> SUFFICES ASSUME seen # None
               PROVE  /\ seen.unrelated \subseteq TopicLink
                      /\ seen.drop \subseteq Subjects!Rows'
                      /\ \A t \in seen.drop : ~Subjects!Clusterable(topics'[t].key)
                      /\ \A t \in seen.emptied : \E l \in seen.unrelated : l[1] = t
    BY <1>1 DEF ScriptIsSound
  <2>1. /\ seen.unrelated \subseteq TopicLink
        /\ seen.drop \subseteq Subjects!Rows
        /\ \A t \in seen.drop : ~Subjects!Clusterable(topics[t].key)
        /\ \A t \in seen.emptied : \E l \in seen.unrelated : l[1] = t
    BY DEF TopicsInv, ScriptIsSound
  <2>2. \A t \in Subjects!Rows : t \in Subjects!Rows' /\ topics'[t].key = topics[t].key
    BY VisibleFacts, CommitRows
  <2> QED BY <2>1, <2>2
<1>8. StatisticsAreSound'
  <2>1. \A t \in Ids : owed[t] \subseteq Subjects!LinkedIn(topicLinks \union pruned, t)
    BY DEF TopicsInv, StatisticsAreSound
  <2>2. \A t \in Subjects!Rows :
          /\ owed[t] \subseteq topics[t].counted \union Subjects!LinkedIn(pruned, t)
          /\ topics[t].counted \subseteq Subjects!LinkedIn(topicLinks \union pruned, t)
    BY DEF TopicsInv, StatisticsAreSound
  <2>3. /\ \A t \in touched \ DOMAIN counted :
             t \in Subjects!VisibleTopics => Subjects!LinkedIn(topicLinks, t) = {}
        /\ \A t \in DOMAIN counted :
             /\ Subjects!LinkedIn(topicLinks, t) \subseteq counted[t]
             /\ counted[t] \subseteq
                  Subjects!LinkedIn(topicLinks \union flushed.links \union pruned, t)
    BY <1>1 DEF TopicsInv, StatisticsAreSound
  <2>4. \A t : /\ Subjects!LinkedIn(topicLinks, t) \subseteq Subjects!LinkedIn(topicLinks' \union pruned, t)
               /\ Subjects!LinkedIn(topicLinks \union pruned, t) \subseteq
                    Subjects!LinkedIn(topicLinks' \union pruned, t)
               /\ Subjects!LinkedIn(topicLinks \union flushed.links \union pruned, t) \subseteq
                    Subjects!LinkedIn(topicLinks' \union pruned, t)
    BY <1>1 DEF Subjects!LinkedIn
  <2>5. \A t \in Ids : owed'[t] \subseteq Subjects!LinkedIn(topicLinks' \union pruned, t)
    BY <1>1, <2>1, <2>4
  <2>6. ASSUME NEW t \in Subjects!VisibleTopics
        PROVE  /\ owed'[t] \subseteq topics'[t].counted \union Subjects!LinkedIn(pruned, t)
               /\ topics'[t].counted \subseteq Subjects!LinkedIn(topicLinks' \union pruned, t)
    <3>1. t \in Ids
      BY VisibleFacts
    <3>2. CASE t \in DOMAIN counted
      <4>1. t \in touched /\ topics'[t].counted = counted[t]
        BY <3>2, CommitRows
      <4>2. owed'[t] = Subjects!LinkedIn(topicLinks, t)
        BY <1>1, <3>1, <4>1
      <4> QED BY <2>3, <2>4, <3>2, <4>1, <4>2
    <3>3. CASE t \notin DOMAIN counted
      <4>1. topics'[t].counted = Subjects!RowOf(t).counted
        BY <3>3, CommitRows
      <4>2. Subjects!RowOf(t).counted \subseteq Subjects!LinkedIn(topicLinks' \union pruned, t)
        <5>1. CASE t \in Subjects!Rows
          BY <2>2, <2>4, <5>1, VisibleFacts
        <5>2. CASE t \in Created
          <6>1. Subjects!RowOf(t) = flushed.topics[t] /\ flushed.topics[t].counted = {}
            BY <5>2, VisibleFacts DEF TopicsInv, RowsAreSound
          <6> QED BY <6>1
        <5> QED BY <5>1, <5>2, VisibleFacts
      <4>3. owed'[t] \subseteq topics'[t].counted \union Subjects!LinkedIn(pruned, t)
        <5>1. CASE t \in touched
          <6>1. owed'[t] = {}
            BY <1>1, <2>3, <3>1, <3>3, <5>1
          <6> QED BY <6>1
        <5>2. CASE t \notin touched
          <6>1. t \in Subjects!Rows /\ owed'[t] = owed[t]
            BY <1>1, <3>1, <5>2, VisibleFacts DEF TopicsInv, SessionIsSound
          <6> QED BY <2>2, <4>1, <6>1, VisibleFacts
        <5> QED BY <5>1, <5>2
      <4> QED BY <4>1, <4>2, <4>3
    <3> QED BY <3>2, <3>3
  <2> QED BY <1>1, <1>3, <2>5, <2>6, CommitRows DEF StatisticsAreSound
<1>9. WorkIsPlaced'
  <2>1. \A n \in processed' : Placed(n, topicLinks' \union pruned)
    BY <1>1 DEF TopicsInv, WorkIsPlaced, Placed
  <2> QED BY <1>1, <1>3, <2>1 DEF WorkIsPlaced
<1> QED BY <1>2, <1>3, <1>5, <1>6, <1>7, <1>8, <1>9 DEF TopicsInv

\* The script reads.
LEMMA PruneReadsKeeps == ASSUME TopicsInv, Subjects!PruneReads PROVE TopicsInv'
<1> DEFINE drop == {t \in Subjects!Rows : ~Subjects!Clusterable(topics[t].key)}
           unrelated == {l \in topicLinks : l[1] \notin drop /\ Subjects!Unrelated(l[1], l[2])}
           kept == {l \in topicLinks : l[1] \notin drop /\ ~Subjects!Unrelated(l[1], l[2])}
           hit == {l[1] : l \in unrelated}
           emptied == {t \in hit : Subjects!LinkedIn(kept, t) = {}}
<1>1. /\ seen' = [drop |-> drop, unrelated |-> unrelated, hit |-> hit, emptied |-> emptied]
      /\ UNCHANGED <<topics, topicLinks, processed, todo, done, flushed, added, candidates,
                     touched, counted, pc, pruned, owed>>
  BY DEF Subjects!PruneReads, Subjects!pipeline
<1>2. /\ seen'.drop = drop /\ seen'.unrelated = unrelated /\ seen'.emptied = emptied
  BY <1>1
<1> HIDE DEF drop, kept
<1>3. \A t \in emptied : \E l \in unrelated : l[1] = t
  OBVIOUS
<1>4. unrelated \subseteq TopicLink
  BY DEF TopicsInv, TableTypes
<1> HIDE DEF unrelated, hit, emptied
<1>5. drop \subseteq Subjects!Rows /\ \A t \in drop : ~Subjects!Clusterable(topics[t].key)
  BY DEF drop
<1> USE SameTables
<1>6. TableTypes' /\ SessionTypes'
  BY <1>1 DEF TopicsInv, TableTypes, SessionTypes, Created
<1>7. RowsAreSound' /\ LinksAreSound'
  BY <1>1 DEF TopicsInv, RowsAreSound, LinksAreSound
<1>8. SessionIsSound'
  BY <1>1 DEF TopicsInv, SessionIsSound, Subjects!CandidateIds, PrunedIds
<1>9. ScriptIsSound'
  BY <1>1, <1>2, <1>3, <1>4, <1>5 DEF ScriptIsSound
<1>10. StatisticsAreSound' /\ WorkIsPlaced'
  BY <1>1 DEF TopicsInv, StatisticsAreSound, WorkIsPlaced
<1> QED BY <1>6, <1>7, <1>8, <1>9, <1>10 DEF TopicsInv

\* What the script deletes and rewrites.
LEMMA PruneRows ==
    ASSUME TopicsInv, Subjects!PruneWrites
    PROVE  LET doomed == seen.drop \union seen.emptied
               gone == {l \in topicLinks : l[1] \in doomed} \union seen.unrelated
           IN  /\ seen # None /\ Created = {} /\ Created' = {}
               /\ topicLinks' = topicLinks \ gone /\ pruned' = pruned \union gone
               /\ gone \subseteq TopicLink
               /\ topics' \in [Ids -> TopicRow \union {None}]
               /\ Subjects!VisibleTopics = Subjects!Rows /\ Subjects!VisibleTopics' = Subjects!Rows'
               /\ Subjects!Rows' = Subjects!Rows \ doomed
               /\ \A t \in Subjects!Rows : Subjects!RowOf(t) = topics[t]
               /\ \A t \in Subjects!Rows' :
                    /\ Subjects!RowOf(t)' = topics'[t]
                    /\ topics'[t].key = topics[t].key /\ topics'[t].words = topics[t].words
                    /\ \/ topics'[t].counted = topics[t].counted
                       \/ topics'[t].counted = Subjects!LinkedIn(topicLinks', t)
<1> DEFINE doomed == seen.drop \union seen.emptied
           gone == {l \in topicLinks : l[1] \in doomed} \union seen.unrelated
           fresh == Subjects!RefreshTopicStats((seen.hit \ seen.emptied) \intersect Subjects!Rows,
                                               topicLinks \ gone)
<1>1. /\ seen # None /\ DOMAIN flushed.topics = {} /\ flushed' = flushed
      /\ topicLinks' = topicLinks \ gone /\ pruned' = pruned \union gone
      /\ topics' = [t \in Ids |->
                      IF t \in doomed THEN None
                      ELSE IF t \in DOMAIN fresh THEN [topics[t] EXCEPT !.counted = fresh[t]]
                      ELSE topics[t]]
  BY DEF Subjects!PruneWrites, Subjects!pipeline, Ids
<1>2. Created = {} /\ Created' = {}
  BY <1>1 DEF Created
<1>3. gone \subseteq TopicLink
  BY <1>1 DEF TopicsInv, TableTypes, ScriptIsSound
<1>4. /\ DOMAIN fresh \subseteq Subjects!Rows
      /\ \A t \in DOMAIN fresh : fresh[t] = Subjects!LinkedIn(topicLinks \ gone, t)
  BY DEF Subjects!RefreshTopicStats
<1>5. \A t \in DOMAIN fresh : fresh[t] \in SUBSET Classified
  <2>1. \A t : Subjects!LinkedIn(topicLinks \ gone, t) \in SUBSET Classified
    BY DEF TopicsInv, TableTypes, TopicLink, Subjects!LinkedIn
  <2> QED BY <1>4, <2>1
<1>6. /\ Subjects!VisibleTopics = Subjects!Rows /\ Subjects!VisibleTopics' = Subjects!Rows'
      /\ \A t : Subjects!RowOf(t) = topics[t] /\ Subjects!RowOf(t)' = topics'[t]
  BY <1>2 DEF Created, Subjects!VisibleTopics, Subjects!RowOf
<1>7. /\ \A t \in Subjects!Rows : t \in Ids /\ topics[t] \in TopicRow
      /\ \A t \in Ids \ Subjects!Rows : topics[t] = None
  BY <1>6, VisibleFacts
<1>8. Subjects!Rows' = {t \in Ids : topics'[t] # None}
  BY DEF Subjects!Rows, Ids
<1> HIDE DEF fresh, gone, doomed
<1>9. ASSUME NEW t \in Subjects!Rows \ doomed
      PROVE  /\ topics'[t] \in TopicRow
             /\ topics'[t].key = topics[t].key /\ topics'[t].words = topics[t].words
             /\ \/ topics'[t].counted = topics[t].counted
                \/ topics'[t].counted = Subjects!LinkedIn(topicLinks', t)
  <2>1. CASE t \in DOMAIN fresh
    <3>1. topics'[t] = [topics[t] EXCEPT !.counted = fresh[t]]
      BY <1>1, <1>7, <2>1
    <3>2. fresh[t] = Subjects!LinkedIn(topicLinks', t) /\ fresh[t] \in SUBSET Classified
      BY <1>1, <1>4, <1>5, <2>1
    <3> QED BY <1>7, <3>1, <3>2 DEF TopicRow
  <2>2. CASE t \notin DOMAIN fresh
    BY <1>1, <1>7, <2>2
  <2> QED BY <2>1, <2>2
<1>10. \A t \in Ids : t \in doomed \/ t \notin Subjects!Rows => topics'[t] = None
  BY <1>1, <1>4, <1>7
<1>11. None \notin TopicRow
  BY TopicsAssumption DEF TopicRow
<1>12. Subjects!Rows' = Subjects!Rows \ doomed
  BY <1>7, <1>8, <1>9, <1>10, <1>11
<1>13. topics' \in [Ids -> TopicRow \union {None}]
  <2>1. \A t \in Ids : topics'[t] \in TopicRow \union {None}
    BY <1>9, <1>10
  <2>2. topics' = [t \in Ids |-> topics'[t]]
    BY <1>1
  <2> QED BY <2>1, <2>2
<1> QED BY <1>1, <1>2, <1>3, <1>6, <1>9, <1>12, <1>13 DEF gone, doomed

\* The script deletes.
LEMMA PruneWritesKeeps == ASSUME TopicsInv, Subjects!PruneWrites PROVE TopicsInv'
<1> DEFINE doomed == seen.drop \union seen.emptied
           gone == {l \in topicLinks : l[1] \in doomed} \union seen.unrelated
<1>1. /\ seen # None /\ Created = {} /\ Created' = {}
      /\ topicLinks' = topicLinks \ gone /\ pruned' = pruned \union gone
      /\ gone \subseteq TopicLink
      /\ topics' \in [Ids -> TopicRow \union {None}]
      /\ Subjects!VisibleTopics = Subjects!Rows /\ Subjects!VisibleTopics' = Subjects!Rows'
      /\ Subjects!Rows' = Subjects!Rows \ doomed
  BY PruneRows
<1>2. \A t \in Subjects!Rows' :
        /\ t \in Subjects!Rows /\ Subjects!RowOf(t) = topics[t] /\ Subjects!RowOf(t)' = topics'[t]
        /\ topics'[t].key = topics[t].key /\ topics'[t].words = topics[t].words
        /\ \/ topics'[t].counted = topics[t].counted
           \/ topics'[t].counted = Subjects!LinkedIn(topicLinks', t)
  BY <1>1, PruneRows
<1>3. /\ UNCHANGED <<processed, todo, done, flushed, added, candidates, touched, counted, pc,
                     owed>>
      /\ seen' = None
  BY DEF Subjects!PruneWrites, Subjects!pipeline
<1>4. \A l \in topicLinks' : l \in topicLinks /\ l[1] \notin doomed
  BY <1>1
<1>5. \A t \in seen.emptied : \E l \in gone : l[1] = t
  BY <1>1 DEF TopicsInv, ScriptIsSound
<1>6. \A t \in seen.drop : ~Subjects!Clusterable(topics[t].key)
  BY <1>1 DEF TopicsInv, ScriptIsSound
<1>7. doomed = seen.drop \union seen.emptied
  OBVIOUS
<1> HIDE DEF gone, doomed
<1>8. TableTypes'
  BY <1>1, <1>3, <1>4 DEF TopicsInv, TableTypes
<1>9. SessionTypes'
  BY <1>1, <1>3 DEF TopicsInv, SessionTypes
<1>10. RowsAreSound'
  <2>1. \A t \in Subjects!VisibleTopics' : RowIsSound(Subjects!RowOf(t)')
    <3>1. \A t \in Subjects!Rows : RowIsSound(Subjects!RowOf(t))
      BY <1>1 DEF TopicsInv, RowsAreSound
    <3> QED BY <1>1, <1>2, <3>1, SameSubject
  <2>2. \A t, u \in Subjects!Rows : topics[t].key = topics[u].key => t = u
    BY <1>1, VisibleFacts DEF TopicsInv, RowsAreSound
  <2>3. \A t, u \in Subjects!VisibleTopics' :
          Subjects!RowOf(t)'.key = Subjects!RowOf(u)'.key => t = u
    BY <1>1, <1>2, <2>2
  <2> QED BY <1>1, <2>1, <2>3 DEF RowsAreSound, RowIsSound
<1>11. LinksAreSound'
  <2>1. \A l \in topicLinks' : topics'[l[1]] # None
    <3>1. \A l \in topicLinks : topics[l[1]] # None /\ l[1] \in Ids
      BY DEF TopicsInv, LinksAreSound, TableTypes, TopicLink
    <3>2. \A l \in topicLinks : l[1] \in Subjects!Rows
      BY <3>1, VisibleFacts
    <3>3. \A l \in topicLinks' : l[1] \in Subjects!Rows'
      BY <1>1, <1>4, <3>2
    <3> QED BY <3>3 DEF Subjects!Rows
  <2>2. \A l \in topicLinks' \union flushed'.links \union added' :
          l \in topicLinks \union flushed.links \union added
    BY <1>3, <1>4
  <2>3. \A l \in topicLinks \union flushed.links \union added :
          l[1] \in Subjects!VisibleTopics => Fits(l[2], Subjects!RowOf(l[1]))
    BY DEF TopicsInv, LinksAreSound
  <2>4. \A l \in topicLinks' \union flushed'.links \union added' :
          l[1] \in Subjects!VisibleTopics' => Fits(l[2], Subjects!RowOf(l[1])')
    BY <1>1, <1>2, <2>2, <2>3, SameSubject
  <2>5. /\ \A l \in flushed'.links \union added' : l[1] \in touched'
        /\ Created' = {} => flushed'.links = {}
    BY <1>1, <1>3 DEF TopicsInv, LinksAreSound
  <2> QED BY <2>1, <2>4, <2>5 DEF LinksAreSound, Fits
<1>12. SessionIsSound'
  <2>1. candidates' # None => \A c \in candidates'.rows :
          c.id \in Subjects!VisibleTopics' => Subjects!RowOf(c.id)'.words = c.words
    <3>1. candidates # None => \A c \in candidates.rows :
            c.id \in Subjects!VisibleTopics => Subjects!RowOf(c.id).words = c.words
      BY DEF TopicsInv, SessionIsSound
    <3> QED BY <1>1, <1>2, <1>3, <3>1
  <2>2. Subjects!CandidateIds' = Subjects!CandidateIds
    BY <1>3 DEF Subjects!CandidateIds
  <2>3. PrunedIds' = PrunedIds \union {l[1] : l \in gone}
    BY <1>1 DEF PrunedIds
  <2>4. ASSUME NEW t \in touched'
        PROVE  \/ t \in Subjects!CandidateIds' \union PrunedIds'
               \/ t \in Subjects!VisibleTopics' /\ Subjects!Clusterable(Subjects!RowOf(t)'.key)
    <3>1. \/ t \in Subjects!CandidateIds \union PrunedIds
          \/ t \in Subjects!Rows /\ Subjects!Clusterable(topics[t].key)
      BY <1>1, <1>3, VisibleFacts DEF TopicsInv, SessionIsSound
    <3>2. CASE t \in Subjects!CandidateIds \union PrunedIds
      BY <2>2, <2>3, <3>2
    <3>3. CASE t \in Subjects!Rows /\ Subjects!Clusterable(topics[t].key) /\ t \in seen.emptied
      BY <1>5, <2>3, <3>3
    <3>4. CASE t \in Subjects!Rows /\ Subjects!Clusterable(topics[t].key) /\ t \notin seen.emptied
      BY <1>1, <1>2, <1>6, <1>7, <3>4
    <3> QED BY <3>1, <3>2, <3>3, <3>4
  <2>5. Created' \subseteq touched' /\ \A i \in 1..Len(todo') : todo'[i].words \in Readings[todo'[i].news]
    BY <1>1, <1>3 DEF TopicsInv, SessionIsSound
  <2> QED BY <2>1, <2>4, <2>5 DEF SessionIsSound
<1>13. ScriptIsSound'
  BY <1>3 DEF ScriptIsSound
<1>14. \A t : /\ Subjects!LinkedIn(topicLinks', t) \subseteq Subjects!LinkedIn(topicLinks, t)
              /\ Subjects!LinkedIn(pruned, t) \subseteq Subjects!LinkedIn(pruned', t)
              /\ Subjects!LinkedIn(topicLinks', t) \subseteq
                   Subjects!LinkedIn(topicLinks' \union pruned', t)
              /\ Subjects!LinkedIn(topicLinks \union pruned, t) \subseteq
                   Subjects!LinkedIn(topicLinks' \union pruned', t)
              /\ Subjects!LinkedIn(topicLinks' \union pruned', t) =
                   Subjects!LinkedIn(topicLinks', t) \union Subjects!LinkedIn(pruned', t)
              /\ Subjects!LinkedIn(topicLinks \union flushed.links \union pruned, t) \subseteq
                   Subjects!LinkedIn(topicLinks' \union flushed'.links \union pruned', t)
  BY <1>1, <1>3 DEF Subjects!LinkedIn
<1>15. StatisticsAreSound'
  <2>1. \A t \in Ids : owed'[t] \subseteq Subjects!LinkedIn(topicLinks' \union pruned', t)
    BY <1>3, <1>14 DEF TopicsInv, StatisticsAreSound
  <2>2. ASSUME NEW t \in Subjects!Rows'
        PROVE  /\ owed'[t] \subseteq topics'[t].counted \union Subjects!LinkedIn(pruned', t)
               /\ topics'[t].counted \subseteq Subjects!LinkedIn(topicLinks' \union pruned', t)
    <3>1. t \in Subjects!Rows /\ t \in Ids
      BY <1>2, VisibleFacts
    <3>2. /\ owed[t] \subseteq topics[t].counted \union Subjects!LinkedIn(pruned, t)
          /\ topics[t].counted \subseteq Subjects!LinkedIn(topicLinks \union pruned, t)
      BY <3>1 DEF TopicsInv, StatisticsAreSound
    <3>3. CASE topics'[t].counted = topics[t].counted
      BY <1>3, <1>14, <3>2, <3>3
    <3>4. CASE topics'[t].counted = Subjects!LinkedIn(topicLinks', t)
      BY <1>14, <2>1, <3>1, <3>4
    <3> QED BY <1>2, <3>3, <3>4
  <2>3. ASSUME pc' = "commit"
        PROVE  /\ DOMAIN counted' \subseteq touched'
               /\ \A t \in touched' \ DOMAIN counted' :
                    t \in Subjects!VisibleTopics' => Subjects!LinkedIn(topicLinks', t) = {}
               /\ \A t \in DOMAIN counted' :
                    /\ Subjects!LinkedIn(topicLinks', t) \subseteq counted'[t]
                    /\ counted'[t] \subseteq
                         Subjects!LinkedIn(topicLinks' \union flushed'.links \union pruned', t)
    <3>1. /\ DOMAIN counted \subseteq touched
          /\ \A t \in touched \ DOMAIN counted :
               t \in Subjects!VisibleTopics => Subjects!LinkedIn(topicLinks, t) = {}
          /\ \A t \in DOMAIN counted :
               /\ Subjects!LinkedIn(topicLinks, t) \subseteq counted[t]
               /\ counted[t] \subseteq
                    Subjects!LinkedIn(topicLinks \union flushed.links \union pruned, t)
      BY <1>3, <2>3 DEF TopicsInv, StatisticsAreSound
    <3>2. Subjects!VisibleTopics' \subseteq Subjects!VisibleTopics
      BY <1>1
    <3> QED BY <1>3, <1>14, <3>1, <3>2
  <2> QED BY <2>1, <2>2, <2>3 DEF StatisticsAreSound
<1>16. WorkIsPlaced'
  <2>1. /\ \A n \in processed : Placed(n, topicLinks \union pruned)
        /\ \A n \in done : Placed(n, topicLinks \union pruned \union flushed.links \union added)
    BY DEF TopicsInv, WorkIsPlaced
  <2>2. topicLinks \union pruned \subseteq topicLinks' \union pruned'
    BY <1>1
  <2> QED BY <1>3, <2>1, <2>2 DEF WorkIsPlaced, Placed
<1> QED BY <1>8, <1>9, <1>10, <1>11, <1>12, <1>13, <1>15, <1>16 DEF TopicsInv

\* Nothing is read yet; a row an earlier rule left is sound.
LEMMA TopicsInitInv == ASSUME Subjects!Init PROVE TopicsInv
<1>1. PICK old \in OldTopics \union {None} : topics = [t \in Ids |-> IF t = 1 THEN old ELSE None]
  BY DEF Subjects!Init, Ids
<1>2. /\ topicLinks = {} /\ processed = {}
      /\ todo = <<>> /\ done = {} /\ flushed = [topics |-> [t \in {} |-> None], links |-> {}]
      /\ added = {} /\ candidates = None /\ touched = {} /\ counted = [t \in {} |-> {}]
      /\ pc = "idle" /\ seen = None
      /\ pruned = {} /\ owed = [t \in Ids |-> {}]
  BY DEF Subjects!Init, Ids
<1>3. old # None => old \in TopicRow /\ RowIsSound(old) /\ old.counted = {}
  <2> SUFFICES ASSUME old \in OldTopics PROVE old \in TopicRow /\ RowIsSound(old) /\ old.counted = {}
    BY <1>1
  <2> QED BY OldTopicsAssumption DEF TopicRow, RowIsSound
<1>4. Created = {} /\ flushed.links = {} /\ DOMAIN counted = {}
  BY <1>2 DEF Created
<1>5. \A t \in Ids : topics[t] = IF t = 1 THEN old ELSE None
  BY <1>1
<1>6. TableTypes
  BY <1>1, <1>2, <1>3 DEF TableTypes
<1>7. SessionTypes
  <2>1. todo \in Seq(Reading) /\ counted \in [DOMAIN counted -> SUBSET Classified]
    BY <1>2, <1>4
  <2>2. flushed.topics \in [Created -> TopicRow]
    BY <1>2, <1>4
  <2> QED BY <1>2, <1>4, <2>1, <2>2 DEF SessionTypes
<1>8. Subjects!VisibleTopics = Subjects!Rows /\ \A t : Subjects!RowOf(t) = topics[t]
  BY <1>4 DEF Created, Subjects!VisibleTopics, Subjects!RowOf
<1>9. \A t \in Subjects!Rows : t = 1 /\ t \in Ids /\ topics[t] = old /\ old # None
  BY <1>5 DEF Subjects!Rows, Ids
<1>10. RowsAreSound
  BY <1>3, <1>4, <1>8, <1>9 DEF RowsAreSound
<1>11. LinksAreSound
  BY <1>2, <1>4 DEF LinksAreSound
<1>12. SessionIsSound
  <2>1. Len(todo) = 0
    BY <1>2
  <2> QED BY <1>2, <1>4, <2>1 DEF SessionIsSound
<1>13. ScriptIsSound /\ WorkIsPlaced
  BY <1>2 DEF ScriptIsSound, WorkIsPlaced
<1>14. StatisticsAreSound
  BY <1>2, <1>3, <1>9 DEF StatisticsAreSound
<1> QED BY <1>6, <1>7, <1>10, <1>11, <1>12, <1>13, <1>14 DEF TopicsInv

\* Every step of the pipeline and of the script keeps the invariant.
LEMMA TopicsNextInv == ASSUME TopicsInv, [Subjects!Next]_topicsVars PROVE TopicsInv'
<1>1. CASE Subjects!StartBatch
  BY <1>1, StartBatchKeeps
<1>2. CASE Subjects!ApplyResult
  BY <1>2, ApplyResultKeeps
<1>3. CASE Subjects!Refresh
  BY <1>3, RefreshKeeps
<1>4. CASE Subjects!Commit
  BY <1>4, CommitKeeps
<1>5. CASE Subjects!RollBack
  BY <1>5, RollBackKeeps
<1>6. CASE Subjects!PruneReads
  BY <1>6, PruneReadsKeeps
<1>7. CASE Subjects!PruneWrites
  BY <1>7, PruneWritesKeeps
<1>8. CASE UNCHANGED topicsVars
  <2> USE SameTables
  <2>1. UNCHANGED <<topics, topicLinks, processed, todo, done, flushed, added, candidates,
                    touched, counted, pc, seen, pruned, owed>>
    BY <1>8 DEF topicsVars
  <2>2. TableTypes' /\ SessionTypes'
    BY <2>1 DEF TopicsInv, TableTypes, SessionTypes
  <2>3. RowsAreSound' /\ LinksAreSound'
    BY <2>1 DEF TopicsInv, RowsAreSound, LinksAreSound
  <2>4. SessionIsSound' /\ ScriptIsSound'
    BY <2>1 DEF TopicsInv, SessionIsSound, ScriptIsSound, Subjects!CandidateIds, PrunedIds
  <2>5. StatisticsAreSound' /\ WorkIsPlaced'
    BY <2>1 DEF TopicsInv, StatisticsAreSound, WorkIsPlaced
  <2> QED BY <2>2, <2>3, <2>4, <2>5 DEF TopicsInv
<1> QED BY <1>1, <1>2, <1>3, <1>4, <1>5, <1>6, <1>7, <1>8 DEF Subjects!Next

\* Topics: however batches, failed commits and the prune script interleave, no link points
\* at a topic that is gone, no two topics have one key, a news shares the subject of its
\* topic, the statistics lag by no more than one batch and count only the topic's own news,
\* and a processed news is linked, was, or has a key that says nothing.
THEOREM TopicsTheorem == OneSpec => []TopicsAreSound
<1>1. OneInit => TopicsInv
  BY TopicsInitInv DEF OneInit
<1>2. TopicsInv /\ [OneNext]_allVars => TopicsInv'
  <2>1. [OneNext]_allVars => [Subjects!Next]_topicsVars
    BY DEF OneNext, allVars
  <2> QED BY <2>1, TopicsNextInv
<1>3. TopicsInv => TopicsAreSound
  <2> SUFFICES ASSUME TopicsInv PROVE Subjects!TypeOK /\ Subjects!TopicsAreSound
    BY DEF TopicsAreSound
  <2>1. Subjects!TypeOK
    BY DEF TopicsInv, TableTypes, SessionTypes, TopicLink, Ids, Subjects!TypeOK
  <2>2. \A t \in Subjects!Rows :
          t \in Subjects!VisibleTopics /\ t \in Ids /\ Subjects!RowOf(t) = topics[t]
    BY VisibleFacts
  <2>3. Subjects!LinksHold
    <3>1. \A t, u \in Subjects!Rows : topics[t].key = topics[u].key => t = u
      BY <2>2 DEF TopicsInv, RowsAreSound
    <3> QED BY <3>1 DEF TopicsInv, LinksAreSound, Subjects!LinksHold
  <2>4. Subjects!MembersShareTheSubject
    <3>1. \A l \in topicLinks : l[1] \in Subjects!Rows
      BY VisibleFacts DEF TopicsInv, LinksAreSound, TableTypes, TopicLink
    <3>2. \A l \in topicLinks : Fits(l[2], topics[l[1]])
      BY <2>2, <3>1 DEF TopicsInv, LinksAreSound
    <3> QED BY <3>2 DEF Fits, Subjects!MembersShareTheSubject
  <2>5. Subjects!StatisticsLagOneBatch /\ Subjects!StatisticsAreOwn
    BY DEF TopicsInv, StatisticsAreSound, Subjects!StatisticsLagOneBatch,
           Subjects!StatisticsAreOwn
  <2>6. Subjects!ProcessedIsLinked
    BY DEF TopicsInv, WorkIsPlaced, Placed, Subjects!ProcessedIsLinked
  <2> QED BY <2>1, <2>3, <2>4, <2>5, <2>6 DEF Subjects!TopicsAreSound
<1> QED BY <1>1, <1>2, <1>3, PTL DEF OneSpec
-----------------------------------------------------------------------------
(***************************************************************************)
(* DuplicateGate, for all links, titles, times and sources, and every      *)
(* verdict of the judge.                                                   *)
(***************************************************************************)
\* The candidates of a batch are its rows, as they are now, and all of those in reach of
\* the batch's times are among them.
IndexCovers ==
    index # None =>
        /\ sourceBatch # None
        /\ index = [k \in DOMAIN index |-> Gate!Candidate(rows[k])]
        /\ DOMAIN index \subseteq DOMAIN rows
        /\ \A k \in DOMAIN rows :
             rows[k].at \in (sourceBatch.first - DuplicateWindow)..(sourceBatch.last + DuplicateWindow)
                => k \in DOMAIN index

\* A link that a SELECT does not show yet came with the batch.
ChangesWereSeen ==
    \A k \in DOMAIN rows : rows[k].link # visible[k].link => rows[k].link \in seenLinks

LinksAreUnique(table) == \A j, k \in DOMAIN table : table[j].link = table[k].link => j = k

GateInv ==
    /\ Gate!TypeOK
    /\ IndexCovers
    /\ ChangesWereSeen
    /\ LinksAreUnique(rows) /\ LinksAreUnique(saved)
-----------------------------------------------------------------------------
\* What a step has to keep, and what it has to show of its insertion and its refusal.
LEMMA GateStep ==
    ASSUME GateInv', index # None /\ Gate!Inserts => Gate!NoTwinInserted,
           Gate!Refused => seenLinks' = seenLinks
    PROVE  Gate!SoundStep
BY DEF Gate!SoundStep, Gate!NoTwinInserted, GateInv, LinksAreUnique

\* The types of what the steps read.
LEMMA GateTypes ==
    ASSUME GateInv
    PROVE  /\ rows \in Seq(Gate!Stored) /\ visible \in Seq(Gate!Stored)
           /\ saved \in Seq(Gate!Stored)
           /\ Len(visible) = Len(rows) /\ DOMAIN visible = DOMAIN rows
           /\ DOMAIN rows = 1..Len(rows) /\ Len(rows) \in Nat
           /\ \A k \in DOMAIN rows : rows[k] \in Gate!Stored
           /\ seenLinks \subseteq Links
           /\ sourceBatch # None =>
                /\ sourceBatch.first \in Nat /\ sourceBatch.last \in Nat
                /\ sourceBatch.source \in Sources /\ gateNow \in GateTimes
<1>1. /\ rows \in Seq(Gate!Stored) /\ visible \in Seq(Gate!Stored)
      /\ saved \in Seq(Gate!Stored)
      /\ Len(visible) = Len(rows) /\ seenLinks \subseteq Links
  BY DEF GateInv, Gate!TypeOK
<1>2. ASSUME NEW S, NEW s \in Seq(S)
      PROVE  DOMAIN s = 1..Len(s) /\ Len(s) \in Nat /\ \A k \in DOMAIN s : s[k] \in S
  OBVIOUS
<1>3. /\ DOMAIN visible = DOMAIN rows /\ DOMAIN rows = 1..Len(rows) /\ Len(rows) \in Nat
      /\ \A k \in DOMAIN rows : rows[k] \in Gate!Stored
  BY <1>1, <1>2
<1>4. sourceBatch # None =>
        /\ sourceBatch.first \in Nat /\ sourceBatch.last \in Nat
        /\ sourceBatch.source \in Sources /\ gateNow \in GateTimes
  BY GateAssumption DEF GateInv, Gate!TypeOK, Gate!Batches
<1> QED BY <1>1, <1>3, <1>4

\* prime: the candidates in reach of the batch, from rows that are all visible.
LEMMA StartKeeps ==
    ASSUME GateInv, Gate!StartBatch
    PROVE  GateInv' /\ Gate!SoundStep
<1>1. PICK s \in Sources, first \in GateTimes, last \in GateTimes :
        /\ sourceBatch' = [source |-> s, first |-> first, last |-> last]
        /\ index' = IF (last + DuplicateWindow) - (first - DuplicateWindow) > MaxPrimeWindow
                    THEN None
                    ELSE Gate!CandidatesOf(visible, first - DuplicateWindow, last + DuplicateWindow)
  BY DEF Gate!StartBatch
<1>2. /\ sourceBatch = None /\ gateNow' \in GateTimes /\ seenLinks' = {}
      /\ UNCHANGED <<rows, visible, saved, judge, persisted>>
  BY DEF Gate!StartBatch, Gate!session
<1>3. /\ rows = visible /\ visible = saved
  BY <1>2 DEF GateInv, Gate!TypeOK
<1>4. /\ sourceBatch' \in Gate!Batches /\ sourceBatch' # None
      /\ sourceBatch'.first = first /\ sourceBatch'.last = last
  BY <1>1, GateAssumption DEF Gate!Batches
<1>5. IndexCovers'
  <2> SUFFICES ASSUME index' # None PROVE IndexCovers'
    BY DEF IndexCovers
  <2> DEFINE lo == first - DuplicateWindow
             hi == last + DuplicateWindow
             D == {j \in DOMAIN rows : rows[j].at \in lo..hi}
  <2>1. index' = [k \in D |-> Gate!Candidate(rows[k])]
    BY <1>1, <1>3 DEF Gate!CandidatesOf
  <2>2. DOMAIN index' = D
    BY <2>1
  <2> HIDE DEF D
  <2>3. index' = [k \in DOMAIN index' |-> Gate!Candidate(rows'[k])]
    BY <1>2, <2>1, <2>2
  <2> QED BY <1>2, <1>4, <2>2, <2>3 DEF IndexCovers, D, Gate!Candidate, Gate!Signature
<1>6. Gate!TypeOK'
  BY <1>2, <1>3, <1>4 DEF GateInv, Gate!TypeOK
<1>7. ChangesWereSeen' /\ LinksAreUnique(rows)' /\ LinksAreUnique(saved)'
  BY <1>2, <1>3 DEF GateInv, ChangesWereSeen, LinksAreUnique
<1>8. ~Gate!Inserts /\ ~Gate!Refused
  BY <1>2, GateTypes DEF Gate!Inserts, Gate!Refused
<1> QED BY <1>5, <1>6, <1>7, <1>8, GateStep DEF GateInv

\* The end of a batch, with its rows or without.
LEMMA EndOfBatchKeeps ==
    ASSUME GateInv, sourceBatch # None, sourceBatch' = None, index' = None,
           seenLinks' \subseteq Links, rows' = rows \/ rows' = saved,
           visible' = rows', saved' = rows'
    PROVE  GateInv' /\ ~Gate!Inserts
<1>1. Gate!TypeOK'
  <2>1. /\ rows \in Seq(Gate!Stored) /\ saved \in Seq(Gate!Stored)
        /\ Len(saved) <= Len(rows) /\ Len(rows) <= MaxRows /\ MaxRows \in Nat
    BY GateAssumption DEF GateInv, Gate!TypeOK
  <2>2. Len(rows) \in Nat /\ Len(saved) \in Nat
    BY <2>1
  <2>3. Len(rows') <= MaxRows /\ rows' \in Seq(Gate!Stored) /\ Len(rows') \in Nat
    BY <2>1, <2>2
  <2> QED BY <2>3 DEF Gate!TypeOK
<1>2. IndexCovers' /\ ChangesWereSeen' /\ LinksAreUnique(rows)' /\ LinksAreUnique(saved)'
  BY DEF GateInv, IndexCovers, ChangesWereSeen, LinksAreUnique
<1>3. ~Gate!Inserts
  BY GateTypes DEF Gate!Inserts, GateInv, Gate!TypeOK
<1> QED BY <1>1, <1>2, <1>3 DEF GateInv

LEMMA CommitOfGateKeeps ==
    ASSUME GateInv, Gate!Commit \/ Gate!RollBack
    PROVE  GateInv' /\ Gate!SoundStep
<1>1. GateInv' /\ ~Gate!Inserts
  BY EndOfBatchKeeps, GateTypes DEF Gate!Commit, Gate!RollBack
<1>2. ~Gate!Refused
  BY DEF Gate!Commit, Gate!RollBack, Gate!Refused
<1> QED BY <1>1, <1>2, GateStep

\* An updated row keeps its kind, and takes the item's link only if no other row has it.
LEMMA UpdatedRow ==
    ASSUME GateInv, sourceBatch # None, NEW item \in Gate!Items, NEW k \in DOMAIN rows
    PROVE  /\ Gate!Updated(k, item) \in Gate!Stored
           /\ \/ Gate!Updated(k, item).link = rows[k].link
              \/ /\ Gate!Updated(k, item).link = item.link
                 /\ \A j \in DOMAIN rows : j # k => rows[j].link # item.link
<1>1. PICK r : r = rows[k]
  OBVIOUS
<1>2. r \in Gate!Stored /\ sourceBatch.source \in Sources
  BY <1>1, GateTypes
<1>3. item.link \in Links /\ item.at \in GateTimes \union {None}
  BY DEF Gate!Items
<1>4. PICK promote \in BOOLEAN : promote <=> Rank[sourceBatch.source] > Rank[r.source]
  OBVIOUS
<1>5. PICK taken \in BOOLEAN : taken <=> \E j \in DOMAIN rows : j # k /\ rows[j].link = item.link
  OBVIOUS
<1>6. Gate!Updated(k, item) =
        [r EXCEPT !.source = IF promote THEN sourceBatch.source ELSE @,
                  !.link = IF promote /\ ~taken THEN item.link ELSE @,
                  !.published = IF @ = None THEN item.at ELSE @,
                  !.at = IF r.published = None /\ item.at # None THEN item.at ELSE @]
  BY <1>1, <1>4, <1>5 DEF Gate!Updated
<1>7. PICK new : new = Gate!Updated(k, item)
  OBVIOUS
<1>8. new \in Gate!Stored /\ new.link = IF promote /\ ~taken THEN item.link ELSE r.link
  BY <1>2, <1>3, <1>6, <1>7 DEF Gate!Stored
<1> QED BY <1>1, <1>5, <1>7, <1>8

LEMMA UpdateKeeps ==
    ASSUME GateInv, sourceBatch # None, NEW item \in Gate!Items, NEW k \in DOMAIN rows,
           Gate!Update(item, k), seenLinks' = seenLinks \union {item.link}, UNCHANGED gateNow
    PROVE  GateInv' /\ ~Gate!Inserts /\ ~Gate!Refused
<1>1. PICK new : new = Gate!Updated(k, item)
  OBVIOUS
<1>2. /\ visible' = rows /\ rows' = [rows EXCEPT ![k] = new] /\ index' = Gate!Register(k, new)
      /\ UNCHANGED <<saved, sourceBatch>>
  BY <1>1 DEF Gate!Update
<1>3. /\ new \in Gate!Stored
      /\ \/ new.link = rows[k].link
         \/ new.link = item.link /\ \A j \in DOMAIN rows : j # k => rows[j].link # item.link
  BY <1>1, UpdatedRow
<1>4. /\ rows' \in Seq(Gate!Stored) /\ Len(rows') = Len(rows) /\ DOMAIN rows' = DOMAIN rows
      /\ \A j \in DOMAIN rows : rows'[j] = IF j = k THEN new ELSE rows[j]
  BY <1>2, <1>3, GateTypes
<1>5. Gate!TypeOK'
  <2>1. seenLinks' \subseteq Links
    BY GateTypes DEF Gate!Items
  <2> QED BY <1>2, <1>4, <2>1, GateTypes DEF GateInv, Gate!TypeOK
<1>6. IndexCovers'
  <2> SUFFICES ASSUME index' # None PROVE IndexCovers'
    BY DEF IndexCovers
  <2>1. index # None
    BY <1>2 DEF Gate!Register
  <2>2. index' = [j \in DOMAIN index \union {k} |->
                    IF j = k THEN Gate!Candidate(new) ELSE index[j]]
    BY <1>2, <2>1 DEF Gate!Register
  <2>3. DOMAIN index' = DOMAIN index \union {k}
    BY <2>2
  <2>4. \A j \in DOMAIN index : j \in DOMAIN rows /\ index[j] = Gate!Candidate(rows[j])
    BY <2>1 DEF GateInv, IndexCovers
  <2>5. index' = [j \in DOMAIN index' |-> Gate!Candidate(rows'[j])]
    BY <1>4, <2>2, <2>3, <2>4
  <2>6. DOMAIN index' \subseteq DOMAIN rows'
    BY <1>4, <2>3, <2>4
  <2>7. \A j \in DOMAIN rows' :
          rows'[j].at \in (sourceBatch'.first - DuplicateWindow)
                            ..(sourceBatch'.last + DuplicateWindow) => j \in DOMAIN index'
    BY <1>2, <1>4, <2>1, <2>3 DEF GateInv, IndexCovers
  <2> QED BY <1>2, <2>5, <2>6, <2>7 DEF IndexCovers, Gate!Candidate, Gate!Signature
<1>7. ChangesWereSeen'
  BY <1>2, <1>3, <1>4 DEF ChangesWereSeen
<1>8. LinksAreUnique(rows)' /\ LinksAreUnique(saved)'
  BY <1>2, <1>3, <1>4 DEF GateInv, LinksAreUnique
<1>9. ~Gate!Inserts /\ ~Gate!Refused
  BY <1>2, <1>4, GateTypes DEF Gate!Inserts, Gate!Refused
<1> QED BY <1>5, <1>6, <1>7, <1>8, <1>9 DEF GateInv

\* A row that is appended has no twin, when none was found among the candidates.
LEMMA NoTwinFound ==
    ASSUME GateInv, index # None, NEW item \in Gate!Items,
           Gate!EffectiveTime(item) \in GateTimes,
           Gate!EffectiveTime(item) \in sourceBatch.first..sourceBatch.last,
           Gate!FindDuplicate(item) = {}
    PROVE  Gate!Twins([link |-> item.link, title |-> item.title,
                       at |-> Gate!EffectiveTime(item)], rows) = {}
<1>1. PICK at \in GateTimes : at = Gate!EffectiveTime(item)
  OBVIOUS
<1>2. PICK same : same = [link |-> item.link, title |-> item.title, at |-> at]
  OBVIOUS
<1>3. /\ Gate!EffectiveTime(same) = at /\ same.title = item.title
      /\ Gate!Signature(same) = Gate!Signature(item)
  BY <1>2, GateAssumption DEF Gate!EffectiveTime, Gate!Signature
<1>4. Gate!Matches(item, index) = {}
  BY DEF Gate!FindDuplicate
<1>5. \A k \in DOMAIN index : Gate!Abs(index[k].at - at) <= DuplicateWindow =>
        /\ index[k].signature # Gate!Signature(item)
        /\ ~Gate!TitlesLookDuplicate(index[k].title, item.title)
  BY <1>1, <1>4 DEF Gate!Matches
<1>6. PICK table : table = Gate!CandidatesOf(rows, 0, Gate!Max(GateTimes))
  OBVIOUS
<1>7. /\ DOMAIN table \subseteq DOMAIN rows
      /\ \A k \in DOMAIN table : table[k] = Gate!Candidate(rows[k])
  BY <1>6 DEF Gate!CandidatesOf
<1>8. ASSUME NEW k \in DOMAIN table, Gate!Abs(table[k].at - at) <= DuplicateWindow
      PROVE  k \in DOMAIN index /\ index[k] = table[k]
  <2>1. rows[k].at \in Nat /\ table[k].at = rows[k].at
    BY <1>7, GateTypes, GateAssumption DEF Gate!Candidate, Gate!Stored
  <2>2. /\ at \in Nat /\ DuplicateWindow \in Nat /\ sourceBatch # None
        /\ sourceBatch.first \in Nat /\ sourceBatch.last \in Nat
        /\ sourceBatch.first <= at /\ at <= sourceBatch.last
    BY <1>1, GateTypes, GateAssumption DEF GateInv, IndexCovers
  <2>3. /\ rows[k].at - at <= DuplicateWindow /\ at - rows[k].at <= DuplicateWindow
    BY <1>8, <2>1, <2>2 DEF Gate!Abs
  <2>4. rows[k].at \in (sourceBatch.first - DuplicateWindow)..(sourceBatch.last + DuplicateWindow)
    BY <2>1, <2>2, <2>3
  <2>5. k \in DOMAIN index
    BY <1>7, <2>4 DEF GateInv, IndexCovers
  <2> QED BY <1>7, <2>5 DEF GateInv, IndexCovers
<1>9. Gate!Matches(same, table) = {}
  BY <1>3, <1>5, <1>8 DEF Gate!Matches
<1> QED BY <1>1, <1>2, <1>6, <1>9 DEF Gate!Twins

\* A row is appended, or the database refuses a link that a SELECT did not show.
LEMMA InsertKeeps ==
    ASSUME GateInv, sourceBatch # None, NEW item \in Gate!Items, Len(rows) < MaxRows,
           Gate!EffectiveTime(item) \in sourceBatch.first..sourceBatch.last,
           \A k \in DOMAIN visible : visible[k].link # item.link,
           Gate!FindDuplicate(item) = {},
           Gate!Insert(item), seenLinks' = seenLinks \union {item.link}, UNCHANGED gateNow
    PROVE  GateInv' /\ Gate!SoundStep
<1>1. PICK r : r = [link |-> item.link, title |-> item.title, published |-> item.at,
                    at |-> Gate!EffectiveTime(item), source |-> sourceBatch.source]
  OBVIOUS
<1>2. Gate!EffectiveTime(item) \in GateTimes /\ item.link \in Links
  BY GateTypes DEF Gate!Items, Gate!EffectiveTime
<1>3. r \in Gate!Stored /\ r.link = item.link
  BY <1>1, <1>2, GateTypes DEF Gate!Items, Gate!Stored
<1>4. seenLinks' \subseteq Links
  BY <1>2, GateTypes
<1>5. CASE \E k \in DOMAIN rows : rows[k].link = item.link
  <2>1. rows' = saved /\ visible' = saved /\ index' = None /\ sourceBatch' = None
        /\ UNCHANGED saved
    BY <1>5 DEF Gate!Insert
  <2>2. GateInv' /\ ~Gate!Inserts
    BY <1>4, <2>1, EndOfBatchKeeps
  <2>3. item.link \in seenLinks
    BY <1>5, GateTypes DEF GateInv, ChangesWereSeen
  <2>4. seenLinks' = seenLinks
    BY <2>3
  <2> QED BY <2>2, <2>4, GateStep
<1>6. CASE ~\E k \in DOMAIN rows : rows[k].link = item.link
  <2>1. /\ rows' = Append(rows, r) /\ visible' = Append(rows, r)
        /\ index' = Gate!Register(Len(rows) + 1, r) /\ UNCHANGED <<saved, sourceBatch>>
    BY <1>1, <1>6 DEF Gate!Insert
  <2>2. PICK n : n = Len(rows) + 1
    OBVIOUS
  <2>3. /\ rows' \in Seq(Gate!Stored) /\ Len(rows') = n /\ n \in Nat
        /\ DOMAIN rows' = DOMAIN rows \union {n} /\ n \notin DOMAIN rows
        /\ \A j \in DOMAIN rows' : rows'[j] = IF j = n THEN r ELSE rows[j]
        /\ visible' = rows'
    BY <1>3, <2>1, <2>2, GateTypes
  <2>4. Gate!TypeOK'
    <3>1. Len(saved) <= Len(rows) /\ Len(saved) \in Nat /\ Len(rows) \in Nat /\ MaxRows \in Nat
      BY GateTypes, GateAssumption DEF GateInv, Gate!TypeOK
    <3>2. Len(saved') <= Len(rows') /\ Len(rows') <= MaxRows
      BY <2>1, <2>2, <2>3, <3>1
    <3> QED BY <1>4, <2>1, <2>3, <3>2 DEF GateInv, Gate!TypeOK
  <2>5. IndexCovers'
    <3> SUFFICES ASSUME index' # None PROVE IndexCovers'
      BY DEF IndexCovers
    <3>1. index # None
      BY <2>1 DEF Gate!Register
    <3>2. index' = [j \in DOMAIN index \union {n} |->
                      IF j = n THEN Gate!Candidate(r) ELSE index[j]]
      BY <2>1, <2>2, <3>1 DEF Gate!Register
    <3>3. DOMAIN index' = DOMAIN index \union {n}
      BY <3>2
    <3>4. \A j \in DOMAIN index : j \in DOMAIN rows /\ index[j] = Gate!Candidate(rows[j])
      BY <3>1 DEF GateInv, IndexCovers
    <3>5. index' = [j \in DOMAIN index' |-> Gate!Candidate(rows'[j])]
      BY <2>3, <3>2, <3>3, <3>4
    <3>6. DOMAIN index' \subseteq DOMAIN rows'
      BY <2>3, <3>3, <3>4
    <3>7. \A j \in DOMAIN rows' :
            rows'[j].at \in (sourceBatch'.first - DuplicateWindow)
                              ..(sourceBatch'.last + DuplicateWindow) => j \in DOMAIN index'
      BY <2>1, <2>3, <3>1, <3>3 DEF GateInv, IndexCovers
    <3> QED BY <2>1, <3>5, <3>6, <3>7 DEF IndexCovers, Gate!Candidate, Gate!Signature
  <2>6. ChangesWereSeen'
    BY <2>3 DEF ChangesWereSeen
  <2>7. LinksAreUnique(rows)' /\ LinksAreUnique(saved)'
    BY <1>3, <1>6, <2>1, <2>3 DEF GateInv, LinksAreUnique
  <2>8. ~Gate!Refused
    BY <2>1 DEF Gate!Refused
  <2>9. index # None => Gate!NoTwinInserted
    <3> SUFFICES ASSUME index # None PROVE Gate!NoTwinInserted
      OBVIOUS
    <3>1. Gate!New = r
      BY <2>3 DEF Gate!New
    <3>2. Gate!Twins([link |-> item.link, title |-> item.title,
                      at |-> Gate!EffectiveTime(item)], rows) = {}
      BY <1>2, NoTwinFound
    <3>3. r.title = item.title /\ r.at = Gate!EffectiveTime(item)
      BY <1>1
    <3> QED BY <1>3, <3>1, <3>2, <3>3 DEF Gate!NoTwinInserted
  <2>10. GateInv'
    BY <2>4, <2>5, <2>6, <2>7 DEF GateInv
  <2> QED BY <2>8, <2>9, <2>10, GateStep
<1> QED BY <1>5, <1>6

\* persist_item: by link, by the candidates, or as a new row.
LEMMA PersistKeeps ==
    ASSUME GateInv, NEW item \in Gate!Items, Gate!Persist(item)
    PROVE  GateInv' /\ Gate!SoundStep
<1>1. /\ sourceBatch # None /\ seenLinks' = seenLinks \union {item.link} /\ UNCHANGED gateNow
      /\ Gate!EffectiveTime(item) \in sourceBatch.first..sourceBatch.last
  BY DEF Gate!Persist
<1>2. PICK same : same = {k \in DOMAIN visible : visible[k].link = item.link}
  OBVIOUS
<1>3. \/ \E k \in same : Gate!Update(item, k)
      \/ \E k \in Gate!FindDuplicate(item) : Gate!Update(item, k)
      \/ /\ same = {} /\ Gate!FindDuplicate(item) = {}
         /\ Len(rows) < MaxRows /\ Gate!Insert(item)
  BY <1>2 DEF Gate!Persist
<1>4. ASSUME NEW k \in DOMAIN rows, Gate!Update(item, k) PROVE GateInv' /\ Gate!SoundStep
  BY <1>1, <1>4, UpdateKeeps, GateStep
<1>5. same \subseteq DOMAIN rows
  BY <1>2, GateTypes
<1>6. Gate!FindDuplicate(item) \subseteq DOMAIN rows
  <2>1. CASE index # None
    <3>1. Gate!FindDuplicate(item) \subseteq DOMAIN index
      BY <2>1 DEF Gate!FindDuplicate, Gate!Matches
    <3> QED BY <2>1, <3>1 DEF GateInv, IndexCovers
  <2>2. CASE index = None
    <3>1. PICK table : table = Gate!CandidatesOf(visible, 0, Gate!Max(GateTimes))
      OBVIOUS
    <3>2. DOMAIN table \subseteq DOMAIN visible
      BY <3>1 DEF Gate!CandidatesOf
    <3>3. Gate!FindDuplicate(item) \subseteq DOMAIN table
      BY <2>2, <3>1 DEF Gate!FindDuplicate, Gate!Matches
    <3> QED BY <3>2, <3>3, GateTypes
  <2> QED BY <2>1, <2>2
<1>7. CASE same = {} /\ Gate!FindDuplicate(item) = {} /\ Len(rows) < MaxRows /\ Gate!Insert(item)
  <2>1. \A k \in DOMAIN visible : visible[k].link # item.link
    BY <1>2, <1>7
  <2> QED BY <1>1, <1>7, <2>1, InsertKeeps
<1> QED BY <1>3, <1>4, <1>5, <1>6, <1>7

LEMMA GateInitInv == Gate!Init => GateInv
<1> SUFFICES ASSUME Gate!Init PROVE GateInv
  OBVIOUS
<1>1. rows = <<>> /\ visible = <<>> /\ saved = <<>> /\ index = None /\ sourceBatch = None
      /\ seenLinks = {}
  BY DEF Gate!Init
<1>2. Gate!TypeOK
  BY <1>1, GateAssumption DEF Gate!TypeOK
<1> QED BY <1>1, <1>2 DEF GateInv, IndexCovers, ChangesWereSeen, LinksAreUnique

\* DuplicateGate: while the candidates of a batch are prefetched, no row is inserted that
\* has a twin within the window, links are unique, and a batch is refused only if it names
\* a link twice (DuplicateGate.find_duplicate, register; ItemPersister.persist_item).
THEOREM GateTheorem == OneSpec => GateIsSound
<1>1. OneInit => GateInv
  BY GateInitInv DEF OneInit
<1>2. [OneNext]_allVars => [Gate!Next]_gateVars
  BY DEF OneNext, allVars
<1>3. GateInv /\ UNCHANGED gateVars => GateInv'
  BY DEF gateVars, GateInv, Gate!TypeOK, IndexCovers, ChangesWereSeen, LinksAreUnique,
         Gate!Candidate, Gate!Signature
<1>4. GateInv /\ Gate!Next => GateInv' /\ Gate!SoundStep
  BY StartKeeps, PersistKeeps, CommitOfGateKeeps DEF Gate!Next
<1>5. GateInv /\ [OneNext]_allVars => GateInv'
  BY <1>2, <1>3, <1>4
<1>6. GateInv /\ [OneNext]_allVars => [active = "gate" => Gate!SoundStep]_gateVars
  BY <1>2, <1>4
<1> QED BY <1>1, <1>5, <1>6, PTL DEF OneSpec, GateIsSound
-----------------------------------------------------------------------------
(***************************************************************************)
(* Articles, for all news, feeds, pages and refreshing threads.            *)
(***************************************************************************)
\* A refresh that is about to write decided on a row without a whole body; where there is
\* one by now, it came in between.
DecisionsHold ==
    \A w \in Refreshers : refresh[w].pc = "write" =>
        /\ refresh[w].new \/ refresh[w].news \in Stored
        /\ refresh[w].statement # "none" =>
             /\ refresh[w].item.row # None
             /\ Complete(article[refresh[w].news]) => refresh[w].news \in raced

\* The pipeline crawls what had no body; what it does not crawl has a row.
BatchHolds ==
    batch.pc # "idle" =>
        /\ batch.news \subseteq Stored
        /\ batch.pc \in {"crawl", "upsert"} =>
             /\ DOMAIN batch.crawl \subseteq batch.news
             /\ \A n \in DOMAIN batch.crawl :
                  /\ batch.crawl[n] \in {None} \union Bodies
                  /\ Complete(article[n]) => n \in raced
             /\ \A n \in batch.news : n \notin DOMAIN batch.crawl => article[n] # None
        /\ batch.pc = "upsert" => \A n \in DOMAIN batch.crawl : batch.crawl[n] \in Bodies
        /\ batch.pc = "apply" =>
             DOMAIN batch.crawl = {} /\ \A n \in batch.news : article[n] # None

\* The refreshes that fetch the page of a news.
Fetchers(n) == {w \in Refreshers : refresh[w].pc = "fetch" /\ refresh[w].news = n}

\* Failures that count and fetches that may fail.
FailuresAreFew ==
    \A n \in News :
        /\ IsFiniteSet(failures[n])
        /\ Cardinality(Recent(failures[n])) + Cardinality(Fetchers(n))
             <= MaxAttempts - 1 + Cardinality(Refreshers)

ArticlesInv ==
    /\ TypeOK /\ ProcessedHasArticle
    /\ DecisionsHold /\ BatchHolds /\ FailuresAreFew
-----------------------------------------------------------------------------
\* The types of what the steps read.
LEMMA BodyIsBody == None \notin Bodies /\ \A a \in Bodies : a.status \in {"success", "failed"}
BY ArticlesAssumption DEF Bodies

LEMMA RefreshKinds ==
    ASSUME ArticlesInv, NEW w \in Refreshers
    PROVE  /\ refresh[w].pc = "idle" => refresh[w] = Idle
           /\ refresh[w].pc \in {"fetch", "store"} => refresh[w] \in Asked
           /\ refresh[w].pc = "write" => refresh[w] \in Decided
           /\ refresh[w].pc \in {"idle", "fetch", "store", "write"}
BY DEF ArticlesInv, TypeOK, Asked, Decided, Idle

\* How many fetch one page, before and after a thread takes up something else.
LEMMA FetchersAreFew ==
    ASSUME NEW n
    PROVE  /\ IsFiniteSet(Fetchers(n)) /\ Cardinality(Fetchers(n)) \in Nat
           /\ Cardinality(Fetchers(n)) <= Cardinality(Refreshers)
           /\ Cardinality(Refreshers) \in Nat
<1>1. IsFiniteSet(Refreshers) /\ Fetchers(n) \subseteq Refreshers
  BY ArticlesAssumption DEF Fetchers
<1> QED BY <1>1, FS_Subset, FS_CardinalityType

LEMMA FewerFetchers ==
    ASSUME NEW n, NEW m, Fetchers(n)' \subseteq Fetchers(m)
    PROVE  /\ Cardinality(Fetchers(n)') \in Nat
           /\ Cardinality(Fetchers(n)') <= Cardinality(Fetchers(m))
<1>1. IsFiniteSet(Fetchers(m))
  BY FetchersAreFew
<1> QED BY <1>1, FS_Subset, FS_CardinalityType

LEMMA RecentAreFew ==
    ASSUME NEW F, IsFiniteSet(F)
    PROVE  /\ IsFiniteSet(Recent(F)) /\ Cardinality(Recent(F)) \in Nat
<1>1. Recent(F) \subseteq F
  BY DEF Recent
<1> QED BY <1>1, FS_Subset, FS_CardinalityType

LEMMA NotMoreFailures ==
    ASSUME NEW F, NEW G, IsFiniteSet(F), G \subseteq F
    PROVE  IsFiniteSet(G) /\ Cardinality(G) \in Nat /\ Cardinality(F) \in Nat
           /\ Cardinality(G) <= Cardinality(F)
BY FS_Subset, FS_CardinalityType

\* The bound, from what the invariant says of the failures.
LEMMA FetchesBounded ==
    ASSUME ArticlesInv PROVE FetchesAreBounded
<1> SUFFICES ASSUME NEW n \in News
             PROVE  Cardinality(Recent(failures[n])) < MaxAttempts + Cardinality(Refreshers)
  BY DEF FetchesAreBounded
<1>1. /\ Cardinality(Recent(failures[n])) + Cardinality(Fetchers(n))
           <= MaxAttempts - 1 + Cardinality(Refreshers)
      /\ Cardinality(Recent(failures[n])) \in Nat
  BY RecentAreFew DEF ArticlesInv, FailuresAreFew
<1>2. Cardinality(Fetchers(n)) \in Nat /\ Cardinality(Refreshers) \in Nat /\ MaxAttempts \in Nat
  BY FetchersAreFew, ArticlesAssumption
<1> QED BY <1>1, <1>2

\* Nothing more is fetched, and no failure counted that did not count before.
LEMMA FewStayFew ==
    ASSUME ArticlesInv,
           \A n \in News : /\ failures'[n] \subseteq failures[n]
                           /\ Recent(failures[n])' \subseteq Recent(failures[n])
                           /\ Fetchers(n)' \subseteq Fetchers(n)
    PROVE  FailuresAreFew'
<1> SUFFICES ASSUME NEW n \in News
             PROVE  /\ IsFiniteSet(failures'[n])
                    /\ Cardinality(Recent(failures[n])') + Cardinality(Fetchers(n)')
                         <= MaxAttempts - 1 + Cardinality(Refreshers)
  BY DEF FailuresAreFew, Recent, Fetchers
<1>1. /\ IsFiniteSet(failures[n])
      /\ Cardinality(Recent(failures[n])) + Cardinality(Fetchers(n))
           <= MaxAttempts - 1 + Cardinality(Refreshers)
  BY DEF ArticlesInv, FailuresAreFew
<1>2. IsFiniteSet(failures'[n])
  BY <1>1, FS_Subset
<1>3. /\ Cardinality(Recent(failures[n])') \in Nat /\ Cardinality(Recent(failures[n])) \in Nat
      /\ Cardinality(Recent(failures[n])') <= Cardinality(Recent(failures[n]))
  <2>1. IsFiniteSet(Recent(failures[n]))
    BY <1>1, RecentAreFew
  <2> QED BY <2>1, NotMoreFailures
<1>4. /\ Cardinality(Fetchers(n)') \in Nat /\ Cardinality(Fetchers(n)) \in Nat
      /\ Cardinality(Fetchers(n)') <= Cardinality(Fetchers(n))
  BY FewerFetchers, FetchersAreFew
<1>5. MaxAttempts \in Nat /\ Cardinality(Refreshers) \in Nat
  BY FetchersAreFew, ArticlesAssumption
<1> QED BY <1>1, <1>2, <1>3, <1>4, <1>5

\* A thread goes on with its item, and writes nothing yet.
LEMMA RefreshOfDetailKeeps ==
    ASSUME ArticlesInv, NEW w \in Refreshers, NEW q \in {Idle} \union Asked \union Decided,
           refresh' = [refresh EXCEPT ![w] = q],
           UNCHANGED <<signal, dated, article, batch, now, raced>>,
           failures' \in [News -> SUBSET [at : 0..now, nth : Nat]], FailuresAreFew',
           q.pc = "write" =>
             /\ q.new \/ q.news \in Stored
             /\ q.statement # "none" =>
                  /\ q.item.row # None
                  /\ Complete(article[q.news]) => q.news \in raced
    PROVE  ArticlesInv' /\ BodyKept
<1>1. refresh \in [Refreshers -> {Idle} \union Asked \union Decided]
  BY DEF ArticlesInv, TypeOK
<1>2. /\ refresh' \in [Refreshers -> {Idle} \union Asked \union Decided]
      /\ \A v \in Refreshers : refresh'[v] = IF v = w THEN q ELSE refresh[v]
  BY <1>1
<1>3. Stored' = Stored
  BY DEF Stored
<1>4. TypeOK'
  BY <1>2, <1>3 DEF ArticlesInv, TypeOK
<1>5. DecisionsHold'
  BY <1>2, <1>3 DEF ArticlesInv, DecisionsHold, Complete, Success
<1>6. BatchHolds'
  BY <1>3 DEF ArticlesInv, BatchHolds, Complete, Success
<1>7. ProcessedHasArticle' /\ BodyKept
  BY DEF ArticlesInv, ProcessedHasArticle, BodyKept
<1> QED BY <1>4, <1>5, <1>6, <1>7 DEF ArticlesInv

\* A refresh fetches a page only while few fetches of it failed.
LEMMA BeginRefreshKeeps ==
    ASSUME ArticlesInv, NEW w \in Refreshers, BeginRefresh(w)
    PROVE  ArticlesInv' /\ BodyKept
<1>0. PICK n \in News : \E kind \in Kinds[n] :
        refresh' = [refresh EXCEPT ![w] =
          [pc |-> IF NeedsDetail(n, kind) THEN "fetch" ELSE "store", news |-> n,
           item |-> FeedItem(kind), knownDate |-> n \in dated]]
  BY DEF BeginRefresh
<1>1. PICK kind \in Kinds[n] :
        refresh' = [refresh EXCEPT ![w] =
          [pc |-> IF NeedsDetail(n, kind) THEN "fetch" ELSE "store", news |-> n,
           item |-> FeedItem(kind), knownDate |-> n \in dated]]
  BY <1>0
<1>2. /\ refresh[w].pc = "idle"
      /\ UNCHANGED <<signal, dated, article, failures, batch, now, raced>>
  BY DEF BeginRefresh
<1>3. PICK q : q = [pc |-> IF NeedsDetail(n, kind) THEN "fetch" ELSE "store", news |-> n,
                    item |-> FeedItem(kind), knownDate |-> n \in dated]
  OBVIOUS
<1>4. FeedItem(kind) \in Given
  BY DEF FeedItem, Given, Row, Bodies
<1>5. q \in Asked /\ q.news = n /\ (q.pc = "fetch" => Allow(n)) /\ q.pc # "write"
  BY <1>3, <1>4 DEF Asked, NeedsDetail
<1>6. refresh \in [Refreshers -> {Idle} \union Asked \union Decided]
      /\ failures \in [News -> SUBSET [at : 0..now, nth : Nat]]
  BY DEF ArticlesInv, TypeOK
<1>7. \A v \in Refreshers : refresh'[v] = IF v = w THEN q ELSE refresh[v]
  BY <1>1, <1>3, <1>6
<1>8. ASSUME NEW m \in News
      PROVE  /\ IsFiniteSet(failures'[m])
             /\ Cardinality(Recent(failures[m])') + Cardinality(Fetchers(m)')
                  <= MaxAttempts - 1 + Cardinality(Refreshers)
  <2>1. /\ IsFiniteSet(failures[m])
        /\ Cardinality(Recent(failures[m])) + Cardinality(Fetchers(m))
             <= MaxAttempts - 1 + Cardinality(Refreshers)
    BY DEF ArticlesInv, FailuresAreFew
  <2>2. Recent(failures[m])' = Recent(failures[m]) /\ failures'[m] = failures[m]
    BY <1>2 DEF Recent
  <2>3. Cardinality(Recent(failures[m])) \in Nat
    BY <2>1, RecentAreFew
  <2>4. /\ Cardinality(Refreshers) \in Nat /\ Cardinality(Fetchers(m)) \in Nat
        /\ MaxAttempts \in Nat \ {0}
    BY FetchersAreFew, ArticlesAssumption
  <2>5. CASE m = n /\ q.pc = "fetch"
    <3>1. Cardinality(Recent(failures[m])) < MaxAttempts
      BY <1>5, <2>5 DEF Allow
    <3>2. Fetchers(m)' \subseteq Refreshers /\ IsFiniteSet(Refreshers)
      BY ArticlesAssumption DEF Fetchers
    <3>3. Cardinality(Fetchers(m)') \in Nat /\ Cardinality(Fetchers(m)') <= Cardinality(Refreshers)
      BY <3>2, NotMoreFailures
    <3> QED BY <2>1, <2>2, <2>3, <2>4, <3>1, <3>3
  <2>6. CASE ~(m = n /\ q.pc = "fetch")
    <3>1. Fetchers(m)' \subseteq Fetchers(m)
      BY <1>2, <1>5, <1>7, <2>6 DEF Fetchers
    <3>2. Cardinality(Fetchers(m)') \in Nat /\ Cardinality(Fetchers(m)') <= Cardinality(Fetchers(m))
      BY <3>1, FewerFetchers
    <3> QED BY <2>1, <2>2, <2>3, <2>4, <3>2
  <2> QED BY <2>5, <2>6
<1>9. FailuresAreFew'
  BY <1>8 DEF FailuresAreFew, Recent, Fetchers
<1> QED BY <1>1, <1>2, <1>3, <1>5, <1>6, <1>9, RefreshOfDetailKeeps

LEMMA DetailArrivesKeeps ==
    ASSUME ArticlesInv, NEW w \in Refreshers, DetailArrives(w)
    PROVE  ArticlesInv' /\ BodyKept
<1>1. PICK n : n = refresh[w].news
  OBVIOUS
<1>2. PICK row \in {None, Row("success", "page"), Row("success", "stub")} :
        refresh' = [refresh EXCEPT ![w].pc = "store", ![w].item = [dated |-> TRUE, row |-> row]]
  BY DEF DetailArrives
<1>3. /\ refresh[w].pc = "fetch" /\ failures' = [failures EXCEPT ![n] = {}]
      /\ UNCHANGED <<signal, dated, article, batch, now, raced>>
  BY <1>1 DEF DetailArrives
<1>4. /\ refresh \in [Refreshers -> {Idle} \union Asked \union Decided]
      /\ failures \in [News -> SUBSET [at : 0..now, nth : Nat]]
      /\ refresh[w] \in Asked
  BY <1>3, RefreshKinds DEF ArticlesInv, TypeOK
<1>5. PICK q : q = [refresh[w] EXCEPT !.pc = "store", !.item = [dated |-> TRUE, row |-> row]]
  OBVIOUS
<1>6. [dated |-> TRUE, row |-> row] \in Given
  BY <1>2 DEF Given, Row, Bodies
<1>7. q \in Asked /\ q.pc = "store" /\ refresh' = [refresh EXCEPT ![w] = q]
  BY <1>2, <1>4, <1>5, <1>6 DEF Asked
<1>8. failures' \in [News -> SUBSET [at : 0..now, nth : Nat]]
  BY <1>3, <1>4
<1>9. \A m \in News : /\ failures'[m] \subseteq failures[m]
                      /\ Recent(failures[m])' \subseteq Recent(failures[m])
                      /\ Fetchers(m)' \subseteq Fetchers(m)
  BY <1>3, <1>4, <1>7 DEF Recent, Fetchers
<1>10. FailuresAreFew'
  BY <1>9, FewStayFew
<1> QED BY <1>3, <1>7, <1>8, <1>10, RefreshOfDetailKeeps

\* A fetch that fails is a failure that counts.
LEMMA DetailFailsKeeps ==
    ASSUME ArticlesInv, NEW w \in Refreshers, DetailFails(w)
    PROVE  ArticlesInv' /\ BodyKept
<1>1. PICK n : n = refresh[w].news
  OBVIOUS
<1>2. PICK x : x = [at |-> now,
                    nth |-> Cardinality({t \in Recent(failures[n]) : t.at = now})]
  OBVIOUS
<1>3. /\ refresh[w].pc = "fetch"
      /\ failures' = [failures EXCEPT ![n] = Recent(failures[n]) \union {x}]
      /\ UNCHANGED <<signal, dated, article, batch, now, raced>>
      /\ refresh' = [refresh EXCEPT ![w].pc = "store",
           ![w].item.row = IF refresh[w].knownDate THEN @ ELSE Row("failed", None)]
  BY <1>1, <1>2 DEF DetailFails
<1>4. /\ refresh \in [Refreshers -> {Idle} \union Asked \union Decided]
      /\ failures \in [News -> SUBSET [at : 0..now, nth : Nat]] /\ now \in Nat
      /\ refresh[w] \in Asked /\ n \in News
  BY <1>1, <1>3, RefreshKinds DEF ArticlesInv, TypeOK, Asked
<1>5. PICK item : item = [refresh[w].item EXCEPT !.row =
                            IF refresh[w].knownDate THEN @ ELSE Row("failed", None)]
  OBVIOUS
<1>6. item \in Given
  <2>1. refresh[w].item \in Given /\ Row("failed", None) \in Bodies
    BY <1>4 DEF Asked, Row, Bodies
  <2> QED BY <1>5, <2>1 DEF Given
<1>7. PICK q : q = [refresh[w] EXCEPT !.pc = "store", !.item = item]
  OBVIOUS
<1>8. q \in Asked /\ q.pc = "store"
  BY <1>4, <1>6, <1>7 DEF Asked
<1>9. refresh' = [refresh EXCEPT ![w] = q]
  BY <1>3, <1>4, <1>5, <1>7 DEF Asked
<1>10. IsFiniteSet(failures[n]) /\ IsFiniteSet(Recent(failures[n]))
  BY <1>4, RecentAreFew DEF ArticlesInv, FailuresAreFew
<1>11. x \in [at : 0..now, nth : Nat]
  <2>1. {t \in Recent(failures[n]) : t.at = now} \subseteq Recent(failures[n])
    OBVIOUS
  <2>2. Cardinality({t \in Recent(failures[n]) : t.at = now}) \in Nat
    BY <1>10, <2>1, NotMoreFailures
  <2> QED BY <1>2, <1>4, <2>2
<1>12. failures' \in [News -> SUBSET [at : 0..now, nth : Nat]]
  BY <1>3, <1>4, <1>11 DEF Recent
<1>13. ASSUME NEW m \in News
       PROVE  /\ IsFiniteSet(failures'[m])
              /\ Cardinality(Recent(failures[m])') + Cardinality(Fetchers(m)')
                   <= MaxAttempts - 1 + Cardinality(Refreshers)
  <2>1. /\ IsFiniteSet(failures[m])
        /\ Cardinality(Recent(failures[m])) + Cardinality(Fetchers(m))
             <= MaxAttempts - 1 + Cardinality(Refreshers)
    BY DEF ArticlesInv, FailuresAreFew
  <2>2. /\ Cardinality(Refreshers) \in Nat /\ Cardinality(Fetchers(m)) \in Nat
        /\ MaxAttempts \in Nat \ {0} /\ Cardinality(Recent(failures[m])) \in Nat
    BY <2>1, FetchersAreFew, RecentAreFew, ArticlesAssumption
  <2>3. CASE m = n
    <3>1. failures'[m] = Recent(failures[m]) \union {x}
      BY <1>3, <1>4, <2>3
    <3>2. /\ IsFiniteSet(failures'[m])
          /\ Cardinality(failures'[m]) \in Nat
          /\ Cardinality(failures'[m]) <= Cardinality(Recent(failures[m])) + 1
      <4>1. PICK R : R = Recent(failures[m])
        OBVIOUS
      <4>2. IsFiniteSet(R) /\ Cardinality(R) \in Nat
        BY <1>10, <2>2, <2>3, <4>1
      <4>3. /\ IsFiniteSet(R \union {x}) /\ Cardinality(R \union {x}) \in Nat
            /\ Cardinality(R \union {x}) \in {Cardinality(R), Cardinality(R) + 1}
        BY <4>2, FS_AddElement, FS_CardinalityType
      <4> QED BY <3>1, <4>1, <4>2, <4>3
    <3>3. Recent(failures[m])' \subseteq failures'[m]
      BY DEF Recent
    <3>4. /\ Cardinality(Recent(failures[m])') \in Nat
          /\ Cardinality(Recent(failures[m])') <= Cardinality(failures'[m])
      BY <3>2, <3>3, NotMoreFailures
    <3>5. w \in Fetchers(m) /\ Fetchers(m)' \subseteq Fetchers(m) \ {w}
      BY <1>1, <1>3, <1>4, <1>8, <1>9, <2>3 DEF Fetchers
    <3>6. /\ IsFiniteSet(Fetchers(m) \ {w})
          /\ Cardinality(Fetchers(m) \ {w}) = Cardinality(Fetchers(m)) - 1
      BY <3>5, FetchersAreFew, FS_RemoveElement
    <3>7. /\ Cardinality(Fetchers(m)') \in Nat
          /\ Cardinality(Fetchers(m)') <= Cardinality(Fetchers(m)) - 1
      BY <3>5, <3>6, NotMoreFailures
    <3> QED BY <2>1, <2>2, <3>2, <3>4, <3>7
  <2>4. CASE m # n
    <3>1. failures'[m] = failures[m]
      BY <1>3, <1>4, <2>4
    <3>2. Recent(failures[m])' = Recent(failures[m])
      BY <1>3, <3>1 DEF Recent
    <3>3. Fetchers(m)' \subseteq Fetchers(m)
      BY <1>4, <1>8, <1>9 DEF Fetchers
    <3>4. Cardinality(Fetchers(m)') \in Nat /\ Cardinality(Fetchers(m)') <= Cardinality(Fetchers(m))
      BY <3>3, FewerFetchers
    <3> QED BY <2>1, <2>2, <3>1, <3>2, <3>4
  <2> QED BY <2>3, <2>4
<1>14. FailuresAreFew'
  BY <1>13 DEF FailuresAreFew, Recent, Fetchers
<1> QED BY <1>3, <1>8, <1>9, <1>12, <1>14, RefreshOfDetailKeeps

\* A statement is decided on a row without a whole body.
LEMMA StatementNeedsNone ==
    ASSUME NEW a \in {None} \union Bodies, NEW row
    PROVE  /\ Statement(a, row) \in {"none", "insert", "update"}
           /\ Statement(a, row) # "none" => row # None /\ ~Complete(a)
           /\ Statement(a, row) = "insert" => a = None
BY BodyIsBody DEF Statement, Complete, Success

LEMMA DecideKeeps ==
    ASSUME ArticlesInv, NEW w \in Refreshers, Decide(w)
    PROVE  ArticlesInv' /\ BodyKept
<1>1. PICK n : n = refresh[w].news
  OBVIOUS
<1>2. PICK q : q = [pc |-> "write", news |-> n, item |-> refresh[w].item, new |-> n \notin Stored,
                    statement |-> Statement(article[n], refresh[w].item.row)]
  OBVIOUS
<1>3. /\ refresh[w].pc = "store" /\ refresh' = [refresh EXCEPT ![w] = q]
      /\ UNCHANGED <<signal, dated, article, failures, batch, now, raced>>
  BY <1>1, <1>2 DEF Decide, ArticlesInv, TypeOK
<1>4. /\ refresh \in [Refreshers -> {Idle} \union Asked \union Decided]
      /\ failures \in [News -> SUBSET [at : 0..now, nth : Nat]]
      /\ refresh[w].item \in Given /\ n \in News
      /\ article[n] \in {None} \union Bodies
  BY <1>1, <1>3, RefreshKinds DEF ArticlesInv, TypeOK, Asked
<1>5. /\ Statement(article[n], refresh[w].item.row) \in {"none", "insert", "update"}
      /\ Statement(article[n], refresh[w].item.row) # "none" =>
           refresh[w].item.row # None /\ ~Complete(article[n])
  BY <1>4, StatementNeedsNone
<1>6. q \in Decided
  BY <1>2, <1>4, <1>5 DEF Decided
<1>7. /\ q.new \/ q.news \in Stored
      /\ q.statement # "none" => q.item.row # None /\ ~Complete(article[q.news])
  BY <1>2, <1>5
<1>8. \A v \in Refreshers : refresh'[v] = IF v = w THEN q ELSE refresh[v]
  BY <1>3, <1>4
<1>9. \A m \in News : /\ failures'[m] \subseteq failures[m]
                      /\ Recent(failures[m])' \subseteq Recent(failures[m])
                      /\ Fetchers(m)' \subseteq Fetchers(m)
  BY <1>2, <1>3, <1>8 DEF Recent, Fetchers
<1>10. FailuresAreFew'
  BY <1>9, FewStayFew
<1> QED BY <1>3, <1>4, <1>6, <1>7, <1>10, RefreshOfDetailKeeps

LEMMA StoreFailsKeeps ==
    ASSUME ArticlesInv, NEW w \in Refreshers, StoreFails(w)
    PROVE  ArticlesInv' /\ BodyKept
<1>1. PICK q : q = Idle
  OBVIOUS
<1>2. /\ refresh' = [refresh EXCEPT ![w] = q] /\ q \in {Idle} /\ q.pc = "idle"
      /\ UNCHANGED <<signal, dated, article, failures, batch, now, raced>>
  BY <1>1 DEF StoreFails, Idle
<1>3. /\ refresh \in [Refreshers -> {Idle} \union Asked \union Decided]
      /\ failures \in [News -> SUBSET [at : 0..now, nth : Nat]]
  BY DEF ArticlesInv, TypeOK
<1>4. \A m \in News : /\ failures'[m] \subseteq failures[m]
                      /\ Recent(failures[m])' \subseteq Recent(failures[m])
                      /\ Fetchers(m)' \subseteq Fetchers(m)
  BY <1>2, <1>3 DEF Recent, Fetchers
<1>5. FailuresAreFew'
  BY <1>4, FewStayFew
<1> QED BY <1>2, <1>3, <1>5, RefreshOfDetailKeeps

\* persist_item writes: a whole body that is replaced came in between.
LEMMA StoreKeeps ==
    ASSUME ArticlesInv, NEW w \in Refreshers, Store(w)
    PROVE  ArticlesInv' /\ BodyKept
<1>1. PICK q : q = refresh[w]
  OBVIOUS
<1>2. PICK n : n = q.news
  OBVIOUS
<1>3. /\ q.pc = "write" /\ ~Refused(q.new, q.statement, n)
      /\ signal' = [signal EXCEPT ![n] = IF q.new THEN "pending" ELSE @]
      /\ dated' = IF q.item.dated THEN dated \union {n} ELSE dated
      /\ article' = [article EXCEPT ![n] = IF q.statement = "none" THEN @ ELSE q.item.row]
      /\ raced' = IF Complete(article'[n]) /\ n \in Crawling \union Writing(Refreshers \ {w})
                  THEN raced \union {n} ELSE raced \ {n}
      /\ refresh' = [refresh EXCEPT ![w] = Idle]
      /\ UNCHANGED <<failures, batch, now>>
  BY <1>1, <1>2 DEF Store
<1>4. /\ refresh \in [Refreshers -> {Idle} \union Asked \union Decided]
      /\ signal \in [News -> {None, "pending", "processed"}]
      /\ article \in [News -> {None} \union Bodies]
      /\ dated \subseteq Stored /\ \A m \in News : article[m] # None => m \in Stored
  BY DEF ArticlesInv, TypeOK
<1>5. /\ n \in News /\ q.item.row \in {None} \union Bodies /\ q.new \in BOOLEAN
      /\ q.statement \in {"none", "insert", "update"}
  BY <1>1, <1>2, <1>3, RefreshKinds DEF Decided, Given
<1>6. /\ q.new \/ n \in Stored
      /\ q.statement # "none" => q.item.row # None /\ (Complete(article[n]) => n \in raced)
  BY <1>1, <1>2, <1>3 DEF ArticlesInv, DecisionsHold
<1>7. /\ q.new => n \notin Stored
      /\ q.statement = "insert" => article[n] = None
  BY <1>3 DEF Refused
<1>8. /\ \A m \in News : signal'[m] = IF m = n /\ q.new THEN "pending" ELSE signal[m]
      /\ signal' \in [News -> {None, "pending", "processed"}]
      /\ \A m \in News : article'[m] = IF m = n /\ q.statement # "none" THEN q.item.row
                                       ELSE article[m]
      /\ article' \in [News -> {None} \union Bodies]
      /\ \A v \in Refreshers : refresh'[v] = IF v = w THEN Idle ELSE refresh[v]
      /\ refresh' \in [Refreshers -> {Idle} \union Asked \union Decided]
  BY <1>3, <1>4, <1>5
<1>9. Stored' = Stored \union {n} /\ Stored \subseteq News
  BY <1>5, <1>6, <1>8, ArticlesAssumption DEF Stored
<1>10. \A m \in News : article[m] # None => article'[m] # None
  BY <1>6, <1>8
<1>11. TypeOK'
  <2>1. dated' \subseteq Stored' /\ \A m \in News : article'[m] # None => m \in Stored'
    BY <1>3, <1>4, <1>8, <1>9
  <2> QED BY <1>3, <1>8, <2>1 DEF ArticlesInv, TypeOK
<1>12. ProcessedHasArticle'
  BY <1>8, <1>10, ArticlesAssumption DEF ArticlesInv, ProcessedHasArticle
<1>13. BodyKept
  BY <1>6, <1>8 DEF BodyKept
<1>14. ASSUME NEW m \in News, Complete(article'[m]),
              m = n => n \in Crawling \union Writing(Refreshers \ {w}),
              m # n => (Complete(article[m]) => m \in raced)
       PROVE  m \in raced'
  BY <1>3, <1>8, <1>14
<1>15. DecisionsHold'
  <2> SUFFICES ASSUME NEW v \in Refreshers, refresh'[v].pc = "write"
               PROVE  /\ refresh'[v].new \/ refresh'[v].news \in Stored'
                      /\ refresh'[v].statement # "none" =>
                           /\ refresh'[v].item.row # None
                           /\ Complete(article'[refresh'[v].news]) => refresh'[v].news \in raced'
    BY DEF DecisionsHold, Complete, Success
  <2>1. v # w /\ refresh'[v] = refresh[v] /\ refresh[v].pc = "write"
    BY <1>8 DEF Idle
  <2>2. /\ refresh[v].new \/ refresh[v].news \in Stored
        /\ refresh[v].statement # "none" =>
             /\ refresh[v].item.row # None
             /\ Complete(article[refresh[v].news]) => refresh[v].news \in raced
    BY <2>1 DEF ArticlesInv, DecisionsHold
  <2>3. refresh[v].news \in News /\ refresh[v].news \in Writing(Refreshers \ {w})
    BY <2>1, RefreshKinds DEF Decided, Writing
  <2>4. refresh[v].statement # "none" /\ Complete(article'[refresh[v].news])
          => refresh[v].news \in raced'
    BY <1>14, <2>2, <2>3
  <2> QED BY <1>9, <2>1, <2>2, <2>4
<1>16. BatchHolds'
  <2> SUFFICES ASSUME batch.pc # "idle" PROVE BatchHolds'
    BY <1>3 DEF BatchHolds
  <2>1. batch.pc \in {"crawl", "upsert"} =>
          \A m \in DOMAIN batch.crawl : Complete(article'[m]) => m \in raced'
    <3> SUFFICES ASSUME batch.pc \in {"crawl", "upsert"}, NEW m \in DOMAIN batch.crawl,
                        Complete(article'[m])
                 PROVE  m \in raced'
      OBVIOUS
    <3>1. m \in News /\ m \in Crawling /\ (Complete(article[m]) => m \in raced)
      BY <1>9 DEF ArticlesInv, BatchHolds, Crawling
    <3> QED BY <1>14, <3>1
  <2>2. batch.news \subseteq Stored' /\ batch.news \subseteq News
    BY <1>9 DEF ArticlesInv, BatchHolds
  <2> QED BY <1>3, <1>10, <2>1, <2>2 DEF ArticlesInv, BatchHolds, Complete, Success
<1>17. FailuresAreFew'
  <2>1. \A m \in News : /\ failures'[m] \subseteq failures[m]
                        /\ Recent(failures[m])' \subseteq Recent(failures[m])
                        /\ Fetchers(m)' \subseteq Fetchers(m)
    BY <1>3, <1>8 DEF Recent, Fetchers, Idle
  <2> QED BY <2>1, FewStayFew
<1> QED BY <1>11, <1>12, <1>13, <1>15, <1>16, <1>17 DEF ArticlesInv

\* A step of the pipeline leaves the refreshes and what fails of them.
LEMMA PipelineKeepsFew ==
    ASSUME ArticlesInv, UNCHANGED <<refresh, failures, now>>
    PROVE  FailuresAreFew'
BY DEF ArticlesInv, FailuresAreFew, Recent, Fetchers

\* News without a body are crawled, the others have one.
LEMMA StartCrawlKeeps ==
    ASSUME ArticlesInv, StartBatch
    PROVE  ArticlesInv' /\ BodyKept
<1>1. PICK ns \in SUBSET {n \in News : signal[n] = "pending"} :
        batch' = [pc |-> "crawl", news |-> ns, crawl |-> [n \in ToCrawl(ns) |-> None]]
  BY DEF StartBatch
<1>2. UNCHANGED <<signal, dated, article, refresh, failures, now, raced>>
  BY DEF StartBatch, refreshing
<1>3. /\ batch'.pc = "crawl" /\ batch'.news = ns /\ DOMAIN batch'.crawl = ToCrawl(ns)
      /\ \A n \in ToCrawl(ns) : batch'.crawl[n] = None
  BY <1>1
<1>4. \A n \in ns : n \in Stored /\ n \in News
  BY <1>1, ArticlesAssumption DEF Stored
<1>5. /\ ToCrawl(ns) \subseteq ns /\ \A n \in ToCrawl(ns) : ~Complete(article[n])
      /\ \A n \in ns : n \notin ToCrawl(ns) => article[n] # None
  BY DEF ToCrawl, Complete, Success
<1>6. BatchHolds'
  BY <1>2, <1>3, <1>4, <1>5 DEF BatchHolds, Complete, Success, Stored
<1>7. TypeOK'
  BY <1>2, <1>3 DEF ArticlesInv, TypeOK, Stored
<1>8. ProcessedHasArticle' /\ DecisionsHold' /\ BodyKept
  BY <1>2 DEF ArticlesInv, ProcessedHasArticle, DecisionsHold, BodyKept, Stored, Complete, Success
<1> QED BY <1>2, <1>6, <1>7, <1>8, PipelineKeepsFew DEF ArticlesInv

\* Whatever a page looks like, what is taken of it is a row.
LEMMA CrawlsAreBodies == CrawlResults \subseteq Bodies
<1>1. \A words : Taken(words) \in Bodies
  BY DEF Taken, Row, Bodies
<1>2. Row("failed", None) \in Bodies
  BY DEF Row, Bodies
<1> QED BY <1>1, <1>2 DEF CrawlResults, FromContainer, FromParagraphs, FromRest

LEMMA CrawlKeeps ==
    ASSUME ArticlesInv, Crawl
    PROVE  ArticlesInv' /\ BodyKept
<1>1. PICK n \in DOMAIN batch.crawl, result \in CrawlResults :
        batch' = [pc |-> "crawl", news |-> batch.news,
                  crawl |-> [batch.crawl EXCEPT ![n] = result]]
  BY DEF Crawl
<1>2. /\ batch.pc = "crawl"
      /\ UNCHANGED <<signal, dated, article, refresh, failures, now, raced>>
  BY DEF Crawl, refreshing
<1>3. /\ batch'.pc = "crawl" /\ batch'.news = batch.news
      /\ DOMAIN batch'.crawl = DOMAIN batch.crawl
      /\ \A m \in DOMAIN batch.crawl :
           batch'.crawl[m] = IF m = n THEN result ELSE batch.crawl[m]
  BY <1>1
<1>4. result \in Bodies
  BY CrawlsAreBodies
<1>5. BatchHolds'
  BY <1>2, <1>3, <1>4 DEF ArticlesInv, BatchHolds, Complete, Success, Stored
<1>6. TypeOK'
  BY <1>2, <1>3 DEF ArticlesInv, TypeOK, Stored
<1>7. ProcessedHasArticle' /\ DecisionsHold' /\ BodyKept
  BY <1>2 DEF ArticlesInv, ProcessedHasArticle, DecisionsHold, BodyKept, Stored, Complete, Success
<1> QED BY <1>2, <1>5, <1>6, <1>7, PipelineKeepsFew DEF ArticlesInv

LEMMA UpsertKeeps ==
    ASSUME ArticlesInv, Upsert
    PROVE  ArticlesInv' /\ BodyKept
<1>1. /\ batch.pc = "crawl" /\ \A n \in DOMAIN batch.crawl : batch.crawl[n] # None
      /\ UNCHANGED <<signal, dated, article, refresh, failures, now, raced>>
      /\ batch'.pc = "upsert" /\ batch'.news = batch.news /\ batch'.crawl = batch.crawl
  BY DEF Upsert, refreshing
<1>2. BatchHolds'
  BY <1>1 DEF ArticlesInv, BatchHolds, Complete, Success, Stored
<1>3. TypeOK'
  BY <1>1 DEF ArticlesInv, TypeOK, Stored
<1>4. ProcessedHasArticle' /\ DecisionsHold' /\ BodyKept
  BY <1>1 DEF ArticlesInv, ProcessedHasArticle, DecisionsHold, BodyKept, Stored, Complete, Success
<1> QED BY <1>1, <1>2, <1>3, <1>4, PipelineKeepsFew DEF ArticlesInv

\* The crawls overwrite what is there: a whole body only where a refresh brought it in
\* between.
LEMMA CommitArticlesKeeps ==
    ASSUME ArticlesInv, CommitArticles
    PROVE  ArticlesInv' /\ BodyKept
<1> DEFINE D == DOMAIN batch.crawl
<1>1. /\ batch.pc = "upsert"
      /\ article' = [n \in News |-> IF n \in D THEN batch.crawl[n] ELSE article[n]]
      /\ raced' = (raced \ D)
                   \union {n \in D : Complete(article'[n]) /\ n \in Writing(Refreshers)}
      /\ batch' = [pc |-> "apply", news |-> batch.news, crawl |-> <<>>]
      /\ UNCHANGED <<signal, dated, refresh, failures, now>>
  BY DEF CommitArticles, refreshing
<1>2. /\ batch.news \subseteq Stored /\ D \subseteq batch.news
      /\ \A n \in D : batch.crawl[n] \in Bodies /\ (Complete(article[n]) => n \in raced)
      /\ \A n \in batch.news : n \notin D => article[n] # None
  BY <1>1 DEF ArticlesInv, BatchHolds
<1>3. /\ article \in [News -> {None} \union Bodies] /\ Stored \subseteq News
      /\ \A n \in News : article[n] # None => n \in Stored
      /\ signal \in [News -> {None, "pending", "processed"}] /\ dated \subseteq Stored
  BY DEF ArticlesInv, TypeOK, Stored
<1> HIDE DEF D
<1>4. /\ article' \in [News -> {None} \union Bodies]
      /\ \A n \in News : article'[n] = IF n \in D THEN batch.crawl[n] ELSE article[n]
      /\ \A n \in News : article[n] # None => article'[n] # None
      /\ Stored' = Stored
  BY <1>1, <1>2, <1>3, BodyIsBody DEF Stored
<1>5. batch'.pc = "apply" /\ batch'.news = batch.news /\ DOMAIN batch'.crawl = {}
  BY <1>1
<1>6. TypeOK'
  <2>1. \A n \in News : article'[n] # None => n \in Stored'
    BY <1>2, <1>3, <1>4
  <2> QED BY <1>1, <1>3, <1>4, <1>5, <2>1 DEF ArticlesInv, TypeOK
<1>7. BatchHolds'
  <2>1. \A n \in batch.news : article'[n] # None
    BY <1>2, <1>3, <1>4, BodyIsBody
  <2> QED BY <1>2, <1>4, <1>5, <2>1 DEF BatchHolds
<1>8. ProcessedHasArticle'
  BY <1>1, <1>4 DEF ArticlesInv, ProcessedHasArticle
<1>9. BodyKept
  BY <1>2, <1>4 DEF BodyKept
<1>10. DecisionsHold'
  <2> SUFFICES ASSUME NEW v \in Refreshers, refresh[v].pc = "write"
               PROVE  /\ refresh[v].new \/ refresh[v].news \in Stored
                      /\ refresh[v].statement # "none" =>
                           /\ refresh[v].item.row # None
                           /\ Complete(article'[refresh[v].news]) => refresh[v].news \in raced'
    BY <1>1, <1>4 DEF DecisionsHold, Complete, Success
  <2>1. /\ refresh[v].new \/ refresh[v].news \in Stored
        /\ refresh[v].statement # "none" =>
             /\ refresh[v].item.row # None
             /\ Complete(article[refresh[v].news]) => refresh[v].news \in raced
    BY DEF ArticlesInv, DecisionsHold
  <2>2. refresh[v].news \in News /\ refresh[v].news \in Writing(Refreshers)
    BY RefreshKinds DEF Decided, Writing
  <2>3. CASE refresh[v].news \in D
    BY <1>1, <2>1, <2>2, <2>3
  <2>4. CASE refresh[v].news \notin D
    BY <1>1, <1>4, <2>1, <2>2, <2>4
  <2> QED BY <2>3, <2>4
<1> QED BY <1>1, <1>6, <1>7, <1>8, <1>9, <1>10, PipelineKeepsFew DEF ArticlesInv

LEMMA ProcessKeeps ==
    ASSUME ArticlesInv, Process
    PROVE  ArticlesInv' /\ BodyKept
<1>1. /\ batch.pc = "apply" /\ batch' = NoBatch
      /\ signal' = [n \in News |-> IF n \in batch.news THEN "processed" ELSE signal[n]]
      /\ UNCHANGED <<dated, article, refresh, failures, now, raced>>
  BY DEF Process, refreshing
<1>2. /\ batch.news \subseteq Stored /\ \A n \in batch.news : article[n] # None
  BY <1>1 DEF ArticlesInv, BatchHolds
<1>3. signal \in [News -> {None, "pending", "processed"}]
  BY DEF ArticlesInv, TypeOK
<1>4. Stored' = Stored
  BY <1>1, <1>2, <1>3, ArticlesAssumption DEF Stored
<1>5. TypeOK'
  BY <1>1, <1>3, <1>4 DEF ArticlesInv, TypeOK, NoBatch
<1>6. ProcessedHasArticle' /\ BodyKept
  BY <1>1, <1>2 DEF ArticlesInv, ProcessedHasArticle, BodyKept
<1>7. DecisionsHold' /\ BatchHolds'
  BY <1>1, <1>4 DEF ArticlesInv, DecisionsHold, BatchHolds, NoBatch, Complete, Success
<1> QED BY <1>1, <1>5, <1>6, <1>7, PipelineKeepsFew DEF ArticlesInv

LEMMA BatchFailsKeeps ==
    ASSUME ArticlesInv, BatchFails
    PROVE  ArticlesInv' /\ BodyKept
<1>1. /\ batch' = NoBatch /\ raced' = raced \ (Crawling \ Writing(Refreshers))
      /\ UNCHANGED <<signal, dated, article, refresh, failures, now>>
  BY DEF BatchFails, refreshing
<1>2. TypeOK' /\ ProcessedHasArticle' /\ BatchHolds' /\ BodyKept
  BY <1>1 DEF ArticlesInv, TypeOK, Stored, NoBatch, ProcessedHasArticle, BatchHolds, BodyKept
<1>3. DecisionsHold'
  <2>1. ASSUME NEW v \in Refreshers, refresh[v].pc = "write", refresh[v].news \in raced
        PROVE  refresh[v].news \in raced'
    BY <1>1, <2>1 DEF Writing
  <2> QED BY <1>1, <2>1 DEF ArticlesInv, DecisionsHold, Stored, Complete, Success
<1> QED BY <1>1, <1>2, <1>3, PipelineKeepsFew DEF ArticlesInv

LEMMA TickOfArticlesKeeps ==
    ASSUME ArticlesInv, Tick
    PROVE  ArticlesInv' /\ BodyKept
<1>1. /\ now' = now + 1
      /\ failures' = [n \in News |-> {t \in failures[n] : t.at + Window > now}]
      /\ UNCHANGED <<signal, dated, article, refresh, batch, raced>>
  BY DEF Tick
<1>2. now \in Nat /\ failures \in [News -> SUBSET [at : 0..now, nth : Nat]] /\ Window \in Nat
  BY ArticlesAssumption DEF ArticlesInv, TypeOK
<1>3. /\ now' \in Nat
      /\ failures' \in [News -> SUBSET [at : 0..now', nth : Nat]]
  <2>1. [at : 0..now, nth : Nat] \subseteq [at : 0..now', nth : Nat]
    BY <1>1, <1>2
  <2> QED BY <1>1, <1>2, <2>1
<1>4. TypeOK'
  BY <1>1, <1>3 DEF ArticlesInv, TypeOK, Stored
<1>5. ProcessedHasArticle' /\ DecisionsHold' /\ BatchHolds' /\ BodyKept
  BY <1>1 DEF ArticlesInv, ProcessedHasArticle, DecisionsHold, BatchHolds, BodyKept, Stored,
              Complete, Success
<1>6. FailuresAreFew'
  <2>1. ASSUME NEW n \in News, NEW t \in failures[n], t.at + Window >= now + 1
        PROVE  t.at + Window >= now
    <3>1. t.at \in Nat
      BY <1>2, <2>1
    <3> QED BY <1>2, <2>1, <3>1
  <2>2. \A n \in News : /\ failures'[n] \subseteq failures[n]
                        /\ Recent(failures[n])' \subseteq Recent(failures[n])
                        /\ Fetchers(n)' \subseteq Fetchers(n)
    BY <1>1, <2>1 DEF Recent, Fetchers
  <2> QED BY <2>2, FewStayFew
<1> QED BY <1>4, <1>5, <1>6 DEF ArticlesInv

LEMMA ArticlesInitInv == Init => ArticlesInv
<1> SUFFICES ASSUME Init PROVE ArticlesInv
  OBVIOUS
<1>1. /\ signal = [n \in News |-> None] /\ dated = {} /\ article = [n \in News |-> None]
      /\ refresh = [w \in Refreshers |-> Idle] /\ failures = [n \in News |-> {}]
      /\ batch = NoBatch /\ now = 0
  BY DEF Init
<1>2. TypeOK /\ DecisionsHold /\ BatchHolds
  BY <1>1, ArticlesAssumption DEF TypeOK, DecisionsHold, BatchHolds, NoBatch, Idle, Stored
<1>3. ProcessedHasArticle
  BY <1>1, ArticlesAssumption DEF ProcessedHasArticle
<1>4. FailuresAreFew
  <2> SUFFICES ASSUME NEW n \in News
               PROVE  /\ IsFiniteSet(failures[n])
                      /\ Cardinality(Recent(failures[n])) + Cardinality(Fetchers(n))
                           <= MaxAttempts - 1 + Cardinality(Refreshers)
    BY DEF FailuresAreFew
  <2>1. failures[n] = {} /\ Recent(failures[n]) = {} /\ Fetchers(n) = {}
    BY <1>1 DEF Recent, Fetchers, Idle
  <2>2. IsFiniteSet(failures[n]) /\ Cardinality(Recent(failures[n])) = 0
        /\ Cardinality(Fetchers(n)) = 0
    BY <2>1, FS_EmptySet
  <2> QED BY <2>2, FetchersAreFew, ArticlesAssumption
<1> QED BY <1>2, <1>3, <1>4 DEF ArticlesInv

\* Every step keeps the invariant, and the bodies that did not come in between.
LEMMA ArticlesNextKeeps ==
    ASSUME ArticlesInv, Next
    PROVE  ArticlesInv' /\ BodyKept
BY BeginRefreshKeeps, DetailArrivesKeeps, DetailFailsKeeps, DecideKeeps, StoreKeeps,
   StoreFailsKeeps, StartCrawlKeeps, CrawlKeeps, UpsertKeeps, CommitArticlesKeeps, ProcessKeeps,
   BatchFailsKeeps, TickOfArticlesKeeps DEF Next

\* Articles: a body, once there, is kept unless it came when another writer had found none
\* already, the fetches of a page that fails are bounded, a processed news has a row
\* (DetailFetchCooldown, persist_item, update_existing_item, _ensure_articles).
THEOREM ArticlesTheorem == OneSpec => ArticlesAreSound
<1>1. OneInit => ArticlesInv
  BY ArticlesInitInv DEF OneInit
<1>2. [OneNext]_allVars => [Next]_articlesVars
  BY DEF OneNext, allVars
<1>3. ArticlesInv /\ UNCHANGED articlesVars => ArticlesInv'
  BY DEF articlesVars, ArticlesInv, TypeOK, ProcessedHasArticle, DecisionsHold, BatchHolds,
         FailuresAreFew, Recent, Fetchers, Stored, Complete, Success
<1>4. ArticlesInv /\ [OneNext]_allVars => ArticlesInv'
  BY <1>2, <1>3, ArticlesNextKeeps
<1>5. ArticlesInv => FetchesAreBounded
  BY FetchesBounded
<1>6. ArticlesInv /\ ArticlesInv' /\ (ArticlesInv' => FetchesAreBounded') /\ [OneNext]_allVars
        => [SoundStep]_vars
  <2>1. [OneNext]_allVars => [Next]_vars
    BY <1>2 DEF articlesVars, vars, refreshing
  <2> QED BY <2>1, ArticlesNextKeeps DEF SoundStep, ArticlesInv
<1> QED BY <1>1, <1>4, <1>5, <1>6, PTL DEF OneSpec, ArticlesAreSound
-----------------------------------------------------------------------------
\* RelevanceGate.

\* What the rules of signals say of a text, but for the weak one.
Signal ==
    \/ "phrase" \in Relevance!Text \/ Relevance!ChineseMarketSignal
    \/ "acronym" \in Relevance!Text \/ {"route", "disruption"} \subseteq Relevance!Text
    \/ Relevance!GeoEnergyShipping \/ Relevance!ShippingStatusChange
    \/ {"taiwan", "arms"} \subseteq Relevance!Text \/ Relevance!IranWarPowers
    \/ Relevance!SectorSignal

StoredFor ==
    \/ source \in {"official", "stocks"}
    \/ "term" \in Relevance!Text
    \/ ~Relevance!SectorTerm /\ Signal

\* Relevance!Cardinality and Cardinality are one operator.
LEMMA RelevanceCardinality == \A S : Relevance!Cardinality(S) = Cardinality(S)
BY Zenon DEF Relevance!Cardinality, Cardinality

\* The place of the first rule that applies.
LEMMA ReasonIsFirst ==
    \E k \in 1..15 : /\ Relevance!Reason = Relevance!Order[k]
                     /\ Relevance!Applies(Relevance!Order[k])
                     /\ \A j \in 1..(k - 1) : ~Relevance!Applies(Relevance!Order[j])
<1> DEFINE A(i) == Relevance!Applies(Relevance!Order[i])
           first(i) == A(i) /\ \A j \in 1..(i - 1) : ~A(j)
           T == {i \in 1..15 : A(i)}
<1>1. DOMAIN Relevance!Order = 1..15 /\ Relevance!Order[15] = "none"
  BY DEF Relevance!Order
<1>2. A(15)
  BY <1>1 DEF Relevance!Applies
<1>3. \E i \in 1..15 : first(i)
  <2> HIDE DEF A
  <2>1. T \in SUBSET Nat /\ T # {}
    BY <1>2
  <2>2. PICK i \in T : \A j \in T : i <= j
    BY <2>1, LeastNumber
  <2>3. \A j \in 1..(i - 1) : j \in 1..15 /\ j < i
    BY <2>2
  <2> QED BY <2>2, <2>3
<1>4. Relevance!Reason = Relevance!Order[CHOOSE i \in 1..15 : first(i)]
  BY <1>1 DEF Relevance!Reason
<1> HIDE DEF first
<1>5. PICK k \in 1..15 : k = (CHOOSE i \in 1..15 : first(i)) /\ first(k)
  BY <1>3
<1> QED BY <1>4, <1>5 DEF first

\* An item is stored for its source or its signals.
LEMMA PassesForSignal == Relevance!Passes <=> StoredFor
<1> DEFINE A(i) == Relevance!Applies(Relevance!Order[i])
<1>1. PICK k \in 1..15 : /\ Relevance!Reason = Relevance!Order[k] /\ A(k)
                         /\ \A j \in 1..(k - 1) : ~A(j)
  BY ReasonIsFirst
<1>2. /\ Relevance!Order[1] = "market_signal_term" /\ Relevance!Order[2] = "sector_signal_term"
      /\ Relevance!Order[3] = "market_signal_phrase"
      /\ Relevance!Order[4] = "chinese_market_phrase"
      /\ Relevance!Order[5] = "macro_acronym" /\ Relevance!Order[6] = "shipping_disruption"
      /\ Relevance!Order[7] = "geo_energy_shipping"
      /\ Relevance!Order[8] = "shipping_status_change"
      /\ Relevance!Order[9] = "taiwan_arms_sale" /\ Relevance!Order[10] = "iran_war_powers"
      /\ Relevance!Order[11] = "sector_signal" /\ Relevance!Order[12] = "chinese_noise"
      /\ Relevance!Order[13] = "concept_mover" /\ Relevance!Order[14] = "generic_tech"
      /\ Relevance!Order[15] = "none"
  BY DEF Relevance!Order
<1>3. /\ A(1) <=> "term" \in Relevance!Text
      /\ A(2) <=> Relevance!SectorTerm
  BY <1>2 DEF Relevance!Applies
<1>4. \/ k = 1 \/ k = 2 \/ k \in 3..11 \/ k = 12 \/ k = 13 \/ k = 14 \/ k = 15
  BY <1>1
<1>5. Signal <=> A(3) \/ A(4) \/ A(5) \/ A(6) \/ A(7) \/ A(8) \/ A(9) \/ A(10) \/ A(11)
  BY <1>2 DEF Signal, Relevance!Applies
<1>6. Signal <=> \E i \in 3..11 : A(i)
  <2> HIDE DEF A
  <2>1. \A i \in 3..11 : i = 3 \/ i = 4 \/ i = 5 \/ i = 6 \/ i = 7 \/ i = 8 \/ i = 9 \/ i = 10 \/ i = 11
    OBVIOUS
  <2> QED BY <1>5, <2>1
<1>7. Relevance!Reason \notin Relevance!Irrelevant \union Relevance!WeakReasons
        <=> k = 1 \/ k \in 3..11
  <2>1. k \in 3..11 => \/ k = 3 \/ k = 4 \/ k = 5 \/ k = 6 \/ k = 7 \/ k = 8 \/ k = 9
                       \/ k = 10 \/ k = 11
    OBVIOUS
  <2> HIDE DEF A
  <2> QED BY <1>1, <1>2, <1>4, <2>1 DEF Relevance!Irrelevant, Relevance!WeakReasons
<1>8. k = 1 \/ k \in 3..11 <=> "term" \in Relevance!Text \/ (~Relevance!SectorTerm /\ Signal)
  <2> HIDE DEF A
  <2>1. k = 1 => A(1)
    BY <1>1
  <2>2. k \in 3..11 => ~A(2) /\ \E i \in 3..11 : A(i)
    BY <1>1
  <2>3. k > 1 => ~A(1)
    BY <1>1
  <2>4. k = 2 => A(2)
    BY <1>1
  <2>5. k > 11 => \A i \in 3..11 : ~A(i)
    BY <1>1
  <2> QED BY <1>1, <1>3, <1>4, <1>6, <2>1, <2>2, <2>3, <2>4, <2>5
<1> QED BY <1>7, <1>8 DEF Relevance!Passes, StoredFor

\* A relevant text stays so when a term is added that gives no other one its meaning.
LEMMA MoreSignals ==
    ASSUME NEW t \in Relevance!Terms, Relevance!Add(t),
           t \notin {"digest", "envoy", "sector", "low"}
    PROVE  Relevance!Passes => Relevance!Passes'
<1>1. /\ title \subseteq title' /\ source' = source
      /\ Relevance!Text' = Relevance!Text \union {t}
      /\ "digest" \in title' <=> "digest" \in title
  BY DEF Relevance!Add, Relevance!Text
<1>2. Relevance!AliasText \subseteq Relevance!AliasText'
  BY <1>1 DEF Relevance!AliasText
<1>3. "term" \in Relevance!Text => ("term" \in Relevance!Text)'
  BY <1>1
<1>4. Relevance!SectorTerm' <=> Relevance!SectorTerm
  BY <1>1 DEF Relevance!SectorTerm
<1>5. Relevance!ChineseMarketSignal => Relevance!ChineseMarketSignal'
  BY <1>1, <1>2 DEF Relevance!ChineseMarketSignal, Relevance!BroadMarketAlias, Relevance!ProductRecall
<1>6. /\ Relevance!GeoEnergyShipping => Relevance!GeoEnergyShipping'
      /\ Relevance!ShippingStatusChange => Relevance!ShippingStatusChange'
      /\ Relevance!IranWarPowers => Relevance!IranWarPowers'
      /\ Relevance!SectorSignal => Relevance!SectorSignal'
  BY <1>1 DEF Relevance!GeoEnergyShipping, Relevance!ShippingStatusChange, Relevance!IranWarPowers,
              Relevance!SectorSignal
<1>7. Signal => Signal'
  BY <1>1, <1>5, <1>6 DEF Signal
<1>8. Relevance!Passes' <=> StoredFor'
  BY PassesForSignal, PTL
<1> QED BY <1>1, <1>3, <1>4, <1>7, <1>8, PassesForSignal DEF StoredFor

\* Half of what makes a signal is none.
LEMMA HalvesDoNotPass ==
    ASSUME NEW half \in Relevance!Halves, source = "plain", Relevance!Text \subseteq half
    PROVE  ~Relevance!Passes
<1>1. \/ half = {"geopolitics", "status", "route", "taiwan", "iran", "military"}
      \/ half = {"carrier", "disruption", "arms", "warpowers", "iran"}
  BY DEF Relevance!Halves
<1>2. /\ "term" \notin Relevance!Text /\ "phrase" \notin Relevance!Text
      /\ "acronym" \notin Relevance!Text /\ "sector" \notin Relevance!Text
      /\ "chinese" \notin Relevance!Text /\ "recall" \notin Relevance!Text
      /\ "alias" \notin Relevance!Text /\ "usAlias" \notin Relevance!Text
      /\ "digest" \notin Relevance!Text
  BY <1>1
<1>3. ~Relevance!ChineseMarketSignal
  BY <1>2 DEF Relevance!ChineseMarketSignal, Relevance!BroadMarketAlias, Relevance!ProductRecall,
              Relevance!AliasText, Relevance!Text
<1>4. ~Signal
  BY <1>1, <1>2, <1>3 DEF Signal, Relevance!GeoEnergyShipping, Relevance!ShippingStatusChange,
                          Relevance!IranWarPowers, Relevance!SectorSignal
<1> QED BY <1>2, <1>4, PassesForSignal DEF StoredFor

RelevanceInv == Relevance!TypeOK /\ IsFiniteSet(title) /\ IsFiniteSet(body)

LEMMA TextsGrow ==
    ASSUME RelevanceInv, NEW t \in Relevance!Terms, Relevance!Add(t)
    PROVE  RelevanceInv'
<1>1. /\ Cardinality(title) \in Nat /\ Cardinality(body) \in Nat /\ MaxTerms \in Nat
      /\ IsFiniteSet(title) /\ IsFiniteSet(body)
  BY FS_CardinalityType, TermsAssumption DEF RelevanceInv
<1>2. t \notin title /\ t \notin body /\ Cardinality(title) + Cardinality(body) < MaxTerms
  BY RelevanceCardinality DEF Relevance!Add, Relevance!Text
<1>3. \/ title' = title \union {t} /\ body' = body
      \/ body' = body \union {t} /\ title' = title
  BY DEF Relevance!Add
<1>4. /\ IsFiniteSet(title') /\ IsFiniteSet(body')
      /\ Cardinality(title') + Cardinality(body') <= MaxTerms
  <2>1. /\ IsFiniteSet(title \union {t}) /\ Cardinality(title \union {t}) = Cardinality(title) + 1
        /\ IsFiniteSet(body \union {t}) /\ Cardinality(body \union {t}) = Cardinality(body) + 1
    BY <1>1, <1>2, FS_AddElement
  <2>2. CASE title' = title \union {t} /\ body' = body
    BY <1>1, <1>2, <2>1, <2>2
  <2>3. CASE body' = body \union {t} /\ title' = title
    BY <1>1, <1>2, <2>1, <2>3
  <2> QED BY <1>3, <2>2, <2>3
<1>5. title' \intersect body' = {}
  BY <1>2, <1>3 DEF RelevanceInv, Relevance!TypeOK
<1>6. Cardinality(Relevance!Text') <= MaxTerms
  <2>1. Cardinality(title' \union body')
          = Cardinality(title') + Cardinality(body') - Cardinality(title' \intersect body')
    BY <1>4, FS_Union
  <2>2. Cardinality(title' \intersect body') = 0
    BY <1>5, FS_EmptySet
  <2>3. Cardinality(title') \in Nat /\ Cardinality(body') \in Nat
    BY <1>4, FS_CardinalityType
  <2> QED BY <1>4, <2>1, <2>2, <2>3 DEF Relevance!Text
<1>7. Relevance!TypeOK'
  BY <1>3, <1>5, <1>6, RelevanceCardinality DEF RelevanceInv, Relevance!TypeOK, Relevance!Add
<1> QED BY <1>4, <1>7 DEF RelevanceInv

\* RelevanceGate: an item that is stored would be stored if it said more, unless the
\* term it adds gives another one its meaning or hides stronger rules; and half a signal
\* is none (evaluate_ingest_relevance_gate, predict_market_relevance_details).
THEOREM RelevanceTheorem == OneSpec => MoreIsNotLess
<1>1. OneInit => RelevanceInv
  <2>1. IsFiniteSet({}) /\ Cardinality({}) = 0
    BY FS_EmptySet
  <2>2. {} \union {} = {} /\ {} \intersect {} = {}
    OBVIOUS
  <2> QED BY <2>1, <2>2, TermsAssumption, RelevanceCardinality
          DEF OneInit, Relevance!Init, RelevanceInv, Relevance!TypeOK, Relevance!Text
<1>2. [OneNext]_allVars => [Relevance!Next]_relevanceVars
  BY DEF OneNext, allVars
<1>3. RelevanceInv /\ UNCHANGED relevanceVars => RelevanceInv'
  BY DEF relevanceVars, RelevanceInv, Relevance!TypeOK, Relevance!Text
<1>4. RelevanceInv /\ [OneNext]_allVars => RelevanceInv'
  BY <1>2, <1>3, TextsGrow DEF Relevance!Next
<1>5. ASSUME RelevanceInv, RelevanceInv', [OneNext]_allVars
      PROVE  [active = "relevance" => Relevance!SoundStep]_relevanceVars
  <2> SUFFICES ASSUME Relevance!Next PROVE Relevance!SoundStep
    BY <1>2, <1>5
  <2>1. PICK t \in Relevance!Terms : Relevance!Add(t)
    BY DEF Relevance!Next
  <2>2. Relevance!Passes /\ ~Relevance!Passes' =>
          \E s \in {"digest", "envoy", "sector", "low"} : Relevance!Said(s)
    <3>1. Relevance!Passes /\ ~Relevance!Passes' => t \in {"digest", "envoy", "sector", "low"}
      BY <2>1, MoreSignals
    <3>2. Relevance!Said(t)
      BY <2>1 DEF Relevance!Said, Relevance!Add, Relevance!Text
    <3> QED BY <3>1, <3>2
  <2> QED BY <1>5, <2>2, HalvesDoNotPass DEF Relevance!SoundStep, RelevanceInv
<1> QED BY <1>1, <1>4, <1>5, PTL DEF OneSpec, MoreIsNotLess
-----------------------------------------------------------------------------
(* FeedParsing. *)

\* Parsing!Cardinality and Cardinality are one operator.
LEMMA ParsingCardinality == \A S : Parsing!Cardinality(S) = Cardinality(S)
BY Zenon DEF Parsing!Cardinality, Cardinality

\* Of the first k numbers some are, so each of some numbers up to k is among the first k.
LEMMA FirstAreTaken ==
    ASSUME NEW n \in Nat, NEW P \in SUBSET (1..n), NEW k \in Nat, NEW i \in P, i <= k
    PROVE  i \in Parsing!Take(P, k)
<1> DEFINE before == {j \in P : j < i}
<1>1. i \in Nat /\ i - 1 \in Nat /\ i >= 1 /\ \A j \in P : j \in 1..n
  OBVIOUS
<1>2. before \subseteq 1..(i - 1)
  <2> SUFFICES ASSUME NEW j \in P, j < i PROVE j \in 1..(i - 1)
    OBVIOUS
  <2>1. j \in 1..n
    BY <1>1
  <2> QED BY <1>1, <2>1
<1>3. IsFiniteSet(1..(i - 1)) /\ Cardinality(1..(i - 1)) = i - 1
  <2>1. IsFiniteSet(1..(i - 1))
        /\ Cardinality(1..(i - 1)) = IF 1 > i - 1 THEN 0 ELSE (i - 1) - 1 + 1
    BY <1>1, FS_Interval
  <2> QED BY <1>1, <2>1
<1> HIDE DEF before
<1>4. Cardinality(before) <= i - 1 /\ Cardinality(before) \in Nat
  BY <1>1, <1>2, <1>3, FS_Subset, FS_CardinalityType
<1>5. Cardinality(before) < k
  BY <1>1, <1>4
<1> QED BY <1>5, ParsingCardinality DEF Parsing!Take, before

\* What is on the page with a link, well formed and among the first records, is an item
\* of it, for every kind of parser.
LEMMA ItemFound ==
    ASSUME Parsing!TypeOK, NEW i \in DOMAIN page, page[i].ok, i <= ItemLimit
    PROVE  Parsing!ItemsOf(page[i].url) # {}
<1> DEFINE n == Len(page)
           u == page[i].url
           good == Parsing!WellFormed(DOMAIN page)
           early == Parsing!WellFormed(Parsing!Take(DOMAIN page, ItemLimit))
<1>1. n \in Nat /\ DOMAIN page = 1..n /\ ItemLimit \in Nat
  BY FeedAssumption DEF Parsing!TypeOK
<1>2. i \in good /\ good \subseteq 1..n
  BY <1>1 DEF Parsing!WellFormed
<1>3. i \in early /\ early \subseteq 1..n
  <2>1. i \in Parsing!Take(DOMAIN page, ItemLimit)
    BY <1>1, FirstAreTaken
  <2> QED BY <1>1, <2>1 DEF Parsing!WellFormed, Parsing!Take
<1> HIDE DEF good, early
<1>4. ASSUME NEW P \in SUBSET (1..n), i \in P
      PROVE  \E m \in Parsing!FirstOfEach(P) : page[m].url = u /\ m <= i
  <2> DEFINE T == {m \in P : page[m].url = u}
  <2>1. T \in SUBSET Nat /\ i \in T
    BY <1>4
  <2>2. PICK m \in T : \A j \in T : m <= j
    BY <2>1, LeastNumber
  <2>3. m \in Parsing!FirstOfEach(P)
    BY <2>2 DEF Parsing!FirstOfEach
  <2> QED BY <2>1, <2>2, <2>3
<1>5. CASE parser = "skip"
  <2> DEFINE F == Parsing!FirstOfEach(good)
  <2>1. PICK m \in F : page[m].url = u /\ m <= i
    BY <1>2, <1>4
  <2>2. F \subseteq 1..n
    BY <1>2 DEF Parsing!FirstOfEach
  <2>3. m <= ItemLimit
    BY <1>1, <2>1, <2>2
  <2> HIDE DEF F
  <2>4. m \in Parsing!Take(F, ItemLimit)
    BY <1>1, <2>1, <2>2, <2>3, FirstAreTaken
  <2>5. m \in Parsing!Items
    BY <1>5, <2>4 DEF Parsing!Items, Parsing!ParseSkipping, F, good
  <2> QED BY <2>1, <2>5 DEF Parsing!ItemsOf
<1>6. CASE parser = "slice"
  <2>1. i \in Parsing!Items
    BY <1>3, <1>6 DEF Parsing!Items, Parsing!ParseSliced, early
  <2> QED BY <2>1 DEF Parsing!ItemsOf
<1>7. CASE parser = "select"
  <2>1. PICK m \in Parsing!FirstOfEach(early) : page[m].url = u
    BY <1>3, <1>4
  <2>2. m \in Parsing!Items
    BY <1>7, <2>1 DEF Parsing!Items, Parsing!ParseSelector, early
  <2> QED BY <2>1, <2>2 DEF Parsing!ItemsOf
<1> QED BY <1>5, <1>6, <1>7 DEF Parsing!TypeOK

\* The item a link is stored from is a record of the page.
LEMMA FirstItem ==
    ASSUME Parsing!TypeOK, NEW u, Parsing!ItemsOf(u) # {}
    PROVE  /\ Parsing!FirstItemOf(u) \in DOMAIN page
           /\ Parsing!FirstItemOf(u) \in Parsing!ItemsOf(u)
<1>1. DOMAIN page \in SUBSET Nat
  BY DEF Parsing!TypeOK
<1>2. Parsing!Items \subseteq DOMAIN page
  BY DEF Parsing!TypeOK, Parsing!Items, Parsing!ParseSkipping, Parsing!ParseSliced, Parsing!ParseSelector,
         Parsing!Take, Parsing!WellFormed, Parsing!FirstOfEach
<1>3. Parsing!ItemsOf(u) \subseteq DOMAIN page
  BY <1>2 DEF Parsing!ItemsOf
<1>4. \E i \in Parsing!ItemsOf(u) : \A j \in Parsing!ItemsOf(u) : i <= j
  BY <1>1, <1>3, LeastNumber
<1> QED BY <1>3, <1>4 DEF Parsing!FirstItemOf
-----------------------------------------------------------------------------
(* Times. *)

LEMMA Division ==
    ASSUME NEW a \in Int, NEW d \in Nat \ {0}
    PROVE  a = d * (a \div d) + (a % d) /\ a % d \in 0..(d - 1) /\ a \div d \in Int
OBVIOUS

LEMMA DivisionIsUnique ==
    ASSUME NEW a \in Int, NEW d \in Nat \ {0}, NEW q \in Int, NEW r \in 0..(d - 1), a = d * q + r
    PROVE  a \div d = q /\ a % d = r
OBVIOUS

\* Multiples are apart.
LEMMA NextMultiple ==
    ASSUME NEW k \in Int, NEW m \in Int, NEW d \in Nat \ {0}, m < k
    PROVE  d * k >= d * m + d
OBVIOUS

\* A bare clock is completed to a time that is ahead of the poll by the tolerance at
\* most, and to the time it was cut from if that can be told.
LEMMA ClockIsRight ==
    ASSUME NEW at \in Nat, feedNow \in Nat, at <= feedNow + Tolerance
    PROVE  LET t == Parsing!ParseClock(Parsing!Clock(at))
           IN  /\ t \in Int /\ t <= feedNow + Tolerance
               /\ feedNow - at < FeedSlots - Tolerance /\ Parsing!Day(at) <= Parsing!Day(feedNow) =>
                    t = at
<1> DEFINE d == FeedSlots
           q == feedNow \div d
           p == at \div d
           c == at % d
           s == feedNow % d
           today == q * d + c
<1>1. d \in Nat \ {0} /\ Tolerance \in 0..(d - 1)
  BY FeedAssumption
<1>2. /\ feedNow = d * q + s /\ at = d * p + c /\ p \in Int /\ q \in Int
      /\ c \in 0..(d - 1) /\ s \in 0..(d - 1)
  BY <1>1, Division
<1>3. Parsing!ParseClock(Parsing!Clock(at)) = IF today - feedNow > Tolerance THEN today - d ELSE today
  BY DEF Parsing!ParseClock, Parsing!Clock, Parsing!Day
<1>4. Parsing!Day(at) = p /\ Parsing!Day(feedNow) = q
  BY DEF Parsing!Day
<1> HIDE DEF q, p, c, s
<1>5. today \in Int /\ today - d <= feedNow /\ q * d = d * q
  BY <1>1, <1>2
<1>6. p = q => today = at
  BY <1>2, <1>5
<1>7. ASSUME p < q, feedNow - at < d - Tolerance
      PROVE  today - feedNow > Tolerance /\ today - d = at
  <2>1. d * q >= d * p + d
    BY <1>1, <1>2, <1>7, NextMultiple
  <2>2. q = p + 1
    <3> SUFFICES ASSUME p + 1 < q PROVE FALSE
      BY <1>2, <1>7
    <3>1. d * q >= d * (p + 1) + d /\ d * (p + 1) = d * p + d
      BY <1>1, <1>2, NextMultiple
    <3> DEFINE x == d * p
               y == d * q
    <3>2. x \in Int /\ y \in Int
      BY <1>1, <1>2
    <3> QED BY <1>1, <1>2, <1>7, <3>1, <3>2
  <2>3. d * q = d * p + d
    BY <1>1, <1>2, <2>2
  <2> DEFINE x == d * p
  <2>4. x \in Int
    BY <1>1, <1>2
  <2> HIDE DEF x
  <2>5. feedNow = x + d + s /\ at = x + c /\ today = x + d + c
    BY <1>2, <1>5, <2>3 DEF x
  <2> QED BY <1>1, <1>2, <1>7, <2>4, <2>5
<1> HIDE DEF today
<1> QED BY <1>1, <1>2, <1>3, <1>4, <1>5, <1>6, <1>7

\* The place of a time in its year is made of its day in the year and its slot in the day.
LEMMA PlaceInYear ==
    ASSUME NEW at \in Nat
    PROVE  /\ at % Parsing!Year = (Parsing!Day(at) % DaysPerYear) * FeedSlots + Parsing!Clock(at)
           /\ Parsing!Year \in Nat \ {0} /\ Parsing!Year >= FeedSlots
<1> DEFINE d == FeedSlots
           n == DaysPerYear
           p == at \div d
           c == at % d
           y == p \div n
           e == p % n
           r == e * d + c
<1>1. d \in Nat \ {0} /\ n \in Nat \ {0}
  BY FeedAssumption
<1>2. at = d * p + c /\ p \in Int /\ c \in 0..(d - 1)
  BY <1>1, Division
<1>3. p = n * y + e /\ y \in Int /\ e \in 0..(n - 1)
  BY <1>1, <1>2, Division
<1>4. Parsing!Day(at) % n = e /\ Parsing!Clock(at) = c /\ Parsing!Year = d * n
  BY DEF Parsing!Day, Parsing!Clock, Parsing!Year
<1> HIDE DEF p, c, y, e
<1>5. d * n \in Nat \ {0} /\ d * n >= d
  BY <1>1
<1>6. r \in 0..(d * n - 1)
  BY <1>1, <1>2, <1>3
<1>7. at = (d * n) * y + r
  BY <1>1, <1>2, <1>3
<1> HIDE DEF r
<1>8. at % (d * n) = r
  BY <1>3, <1>5, <1>6, <1>7, DivisionIsUnique
<1> QED BY <1>4, <1>5, <1>8 DEF r

\* A day without its year is completed to a time that is ahead of the poll by a day at
\* most, and to the time it was cut from if that can be told.
LEMMA MonthDayIsRight ==
    ASSUME NEW at \in Nat, feedNow \in Nat, at <= feedNow + Tolerance
    PROVE  LET t == Parsing!ParseMonthDay(Parsing!Day(at) % DaysPerYear, Parsing!Clock(at))
           IN  /\ t \in Int /\ t <= feedNow + FeedSlots
               /\ /\ feedNow - at < Parsing!Year - FeedSlots
                  /\ at \div Parsing!Year <= feedNow \div Parsing!Year
                  => t = at
<1> DEFINE d == Parsing!Year
           q == feedNow \div d
           p == at \div d
           c == at % d
           s == feedNow % d
           this == q * d + c
<1>1. /\ d \in Nat \ {0} /\ FeedSlots \in Nat /\ d >= FeedSlots /\ Tolerance \in 0..(FeedSlots - 1)
  BY FeedAssumption, PlaceInYear
<1>2. c = (Parsing!Day(at) % DaysPerYear) * FeedSlots + Parsing!Clock(at)
  BY PlaceInYear
<1> HIDE DEF d
<1>3. /\ feedNow = d * q + s /\ at = d * p + c /\ p \in Int /\ q \in Int
      /\ c \in 0..(d - 1) /\ s \in 0..(d - 1)
  BY <1>1, Division
<1>4. Parsing!ParseMonthDay(Parsing!Day(at) % DaysPerYear, Parsing!Clock(at))
        = IF this - feedNow <= FeedSlots THEN this ELSE this - d
  <2> DEFINE day == Parsing!Day(at) % DaysPerYear
             clock == Parsing!Clock(at)
             x == q * d
             z == day * FeedSlots
  <2>1. day \in Int /\ clock \in Int
    BY FeedAssumption, Division DEF Parsing!Day, Parsing!Clock
  <2>2. x \in Int /\ z \in Int /\ c = z + clock
    BY <1>1, <1>2, <1>3, <2>1
  <2>3. Parsing!ParseMonthDay(day, clock)
          = IF (x + z + clock) - feedNow <= FeedSlots THEN x + z + clock ELSE (x + z + clock) - d
    BY DEF Parsing!ParseMonthDay, d
  <2>4. x + z + clock = this
    BY <2>1, <2>2
  <2> HIDE DEF this, x, z, day, clock
  <2> QED BY <2>3, <2>4 DEF day, clock
<1> HIDE DEF q, p, c, s
<1>5. this \in Int /\ this - d <= feedNow /\ q * d = d * q
  BY <1>1, <1>3
<1>6. p = q => this = at
  BY <1>3, <1>5
<1>7. ASSUME p < q, feedNow - at < d - FeedSlots
      PROVE  this - feedNow > FeedSlots /\ this - d = at
  <2>1. d * q >= d * p + d
    BY <1>1, <1>3, <1>7, NextMultiple
  <2>2. q = p + 1
    <3> SUFFICES ASSUME p + 1 < q PROVE FALSE
      BY <1>3, <1>7
    <3>1. d * q >= d * (p + 1) + d /\ d * (p + 1) = d * p + d
      BY <1>1, <1>3, NextMultiple
    <3> DEFINE x == d * p
               y == d * q
    <3>2. x \in Int /\ y \in Int
      BY <1>1, <1>3
    <3> QED BY <1>1, <1>3, <1>7, <3>1, <3>2
  <2>3. d * q = d * p + d
    BY <1>1, <1>3, <2>2
  <2> DEFINE x == d * p
  <2>4. x \in Int
    BY <1>1, <1>3
  <2> HIDE DEF x
  <2>5. feedNow = x + d + s /\ at = x + c /\ this = x + d + c
    BY <1>3, <1>5, <2>3 DEF x
  <2> QED BY <1>1, <1>3, <1>7, <2>4, <2>5
<1>8. at \div Parsing!Year = p /\ feedNow \div Parsing!Year = q /\ Parsing!Year = d
  BY DEF p, q, d
<1> HIDE DEF this
<1>9. this - feedNow <= FeedSlots \/ this - d <= feedNow
  BY <1>5
<1> QED BY <1>1, <1>3, <1>4, <1>5, <1>6, <1>7, <1>8
-----------------------------------------------------------------------------
(* The invariant of FeedParsing. *)

\* Records are dated ahead by the tolerance at most, and in full only if they are not.
PageIsDated ==
    \A i \in DOMAIN page : page[i].at <= feedNow + (IF text = "full" THEN 0 ELSE Tolerance)

\* What came since the last poll is on top of the page, as far as it has room.
NewOnTop ==
    since.count <= PageLength =>
        \A u \in since.urls : \E i \in DOMAIN page :
            i <= since.count /\ page[i].url = u /\ page[i].ok

FeedInv == Parsing!TypeOK /\ PageIsDated /\ NewOnTop /\ Parsing!TimesAreRight

LEMMA PublishKeeps == ASSUME FeedInv, Parsing!Publish PROVE FeedInv'
<1> DEFINE size == IF Len(page) < PageLength THEN Len(page) + 1 ELSE PageLength
<1>1. PICK u \in Urls \union {None}, ahead \in IF text = "full" THEN {0} ELSE {0, Tolerance} :
        /\ page' = Parsing!OnTop([url |-> u, ok |-> u # None, at |-> feedNow + ahead])
        /\ since' = [count |-> since.count + 1, urls |-> since.urls \union ({u} \ {None})]
  BY DEF Parsing!Publish
<1>2. UNCHANGED <<parser, text, feedNow, stored>>
  BY DEF Parsing!Publish
<1>3. /\ feedNow \in Nat /\ Len(page) \in Nat /\ Len(page) <= PageLength /\ PageLength \in Nat
      /\ DOMAIN page = 1..Len(page) /\ \A i \in DOMAIN page : page[i] \in Parsing!Records
      /\ since.count \in Nat /\ since.urls \subseteq Urls
      /\ Tolerance \in Nat
  BY FeedAssumption DEF FeedInv, Parsing!TypeOK
<1>4. ahead \in Nat /\ ahead <= IF text = "full" THEN 0 ELSE Tolerance
  BY <1>3
<1> DEFINE r == [url |-> u, ok |-> u # None, at |-> feedNow + ahead]
<1>5. r \in Parsing!Records /\ r.at = feedNow + ahead /\ r.url = u /\ r.ok = (u # None)
  BY <1>3, <1>4 DEF Parsing!Records
<1> HIDE DEF r
<1>6. /\ page' = [i \in 1..size |-> IF i = 1 THEN r ELSE page[i - 1]]
      /\ size \in Nat /\ size <= PageLength /\ size <= Len(page) + 1
      /\ \A i \in DOMAIN page : i + 1 <= PageLength => i + 1 <= size
  BY <1>1, <1>3 DEF Parsing!OnTop, r
<1>7. \A i \in 1..size : i # 1 => i - 1 \in DOMAIN page
  BY <1>3, <1>6
<1> HIDE DEF size
<1>8. DOMAIN page' = 1..size /\ page' \in Seq(Parsing!Records) /\ Len(page') = size
  <2>1. \A i \in 1..size : (IF i = 1 THEN r ELSE page[i - 1]) \in Parsing!Records
    BY <1>3, <1>5, <1>7
  <2> QED BY <1>6, <2>1
<1>9. Parsing!TypeOK'
  <2>1. since'.count \in Nat /\ since'.urls \subseteq Urls
    BY <1>1, <1>3
  <2>2. Parsing!Records' = Parsing!Records /\ Parsing!Times' = Parsing!Times
    BY DEF Parsing!Records, Parsing!Times
  <2> QED BY <1>2, <1>6, <1>8, <2>1, <2>2 DEF FeedInv, Parsing!TypeOK
<1>10. PageIsDated'
  <2> SUFFICES ASSUME NEW i \in 1..size
               PROVE  page'[i].at <= feedNow + (IF text = "full" THEN 0 ELSE Tolerance)
    BY <1>2, <1>8 DEF PageIsDated
  <2>1. CASE i = 1
    BY <1>3, <1>4, <1>5, <1>6, <2>1
  <2>2. CASE i # 1
    BY <1>6, <1>7, <2>2 DEF FeedInv, PageIsDated
  <2> QED BY <2>1, <2>2
<1>11. NewOnTop'
  <2> SUFFICES ASSUME since'.count <= PageLength, NEW v \in since'.urls
               PROVE  \E i \in 1..size : i <= since'.count /\ page'[i].url = v /\ page'[i].ok
    BY <1>8 DEF NewOnTop
  <2>1. since'.count = since.count + 1 /\ since.count <= PageLength
    BY <1>1, <1>3
  <2>2. CASE v \in since.urls
    <3>1. PICK i \in DOMAIN page : i <= since.count /\ page[i].url = v /\ page[i].ok
      BY <2>1, <2>2 DEF FeedInv, NewOnTop
    <3>2. i \in Nat /\ i >= 1 /\ i + 1 <= PageLength /\ i + 1 <= size
      BY <1>3, <1>6, <2>1, <3>1
    <3>3. i + 1 \in 1..size /\ i + 1 # 1 /\ (i + 1) - 1 = i
      BY <1>6, <3>2
    <3>4. page'[i + 1] = page[i]
      BY <1>6, <3>3
    <3> QED BY <1>3, <2>1, <3>1, <3>2, <3>3, <3>4
  <2>3. CASE v = u /\ u # None
    <3>1. 1 \in 1..size
      BY <1>3, <1>6, <2>1 DEF size
    <3>2. page'[1] = r
      BY <1>6, <3>1
    <3>3. page'[1].url = v /\ page'[1].ok
      BY <1>5, <2>3, <3>2
    <3>4. 1 <= since'.count
      BY <1>3, <2>1
    <3> QED BY <3>1, <3>3, <3>4
  <2> QED BY <1>1, <2>2, <2>3
<1>12. Parsing!TimesAreRight'
  BY <1>2 DEF FeedInv, Parsing!TimesAreRight, Parsing!Understood, Parsing!Day, Parsing!Year
<1> QED BY <1>9, <1>10, <1>11, <1>12 DEF FeedInv

\* What is stored of a record is right.
LEMMA StoredIsRight ==
    ASSUME FeedInv, NEW i \in DOMAIN page,
           NEW s, s = [at |-> Parsing!ParsedTime(page[i]), truth |-> page[i].at, polled |-> feedNow]
    PROVE  /\ s \in Parsing!Times
           /\ Parsing!Understood(s) => s.at = s.truth
           /\ s.at <= s.polled + FeedSlots
           /\ text = "clock" => s.at <= s.polled + Tolerance
<1> DEFINE at == page[i].at
           parsed == Parsing!ParsedTime(page[i])
<1>1. /\ at \in Nat /\ feedNow \in Nat /\ Tolerance \in Nat /\ Tolerance <= FeedSlots
      /\ FeedSlots \in Nat /\ text \in {"full", "clock", "day"}
  <2>1. page[i] \in Parsing!Records
    BY DEF FeedInv, Parsing!TypeOK
  <2>2. at \in Nat
    BY <2>1 DEF Parsing!Records
  <2> QED BY <2>2, FeedAssumption DEF FeedInv, Parsing!TypeOK, Parsing!Texts
<1>2. at <= feedNow + (IF text = "full" THEN 0 ELSE Tolerance)
  BY DEF FeedInv, PageIsDated
<1>3. s.at = parsed /\ s.truth = at /\ s.polled = feedNow
  OBVIOUS
<1>4. s \in Parsing!Times <=> parsed \in Int
  BY <1>1 DEF Parsing!Times
<1> HIDE DEF at
<1>5. CASE text = "full"
  <2>1. parsed = at
    BY <1>5 DEF Parsing!ParsedTime, at
  <2> HIDE DEF parsed
  <2> QED BY <1>1, <1>2, <1>3, <1>4, <1>5, <2>1
<1>6. CASE text = "clock"
  <2>1. parsed = Parsing!ParseClock(Parsing!Clock(at))
    BY <1>6 DEF Parsing!ParsedTime, at
  <2> HIDE DEF parsed
  <2>2. Parsing!Understood(s) =>
          feedNow - at < FeedSlots - Tolerance /\ Parsing!Day(at) <= Parsing!Day(feedNow)
    BY <1>3, <1>6 DEF Parsing!Understood
  <2>3. parsed \in Int /\ parsed <= feedNow + Tolerance /\ (Parsing!Understood(s) => parsed = at)
    BY <1>1, <1>2, <1>6, <2>1, <2>2, ClockIsRight
  <2> QED BY <1>1, <1>3, <1>4, <2>3
<1>7. CASE text = "day"
  <2>1. parsed = Parsing!ParseMonthDay(Parsing!Day(at) % DaysPerYear, Parsing!Clock(at))
    BY <1>7 DEF Parsing!ParsedTime, at
  <2> HIDE DEF parsed
  <2>2. Parsing!Understood(s) =>
          /\ feedNow - at < Parsing!Year - FeedSlots
          /\ at \div Parsing!Year <= feedNow \div Parsing!Year
    BY <1>3, <1>7 DEF Parsing!Understood
  <2>3. parsed \in Int /\ parsed <= feedNow + FeedSlots /\ (Parsing!Understood(s) => parsed = at)
    BY <1>1, <1>2, <1>7, <2>1, <2>2, MonthDayIsRight
  <2> QED BY <1>1, <1>3, <1>4, <1>7, <2>3
<1> QED BY <1>1, <1>5, <1>6, <1>7

LEMMA PollKeeps == ASSUME FeedInv, Parsing!Poll PROVE FeedInv' /\ Parsing!NothingMissed
<1>1. /\ stored' = [u \in Urls |->
                     IF stored[u] # None \/ Parsing!ItemsOf(u) = {} THEN stored[u]
                     ELSE [at |-> Parsing!ParsedTime(page[Parsing!FirstItemOf(u)]),
                           truth |-> page[Parsing!FirstItemOf(u)].at, polled |-> feedNow]]
      /\ since' = [count |-> 0, urls |-> {}]
      /\ UNCHANGED <<parser, text, page, feedNow>>
  BY DEF Parsing!Poll
<1>2. /\ feedNow \in Nat /\ stored \in [Urls -> {None} \union Parsing!Times]
      /\ None \notin Parsing!Times /\ Parsing!TypeOK /\ since.urls \subseteq Urls
      /\ since.count \in Nat /\ ItemLimit \in Nat
      /\ DOMAIN page \subseteq Nat
  BY FeedAssumption DEF FeedInv, Parsing!TypeOK
<1>3. ASSUME NEW u \in Urls, stored[u] = None, Parsing!ItemsOf(u) # {}
      PROVE  /\ stored'[u] \in Parsing!Times
             /\ Parsing!Understood(stored'[u]) => stored'[u].at = stored'[u].truth
             /\ stored'[u].at <= stored'[u].polled + FeedSlots
             /\ text = "clock" => stored'[u].at <= stored'[u].polled + Tolerance
  <2> DEFINE i == Parsing!FirstItemOf(u)
  <2>1. i \in DOMAIN page
    BY <1>2, <1>3, FirstItem
  <2>2. stored'[u] = [at |-> Parsing!ParsedTime(page[i]), truth |-> page[i].at, polled |-> feedNow]
    BY <1>1, <1>3
  <2> HIDE DEF i
  <2> QED BY <2>1, <2>2, StoredIsRight
<1>4. \A u \in Urls : stored[u] # None \/ Parsing!ItemsOf(u) = {} => stored'[u] = stored[u]
  BY <1>1
<1>5. stored' \in [Urls -> {None} \union Parsing!Times]
  <2>1. \A u \in Urls : stored'[u] \in {None} \union Parsing!Times
    BY <1>2, <1>3, <1>4
  <2>2. stored' = [u \in Urls |-> stored'[u]]
    BY <1>1
  <2> QED BY <2>1, <2>2
<1>6. Parsing!TypeOK'
  <2>1. since'.count \in Nat /\ since'.urls \subseteq Urls
    BY <1>1
  <2>2. Parsing!Records' = Parsing!Records /\ Parsing!Times' = Parsing!Times
    BY DEF Parsing!Records, Parsing!Times
  <2> QED BY <1>1, <1>5, <2>1, <2>2 DEF FeedInv, Parsing!TypeOK
<1>7. PageIsDated' /\ NewOnTop'
  BY <1>1 DEF FeedInv, PageIsDated, NewOnTop
<1>8. \A s : Parsing!Understood(s)' <=> Parsing!Understood(s)
  BY <1>1 DEF Parsing!Understood, Parsing!Day, Parsing!Year
<1>9. Parsing!TimesAreRight'
  <2> SUFFICES ASSUME NEW u \in Urls, stored'[u] # None
               PROVE  /\ Parsing!Understood(stored'[u]) => stored'[u].at = stored'[u].truth
                      /\ stored'[u].at <= stored'[u].polled + FeedSlots
                      /\ text = "clock" => stored'[u].at <= stored'[u].polled + Tolerance
    BY <1>1 DEF Parsing!TimesAreRight, Parsing!Understood, Parsing!Day, Parsing!Year
  <2>1. CASE stored[u] = None /\ Parsing!ItemsOf(u) # {}
    BY <1>3, <2>1
  <2>2. CASE stored[u] # None
    BY <1>4, <2>2 DEF FeedInv, Parsing!TimesAreRight
  <2> QED BY <1>4, <2>1, <2>2
<1>10. Parsing!NothingMissed
  <2> SUFFICES ASSUME since.count <= ItemLimit, since.count <= PageLength, NEW u \in since.urls
               PROVE  stored'[u] # None
    BY DEF Parsing!NothingMissed
  <2>1. PICK i \in DOMAIN page : i <= since.count /\ page[i].url = u /\ page[i].ok
    BY DEF FeedInv, NewOnTop
  <2>2. i <= ItemLimit
    BY <1>2, <2>1
  <2>3. Parsing!ItemsOf(u) # {}
    BY <1>2, <2>1, <2>2, ItemFound
  <2>4. u \in Urls
    BY <1>2
  <2> QED BY <1>2, <1>3, <1>4, <2>3, <2>4
<1> QED BY <1>6, <1>7, <1>9, <1>10 DEF FeedInv

LEMMA TickOfFeedKeeps == ASSUME FeedInv, Parsing!Tick PROVE FeedInv'
<1>1. feedNow' = feedNow + 1 /\ UNCHANGED <<parser, text, page, stored, since>>
  BY DEF Parsing!Tick
<1>2. feedNow \in Nat /\ Tolerance \in Nat /\ \A i \in DOMAIN page : page[i].at \in Nat
  <2>1. \A i \in DOMAIN page : page[i] \in Parsing!Records
    BY DEF FeedInv, Parsing!TypeOK
  <2> QED BY <2>1, FeedAssumption DEF FeedInv, Parsing!TypeOK, Parsing!Records
<1>3. Parsing!TypeOK'
  <2>1. Parsing!Records' = Parsing!Records /\ Parsing!Times' = Parsing!Times
    BY DEF Parsing!Records, Parsing!Times
  <2> QED BY <1>1, <1>2, <2>1 DEF FeedInv, Parsing!TypeOK
<1>4. PageIsDated'
  BY <1>1, <1>2 DEF FeedInv, PageIsDated
<1>5. NewOnTop' /\ Parsing!TimesAreRight'
  BY <1>1 DEF FeedInv, NewOnTop, Parsing!TimesAreRight, Parsing!Understood, Parsing!Day, Parsing!Year
<1> QED BY <1>3, <1>4, <1>5 DEF FeedInv

\* FeedParsing: what came since the last poll is stored while no more came than the
\* parser reads, and the time of a record is completed to the right day and year as long
\* as that can be told (fetch_source_items, _parse_list_time_text).
THEOREM FeedTheorem == OneSpec => FeedsAreRead
<1>1. OneInit => FeedInv
  BY FeedAssumption DEF OneInit, Parsing!Init, FeedInv, Parsing!TypeOK, PageIsDated, NewOnTop,
     Parsing!TimesAreRight, Parsing!Year
<1>2. [OneNext]_allVars => [Parsing!Next]_parsingVars
  BY DEF OneNext, allVars
<1>3. FeedInv /\ UNCHANGED parsingVars => FeedInv'
  BY DEF parsingVars, FeedInv, Parsing!TypeOK, PageIsDated, NewOnTop, Parsing!TimesAreRight,
         Parsing!Understood, Parsing!Records, Parsing!Times, Parsing!Day, Parsing!Year
<1>4. FeedInv /\ Parsing!Next => FeedInv' /\ Parsing!NothingMissed
  <2>1. FeedInv /\ Parsing!Publish => Parsing!NothingMissed
    <3> SUFFICES ASSUME FeedInv, Parsing!Publish PROVE ~(since'.count < since.count)
      BY DEF Parsing!NothingMissed
    <3>1. since'.count = since.count + 1 /\ since.count \in Nat
      BY DEF FeedInv, Parsing!TypeOK, Parsing!Publish
    <3> QED BY <3>1
  <2>2. FeedInv /\ Parsing!Tick => Parsing!NothingMissed
    BY DEF Parsing!Tick, Parsing!NothingMissed, FeedInv, Parsing!TypeOK
  <2> QED BY <2>1, <2>2, PublishKeeps, TickOfFeedKeeps, PollKeeps DEF Parsing!Next
<1>5. FeedInv /\ [OneNext]_allVars => FeedInv'
  BY <1>2, <1>3, <1>4
<1>6. FeedInv /\ FeedInv' /\ [OneNext]_allVars
        => [active = "parsing" => Parsing!SoundStep]_parsingVars
  BY <1>2, <1>4 DEF Parsing!SoundStep, FeedInv
<1> QED BY <1>1, <1>5, <1>6, PTL DEF OneSpec, FeedsAreRead
-----------------------------------------------------------------------------
(* EventCards. *)

\* Cards!Cardinality and Cardinality are one operator.
LEMMA CardsCardinality == \A S : Cards!Cardinality(S) = Cardinality(S)
BY Zenon DEF Cards!Cardinality, Cardinality

LEMMA SizeIsANumber == Cards!Size \in Nat
BY CardsAssumption DEF Cards!Size

\* What a card has taken in after each other one, and the result after each card.
Grows(f, cards, gone, i, later, max) ==
    /\ \A k \in 0..Cards!Size : k <= i => f[k] = [card |-> cards[i], fused |-> gone]
    /\ \A k \in 1..Cards!Size : k > i => f[k] = Cards!Absorb(cards, f[k - 1], k, later, max)
    /\ Cards!Grown(cards, gone, i, later, max) = f[Cards!Size]
Fuses(f, cards, max, later) ==
    /\ f[0] = [result |-> <<>>, fused |-> {}]
    /\ \A k \in 1..Cards!Size : f[k] = Cards!Collect(cards, f[k - 1], k, later, max)
    /\ Cards!FuseOver(cards, max, later) = f[Cards!Size].result

\* The recursive function of Grown exists and ends in its value.
LEMMA GrownUnfolds ==
    ASSUME NEW cards, NEW gone, NEW i \in Nat, NEW later, NEW max
    PROVE  \E f : Grows(f, cards, gone, i, later, max)
<1> DEFINE n == Cards!Size
           start == [card |-> cards[i], fused |-> gone]
           next(acc, k) == Cards!Absorb(cards, acc, k, later, max)
           table(f, m) == [k \in 0..m |-> IF k <= i THEN start ELSE next(f[k - 1], k)]
           T == {m \in Nat : \E f : f = table(f, m)}
<1>1. 0 \in T
  <2> DEFINE f == [k \in 0..0 |-> start]
  <2>1. f = table(f, 0)
    <3> HIDE DEF start, next
    <3> QED OBVIOUS
  <2> QED BY <2>1
<1>2. \A m \in T : m + 1 \in T
  <2> TAKE m \in T
  <2>1. PICK f : f = table(f, m)
    OBVIOUS
  <2> HIDE DEF start, next
  <2> DEFINE g == [k \in 0..(m + 1) |-> IF k <= m THEN f[k]
                                       ELSE IF k <= i THEN start ELSE next(f[m], k)]
  <2>2. m \in Nat
    OBVIOUS
  <2>3. \A k \in 0..m : g[k] = f[k]
    BY <2>2
  <2>4. \A k \in 0..m : f[k] = IF k <= i THEN start ELSE next(f[k - 1], k)
    BY <2>1
  <2>5. ASSUME NEW k \in 0..(m + 1)
        PROVE  g[k] = IF k <= i THEN start ELSE next(g[k - 1], k)
    <3>1. CASE k = 0
      BY <2>2, <2>3, <2>4, <3>1
    <3>2. CASE k \in 1..m
      <4>1. g[k] = f[k] /\ g[k - 1] = f[k - 1]
        BY <2>2, <2>3, <3>2
      <4> QED BY <2>2, <2>4, <3>2, <4>1
    <3>3. CASE k = m + 1
      <4>1. k - 1 = m /\ g[k - 1] = f[m] /\ ~(k <= m)
        BY <2>2, <2>3, <3>3
      <4> QED BY <4>1
    <3> QED BY <2>2, <3>1, <3>2, <3>3
  <2>6. g = table(g, m + 1)
    <3> HIDE DEF g
    <3>1. g = [k \in 0..(m + 1) |-> g[k]]
      BY DEF g
    <3> QED BY <2>5, <3>1
  <2> HIDE DEF g
  <2>7. m + 1 \in Nat
    BY <2>2
  <2> QED BY <2>6, <2>7
<1>3. n \in T
  <2> HIDE DEF T
  <2>1. T \in SUBSET Nat
    BY DEF T
  <2> QED BY <1>1, <1>2, <2>1, Induction, SizeIsANumber
<1> DEFINE chosen == CHOOSE f : f = table(f, n)
<1>4. chosen = table(chosen, n)
  <2>1. \E f : f = table(f, n)
    BY <1>3
  <2> HIDE DEF table
  <2> QED BY <2>1
<1>5. Cards!Grown(cards, gone, i, later, max) = chosen[n]
  BY DEF Cards!Grown
<1>6. Grows(chosen, cards, gone, i, later, max)
  <2>1. n \in Nat
    BY SizeIsANumber
  <2>2. \A k \in 0..n : chosen[k] = IF k <= i THEN start ELSE next(chosen[k - 1], k)
    BY <1>4
  <2> HIDE DEF chosen, table
  <2> QED BY <1>5, <2>1, <2>2 DEF Grows
<1> QED BY <1>6

\* The recursive function of FuseOver exists and ends in its value.
LEMMA FuseUnfolds ==
    ASSUME NEW cards, NEW max, NEW later
    PROVE  \E f : Fuses(f, cards, max, later)
<1> DEFINE n == Cards!Size
           start == [result |-> <<>>, fused |-> {}]
           next(acc, k) == Cards!Collect(cards, acc, k, later, max)
           table(f, m) == [k \in 0..m |-> IF k = 0 THEN start ELSE next(f[k - 1], k)]
           T == {m \in Nat : \E f : f = table(f, m)}
<1>1. 0 \in T
  <2> DEFINE f == [k \in 0..0 |-> start]
  <2>1. f = table(f, 0)
    <3> HIDE DEF start, next
    <3> QED OBVIOUS
  <2> QED BY <2>1
<1>2. \A m \in T : m + 1 \in T
  <2> TAKE m \in T
  <2>1. PICK f : f = table(f, m)
    OBVIOUS
  <2> HIDE DEF start, next
  <2> DEFINE g == [k \in 0..(m + 1) |-> IF k <= m THEN f[k]
                                       ELSE IF k = 0 THEN start ELSE next(f[m], k)]
  <2>2. m \in Nat
    OBVIOUS
  <2>3. \A k \in 0..m : g[k] = f[k]
    BY <2>2
  <2>4. \A k \in 0..m : f[k] = IF k = 0 THEN start ELSE next(f[k - 1], k)
    BY <2>1
  <2>5. ASSUME NEW k \in 0..(m + 1)
        PROVE  g[k] = IF k = 0 THEN start ELSE next(g[k - 1], k)
    <3>1. CASE k = 0
      BY <2>2, <2>3, <2>4, <3>1
    <3>2. CASE k \in 1..m
      <4>1. g[k] = f[k] /\ g[k - 1] = f[k - 1]
        BY <2>2, <2>3, <3>2
      <4> QED BY <2>2, <2>4, <3>2, <4>1
    <3>3. CASE k = m + 1
      <4>1. k - 1 = m /\ g[k - 1] = f[m] /\ ~(k <= m)
        BY <2>2, <2>3, <3>3
      <4> QED BY <4>1
    <3> QED BY <2>2, <3>1, <3>2, <3>3
  <2>6. g = table(g, m + 1)
    <3> HIDE DEF g
    <3>1. g = [k \in 0..(m + 1) |-> g[k]]
      BY DEF g
    <3> QED BY <2>5, <3>1
  <2> HIDE DEF g
  <2>7. m + 1 \in Nat
    BY <2>2
  <2> QED BY <2>6, <2>7
<1>3. n \in T
  <2> HIDE DEF T
  <2>1. T \in SUBSET Nat
    BY DEF T
  <2> QED BY <1>1, <1>2, <2>1, Induction, SizeIsANumber
<1> DEFINE chosen == CHOOSE f : f = table(f, n)
<1>4. chosen = table(chosen, n)
  <2>1. \E f : f = table(f, n)
    BY <1>3
  <2> HIDE DEF table
  <2> QED BY <2>1
<1>5. Cards!FuseOver(cards, max, later) = chosen[n].result
  BY DEF Cards!FuseOver
<1>6. Fuses(chosen, cards, max, later)
  <2>1. n \in Nat
    BY SizeIsANumber
  <2>2. \A k \in 0..n : chosen[k] = IF k = 0 THEN start ELSE next(chosen[k - 1], k)
    BY <1>4
  <2> HIDE DEF chosen, table
  <2> QED BY <1>5, <2>1, <2>2 DEF Fuses
<1> QED BY <1>6
-----------------------------------------------------------------------------
\* Cards are numbered by their topics, which are their keys.
Numbered(cards) ==
    DOMAIN cards \subseteq 1..Cards!Size /\ \A t \in DOMAIN cards : cards[t].key = <<t>>

LEMMA CandidatesAreNumbered ==
    ASSUME NEW ls, NEW market, NEW max
    PROVE  Numbered(Cards!Candidates(ls, market, max))
BY DEF Numbered, Cards!Candidates, Cards!TopicViews, Cards!Card

\* A card keeps its type, so it takes in cards of the bucket only.
LEMMA PrunedLoop ==
    ASSUME NEW cards, Numbered(cards), NEW gone, NEW i \in DOMAIN cards, NEW max
    PROVE  Cards!Grown(cards, gone, i, Cards!Buckets(cards)[i], max)
             = Cards!Grown(cards, gone, i, Cards!AllLater(cards)[i], max)
<1> DEFINE n == Cards!Size
           some == Cards!Buckets(cards)[i]
           all == Cards!AllLater(cards)[i]
<1>1. n \in Nat /\ i \in Nat
  BY SizeIsANumber DEF Numbered
<1>2. /\ some = {j \in DOMAIN cards : j > i /\ cards[i].type # General /\ cards[j].type = cards[i].type}
      /\ all = {j \in DOMAIN cards : j > i}
  BY DEF Cards!Buckets, Cards!AllLater
<1> HIDE DEF some, all
<1>3. PICK f : Grows(f, cards, gone, i, some, max)
  BY <1>1, GrownUnfolds
<1>4. PICK g : Grows(g, cards, gone, i, all, max)
  BY <1>1, GrownUnfolds
<1> DEFINE T == {k \in Nat : k <= n => f[k] = g[k] /\ f[k].card.type = cards[i].type}
<1>5. 0 \in T
  BY <1>1, <1>3, <1>4 DEF Grows
<1>6. \A k \in T : k + 1 \in T
  <2> TAKE k \in T
  <2> SUFFICES ASSUME k + 1 <= n
               PROVE  f[k + 1] = g[k + 1] /\ f[k + 1].card.type = cards[i].type
    OBVIOUS
  <2>1. k \in 0..n /\ k + 1 \in 0..n /\ (k + 1) - 1 = k
    BY <1>1
  <2>2. f[k] = g[k] /\ f[k].card.type = cards[i].type
    BY <2>1
  <2>3. CASE k + 1 <= i
    BY <1>1, <1>3, <1>4, <2>1, <2>3 DEF Grows
  <2>4. CASE ~(k + 1 <= i)
    <3>1. /\ f[k + 1] = Cards!Absorb(cards, f[k], k + 1, some, max)
          /\ g[k + 1] = Cards!Absorb(cards, f[k], k + 1, all, max)
      BY <1>1, <1>3, <1>4, <2>1, <2>2, <2>4 DEF Grows
    <3>2. Cards!ShouldFuse(f[k].card, cards[k + 1]) =>
            cards[i].type # General /\ cards[k + 1].type = cards[i].type
      BY <2>2 DEF Cards!ShouldFuse
    <3>3. \A c : Cards!Merge(f[k].card, c, max).type = f[k].card.type
      BY DEF Cards!Merge
    <3> QED BY <1>2, <2>2, <3>1, <3>2, <3>3 DEF Cards!Absorb
  <2> QED BY <2>3, <2>4
<1>7. n \in T
  <2> HIDE DEF T
  <2>1. T \in SUBSET Nat
    BY DEF T
  <2> QED BY <1>1, <1>5, <1>6, <2>1, Induction
<1> QED BY <1>1, <1>3, <1>4, <1>7 DEF Grows, some, all

\* Comparing within a type gives the cards that comparing all pairs gives.
LEMMA PrunedFusion ==
    ASSUME NEW cards, Numbered(cards), NEW max
    PROVE  Cards!Fuse(cards, max) = Cards!FuseOver(cards, max, Cards!AllLater(cards))
<1> DEFINE n == Cards!Size
           some == Cards!Buckets(cards)
           all == Cards!AllLater(cards)
<1>1. n \in Nat
  BY SizeIsANumber
<1>2. PICK f : Fuses(f, cards, max, some)
  BY FuseUnfolds
<1>3. PICK g : Fuses(g, cards, max, all)
  BY FuseUnfolds
<1> DEFINE T == {k \in Nat : k <= n => f[k] = g[k]}
<1>4. 0 \in T
  BY <1>2, <1>3 DEF Fuses
<1>5. \A acc, i : Cards!Collect(cards, acc, i, some, max) = Cards!Collect(cards, acc, i, all, max)
  <2> SUFFICES ASSUME NEW acc, NEW i \in DOMAIN cards
               PROVE  Cards!Grown(cards, acc.fused, i, some[i], max)
                        = Cards!Grown(cards, acc.fused, i, all[i], max)
    BY DEF Cards!Collect
  <2> QED BY PrunedLoop
<1> HIDE DEF some, all
<1>6. \A k \in T : k + 1 \in T
  <2> TAKE k \in T
  <2> SUFFICES ASSUME k + 1 <= n PROVE f[k + 1] = g[k + 1]
    OBVIOUS
  <2>1. k \in 0..n /\ k + 1 \in 0..n /\ (k + 1) - 1 = k /\ k + 1 # 0
    BY <1>1
  <2>2. k + 1 \in 1..n /\ f[k] = g[k]
    BY <1>1, <2>1
  <2>3. /\ f[k + 1] = Cards!Collect(cards, f[k], k + 1, some, max)
        /\ g[k + 1] = Cards!Collect(cards, f[k], k + 1, all, max)
    BY <1>2, <1>3, <2>1, <2>2 DEF Fuses
  <2> QED BY <1>5, <2>3
<1>7. n \in T
  <2> HIDE DEF T
  <2>1. T \in SUBSET Nat
    BY DEF T
  <2> QED BY <1>1, <1>4, <1>6, <2>1, Induction
<1> QED BY <1>1, <1>2, <1>3, <1>7 DEF Cards!Fuse, Fuses, some, all
-----------------------------------------------------------------------------
\* The topics of a card.
KeyTopics(c) == Cards!ToSet(c.key)

\* A set later that a loop over cards may use: cards after i.
LaterOnes(cards, i) == {j \in DOMAIN cards : j > i}

HasKey(c) == c.key \in Seq(Nat)
IsTopic(c, t) == t \in Nat /\ c.key = <<t>>

LEMMA KeyOfMerge ==
    ASSUME NEW a, NEW b, NEW t, NEW max, HasKey(a), IsTopic(b, t)
    PROVE  /\ HasKey(Cards!Merge(a, b, max))
           /\ KeyTopics(Cards!Merge(a, b, max)) = KeyTopics(a) \cup {t}
<1> DEFINE s == a.key
           r == a.key \o <<t>>
<1>1. Cards!Merge(a, b, max).key = r
  BY DEF Cards!Merge, IsTopic
<1>2. t \in Nat /\ s \in Seq(Nat) /\ r \in Seq(Nat) /\ Len(r) = Len(s) + 1 /\ Len(s) \in Nat
  BY DEF HasKey, IsTopic
<1>3. r[Len(s) + 1] = t /\ \A k \in 1..Len(s) : r[k] = s[k]
  BY <1>2
<1>4. DOMAIN r = 1..(Len(s) + 1) /\ DOMAIN s = 1..Len(s)
  BY <1>2
<1> HIDE DEF r, s
<1>5. {r[k] : k \in DOMAIN r} = {s[k] : k \in DOMAIN s} \cup {t}
  <2>1. 1..(Len(s) + 1) = 1..Len(s) \cup {Len(s) + 1}
    BY <1>2
  <2> QED BY <1>3, <1>4, <2>1
<1> QED BY <1>1, <1>2, <1>5 DEF HasKey, KeyTopics, Cards!ToSet, s

\* What a card has taken in up to card k is in its key.
KeyFits(cards, gone, i, acc, k) ==
    /\ acc.card.key \in Seq(Nat)
    /\ gone \subseteq acc.fused
    /\ acc.fused \ gone \subseteq {j \in LaterOnes(cards, i) : j <= k}
    /\ KeyTopics(acc.card) = {i} \cup (acc.fused \ gone)

LEMMA GrownKey ==
    ASSUME NEW cards, Numbered(cards), NEW gone, NEW i \in DOMAIN cards,
           NEW later \in SUBSET LaterOnes(cards, i), NEW max
    PROVE  KeyFits(cards, gone, i, Cards!Grown(cards, gone, i, later, max), Cards!Size)
<1> DEFINE n == Cards!Size
<1>1. n \in Nat /\ i \in Nat /\ i \in 1..n
  BY SizeIsANumber DEF Numbered
<1>2. PICK f : Grows(f, cards, gone, i, later, max)
  BY <1>1, GrownUnfolds
<1> DEFINE T == {k \in Nat : k <= n => KeyFits(cards, gone, i, f[k], k)}
<1>3. ASSUME NEW k \in 0..n, k <= i PROVE KeyFits(cards, gone, i, f[k], k)
  <2>1. f[k].card.key = <<i>> /\ f[k].fused = gone
    BY <1>2, <1>3 DEF Grows, Numbered
  <2>2. <<i>> \in Seq(Nat) /\ Cards!ToSet(<<i>>) = {i}
    BY <1>1 DEF Cards!ToSet
  <2> QED BY <2>1, <2>2 DEF KeyFits, KeyTopics
<1>4. 0 \in T
  BY <1>1, <1>3
<1>5. \A k \in T : k + 1 \in T
  <2> TAKE k \in T
  <2> SUFFICES ASSUME k + 1 <= n, ~(k + 1 <= i) PROVE KeyFits(cards, gone, i, f[k + 1], k + 1)
    BY <1>1, <1>3
  <2>1. k \in 0..n /\ k + 1 \in 1..n /\ (k + 1) - 1 = k /\ k + 1 > i
    BY <1>1
  <2>2. KeyFits(cards, gone, i, f[k], k)
    BY <2>1
  <2>3. f[k + 1] = Cards!Absorb(cards, f[k], k + 1, later, max)
    BY <1>2, <2>1 DEF Grows
  <2>4. CASE f[k + 1] = f[k]
    BY <2>1, <2>2, <2>4 DEF KeyFits, LaterOnes
  <2>5. CASE f[k + 1] # f[k]
    <3>1. /\ k + 1 \in later /\ k + 1 \notin f[k].fused
          /\ f[k + 1] = [card |-> Cards!Merge(f[k].card, cards[k + 1], max),
                         fused |-> f[k].fused \cup {k + 1}]
      BY <2>3, <2>5 DEF Cards!Absorb
    <3>2. k + 1 \in DOMAIN cards /\ cards[k + 1].key = <<k + 1>>
      BY <3>1 DEF Numbered, LaterOnes
    <3>3. /\ f[k + 1].card.key \in Seq(Nat)
          /\ KeyTopics(f[k + 1].card) = KeyTopics(f[k].card) \cup {k + 1}
      <4>1. f[k + 1].card = Cards!Merge(f[k].card, cards[k + 1], max)
        BY <3>1
      <4>2. f[k].card.key \in Seq(Nat) /\ k + 1 \in Nat
        BY <2>1, <2>2 DEF KeyFits
      <4>3. HasKey(f[k].card) /\ IsTopic(cards[k + 1], k + 1)
        BY <3>2, <4>2 DEF HasKey, IsTopic
      <4>4. HasKey(f[k + 1].card) /\ KeyTopics(f[k + 1].card) = KeyTopics(f[k].card) \cup {k + 1}
        BY <4>1, <4>3, KeyOfMerge
      <4> QED BY <4>4 DEF HasKey
    <3>4. f[k + 1].fused = f[k].fused \cup {k + 1} /\ k + 1 \notin gone
      BY <2>2, <3>1 DEF KeyFits
    <3>5. k + 1 \in LaterOnes(cards, i)
      BY <3>1
    <3>6. f[k + 1].fused \ gone = (f[k].fused \ gone) \cup {k + 1} /\ gone \subseteq f[k + 1].fused
      BY <2>2, <3>4 DEF KeyFits
    <3>7. {j \in LaterOnes(cards, i) : j <= k} \cup {k + 1} \subseteq {j \in LaterOnes(cards, i) : j <= k + 1}
      <4>1. \A j \in DOMAIN cards : j \in Nat
        BY DEF Numbered
      <4> QED BY <2>1, <3>5, <4>1 DEF LaterOnes
    <3>8. KeyTopics(f[k + 1].card) = {i} \cup (f[k + 1].fused \ gone)
      BY <2>2, <3>3, <3>6 DEF KeyFits
    <3>9. f[k + 1].fused \ gone \subseteq {j \in LaterOnes(cards, i) : j <= k + 1}
      BY <2>2, <3>6, <3>7 DEF KeyFits
    <3> QED BY <3>3, <3>6, <3>8, <3>9 DEF KeyFits
  <2> QED BY <2>4, <2>5
<1>6. n \in T
  <2> HIDE DEF T
  <2>1. T \in SUBSET Nat
    BY DEF T
  <2> QED BY <1>1, <1>4, <1>5, <2>1, Induction
<1> QED BY <1>1, <1>2, <1>6 DEF Grows

\* A sequence may be extended by anything.
LEMMA LongerByOne ==
    ASSUME NEW S, NEW s \in Seq(S), NEW e
    PROVE  /\ Append(s, e) \in Seq(S \cup {e}) /\ Len(Append(s, e)) = Len(s) + 1
           /\ \A k \in 1..Len(s) : Append(s, e)[k] = s[k]
           /\ Append(s, e)[Len(s) + 1] = e
<1>1. s \in Seq(S \cup {e}) /\ e \in S \cup {e}
  OBVIOUS
<1> QED BY <1>1

\* The cards whose topics have been seen: each is in one card.
Gathered(cards, acc, k) ==
    /\ \E S : acc.result \in Seq(S)
    /\ acc.fused \subseteq DOMAIN cards
    /\ \A l \in 1..Len(acc.result) :
         KeyTopics(acc.result[l]) # {} /\ KeyTopics(acc.result[l]) \subseteq DOMAIN cards
    /\ \A l, m \in 1..Len(acc.result) :
         l # m => KeyTopics(acc.result[l]) \cap KeyTopics(acc.result[m]) = {}
    /\ \A t \in DOMAIN cards : t <= k \/ t \in acc.fused <=>
         \E l \in 1..Len(acc.result) : t \in KeyTopics(acc.result[l])

LEMMA CollectGathers ==
    ASSUME NEW cards, Numbered(cards), NEW acc, NEW max, NEW later, NEW k \in Nat,
           Gathered(cards, acc, k),
           \A i \in DOMAIN cards : later[i] \subseteq LaterOnes(cards, i)
    PROVE  Gathered(cards, Cards!Collect(cards, acc, k + 1, later, max), k + 1)
<1> DEFINE i == k + 1
           next == Cards!Collect(cards, acc, i, later, max)
<1>1. i \in Nat /\ k < i /\ \A t \in DOMAIN cards : t \in Nat
  BY DEF Numbered
<1>2. CASE i \notin DOMAIN cards \/ i \in acc.fused
  <2>1. next = acc
    BY <1>2 DEF Cards!Collect
  <2>2. \A t \in DOMAIN cards : t <= i \/ t \in acc.fused <=> t <= k \/ t \in acc.fused
    BY <1>1, <1>2
  <2>3. Gathered(cards, acc, i)
    BY <2>2 DEF Gathered
  <2> QED BY <2>1, <2>3
<1>3. CASE i \in DOMAIN cards /\ i \notin acc.fused
  <2> DEFINE end == Cards!Grown(cards, acc.fused, i, later[i], max)
             new == end.fused \ acc.fused
  <2>1. next = [result |-> Append(acc.result, end.card), fused |-> end.fused]
    BY <1>3 DEF Cards!Collect
  <2>2. KeyFits(cards, acc.fused, i, end, Cards!Size)
    <3>1. later[i] \in SUBSET LaterOnes(cards, i)
      BY <1>3
    <3> QED BY <1>3, <3>1, GrownKey
  <2>3. /\ KeyTopics(end.card) = {i} \cup new /\ end.fused = acc.fused \cup new
        /\ new \subseteq DOMAIN cards /\ \A t \in new : t > i /\ t \notin acc.fused
    BY <2>2 DEF KeyFits, LaterOnes
  <2> HIDE DEF end, new, next
  <2>4. PICK S : acc.result \in Seq(S)
    BY DEF Gathered
  <2> DEFINE n == Len(acc.result)
             r == next.result
  <2>5. /\ \E U : r \in Seq(U)
        /\ Len(r) = n + 1 /\ n \in Nat
        /\ \A l \in 1..n : r[l] = acc.result[l]
        /\ r[n + 1] = end.card
    <3>1. r = Append(acc.result, end.card)
      BY <2>1
    <3>2. n \in Nat
      BY <2>4
    <3> DEFINE s == acc.result
               c == end.card
    <3> HIDE DEF s, c
    <3>3. /\ Append(s, c) \in Seq(S \cup {c}) /\ Len(Append(s, c)) = Len(s) + 1
          /\ \A k1 \in 1..Len(s) : Append(s, c)[k1] = s[k1]
          /\ Append(s, c)[Len(s) + 1] = c
      BY <2>4, LongerByOne DEF s
    <3> HIDE DEF r
    <3> QED BY <3>1, <3>2, <3>3 DEF s, c
  <2>6. 1..Len(r) = 1..n \cup {n + 1} /\ n + 1 \notin 1..n
    BY <2>5
  <2>7. next.fused = acc.fused \cup new
    BY <2>1, <2>3
  <2>8. \A l \in 1..n : KeyTopics(r[l]) = KeyTopics(acc.result[l])
    BY <2>5
  <2>9. KeyTopics(r[n + 1]) = {i} \cup new
    BY <2>3, <2>5
  <2>10. \A l \in 1..n : KeyTopics(r[l]) \cap ({i} \cup new) = {}
    <3> SUFFICES ASSUME NEW l \in 1..n, NEW t \in KeyTopics(r[l]), t \in {i} \cup new
                 PROVE  FALSE
      OBVIOUS
    <3>1. t \in DOMAIN cards /\ (t <= k \/ t \in acc.fused)
      BY <2>8 DEF Gathered
    <3> QED BY <1>1, <1>3, <2>3, <3>1
  <2> HIDE DEF r, n
  <2>11. \A l \in 1..Len(r) : KeyTopics(r[l]) # {} /\ KeyTopics(r[l]) \subseteq DOMAIN cards
    BY <1>3, <2>3, <2>6, <2>8, <2>9 DEF Gathered, n
  <2>12. \A l, m \in 1..Len(r) : l # m => KeyTopics(r[l]) \cap KeyTopics(r[m]) = {}
    BY <2>6, <2>8, <2>9, <2>10 DEF Gathered, n
  <2>13. \A t \in DOMAIN cards : t <= i \/ t \in next.fused <=>
           \E l \in 1..Len(r) : t \in KeyTopics(r[l])
    <3> SUFFICES ASSUME NEW t \in DOMAIN cards
                 PROVE  t <= i \/ t \in next.fused <=> \E l \in 1..Len(r) : t \in KeyTopics(r[l])
      OBVIOUS
    <3>1. t <= i \/ t \in next.fused <=> (t <= k \/ t \in acc.fused) \/ t \in {i} \cup new
      BY <1>1, <2>7
    <3>2. t <= k \/ t \in acc.fused <=> \E l \in 1..n : t \in KeyTopics(r[l])
      BY <2>8 DEF Gathered, n
    <3> QED BY <2>6, <2>9, <3>1, <3>2
  <2>14. next.fused \subseteq DOMAIN cards
    BY <2>3, <2>7 DEF Gathered
  <2>15. \E U : next.result \in Seq(U)
    BY <2>5 DEF r
  <2>16. Gathered(cards, next, i)
    BY <2>11, <2>12, <2>13, <2>14, <2>15 DEF Gathered, r
  <2> QED BY <2>16 DEF next
<1> QED BY <1>2, <1>3

\* Each topic is in one card, and keys are different.
EachOnce(cards, result) ==
    /\ \E S : result \in Seq(S)
    /\ \A l \in 1..Len(result) : KeyTopics(result[l]) # {} /\ KeyTopics(result[l]) \subseteq DOMAIN cards
    /\ \A l, m \in 1..Len(result) :
         l # m => KeyTopics(result[l]) \cap KeyTopics(result[m]) = {}
    /\ \A t \in DOMAIN cards : \E l \in 1..Len(result) : t \in KeyTopics(result[l])

LEMMA FusionGathers ==
    ASSUME NEW cards, Numbered(cards), NEW max
    PROVE  EachOnce(cards, Cards!Fuse(cards, max))
<1> DEFINE n == Cards!Size
           later == Cards!Buckets(cards)
<1>1. n \in Nat
  BY SizeIsANumber
<1>2. \A i \in DOMAIN cards : later[i] \subseteq LaterOnes(cards, i)
  BY DEF Cards!Buckets, LaterOnes
<1> HIDE DEF later
<1>3. PICK f : Fuses(f, cards, max, later)
  BY FuseUnfolds
<1> DEFINE T == {k \in Nat : k <= n => Gathered(cards, f[k], k)}
<1>4. 0 \in T
  <2>1. f[0].result = <<>> /\ f[0].fused = {}
    BY <1>3 DEF Fuses
  <2>2. <<>> \in Seq({}) /\ Len(<<>>) = 0 /\ 1..0 = {}
    OBVIOUS
  <2>3. \A t \in DOMAIN cards : ~(t <= 0)
    BY DEF Numbered
  <2> QED BY <2>1, <2>2, <2>3 DEF Gathered
<1>5. \A k \in T : k + 1 \in T
  <2> TAKE k \in T
  <2> SUFFICES ASSUME k + 1 <= n PROVE Gathered(cards, f[k + 1], k + 1)
    OBVIOUS
  <2>1. k \in Nat /\ k <= n /\ k + 1 \in 1..n /\ (k + 1) - 1 = k
    BY <1>1
  <2>2. f[k + 1] = Cards!Collect(cards, f[k], k + 1, later, max)
    BY <1>3, <2>1 DEF Fuses
  <2> QED BY <1>2, <2>1, <2>2, CollectGathers
<1>6. n \in T
  <2> HIDE DEF T
  <2>1. T \in SUBSET Nat
    BY DEF T
  <2> QED BY <1>1, <1>4, <1>5, <2>1, Induction
<1>7. Gathered(cards, f[n], n)
  BY <1>1, <1>6
<1>8. \A t \in DOMAIN cards : t <= n
  BY <1>1 DEF Numbered
<1>9. Cards!Fuse(cards, max) = f[n].result
  BY <1>3 DEF Fuses, Cards!Fuse, later
<1> QED BY <1>7, <1>8, <1>9 DEF Gathered, EachOnce
-----------------------------------------------------------------------------
\* A card and the same with all its news: what fuses is the same.
SameEvent(c, whole) ==
    /\ c.key = whole.key /\ c.words = whole.words /\ c.type = whole.type
    /\ c.primary = whole.primary /\ c.symbols = whole.symbols
    /\ c.news \subseteq whole.news /\ whole.news \subseteq EventNews
    /\ c.count <= Cardinality(whole.news)

LEMMA CardsAreTheSame ==
    ASSUME NEW ls, NEW t, NEW market
    PROVE  SameEvent(Cards!Card(ls, t, market, CardNews), Cards!Card(ls, t, market, None))
<1> DEFINE ns == Cards!NewsOf(ls, t, market)
           c == Cards!Card(ls, t, market, CardNews)
           whole == Cards!Card(ls, t, market, None)
<1>1. ns \subseteq EventNews
  BY DEF Cards!NewsOf
<1>2. IsFiniteSet(ns) /\ Cardinality(ns) <= Cardinality(ns)
  BY <1>1, CardsAssumption, FS_Subset, FS_CardinalityType
<1>3. /\ c.key = whole.key /\ c.words = whole.words /\ c.type = whole.type
      /\ c.primary = whole.primary /\ c.symbols = whole.symbols
      /\ c.count = Cards!Cardinality(ns)
      /\ c.news = Cards!Shown(ns, CardNews) /\ whole.news = Cards!Shown(ns, None)
  BY DEF Cards!Card
<1>4. Cards!Shown(ns, None) = ns /\ Cards!Shown(ns, CardNews) \subseteq ns
  BY DEF Cards!Shown, Cards!Newest
<1> HIDE DEF ns, c, whole
<1>5. SameEvent(c, whole)
  BY <1>1, <1>2, <1>3, <1>4, CardsCardinality DEF SameEvent
<1> QED BY <1>5 DEF c, whole

LEMMA MergesAreTheSame ==
    ASSUME NEW a, NEW b, NEW c, NEW d, SameEvent(a, b), SameEvent(c, d)
    PROVE  SameEvent(Cards!Merge(a, c, CardNews), Cards!Merge(b, d, None))
<1> DEFINE m == Cards!Merge(a, c, CardNews)
           whole == Cards!Merge(b, d, None)
           some == a.news \cup c.news
           all == b.news \cup d.news
<1>1. /\ m.key = whole.key /\ m.words = whole.words /\ m.type = whole.type
      /\ m.primary = whole.primary /\ m.symbols = whole.symbols
  BY DEF SameEvent, Cards!Merge
<1>2. /\ m.count = Cards!Cardinality(some)
      /\ m.news = Cards!Shown(some, CardNews) /\ whole.news = Cards!Shown(all, None)
  BY DEF Cards!Merge
<1>3. some \subseteq all /\ all \subseteq EventNews
  BY DEF SameEvent
<1> HIDE DEF m, whole, some, all
<1>4. Cards!Shown(all, None) = all /\ Cards!Shown(some, CardNews) \subseteq some
  BY DEF Cards!Shown, Cards!Newest
<1>5. Cardinality(some) <= Cardinality(all)
  BY <1>3, CardsAssumption, FS_Subset
<1>6. SameEvent(m, whole)
  BY <1>1, <1>2, <1>3, <1>4, <1>5, CardsCardinality DEF SameEvent
<1> QED BY <1>6 DEF m, whole

Alike(cards, wholes) ==
    DOMAIN cards = DOMAIN wholes /\ \A t \in DOMAIN cards : SameEvent(cards[t], wholes[t])

LEMMA CandidatesAreAlike ==
    ASSUME NEW ls, NEW market
    PROVE  Alike(Cards!Candidates(ls, market, CardNews), Cards!Candidates(ls, market, None))
BY CardsAreTheSame DEF Alike, Cards!Candidates

LEMMA GrowthIsTheSame ==
    ASSUME NEW cards, NEW wholes, Numbered(cards), Alike(cards, wholes),
           NEW gone, NEW i \in DOMAIN cards, NEW later \in SUBSET LaterOnes(cards, i)
    PROVE  LET end == Cards!Grown(cards, gone, i, later, CardNews)
               whole == Cards!Grown(wholes, gone, i, later, None)
           IN  end.fused = whole.fused /\ SameEvent(end.card, whole.card)
<1> DEFINE n == Cards!Size
<1>1. n \in Nat /\ i \in Nat
  BY SizeIsANumber DEF Numbered
<1>2. PICK f : Grows(f, cards, gone, i, later, CardNews)
  BY <1>1, GrownUnfolds
<1>3. PICK g : Grows(g, wholes, gone, i, later, None)
  BY <1>1, GrownUnfolds
<1> DEFINE Same(k) == f[k].fused = g[k].fused /\ SameEvent(f[k].card, g[k].card)
           T == {k \in Nat : k <= n => Same(k)}
<1>4. ASSUME NEW k \in 0..n, k <= i PROVE Same(k)
  <2>1. f[k] = [card |-> cards[i], fused |-> gone] /\ g[k] = [card |-> wholes[i], fused |-> gone]
    BY <1>2, <1>3, <1>4 DEF Grows
  <2> QED BY <2>1 DEF Alike
<1>5. 0 \in T
  BY <1>1, <1>4
<1>6. \A k \in T : k + 1 \in T
  <2> TAKE k \in T
  <2> SUFFICES ASSUME k + 1 <= n, ~(k + 1 <= i) PROVE Same(k + 1)
    BY <1>1, <1>4
  <2>1. k \in 0..n /\ k + 1 \in 1..n /\ (k + 1) - 1 = k /\ k + 1 > i
    BY <1>1
  <2>2. Same(k)
    BY <2>1
  <2>3. /\ f[k + 1] = Cards!Absorb(cards, f[k], k + 1, later, CardNews)
        /\ g[k + 1] = Cards!Absorb(wholes, g[k], k + 1, later, None)
    BY <1>2, <1>3, <2>1 DEF Grows
  <2>4. CASE k + 1 \notin later \/ k + 1 \in f[k].fused
    <3>1. f[k + 1] = f[k] /\ g[k + 1] = g[k]
      BY <2>2, <2>3, <2>4 DEF Cards!Absorb
    <3> QED BY <2>2, <3>1
  <2>5. CASE k + 1 \in later /\ k + 1 \notin f[k].fused
    <3>1. SameEvent(cards[k + 1], wholes[k + 1])
      BY <2>5 DEF Alike, LaterOnes
    <3>2. Cards!ShouldFuse(f[k].card, cards[k + 1]) <=> Cards!ShouldFuse(g[k].card, wholes[k + 1])
      BY <2>2, <3>1 DEF SameEvent, Cards!ShouldFuse
    <3>3. CASE ~Cards!ShouldFuse(f[k].card, cards[k + 1])
      <4>1. f[k + 1] = f[k] /\ g[k + 1] = g[k]
        BY <2>3, <3>2, <3>3 DEF Cards!Absorb
      <4> QED BY <2>2, <4>1
    <3>4. CASE Cards!ShouldFuse(f[k].card, cards[k + 1])
      <4>1. /\ f[k + 1] = [card |-> Cards!Merge(f[k].card, cards[k + 1], CardNews),
                           fused |-> f[k].fused \cup {k + 1}]
            /\ g[k + 1] = [card |-> Cards!Merge(g[k].card, wholes[k + 1], None),
                           fused |-> g[k].fused \cup {k + 1}]
        BY <2>2, <2>3, <2>5, <3>2, <3>4 DEF Cards!Absorb
      <4>2. /\ f[k + 1].card = Cards!Merge(f[k].card, cards[k + 1], CardNews)
            /\ g[k + 1].card = Cards!Merge(g[k].card, wholes[k + 1], None)
            /\ f[k + 1].fused = g[k + 1].fused
        BY <2>2, <4>1
      <4> QED BY <2>2, <3>1, <4>2, MergesAreTheSame
    <3> QED BY <3>3, <3>4
  <2> QED BY <2>4, <2>5
<1>7. n \in T
  <2> HIDE DEF T
  <2>1. T \in SUBSET Nat
    BY DEF T
  <2> QED BY <1>1, <1>5, <1>6, <2>1, Induction
<1> QED BY <1>1, <1>2, <1>3, <1>7 DEF Grows

\* What has been collected from the cards, and from the same with all their news.
SameResult(r, whole) ==
    /\ \E S : r \in Seq(S)
    /\ \E S : whole \in Seq(S)
    /\ Len(r) = Len(whole)
    /\ \A l \in 1..Len(r) : SameEvent(r[l], whole[l])

LEMMA LongerResults ==
    ASSUME NEW r, NEW whole, SameResult(r, whole), NEW c, NEW d, SameEvent(c, d)
    PROVE  SameResult(Append(r, c), Append(whole, d))
<1>1. PICK S : r \in Seq(S)
  BY DEF SameResult
<1>2. PICK U : whole \in Seq(U)
  BY DEF SameResult
<1>3. /\ Append(r, c) \in Seq(S \cup {c}) /\ Len(Append(r, c)) = Len(r) + 1
      /\ \A k \in 1..Len(r) : Append(r, c)[k] = r[k]
      /\ Append(r, c)[Len(r) + 1] = c
  BY <1>1, LongerByOne
<1>4. /\ Append(whole, d) \in Seq(U \cup {d}) /\ Len(Append(whole, d)) = Len(whole) + 1
      /\ \A k \in 1..Len(whole) : Append(whole, d)[k] = whole[k]
      /\ Append(whole, d)[Len(whole) + 1] = d
  BY <1>2, LongerByOne
<1>5. Len(r) \in Nat /\ Len(r) = Len(whole) /\ \A l \in 1..(Len(r) + 1) : l \in 1..Len(r) \/ l = Len(r) + 1
  BY <1>1 DEF SameResult
<1>6. \A l \in 1..Len(r) : SameEvent(r[l], whole[l])
  BY DEF SameResult
<1> DEFINE x == Append(r, c)
           y == Append(whole, d)
<1> HIDE DEF x, y
<1>7. \A l \in 1..Len(x) : SameEvent(x[l], y[l])
  <2> SUFFICES ASSUME NEW l \in 1..Len(x) PROVE SameEvent(x[l], y[l])
    OBVIOUS
  <2>1. CASE l \in 1..Len(r)
    <3>1. x[l] = r[l] /\ y[l] = whole[l]
      BY <1>3, <1>4, <1>5, <2>1 DEF x, y
    <3> QED BY <1>6, <2>1, <3>1
  <2>2. CASE l = Len(r) + 1
    <3>1. x[l] = c /\ y[l] = d
      BY <1>3, <1>4, <1>5, <2>2 DEF x, y
    <3> QED BY <3>1
  <2> QED BY <1>3, <1>5, <2>1, <2>2 DEF x
<1>8. SameResult(x, y)
  BY <1>3, <1>4, <1>5, <1>7 DEF SameResult, x, y
<1> QED BY <1>8 DEF x, y

LEMMA FusionIsTheSame ==
    ASSUME NEW cards, NEW wholes, Numbered(cards), Alike(cards, wholes)
    PROVE  SameResult(Cards!Fuse(cards, CardNews), Cards!Fuse(wholes, None))
<1> DEFINE n == Cards!Size
           later == Cards!Buckets(cards)
<1>1. n \in Nat
  BY SizeIsANumber
<1>2. later = Cards!Buckets(wholes)
  BY DEF Cards!Buckets, Alike, SameEvent
<1>3. \A i \in DOMAIN cards : later[i] \subseteq LaterOnes(cards, i)
  BY DEF Cards!Buckets, LaterOnes
<1> HIDE DEF later
<1>4. PICK f : Fuses(f, cards, CardNews, later)
  BY FuseUnfolds
<1>5. PICK g : Fuses(g, wholes, None, later)
  BY FuseUnfolds
<1> DEFINE Same(k) == f[k].fused = g[k].fused /\ SameResult(f[k].result, g[k].result)
           T == {k \in Nat : k <= n => Same(k)}
<1>6. 0 \in T
  <2>1. f[0] = [result |-> <<>>, fused |-> {}] /\ g[0] = [result |-> <<>>, fused |-> {}]
    BY <1>4, <1>5 DEF Fuses
  <2>2. <<>> \in Seq({}) /\ Len(<<>>) = 0 /\ 1..0 = {}
    OBVIOUS
  <2>3. SameResult(<<>>, <<>>)
    BY <2>2 DEF SameResult
  <2>4. /\ f[0].fused = {} /\ g[0].fused = {}
        /\ f[0].result = <<>> /\ g[0].result = <<>>
    BY <2>1
  <2> QED BY <2>3, <2>4
<1>7. \A k \in T : k + 1 \in T
  <2> TAKE k \in T
  <2> SUFFICES ASSUME k + 1 <= n PROVE Same(k + 1)
    OBVIOUS
  <2> DEFINE i == k + 1
  <2>1. k <= n /\ i \in 1..n /\ i - 1 = k
    BY <1>1
  <2>2. Same(k)
    BY <2>1
  <2>3. /\ f[i] = Cards!Collect(cards, f[k], i, later, CardNews)
        /\ g[i] = Cards!Collect(wholes, g[k], i, later, None)
    BY <1>4, <1>5, <2>1 DEF Fuses
  <2>4. DOMAIN cards = DOMAIN wholes
    BY DEF Alike
  <2> HIDE DEF i
  <2>5. CASE i \notin DOMAIN cards \/ i \in f[k].fused
    <3>1. f[i] = f[k] /\ g[i] = g[k]
      BY <2>2, <2>3, <2>4, <2>5 DEF Cards!Collect
    <3> QED BY <2>2, <3>1 DEF i
  <2>6. CASE i \in DOMAIN cards /\ i \notin f[k].fused
    <3> DEFINE a == Cards!Grown(cards, f[k].fused, i, later[i], CardNews)
               b == Cards!Grown(wholes, g[k].fused, i, later[i], None)
    <3>1. /\ f[i] = [result |-> Append(f[k].result, a.card), fused |-> a.fused]
          /\ g[i] = [result |-> Append(g[k].result, b.card), fused |-> b.fused]
      BY <2>2, <2>3, <2>4, <2>6 DEF Cards!Collect
    <3>2. a.fused = b.fused /\ SameEvent(a.card, b.card)
      <4>1. later[i] \in SUBSET LaterOnes(cards, i)
        BY <1>3, <2>6
      <4> QED BY <2>2, <2>6, <4>1, GrowthIsTheSame
    <3> HIDE DEF a, b
    <3>3. SameResult(Append(f[k].result, a.card), Append(g[k].result, b.card))
      BY <2>2, <3>2, LongerResults
    <3>4. /\ f[i].result = Append(f[k].result, a.card) /\ f[i].fused = a.fused
          /\ g[i].result = Append(g[k].result, b.card) /\ g[i].fused = b.fused
      BY <3>1
    <3> QED BY <3>2, <3>3, <3>4 DEF i
  <2> QED BY <2>5, <2>6
<1>8. n \in T
  <2> HIDE DEF T
  <2>1. T \in SUBSET Nat
    BY DEF T
  <2> QED BY <1>1, <1>6, <1>7, <2>1, Induction
<1>9. SameResult(f[n].result, g[n].result)
  BY <1>1, <1>8
<1> QED BY <1>2, <1>4, <1>5, <1>9 DEF Fuses, Cards!Fuse, later
-----------------------------------------------------------------------------
\* A card of a layout without a filter opens on itself with all its news.
LEMMA OpensOnItself ==
    ASSUME NEW ls, NEW i \in 1..Len(Cards!Cards(ls, All, CardNews))
    PROVE  LET list == Cards!Cards(ls, All, CardNews)
           IN  /\ \A j \in 1..Len(list) : list[j].key = list[i].key => j = i
               /\ \E whole \in Cards!DetailOf(ls, list[i].key).found : SameEvent(list[i], whole)
<1> DEFINE some == Cards!Candidates(ls, All, CardNews)
           all == Cards!Candidates(ls, All, None)
           r == Cards!Cards(ls, All, CardNews)
           w == Cards!Cards(ls, All, None)
           key == r[i].key
<1>1. r = Cards!Fuse(some, CardNews) /\ w = Cards!Fuse(all, None)
  BY DEF Cards!Cards
<1>2. EachOnce(some, r)
  BY <1>1, CandidatesAreNumbered, FusionGathers
<1>3. SameResult(r, w)
  BY <1>1, CandidatesAreNumbered, CandidatesAreAlike, FusionIsTheSame
<1> HIDE DEF some, all, r, w
<1>4. Len(r) \in Nat /\ Len(w) = Len(r) /\ DOMAIN w = 1..Len(r) /\ i \in 1..Len(r)
  BY <1>3 DEF SameResult, r
<1>5. ASSUME NEW j \in 1..Len(r), r[j].key = key PROVE j = i
  <2>1. KeyTopics(r[j]) = KeyTopics(r[i]) /\ KeyTopics(r[i]) # {}
    BY <1>2, <1>4, <1>5 DEF KeyTopics, EachOnce
  <2> QED BY <1>2, <1>4, <2>1 DEF EachOnce
<1>6. \A j \in 1..Len(r) : SameEvent(r[j], w[j]) /\ r[j].key = w[j].key
  BY <1>3 DEF SameResult, SameEvent
<1>7. w[i] \in Cards!Find(w, key)
  <2>1. i \in DOMAIN w /\ w[i].key = key
    BY <1>4, <1>6
  <2>2. \A k \in DOMAIN w : w[k].key = key => i <= k
    BY <1>4, <1>5, <1>6
  <2> HIDE DEF key
  <2> QED BY <2>1, <2>2 DEF Cards!Find
<1>8. w[i] \in Cards!DetailOf(ls, key).found
  BY <1>7 DEF Cards!DetailOf, w
<1>9. \E whole \in Cards!DetailOf(ls, key).found : SameEvent(r[i], whole)
  BY <1>4, <1>6, <1>8
<1>10. \A j \in 1..Len(r) : r[j].key = key => j = i
  BY <1>5
<1> QED BY <1>9, <1>10 DEF r

\* No cards without links.
LEMMA NoCardsWithoutLinks == ASSUME NEW market PROVE Cards!Cards({}, market, CardNews) = <<>>
<1> DEFINE cards == Cards!Candidates({}, market, CardNews)
           r == Cards!Cards({}, market, CardNews)
<1>1. DOMAIN cards = {}
  BY DEF Cards!Candidates, Cards!TopicViews, Cards!NewsOf
<1>2. r = Cards!Fuse(cards, CardNews)
  BY DEF Cards!Cards
<1>3. EachOnce(cards, r)
  BY <1>2, CandidatesAreNumbered, FusionGathers
<1> HIDE DEF cards, r
<1>4. PICK S : r \in Seq(S)
  BY <1>3 DEF EachOnce
<1>5. \A l \in 1..Len(r) : FALSE
  BY <1>1, <1>3 DEF EachOnce
<1>6. Len(r) = 0
  <2>1. Len(r) \in Nat
    BY <1>4
  <2>2. Len(r) > 0 => 1 \in 1..Len(r)
    BY <2>1
  <2> QED BY <1>5, <2>1, <2>2
<1>7. r = <<>>
  BY <1>4, <1>6
<1> QED BY <1>7 DEF r

\* The layout is of the links it was computed from, and a card that was opened since is
\* one of its cards.
CardsInv ==
    /\ Cards!TypeOK
    /\ layout.cards = Cards!Cards(layout.from, layout.market, CardNews)
    /\ detail # None /\ layout.from = links =>
         \E i \in 1..Len(layout.cards) : detail = Cards!DetailOf(links, layout.cards[i].key)

LEMMA CardsInvSuffices == CardsInv => Cards!CardsAreSound
<1> SUFFICES ASSUME CardsInv PROVE Cards!CardsAreSound
  OBVIOUS
<1> DEFINE ls == layout.from
           market == layout.market
           r == layout.cards
           cards == Cards!Candidates(ls, market, CardNews)
<1>1. r = Cards!Fuse(cards, CardNews) /\ r = Cards!Cards(ls, market, CardNews)
  BY DEF CardsInv, Cards!Cards
<1>2. Numbered(cards)
  BY CandidatesAreNumbered
<1>3. Cards!PruningChangesNothing
  BY <1>1, <1>2, PrunedFusion DEF Cards!PruningChangesNothing
<1>4. EachOnce(cards, r)
  BY <1>1, <1>2, FusionGathers
<1>5. Cards!EveryTopicOnce
  <2> HIDE DEF cards
  <2> SUFFICES ASSUME NEW t \in 1..Cards!Size
               PROVE  Cards!Cardinality({l \in 1..Len(r) : t \in KeyTopics(r[l])})
                        = IF t \in DOMAIN cards THEN 1 ELSE 0
    BY DEF Cards!EveryTopicOnce, KeyTopics, cards
  <2> DEFINE places == {l \in 1..Len(r) : t \in KeyTopics(r[l])}
  <2>1. CASE t \in DOMAIN cards
    <3>1. PICK l \in 1..Len(r) : t \in KeyTopics(r[l])
      BY <1>4, <2>1 DEF EachOnce
    <3>2. places = {l}
      BY <1>4, <3>1 DEF EachOnce
    <3> QED BY <2>1, <3>2, CardsCardinality, FS_Singleton
  <2>2. CASE t \notin DOMAIN cards
    <3>1. places = {}
      BY <1>4, <2>2 DEF EachOnce
    <3> QED BY <2>2, <3>1, CardsCardinality, FS_EmptySet
  <2> QED BY <2>1, <2>2
<1>6. Cards!UnfilteredKeysResolve
  <2> SUFFICES ASSUME detail # None, layout.from = links, layout.market = All
               PROVE  LET c == layout.cards[Cards!Opened]
                      IN  \E whole \in detail.found :
                            /\ c.news \subseteq whole.news
                            /\ c.count <= Cards!Cardinality(whole.news)
                            /\ c.type = whole.type /\ c.primary = whole.primary
    BY DEF Cards!UnfilteredKeysResolve, Cards!OpenedAsLoaded
  <2>1. PICK i \in 1..Len(r) : detail = Cards!DetailOf(ls, r[i].key)
    BY DEF CardsInv
  <2>2. r = Cards!Cards(ls, All, CardNews)
    BY <1>1
  <2>3. /\ \A j \in 1..Len(r) : r[j].key = r[i].key => j = i
        /\ \E whole \in Cards!DetailOf(ls, r[i].key).found : SameEvent(r[i], whole)
    BY <2>1, <2>2, OpensOnItself
  <2>4. detail.key = r[i].key
    BY <2>1 DEF Cards!DetailOf
  <2>5. Cards!Opened = i
    BY <2>1, <2>3, <2>4 DEF Cards!Opened
  <2>6. PICK whole \in detail.found : SameEvent(r[i], whole)
    BY <2>1, <2>3
  <2> QED BY <2>5, <2>6, CardsCardinality DEF SameEvent
<1> QED BY <1>3, <1>5, <1>6 DEF Cards!CardsAreSound

LEMMA CardsNextKeeps == ASSUME CardsInv, Cards!Next PROVE CardsInv'
<1>1. ASSUME Cards!Link PROVE CardsInv'
  <2>1. PICK l \in MayLink \ links : links' = links \union {l} /\ UNCHANGED <<layout, detail>>
    BY <1>1 DEF Cards!Link
  <2>2. layout.from \subseteq links /\ layout'.from # links'
    BY <2>1 DEF CardsInv, Cards!TypeOK
  <2>3. Cards!TypeOK'
    BY <2>1 DEF CardsInv, Cards!TypeOK
  <2> QED BY <2>1, <2>2, <2>3 DEF CardsInv
<1>2. ASSUME Cards!LoadLayout PROVE CardsInv'
  <2>1. PICK market \in Markets \cup {All} :
          /\ layout' = [market |-> market, cards |-> Cards!Cards(links, market, CardNews),
                        from |-> links]
          /\ detail' = None /\ UNCHANGED links
    BY <1>2 DEF Cards!LoadLayout
  <2>2. /\ layout'.market = market /\ layout'.from = links
        /\ layout'.cards = Cards!Cards(links, market, CardNews)
    BY <2>1
  <2>3. Cards!TypeOK'
    BY <2>1, <2>2 DEF CardsInv, Cards!TypeOK
  <2> QED BY <2>1, <2>2, <2>3 DEF CardsInv
<1>3. ASSUME Cards!OpenCard PROVE CardsInv'
  <2>1. PICK i \in 1..Len(layout.cards) :
          /\ detail' = Cards!DetailOf(links, layout.cards[i].key)
          /\ UNCHANGED <<links, layout>>
    BY <1>3 DEF Cards!OpenCard
  <2>2. Cards!TypeOK'
    BY <2>1 DEF CardsInv, Cards!TypeOK
  <2> QED BY <2>1, <2>2 DEF CardsInv
<1> QED BY <1>1, <1>2, <1>3 DEF Cards!Next

\* EventCards: comparing within a type gives the cards that comparing all pairs gives,
\* every topic is in one card, and without a filter a card opens on itself with all the
\* news it shows or counts (fuse_event_cards, get_event_detail).
THEOREM CardsTheorem == OneSpec => []CardsAreSound
<1>1. OneInit => CardsInv
  <2>1. Cards!Cards({}, All, CardNews) = <<>>
    BY NoCardsWithoutLinks
  <2> QED BY <2>1 DEF OneInit, Cards!Init, CardsInv, Cards!TypeOK
<1>2. [OneNext]_allVars => [Cards!Next]_cardsVars
  BY DEF OneNext, allVars
<1>3. CardsInv /\ UNCHANGED cardsVars => CardsInv'
  BY DEF cardsVars, CardsInv, Cards!TypeOK
<1>4. CardsInv /\ [OneNext]_allVars => CardsInv'
  BY <1>2, <1>3, CardsNextKeeps
<1>5. CardsInv => CardsAreSound
  BY CardsInvSuffices DEF CardsInv, CardsAreSound
<1> QED BY <1>1, <1>4, <1>5, PTL DEF OneSpec
=============================================================================
