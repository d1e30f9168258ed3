----------------------------- MODULE AlertCentre -----------------------------
(***************************************************************************)
(* The alert centre: the alert rows as the API gives and marks them        *)
(* (api/routes/alerts.py, alert_repository.py) and the page's copy of them *)
(* (stores/alertStore.ts): a list, and a number on a badge that counts     *)
(* what was pushed and marked and is replaced by the server's count at     *)
(* every load, reconnect and poll.                                         *)
(*                                                                         *)
(* Requests are answered and applied in any order; a push may be lost.     *)
(* What makes alerts is in QuoteAlerts, NewsAlerts and ImpactAlerts.       *)
(***************************************************************************)
EXTENDS QuietHours, FiniteSets

CONSTANTS
    Alerts,     \* alerts that may be created
    Requests,   \* requests that may be under way at once
    MaxClock,   \* bound: end of time
    MaxAsked,   \* bound: requests of the page
    None

VARIABLES
    clock, asked,
    rows,       \* each alert: None, or [visible, read]
    pushed,     \* alert.created events on their way to the page
    shown,      \* alertStore.alerts: [alert -> is it shown as read]
    unread,     \* alertStore.unread
    call,       \* requests: [kind, of, stage, answer, calm] or None
    late,       \* history: shown as read by a reply that did not cover them
    untold,     \* history: alerts the badge has not heard of
    exact       \* history: nothing overlapped since the last good count

vars == <<clock, asked, rows, pushed, shown, unread, call, late, untold, exact>>

Init ==
    /\ clock = 0 /\ asked = 0
    /\ rows = [a \in Alerts |-> None]
    /\ pushed = {} /\ shown = [a \in {} |-> FALSE] /\ unread = 0
    /\ call = [r \in Requests |-> None]
    /\ late = {} /\ untold = {} /\ exact = TRUE

Created == {a \in Alerts : rows[a] # None}

\* Mutation of Visible: the rows of the quiet hours as well.
VisibleAll(c) == Created

\* list_visible, unread_count and mark_all_read look at these rows only.
Visible(c) == {a \in Created : rows[a].visible <= c}

Unread == {a \in Visible(clock) : ~rows[a].read}
InFlight == {r \in Requests : call[r] # None}

\* What happens while a request is under way makes its answer one of the past.
Disturbed(except) ==
    [r \in Requests |-> IF r \in InFlight \ except THEN [call[r] EXCEPT !.calm = FALSE] ELSE call[r]]

\* An alert is written, and published if it is not for later.
Create(a) ==
    /\ rows[a] = None
    /\ rows' = [rows EXCEPT ![a] = [visible |-> VisibleAt(clock), read |-> FALSE]]
    /\ IF Night(clock) THEN untold' = untold \cup {a} /\ UNCHANGED pushed
                       ELSE pushed' = pushed \cup {a} /\ UNCHANGED untold
    /\ call' = Disturbed({})
    /\ UNCHANGED <<clock, asked, shown, unread, late, exact>>

\* receiveAlert: a new one goes into the list and is counted.
Receive(a) ==
    /\ a \in pushed
    /\ pushed' = pushed \ {a}
    /\ IF a \in DOMAIN shown THEN UNCHANGED <<shown, unread>>
       ELSE /\ shown' = [b \in DOMAIN shown \cup {a} |-> IF b = a THEN FALSE ELSE shown[b]]
            /\ unread' = unread + 1
    /\ exact' = (exact /\ InFlight = {})
    /\ call' = Disturbed({})
    /\ UNCHANGED <<clock, asked, rows, late, untold>>

\* The page is not connected, or its queue is full.
Lose(a) ==
    /\ a \in pushed
    /\ pushed' = pushed \ {a} /\ untold' = untold \cup {a}
    /\ call' = Disturbed({})
    /\ UNCHANGED <<clock, asked, rows, shown, unread, late, exact>>

\* loadAlerts, refreshUnread, markRead of an alert shown as unread, markAllRead.
Ask(r, kind, a) ==
    /\ call[r] = None /\ asked < MaxAsked
    /\ kind = "mark" => a \in DOMAIN shown /\ ~shown[a]
    /\ asked' = asked + 1
    /\ call' = [Disturbed({}) EXCEPT ![r] =
                 [kind |-> kind, of |-> a, stage |-> "asked", answer |-> {}, calm |-> InFlight = {}]]
    /\ UNCHANGED <<clock, rows, pushed, shown, unread, late, untold, exact>>

\* mark_read, mark_all_read; a second marking changes nothing.
Marked(c) ==
    CASE c.kind = "mark" -> {c.of}
      [] c.kind = "all" -> Visible(clock)
      [] OTHER -> {}

\* The server's half of a request. The answer to a list or a count is the visible rows
\* with their state. Marking what is read already is no news, but the page counts it.
Serve(r) ==
    /\ call[r] # None /\ call[r].stage = "asked"
    /\ rows' = [a \in Alerts |-> IF a \in Marked(call[r]) THEN [rows[a] EXCEPT !.read = TRUE] ELSE rows[a]]
    /\ call' = [Disturbed({r}) EXCEPT ![r].stage = "answered",
                                     ![r].calm = @ /\ (call[r].kind = "mark" => ~rows[call[r].of].read),
                                     ![r].answer = {<<a, rows'[a].read>> : a \in Visible(clock)}]
    /\ UNCHANGED <<clock, asked, pushed, shown, unread, late, untold, exact>>

\* A request fails before or after the server has done its half; the page goes on.
Fail(r) ==
    /\ call[r] # None
    /\ exact' = (exact /\ (call[r].stage = "answered" => call[r].kind \in {"list", "count"}))
    /\ call' = [Disturbed({r}) EXCEPT ![r] = None]
    /\ UNCHANGED <<clock, asked, rows, pushed, shown, unread, late, untold>>

Answered(r, kind) == call[r] # None /\ call[r].stage = "answered" /\ call[r].kind = kind

\* Nothing happened around the request.
Calm(r) == call[r].calm /\ pushed = {}

Done(r) == call' = [Disturbed({r}) EXCEPT ![r] = None]

\* loadAlerts replaces the list, whatever has been pushed or marked meanwhile.
ApplyList(r) ==
    /\ Answered(r, "list")
    /\ shown' = [a \in {x[1] : x \in call[r].answer} |-> <<a, TRUE>> \in call[r].answer]
    /\ exact' = (exact /\ Calm(r))
    /\ late' = late \cap DOMAIN shown'
    /\ Done(r)
    /\ UNCHANGED <<clock, asked, rows, pushed, unread, untold>>

ApplyCount(r) ==
    /\ Answered(r, "count")
    /\ unread' = Cardinality({x \in call[r].answer : ~x[2]})
    /\ exact' = Calm(r)
    /\ untold' = untold \ {x[1] : x \in call[r].answer}
    /\ Done(r)
    /\ UNCHANGED <<clock, asked, rows, pushed, shown, late>>

Decremented(n) == IF n > 0 THEN n - 1 ELSE 0

\* markRead was asked for an alert then unread: one less, whatever happened since.
ApplyMark(r) ==
    /\ Answered(r, "mark")
    /\ shown' = [a \in DOMAIN shown |-> shown[a] \/ a = call[r].of]
    /\ unread' = Decremented(unread)
    /\ exact' = (exact /\ Calm(r) /\ call[r].of \notin untold)
    /\ late' = late \ {call[r].of}
    /\ Done(r)
    /\ UNCHANGED <<clock, asked, rows, pushed, untold>>

\* markAllRead: everything in the list now, not only what the server has marked.
ApplyAll(r) ==
    /\ Answered(r, "all")
    /\ shown' = [a \in DOMAIN shown |-> TRUE]
    /\ unread' = 0
    /\ late' = late \cup {a \in DOMAIN shown : ~shown[a] /\ a \notin {x[1] : x \in call[r].answer}}
    /\ exact' = Calm(r)
    /\ Done(r)
    /\ UNCHANGED <<clock, asked, rows, pushed, untold>>

Tick ==
    /\ clock < MaxClock
    /\ clock' = clock + 1
    /\ call' = Disturbed({})
    /\ UNCHANGED <<asked, rows, pushed, shown, unread, late, untold, exact>>

Apply(r) == ApplyList(r) \/ ApplyCount(r) \/ ApplyMark(r) \/ ApplyAll(r)

Next ==
    \/ \E a \in Alerts : Create(a) \/ Receive(a) \/ Lose(a)
    \/ \E r \in Requests :
         \/ \E kind \in {"list", "count", "all"} : Ask(r, kind, None)
         \/ \E a \in Alerts : Ask(r, "mark", a)
         \/ Serve(r) \/ Fail(r) \/ Apply(r)
    \/ Tick

Spec == Init /\ [][Next]_vars

-----------------------------------------------------------------------------
TypeOK ==
    /\ clock \in 0..MaxClock /\ asked \in 0..MaxAsked
    /\ pushed \subseteq Created /\ late \subseteq DOMAIN shown
    /\ DOMAIN shown \subseteq Created /\ unread \in Nat

\* What the page shows as read is read on the server, through overlapping requests
\* and replies that come too late; except for an alert that came to the page while
\* markAllRead was on its way back, which it shows as read until the next load.
ReadIsRead == \A a \in DOMAIN shown : shown[a] => rows[a].read \/ a \in late

\* No alert of the quiet hours is shown or marked before it is visible.
UnseenIsUnread ==
    /\ \A a \in Created : rows[a].read => rows[a].visible <= clock
    /\ \A a \in DOMAIN shown : rows[a].visible <= clock

\* With no request under way the badge is the server's count, less the alerts it has
\* not heard of yet: as long as no two of push, marking and count overlapped and
\* no marking was repeated, and again from the next count on that nothing overlaps.
BadgeIsRight ==
    exact /\ InFlight = {} => unread = Cardinality(Unread \ (pushed \cup untold))

\* The page agrees with the server but for the overlaps it does not guard against.
CentreIsSound == TypeOK /\ ReadIsRead /\ UnseenIsUnread /\ BadgeIsRight
=============================================================================
