------------------------------ MODULE FeedParsing ------------------------------
(***************************************************************************)
(* What a source's parser makes of a feed (services/ingestion/parser.py)   *)
(* and of the time texts in it (utils.py).  A feed is a page of records,   *)
(* the newest first.  A record may be malformed, may show a link that is   *)
(* already on the page, and gives its time in full, as a clock ("15:03")   *)
(* or as a day and a clock ("07-25 10:00"): the parser adds what is        *)
(* missing from the local time of the poll.  Times are counted in slots.   *)
(***************************************************************************)
EXTENDS Integers, Sequences, FiniteSets

CONSTANTS
    Urls,
    Limit,          \* item_limit of the source
    PageLength,     \* records on the publisher's page
    SlotsPerDay, DaysPerYear,
    Tolerance,      \* slots a clock may be ahead of now: _CLOCK_FUTURE_TOLERANCE
    None,
    MaxNow, MaxRecords

VARIABLES
    parser, text,   \* of the source: which parser, and how it gives times
    page,           \* the records of the feed
    published,      \* how many there were
    now,
    stored,         \* stored[u]: the time stored with link u, with what it should be; None
    since           \* history: how many records came since the last poll, and their links

vars == <<parser, text, page, published, now, stored, since>>

Texts == {"full", "clock", "day"}
Year == SlotsPerDay * DaysPerYear

Init ==
    /\ parser \in {"skip", "slice", "select"}
    /\ text \in Texts
    /\ page = <<>> /\ since = [count |-> 0, urls |-> {}] /\ published = 0
    /\ now = 2 * Year
    /\ stored = [u \in Urls |-> None]

-----------------------------------------------------------------------------
(* Records, by their places on the page. *)

Take(places, k) == {i \in places : Cardinality({j \in places : j < i}) < k}
WellFormed(places) == {i \in places : page[i].ok}

\* seen_urls: a link counts once.
FirstOfEach(places) == {i \in places : \A j \in places : page[j].url = page[i].url => i <= j}

\* RSS and Atom, anchor lists, zhipu, cls: read on until there are enough items.
ParseSkipping(places) == Take(FirstOfEach(WellFormed(places)), Limit)

\* wallstreetcn, the news API: the first records, whatever they are.
ParseSliced(places) == WellFormed(Take(places, Limit))

\* Selectors: the first entries, a link once.
ParseSelector(places) == FirstOfEach(WellFormed(Take(places, Limit)))

\* A malformed record costs itself only, never the page.
Items ==
    CASE parser = "skip" -> ParseSkipping(DOMAIN page)
      [] parser = "slice" -> ParseSliced(DOMAIN page)
      [] parser = "select" -> ParseSelector(DOMAIN page)

-----------------------------------------------------------------------------
(* Times. *)

Day(t) == t \div SlotsPerDay
Clock(t) == t % SlotsPerDay

\* Mutation of ParseClock: a bare clock is of today.
ParseClockToday(clock) == Day(now) * SlotsPerDay + clock

\* A bare clock is of today, unless that is too far ahead: then of yesterday.
ParseClock(clock) ==
    LET today == Day(now) * SlotsPerDay + clock
    IN  IF today - now > Tolerance THEN today - SlotsPerDay ELSE today

\* A day without its year is of this year, unless more than a day ahead.
ParseMonthDay(day, clock) ==
    LET thisYear == (now \div Year) * Year + day * SlotsPerDay + clock
    IN  IF thisYear - now <= SlotsPerDay THEN thisYear ELSE thisYear - Year

ParsedTime(r) ==
    CASE text = "full" -> r.at
      [] text = "clock" -> ParseClock(Clock(r.at))
      [] text = "day" -> ParseMonthDay(Day(r.at) % DaysPerYear, Clock(r.at))

-----------------------------------------------------------------------------
\* A record on top of the page; the last one may go.
OnTop(r) ==
    [i \in 1..(IF Len(page) < PageLength THEN Len(page) + 1 ELSE PageLength) |->
        IF i = 1 THEN r ELSE page[i - 1]]

\* The publisher puts a record on top, perhaps dated a little ahead.
Publish ==
    /\ published < MaxRecords
    /\ \E u \in Urls \union {None}, ahead \in IF text = "full" THEN {0} ELSE {0, Tolerance} :
         /\ page' = OnTop([url |-> u, ok |-> u # None, at |-> now + ahead])
         /\ since' = [count |-> since.count + 1, urls |-> since.urls \union ({u} \ {None})]
    /\ published' = published + 1
    /\ UNCHANGED <<parser, text, now, stored>>

Tick ==
    /\ now < MaxNow
    /\ now' = now + 1
    /\ UNCHANGED <<parser, text, page, published, stored, since>>

ItemsOf(u) == {i \in Items : page[i].url = u}
FirstItemOf(u) == CHOOSE i \in ItemsOf(u) : \A j \in ItemsOf(u) : i <= j

\* A fetch that succeeds: links not stored yet are stored, the first of a link
\* if the page repeats it.
Poll ==
    /\ stored' = [u \in Urls |->
                    IF stored[u] # None \/ ItemsOf(u) = {} THEN stored[u]
                    ELSE LET r == page[FirstItemOf(u)]
                         IN  [at |-> ParsedTime(r), truth |-> r.at, polled |-> now]]
    /\ since' = [count |-> 0, urls |-> {}]
    /\ UNCHANGED <<parser, text, page, published, now>>

Next == Publish \/ Tick \/ Poll

Spec == Init /\ [][Next]_vars

-----------------------------------------------------------------------------
Records == [url : Urls \union {None}, ok : BOOLEAN, at : Nat]
Times == [at : Int, truth : Nat, polled : Nat]

TypeOK ==
    /\ parser \in {"skip", "slice", "select"} /\ text \in Texts
    /\ now \in Nat /\ page \in Seq(Records) /\ Len(page) <= PageLength
    /\ since.count \in Nat /\ since.urls \subseteq Urls
    /\ stored \in [Urls -> {None} \union Times]

\* A clock is understood if the record is younger than a day less the tolerance
\* and not dated on the next day; a day without year if it is younger than a year
\* less a day and not dated in the next year.
Understood(s) ==
    CASE text = "full" -> TRUE
      [] text = "clock" -> /\ s.polled - s.truth < SlotsPerDay - Tolerance
                           /\ Day(s.truth) <= Day(s.polled)
      [] text = "day" -> /\ s.polled - s.truth < Year - SlotsPerDay
                         /\ s.truth \div Year <= s.polled \div Year

\* Times are right when they can be, and never further ahead than the texts allow.
TimesAreRight ==
    \A u \in Urls : stored[u] # None =>
        /\ Understood(stored[u]) => stored[u].at = stored[u].truth
        /\ stored[u].at <= stored[u].polled + SlotsPerDay
        /\ text = "clock" => stored[u].at <= stored[u].polled + Tolerance

\* Nothing is missed while no more records appear between two polls than the
\* parser reads: malformed and repeated ones count.
NothingMissed ==
    since'.count < since.count /\ since.count <= Limit /\ since.count <= PageLength =>
        \A u \in since.urls : stored'[u] # None

SoundStep == TypeOK' /\ NothingMissed /\ TimesAreRight'
FeedsAreRead == [][SoundStep]_vars
=============================================================================
