----------------------------- MODULE QuoteAlerts -----------------------------
(***************************************************************************)
(* Quotes of a held stock: the producer and the manual refresh fetch them  *)
(* (network first, then one short write), readers show the latest row, and *)
(* every refresh is checked for a price alert (app/services/               *)
(* quote_service.py, market_quote_producer.py, market_hours.py,            *)
(* alert_service.py on_quotes, alert_repository.py).                       *)
(*                                                                         *)
(* The clock counts slots of SlotsPerDay a day in the user's time zone. A  *)
(* quote is a price and whether it is beyond the alert threshold.          *)
(***************************************************************************)
EXTENDS QuietHours, FiniteSets

CONSTANTS
    MaxClock,      \* bound: end of time
    MaxRestarts,   \* bound: restarts of the process
    OpenSlots,     \* OpenSlots[m]: slots in which the market of m trades
    DateShift,     \* DateShift[m]: offset of the market's date to the user's
    TradingDays,   \* market dates on which exchanges trade; the rest are holidays
    ForceWindow,   \* market_quote_force_min_interval, in slots
    Prices, BigPrices,   \* quotes told apart, and those beyond price_move_percent
    None

Markets == DOMAIN OpenSlots
\* the producer and one request: a manual refresh or an on-demand read
Callers == {"producer", "request"}

VARIABLES
    clock, restarts,
    market,     \* the market of the stock
    real,       \* the quote the exchange shows now
    lagging,    \* what the second source shows: the close of the day before
    snapshot,   \* the latest row of price_snapshot, or None
    pc, seen,   \* a refresh: its step, and the quotes it hands on
    first,      \* _first_price: date and price first seen that day, or None
    live,       \* _live_days
    alerts      \* alert rows of kind holding_price_move

\* a quote and when it was fetched: what is fetched, and a row of price_snapshot
Rows == [price : Prices, at : Nat]

vars == <<clock, restarts, market, real, lagging, snapshot, pc, seen, first, live, alerts>>
memory == <<first, live>>
world == <<clock, restarts, market, real, lagging>>

-----------------------------------------------------------------------------
\* Mutation of MarketDate: the date of the user's time zone.
LocalDate(c) == c \div SlotsPerDay

\* _market_date: the date in the market's own time zone
MarketDate(c) == (c + DateShift[market]) \div SlotsPerDay

\* is_market_open knows the hours and the weekends, not the holidays
MarketOpen(c) == Slot(c) \in OpenSlots[market]

\* _is_fresh with the window of a forced refresh
Fresh == snapshot # None /\ clock - snapshot.at <= ForceWindow

\* what a refresh hands on to the alerts when its fetch fails: the cached price
Cached == IF snapshot = None THEN None ELSE snapshot.price

\* a refresh reads the latest row and fetches unless it is fresh (refresh_watchlist_quotes)
Begin(t) ==
    /\ pc[t] = "idle"
    /\ pc' = [pc EXCEPT ![t] = IF Fresh THEN "quoted" ELSE "fetching"]
    /\ seen' = [seen EXCEPT ![t] = Cached]
    /\ UNCHANGED <<world, snapshot, memory, alerts>>

\* a reader fetches only when there is no row (get_cached_symbol_quote)
BeginRead ==
    /\ pc["request"] = "idle" /\ snapshot = None
    /\ pc' = [pc EXCEPT !["request"] = "reading"]
    /\ UNCHANGED <<world, snapshot, seen, memory, alerts>>

\* Tencent for "cn", Yahoo for "us"; when Tencent fails, Yahoo, whose daily bar
\* of a Chinese stock may still be the one of the day before
FirstSource == real
SecondSource == IF market = "cn" THEN lagging ELSE real
Answers == {FirstSource, SecondSource}

FetchOk(t) ==
    /\ pc[t] \in {"fetching", "reading"}
    /\ pc' = [pc EXCEPT ![t] = IF @ = "fetching" THEN "fetched" ELSE "read"]
    /\ \E q \in Answers : seen' = [seen EXCEPT ![t] = [price |-> q, at |-> clock]]
    /\ UNCHANGED <<world, snapshot, memory, alerts>>

\* a failed fetch hands on the cached row, marked delayed, or nothing
FetchFails(t) ==
    /\ pc[t] \in {"fetching", "reading"}
    /\ pc' = [pc EXCEPT ![t] = IF seen[t] = None THEN "idle" ELSE "quoted"]
    /\ UNCHANGED <<world, snapshot, seen, memory, alerts>>

\* MarketRepository: max(fetched_at), then the highest id
Latest(old, row) == IF old = None \/ row.at >= old.at THEN row ELSE old

Save(t) ==
    /\ pc[t] \in {"fetched", "read"}
    /\ snapshot' = Latest(snapshot, seen[t])
    /\ pc' = [pc EXCEPT ![t] = IF @ = "read" THEN "idle" ELSE "quoted"]
    /\ seen' = [seen EXCEPT ![t] = IF pc[t] = "read" THEN None ELSE @.price]
    /\ UNCHANGED <<world, memory, alerts>>

\* _observe_price: has the price changed since the first quote of the day?
Observe(price) ==
    LET d == MarketDate(clock) IN
    IF d \in live THEN UNCHANGED memory
    ELSE IF first = None \/ first.date # d
    THEN first' = [date |-> d, price |-> price] /\ live' = {}
    ELSE live' = (IF price # first.price THEN live \cup {d} ELSE live) /\ UNCHANGED first

DedupeKey(c) == MarketDate(c)
Exists(key) == \E a \in alerts : DedupeKey(a.at) = key

\* on_quotes up to the look for an alert of the same key
Check(t) ==
    /\ pc[t] = "quoted"
    /\ IF MarketOpen(clock) THEN Observe(seen[t]) ELSE UNCHANGED memory
    /\ IF /\ MarketOpen(clock) /\ MarketDate(clock) \in live'
          /\ seen[t] \in BigPrices /\ ~Exists(DedupeKey(clock))
       THEN pc' = [pc EXCEPT ![t] = "alerting"] /\ seen' = [seen EXCEPT ![t] = clock]
       ELSE pc' = [pc EXCEPT ![t] = "idle"] /\ seen' = [seen EXCEPT ![t] = None]
    /\ UNCHANGED <<world, snapshot, alerts>>

\* the unique key decides a race
Inserted(key) == ~Exists(key)

\* _create_price_alert and _publish, at the time on_quotes read at its start
Alert(t) ==
    LET at == seen[t] IN
    /\ pc[t] = "alerting"
    /\ alerts' = IF Inserted(DedupeKey(at))
                 THEN alerts \cup {[by |-> t, at |-> at, visible |-> VisibleAt(at), sent |-> ~Night(at)]}
                 ELSE alerts
    /\ pc' = [pc EXCEPT ![t] = "idle"]
    /\ seen' = [seen EXCEPT ![t] = None]
    /\ UNCHANGED <<world, snapshot, memory>>

\* the exchange trades on trading days while it is open
MarketMoves ==
    /\ MarketOpen(clock) /\ MarketDate(clock) \in TradingDays
    /\ real' \in Prices \ {real}
    /\ UNCHANGED <<clock, restarts, market, lagging, snapshot, pc, seen, memory, alerts>>

\* at the end of a session the second source still shows the close before it;
\* only the network and the wait for the write take time, and less than a slot
Tick ==
    /\ clock < MaxClock
    /\ \A t \in Callers : /\ pc[t] \notin {"quoted", "alerting"}
                          /\ pc[t] \in {"fetched", "read"} => seen[t].at = clock
    /\ clock' = clock + 1
    /\ lagging' = IF MarketOpen(clock) /\ ~MarketOpen(clock + 1) /\ market = "cn" THEN real ELSE lagging
    /\ UNCHANGED <<restarts, market, real, snapshot, pc, seen, memory, alerts>>

\* the process restarts: rows stay, memory goes
Restart ==
    /\ restarts < MaxRestarts
    /\ restarts' = restarts + 1
    /\ first' = None /\ live' = {}
    /\ pc' = [t \in Callers |-> "idle"] /\ seen' = [t \in Callers |-> None]
    /\ UNCHANGED <<clock, market, real, lagging, snapshot, alerts>>

\* no quote has been fetched yet; both sources show the same price
Init ==
    /\ clock = 0 /\ restarts = 0
    /\ market \in Markets
    /\ real \in Prices /\ lagging = real
    /\ snapshot = None
    /\ pc = [t \in Callers |-> "idle"] /\ seen = [t \in Callers |-> None]
    /\ first = None /\ live = {}
    /\ alerts = {}

Step(t) == Begin(t) \/ FetchOk(t) \/ FetchFails(t) \/ Save(t) \/ Check(t) \/ Alert(t)

Next == (\E t \in Callers : Step(t)) \/ BeginRead \/ MarketMoves \/ Tick \/ Restart

Spec == Init /\ [][Next]_vars

-----------------------------------------------------------------------------
\* What a caller holds at a step: the price it hands on, the quote it fetched, or the
\* time of the alert it makes.
Held(step) ==
    CASE step \in {"idle", "reading"} -> {None}
      [] step = "fetching" -> {None} \cup Prices
      [] step \in {"fetched", "read"} -> {row \in Rows : row.at <= clock}
      [] step = "quoted" -> Prices
      [] step = "alerting" -> 0..clock

TypeOK ==
    /\ clock \in 0..MaxClock /\ market \in Markets /\ real \in Prices /\ lagging \in Prices
    /\ snapshot # None => snapshot \in Rows /\ snapshot.at <= clock
    /\ pc \in [Callers -> {"idle", "fetching", "reading", "fetched", "read", "quoted", "alerting"}]
    /\ \A t \in Callers : seen[t] \in Held(pc[t])
    /\ alerts \subseteq [by : Callers, at : 0..clock, visible : Nat, sent : BOOLEAN]

\* What readers are shown never goes back to an earlier fetch, although two
\* refreshes and an on-demand read may save in another order than they fetched.
NeverOlder == snapshot # None => snapshot' # None /\ snapshot'.at >= snapshot.at

\* One alert for a trading session of the stock's own market, whichever
\* refreshes race, across restarts and across the user's midnight.
SameSession(c, d) ==
    \A e \in 0..MaxClock : (c <= e /\ e <= d) \/ (d <= e /\ e <= c) => MarketOpen(e)
OneAlertPerSession ==
    \A a, b \in alerts : SameSession(a.at, b.at) => a = b

\* An alert of the quiet hours appears at the first moment after them, one of
\* the day at once (_visibility), and exactly the latter are published.
QuietUntilMorning ==
    \A a \in alerts :
        /\ ~Night(a.visible) /\ a.visible >= a.at
        /\ \A c \in a.at..(a.visible - 1) : Night(c)
        /\ a.sent <=> a.visible = a.at

\* Quotes and the alerts on them are neither repeated nor out of their time.
SoundStep == TypeOK' /\ NeverOlder /\ OneAlertPerSession' /\ QuietUntilMorning'
QuotesAreSound == [][SoundStep]_vars
=============================================================================
