------------------------------ MODULE MarketCaches ------------------------------
(***************************************************************************)
(* Three caches in front of what is fetched for a page: the boards of an   *)
(* industry (services/board_provider.py), the fund flow of a share         *)
(* (services/fund_flow_service.py) and its candles                         *)
(* (services/market_chart_service.py).  Each looks into its cache, asks    *)
(* the upstream without a lock and stores what it got, so several requests *)
(* ask at once; they differ in what a failure does.                        *)
(*                                                                         *)
(* The data of an answer are the time at which the upstream gave them.     *)
(***************************************************************************)
EXTENDS Naturals, FiniteSets

CONSTANTS
    Requests,
    BoardTtl, FlowTtl, FailureTtl, CandleTtl,
    Timeout,       \* of the upstream
    Sources,       \* of the candles: Tencent is one of them for the shares it knows
    None,
    MaxNow, MaxRestarts, MaxFetches

VARIABLES
    now,
    boards,        \* None, or [data, at]: at is when the request began
    flow,          \* None, or [data, until]: data None for a failure
    redis, memory, \* of the candles: None, or [data, until]
    reachable,     \* Redis
    request,       \* request[r]: None, or what it asks for, since when, what was cached
    answer,        \* the last answer
    fetches, restarts,
    loaded         \* history: the boards were fetched since the start

vars == <<now, boards, flow, redis, memory, reachable, request, answer, fetches, restarts, loaded>>

NoAnswer == [of |-> "none"]

BoardEntries == [data : Nat, at : Nat]
FlowEntries == [data : {None} \union Nat, until : Nat]
CandleEntries == [data : Nat, until : Nat]
Asked == [of : {"boards", "flow", "candles"}, at : Nat, cached : {None} \union BoardEntries,
          loaded : BOOLEAN]

Init ==
    /\ now = 0 /\ boards = None /\ flow = None
    /\ redis = None /\ memory = None /\ reachable \in BOOLEAN
    /\ request = [r \in Requests |-> None]
    /\ answer = NoAnswer /\ fetches = 0 /\ restarts = 0 /\ loaded = FALSE

-----------------------------------------------------------------------------
Answers(of, data, stale) == answer' = [of |-> of, data |-> data, stale |-> stale]

Fetches(r, of, cached) ==
    /\ fetches < MaxFetches
    /\ fetches' = fetches + 1
    /\ request' = [request EXCEPT ![r] = [of |-> of, at |-> now, cached |-> cached, loaded |-> loaded]]

\* get_cached_industry_boards
AskBoards(r) ==
    /\ IF boards # None /\ now - boards.at < BoardTtl
       THEN Answers("boards", boards.data, FALSE) /\ UNCHANGED <<request, fetches>>
       ELSE Fetches(r, "boards", boards) /\ UNCHANGED answer
    /\ UNCHANGED <<boards, flow, redis, memory, loaded>>

\* get_fund_flow
AskFlow(r) ==
    /\ IF flow # None /\ now < flow.until
       THEN Answers("flow", flow.data, FALSE) /\ UNCHANGED <<request, fetches>>
       ELSE Fetches(r, "flow", None) /\ UNCHANGED answer
    /\ UNCHANGED <<boards, flow, redis, memory, loaded>>

\* _get_cache: Redis drops what is too old, the process keeps it for a failure.
CandlesFrom(old) ==
    IF reachable /\ redis # None THEN redis
    ELSE IF memory # None /\ (old \/ now <= memory.until) THEN memory ELSE None

\* get_kline
AskCandles(r) ==
    /\ LET cached == CandlesFrom(FALSE)
       IN  IF cached # None
           THEN Answers("candles", cached.data, FALSE) /\ UNCHANGED <<request, fetches>>
           ELSE Fetches(r, "candles", None) /\ UNCHANGED answer
    /\ UNCHANGED <<boards, flow, redis, memory, loaded>>

Ask(r) ==
    /\ request[r] = None
    /\ AskBoards(r) \/ AskFlow(r) \/ AskCandles(r)
    /\ UNCHANGED <<now, reachable, restarts>>

-----------------------------------------------------------------------------
Asks(r, of) == request[r] # None /\ request[r].of = of

\* Mutation of StoredBoards: a failure is stored, too.
StoredBoardsAlways(r, data) == [data |-> data, at |-> request[r].at]

StoredBoards(r, data) == IF data = None THEN boards ELSE [data |-> data, at |-> request[r].at]

BoardsArrive(r) ==
    /\ Asks(r, "boards")
    /\ \E ok \in BOOLEAN :
         /\ boards' = StoredBoards(r, IF ok THEN now ELSE None)
         /\ loaded' = (loaded \/ ok)
         /\ IF ok THEN Answers("boards", now, FALSE)
            ELSE IF request[r].cached # None THEN Answers("boards", request[r].cached.data, TRUE)
            ELSE Answers("boards", None, FALSE)
    /\ UNCHANGED <<flow, redis, memory>>

\* The time to live counts from the beginning of the request.
FlowArrives(r) ==
    /\ Asks(r, "flow")
    /\ \E ok \in BOOLEAN :
         /\ flow' = [data |-> IF ok THEN now ELSE None,
                     until |-> request[r].at + IF ok THEN FlowTtl ELSE FailureTtl]
         /\ Answers("flow", flow'.data, FALSE)
    /\ UNCHANGED <<boards, redis, memory, loaded>>

\* _build_kline_payload, of the first source that has any candles; Tencent comes before
\* Yahoo.
Built == [data |-> now, until |-> now + CandleTtl]

\* _set_cache
SetCandles(built) ==
    /\ memory' = built
    /\ redis' = IF reachable THEN built ELSE redis

CandlesArrive(r) ==
    /\ Asks(r, "candles")
    /\ \E answering \in SUBSET Sources :
         LET stale == CandlesFrom(TRUE)
         IN  IF answering # {}
             THEN SetCandles(Built) /\ Answers("candles", now, FALSE)
             ELSE /\ UNCHANGED <<memory, redis>>
                  /\ Answers("candles", IF stale # None THEN stale.data ELSE None, TRUE)
    /\ UNCHANGED <<boards, flow, loaded>>

Arrive(r) ==
    /\ BoardsArrive(r) \/ FlowArrives(r) \/ CandlesArrive(r)
    /\ request' = [request EXCEPT ![r] = None]
    /\ UNCHANGED <<now, reachable, fetches, restarts>>

-----------------------------------------------------------------------------
Tick ==
    /\ now < MaxNow
    /\ \A r \in Requests : request[r] # None => now - request[r].at < Timeout
    /\ now' = now + 1
    /\ redis' = IF redis # None /\ redis.until <= now + 1 THEN None ELSE redis
    /\ UNCHANGED <<boards, flow, memory, reachable, request, answer, fetches, restarts, loaded>>

RedisFlips ==
    /\ reachable' = ~reachable
    /\ UNCHANGED <<now, boards, flow, redis, memory, request, answer, fetches, restarts, loaded>>

\* What the process kept is lost.
Restart ==
    /\ restarts < MaxRestarts
    /\ restarts' = restarts + 1
    /\ boards' = None /\ flow' = None /\ memory' = None
    /\ request' = [r \in Requests |-> None]
    /\ answer' = NoAnswer /\ loaded' = FALSE
    /\ UNCHANGED <<now, redis, reachable, fetches>>

Next ==
    \/ \E r \in Requests : Ask(r) \/ Arrive(r)
    \/ Tick \/ RedisFlips \/ Restart

Spec == Init /\ [][Next]_vars

-----------------------------------------------------------------------------
TypeOK ==
    /\ now \in Nat /\ boards \in {None} \union BoardEntries
    /\ flow \in {None} \union FlowEntries
    /\ redis \in {None} \union CandleEntries /\ memory \in {None} \union CandleEntries
    /\ request \in [Requests -> {None} \union Asked]
    /\ loaded \in BOOLEAN /\ (loaded <=> boards # None)
    /\ redis # None => redis.until > now
    /\ flow # None => flow.until <= now + FlowTtl
    /\ \A r \in Requests : request[r] # None => now - request[r].at <= Timeout

Age == now - answer'.data

\* What is answered and not called stale is no older than its time to live.  Boards
\* that were fetched once are never answered as missing to a request begun later, and
\* candles only while the process has none.  Stale data mean that the upstream failed.
\* A failed fund flow is answered for its own time to live at most, though another
\* request may have been luckier.
SoundStep ==
    /\ TypeOK'
    /\ answer' # answer /\ answer'.of # "none" =>
         CASE answer'.of = "boards" ->
                /\ answer'.data # None /\ ~answer'.stale => Age < BoardTtl
                /\ answer'.data = None => \E r \in Requests : Asks(r, "boards") /\ ~request[r].loaded
           [] answer'.of = "flow" ->
                /\ answer'.data # None => Age < FlowTtl
                /\ answer'.data = None => flow'.data = None /\ flow'.until <= now + FailureTtl
           [] answer'.of = "candles" ->
                /\ answer'.data # None /\ ~answer'.stale => Age <= CandleTtl
                /\ answer'.data = None => memory = None /\ answer'.stale
                /\ answer'.stale => request' # request

CachesAreHonest == [][SoundStep]_vars

=============================================================================
