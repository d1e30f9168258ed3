----------------------------- MODULE MarketSentiment -----------------------------
(***************************************************************************)
(* The mood of a market (compute_market_sentiment in                       *)
(* services/market_sentiment_service.py): the mean change of its indices,  *)
(* the VIX and the share of stocks that rise, weighted; what is missing    *)
(* leaves its weight to the others.  The stocks are counted in the boards  *)
(* of an industry, of which services/board_provider.py takes the first,    *)
(* best change first.                                                      *)
(*                                                                         *)
(* Changes are in eighths of a percent, scores in parts of Scale.          *)
(***************************************************************************)
EXTENDS Integers, FiniteSets

CONSTANTS
    Indices,
    Changes,      \* of an index: even numbers
    Volatilities, \* values of the VIX
    Boards,       \* numbers; of ten stocks each
    Quotes,       \* of a board: [change, up], the stocks that rise
    Limit,        \* of the boards that are taken
    None

VARIABLES
    change,       \* change[i]: None if it is missing
    vix,          \* None, or a value
    board         \* None, or board[b]: its quote

vars == <<change, vix, board>>

Scale == 8400
Total(f, S) ==
    LET sum[T \in SUBSET S] == IF T = {} THEN 0 ELSE LET x == CHOOSE x \in T : TRUE
                                                    IN  f[x] + sum[T \ {x}]
    IN  sum[S]

-----------------------------------------------------------------------------
\* _lerp, where it is a whole number
Lerp(x, x0, y0, x1, y1) == y0 + ((x - x0) * (y1 - y0)) \div (x1 - x0)

Half == Scale \div 2

\* Mutation of MomentumScore: a step between two pieces goes the wrong way.
MomentumScoreUneven(x) ==
    IF x <= -16 THEN -Scale ELSE IF x >= 16 THEN Scale
    ELSE IF x < -4 THEN Lerp(x, -16, -Scale, -4, -Half)
    ELSE IF x <= 4 THEN Lerp(x, -4, -Half, 4, Half)
    ELSE Lerp(x, 4, 0, 16, Half)

MomentumScore(x) ==
    IF x <= -16 THEN -Scale ELSE IF x >= 16 THEN Scale
    ELSE IF x < -4 THEN Lerp(x, -16, -Scale, -4, -Half)
    ELSE IF x <= 4 THEN Lerp(x, -4, -Half, 4, 0)
    ELSE Lerp(x, 4, 0, 16, Half)

VixScore(v) ==
    IF v >= 30 THEN -Scale ELSE IF v < 13 THEN Half
    ELSE IF v < 20 THEN Lerp(v, 13, Half, 20, 0)
    ELSE Lerp(v, 20, 0, 30, -Half)

\* Of up stocks among all.
AdvanceScore(up, all) ==
    IF 10 * up <= 3 * all THEN -Half ELSE IF 10 * up >= 7 * all THEN Half
    ELSE Lerp(10 * up, 3 * all, -Half, 7 * all, Half)

-----------------------------------------------------------------------------
\* The first Limit boards by change; the upstream orders equal ones by code.
Before(c, b) ==
    \/ board[c].change > board[b].change
    \/ board[c].change = board[b].change /\ c < b
Taken == {b \in Boards : Cardinality({c \in Boards : Before(c, b)}) < Limit}

Known == {i \in Indices : change[i] # None}
AverageChange == Total(change, Known) \div Cardinality(Known)

Advance(S) == AdvanceScore(Total([b \in Boards |-> board[b].up], S), 10 * Cardinality(S))

HasIndices == Known # {}
HasVix == vix # None
HasBoards == board # None

\* The weights of the inputs that are there, and their weighted scores.
Weight ==
    (IF HasIndices THEN 60 ELSE 0) + (IF HasVix THEN 25 ELSE 0) + (IF HasBoards THEN 15 ELSE 0)
Sum ==
    (IF HasIndices THEN 60 * MomentumScore(AverageChange) ELSE 0)
    + (IF HasVix THEN 25 * VixScore(vix) ELSE 0)
    + (IF HasBoards THEN 15 * Advance(Taken) ELSE 0)

\* Places of the labels: unknown, panic, fear, neutral, greed, greed_extreme.
Label ==
    LET score == 5 * Sum
        unit == Scale * Weight
    IN  IF unit = 0 THEN 0
        ELSE IF score <= -3 * unit THEN 1
        ELSE IF score <= -unit THEN 2
        ELSE IF score <= unit THEN 3
        ELSE IF score <= 3 * unit THEN 4 ELSE 5

-----------------------------------------------------------------------------
Init ==
    /\ change = [i \in Indices |-> None] /\ vix = None /\ board = None

\* A refresh stores what it could fetch; an entry may be disabled.
QuoteIndex ==
    /\ \E i \in Indices, x \in Changes \union {None} : change' = [change EXCEPT ![i] = x]
    /\ UNCHANGED <<vix, board>>

QuoteVix ==
    /\ vix' \in Volatilities \union {None}
    /\ UNCHANGED <<change, board>>

\* fetch_industry_boards, or nothing is cached and the fetch fails
QuoteBoards ==
    /\ IF board = None THEN board' \in [Boards -> Quotes]
       ELSE \/ board' = None
            \/ \E b \in Boards, q \in Quotes : board' = [board EXCEPT ![b] = q]
    /\ UNCHANGED <<change, vix>>

Next == QuoteIndex \/ QuoteVix \/ QuoteBoards

Spec == Init /\ [][Next]_vars

-----------------------------------------------------------------------------
TypeOK ==
    /\ change \in [Indices -> Changes \union {None}]
    /\ vix \in Volatilities \union {None}
    /\ board # None => Cardinality(Taken) = Limit

Better ==
    /\ Known' = Known /\ \A i \in Known : change'[i] >= change[i]
    /\ HasVix' = HasVix /\ (HasVix => vix' <= vix)
    /\ HasBoards' = HasBoards
    /\ HasBoards => \A b \in Boards : /\ board'[b].change = board[b].change
                                     /\ board'[b].up >= board[b].up

\* Good news never makes a market look worse, at no place of the pieces: as long as the
\* same inputs are there, a better one does not lower the label.  When the VIX is lost,
\* the label moves away from what the VIX said, as its weight goes to the other inputs.
\* A market is unknown only if nothing is known of it.
SoundStep ==
    /\ TypeOK'
    /\ Better /\ Label # 0 => Label' >= Label
    /\ HasVix /\ ~HasVix' /\ Weight' > 0 =>
         /\ VixScore(vix) * Weight <= Sum => Label' >= Label
         /\ VixScore(vix) * Weight >= Sum => Label' <= Label
    /\ Label' = 0 <=> ~HasIndices' /\ ~HasVix' /\ ~HasBoards'

MoodFollowsMarket == [][SoundStep]_vars
=============================================================================
