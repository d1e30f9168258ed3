----------------------------- MODULE RelevanceGate -----------------------------
(***************************************************************************)
(* Which items of a feed are stored (evaluate_ingest_relevance_gate of     *)
(* services/news_priority.py): those of official sources, those that name  *)
(* listed companies, and those whose text has a signal of the market       *)
(* (services/news_relevance_evaluator.py).                                 *)
(*                                                                         *)
(* A text is the kinds of terms that occur in its title and in its body.   *)
(* The rules are tried in order and the first that applies is the reason;  *)
(* an item with a weak reason is refused.  A story grows while it is       *)
(* written: what must hold is how a longer text compares to a shorter one. *)
(***************************************************************************)
EXTENDS Naturals, Sequences, FiniteSets

CONSTANT MaxTerms

VARIABLES
    source,   \* "official", "stocks" (the publisher lists companies) or "plain"
    title, body

vars == <<source, title, body>>

\* Signals, alone or in pairs, of the rules below.
Single == {"term", "phrase", "chinese", "acronym"}
Paired == {"route", "disruption", "geopolitics", "carrier", "status", "taiwan", "arms",
           "iran", "military", "warpowers"}
Aliases == {"alias", "usAlias", "usContext"}
Weak == {"sector", "low", "trigger", "concept", "move"}
Others == {"recall", "envoy", "noise", "tech", "digest"}
Terms == Single \union Paired \union Aliases \union Weak \union Others

Text == title \union body

\* A digest of the day's news mentions the market in its body, whatever it is about.
AliasText == IF "digest" \in title THEN title ELSE Text

BroadMarketAlias == "alias" \in AliasText \/ {"usAlias", "usContext"} \subseteq AliasText

\* An ambassador may be recalled, too.
ProductRecall == "recall" \in Text /\ "envoy" \notin Text

ChineseMarketSignal == BroadMarketAlias \/ "chinese" \in Text \/ ProductRecall

GeoEnergyShipping == {"geopolitics", "carrier"} \subseteq Text
ShippingStatusChange == {"status", "carrier"} \subseteq Text
IranWarPowers == {"iran", "military", "warpowers"} \subseteq Text
ConceptMover == {"concept", "move"} \subseteq Text

\* The terms of low confidence are triggers of a sector, too.
SectorTerm == {"sector", "low"} \subseteq Text
SectorSignal == "sector" \in Text /\ Text \intersect {"trigger", "low"} # {}

\* predict_market_relevance_details: the reasons, by the rules that give them.
Applies(reason) ==
    CASE reason = "market_signal_term" -> "term" \in Text
      [] reason = "sector_signal_term" -> SectorTerm
      [] reason = "market_signal_phrase" -> "phrase" \in Text
      [] reason = "chinese_market_phrase" -> ChineseMarketSignal
      [] reason = "macro_acronym" -> "acronym" \in Text
      [] reason = "shipping_disruption" -> {"route", "disruption"} \subseteq Text
      [] reason = "geo_energy_shipping" -> GeoEnergyShipping
      [] reason = "shipping_status_change" -> ShippingStatusChange
      [] reason = "taiwan_arms_sale" -> {"taiwan", "arms"} \subseteq Text
      [] reason = "iran_war_powers" -> IranWarPowers
      [] reason = "sector_signal" -> SectorSignal
      [] reason = "chinese_noise" -> "noise" \in Text
      [] reason = "concept_mover" -> ConceptMover
      [] reason = "generic_tech" -> "tech" \in Text
      [] reason = "none" -> TRUE

\* Mutation of Order: noise is looked for first.
OrderNoiseFirst == <<
    "chinese_noise", "market_signal_term", "sector_signal_term", "market_signal_phrase",
    "chinese_market_phrase", "macro_acronym", "shipping_disruption", "geo_energy_shipping",
    "shipping_status_change", "taiwan_arms_sale", "iran_war_powers", "sector_signal",
    "concept_mover", "generic_tech", "none" >>

\* The order in which the rules are tried.
Order == <<
    "market_signal_term", "sector_signal_term", "market_signal_phrase",
    "chinese_market_phrase", "macro_acronym", "shipping_disruption", "geo_energy_shipping",
    "shipping_status_change", "taiwan_arms_sale", "iran_war_powers", "sector_signal",
    "chinese_noise", "concept_mover", "generic_tech", "none" >>

\* The first that applies.
Reason ==
    LET k == CHOOSE i \in DOMAIN Order : Applies(Order[i]) /\ \A j \in 1..(i - 1) : ~Applies(Order[j])
    IN  Order[k]

Irrelevant == {"chinese_noise", "generic_tech", "none"}
WeakReasons == {"concept_mover", "sector_signal_term"}

Passes == source \in {"official", "stocks"} \/ Reason \notin Irrelevant \union WeakReasons

-----------------------------------------------------------------------------
Init ==
    /\ source \in {"official", "stocks", "plain"}
    /\ title = {} /\ body = {}

\* The next version of a story says more.
Add(t) ==
    /\ Cardinality(title) + Cardinality(body) < MaxTerms
    /\ t \notin Text
    /\ \/ title' = title \union {t} /\ UNCHANGED body
       \/ body' = body \union {t} /\ UNCHANGED title
    /\ UNCHANGED source

Next == \E t \in Terms : Add(t)

Spec == Init /\ [][Next]_vars

-----------------------------------------------------------------------------
TypeOK ==
    /\ source \in {"official", "stocks", "plain"}
    /\ title \subseteq Terms /\ body \subseteq Terms /\ title \intersect body = {}
    /\ Cardinality(Text) <= MaxTerms

Said(t) == t \in Text' \ Text

\* Parts that make no signal together: what happens without what it happens to, and
\* the other way round.
Halves == {{"geopolitics", "status", "route", "taiwan", "iran", "military"},
           {"carrier", "disruption", "arms", "warpowers", "iran"}}

\* What was relevant stays so when more is said: noise least of all may turn it down.
\* Only what gives another word its meaning may (a digest, an ambassador), and a weak
\* signal of a sector, which hides the stronger rules behind it.  And half a signal is
\* none, however often.
SoundStep ==
    /\ TypeOK'
    /\ Passes /\ ~Passes' => \E t \in {"digest", "envoy", "sector", "low"} : Said(t)
    /\ \A half \in Halves : source = "plain" /\ Text \subseteq half => ~Passes

MoreIsNotLess == [][SoundStep]_vars
=============================================================================
