------------------------------ MODULE Gatekeeper ------------------------------
(***************************************************************************)
(* The decision functions between a provider's answer and a trade: which   *)
(* candidate a reflection verdict leaves, and what the validators of       *)
(* LLMEvaluationResponse make of it.  Probabilities, prices and the        *)
(* confidence are whole percents, the position is in basis points.         *)
(***************************************************************************)
EXTENDS Integers

MIN_CONFIDENCE   == 75    \* percent
MAX_SPREAD_PCT   == 15    \* per mille of the ask
MAX_EXPOSURE_PCT == 300   \* basis points of the bankroll
MIN_EV_THRESHOLD == 2     \* percent
MIN_TTR_HOURS    == 4
KELLY_FRACTION   == 4     \* the divisor

(* What the model says: its decision, the action it names, its confidence, *)
(* its probability, the hours to resolution (a market without an end date  *)
(* passes as one that ends late) and the flag of asymmetric information.   *)
NoEnd == 10000
Candidates ==
    [decision : BOOLEAN, action : {"BUY", "SELL", "HOLD"}, confidence : 0 .. 100,
     pTrue : 1 .. 99, ttr : Int, asymmetry : BOOLEAN,
     schema : BOOLEAN]     \* the JSON has the fields the schema requires

(* The levels of an order book's sides, prices in percents, and what is    *)
(* left of them: MarketSnapshot, whose midpoint is half of bid + ask.      *)
Books      == [bids : SUBSET (0 .. 100), asks : SUBSET (0 .. 100)]
Snapshots  == [bid : 1 .. 100, ask : 1 .. 100]
NoSnapshot == [bid |-> 0, ask |-> 0]

(* _parse_order_book(): the best positive level of each side, wherever it  *)
(* stands in the answer.                                                   *)
ParseOrderBook(book) ==
    LET bids == {p \in book.bids : p > 0}
        asks == {p \in book.asks : p > 0}
        bid  == CHOOSE p \in bids : \A q \in bids : q <= p
        ask  == CHOOSE p \in asks : \A q \in asks : q >= p IN
    IF bids = {} \/ asks = {} THEN NoSnapshot
    ELSE IF ask < bid THEN NoSnapshot
    ELSE [bid |-> bid, ask |-> ask]

-------------------------------------------------------------------------------
(* The reflection auditor's response: how severe its flags are, and the    *)
(* corrected candidate, if any.  "infra" is a REJECTED that                *)
(* _run_reflection_audit() wrote itself with a marker in its note.         *)
Flags == {"hard", "soft", "none", "infra"}

(* Mutant: a rejection without flags counts as advisory. *)
SeverityLax(flags) == IF flags \in {"hard", "infra"} THEN "HARD" ELSE "SOFT"

(* _classify_reflection_severity() *)
Severity(flags) ==
    CASE flags \in {"hard", "infra"} -> "HARD"
      [] flags = "soft" -> "SOFT"
      [] OTHER -> "NONE"

(* _build_hold_candidate() *)
HoldCandidate(c) ==
    [c EXCEPT !.decision = FALSE, !.action = "HOLD", !.confidence = 0]

(* _build_confidence_penalized_candidate(), factor in percent. *)
PenalizedCandidate(c, factor) ==
    LET penalized == (c.confidence * factor) \div 100 IN
    [c EXCEPT !.confidence = IF penalized > 100 THEN 100 ELSE penalized]

(* _apply_reflection_verdict() *)
Verdicted(c, verdict, flags, corrected, factor) ==
    CASE verdict = "APPROVED" -> c
      [] verdict = "ADJUSTED" -> corrected
      [] verdict = "REJECTED" /\ Severity(flags) = "SOFT" -> PenalizedCandidate(c, factor)
      [] OTHER -> HoldCandidate(c)

-------------------------------------------------------------------------------
(* expected_value = (p - k) / k and kelly = (p - k) / (1 - k), where k is   *)
(* the snapshot's midpoint, not what the model echoed for p_market.        *)
TwoMid(s) == s.bid + s.ask
EvNonPositive(c, s) == 2 * c.pTrue <= TwoMid(s)
EvBelowMinimum(c, s) == 100 * (2 * c.pTrue - TwoMid(s)) < MIN_EV_THRESHOLD * TwoMid(s)
SpreadTooWide(s) == 1000 * (s.ask - s.bid) > MAX_SPREAD_PCT * s.ask
TooLate(c) == c.ttr < MIN_TTR_HOURS

TriggeredFilter(c, s) ==
    IF      EvNonPositive(c, s)           THEN "EV_NON_POSITIVE"
    ELSE IF EvBelowMinimum(c, s)          THEN "MIN_EV_THRESHOLD"
    ELSE IF c.confidence < MIN_CONFIDENCE THEN "MIN_CONFIDENCE"
    ELSE IF SpreadTooWide(s)              THEN "MAX_SPREAD"
    ELSE IF TooLate(c)                    THEN "MIN_TIME_TO_RESOLUTION"
    ELSE    "none"

KellyQuarter(c, s) ==
    LET quarter == (10000 * (2 * c.pTrue - TwoMid(s))) \div (KELLY_FRACTION * (200 - TwoMid(s))) IN
    IF c.asymmetry THEN quarter \div 2 ELSE quarter

(* _apply_gatekeeper_filters() *)
PositionSize(c, s) ==
    IF TriggeredFilter(c, s) # "none" THEN 0
    ELSE IF KellyQuarter(c, s) > MAX_EXPOSURE_PCT THEN MAX_EXPOSURE_PCT
    ELSE KellyQuarter(c, s)

(* _enforce_decision_override(): what does not pass is a HOLD; what passes *)
(* keeps the model's own decision and action.                              *)
Overridden(c, s) ==
    IF TriggeredFilter(c, s) # "none" \/ PositionSize(c, s) = 0
    THEN [decision |-> FALSE, action |-> "HOLD", size |-> 0]
    ELSE [decision |-> c.decision, action |-> c.action, size |-> PositionSize(c, s)]

(* _validate_final_consistency(), whose assertions end the validation.     *)
Consistent(r) ==
    /\ ~(r.decision /\ r.action = "HOLD")
    /\ ~(~r.decision /\ r.size > 0)

(* MarketContext: prices strictly between 0 and 1, ask not below bid. *)
WellFormed(s) == s.bid <= s.ask /\ s.ask < 100

(* model_validate_json(): no ValidationError. *)
Validates(c, s) == c.schema /\ WellFormed(s) /\ Consistent(Overridden(c, s))
===============================================================================
