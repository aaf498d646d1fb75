--------------------------- MODULE CognitiveBreaker ---------------------------
(***************************************************************************)
(* MarketCognitiveCircuitBreaker: per market, how often in a row its       *)
(* evaluations led nowhere, and the cooldown that follows.  Its methods    *)
(* run under a lock without awaiting anything.                             *)
(***************************************************************************)
EXTENDS MarketClock

CONSTANTS
    HoldThreshold,     \* llm_repeated_hold_threshold
    InvalidThreshold,  \* llm_repeated_invalid_threshold
    Cooldown           \* llm_market_cooldown_seconds, in ticks

ASSUME BreakerAssumption ==
    /\ HoldThreshold \in Nat \ {0}
    /\ InvalidThreshold \in Nat \ {0}
    /\ Cooldown \in Nat

VARIABLE
    cognitive    \* _states; a market without an entry is as good as all zero

Actionable    == {"buy", "sell"}
NonActionable == {"hold", "skip", "low_confidence"}
Invalid       == {"invalid_json", "provider_error"}
Outcomes      == Actionable \cup NonActionable \cup Invalid

CognitiveStates == [idle : Nat,       \* consecutive_non_actionable
                    invalid : Nat,    \* consecutive_invalid
                    until : Times]   \* cooldown_active_until_utc

Fresh == [idle |-> 0, invalid |-> 0, until |-> Never]

CognitiveTypeOK == cognitive \in [Markets -> CognitiveStates]

CognitiveInit == cognitive = [m \in Markets |-> Fresh]

(* In cooldown; an entry whose time is over stays until somebody looks.    *)
InCooldown(m) == cognitive[m].until # Never /\ now < cognitive[m].until

(* check_cooldown(), when it answers that the market may be evaluated.     *)
PassCooldown(m) ==
    /\ ~InCooldown(m)
    /\ cognitive' = IF cognitive[m].until = Never
                    THEN cognitive
                    ELSE [cognitive EXCEPT ![m] = Fresh]

(* The counters after an outcome. *)
Counted(c, outcome) ==
    CASE outcome \in Actionable    -> [c EXCEPT !.idle = 0, !.invalid = 0]
      [] outcome \in NonActionable -> [c EXCEPT !.idle = @ + 1, !.invalid = 0]
      [] outcome \in Invalid       -> [c EXCEPT !.idle = @ + 1, !.invalid = @ + 1]

(* Mutant: a threshold is passed, not reached. *)
ReachedLate(c, outcome) ==
    \/ outcome \in NonActionable /\ c.idle > HoldThreshold
    \/ outcome \in Invalid /\ c.invalid > InvalidThreshold

Reached(c, outcome) ==
    \/ outcome \in NonActionable /\ c.idle >= HoldThreshold
    \/ outcome \in Invalid /\ c.invalid >= InvalidThreshold

(* record_outcome() *)
RecordOutcome(m, outcome) ==
    LET c == Counted(cognitive[m], outcome) IN
    cognitive' =
        IF InCooldown(m) THEN cognitive
        ELSE [cognitive EXCEPT ![m] =
                 IF Reached(c, outcome) THEN [c EXCEPT !.until = now + Cooldown] ELSE c]

-------------------------------------------------------------------------------
(* A market whose provider answers were useless InvalidThreshold times in  *)
(* a row has been sent into a cooldown, whichever retries, holds and       *)
(* expired cooldowns came between (WI-52, rules 13 and 14).                *)
RepeatedFailuresCool ==
    \A m \in Markets :
        cognitive[m].invalid >= InvalidThreshold => cognitive[m].until # Never
===============================================================================
