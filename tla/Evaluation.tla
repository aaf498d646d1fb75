------------------------------ MODULE Evaluation ------------------------------
(***************************************************************************)
(* ClaudeClient: one consumer takes a market's context off the prompt      *)
(* queue and carries it through order book, sentiment, cooldown, primary   *)
(* call with retries, reflection, Gatekeeper and decision log, to the      *)
(* execution queue.  It meets the budget guard before every paid call, the *)
(* cooldown once, and the clock at every await.                            *)
(***************************************************************************)
EXTENDS BudgetGuard, CognitiveBreaker, Gatekeeper

CONSTANTS
    Answers,        \* candidates a model may answer with
    BookAnswers,    \* order books the exchange may answer with
    SoftFactor,     \* reflection_soft_flag_confidence_factor, in percent
    MaxRetries,     \* anthropic_max_retries, deepseek_max_retries
    GrokRetries,    \* grok_max_retries
    MaxEvaluations, \* bound: contexts taken in a behaviour
    MaxTime         \* bound: ticks of the clock

NoMarket == "no market"

ASSUME EvaluationAssumption ==
    /\ Markets # {} /\ NoMarket \notin Markets
    /\ Answers \subseteq Candidates /\ Answers # {}
    /\ BookAnswers \subseteq Books
    /\ SoftFactor \in 1 .. 100
    /\ MaxRetries \in Nat
    /\ GrokRetries \in Nat
    /\ MaxEvaluations \in Nat
    /\ MaxTime \in Nat

VARIABLES
    frame,        \* of _process_evaluation()
    quarantine,   \* of the prompt queue: _budget_quarantine_until
    blocks,       \* history: the markets' windows in which they were blocked
    executions,   \* execution_queue: what was put on it
    taken         \* contexts taken so far (bounded)

vars == <<now, guard, spent, cognitive, frame, quarantine, blocks, executions, taken>>

Stages == {"idle", "book", "grok", "cooldown", "primary", "calling", "backoff",
           "reflect", "reflecting", "decide", "persist"}
NoCandidate == [decision |-> FALSE, action |-> "HOLD", confidence |-> 0, pTrue |-> 1,
                ttr |-> 0, asymmetry |-> FALSE, schema |-> FALSE]
NotYet      == "not yet"

(* Why a candidate is what it is: the verdict, or the flags of a rejection. *)
Verdicts == {"APPROVED", "ADJUSTED"} \cup Flags

Idle == [stage |-> "idle", market |-> NoMarket, attempt |-> 0, peeked |-> FALSE,
         snapshot |-> NoSnapshot, candidate |-> NoCandidate, verdict |-> NotYet]

Executions == [market : Markets, verdict : Verdicts, action : {"BUY", "SELL"}]

Market == frame.market
At(stage) == frame.stage = stage
GoTo(stage) == frame' = [frame EXCEPT !.stage = stage]

TypeOK ==
    /\ GuardTypeOK
    /\ CognitiveTypeOK
    /\ frame.stage \in Stages
    /\ frame.market \in Markets \cup {NoMarket}
    /\ frame.attempt \in 0 .. (CASE At("grok")    -> GrokRetries
                                [] At("backoff") -> MaxRetries - 1
                                [] OTHER         -> MaxRetries)
    /\ frame.peeked \in BOOLEAN
    /\ frame.snapshot \in Snapshots \cup {NoSnapshot}
    /\ frame.candidate \in Candidates
    /\ frame.verdict \in Verdicts \cup {NotYet}
    /\ quarantine \in [Markets -> Times]
    /\ blocks \subseteq Markets \X Nat
    /\ executions \subseteq Executions
    /\ taken \in 0 .. MaxEvaluations

Init ==
    /\ GuardInit
    /\ CognitiveInit
    /\ frame = Idle
    /\ quarantine = [m \in Markets |-> Never]
    /\ blocks = {}
    /\ executions = {}
    /\ taken = 0

(* The evaluation is over; task_done() and the next get(). *)
Finish == frame' = Idle

GuardUnchanged == UNCHANGED guardVars
RestUnchanged  == UNCHANGED <<quarantine, blocks, executions, taken>>

-------------------------------------------------------------------------------
(* The queue gives out contexts of markets that are not quarantined. *)
TakeContext(m) ==
    /\ At("idle")
    /\ taken < MaxEvaluations
    /\ now >= quarantine[m]
    /\ taken' = taken + 1
    /\ frame' = [Idle EXCEPT !.stage = "book", !.market = m]
    /\ GuardUnchanged
    /\ UNCHANGED <<cognitive, quarantine, blocks, executions>>

(* _fetch_sentiment(): the category is eligible or not, and the peek spares *)
(* the call if the primary call would be blocked now.                      *)
WantsSentiment(eligible) == eligible /\ PeekReason("primary", Market) = "none"

(* fetch_order_book() answers, or fails, or there is no token to ask for.  *)
FetchOrderBook ==
    /\ At("book")
    /\ \/ Finish
       \/ \E book \in BookAnswers, eligible \in BOOLEAN :
            LET s == ParseOrderBook(book)
                ask == WantsSentiment(eligible) IN
            IF s = NoSnapshot THEN Finish
            ELSE frame' = [frame EXCEPT !.snapshot = s, !.peeked = ask,
                                        !.stage = IF ask THEN "grok" ELSE "cooldown"]
    /\ GuardUnchanged
    /\ RestUnchanged
    /\ UNCHANGED cognitive

(* analyze_sentiment() returns: a sentiment, a mocked one, or without the   *)
(* live client or its key the neutral one; it never raises.                *)
SentimentReturned == frame' = [frame EXCEPT !.stage = "cooldown", !.attempt = 0]

(* A live call: a sentiment, or after a refusal, a bad schema, 400, 401,   *)
(* 403, no budget or no retries left, the neutral one; or another attempt. *)
AskGrok ==
    /\ At("grok")
    /\ \/ SentimentReturned
       \/ /\ frame.attempt < GrokRetries
          /\ frame' = [frame EXCEPT !.attempt = @ + 1]
    /\ GuardUnchanged
    /\ RestUnchanged
    /\ UNCHANGED cognitive

(* Mutant: the breaker is told of outcomes but not asked. *)
CooldownIgnored ==
    /\ At("cooldown")
    /\ Finish \/ GoTo("primary")
    /\ GuardUnchanged
    /\ RestUnchanged
    /\ UNCHANGED cognitive

(* check_cooldown(), then the time that is left for the chain. *)
CheckCooldown ==
    /\ At("cooldown")
    /\ \/ /\ InCooldown(Market)
          /\ Finish
          /\ UNCHANGED cognitive
       \/ /\ PassCooldown(Market)
          /\ Finish \/ GoTo("primary")
    /\ GuardUnchanged
    /\ RestUnchanged

(* Mutant: the market stays away for the length of a cooldown. *)
QuarantineAsCooldown(type) ==
    IF CheckReason(type, Market) = "market" /\ MarketLimit > 0
    THEN /\ blocks' = blocks \cup {<<Market, guard'.reset[Market]>>}
         /\ quarantine' = [quarantine EXCEPT ![Market] = now + Cooldown]
    ELSE UNCHANGED <<quarantine, blocks>>

(* _handle_budget_block(): the market's own limit quarantines it in the    *)
(* prompt queue until its window ends; a limit of zero has no such time.   *)
HandleBudgetBlock(type) ==
    IF CheckReason(type, Market) = "market" /\ MarketLimit > 0
    THEN LET until == guard'.reset[Market] IN
         /\ blocks' = blocks \cup {<<Market, until>>}
         /\ quarantine' = [quarantine EXCEPT ![Market] = IF until > @ THEN until ELSE @]
    ELSE UNCHANGED <<quarantine, blocks>>

(* The guard, before every attempt of _get_primary_candidate(). *)
CheckPrimary ==
    /\ At("primary")
    /\ \/ /\ Allow("primary", Market)
          /\ GoTo("calling")
          /\ UNCHANGED <<quarantine, blocks>>
       \/ /\ Block("primary", Market)
          /\ HandleBudgetBlock("primary")
          /\ Finish
    /\ UNCHANGED <<cognitive, executions, taken>>

(* The provider answers with JSON; the usage may be missing. *)
AnswerJson ==
    /\ At("calling")
    /\ \E c \in Answers, u \in Usages \cup {Reserve} :
         /\ RecordUsage(u)
         /\ frame' = [frame EXCEPT !.stage = "reflect", !.candidate = c]
    /\ RestUnchanged
    /\ UNCHANGED cognitive

(* It answers with something else: the reservation stands for the usage.   *)
AnswerMalformed ==
    /\ At("calling")
    /\ RecordUsage(Reserve)
    /\ RecordOutcome(Market, "invalid_json")
    /\ IF frame.attempt < MaxRetries
         THEN frame' = [frame EXCEPT !.stage = "primary", !.attempt = @ + 1]
         ELSE Finish
    /\ RestUnchanged

(* The call raises; record_provider_error() leaves the reservation. *)
CallRaises ==
    /\ At("calling")
    /\ RecordOutcome(Market, "provider_error")
    /\ IF frame.attempt = MaxRetries THEN Finish ELSE GoTo("backoff")
    /\ GuardUnchanged
    /\ RestUnchanged

(* Mutant: a loop around the call alone, without a count or the guard. *)
RetryUncounted ==
    /\ At("backoff")
    /\ GoTo("calling")
    /\ GuardUnchanged
    /\ RestUnchanged
    /\ UNCHANGED cognitive

(* The pause before the next attempt. *)
Backoff ==
    /\ At("backoff")
    /\ frame' = [frame EXCEPT !.stage = "primary", !.attempt = @ + 1]
    /\ GuardUnchanged
    /\ RestUnchanged
    /\ UNCHANGED cognitive

(* wait_for() cancels the primary call with its retries. *)
ChainTimeout ==
    /\ frame.stage \in {"calling", "backoff"}
    /\ Finish
    /\ GuardUnchanged
    /\ RestUnchanged
    /\ UNCHANGED cognitive

(* The candidate after the verdict. *)
Reflected(verdict, flags, corrected) ==
    frame' = [frame EXCEPT
        !.stage = "decide",
        !.candidate = Verdicted(@, verdict, flags, corrected, SoftFactor),
        !.verdict = IF verdict = "REJECTED" THEN flags ELSE verdict]

(* The guard before the reflection.  With no time left for it, it is not   *)
(* made, and the reservation is kept.                                      *)
CheckReflection ==
    /\ At("reflect")
    /\ \/ /\ Allow("reflection", Market)
          /\ GoTo("reflecting") \/ Reflected("REJECTED", "infra", NoCandidate)
          /\ UNCHANGED <<quarantine, blocks>>
       \/ /\ Block("reflection", Market)
          /\ HandleBudgetBlock("reflection")
          /\ Reflected("REJECTED", "none", NoCandidate)
    /\ UNCHANGED <<cognitive, executions, taken>>

(* A valid response; or ADJUSTED without a correction, an error or a       *)
(* timeout, which reject without a usage record.                           *)
ReflectionAnswers ==
    /\ At("reflecting")
    /\ \/ /\ \E u \in Usages \cup {Reserve} : RecordUsage(u)
          /\ \/ Reflected("APPROVED", "none", NoCandidate)
             \/ \E c \in Answers : Reflected("ADJUSTED", "none", c)
             \/ \E f \in {"hard", "soft", "none"} : Reflected("REJECTED", f, NoCandidate)
       \/ /\ Reflected("REJECTED", "infra", NoCandidate)
          /\ GuardUnchanged
    /\ RestUnchanged
    /\ UNCHANGED cognitive

Response == Overridden(frame.candidate, frame.snapshot)

(* The terminal Gatekeeper; a refused candidate counts as no outcome. *)
Gatekeep ==
    /\ At("decide")
    /\ IF Validates(frame.candidate, frame.snapshot) THEN GoTo("persist") ELSE Finish
    /\ GuardUnchanged
    /\ RestUnchanged
    /\ UNCHANGED cognitive

OutcomeOf(action) ==
    CASE action = "HOLD" -> "hold"
      [] action = "BUY"  -> "buy"
      [] action = "SELL" -> "sell"

(* _persist_decision() returns, whether or not the row was written; the    *)
(* decision goes on the execution queue and its outcome to the breaker.    *)
Route ==
    /\ At("persist")
    /\ executions' = IF Response.decision
                     THEN executions \cup {[market |-> Market, verdict |-> frame.verdict,
                                            action |-> Response.action]}
                     ELSE executions
    /\ RecordOutcome(Market, OutcomeOf(Response.action))
    /\ Finish
    /\ GuardUnchanged
    /\ UNCHANGED <<quarantine, blocks, taken>>

Clock ==
    /\ now < MaxTime
    /\ Tick
    /\ RestUnchanged
    /\ UNCHANGED <<cognitive, frame>>

Evaluate ==
    \/ FetchOrderBook \/ AskGrok \/ CheckCooldown
    \/ CheckPrimary \/ AnswerJson \/ AnswerMalformed \/ CallRaises \/ Backoff
    \/ ChainTimeout \/ CheckReflection \/ ReflectionAnswers \/ Gatekeep \/ Route

Next == (\E m \in Markets : TakeContext(m)) \/ Evaluate \/ Clock

(* Every await of an evaluation is bounded by a timeout of its own. *)
Fairness == WF_vars(Evaluate)

Spec == Init /\ [][Next]_vars /\ Fairness

-------------------------------------------------------------------------------
(* "A blocked reflection cannot allow an unreflected primary candidate to  *)
(* route execution" (WI-52, invariant 6), and no failed, timed out or      *)
(* rejecting one either, but for advisory flags (WI-66).                   *)
OnlyReflectedRoutes == \A e \in executions : e.verdict \in {"APPROVED", "ADJUSTED", "soft"}

(* Once peek_budget() has let a sentiment call happen, the first primary   *)
(* call of this evaluation is not blocked by the budget, however long the  *)
(* sentiment took: it was not wasted.                                      *)
SentimentNotWasted ==
    (frame.peeked /\ frame.attempt = 0 /\ frame.stage \in {"grok", "cooldown", "primary"})
        => CheckReason("primary", Market) = "none"

(* A market that its own hourly limit has blocked is not evaluated again,  *)
(* only to be blocked again, within the same window: guard and prompt      *)
(* queue agree on when that ends.                                          *)
BlockedOncePerWindow ==
    [][\A m \in Markets : \A t \in {b[2] : b \in blocks} :
         (<<m, t>> \in blocks /\ At("idle") /\ frame'.market = m) => now >= t]_vars

(* Whatever provider, auditor and budget do, every evaluation ends and the *)
(* consumer takes the next context.                                        *)
EvaluationEnds == frame.stage # "idle" ~> frame.stage = "idle"

(* "No paid LLM call happens for a market while that market is in active   *)
(* cooldown" (WI-52, invariant 2), as far as the code keeps it: no         *)
(* evaluation makes its first call in a cooldown, whatever it awaited      *)
(* since it asked; a retry of the evaluation that caused the cooldown, and *)
(* the reflection after it, do not ask again.                              *)
NoFirstCallInCooldown ==
    [][frame.attempt = 0 /\ At("primary") /\ frame'.stage = "calling"
         => ~InCooldown(Market)]_vars
===============================================================================
