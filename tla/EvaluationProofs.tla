--------------------------- MODULE EvaluationProofs ---------------------------
(***************************************************************************)
(* What is proved of Evaluation, with its budget guard, its cooldowns and  *)
(* its verdicts, for any markets, limits, windows, answers and bounds.     *)
(***************************************************************************)
EXTENDS Evaluation, WellFoundedInduction, TLAPS

(* Like TypeOK, but a candidate's numbers are any integers.                *)
AnyCandidate ==
    [decision : BOOLEAN, action : {"BUY", "SELL", "HOLD"}, confidence : Int,
     pTrue : Int, ttr : Int, asymmetry : BOOLEAN, schema : BOOLEAN]

AnyFrame ==
    [stage : Stages, market : Markets \cup {NoMarket}, attempt : Nat,
     peeked : BOOLEAN, snapshot : {ParseOrderBook(b) : b \in BookAnswers} \cup {NoSnapshot},
     candidate : AnyCandidate, verdict : Verdicts \cup {NotYet}]

FrameOK ==
    /\ frame \in AnyFrame
    /\ frame.stage = "idle" <=> frame.market = NoMarket

(* The prompt queue's side of a blocked market. *)
QueueOK ==
    /\ quarantine \in [Markets -> Times]
    /\ blocks \subseteq Markets \X Times

Typed == FrameOK /\ GuardTypeOK /\ CognitiveTypeOK /\ QueueOK

-------------------------------------------------------------------------------
(* A record of the guard with other fields of their types. *)
LEMMA DayTyped ==
    ASSUME NEW g \in Guards, NEW t \in Times, NEW used \in [Resources -> Int],
           NEW calls \in [Markets -> Nat], NEW reset \in [Markets -> Times]
    PROVE  [g EXCEPT !.dayStart = t, !.daily = 0, !.used = used, !.calls = calls,
                     !.reset = reset] \in Guards
BY DEF Guards

(* With one more call counted and its reservation. *)
LEMMA CountersTyped ==
    ASSUME NEW g \in Guards, NEW hourly \in [CallTypes -> Nat], NEW daily \in Nat,
           NEW calls \in [Markets -> Nat], NEW used \in [Resources -> Int]
    PROVE  [g EXCEPT !.hourly = hourly, !.daily = daily, !.calls = calls,
                     !.used = used] \in Guards
BY DEF Guards

(* With other windows of the markets. *)
LEMMA MarketsTyped ==
    ASSUME NEW g \in Guards, NEW calls \in [Markets -> Nat], NEW reset \in [Markets -> Times]
    PROVE  [g EXCEPT !.reset = reset, !.calls = calls] \in Guards
BY DEF Guards

(* With other totals. *)
LEMMA UsedTyped ==
    ASSUME NEW g \in Guards, NEW used \in [Resources -> Int]
    PROVE  [g EXCEPT !.used = used] \in Guards
BY DEF Guards

(* The windows of the guard: every way of rolling keeps its type.          *)
LEMMA RolledTyped ==
    ASSUME now \in Nat, NEW g \in Guards
    PROVE  RollHour(g) \in Guards /\ RollDay(g) \in Guards /\ Rolled(g) \in Guards
<1>1. ASSUME NEW h \in Guards PROVE RollHour(h) \in Guards
  <2>1. CASE HourExpired(h)
    BY <2>1 DEF RollHour, Guards, Times
  <2>2. CASE ~HourExpired(h)
    BY <2>2 DEF RollHour
  <2> QED  BY <2>1, <2>2
<1>2. ASSUME NEW h \in Guards PROVE RollDay(h) \in Guards
  <2>1. CASE DayExpired(h)
    <3> DEFINE zero == [m \in Markets |-> 0]
               unset == [m \in Markets |-> Never]
    <3>1. zero \in [Markets -> Nat] /\ unset \in [Markets -> Times]
      BY DEF Times
    <3>2. Nothing \in [Resources -> Int]  BY DEF Nothing
    <3>3. now \in Times  BY DEF Times
    <3> HIDE DEF zero, unset
    <3>4. RollDay(h) = [h EXCEPT !.dayStart = now, !.daily = 0, !.used = Nothing,
                                 !.calls = zero, !.reset = unset]
      BY <2>1 DEF RollDay, zero, unset
    <3>5. [h EXCEPT !.dayStart = now, !.daily = 0, !.used = Nothing, !.calls = zero,
                    !.reset = unset] \in Guards
      BY <3>1, <3>2, <3>3, DayTyped
    <3> QED  BY <3>4, <3>5
  <2>2. CASE ~DayExpired(h)
    BY <2>2 DEF RollDay
  <2> QED  BY <2>1, <2>2
<1> QED  BY <1>1, <1>2 DEF Rolled

(* A market's own window likewise. *)
LEMMA MarketRolledTyped ==
    ASSUME now \in Nat, NEW g \in Guards, NEW m \in Markets
    PROVE  MarketRolled(g, m) \in Guards
<1> DEFINE reset == [g.reset EXCEPT ![m] = now + Hour]
           calls == [g.calls EXCEPT ![m] = 0]
<1>1. reset \in [Markets -> Times] /\ calls \in [Markets -> Nat]
  BY GuardAssumption DEF Guards, Times
<1>2. MarketRolled(g, m) \in {g, [g EXCEPT !.reset = reset, !.calls = calls]}
  BY DEF MarketRolled
<1> HIDE DEF reset, calls
<1>3. [g EXCEPT !.reset = reset, !.calls = calls] \in Guards
  BY <1>1, MarketsTyped
<1> QED  BY <1>2, <1>3

(* What check_budget() looks at. *)
LEMMA CheckedTyped ==
    ASSUME GuardTypeOK, NEW type \in CallTypes, NEW m \in Markets
    PROVE  Checked(type, m) \in Guards
BY RolledTyped, MarketRolledTyped DEF Checked, GuardTypeOK

(* What a reservation makes of it. *)
LEMMA ReservedTyped ==
    ASSUME NEW g \in Guards, NEW type \in CallTypes, NEW m \in Markets
    PROVE  Reserved(g, type, m) \in Guards
<1> DEFINE hourly == [g.hourly EXCEPT ![type] = @ + 1]
           calls == [g.calls EXCEPT ![m] = @ + 1]
           used == [r \in Resources |-> g.used[r] + Reserve[r]]
<1>1. /\ hourly \in [CallTypes -> Nat]
      /\ calls \in [Markets -> Nat]
      /\ used \in [Resources -> Int]
      /\ g.daily + 1 \in Nat
  BY GuardAssumption DEF Guards
<1>2. Reserved(g, type, m) = [g EXCEPT !.hourly = hourly, !.daily = g.daily + 1,
                                       !.calls = calls, !.used = used]
  BY DEF Reserved
<1> HIDE DEF hourly, calls, used
<1>3. [g EXCEPT !.hourly = hourly, !.daily = g.daily + 1, !.calls = calls,
                !.used = used] \in Guards
  BY <1>1, CountersTyped
<1> QED  BY <1>2, <1>3

(* The history of what was spent. *)
LEMMA SpentTyped ==
    ASSUME GuardTypeOK
    PROVE  SpentInWindow \in [Resources -> Nat]
BY DEF SpentInWindow, GuardTypeOK, Nothing

(* Every method of the guard, and the clock, keep the guard's type.        *)
LEMMA GuardTyped ==
    ASSUME GuardTypeOK,
           \/ \E type \in CallTypes, m \in Markets : Allow(type, m) \/ Block(type, m)
           \/ \E u \in Usages \cup {Reserve} : RecordUsage(u)
           \/ Tick
           \/ UNCHANGED guardVars
    PROVE  GuardTypeOK'
<1>1. CASE \E type \in CallTypes, m \in Markets : Allow(type, m) \/ Block(type, m)
  BY <1>1, CheckedTyped, ReservedTyped, SpentTyped DEF Allow, Block, GuardTypeOK
<1>2. CASE \E u \in Usages \cup {Reserve} : RecordUsage(u)
  <2>1. PICK u \in Usages \cup {Reserve} : RecordUsage(u)  BY <1>2
  <2>2. u \in [Resources -> Nat]  BY GuardAssumption
  <2>3. Rolled(guard) \in Guards  BY RolledTyped DEF GuardTypeOK
  <2> DEFINE used == [r \in Resources |-> Rolled(guard).used[r] + u[r] - Reserve[r]]
  <2>4. used \in [Resources -> Int]
    BY <2>2, <2>3, GuardAssumption DEF Guards
  <2>5. guard' = [Rolled(guard) EXCEPT !.used = used]
    BY <2>1 DEF RecordUsage
  <2> HIDE DEF used
  <2>6. [Rolled(guard) EXCEPT !.used = used] \in Guards  BY <2>3, <2>4, UsedTyped
  <2>7. spent' \in [Resources -> Nat]  BY <2>1, <2>2, SpentTyped DEF RecordUsage
  <2> QED  BY <2>1, <2>5, <2>6, <2>7 DEF RecordUsage, GuardTypeOK
<1>3. CASE Tick  BY <1>3 DEF Tick, GuardTypeOK
<1>4. CASE UNCHANGED guardVars  BY <1>4 DEF guardVars, GuardTypeOK
<1> QED  BY <1>1, <1>2, <1>3, <1>4

-------------------------------------------------------------------------------
(* Whatever is counted. *)
LEMMA CountedTyped ==
    ASSUME NEW c \in CognitiveStates, NEW o \in Outcomes
    PROVE  Counted(c, o) \in CognitiveStates
<1>1. ASSUME NEW n \in Nat, NEW k \in Nat
      PROVE  [c EXCEPT !.idle = n, !.invalid = k] \in CognitiveStates
  BY DEF CognitiveStates
<1>2. 0 \in Nat /\ c.idle + 1 \in Nat /\ c.invalid + 1 \in Nat  BY DEF CognitiveStates
<1>3. CASE o \in Actionable
  BY <1>1, <1>2, <1>3 DEF Counted
<1>4. CASE o \in NonActionable
  <2>1. o \notin Actionable  BY <1>4 DEF Actionable, NonActionable
  <2> QED  BY <1>1, <1>2, <1>4, <2>1 DEF Counted
<1>5. CASE o \in Invalid
  <2>1. o \notin Actionable /\ o \notin NonActionable
    BY <1>5 DEF Actionable, NonActionable, Invalid
  <2> QED  BY <1>1, <1>2, <1>5, <2>1 DEF Counted
<1> QED  BY <1>3, <1>4, <1>5 DEF Outcomes

(* The breaker's methods keep its type. *)
LEMMA CognitiveTyped ==
    ASSUME CognitiveTypeOK, now \in Nat, NEW m \in Markets,
           \/ PassCooldown(m)
           \/ \E o \in Outcomes : RecordOutcome(m, o)
           \/ UNCHANGED cognitive
    PROVE  CognitiveTypeOK'
<1>1. CASE PassCooldown(m)
  BY <1>1 DEF PassCooldown, CognitiveTypeOK, CognitiveStates, Fresh, Times
<1>2. CASE \E o \in Outcomes : RecordOutcome(m, o)
  <2>1. PICK o \in Outcomes : RecordOutcome(m, o)  BY <1>2
  <2>2. cognitive[m] \in CognitiveStates  BY DEF CognitiveTypeOK
  <2>3. Counted(cognitive[m], o) \in CognitiveStates
    BY <2>2, CountedTyped
  <2>4. [Counted(cognitive[m], o) EXCEPT !.until = now + Cooldown] \in CognitiveStates
    BY <2>3, BreakerAssumption DEF CognitiveStates, Times
  <2> QED  BY <2>1, <2>3, <2>4 DEF RecordOutcome, CognitiveTypeOK
<1>3. CASE UNCHANGED cognitive  BY <1>3 DEF CognitiveTypeOK
<1> QED  BY <1>1, <1>2, <1>3

(* Candidates stay candidates under every verdict. *)
LEMMA VerdictedTyped ==
    ASSUME NEW c \in AnyCandidate, NEW verdict, NEW flags, NEW corrected \in AnyCandidate
    PROVE  Verdicted(c, verdict, flags, corrected, SoftFactor) \in AnyCandidate
<1>1. HoldCandidate(c) \in AnyCandidate
  <2>1. ASSUME NEW d \in BOOLEAN, NEW a \in {"BUY", "SELL", "HOLD"}, NEW n \in Int
        PROVE  [c EXCEPT !.decision = d, !.action = a, !.confidence = n] \in AnyCandidate
    BY DEF AnyCandidate
  <2>2. FALSE \in BOOLEAN /\ "HOLD" \in {"BUY", "SELL", "HOLD"} /\ 0 \in Int  OBVIOUS
  <2>3. [c EXCEPT !.decision = FALSE, !.action = "HOLD", !.confidence = 0] \in AnyCandidate
    BY <2>1, <2>2, Zenon
  <2> QED  BY <2>3, Zenon DEF HoldCandidate
<1>2. PenalizedCandidate(c, SoftFactor) \in AnyCandidate
  <2>1. c.confidence * SoftFactor \in Int
    BY EvaluationAssumption DEF AnyCandidate
  <2>2. (c.confidence * SoftFactor) \div 100 \in Int  BY <2>1
  <2>3. ASSUME NEW n \in Int PROVE [c EXCEPT !.confidence = n] \in AnyCandidate
    BY <2>3 DEF AnyCandidate
  <2> QED  BY <2>2, <2>3 DEF PenalizedCandidate
<1> QED  BY <1>1, <1>2 DEF Verdicted

(* What a model answers is a candidate. *)
LEMMA AnswerTyped ==
    /\ \A c \in Answers : c \in AnyCandidate
    /\ NoCandidate \in AnyCandidate
<1>1. Candidates \subseteq AnyCandidate  BY DEF Candidates, AnyCandidate
<1>2. NoCandidate \in AnyCandidate  BY DEF NoCandidate, AnyCandidate
<1> QED  BY <1>1, <1>2, EvaluationAssumption

(* The frame goes on to another await of the same evaluation. *)
LEMMA GoToTyped ==
    ASSUME FrameOK, NEW s \in Stages \ {"idle"}, frame.stage # "idle", GoTo(s)
    PROVE  FrameOK' /\ frame'.market = frame.market
BY DEF FrameOK, AnyFrame, GoTo

(* It goes on with the next attempt. *)
LEMMA AgainTyped ==
    ASSUME FrameOK, NEW s \in Stages \ {"idle"}, frame.stage # "idle", NEW n \in Nat,
           frame' = [frame EXCEPT !.stage = s, !.attempt = n]
    PROVE  FrameOK' /\ frame'.market = frame.market
BY DEF FrameOK, AnyFrame

(* It is over. *)
LEMMA FinishTyped == Finish => FrameOK'
BY AnswerTyped DEF Finish, FrameOK, AnyFrame, Idle, Stages

(* It goes on with a verdict. *)
LEMMA ReflectedTyped ==
    ASSUME FrameOK, frame.stage # "idle", NEW verdict \in {"APPROVED", "ADJUSTED", "REJECTED"},
           NEW flags \in Flags, NEW c \in AnyCandidate, Reflected(verdict, flags, c)
    PROVE  FrameOK'
<1> DEFINE next == Verdicted(frame.candidate, verdict, flags, c, SoftFactor)
<1>1. next \in AnyCandidate  BY VerdictedTyped DEF FrameOK, AnyFrame
<1>2. (IF verdict = "REJECTED" THEN flags ELSE verdict) \in Verdicts  BY DEF Verdicts
<1>3. frame' = [frame EXCEPT !.stage = "decide", !.candidate = next,
                  !.verdict = IF verdict = "REJECTED" THEN flags ELSE verdict]
  BY DEF Reflected
<1> HIDE DEF next
<1> QED  BY <1>1, <1>2, <1>3 DEF FrameOK, AnyFrame, Stages
(* The order book's snapshot, or the end of the evaluation. *)
LEMMA FetchTyped == FrameOK /\ FetchOrderBook => FrameOK'
<1> SUFFICES ASSUME FrameOK, FetchOrderBook PROVE FrameOK'
  OBVIOUS
<1>1. CASE Finish  BY <1>1, FinishTyped
<1>2. CASE ~Finish
  <2>1. PICK book \in BookAnswers, eligible \in BOOLEAN :
           frame' = [frame EXCEPT !.snapshot = ParseOrderBook(book),
                       !.peeked = WantsSentiment(eligible),
                       !.stage = IF WantsSentiment(eligible) THEN "grok" ELSE "cooldown"]
    BY <1>2 DEF FetchOrderBook
  <2>2. WantsSentiment(eligible) \in BOOLEAN  BY DEF WantsSentiment
  <2>3. ParseOrderBook(book) \in {ParseOrderBook(b) : b \in BookAnswers}  OBVIOUS
  <2>4. frame.stage = "book"  BY DEF FetchOrderBook, At
  <2>5. ASSUME NEW s \in {ParseOrderBook(b) : b \in BookAnswers}, NEW p \in BOOLEAN,
               frame' = [frame EXCEPT !.snapshot = s, !.peeked = p,
                           !.stage = IF p THEN "grok" ELSE "cooldown"]
        PROVE  FrameOK'
    <3>1. frame' \in AnyFrame  BY <2>5 DEF FrameOK, AnyFrame, Stages
    <3>2. frame'.market = frame.market /\ frame'.stage # "idle"
      BY <2>5 DEF FrameOK, AnyFrame
    <3> QED  BY <2>4, <3>1, <3>2 DEF FrameOK
  <2> QED  BY <2>1, <2>2, <2>3, <2>5
<1> QED  BY <1>1, <1>2

(* Sentiment answers with another attempt or goes on to the cooldown. *)
LEMMA GrokTyped == FrameOK /\ AskGrok => FrameOK'
<1> SUFFICES ASSUME FrameOK, AskGrok PROVE FrameOK'
  OBVIOUS
<1>1. PICK s \in {"grok", "cooldown"}, n \in Nat :
         frame' = [frame EXCEPT !.stage = s, !.attempt = n]
  <2>1. CASE SentimentReturned  BY <2>1 DEF SentimentReturned
  <2>2. CASE frame' = [frame EXCEPT !.attempt = @ + 1]
    <3>1. frame' = [frame EXCEPT !.stage = "grok", !.attempt = frame.attempt + 1]
      BY <2>2 DEF AskGrok, At, FrameOK, AnyFrame
    <3>2. frame.attempt + 1 \in Nat  BY DEF FrameOK, AnyFrame
    <3> QED  BY <3>1, <3>2
  <2> QED  BY <2>1, <2>2 DEF AskGrok
<1> QED  BY <1>1, AgainTyped DEF AskGrok, At, Stages

(* Every step keeps the frame's type, which is idle or has a market.       *)
LEMMA FrameStep == FrameOK /\ [Next]_vars => FrameOK'
<1> SUFFICES ASSUME FrameOK, [Next]_vars PROVE FrameOK'
  OBVIOUS
<1>0. frame.attempt + 1 \in Nat  BY DEF FrameOK, AnyFrame
<1>1. CASE \E m \in Markets : TakeContext(m)
  <2>1. PICK m \in Markets : frame' = [Idle EXCEPT !.stage = "book", !.market = m]
    BY <1>1 DEF TakeContext
  <2>2. Idle \in AnyFrame  BY AnswerTyped DEF AnyFrame, Idle, Stages
  <2>3. frame' \in AnyFrame /\ frame'.stage = "book" /\ frame'.market = m
    BY <2>1, <2>2 DEF AnyFrame, Stages
  <2> QED  BY <2>3, EvaluationAssumption DEF FrameOK
<1>2. CASE FetchOrderBook  BY <1>2, FetchTyped
<1>3. CASE AskGrok  BY <1>3, GrokTyped
<1>4. CASE CheckCooldown
  BY <1>4, FinishTyped, GoToTyped DEF CheckCooldown, At, Stages
<1>5. CASE CheckPrimary
  BY <1>5, FinishTyped, GoToTyped DEF CheckPrimary, At, Stages
<1>6. CASE AnswerJson
  <2>1. PICK c \in Answers : frame' = [frame EXCEPT !.stage = "reflect", !.candidate = c]
    BY <1>6 DEF AnswerJson
  <2>2. c \in AnyCandidate  BY AnswerTyped
  <2>3. frame.stage = "calling"  BY <1>6 DEF AnswerJson, At
  <2> QED  BY <2>1, <2>2, <2>3 DEF FrameOK, AnyFrame, Stages
<1>7. CASE AnswerMalformed
  BY <1>0, <1>7, FinishTyped, AgainTyped DEF AnswerMalformed, At, Stages
<1>8. CASE CallRaises
  BY <1>8, FinishTyped, GoToTyped DEF CallRaises, At, Stages
<1>9. CASE Backoff
  BY <1>0, <1>9, AgainTyped DEF Backoff, At, Stages
<1>10. CASE ChainTimeout  BY <1>10, FinishTyped DEF ChainTimeout
<1>11. CASE CheckReflection
  <2>1. frame.stage = "reflect"  BY <1>11 DEF CheckReflection, At
  <2>2. CASE GoTo("reflecting")  BY <2>1, <2>2, GoToTyped DEF Stages
  <2>3. CASE \E f \in {"infra", "none"} : Reflected("REJECTED", f, NoCandidate)
    BY <2>1, <2>3, ReflectedTyped, AnswerTyped DEF Flags
  <2> QED  BY <1>11, <2>2, <2>3 DEF CheckReflection
<1>12. CASE ReflectionAnswers
  <2>1. frame.stage = "reflecting"  BY <1>12 DEF ReflectionAnswers, At
  <2>2. PICK v \in {"APPROVED", "ADJUSTED", "REJECTED"}, f \in Flags,
             c \in AnyCandidate : Reflected(v, f, c)
    BY <1>12, AnswerTyped DEF ReflectionAnswers, Flags
  <2> QED  BY <2>1, <2>2, ReflectedTyped
<1>13. CASE Gatekeep
  BY <1>13, FinishTyped, GoToTyped DEF Gatekeep, At, Stages
<1>14. CASE Route  BY <1>14, FinishTyped DEF Route
<1>15. CASE Clock \/ UNCHANGED vars
  BY <1>15 DEF Clock, vars, FrameOK
<1> QED
  BY <1>1, <1>2, <1>3, <1>4, <1>5, <1>6, <1>7, <1>8, <1>9, <1>10, <1>11, <1>12,
     <1>13, <1>14, <1>15 DEF Next, Evaluate
-------------------------------------------------------------------------------
(* Whose turn it is, the market of the frame is a market. *)
LEMMA MarketIsOne == FrameOK /\ frame.stage # "idle" => Market \in Markets
BY DEF FrameOK, AnyFrame, Market

(* Every step is one of the guard's, the clock's, or leaves the guard.     *)
LEMMA GuardStep ==
    ASSUME FrameOK, [Next]_vars
    PROVE  \/ \E type \in CallTypes, m \in Markets : Allow(type, m) \/ Block(type, m)
           \/ \E u \in Usages \cup {Reserve} : RecordUsage(u)
           \/ Tick
           \/ UNCHANGED guardVars
<1>1. CASE CheckPrimary
  BY <1>1, MarketIsOne DEF CheckPrimary, At, CallTypes
<1>2. CASE CheckReflection
  BY <1>2, MarketIsOne DEF CheckReflection, At, CallTypes
<1>3. CASE AnswerJson  BY <1>3 DEF AnswerJson
<1>4. CASE AnswerMalformed  BY <1>4 DEF AnswerMalformed
<1>5. CASE ReflectionAnswers  BY <1>5 DEF ReflectionAnswers, GuardUnchanged
<1>6. CASE Clock  BY <1>6 DEF Clock
<1>7. CASE UNCHANGED vars  BY <1>7 DEF vars, guardVars
<1>8. CASE \/ \E m \in Markets : TakeContext(m)
           \/ FetchOrderBook \/ AskGrok \/ CheckCooldown \/ CallRaises \/ Backoff
           \/ ChainTimeout \/ Gatekeep \/ Route
  BY <1>8 DEF TakeContext, FetchOrderBook, AskGrok, CheckCooldown, CallRaises, Backoff,
              ChainTimeout, Gatekeep, Route, GuardUnchanged
<1> QED
  BY <1>1, <1>2, <1>3, <1>4, <1>5, <1>6, <1>7, <1>8 DEF Next, Evaluate

(* Every step is one of the breaker's, for the frame's market, or leaves   *)
(* the cooldowns.                                                          *)
LEMMA CognitiveStep ==
    ASSUME FrameOK, [Next]_vars
    PROVE  \/ \E m \in Markets : \/ PassCooldown(m)
                                 \/ \E o \in Outcomes : RecordOutcome(m, o)
           \/ UNCHANGED cognitive
<1>1. CASE CheckCooldown
  BY <1>1, MarketIsOne DEF CheckCooldown, At
<1>2. CASE AnswerMalformed
  BY <1>2, MarketIsOne DEF AnswerMalformed, At, Outcomes, Invalid
<1>3. CASE CallRaises
  BY <1>3, MarketIsOne DEF CallRaises, At, Outcomes, Invalid
<1>4. CASE Route
  <2>1. Response.action \in {"BUY", "SELL", "HOLD"}
    BY DEF Response, Overridden, FrameOK, AnyFrame, AnyCandidate
  <2>2. OutcomeOf(Response.action) \in Outcomes
    BY <2>1 DEF OutcomeOf, Outcomes, Actionable, NonActionable
  <2>3. RecordOutcome(Market, OutcomeOf(Response.action))  BY <1>4 DEF Route
  <2> QED  BY <1>4, <2>2, <2>3, MarketIsOne DEF Route, At
<1>5. CASE \/ \E m \in Markets : TakeContext(m)
           \/ FetchOrderBook \/ AskGrok \/ CheckPrimary \/ AnswerJson \/ Backoff
           \/ ChainTimeout \/ CheckReflection \/ ReflectionAnswers \/ Gatekeep \/ Clock
           \/ UNCHANGED vars
  BY <1>5 DEF TakeContext, FetchOrderBook, AskGrok, CheckPrimary, AnswerJson, Backoff,
              ChainTimeout, CheckReflection, ReflectionAnswers, Gatekeep, Clock, vars
<1> QED
  BY <1>1, <1>2, <1>3, <1>4, <1>5 DEF Next, Evaluate

(* What the budget check writes down about a blocked market. *)
LEMMA QueueStep ==
    ASSUME [Next]_vars
    PROVE  \/ UNCHANGED <<quarantine, blocks>>
           \/ /\ frame.stage # "idle"
              /\ \E type \in CallTypes : HandleBudgetBlock(type)
<1>1. CASE CheckPrimary
  BY <1>1 DEF CheckPrimary, CallTypes, At
<1>2. CASE CheckReflection
  BY <1>2 DEF CheckReflection, CallTypes, At
<1>3. CASE \/ \E m \in Markets : TakeContext(m)
           \/ FetchOrderBook \/ AskGrok \/ CheckCooldown \/ AnswerJson \/ AnswerMalformed
           \/ CallRaises \/ Backoff \/ ChainTimeout \/ ReflectionAnswers \/ Gatekeep
           \/ Route \/ Clock \/ UNCHANGED vars
  BY <1>3 DEF TakeContext, FetchOrderBook, AskGrok, CheckCooldown, AnswerJson,
              AnswerMalformed, CallRaises, Backoff, ChainTimeout, ReflectionAnswers,
              Gatekeep, Route, Clock, RestUnchanged, vars
<1> QED  BY <1>1, <1>2, <1>3 DEF Next, Evaluate
(* A blocked market stays quarantined at least until its window ends. *)
BlocksHeld == \A b \in blocks : b[2] <= quarantine[b[1]]

(* The quarantine follows the guard, whose type it needs. *)
LEMMA BlockKept ==
    ASSUME Typed, BlocksHeld, GuardTypeOK', frame.stage # "idle",
           NEW type \in CallTypes, HandleBudgetBlock(type)
    PROVE  QueueOK' /\ BlocksHeld'
<1>1. CASE UNCHANGED <<quarantine, blocks>>
  BY <1>1 DEF Typed, QueueOK, BlocksHeld
<1>2. CASE ~UNCHANGED <<quarantine, blocks>>
  <2> DEFINE until == guard'.reset[Market]
  <2>1. Market \in Markets  BY MarketIsOne DEF Typed
  <2>2. until \in Times  BY <2>1 DEF GuardTypeOK, Guards
  <2>3. /\ blocks' = blocks \cup {<<Market, until>>}
        /\ quarantine' = [quarantine EXCEPT ![Market] = IF until > @ THEN until ELSE @]
    BY <1>2 DEF HandleBudgetBlock
  <2> HIDE DEF until
  <2>4. QueueOK'  BY <2>1, <2>2, <2>3 DEF QueueOK, Typed
  <2>5. \A m \in Markets : quarantine[m] <= quarantine'[m]
    BY <2>1, <2>2, <2>3 DEF Typed, QueueOK, Times, Never
  <2>6. until <= quarantine'[Market]
    BY <2>1, <2>2, <2>3 DEF Typed, QueueOK, Times, Never
  <2>7. ASSUME NEW b \in blocks' PROVE b[2] <= quarantine'[b[1]]
    <3>1. CASE b = <<Market, until>>  BY <2>6, <3>1
    <3>2. CASE b \in blocks
      <4>1. b[1] \in Markets /\ b[2] \in Times  BY <3>2 DEF Typed, QueueOK
      <4>2. b[2] <= quarantine[b[1]]  BY <3>2 DEF BlocksHeld
      <4>3. quarantine[b[1]] \in Int /\ quarantine'[b[1]] \in Int /\ b[2] \in Int
        BY <2>4, <4>1 DEF Typed, QueueOK, Times, Never
      <4> QED  BY <2>5, <4>1, <4>2, <4>3
    <3> QED  BY <2>3, <2>7, <3>1, <3>2
  <2> QED  BY <2>4, <2>7 DEF BlocksHeld
<1> QED  BY <1>1, <1>2

(* Nothing is blocked at the start. *)
LEMMA TypedInit == Init => Typed /\ BlocksHeld
<1> SUFFICES ASSUME Init PROVE Typed /\ BlocksHeld
  OBVIOUS
<1>1. FrameOK  BY AnswerTyped DEF Init, Idle, FrameOK, AnyFrame, Stages
<1>2. GuardTypeOK
  <2>1. Nothing \in [Resources -> Int] /\ Nothing \in [Resources -> Nat]  BY DEF Nothing
  <2>2. /\ [t \in CallTypes |-> 0] \in [CallTypes -> Nat]
        /\ [m \in Markets |-> 0] \in [Markets -> Nat]
        /\ [m \in Markets |-> Never] \in [Markets -> Times]
        /\ Never \in Times
    BY DEF Times
  <2> QED  BY <2>1, <2>2 DEF Init, GuardInit, GuardTypeOK, Guards
<1>3. CognitiveTypeOK
  BY DEF Init, CognitiveInit, CognitiveTypeOK, CognitiveStates, Fresh, Times
<1>4. QueueOK /\ BlocksHeld  BY DEF Init, QueueOK, BlocksHeld, Times
<1> QED  BY <1>1, <1>2, <1>3, <1>4 DEF Typed

(* No step disturbs the types or the blocks that are held. *)
LEMMA TypedStep == Typed /\ BlocksHeld /\ [Next]_vars => Typed' /\ BlocksHeld'
<1> SUFFICES ASSUME Typed, BlocksHeld, [Next]_vars PROVE Typed' /\ BlocksHeld'
  OBVIOUS
<1>1. FrameOK'  BY FrameStep DEF Typed
<1>2. GuardTypeOK'  BY GuardStep, GuardTyped DEF Typed
<1>3. CognitiveTypeOK'
  BY CognitiveStep, CognitiveTyped, BreakerAssumption DEF Typed, GuardTypeOK, CognitiveTypeOK
<1>4. QueueOK' /\ BlocksHeld'
  <2>1. CASE UNCHANGED <<quarantine, blocks>>
    BY <2>1 DEF Typed, QueueOK, BlocksHeld
  <2> QED  BY <1>2, <2>1, QueueStep, BlockKept
<1> QED  BY <1>1, <1>2, <1>3, <1>4 DEF Typed

(* The frame, the guard, the cooldowns and the quarantine have their types *)
(* in every reachable state, and blocked markets their quarantine.         *)
THEOREM AlwaysTyped == Spec => [](Typed /\ BlocksHeld)
<1>1. Init => Typed /\ BlocksHeld  BY TypedInit
<1>2. Typed /\ BlocksHeld /\ [Next]_vars => Typed' /\ BlocksHeld'  BY TypedStep
<1> QED  BY <1>1, <1>2, PTL DEF Spec

(* BlockedOncePerWindow for every instance: the guard's window and the     *)
(* queue's quarantine agree (_handle_budget_block()).                      *)
THEOREM OncePerWindow == Spec => BlockedOncePerWindow
<1>1. Typed /\ BlocksHeld /\ [Next]_vars =>
        [\A m \in Markets : \A t \in {b[2] : b \in blocks} :
           (<<m, t>> \in blocks /\ At("idle") /\ frame'.market = m) => now >= t]_vars
  <2> SUFFICES ASSUME Typed, BlocksHeld, Next, NEW m \in Markets, NEW t,
                      <<m, t>> \in blocks, At("idle"), frame'.market = m
               PROVE  now >= t
    OBVIOUS
  <2>1. frame.market # m
    BY EvaluationAssumption DEF Typed, FrameOK, At
  <2>2. PICK k \in Markets : TakeContext(k)
    BY <2>1 DEF Next, Evaluate, Clock, At, FetchOrderBook, AskGrok, CheckCooldown,
                CheckPrimary, AnswerJson, AnswerMalformed, CallRaises, Backoff,
                ChainTimeout, CheckReflection, ReflectionAnswers, Gatekeep, Route
  <2>3. k = m  BY <2>2 DEF TakeContext, Idle
  <2>4. now >= quarantine[m]  BY <2>2, <2>3 DEF TakeContext
  <2>5. t <= quarantine[m]  BY DEF BlocksHeld
  <2>6. now \in Int /\ quarantine[m] \in Int /\ t \in Int
    BY DEF Typed, GuardTypeOK, QueueOK, Times, Never
  <2> QED  BY <2>4, <2>5, <2>6
<1> QED  BY <1>1, AlwaysTyped, PTL DEF Spec, BlockedOncePerWindow
-------------------------------------------------------------------------------
(* A call that has been reserved and not yet settled. *)
InFlight == frame.stage \in {"calling", "reflecting"}

(* What the guard has counted: with a call pending the quota still holds,  *)
(* and what was really spent is covered by what is counted, up to one      *)
(* reservation taken in the day before.                                    *)
Counts(pending) ==
    \A r \in Resources :
        /\ guard.used[r] <= Quota[r] + Excess[r]
        /\ pending => guard.used[r] <= Quota[r]
        /\ spent[r] <= guard.used[r] + IF pending THEN 0 ELSE Reserve[r]

SpendInv == Counts(InFlight)

(* Rolling the windows forgets the day's totals or leaves them. *)
LEMMA RolledUsed ==
    ASSUME GuardTypeOK
    PROVE  Rolled(guard).used = IF DayExpired(guard) THEN Nothing ELSE guard.used
<1> DEFINE g == RollHour(guard)
<1>1. g \in Guards  BY RolledTyped DEF GuardTypeOK
<1>2. g.used = guard.used /\ g.dayStart = guard.dayStart
  BY DEF RollHour, GuardTypeOK, Guards
<1>3. DayExpired(g) <=> DayExpired(guard)  BY <1>2 DEF DayExpired
<1> HIDE DEF g
<1>4. RollDay(g).used = IF DayExpired(g) THEN Nothing ELSE g.used
  BY <1>1 DEF RollDay, Guards
<1> QED  BY <1>2, <1>3, <1>4 DEF Rolled, g

(* The market's window has no part in them. *)
LEMMA CheckedUsed ==
    ASSUME GuardTypeOK, NEW type \in CallTypes, NEW m \in Markets
    PROVE  Checked(type, m).used = Rolled(guard).used
<1>1. Rolled(guard) \in Guards  BY RolledTyped DEF GuardTypeOK
<1>2. \A g \in Guards : MarketRolled(g, m).used = g.used
  BY DEF MarketRolled, Guards
<1> QED  BY <1>1, <1>2 DEF Checked

(* A call that is allowed fits into what is left, and is then pending.     *)
LEMMA AllowCounts ==
    ASSUME GuardTypeOK, Counts(FALSE),
           NEW type \in CallTypes, NEW m \in Markets, Allow(type, m)
    PROVE  Counts(TRUE)' /\ Counts(FALSE)'
<1> DEFINE g == Checked(type, m)
<1>1. g \in Guards  BY CheckedTyped
<1>2. g.used = IF DayExpired(guard) THEN Nothing ELSE guard.used
  BY CheckedUsed, RolledUsed
<1>3. ReserveReason(g) = "none"
  BY DEF Allow, CheckReason, BlockReason, GlobalReason
<1>4. guard' = Reserved(g, type, m) /\ spent' = SpentInWindow  BY DEF Allow
<1> HIDE DEF g
<1>5. ASSUME NEW r \in Resources
      PROVE  /\ guard'.used[r] = g.used[r] + Reserve[r]
             /\ guard'.used[r] <= Quota[r]
             /\ spent'[r] <= guard'.used[r]
  <2>1. guard'.used[r] = g.used[r] + Reserve[r]
    BY <1>1, <1>4 DEF Reserved, Guards
  <2>2. g.used[r] + Reserve[r] <= Quota[r]
    <3>1. ~(g.used[r] + Reserve[r] > Quota[r])  BY <1>3 DEF ReserveReason
    <3> QED  BY <1>1, <3>1, GuardAssumption DEF Guards
  <2>3. spent'[r] <= g.used[r] + Reserve[r]
    BY <1>2, <1>4, GuardAssumption DEF SpentInWindow, Nothing, Counts
  <2> QED  BY <2>1, <2>2, <2>3
<1>6. \A r \in Resources : /\ guard'.used[r] \in Int /\ spent'[r] \in Int
                           /\ Quota[r] \in Nat /\ Excess[r] \in Nat /\ Reserve[r] \in Nat
  BY <1>1, <1>5, GuardAssumption, SpentTyped, <1>4 DEF Guards
<1> QED  BY <1>5, <1>6 DEF Counts

(* A call that is not allowed changes the windows alone. *)
LEMMA BlockCounts ==
    ASSUME GuardTypeOK, Counts(FALSE),
           NEW type \in CallTypes, NEW m \in Markets, Block(type, m)
    PROVE  Counts(FALSE)'
<1>1. guard'.used = IF DayExpired(guard) THEN Nothing ELSE guard.used
  BY CheckedUsed, RolledUsed DEF Block
<1>2. spent' = IF DayExpired(guard) THEN Nothing ELSE spent
  BY DEF Block, SpentInWindow
<1> QED  BY <1>1, <1>2, GuardAssumption DEF Counts, Nothing

(* A pending call is settled by what it used, in whichever day. *)
LEMMA UsageCounts ==
    ASSUME GuardTypeOK, Counts(TRUE), NEW u \in Usages \cup {Reserve}, RecordUsage(u)
    PROVE  Counts(FALSE)'
<1>1. Rolled(guard) \in Guards  BY RolledTyped DEF GuardTypeOK
<1>2. \A r \in Resources :
        guard'.used[r] = (IF DayExpired(guard) THEN 0 ELSE guard.used[r]) + u[r] - Reserve[r]
  BY <1>1, RolledUsed DEF RecordUsage, Guards, Nothing
<1>3. \A r \in Resources :
        spent'[r] = (IF DayExpired(guard) THEN 0 ELSE spent[r]) + u[r]
  BY DEF RecordUsage, SpentInWindow, Nothing
<1>4. \A r \in Resources : u[r] \in Nat /\ u[r] <= Reserve[r] + Excess[r]
  BY GuardAssumption
<1>5. \A r \in Resources : guard.used[r] \in Int /\ spent[r] \in Nat
  BY DEF GuardTypeOK, Guards
<1>6. \A r \in Resources : Quota[r] \in Nat /\ Reserve[r] \in Nat /\ Excess[r] \in Nat
  BY GuardAssumption
<1>7. ASSUME NEW r \in Resources
      PROVE  /\ guard'.used[r] <= Quota[r] + Excess[r]
             /\ spent'[r] <= guard'.used[r] + Reserve[r]
  <2>1. guard.used[r] <= Quota[r] /\ spent[r] <= guard.used[r]
    BY <1>5, <1>6 DEF Counts
  <2> QED  BY <1>2, <1>3, <1>4, <1>5, <1>6, <2>1
<1> QED  BY <1>7 DEF Counts

(* A pending call may also end without a word. *)
LEMMA PendingCounts ==
    ASSUME GuardTypeOK, Counts(TRUE)
    PROVE  Counts(FALSE)
BY GuardAssumption DEF Counts, GuardTypeOK, Guards
(* After the reflection comes the Gatekeeper. *)
LEMMA ReflectedDecides ==
    ASSUME FrameOK, NEW v, NEW f, NEW c, Reflected(v, f, c)
    PROVE  frame'.stage = "decide"
BY DEF Reflected, FrameOK, AnyFrame

(* The counts are kept by every step. *)
LEMMA CountsStep == Typed /\ SpendInv /\ [Next]_vars => SpendInv'
<1> SUFFICES ASSUME Typed, SpendInv, [Next]_vars PROVE SpendInv'
  OBVIOUS
<1>1. GuardTypeOK /\ FrameOK  BY DEF Typed
<1>2. CASE CheckPrimary
  <2>1. ~InFlight /\ Market \in Markets  BY <1>1, <1>2, MarketIsOne DEF CheckPrimary, At, InFlight
  <2>2. Counts(FALSE)  BY <2>1 DEF SpendInv, Counts
  <2>3. CASE Allow("primary", Market)
    BY <1>1, <2>1, <2>2, <2>3, AllowCounts DEF SpendInv, CallTypes, Counts
  <2>4. CASE Block("primary", Market) /\ Finish
    <3>1. ~InFlight'  BY <2>4 DEF Finish, Idle, InFlight
    <3>2. Counts(FALSE)'  BY <1>1, <2>1, <2>2, <2>4, BlockCounts DEF CallTypes
    <3> QED  BY <3>1, <3>2 DEF SpendInv, Counts
  <2> QED  BY <1>2, <2>3, <2>4 DEF CheckPrimary
<1>3. CASE CheckReflection
  <2>1. ~InFlight /\ Market \in Markets
    BY <1>1, <1>3, MarketIsOne DEF CheckReflection, At, InFlight
  <2>2. Counts(FALSE)  BY <2>1 DEF SpendInv, Counts
  <2>3. CASE Allow("reflection", Market)
    BY <1>1, <2>1, <2>2, <2>3, AllowCounts DEF SpendInv, CallTypes, Counts
  <2>4. CASE Block("reflection", Market) /\ Reflected("REJECTED", "none", NoCandidate)
    <3>1. ~InFlight'  BY <1>1, <2>4 DEF Reflected, InFlight, FrameOK, AnyFrame
    <3>2. Counts(FALSE)'  BY <1>1, <2>1, <2>2, <2>4, BlockCounts DEF CallTypes
    <3> QED  BY <3>1, <3>2 DEF SpendInv, Counts
  <2> QED  BY <1>3, <2>3, <2>4 DEF CheckReflection
<1>4. ASSUME InFlight, NEW u \in Usages \cup {Reserve}, RecordUsage(u), ~InFlight'
      PROVE  SpendInv'
  <2>1. Counts(TRUE)  BY <1>4 DEF SpendInv, Counts
  <2>2. Counts(FALSE)'  BY <1>1, <1>4, <2>1, UsageCounts
  <2> QED  BY <1>4, <2>2 DEF SpendInv, Counts
<1>5. CASE AnswerJson
  BY <1>1, <1>4, <1>5 DEF AnswerJson, At, InFlight, FrameOK, AnyFrame
<1>6. CASE AnswerMalformed
  <2>1. ~InFlight'
    <3>1. CASE Finish  BY <3>1 DEF Finish, Idle, InFlight
    <3>2. CASE frame' = [frame EXCEPT !.stage = "primary", !.attempt = @ + 1]
      BY <1>1, <3>2 DEF InFlight, FrameOK, AnyFrame
    <3> QED  BY <1>6, <3>1, <3>2 DEF AnswerMalformed
  <2>2. InFlight /\ RecordUsage(Reserve)  BY <1>6 DEF AnswerMalformed, At, InFlight
  <2> QED  BY <1>4, <2>1, <2>2
<1>7. ASSUME ~InFlight', UNCHANGED guardVars PROVE SpendInv'
  <2>1. Counts(FALSE)
    BY <1>1, PendingCounts DEF SpendInv, Counts
  <2> QED  BY <1>7, <2>1 DEF SpendInv, Counts, guardVars
<1>8. CASE ReflectionAnswers
  <2>1. ~InFlight'
    BY <1>1, <1>8, ReflectedDecides DEF ReflectionAnswers, InFlight
  <2>2. InFlight  BY <1>8 DEF ReflectionAnswers, At, InFlight
  <2> QED  BY <1>4, <1>7, <1>8, <2>1, <2>2 DEF ReflectionAnswers, GuardUnchanged
<1>9. CASE \/ \E m \in Markets : TakeContext(m)
           \/ FetchOrderBook \/ AskGrok \/ CheckCooldown \/ CallRaises \/ Backoff
           \/ ChainTimeout \/ Gatekeep \/ Route
  <2>1. UNCHANGED guardVars
    BY <1>9 DEF TakeContext, FetchOrderBook, AskGrok, CheckCooldown, CallRaises, Backoff,
                ChainTimeout, Gatekeep, Route, GuardUnchanged
  <2>2. ~InFlight'
    <3>1. CASE Finish  BY <3>1 DEF Finish, Idle, InFlight
    <3>2. CASE \E s \in Stages \ {"calling", "reflecting"} : GoTo(s)
      BY <1>1, <3>2 DEF GoTo, InFlight, FrameOK, AnyFrame
    <3>3. CASE TakeContext(CHOOSE m \in Markets : TakeContext(m))
      BY <3>3 DEF TakeContext, Idle, InFlight
    <3>4. CASE FetchOrderBook /\ ~Finish
      BY <1>1, <3>4 DEF FetchOrderBook, InFlight, FrameOK, AnyFrame
    <3>5. CASE AskGrok
      BY <1>1, <3>5 DEF AskGrok, SentimentReturned, At, InFlight, FrameOK, AnyFrame
    <3>6. CASE Backoff
      BY <1>1, <3>6 DEF Backoff, InFlight, FrameOK, AnyFrame
    <3> QED
      BY <1>9, <3>1, <3>2, <3>3, <3>4, <3>5, <3>6
         DEF CheckCooldown, CallRaises, ChainTimeout, Gatekeep, Route, Stages
  <2> QED  BY <1>7, <2>1, <2>2
<1>10. CASE Clock \/ UNCHANGED vars
  BY <1>10 DEF Clock, Tick, vars, SpendInv, Counts, InFlight
<1> QED
  BY <1>2, <1>3, <1>5, <1>6, <1>8, <1>9, <1>10 DEF Next, Evaluate

(* SpendBounded for every instance: reservation before the call, correction *)
(* after it and the windows between them bound what a day costs             *)
(* (check_budget(), record_usage()).                                        *)
THEOREM SpendingBounded == Spec => []SpendBounded
<1>1. Init => SpendInv
  BY GuardAssumption DEF Init, GuardInit, SpendInv, Counts, Nothing
<1>2. Typed /\ SpendInv /\ [Next]_vars => SpendInv'  BY CountsStep
<1>3. Typed /\ SpendInv => SpendBounded
  BY GuardAssumption DEF Typed, GuardTypeOK, Guards, SpendInv, Counts, SpendBounded
<1> QED  BY <1>1, <1>2, <1>3, AlwaysTyped, PTL DEF Spec

-------------------------------------------------------------------------------
(* RepeatedFailuresCool for every instance: whichever outcomes, retries and *)
(* expired cooldowns come between (record_outcome()).                       *)
THEOREM FailuresCool == Spec => []RepeatedFailuresCool
<1>1. Init => RepeatedFailuresCool
  BY BreakerAssumption DEF Init, CognitiveInit, Fresh, RepeatedFailuresCool
<1>2. Typed /\ RepeatedFailuresCool /\ [Next]_vars => RepeatedFailuresCool'
  <2> SUFFICES ASSUME Typed, RepeatedFailuresCool, [Next]_vars
               PROVE  RepeatedFailuresCool'
    OBVIOUS
  <2>1. FrameOK /\ CognitiveTypeOK /\ now \in Nat  BY DEF Typed, GuardTypeOK
  <2>2. CASE \E m \in Markets : PassCooldown(m)
    <3>1. PICK m \in Markets : PassCooldown(m)  BY <2>2
    <3>2. cognitive' \in {cognitive, [cognitive EXCEPT ![m] = Fresh]}
      BY <3>1 DEF PassCooldown
    <3>3. Fresh.invalid = 0  BY DEF Fresh
    <3> QED  BY <2>1, <3>2, <3>3, BreakerAssumption DEF RepeatedFailuresCool, CognitiveTypeOK
  <2>3. CASE \E m \in Markets, o \in Outcomes : RecordOutcome(m, o)
    <3>1. PICK m \in Markets, o \in Outcomes : RecordOutcome(m, o)  BY <2>3
    <3> DEFINE c == Counted(cognitive[m], o)
               d == IF Reached(c, o) THEN [c EXCEPT !.until = now + Cooldown] ELSE c
    <3>2. c \in CognitiveStates  BY <2>1, CountedTyped DEF CognitiveTypeOK
    <3>3. cognitive' \in {cognitive, [cognitive EXCEPT ![m] = d]}
      BY <3>1 DEF RecordOutcome
    <3>4. o \notin Invalid => c.invalid = 0
      BY <2>1 DEF Counted, Outcomes, CognitiveTypeOK, CognitiveStates
    <3>5. d.invalid >= InvalidThreshold => d.until # Never
      <4>1. CASE Reached(c, o)
        BY <2>1, <3>2, <4>1, BreakerAssumption DEF CognitiveStates, Never
      <4>2. CASE ~Reached(c, o)
        BY <3>2, <3>4, <4>2, BreakerAssumption DEF Reached, CognitiveStates
      <4> QED  BY <4>1, <4>2
    <3> HIDE DEF d
    <3> QED  BY <2>1, <3>3, <3>5 DEF RepeatedFailuresCool, CognitiveTypeOK
  <2>4. CASE UNCHANGED cognitive  BY <2>4 DEF RepeatedFailuresCool
  <2> QED  BY <2>1, <2>2, <2>3, <2>4, CognitiveStep
<1> QED  BY <1>1, <1>2, AlwaysTyped, PTL DEF Spec
-------------------------------------------------------------------------------
Routable == {"APPROVED", "ADJUSTED", "soft"}

(* What stands before the Gatekeeper and the router is reflected or a HOLD. *)
ReflectedOrHold ==
    frame.stage \in {"decide", "persist"} => frame.verdict \in Routable \/ ~frame.candidate.decision

RoutesInv == ReflectedOrHold /\ OnlyReflectedRoutes

(* A rejection without advisory flags leaves a HOLD. *)
LEMMA RejectedHolds ==
    ASSUME FrameOK, NEW v \in {"APPROVED", "ADJUSTED", "REJECTED"}, NEW f \in Flags,
           NEW c \in AnyCandidate, Reflected(v, f, c)
    PROVE  ReflectedOrHold'
<1> DEFINE next == Verdicted(frame.candidate, v, f, c, SoftFactor)
           why == IF v = "REJECTED" THEN f ELSE v
<1>1. /\ frame' = [frame EXCEPT !.stage = "decide", !.candidate = next, !.verdict = why]
      /\ frame \in AnyFrame
  BY DEF Reflected, FrameOK
<1>2. why \in Routable \/ ~next.decision
  <2>1. CASE v = "REJECTED" /\ f # "soft"
    <3>1. next = HoldCandidate(frame.candidate)
      BY <2>1 DEF Verdicted, Severity, Flags
    <3>2. frame.candidate \in AnyCandidate  BY DEF FrameOK, AnyFrame
    <3> HIDE DEF next
    <3> QED  BY <3>1, <3>2 DEF HoldCandidate, AnyCandidate
  <2>2. CASE ~(v = "REJECTED" /\ f # "soft")
    BY <2>2 DEF Routable
  <2> QED  BY <2>1, <2>2
<1> HIDE DEF next, why
<1>3. frame'.candidate = next /\ frame'.verdict = why
  BY <1>1 DEF AnyFrame
<1> QED  BY <1>2, <1>3 DEF ReflectedOrHold

(* No other step comes before the Gatekeeper. *)
LEMMA RoutesStep == Typed /\ RoutesInv /\ [Next]_vars => RoutesInv'
<1> SUFFICES ASSUME Typed, RoutesInv, [Next]_vars PROVE RoutesInv'
  OBVIOUS
<1>1. FrameOK  BY DEF Typed
<1>2. ASSUME NEW s, frame'.stage = s, s \notin {"decide", "persist"} PROVE ReflectedOrHold'
  BY <1>2 DEF ReflectedOrHold
<1>3. Finish => ReflectedOrHold'  BY DEF Finish, Idle, ReflectedOrHold
<1>4. ASSUME NEW s \in Stages \ {"decide", "persist"}, GoTo(s) PROVE ReflectedOrHold'
  BY <1>1, <1>4 DEF GoTo, FrameOK, AnyFrame, ReflectedOrHold
<1>5. CASE Gatekeep
  <2>1. CASE GoTo("persist")
    BY <1>1, <1>5, <2>1 DEF Gatekeep, At, GoTo, FrameOK, AnyFrame, RoutesInv, ReflectedOrHold,
                            RestUnchanged, OnlyReflectedRoutes
  <2> QED  BY <1>3, <1>5, <2>1 DEF Gatekeep, RestUnchanged, RoutesInv, OnlyReflectedRoutes
<1>6. CASE Route
  <2>1. ReflectedOrHold'  BY <1>3, <1>6 DEF Route
  <2>2. Response.decision => frame.verdict \in Routable
    BY <1>6 DEF Route, At, Response, Overridden, RoutesInv, ReflectedOrHold
  <2>3. OnlyReflectedRoutes'
    BY <1>6, <2>2 DEF Route, RoutesInv, OnlyReflectedRoutes, Routable
  <2> QED  BY <2>1, <2>3 DEF RoutesInv
<1>7. CASE ~Gatekeep /\ ~Route
  <2>1. UNCHANGED executions
    BY <1>7 DEF Next, Evaluate, TakeContext, FetchOrderBook, AskGrok, CheckCooldown,
                CheckPrimary, AnswerJson, AnswerMalformed, CallRaises, Backoff, ChainTimeout,
                CheckReflection, ReflectionAnswers, Clock, RestUnchanged, vars
  <2>2. ReflectedOrHold'
    <3>1. CASE \E m \in Markets : TakeContext(m)
      BY <3>1 DEF TakeContext, Idle, ReflectedOrHold
    <3>2. CASE FetchOrderBook
      <4>1. CASE ~Finish
        BY <1>1, <3>2, <4>1 DEF FetchOrderBook, FrameOK, AnyFrame, ReflectedOrHold
      <4> QED  BY <1>3, <4>1
    <3>3. CASE AskGrok
      BY <1>1, <3>3 DEF AskGrok, SentimentReturned, At, FrameOK, AnyFrame, ReflectedOrHold
    <3>4. CASE CheckCooldown \/ CheckPrimary \/ CallRaises \/ ChainTimeout
      BY <1>3, <1>4, <3>4 DEF CheckCooldown, CheckPrimary, CallRaises, ChainTimeout, Stages
    <3>5. CASE AnswerJson
      BY <1>1, <3>5 DEF AnswerJson, FrameOK, AnyFrame, ReflectedOrHold
    <3>6. CASE AnswerMalformed \/ Backoff
      <4>1. CASE frame' = [frame EXCEPT !.stage = "primary", !.attempt = @ + 1]
        BY <1>1, <4>1 DEF FrameOK, AnyFrame, ReflectedOrHold
      <4> QED  BY <1>3, <3>6, <4>1 DEF AnswerMalformed, Backoff
    <3>7. CASE CheckReflection
      BY <1>1, <1>4, <3>7, RejectedHolds, AnswerTyped DEF CheckReflection, Stages, Flags
    <3>8. CASE ReflectionAnswers
      <4>1. PICK v \in {"APPROVED", "ADJUSTED", "REJECTED"}, f \in Flags,
                 c \in AnyCandidate : Reflected(v, f, c)
        BY <3>8, AnswerTyped DEF ReflectionAnswers, Flags
      <4> QED  BY <1>1, <4>1, RejectedHolds
    <3>9. CASE Clock \/ UNCHANGED vars
      BY <3>9 DEF Clock, vars, RoutesInv, ReflectedOrHold
    <3> QED
      BY <1>7, <3>1, <3>2, <3>3, <3>4, <3>5, <3>6, <3>7, <3>8, <3>9 DEF Next, Evaluate
  <2> QED  BY <2>1, <2>2 DEF RoutesInv, OnlyReflectedRoutes
<1> QED  BY <1>5, <1>6, <1>7

(* OnlyReflectedRoutes for every instance: nothing reaches the execution    *)
(* queue past the reflection, whatever budget, provider and clock do        *)
(* (_run_reflection_audit(), _apply_reflection_verdict()).                  *)
THEOREM ReflectedRoutes == Spec => []OnlyReflectedRoutes
<1>1. Init => RoutesInv
  BY DEF Init, Idle, RoutesInv, ReflectedOrHold, OnlyReflectedRoutes
<1>2. Typed /\ RoutesInv /\ [Next]_vars => RoutesInv'  BY RoutesStep
<1>3. RoutesInv => OnlyReflectedRoutes  BY DEF RoutesInv
<1> QED  BY <1>1, <1>2, <1>3, AlwaysTyped, PTL DEF Spec
-------------------------------------------------------------------------------
(* The first attempt of an evaluation waits outside any cooldown. *)
FirstIsWarm == frame.stage = "primary" /\ frame.attempt = 0 => ~InCooldown(Market)

(* A market that is not in cooldown stays out of it as time passes. *)
LEMMA StaysWarm ==
    ASSUME now \in Nat, CognitiveTypeOK, NEW m \in Markets, ~InCooldown(m),
           now' \in {now, now + 1}, UNCHANGED cognitive
    PROVE  ~InCooldown(m)'
BY DEF InCooldown, CognitiveTypeOK, CognitiveStates, Times, Never

(* A cooldown has been asked for just before the first attempt. *)
LEMMA WarmStep == Typed /\ FirstIsWarm /\ [Next]_vars => FirstIsWarm'
<1> SUFFICES ASSUME Typed, FirstIsWarm, [Next]_vars, NEW m, m = frame'.market,
                    frame'.stage = "primary", frame'.attempt = 0
             PROVE  ~InCooldown(m)'
  BY DEF FirstIsWarm, Market, InCooldown
<1>1. FrameOK /\ CognitiveTypeOK /\ now \in Nat  BY DEF Typed, GuardTypeOK
<1>2. frame \in AnyFrame /\ frame.attempt + 1 # 0
  BY <1>1 DEF FrameOK, AnyFrame
<1>3. ~Finish  BY DEF Finish, Idle
<1>4. CASE CheckCooldown
  <2>1. PassCooldown(Market) /\ GoTo("primary") /\ UNCHANGED now
    BY <1>3, <1>4 DEF CheckCooldown, GuardUnchanged, guardVars
  <2>2. m = Market  BY <1>2, <2>1 DEF GoTo, AnyFrame, Market
  <2>3. m \in Markets  BY <1>1, <1>4, <2>2, MarketIsOne DEF CheckCooldown, At
  <2>4. PassCooldown(m)  BY <2>1, <2>2
  <2>5. CASE cognitive[m].until = Never
    BY <2>4, <2>5 DEF PassCooldown, InCooldown
  <2>6. CASE cognitive[m].until # Never
    <3>1. cognitive' = [cognitive EXCEPT ![m] = Fresh]  BY <2>4, <2>6 DEF PassCooldown
    <3>2. cognitive'[m].until = Never  BY <1>1, <2>3, <3>1 DEF CognitiveTypeOK, Fresh
    <3> QED  BY <3>2 DEF InCooldown
  <2> QED  BY <2>5, <2>6
<1>5. CASE Clock \/ UNCHANGED vars
  <2>1. UNCHANGED <<frame, cognitive>> /\ now' \in {now, now + 1}
    BY <1>5 DEF Clock, Tick, vars
  <2>2. m = Market /\ m \in Markets  BY <1>1, <2>1, MarketIsOne DEF Market
  <2> QED  BY <1>1, <2>1, <2>2, StaysWarm DEF FirstIsWarm
<1>6. CASE ~CheckCooldown /\ ~Clock /\ ~UNCHANGED vars
  <2>1. CASE \E s \in Stages \ {"primary"} : GoTo(s)  BY <1>2, <2>1 DEF GoTo, AnyFrame
  <2>2. CASE \E k \in Markets : TakeContext(k)  BY <2>2 DEF TakeContext, Idle
  <2>3. CASE FetchOrderBook  BY <1>2, <1>3, <2>3 DEF FetchOrderBook, AnyFrame
  <2>4. CASE AskGrok  BY <1>2, <2>4 DEF AskGrok, SentimentReturned, At, AnyFrame
  <2>5. CASE AnswerJson  BY <1>2, <2>5 DEF AnswerJson, AnyFrame
  <2>6. CASE frame' = [frame EXCEPT !.stage = "primary", !.attempt = @ + 1]
    BY <1>2, <2>6 DEF AnyFrame
  <2>7. CASE \E v, f, c : Reflected(v, f, c)
    BY <1>1, <2>7, ReflectedDecides
  <2> QED
    BY <1>3, <1>6, <2>1, <2>2, <2>3, <2>4, <2>5, <2>6, <2>7
       DEF Next, Evaluate, CheckPrimary, AnswerMalformed, CallRaises, Backoff, ChainTimeout,
           CheckReflection, ReflectionAnswers, Gatekeep, Route, Stages
<1> QED  BY <1>4, <1>5, <1>6

(* NoFirstCallInCooldown for every instance: no await between the cooldown  *)
(* check and the first call lets a cooldown begin (check_cooldown()).       *)
THEOREM FirstCallsWarm == Spec => NoFirstCallInCooldown
<1>1. Init => FirstIsWarm  BY DEF Init, Idle, FirstIsWarm
<1>2. Typed /\ FirstIsWarm /\ [Next]_vars => FirstIsWarm'  BY WarmStep
<1>3. FirstIsWarm /\ [Next]_vars =>
        [frame.attempt = 0 /\ At("primary") /\ frame'.stage = "calling"
           => ~InCooldown(Market)]_vars
  BY DEF FirstIsWarm, At
<1> QED  BY <1>1, <1>2, <1>3, AlwaysTyped, PTL DEF Spec, NoFirstCallInCooldown
-------------------------------------------------------------------------------
(* What counts of the day's totals, if the day they belong to is not over. *)
UsedToday(r) == IF DayExpired(guard) THEN 0 ELSE guard.used[r]

(* A call of this type and market has room under every limit. *)
Room(type, m) ==
    /\ HourlyLimit[type] # 0
    /\ HourExpired(guard) \/ guard.hourly[type] < HourlyLimit[type]
    /\ DailyLimit # 0
    /\ DayExpired(guard) \/ guard.daily < DailyLimit
    /\ \A r \in Resources : /\ Quota[r] # 0
                            /\ UsedToday(r) < Quota[r]
                            /\ UsedToday(r) + Reserve[r] <= Quota[r]
    /\ MarketLimit # 0
    /\ \/ DayExpired(guard) \/ guard.reset[m] = Never \/ now >= guard.reset[m]
       \/ guard.calls[m] < MarketLimit

(* What a state of the guard has room for. *)
LEMMA NoReason ==
    ASSUME NEW g \in Guards, NEW type \in CallTypes, NEW m \in Markets
    PROVE  /\ GlobalReason(g, type) = "none" <=>
                /\ HourlyLimit[type] # 0 /\ g.hourly[type] < HourlyLimit[type]
                /\ DailyLimit # 0 /\ g.daily < DailyLimit
                /\ \A r \in Resources : Quota[r] # 0 /\ g.used[r] < Quota[r]
           /\ BlockReason(g, type, m) = "none" <=>
                /\ GlobalReason(g, type) = "none"
                /\ MarketLimit # 0 /\ g.calls[m] < MarketLimit
                /\ \A r \in Resources : g.used[r] + Reserve[r] <= Quota[r]
<1>1. /\ g.hourly[type] \in Nat /\ HourlyLimit[type] \in Nat /\ g.daily \in Nat
      /\ g.calls[m] \in Nat
      /\ \A r \in Resources : g.used[r] \in Int /\ Quota[r] \in Nat /\ Reserve[r] \in Nat
  BY GuardAssumption DEF Guards
<1>2. GlobalReason(g, type) = "none" <=>
        /\ ~Blocking(g.hourly[type], HourlyLimit[type])
        /\ ~Blocking(g.daily, DailyLimit)
        /\ \A r \in Resources : ~Blocking(g.used[r], Quota[r])
  BY DEF GlobalReason
<1>3. GlobalReason(g, type) = "none" <=>
        /\ HourlyLimit[type] # 0 /\ g.hourly[type] < HourlyLimit[type]
        /\ DailyLimit # 0 /\ g.daily < DailyLimit
        /\ \A r \in Resources : Quota[r] # 0 /\ g.used[r] < Quota[r]
  BY <1>1, <1>2, GuardAssumption DEF Blocking
<1>4. BlockReason(g, type, m) = "none" <=>
        /\ GlobalReason(g, type) = "none"
        /\ ~Blocking(g.calls[m], MarketLimit)
        /\ ReserveReason(g) = "none"
  BY DEF BlockReason
<1>5. ReserveReason(g) = "none" <=> \A r \in Resources : g.used[r] + Reserve[r] <= Quota[r]
  BY <1>1 DEF ReserveReason
<1>6. ~Blocking(g.calls[m], MarketLimit) <=> MarketLimit # 0 /\ g.calls[m] < MarketLimit
  BY <1>1, GuardAssumption DEF Blocking
<1> QED  BY <1>3, <1>4, <1>5, <1>6

(* What the windows leave of the counters. *)
LEMMA RolledFields ==
    ASSUME GuardTypeOK, NEW m \in Markets
    PROVE  LET g == Rolled(guard) IN
           /\ g.hourly = IF HourExpired(guard) THEN [t \in CallTypes |-> 0] ELSE guard.hourly
           /\ g.daily = IF DayExpired(guard) THEN 0 ELSE guard.daily
           /\ g.calls = IF DayExpired(guard) THEN [k \in Markets |-> 0] ELSE guard.calls
           /\ g.reset = IF DayExpired(guard) THEN [k \in Markets |-> Never] ELSE guard.reset
<1> DEFINE h == RollHour(guard)
<1>1. h \in Guards  BY RolledTyped DEF GuardTypeOK
<1>2. /\ h.hourly = IF HourExpired(guard) THEN [t \in CallTypes |-> 0] ELSE guard.hourly
      /\ h.daily = guard.daily /\ h.calls = guard.calls /\ h.reset = guard.reset
      /\ h.dayStart = guard.dayStart
  BY DEF RollHour, GuardTypeOK, Guards
<1>3. DayExpired(h) <=> DayExpired(guard)  BY <1>2 DEF DayExpired
<1> HIDE DEF h
<1>4. /\ RollDay(h).hourly = h.hourly
      /\ RollDay(h).daily = IF DayExpired(h) THEN 0 ELSE h.daily
      /\ RollDay(h).calls = IF DayExpired(h) THEN [k \in Markets |-> 0] ELSE h.calls
      /\ RollDay(h).reset = IF DayExpired(h) THEN [k \in Markets |-> Never] ELSE h.reset
  BY <1>1 DEF RollDay, Guards
<1> QED  BY <1>2, <1>3, <1>4 DEF Rolled, h

(* check_budget() allows a call exactly if there is room. *)
LEMMA CheckedRoom ==
    ASSUME GuardTypeOK, NEW type \in CallTypes, NEW m \in Markets
    PROVE  CheckReason(type, m) = "none" <=> Room(type, m)
<1> DEFINE g == Rolled(guard)
           c == Checked(type, m)
<1>1. g \in Guards /\ c \in Guards  BY RolledTyped, CheckedTyped DEF GuardTypeOK
<1>2. \A r \in Resources : g.used[r] = UsedToday(r) /\ c.used[r] = UsedToday(r)
  BY RolledUsed, CheckedUsed DEF UsedToday, Nothing
<1>3. /\ g.hourly[type] = IF HourExpired(guard) THEN 0 ELSE guard.hourly[type]
      /\ g.daily = IF DayExpired(guard) THEN 0 ELSE guard.daily
      /\ g.calls[m] = IF DayExpired(guard) THEN 0 ELSE guard.calls[m]
      /\ g.reset[m] = IF DayExpired(guard) THEN Never ELSE guard.reset[m]
  BY RolledFields
<1>4. c = IF GlobalReason(g, type) = "none" THEN MarketRolled(g, m) ELSE g
  BY DEF Checked
<1> HIDE DEF g, c
<1>5. /\ c.hourly = g.hourly /\ c.daily = g.daily
      /\ GlobalReason(g, type) = "none" =>
           c.calls[m] = IF g.reset[m] = Never \/ now >= g.reset[m] THEN 0 ELSE g.calls[m]
  BY <1>1, <1>4 DEF MarketRolled, Guards
<1>6. GlobalReason(c, type) = "none" <=> GlobalReason(g, type) = "none"
  BY <1>1, <1>2, <1>5, NoReason
<1>7. GlobalReason(g, type) = "none" <=>
        /\ HourlyLimit[type] # 0
        /\ HourExpired(guard) \/ guard.hourly[type] < HourlyLimit[type]
        /\ DailyLimit # 0
        /\ DayExpired(guard) \/ guard.daily < DailyLimit
        /\ \A r \in Resources : Quota[r] # 0 /\ UsedToday(r) < Quota[r]
  <2>1. /\ 0 < HourlyLimit[type] \/ HourlyLimit[type] = 0
        /\ 0 < DailyLimit \/ DailyLimit = 0
    BY GuardAssumption
  <2> QED  BY <1>1, <1>2, <1>3, <2>1, NoReason
<1>8. GlobalReason(g, type) = "none" =>
        (/\ MarketLimit # 0 /\ c.calls[m] < MarketLimit
         <=> /\ MarketLimit # 0
             /\ \/ DayExpired(guard) \/ guard.reset[m] = Never \/ now >= guard.reset[m]
                \/ guard.calls[m] < MarketLimit)
  BY <1>3, <1>5, GuardAssumption
<1>9. CheckReason(type, m) = BlockReason(c, type, m)  BY DEF CheckReason, c
<1> QED  BY <1>1, <1>2, <1>6, <1>7, <1>8, <1>9, NoReason DEF Room
(* peek_budget() sees the same room. *)
LEMMA PeekedRoom ==
    ASSUME GuardTypeOK, NEW type \in CallTypes, NEW m \in Markets
    PROVE  PeekReason(type, m) = "none" => Room(type, m)
<1> DEFINE g == Peeked(guard, m)
           hourly == IF HourExpired(guard) THEN [t \in CallTypes |-> 0] ELSE guard.hourly
           daily == IF DayExpired(guard) THEN 0 ELSE guard.daily
           used == IF DayExpired(guard) THEN Nothing ELSE guard.used
           calls == [guard.calls EXCEPT ![m] =
                       IF \/ guard.reset[m] = Never \/ now >= guard.reset[m] \/ DayExpired(guard)
                       THEN 0 ELSE @]
<1>1. guard \in Guards  BY DEF GuardTypeOK
<1>2. /\ hourly \in [CallTypes -> Nat] /\ daily \in Nat /\ used \in [Resources -> Int]
      /\ calls \in [Markets -> Nat]
  BY <1>1 DEF Guards, Nothing
<1>3. g = [guard EXCEPT !.hourly = hourly, !.daily = daily, !.calls = calls, !.used = used]
  BY <1>1 DEF Peeked, Guards
<1>4. /\ \A r \in Resources : used[r] = UsedToday(r)
      /\ hourly[type] = IF HourExpired(guard) THEN 0 ELSE guard.hourly[type]
      /\ daily = IF DayExpired(guard) THEN 0 ELSE guard.daily
      /\ calls[m] = IF \/ guard.reset[m] = Never \/ now >= guard.reset[m] \/ DayExpired(guard)
                    THEN 0 ELSE guard.calls[m]
  BY <1>1 DEF UsedToday, Nothing, Guards
<1>5. PeekReason(type, m) = BlockReason(g, type, m)  BY DEF PeekReason
<1> HIDE DEF g, hourly, daily, used, calls
<1>6. g \in Guards  BY <1>1, <1>2, <1>3, CountersTyped
<1>7. g.hourly = hourly /\ g.daily = daily /\ g.used = used /\ g.calls = calls
  BY <1>1, <1>3 DEF Guards
<1>8. PeekReason(type, m) = "none" =>
        /\ HourlyLimit[type] # 0 /\ g.hourly[type] < HourlyLimit[type]
        /\ DailyLimit # 0 /\ g.daily < DailyLimit
        /\ \A r \in Resources : /\ Quota[r] # 0 /\ g.used[r] < Quota[r]
                                /\ g.used[r] + Reserve[r] <= Quota[r]
        /\ MarketLimit # 0 /\ g.calls[m] < MarketLimit
  BY <1>5, <1>6, NoReason
<1> QED  BY <1>4, <1>7, <1>8 DEF Room

(* Where a total has fallen below zero, a reservation has fitted before.   *)
ReserveFits(pending) ==
    \A r \in Resources : pending \/ guard.used[r] < 0 => Reserve[r] <= Quota[r]

(* Time only opens new windows: it takes no room away. *)
LEMMA RoomStays ==
    ASSUME GuardTypeOK, ReserveFits(FALSE), NEW type \in CallTypes, NEW m \in Markets,
           Room(type, m), Tick
    PROVE  Room(type, m)'
<1>1. now' = now + 1 /\ guard' = guard  BY DEF Tick
<1>2. /\ guard.hourStart \in Times /\ guard.dayStart \in Times /\ guard.reset[m] \in Times
      /\ now \in Nat
  BY DEF GuardTypeOK, Guards
<1>3. /\ HourExpired(guard) => HourExpired(guard)'
      /\ DayExpired(guard) => DayExpired(guard)'
      /\ now >= guard.reset[m] => now' >= guard'.reset[m]
  BY <1>1, <1>2, GuardAssumption DEF HourExpired, DayExpired, Times, Never
<1>4. ASSUME NEW r \in Resources
      PROVE  /\ Quota[r] # 0
             /\ UsedToday(r)' < Quota[r]
             /\ UsedToday(r)' + Reserve[r] <= Quota[r]
  <2>1. /\ guard.used[r] \in Int /\ Quota[r] \in Nat /\ Reserve[r] \in Nat
    BY GuardAssumption DEF GuardTypeOK, Guards
  <2>2. /\ Quota[r] # 0 /\ UsedToday(r) < Quota[r] /\ UsedToday(r) + Reserve[r] <= Quota[r]
    BY DEF Room
  <2>3. UsedToday(r)' \in {0, UsedToday(r)}
    BY <1>1, <1>3 DEF UsedToday
  <2>4. UsedToday(r) \in {0, guard.used[r]}  BY DEF UsedToday
  <2>5. Reserve[r] <= Quota[r]
    BY <2>1, <2>2, <2>4 DEF ReserveFits
  <2> QED  BY <2>1, <2>2, <2>3, <2>4, <2>5
<1> QED  BY <1>1, <1>3, <1>4 DEF Room

(* Every method of the guard keeps the reservation within reach. *)
LEMMA FitsStep ==
    ASSUME GuardTypeOK, NEW type \in CallTypes, NEW m \in Markets
    PROVE  /\ ReserveFits(FALSE) /\ Allow(type, m) => ReserveFits(TRUE)'
           /\ ReserveFits(FALSE) /\ Block(type, m) => ReserveFits(FALSE)'
<1> DEFINE g == Checked(type, m)
<1>1. g \in Guards /\ g.used = IF DayExpired(guard) THEN Nothing ELSE guard.used
  BY CheckedTyped, CheckedUsed, RolledUsed
<1>2. ASSUME ReserveFits(FALSE), Allow(type, m) PROVE ReserveFits(TRUE)'
  <2>1. ReserveReason(g) = "none"
    BY <1>2 DEF Allow, CheckReason, BlockReason, GlobalReason
  <2>2. ASSUME NEW r \in Resources PROVE Reserve[r] <= Quota[r]
    <3>1. g.used[r] \in Int /\ Reserve[r] \in Nat /\ Quota[r] \in Nat
      BY <1>1, GuardAssumption DEF Guards
    <3>2. g.used[r] + Reserve[r] <= Quota[r]
      BY <2>1, <3>1 DEF ReserveReason
    <3>3. g.used[r] < 0 => Reserve[r] <= Quota[r]
      BY <1>1, <1>2 DEF ReserveFits, Nothing
    <3> HIDE DEF g
    <3> QED  BY <3>1, <3>2, <3>3
  <2> QED  BY <2>2 DEF ReserveFits
<1>3. ASSUME ReserveFits(FALSE), Block(type, m) PROVE ReserveFits(FALSE)'
  BY <1>1, <1>3 DEF Block, ReserveFits, Nothing
<1> QED  BY <1>2, <1>3

(* An evaluation that is about to use what it peeked at. *)
Peeking ==
    /\ frame.peeked
    /\ frame.stage = "grok" \/ (frame.stage \in {"cooldown", "primary"} /\ frame.attempt = 0)

PeekHolds == ReserveFits(InFlight) /\ (Peeking => Room("primary", Market))

(* The guard's part of PeekHolds. *)
LEMMA FitsKept == Typed /\ ReserveFits(InFlight) /\ [Next]_vars => ReserveFits(InFlight)'
<1> SUFFICES ASSUME Typed, ReserveFits(InFlight), [Next]_vars
             PROVE  ReserveFits(InFlight)'
  OBVIOUS
<1>1. GuardTypeOK /\ FrameOK  BY DEF Typed
<1>2. CASE InFlight  BY <1>2 DEF ReserveFits
<1>3. CASE ~InFlight
  <2>1. ReserveFits(FALSE)  BY DEF ReserveFits
  <2>2. CASE CheckPrimary
    <3>1. Market \in Markets  BY <1>1, <2>2, MarketIsOne DEF CheckPrimary, At
    <3>2. CASE Allow("primary", Market)
      BY <1>1, <2>1, <3>1, <3>2, FitsStep DEF CallTypes, ReserveFits
    <3>3. CASE Block("primary", Market) /\ Finish
      <4>1. ~InFlight'  BY <3>3 DEF Finish, Idle, InFlight
      <4> QED  BY <1>1, <2>1, <3>1, <3>3, <4>1, FitsStep DEF CallTypes, ReserveFits
    <3> QED  BY <2>2, <3>2, <3>3 DEF CheckPrimary
  <2>3. CASE CheckReflection
    <3>1. Market \in Markets  BY <1>1, <2>3, MarketIsOne DEF CheckReflection, At
    <3>2. CASE Allow("reflection", Market)
      BY <1>1, <2>1, <3>1, <3>2, FitsStep DEF CallTypes, ReserveFits
    <3>3. CASE Block("reflection", Market) /\ Reflected("REJECTED", "none", NoCandidate)
      <4>1. ~InFlight'  BY <1>1, <3>3, ReflectedDecides DEF InFlight
      <4> QED  BY <1>1, <2>1, <3>1, <3>3, <4>1, FitsStep DEF CallTypes, ReserveFits
    <3> QED  BY <2>3, <3>2, <3>3 DEF CheckReflection
  <2>4. CASE UNCHANGED guard /\ ~InFlight'
    BY <2>1, <2>4 DEF ReserveFits
  <2>5. CASE Clock \/ UNCHANGED vars
    BY <2>1, <2>5 DEF Clock, Tick, vars, InFlight, ReserveFits
  <2>6. ~AnswerJson /\ ~AnswerMalformed /\ ~CallRaises /\ ~ReflectionAnswers
    BY <1>3 DEF AnswerJson, AnswerMalformed, CallRaises, ReflectionAnswers, At, InFlight
  <2>7. CASE \/ \E m \in Markets : TakeContext(m)
             \/ FetchOrderBook \/ AskGrok \/ CheckCooldown \/ Backoff
             \/ ChainTimeout \/ Gatekeep \/ Route
    <3>1. UNCHANGED guard
      BY <2>7 DEF TakeContext, FetchOrderBook, AskGrok, CheckCooldown, Backoff,
                  ChainTimeout, Gatekeep, Route, GuardUnchanged, guardVars
    <3>2. ~InFlight'
      <4>1. CASE Finish  BY <4>1 DEF Finish, Idle, InFlight
      <4>2. CASE \E s \in Stages \ {"calling", "reflecting"} : GoTo(s)
        BY <1>1, <4>2 DEF GoTo, InFlight, FrameOK, AnyFrame
      <4>3. CASE \E m \in Markets : TakeContext(m)
        BY <4>3 DEF TakeContext, Idle, InFlight
      <4>4. CASE FetchOrderBook /\ ~Finish
        BY <1>1, <4>4 DEF FetchOrderBook, InFlight, FrameOK, AnyFrame
      <4>5. CASE AskGrok
        BY <1>1, <4>5 DEF AskGrok, SentimentReturned, At, InFlight, FrameOK, AnyFrame
      <4>6. CASE Backoff
        BY <1>1, <4>6 DEF Backoff, InFlight, FrameOK, AnyFrame
      <4> QED
        BY <2>7, <4>1, <4>2, <4>3, <4>4, <4>5, <4>6
           DEF CheckCooldown, ChainTimeout, Gatekeep, Route, Stages
    <3> QED  BY <2>4, <3>1, <3>2
  <2> QED  BY <2>2, <2>3, <2>5, <2>6, <2>7 DEF Next, Evaluate
<1> QED  BY <1>2, <1>3

(* The frame's part. *)
LEMMA PeekStep == Typed /\ PeekHolds /\ [Next]_vars => PeekHolds'
<1> SUFFICES ASSUME Typed, PeekHolds, [Next]_vars, Peeking' PROVE Room("primary", Market)'
  BY FitsKept DEF PeekHolds
<1>1. GuardTypeOK /\ FrameOK /\ frame \in AnyFrame /\ "primary" \in CallTypes
  BY DEF Typed, FrameOK, CallTypes
<1>2. frame.attempt + 1 # 0  BY <1>1 DEF AnyFrame
<1>3. ~Finish  BY DEF Finish, Idle, Peeking
<1>4. ASSUME UNCHANGED <<now, guard>>, Room("primary", Market), frame'.market = frame.market
      PROVE  Room("primary", Market)'
  BY <1>4 DEF Room, UsedToday, HourExpired, DayExpired, Market
<1>5. CASE FetchOrderBook
  <2>1. frame.stage = "book" /\ UNCHANGED <<now, guard>>
    BY <1>5 DEF FetchOrderBook, At, GuardUnchanged, guardVars
  <2>2. PICK e \in BOOLEAN : frame'.peeked = WantsSentiment(e) /\ frame'.market = frame.market
    <3>1. PICK book \in BookAnswers, e \in BOOLEAN :
             frame' = [frame EXCEPT !.snapshot = ParseOrderBook(book),
                         !.peeked = WantsSentiment(e),
                         !.stage = IF WantsSentiment(e) THEN "grok" ELSE "cooldown"]
      BY <1>3, <1>5 DEF FetchOrderBook
    <3> QED  BY <1>1, <3>1 DEF AnyFrame
  <2>3. PeekReason("primary", Market) = "none"
    BY <2>2 DEF Peeking, WantsSentiment
  <2>4. Market \in Markets  BY <1>1, <2>1, MarketIsOne
  <2> QED  BY <1>1, <1>4, <2>1, <2>2, <2>3, <2>4, PeekedRoom
<1>6. CASE AskGrok
  <2>1. UNCHANGED <<now, guard>> /\ frame.stage = "grok"
    BY <1>6 DEF AskGrok, At, GuardUnchanged, guardVars
  <2>2. frame'.peeked = frame.peeked /\ frame'.market = frame.market
    BY <1>1, <1>6 DEF AskGrok, SentimentReturned, AnyFrame
  <2> QED  BY <1>4, <2>1, <2>2 DEF Peeking, PeekHolds
<1>7. CASE CheckCooldown
  <2>1. UNCHANGED <<now, guard>> /\ frame.stage = "cooldown" /\ GoTo("primary")
    BY <1>3, <1>7 DEF CheckCooldown, At, GuardUnchanged, guardVars
  <2>2. /\ frame'.peeked = frame.peeked /\ frame'.market = frame.market
        /\ frame'.attempt = frame.attempt /\ frame'.stage = "primary"
    BY <1>1, <2>1 DEF GoTo, AnyFrame
  <2> QED  BY <1>4, <2>1, <2>2 DEF Peeking, PeekHolds
<1>8. CASE Clock
  <2>1. Tick /\ frame' = frame  BY <1>8 DEF Clock
  <2>2. Peeking /\ Market' = Market  BY <2>1 DEF Peeking, Market
  <2>3. Market \in Markets  BY <1>1, <2>2, MarketIsOne DEF Peeking
  <2>4. ReserveFits(FALSE)  BY DEF PeekHolds, ReserveFits
  <2>5. \A m \in Markets : Room("primary", m) => Room("primary", m)'
    BY <1>1, <2>1, <2>4, RoomStays
  <2>6. \A m \in Markets : m = Market' /\ Room("primary", m)' => Room("primary", Market)'
    BY DEF Room
  <2>7. PICK m \in Markets : m = Market  BY <2>3
  <2>8. Room("primary", m)  BY <2>2, <2>7 DEF PeekHolds
  <2>9. Room("primary", m)'  BY <2>5, <2>8
  <2> QED  BY <2>2, <2>6, <2>7, <2>9
<1>9. CASE UNCHANGED vars
  BY <1>4, <1>9 DEF vars, PeekHolds, Peeking
<1>10. CASE ~FetchOrderBook /\ ~AskGrok /\ ~CheckCooldown /\ ~Clock /\ ~UNCHANGED vars
  <2>1. CASE \E s \in Stages \ {"grok", "cooldown", "primary"} : GoTo(s)
    BY <1>1, <2>1 DEF GoTo, AnyFrame, Peeking
  <2>2. CASE \E m \in Markets : TakeContext(m)  BY <2>2 DEF TakeContext, Idle, Peeking
  <2>3. CASE AnswerJson  BY <1>1, <2>3 DEF AnswerJson, AnyFrame, Peeking
  <2>4. CASE frame' = [frame EXCEPT !.stage = "primary", !.attempt = @ + 1]
    BY <1>1, <1>2, <2>4 DEF AnyFrame, Peeking
  <2>5. CASE \E v, f, c : Reflected(v, f, c)
    BY <1>1, <2>5, ReflectedDecides DEF Peeking
  <2> QED
    BY <1>3, <1>10, <2>1, <2>2, <2>3, <2>4, <2>5
       DEF Next, Evaluate, CheckPrimary, AnswerMalformed, CallRaises, Backoff, ChainTimeout,
           CheckReflection, ReflectionAnswers, Gatekeep, Route, Stages
<1> QED  BY <1>5, <1>6, <1>7, <1>8, <1>9, <1>10

(* SentimentNotWasted for every instance: what peek_budget() sees,          *)
(* check_budget() sees too, and no passing window takes it away.            *)
THEOREM PeekReliable == Spec => []SentimentNotWasted
<1>1. Init => PeekHolds
  BY DEF Init, GuardInit, Idle, PeekHolds, Peeking, ReserveFits, InFlight, Nothing
<1>2. Typed /\ PeekHolds /\ [Next]_vars => PeekHolds'  BY PeekStep
<1>3. Typed /\ PeekHolds => SentimentNotWasted
  <2> SUFFICES ASSUME Typed, PeekHolds, frame.peeked, frame.attempt = 0,
                      frame.stage \in {"grok", "cooldown", "primary"}
               PROVE  CheckReason("primary", Market) = "none"
    BY DEF SentimentNotWasted
  <2>1. Market \in Markets  BY MarketIsOne DEF Typed
  <2> QED  BY <2>1, CheckedRoom DEF Typed, PeekHolds, Peeking, CallTypes
<1> QED  BY <1>1, <1>2, <1>3, AlwaysTyped, PTL DEF Spec
-------------------------------------------------------------------------------
(* TypeOK beyond Typed: how often each loop of the evaluation goes round,  *)
(* what its values are at each await, and what was written with them.      *)
AttemptsInv ==
    /\ frame.attempt \in 0 .. (CASE At("grok")    -> GrokRetries
                                [] At("backoff") -> MaxRetries - 1
                                [] OTHER         -> MaxRetries)
    /\ At("book") => frame.attempt = 0

(* Only what the Gatekeeper has validated stands before the decision log.  *)
ValuesInv ==
    /\ frame.snapshot \in Snapshots \cup {NoSnapshot}
    /\ frame.candidate \in Candidates
    /\ At("decide") \/ At("persist") => frame.verdict # NotYet
    /\ At("persist") => Validates(frame.candidate, frame.snapshot)

WrittenInv ==
    /\ executions \subseteq Executions
    /\ blocks \subseteq Markets \X Nat
    /\ taken \in 0 .. MaxEvaluations

TypeInv == AttemptsInv /\ ValuesInv /\ WrittenInv

(* A side of an order book has a lowest and a highest level. *)
LEMMA LowestLevel ==
    ASSUME NEW S \in SUBSET (1 .. 100), S # {}
    PROVE  \E p \in S : \A q \in S : q >= p
<1>1. S \subseteq Nat  OBVIOUS
<1>2. PICK p \in S : \A q \in S : ~ (<<q, p>> \in OpToRel(<, Nat))
  BY <1>1, WFMin, NatLessThanWellFounded, Zenon
<1>3. ASSUME NEW q \in S PROVE ~ (q < p)
  <2>1. q \in Nat /\ p \in Nat  BY <1>1
  <2> QED  BY <1>2, <2>1, Zenon DEF OpToRel
<1> QED  BY <1>1, <1>3

(* And a greatest one. *)
LEMMA HighestLevel ==
    ASSUME NEW S \in SUBSET (1 .. 100), S # {}
    PROVE  \E p \in S : \A q \in S : q <= p
<1> DEFINE T == {n \in 1 .. 100 : 101 - n \in S}
<1>1. PICK s \in S : TRUE  OBVIOUS
<1>2. 101 - s \in 1 .. 100 /\ 101 - (101 - s) = s  OBVIOUS
<1>3. T \in SUBSET (1 .. 100) /\ T # {}  BY <1>2
<1>4. PICK n \in T : \A k \in T : k >= n  BY <1>3, LowestLevel
<1>5. ASSUME NEW q \in S PROVE q <= 101 - n
  <2>1. 101 - q \in 1 .. 100 /\ 101 - (101 - q) = q  OBVIOUS
  <2>2. 101 - q \in T  BY <2>1
  <2>3. 101 - q >= n  BY <1>4, <2>2
  <2> QED  BY <1>3, <2>3
<1> QED  BY <1>4, <1>5

(* _parse_order_book() leaves a snapshot with a price on either side, or   *)
(* none.                                                                   *)
LEMMA ParsedTyped ==
    ASSUME NEW b \in Books
    PROVE  ParseOrderBook(b) \in Snapshots \cup {NoSnapshot}
<1> DEFINE bids == {p \in b.bids : p > 0}
           asks == {p \in b.asks : p > 0}
           bid  == CHOOSE p \in bids : \A q \in bids : q <= p
           ask  == CHOOSE p \in asks : \A q \in asks : q >= p
<1>1. bids \in SUBSET (1 .. 100) /\ asks \in SUBSET (1 .. 100)  BY DEF Books
<1>2. bids # {} => bid \in bids
  <2>1. bids # {} => \E p \in bids : \A q \in bids : q <= p  BY <1>1, HighestLevel
  <2> HIDE DEF bids
  <2> QED  BY <2>1, Zenon
<1>3. asks # {} => ask \in asks
  <2>1. asks # {} => \E p \in asks : \A q \in asks : q >= p  BY <1>1, LowestLevel
  <2> HIDE DEF asks
  <2> QED  BY <2>1, Zenon
<1>4. ParseOrderBook(b) = IF bids = {} \/ asks = {} THEN NoSnapshot
                          ELSE IF ask < bid THEN NoSnapshot
                          ELSE [bid |-> bid, ask |-> ask]
  BY Zenon DEF ParseOrderBook
<1> HIDE DEF bids, asks, bid, ask
<1>5. CASE bids = {} \/ asks = {}  BY <1>4, <1>5
<1>6. CASE bids # {} /\ asks # {}
  <2>1. [bid |-> bid, ask |-> ask] \in Snapshots  BY <1>1, <1>2, <1>3, <1>6 DEF Snapshots
  <2> QED  BY <1>4, <1>6, <2>1
<1> QED  BY <1>5, <1>6

(* A percentage of a percentage is one. *)
LEMMA PenaltyTyped ==
    ASSUME NEW c \in 0 .. 100, NEW f \in 1 .. 100
    PROVE  (c * f) \div 100 \in 0 .. 100
<1>1. c * f \in Nat  OBVIOUS
<1>2. c * f <= 100 * 100  
  <2>1. c * f <= 100 * f  OBVIOUS
  <2> QED  BY <2>1
<1> QED  BY <1>1, <1>2

(* A candidate is one under every verdict. *)
LEMMA VerdictedCandidate ==
    ASSUME NEW c \in Candidates, NEW verdict, NEW flags, NEW corrected \in Candidates
    PROVE  Verdicted(c, verdict, flags, corrected, SoftFactor) \in Candidates
<1>1. HoldCandidate(c) \in Candidates
  <2>1. ASSUME NEW d \in BOOLEAN, NEW a \in {"BUY", "SELL", "HOLD"}, NEW n \in 0 .. 100
        PROVE  [c EXCEPT !.decision = d, !.action = a, !.confidence = n] \in Candidates
    BY DEF Candidates
  <2>2. FALSE \in BOOLEAN /\ "HOLD" \in {"BUY", "SELL", "HOLD"} /\ 0 \in 0 .. 100  OBVIOUS
  <2>3. [c EXCEPT !.decision = FALSE, !.action = "HOLD", !.confidence = 0] \in Candidates
    BY <2>1, <2>2, Zenon
  <2> QED  BY <2>3, Zenon DEF HoldCandidate
<1>2. PenalizedCandidate(c, SoftFactor) \in Candidates
  <2>1. c.confidence \in 0 .. 100  BY DEF Candidates
  <2>2. (c.confidence * SoftFactor) \div 100 \in 0 .. 100
    BY <2>1, PenaltyTyped, EvaluationAssumption
  <2>3. ASSUME NEW n \in 0 .. 100 PROVE [c EXCEPT !.confidence = n] \in Candidates
    BY DEF Candidates
  <2> DEFINE penalized == (c.confidence * SoftFactor) \div 100
  <2>4. ~(penalized > 100)  BY <2>2
  <2>5. PenalizedCandidate(c, SoftFactor) = [c EXCEPT !.confidence = penalized]
    BY <2>4, Zenon DEF PenalizedCandidate
  <2> QED  BY <2>2, <2>3, <2>5, Zenon
<1> QED  BY <1>1, <1>2 DEF Verdicted

-------------------------------------------------------------------------------
(* The end of an evaluation and its way to another await. *)
LEMMA FinishValues ==
    ASSUME Finish
    PROVE  AttemptsInv' /\ ValuesInv'
<1>1. NoCandidate \in Candidates  BY DEF NoCandidate, Candidates
<1>2. /\ frame'.stage = "idle" /\ frame'.attempt = 0
      /\ frame'.candidate = NoCandidate /\ frame'.snapshot = NoSnapshot
  BY DEF Finish, Idle
<1> QED
  BY <1>1, <1>2, EvaluationAssumption DEF AttemptsInv, ValuesInv, At

(* Going on to an await that is not retried keeps the attempts in bounds. *)
LEMMA GoToAttempts ==
    ASSUME AttemptsInv, FrameOK,
           NEW s \in Stages \ {"book", "grok", "backoff"}, GoTo(s),
           ~At("grok")
    PROVE  AttemptsInv'
<1>1. frame'.stage = s /\ frame'.attempt = frame.attempt
  BY DEF GoTo, FrameOK, AnyFrame
<1>2. frame.attempt \in 0 .. MaxRetries
  BY EvaluationAssumption DEF AttemptsInv, At
<1> QED  BY <1>1, <1>2 DEF AttemptsInv, At

(* No loop of the evaluation goes round more often than configured: the    *)
(* count that each starts from is the one its predecessor left.            *)
LEMMA AttemptsStep ==
    ASSUME FrameOK, AttemptsInv, [Next]_vars
    PROVE  AttemptsInv'
<1>0. frame \in AnyFrame  BY DEF FrameOK
<1>1. CASE \E m \in Markets : TakeContext(m)
  <2>1. frame'.stage = "book" /\ frame'.attempt = 0
    BY <1>1 DEF TakeContext, Idle
  <2> QED  BY <2>1, EvaluationAssumption DEF AttemptsInv, At
<1>2. CASE FetchOrderBook
  <2>1. CASE Finish  BY <2>1, FinishValues
  <2>2. CASE ~Finish
    <3>1. frame.attempt = 0  BY <1>2 DEF FetchOrderBook, AttemptsInv
    <3>2. frame'.stage \in {"grok", "cooldown"} /\ frame'.attempt = 0
      BY <1>0, <1>2, <2>2, <3>1 DEF FetchOrderBook, AnyFrame
    <3> QED  BY <3>2, EvaluationAssumption DEF AttemptsInv, At
  <2> QED  BY <2>1, <2>2
<1>3. CASE AskGrok
  <2>1. frame.stage = "grok" /\ frame.attempt \in Nat  BY <1>0, <1>3 DEF AskGrok, At, AnyFrame
  <2>2. CASE SentimentReturned
    <3>1. frame'.stage = "cooldown" /\ frame'.attempt = 0
      BY <1>0, <2>2 DEF SentimentReturned, AnyFrame
    <3> QED  BY <3>1, EvaluationAssumption DEF AttemptsInv, At
  <2>3. CASE /\ frame.attempt < GrokRetries
             /\ frame' = [frame EXCEPT !.attempt = @ + 1]
    <3>1. frame'.stage = "grok" /\ frame'.attempt = frame.attempt + 1
      BY <1>0, <2>1, <2>3 DEF AnyFrame
    <3> QED  BY <2>1, <2>3, <3>1, EvaluationAssumption DEF AttemptsInv, At
  <2> QED  BY <1>3, <2>2, <2>3 DEF AskGrok
<1>4. CASE CheckCooldown
  BY <1>4, FinishValues, GoToAttempts DEF CheckCooldown, At, Stages
<1>5. CASE CheckPrimary
  BY <1>5, FinishValues, GoToAttempts DEF CheckPrimary, At, Stages
<1>6. CASE AnswerJson
  <2>1. frame.stage = "calling" /\ frame'.stage = "reflect" /\ frame'.attempt = frame.attempt
    BY <1>0, <1>6 DEF AnswerJson, At, AnyFrame
  <2> QED  BY <2>1 DEF AttemptsInv, At
<1>7. CASE AnswerMalformed \/ Backoff
  <2>1. CASE Finish  BY <2>1, FinishValues
  <2>2. CASE ~Finish
    <3>1. \/ frame.stage = "calling" /\ frame.attempt < MaxRetries
          \/ frame.stage = "backoff"
      BY <1>7, <2>2 DEF AnswerMalformed, Backoff, At
    <3>2. frame'.stage = "primary" /\ frame'.attempt = frame.attempt + 1
      BY <1>0, <1>7, <2>2 DEF AnswerMalformed, Backoff, AnyFrame
    <3>3. frame.attempt \in Nat /\ frame.attempt < MaxRetries
      BY <1>0, <3>1, EvaluationAssumption DEF AttemptsInv, At, AnyFrame
    <3> QED  BY <3>2, <3>3, EvaluationAssumption DEF AttemptsInv, At
  <2> QED  BY <2>1, <2>2
<1>8. CASE CallRaises
  <2>1. CASE Finish  BY <2>1, FinishValues
  <2>2. CASE ~Finish
    <3>1. frame.stage = "calling" /\ frame.attempt # MaxRetries
      BY <1>8, <2>2 DEF CallRaises, At
    <3>2. frame'.stage = "backoff" /\ frame'.attempt = frame.attempt
      BY <1>0, <1>8, <2>2 DEF CallRaises, GoTo, AnyFrame
    <3> QED  BY <3>1, <3>2, EvaluationAssumption DEF AttemptsInv, At
  <2> QED  BY <2>1, <2>2
<1>9. CASE ChainTimeout  BY <1>9, FinishValues DEF ChainTimeout
<1>10. CASE CheckReflection \/ ReflectionAnswers
  <2>1. frame.stage \in {"reflect", "reflecting"}
    BY <1>10 DEF CheckReflection, ReflectionAnswers, At
  <2>2. frame'.stage \in {"reflecting", "decide"} /\ frame'.attempt = frame.attempt
    BY <1>0, <1>10 DEF CheckReflection, ReflectionAnswers, Reflected, GoTo, AnyFrame
  <2> QED  BY <2>1, <2>2 DEF AttemptsInv, At
<1>11. CASE Gatekeep
  BY <1>11, FinishValues, GoToAttempts DEF Gatekeep, At, Stages
<1>12. CASE Route  BY <1>12, FinishValues DEF Route
<1>13. CASE Clock \/ UNCHANGED vars
  BY <1>13 DEF Clock, vars, AttemptsInv, At
<1> QED
  BY <1>1, <1>2, <1>3, <1>4, <1>5, <1>6, <1>7, <1>8, <1>9, <1>10, <1>11, <1>12, <1>13
  DEF Next, Evaluate

-------------------------------------------------------------------------------
(* A verdict leaves a candidate, and is one. *)
LEMMA ReflectedValues ==
    ASSUME FrameOK, ValuesInv, NEW verdict \in {"APPROVED", "ADJUSTED", "REJECTED"},
           NEW flags \in Flags, NEW c \in Candidates, Reflected(verdict, flags, c)
    PROVE  ValuesInv'
<1> DEFINE next == Verdicted(frame.candidate, verdict, flags, c, SoftFactor)
           said == IF verdict = "REJECTED" THEN flags ELSE verdict
<1>1. next \in Candidates  BY VerdictedCandidate DEF ValuesInv
<1>2. said # NotYet  BY DEF NotYet, Flags
<1>3. frame' = [frame EXCEPT !.stage = "decide", !.candidate = next, !.verdict = said]
  BY DEF Reflected
<1> HIDE DEF next, said
<1>4. /\ frame'.stage = "decide" /\ frame'.candidate = next /\ frame'.verdict = said
      /\ frame'.snapshot = frame.snapshot
  BY <1>3 DEF FrameOK, AnyFrame
<1> QED  BY <1>1, <1>2, <1>4 DEF ValuesInv, At

(* The values of an await are those of the one before, unless the code     *)
(* between them computes new ones.                                         *)
LEMMA GoToValues ==
    ASSUME FrameOK, ValuesInv, NEW s \in Stages \ {"decide", "persist"},
           frame'.stage = s, frame'.candidate = frame.candidate,
           frame'.snapshot = frame.snapshot
    PROVE  ValuesInv'
BY DEF ValuesInv, At

(* A candidate and a snapshot are what the Gatekeeper's arithmetic expects, *)
(* and before the decision log they are what it has accepted.              *)
LEMMA ValuesStep ==
    ASSUME FrameOK, ValuesInv, [Next]_vars
    PROVE  ValuesInv'
<1>0. frame \in AnyFrame  BY DEF FrameOK
<1>1. CASE \E m \in Markets : TakeContext(m)
  <2>1. /\ frame'.stage = "book" /\ frame'.candidate = NoCandidate
        /\ frame'.snapshot = NoSnapshot
    BY <1>1 DEF TakeContext, Idle
  <2>2. NoCandidate \in Candidates  BY DEF NoCandidate, Candidates
  <2> QED  BY <2>1, <2>2 DEF ValuesInv, At
<1>2. CASE FetchOrderBook
  <2>1. CASE Finish  BY <2>1, FinishValues
  <2>2. CASE ~Finish
    <3>1. PICK book \in BookAnswers, eligible \in BOOLEAN :
             frame' = [frame EXCEPT !.snapshot = ParseOrderBook(book),
                         !.peeked = WantsSentiment(eligible),
                         !.stage = IF WantsSentiment(eligible) THEN "grok" ELSE "cooldown"]
      BY <1>2, <2>2 DEF FetchOrderBook
    <3>2. ParseOrderBook(book) \in Snapshots \cup {NoSnapshot}
      BY ParsedTyped, EvaluationAssumption
    <3>3. /\ frame'.stage \in {"grok", "cooldown"}
          /\ frame'.candidate = frame.candidate
          /\ frame'.snapshot = ParseOrderBook(book)
      BY <1>0, <3>1 DEF AnyFrame
    <3> QED  BY <3>2, <3>3 DEF ValuesInv, At
  <2> QED  BY <2>1, <2>2
<1>3. CASE AskGrok
  <2>1. /\ frame'.stage \in {"grok", "cooldown"}
        /\ frame'.candidate = frame.candidate
        /\ frame'.snapshot = frame.snapshot
    BY <1>0, <1>3 DEF AskGrok, SentimentReturned, At, AnyFrame
  <2> QED  BY <2>1, GoToValues DEF Stages
<1>4. CASE AnswerJson
  <2>1. PICK c \in Answers : frame' = [frame EXCEPT !.stage = "reflect", !.candidate = c]
    BY <1>4 DEF AnswerJson
  <2>2. /\ frame'.stage = "reflect" /\ frame'.candidate = c
        /\ frame'.snapshot = frame.snapshot
    BY <1>0, <2>1 DEF AnyFrame
  <2> QED  BY <2>2, EvaluationAssumption DEF ValuesInv, At
<1>5. CASE \/ CheckCooldown \/ CheckPrimary \/ AnswerMalformed \/ CallRaises
           \/ Backoff \/ ChainTimeout
  <2>1. CASE Finish  BY <2>1, FinishValues
  <2>2. CASE ~Finish
    <3>1. /\ frame'.stage \in {"primary", "calling", "backoff"}
          /\ frame'.candidate = frame.candidate
          /\ frame'.snapshot = frame.snapshot
      BY <1>0, <1>5, <2>2
      DEF CheckCooldown, CheckPrimary, AnswerMalformed, CallRaises, Backoff,
          ChainTimeout, GoTo, AnyFrame
    <3> QED  BY <3>1, GoToValues DEF Stages
  <2> QED  BY <2>1, <2>2
<1>6. CASE CheckReflection
  <2>1. NoCandidate \in Candidates  BY DEF NoCandidate, Candidates
  <2>2. CASE GoTo("reflecting")
    <3>1. /\ frame'.stage = "reflecting"
          /\ frame'.candidate = frame.candidate
          /\ frame'.snapshot = frame.snapshot
      BY <1>0, <2>2 DEF GoTo, AnyFrame
    <3> QED  BY <3>1, GoToValues DEF Stages
  <2>3. CASE \E f \in {"infra", "none"} : Reflected("REJECTED", f, NoCandidate)
    BY <2>1, <2>3, ReflectedValues DEF Flags
  <2> QED  BY <1>6, <2>2, <2>3 DEF CheckReflection
<1>7. CASE ReflectionAnswers
  <2>1. NoCandidate \in Candidates  BY DEF NoCandidate, Candidates
  <2>2. PICK v \in {"APPROVED", "ADJUSTED", "REJECTED"}, f \in Flags, c \in Candidates :
           Reflected(v, f, c)
    BY <1>7, <2>1, EvaluationAssumption DEF ReflectionAnswers, Flags
  <2> QED  BY <2>2, ReflectedValues
<1>8. CASE Gatekeep
  <2>1. CASE Finish  BY <2>1, FinishValues
  <2>2. CASE ~Finish
    <3>1. /\ frame.stage = "decide"
          /\ Validates(frame.candidate, frame.snapshot)
          /\ frame' = [frame EXCEPT !.stage = "persist"]
      BY <1>8, <2>2 DEF Gatekeep, GoTo, At
    <3>2. /\ frame'.stage = "persist" /\ frame'.candidate = frame.candidate
          /\ frame'.snapshot = frame.snapshot /\ frame'.verdict = frame.verdict
      BY <1>0, <3>1 DEF AnyFrame
    <3> QED  BY <3>1, <3>2 DEF ValuesInv, At
  <2> QED  BY <2>1, <2>2
<1>9. CASE Route  BY <1>9, FinishValues DEF Route
<1>10. CASE Clock \/ UNCHANGED vars
  BY <1>10 DEF Clock, vars, ValuesInv, At
<1> QED
  BY <1>1, <1>2, <1>3, <1>4, <1>5, <1>6, <1>7, <1>8, <1>9, <1>10 DEF Next, Evaluate

-------------------------------------------------------------------------------
(* What the Gatekeeper has accepted is no decision to hold. *)
LEMMA ValidatedDecides ==
    ASSUME FrameOK, ValuesInv, At("persist"), Response.decision
    PROVE  Response.action \in {"BUY", "SELL"}
<1>1. Consistent(Response)  BY DEF ValuesInv, Validates, Response
<1>2. Response.action # "HOLD"  BY <1>1 DEF Consistent
<1>3. Response.action \in {"BUY", "SELL", "HOLD"}
  BY DEF Response, Overridden, FrameOK, AnyFrame, AnyCandidate
<1> QED  BY <1>2, <1>3

(* A window that has blocked a market ends at a time. *)
LEMMA WindowEnds ==
    ASSUME Typed, NEW type \in CallTypes, NEW m \in Markets, Block(type, m),
           CheckReason(type, m) = "market"
    PROVE  guard'.reset[m] \in Nat
<1> DEFINE g == Rolled(guard)
<1>1. g \in Guards  BY RolledTyped DEF Typed, GuardTypeOK
<1>2. GlobalReason(g, type) = "none"
  <2>1. CASE GlobalReason(g, type) # "none"
    <3>1. CheckReason(type, m) = GlobalReason(g, type)
      BY <2>1, Zenon DEF CheckReason, BlockReason, Checked
    <3>2. GlobalReason(g, type) \in {"hourly", "daily", "quota", "none"}
      BY Zenon DEF GlobalReason
    <3> QED  BY <3>1, <3>2
  <2> QED  BY <2>1
<1>3. guard' = MarketRolled(g, m)  BY <1>2 DEF Block, Checked
<1> HIDE DEF g
<1>4. now \in Nat /\ Hour \in Nat  BY GuardAssumption DEF Typed, GuardTypeOK
<1>5. g.reset \in [Markets -> Times]  BY <1>1 DEF Guards
<1>6. CASE g.reset[m] = Never \/ now >= g.reset[m]
  <2>1. guard' = [g EXCEPT !.reset[m] = now + Hour, !.calls[m] = 0]
    BY <1>3, <1>6 DEF MarketRolled
  <2>2. guard'.reset = [g.reset EXCEPT ![m] = now + Hour]  BY <1>1, <2>1 DEF Guards
  <2>3. guard'.reset[m] = now + Hour  BY <1>5, <2>2
  <2> QED  BY <1>4, <2>3
<1>7. CASE ~(g.reset[m] = Never \/ now >= g.reset[m])
  BY <1>3, <1>5, <1>7 DEF MarketRolled, Times
<1> QED  BY <1>6, <1>7

(* What is written: executions of decisions only, windows that end, and    *)
(* one context at a time.                                                  *)
LEMMA WrittenStep ==
    ASSUME Typed, ValuesInv, WrittenInv, [Next]_vars
    PROVE  WrittenInv'
<1>1. executions' \subseteq Executions
  <2>1. CASE Route
    <3>1. frame.stage = "persist"  BY <2>1 DEF Route, At
    <3>2. Market \in Markets  BY <3>1, MarketIsOne DEF Typed
    <3>3. frame.verdict \in Verdicts
      BY <3>1 DEF ValuesInv, At, Typed, FrameOK, AnyFrame
    <3>4. Response.decision =>
             [market |-> Market, verdict |-> frame.verdict, action |-> Response.action]
                \in Executions
      BY <3>1, <3>2, <3>3, ValidatedDecides DEF Typed, At, Executions
    <3>5. executions \subseteq Executions  BY DEF WrittenInv
    <3> QED  BY <2>1, <3>4, <3>5 DEF Route
  <2>2. CASE ~Route
    <3>1. executions' = executions
      BY <2>2 DEF Next, Evaluate, TakeContext, FetchOrderBook, AskGrok, CheckCooldown,
                  CheckPrimary, AnswerJson, AnswerMalformed, CallRaises, Backoff,
                  ChainTimeout, CheckReflection, ReflectionAnswers, Gatekeep, Clock,
                  RestUnchanged, vars
    <3> QED  BY <3>1 DEF WrittenInv
  <2> QED  BY <2>1, <2>2
<1>2. blocks' \subseteq Markets \X Nat
  <2>1. CASE UNCHANGED blocks  BY <2>1 DEF WrittenInv
  <2>2. CASE ~UNCHANGED blocks
    <3>1. PICK type \in CallTypes : /\ frame.stage # "idle"
                                    /\ HandleBudgetBlock(type)
                                    /\ Block(type, Market)
      <4>1. CASE CheckPrimary
        BY <2>2, <4>1 DEF CheckPrimary, CallTypes, At
      <4>2. CASE CheckReflection
        BY <2>2, <4>2 DEF CheckReflection, CallTypes, At
      <4>3. CASE ~CheckPrimary /\ ~CheckReflection
        BY <2>2, <4>3 DEF Next, Evaluate, TakeContext, FetchOrderBook, AskGrok,
              CheckCooldown, AnswerJson, AnswerMalformed, CallRaises, Backoff,
              ChainTimeout, ReflectionAnswers, Gatekeep, Route, Clock, RestUnchanged, vars
      <4> QED  BY <4>1, <4>2, <4>3
    <3>2. Market \in Markets  BY <3>1, MarketIsOne DEF Typed
    <3>3. /\ CheckReason(type, Market) = "market"
          /\ blocks' = blocks \cup {<<Market, guard'.reset[Market]>>}
      BY <2>2, <3>1 DEF HandleBudgetBlock
    <3>4. guard'.reset[Market] \in Nat  BY <3>1, <3>2, <3>3, WindowEnds
    <3> QED  BY <3>2, <3>3, <3>4 DEF WrittenInv
  <2> QED  BY <2>1, <2>2
<1>3. taken' \in 0 .. MaxEvaluations
  <2>1. CASE \E m \in Markets : TakeContext(m)
    BY <2>1, EvaluationAssumption DEF TakeContext, WrittenInv
  <2>2. CASE ~\E m \in Markets : TakeContext(m)
    <3>1. taken' = taken
      BY <2>2 DEF Next, Evaluate, FetchOrderBook, AskGrok, CheckCooldown, CheckPrimary,
                  AnswerJson, AnswerMalformed, CallRaises, Backoff, ChainTimeout,
                  CheckReflection, ReflectionAnswers, Gatekeep, Route, Clock,
                  RestUnchanged, vars
    <3> QED  BY <3>1 DEF WrittenInv
  <2> QED  BY <2>1, <2>2
<1> QED  BY <1>1, <1>2, <1>3 DEF WrittenInv

(* TypeOK for every instance.  That executions holds no decision to hold   *)
(* is the Gatekeeper's work (_validate_final_consistency()), that a blocked *)
(* window has an end check_budget()'s; both need to know what was done some *)
(* awaits before.                                                          *)
THEOREM TypeCorrect == Spec => []TypeOK
<1>1. Init => TypeInv
  <2> SUFFICES ASSUME Init PROVE TypeInv
    OBVIOUS
  <2>1. NoCandidate \in Candidates  BY DEF NoCandidate, Candidates
  <2> QED
    BY <2>1, EvaluationAssumption
    DEF Init, Idle, TypeInv, AttemptsInv, ValuesInv, WrittenInv, At
<1>2. Typed /\ TypeInv /\ [Next]_vars => TypeInv'
  BY AttemptsStep, ValuesStep, WrittenStep DEF TypeInv, Typed
<1>3. Typed /\ TypeInv => TypeOK
  BY DEF Typed, FrameOK, AnyFrame, QueueOK, TypeInv, AttemptsInv, ValuesInv,
         WrittenInv, TypeOK
<1> QED  BY <1>1, <1>2, <1>3, AlwaysTyped, PTL DEF Spec
===============================================================================
