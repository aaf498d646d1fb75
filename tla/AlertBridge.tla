----------------------------- MODULE AlertBridge -----------------------------
(***************************************************************************)
(* The operational alert loop and its bridge: once a minute the loop looks *)
(* at the database, the WebSocket and the circuit breaker, and the bridge  *)
(* turns what it saw into Telegram messages, no sooner than a condition    *)
(* has lasted and no more often than a cooldown allows.                    *)
(*                                                                         *)
(* Time is counted in minutes.  An alert is read against `now`, taken once *)
(* per pass, while the sends of the pass take time of their own: ages are  *)
(* kept instead of instants, and frame.age is the age of that `now`.       *)
(* The health server, the breaker and the notifier are configured.         *)
(***************************************************************************)
EXTENDS Integers, FiniteSetsExt

CONSTANTS
    Threshold,    \* by condition: minutes it must last
    Cooldown,     \* alert_cooldown_seconds, in minutes
    PassTime      \* bound: minutes a pass may take after its `now`

Conditions == {"readiness", "websocket"}
Alerts == Conditions \cup {"opened", "closed"}

ASSUME AlertBridgeAssumption ==
    /\ Threshold \in [Conditions -> Nat]
    /\ Cooldown \in Nat
    /\ PassTime \in Nat \ {0}

(* Bounds: ages older than these make no difference.                       *)
OldCondition == Max({Threshold[c] : c \in Conditions}) + PassTime
OldAlert == Cooldown + PassTime

VARIABLES
    ws,           \* the client's snapshot: "fine", "stale" (an old PONG), "down"
    reachable,    \* the database answers
    breaker,      \* CircuitBreaker.state
    frame,        \* the loop: where it is, what it saw, the age of its `now`
    since,        \* by condition: age of first_seen_at_utc, -1 if not is_active
    sent,         \* by alert: age of last_dispatched_at_utc
    lastBreaker,  \* _last_circuit_breaker_state
    clear         \* by condition: age of the last pass that found it absent

worldVars == <<ws, reachable, breaker>>
bridgeVars == <<since, sent, lastBreaker, clear>>
alertVars == <<worldVars, frame, bridgeVars>>

Idle == [stage |-> "idle", ws |-> "down", breaker |-> "CLOSED", age |-> 0]

AlertTypeOK ==
    /\ ws \in {"fine", "stale", "down"}
    /\ reachable \in BOOLEAN
    /\ breaker \in {"OPEN", "CLOSED"}
    /\ frame \in [stage : {"idle", "asking", "evaluate websocket",
                           "evaluate breaker"} \cup Alerts,
                  ws : {"fine", "stale", "down"},
                  breaker : {"OPEN", "CLOSED"}, age : 0 .. PassTime]
    /\ since \in [Conditions -> -1 .. OldCondition]
    /\ sent \in [Alerts -> 0 .. OldAlert]
    /\ lastBreaker \in {"OPEN", "CLOSED"}
    /\ clear \in [Conditions -> 0 .. OldCondition]
    /\ \A c \in Conditions : since[c] <= clear[c]

(* Nothing was dispatched: the oldest age stands for it.                   *)
AlertInit ==
    /\ ws = "down" /\ reachable = TRUE /\ breaker = "CLOSED"
    /\ frame = Idle
    /\ since = [c \in Conditions |-> -1]
    /\ sent = [a \in Alerts |-> OldAlert]
    /\ lastBreaker = "CLOSED"
    /\ clear = [c \in Conditions |-> 0]

----------------------------------------------------------------------------
(* What goes on while the loop sleeps, asks the database or sends.         *)

Suspended == frame.stage \in {"idle", "asking"} \cup Alerts

Aged(n, old) == IF n < old THEN n + 1 ELSE old

World ==
    /\ Suspended
    /\ \/ /\ ws' \in {"fine", "stale", "down"} \ {ws}
          /\ UNCHANGED <<reachable, breaker>>
       \/ reachable' = ~reachable /\ UNCHANGED <<ws, breaker>>
       \/ /\ breaker' \in {"OPEN", "CLOSED"} \ {breaker}
          /\ UNCHANGED <<ws, reachable>>
    /\ UNCHANGED <<frame, bridgeVars>>

Tick ==
    /\ Suspended
    /\ frame.age < PassTime
    /\ frame' = [frame EXCEPT !.age = @ + 1]
    /\ since' = [c \in Conditions |-> IF since[c] < 0 THEN -1
                                  ELSE Aged(since[c], OldCondition)]
    /\ sent' = [a \in Alerts |-> Aged(sent[a], OldAlert)]
    /\ clear' = [c \in Conditions |-> Aged(clear[c], OldCondition)]
    /\ UNCHANGED <<worldVars, lastBreaker>>

----------------------------------------------------------------------------
(* _operational_alert_loop.  _get_runtime_health takes the first snapshot  *)
(* of the client and then awaits the database; readiness is judged from    *)
(* that one, staleness from a second, taken after the answer.              *)

BeginPass ==
    /\ frame.stage = "idle" /\ frame.age > 0
    /\ frame' = [frame EXCEPT !.stage = "asking", !.ws = ws, !.age = 0]
    /\ UNCHANGED <<worldVars, bridgeVars>>

(* Mutant: a recovery leaves is_active and first_seen_at_utc alone.         *)
ObserveForgets(c, bad, age) ==
    IF bad
    THEN since' = [since EXCEPT ![c] = IF @ < 0 THEN age ELSE @] /\ UNCHANGED clear
    ELSE clear' = [clear EXCEPT ![c] = age] /\ UNCHANGED since

(* Mutant: every bad pass is taken for the first.                           *)
ObserveRestarts(c, bad, age) ==
    IF bad
    THEN since' = [since EXCEPT ![c] = age] /\ UNCHANGED clear
    ELSE since' = [since EXCEPT ![c] = -1] /\ clear' = [clear EXCEPT ![c] = age]

(* is_active and first_seen_at_utc of a condition after it was evaluated.  *)
Observe(c, bad, age) ==
    IF bad
    THEN /\ since' = [since EXCEPT ![c] = IF @ < 0 THEN age ELSE @]
         /\ UNCHANGED clear
    ELSE /\ since' = [since EXCEPT ![c] = -1]
         /\ clear' = [clear EXCEPT ![c] = age]

InCooldown(a, age) == sent[a] - age < Cooldown

Due(c, bad, age) ==
    /\ bad
    /\ since[c] >= 0
    /\ since[c] - age >= Threshold[c]
    /\ ~InCooldown(c, age)

(* The answer of the database, what is gathered after it, and the          *)
(* evaluation up to the first await of a send.                             *)
Ready == reachable /\ frame.ws # "down"

EvaluateReadiness ==
    /\ frame.stage = "asking"
    /\ Observe("readiness", ~Ready, 0)
    /\ frame' = [stage |-> IF Due("readiness", ~Ready, 0)
                           THEN "readiness" ELSE "evaluate websocket",
                 ws |-> ws, breaker |-> breaker, age |-> 0]
    /\ UNCHANGED <<worldVars, sent, lastBreaker>>

EvaluateWebsocket ==
    /\ frame.stage = "evaluate websocket"
    /\ Observe("websocket", frame.ws # "fine", frame.age)
    /\ frame' = [frame EXCEPT !.ws = "down", !.stage =
                   IF Due("websocket", frame.ws # "fine", frame.age)
                   THEN "websocket" ELSE "evaluate breaker"]
    /\ UNCHANGED <<worldVars, sent, lastBreaker>>

(* The end of a pass; the next one begins after the sleep.                 *)
EndPass == frame' = Idle

Transition == IF frame.breaker = "OPEN" THEN "opened" ELSE "closed"

(* A transition that falls into the cooldown is suppressed, and the last   *)
(* state is recorded all the same.                                         *)
EvaluateBreaker ==
    /\ frame.stage = "evaluate breaker"
    /\ IF frame.breaker # lastBreaker /\ ~InCooldown(Transition, frame.age)
       THEN /\ frame' = [frame EXCEPT !.stage = Transition]
            /\ UNCHANGED lastBreaker
       ELSE EndPass /\ lastBreaker' = frame.breaker
    /\ UNCHANGED <<worldVars, since, sent, clear>>

(* _dispatch after its send: the evaluators go on, whether it was sent.    *)
Continue(a) ==
    CASE a = "readiness" -> /\ frame' = [frame EXCEPT !.stage = "evaluate websocket"]
                            /\ UNCHANGED lastBreaker
      [] a = "websocket" -> /\ frame' = [frame EXCEPT !.stage = "evaluate breaker"]
                            /\ UNCHANGED lastBreaker
      [] OTHER -> EndPass /\ lastBreaker' = frame.breaker

SendSucceeds(a) ==
    /\ frame.stage = a
    /\ sent' = [sent EXCEPT ![a] = frame.age]
    /\ Continue(a)
    /\ UNCHANGED <<worldVars, since, clear>>

SendFails(a) ==
    /\ frame.stage = a
    /\ Continue(a)
    /\ UNCHANGED <<worldVars, since, sent, clear>>

Pass == BeginPass \/ EvaluateReadiness \/ EvaluateWebsocket \/ EvaluateBreaker

AlertNext ==
    \/ World \/ Tick \/ Pass
    \/ \E a \in Alerts : SendSucceeds(a) \/ SendFails(a)

(* The loop and the clock go on; a send comes back, and Telegram does not  *)
(* refuse the alerts of a kind for ever.                                   *)
AlertFairness ==
    /\ WF_alertVars(Pass) /\ WF_alertVars(Tick)
    /\ \A a \in Alerts : /\ WF_alertVars(SendSucceeds(a) \/ SendFails(a))
                         /\ SF_alertVars(SendSucceeds(a))

AlertSpec == AlertInit /\ [][AlertNext]_alertVars /\ AlertFairness

----------------------------------------------------------------------------
(* An alert about readiness or the WebSocket goes out only if no pass for  *)
(* at least the threshold found the condition absent: a flapping feed, the *)
(* time the loop spends sending and an outage before this one do not add   *)
(* up to a sustained one.                                                  *)
SustainedOnly ==
    [][\A c \in Conditions :
         SendSucceeds(c) => clear[c] - frame.age >= Threshold[c]]_alertVars

(* A database that stays unreachable, or a feed that stays down, is told   *)
(* again and again: no send that fails and no cooldown silences it for     *)
(* good.                                                                   *)
OutageAlerted ==
    /\ <>[]~reachable => []<><<SendSucceeds("readiness")>>_alertVars
    /\ <>[](ws # "fine") => []<><<SendSucceeds("websocket")>>_alertVars
=============================================================================
