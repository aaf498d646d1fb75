----------------------------- MODULE BudgetGuard -----------------------------
(***************************************************************************)
(* LLMBudgetGuard: what a paid provider call must reserve before it is     *)
(* made, and how the reservation is corrected afterwards.  Every method    *)
(* runs under one lock without awaiting anything inside, so each is one    *)
(* step; windows roll when a method looks at the clock, not when time      *)
(* passes.  The guard is modelled as enabled: disabled, it allows every    *)
(* call and counts none.                                                   *)
(***************************************************************************)
EXTENDS MarketClock

CONSTANTS
    Resources,   \* what is metered per day: tokens, cost
    HourlyLimit, \* by call type: llm_hourly_call_limit, llm_reflection_...
    DailyLimit,  \* llm_daily_call_limit
    MarketLimit, \* llm_market_hourly_call_limit
    Quota,       \* by resource: llm_daily_token_limit, llm_daily_cost_limit_usd
    Reserve,     \* by resource: llm_fallback_tokens_per_call and its price
    Usages,      \* what a call may turn out to have used, by resource
    Excess,      \* by how much that may exceed the reservation
    Hour, Day    \* the length of the windows, in ticks of the clock

CallTypes == {"primary", "reflection"}

ASSUME GuardAssumption ==
    /\ HourlyLimit \in [CallTypes -> Nat]
    /\ DailyLimit \in Nat
    /\ MarketLimit \in Nat
    /\ Quota \in [Resources -> Nat]
    /\ Reserve \in [Resources -> Nat]
    /\ Excess \in [Resources -> Nat]
    /\ Usages \subseteq [Resources -> Nat]
    /\ \A u \in Usages, r \in Resources : u[r] <= Reserve[r] + Excess[r]
    /\ Hour \in Nat \ {0}
    /\ Day \in Nat \ {0}

VARIABLES
    guard,   \* the guard's windows and totals
    spent    \* history: what was really used, as far as it was told, since
             \* the daily window that the guard is in began

guardVars == <<now, guard, spent>>

Guards == [hourStart : Times,                  \* _hourly_window_start
           dayStart  : Times,                  \* _daily_window_start
           hourly    : [CallTypes -> Nat],     \* primary_, reflection_hourly_calls
           daily     : Nat,                    \* daily_calls
           used      : [Resources -> Int],     \* _total_tokens_consumed, _total_cost_usd
           calls     : [Markets -> Nat],       \* _per_market_hourly
           reset     : [Markets -> Times]]     \* _per_market_hourly_reset

GuardTypeOK ==
    /\ now \in Nat
    /\ guard \in Guards
    /\ spent \in [Resources -> Nat]

Nothing == [r \in Resources |-> 0]

GuardInit ==
    /\ now = 0
    /\ guard = [hourStart |-> Never, dayStart |-> Never,
                hourly |-> [t \in CallTypes |-> 0], daily |-> 0, used |-> Nothing,
                calls |-> [m \in Markets |-> 0], reset |-> [m \in Markets |-> Never]]
    /\ spent = Nothing

-------------------------------------------------------------------------------
HourExpired(g) == g.hourStart = Never \/ now - g.hourStart >= Hour
DayExpired(g)  == g.dayStart = Never \/ now - g.dayStart >= Day

RollHour(g) ==
    IF HourExpired(g)
    THEN [g EXCEPT !.hourStart = now, !.hourly = [t \in CallTypes |-> 0]]
    ELSE g

RollDay(g) ==
    IF DayExpired(g)
    THEN [g EXCEPT !.dayStart = now, !.daily = 0, !.used = Nothing,
                   !.calls = [m \in Markets |-> 0], !.reset = [m \in Markets |-> Never]]
    ELSE g

(* _refresh_windows() *)
Rolled(g) == RollDay(RollHour(g))

(* _refresh_market_window_locked() *)
MarketRolled(g, m) ==
    IF g.reset[m] = Never \/ now >= g.reset[m]
    THEN [g EXCEPT !.reset[m] = now + Hour, !.calls[m] = 0]
    ELSE g

Blocking(count, limit) == limit = 0 \/ count >= limit

(* The first of the guard's limits that stops a call, "none" if it may go  *)
(* on; g is what the guard sees.  Zero is a kill switch.                   *)
GlobalReason(g, type) ==
    IF      Blocking(g.hourly[type], HourlyLimit[type]) THEN "hourly"
    ELSE IF Blocking(g.daily, DailyLimit) THEN "daily"
    ELSE IF \E r \in Resources : Blocking(g.used[r], Quota[r]) THEN "quota"
    ELSE    "none"

ReserveReason(g) ==
    IF \E r \in Resources : g.used[r] + Reserve[r] > Quota[r] THEN "quota" ELSE "none"

BlockReason(g, type, m) ==
    IF      GlobalReason(g, type) # "none" THEN GlobalReason(g, type)
    ELSE IF Blocking(g.calls[m], MarketLimit) THEN "market"
    ELSE    ReserveReason(g)

(* peek_budget(): what check_budget() would see, without changing it. *)
Peeked(g, m) ==
    [g EXCEPT !.hourly = IF HourExpired(g) THEN [t \in CallTypes |-> 0] ELSE @,
              !.daily  = IF DayExpired(g) THEN 0 ELSE @,
              !.used   = IF DayExpired(g) THEN Nothing ELSE @,
              !.calls[m] = IF \/ g.reset[m] = Never
                              \/ now >= g.reset[m]
                              \/ DayExpired(g)
                           THEN 0 ELSE @]

(* Mutant: the peek looks at the limit of reflections. *)
PeekReflections(type, m) == BlockReason(Peeked(guard, m), "reflection", m)

PeekReason(type, m) == BlockReason(Peeked(guard, m), type, m)

(* check_budget(): the windows roll, and the market's too unless a global  *)
(* limit has stopped the call before.                                      *)
Checked(type, m) ==
    LET g == Rolled(guard) IN
    IF GlobalReason(g, type) = "none" THEN MarketRolled(g, m) ELSE g

CheckReason(type, m) == BlockReason(Checked(type, m), type, m)

(* _reserve_call() *)
Reserved(g, type, m) ==
    [g EXCEPT !.hourly[type] = @ + 1, !.daily = @ + 1, !.calls[m] = @ + 1,
              !.used = [r \in Resources |-> @[r] + Reserve[r]]]

(* The history forgets what was spent before the window. *)
SpentInWindow == IF DayExpired(guard) THEN Nothing ELSE spent

(* Mutant: the worst case of the call need not fit into what is left. *)
AllowAnyRoom(type, m) ==
    /\ BlockReason(Checked(type, m), type, m) \in
           {"none", ReserveReason(Checked(type, m))}
    /\ ~\E r \in Resources : Blocking(Checked(type, m).used[r], Quota[r])
    /\ guard' = Reserved(Checked(type, m), type, m)
    /\ spent' = SpentInWindow
    /\ UNCHANGED now

Allow(type, m) ==
    /\ CheckReason(type, m) = "none"
    /\ guard' = Reserved(Checked(type, m), type, m)
    /\ spent' = SpentInWindow
    /\ UNCHANGED now

Block(type, m) ==
    /\ CheckReason(type, m) # "none"
    /\ guard' = Checked(type, m)
    /\ spent' = SpentInWindow
    /\ UNCHANGED now

(* record_usage(): the difference to the reservation, in whichever window  *)
(* this is by now.                                                         *)
RecordUsage(u) ==
    LET g == Rolled(guard) IN
    /\ guard' = [g EXCEPT !.used = [r \in Resources |-> @[r] + u[r] - Reserve[r]]]
    /\ spent' = [r \in Resources |-> SpentInWindow[r] + u[r]]
    /\ UNCHANGED now

Tick ==
    /\ now' = now + 1
    /\ UNCHANGED <<guard, spent>>

-------------------------------------------------------------------------------
(* What is really spent in a day exceeds the quota by no more than one     *)
(* call's excess over its reservation and one reservation taken in the day *)
(* before and given back in this one (WI-52: limits per daily window).     *)
SpendBounded ==
    \A r \in Resources : spent[r] <= Quota[r] + Excess[r] + Reserve[r]
===============================================================================
