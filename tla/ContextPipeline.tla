---------------------------- MODULE ContextPipeline ----------------------------
(***************************************************************************)
(* From snapshots to evaluations: the market queue, DataAggregator with    *)
(* its message loop and its timer loop, the periodic market activation     *)
(* that clears its state, and the bounded prompt queue (PromptQueue).      *)
(*                                                                         *)
(* An emission awaits the metrics and the prompt queue.  Both only take    *)
(* locks under which nothing is awaited, so neither suspends the task: the *)
(* emission, its record and its put() are one step.                        *)
(***************************************************************************)
EXTENDS PromptQueue

CONSTANTS
    TimeInterval,  \* TIME_INTERVAL_SEC, in ticks
    Dedupe,        \* enable_market_evaluation_dedupe
    MinInterval,   \* dedupe_min_evaluation_interval_sec, in ticks
    MidDelta,      \* dedupe_midpoint_delta
    SpreadDelta,   \* dedupe_spread_delta
    Cadence,       \* by market: the interval of its category, 0 if disabled
    Long           \* bound: an age at which every interval is over

ASSUME PipelineAssumption ==
    /\ Quotes \subseteq [mid : Nat \ {0}, spread : Nat]
    /\ TimeInterval \in Nat
    /\ Dedupe \in BOOLEAN
    /\ MinInterval \in Nat
    /\ MidDelta \in Nat
    /\ SpreadDelta \in Nat
    /\ Long \in Nat
    /\ TimeInterval <= Long /\ MinInterval <= Long
    /\ Cadence \in [Markets -> 0 .. Long]

VARIABLES
    backlog,   \* markets with snapshots in market_queue
    active,    \* the markets in condition_by_token
    primary,   \* condition_id: the first market of the last activation
    quote,     \* best_bid, best_ask by market
    last,      \* last emission by market: its quote, and how long ago
    known      \* markets whose last emission the aggregator remembers

pipelineVars == <<backlog, active, primary, quote, last, known>>
vars == <<queueVars, pipelineVars>>

NoQuote == [mid |-> 0, spread |-> 0]

TypeOK ==
    /\ QueueTypeOK
    /\ backlog \in SUBSET Markets
    /\ active \in SUBSET Markets
    /\ primary \in Markets
    /\ quote \in [Markets -> Quotes \cup {NoQuote}]
    /\ last \in [Markets -> [quote : Quotes \cup {NoQuote}, age : 0 .. Long]]
    /\ known \in SUBSET Markets

(* After start(): the markets found are active. *)
Init ==
    /\ QueueInit
    /\ backlog = {}
    /\ active = Markets
    /\ primary \in Markets
    /\ quote = [m \in Markets |-> NoQuote]
    /\ last = [m \in Markets |-> [quote |-> NoQuote, age |-> Long]]
    /\ known = {}

-------------------------------------------------------------------------------
Distance(i, j) == IF i > j THEN i - j ELSE j - i

(* TIME_INTERVAL_SEC has passed; a market without an emission counts from 0. *)
TimeElapsed(m) == m \notin known \/ last[m].age >= TimeInterval

(* PRICE_CHANGE_THRESHOLD: one percent of the midpoint last emitted. *)
PriceMoved(m, q) == m \in known /\ 100 * Distance(q.mid, last[m].quote.mid) >= last[m].quote.mid

Material(m, q) ==
    /\ m \in known
    /\ \/ Distance(q.mid, last[m].quote.mid) >= MidDelta
       \/ Distance(q.spread, last[m].quote.spread) >= SpreadDelta

(* _check_dedupe() and the cadence of the category. *)
Suppressed(m, q) ==
    /\ m \in known
    /\ ~Material(m, q)
    /\ (Dedupe /\ last[m].age < MinInterval) \/ last[m].age < Cadence[m]

(* Mutant: the time of the check is kept as the time of the emission. *)
EmitRefreshing(m, q) ==
    IF Suppressed(m, q)
    THEN /\ last' = [last EXCEPT ![m].age = 0]
         /\ UNCHANGED <<known, queueVars>>
    ELSE /\ last' = [last EXCEPT ![m] = [quote |-> q, age |-> 0]]
         /\ known' = known \cup {m}
         /\ Put([market |-> m, quote |-> q])

(* _emit_state_for_market(): the emission is recorded, then put(), which   *)
(* may refuse it.                                                          *)
Emit(m, q) ==
    IF Suppressed(m, q)
    THEN UNCHANGED <<last, known, queueVars>>
    ELSE /\ last' = [last EXCEPT ![m] = [quote |-> q, age |-> 0]]
         /\ known' = known \cup {m}
         /\ Put([market |-> m, quote |-> q])

(* _process_event() drops the frames of tokens of other markets, ...       *)
Known(m) == m \in active

(* ... those without a spread or crossed, and queues the snapshot.         *)
Snapshot(m) ==
    /\ Known(m)
    /\ backlog' = backlog \cup {m}
    /\ UNCHANGED <<active, primary, quote, last, known, queueVars>>

(* _process_message() lets through what is active, or the primary market   *)
(* when nothing is.                                                        *)
Accepts(m) == IF active = {} THEN m = primary ELSE m \in active

(* A snapshot leaves market_queue, perhaps the last one of its market. *)
Message(m, q) ==
    /\ m \in backlog
    /\ backlog' \in {backlog, backlog \ {m}}
    /\ IF Accepts(m)
         THEN /\ quote' = [quote EXCEPT ![m] = q]
              /\ IF TimeElapsed(m) \/ PriceMoved(m, q)
                   THEN Emit(m, q)
                   ELSE UNCHANGED <<last, known, queueVars>>
         ELSE UNCHANGED <<quote, last, known, queueVars>>
    /\ UNCHANGED <<active, primary>>

(* _timer_loop(), at one market. *)
Timer(m) ==
    /\ quote[m] # NoQuote
    /\ TimeElapsed(m)
    /\ Emit(m, quote[m])
    /\ UNCHANGED <<backlog, active, primary, quote>>

(* clear_markets(), register_market() *)
Cleared ==
    /\ quote' = [m \in Markets |-> NoQuote]
    /\ known' = {}

(* _activate_markets(), on every pass of the market tracking loop, whether *)
(* or not the markets have changed.                                        *)
Activate(markets) ==
    /\ markets # {}
    /\ active' = markets
    /\ primary' \in markets
    /\ Cleared
    /\ UNCHANGED <<backlog, last, queueVars>>

(* The same loop when discovery finds nothing: condition_id is left alone. *)
Deactivate ==
    /\ active # {}
    /\ active' = {}
    /\ Cleared
    /\ UNCHANGED <<backlog, primary, last, queueVars>>

Tick ==
    /\ \E m \in Markets : last[m].age < Long
    /\ last' = [m \in Markets |-> [last[m] EXCEPT !.age = IF @ < Long THEN @ + 1 ELSE Long]]
    /\ UNCHANGED <<backlog, active, primary, quote, known, queueVars>>

Produce ==
    \/ \E m \in Markets : Snapshot(m) \/ Timer(m) \/ \E q \in Quotes : Message(m, q)
    \/ \E markets \in SUBSET Markets : Activate(markets)
    \/ Deactivate
    \/ Tick

Consume ==
    /\ Get \/ Quarantine \/ TaskDone \/ \E m \in Markets : Expire(m)
    /\ UNCHANGED pipelineVars

Next == Produce \/ Consume

(* The consumer is a task of the event loop and its evaluations end (every *)
(* provider call has a timeout), the timer loop looks at every market each *)
(* second, and time passes.  Snapshots, activations and quarantines are    *)
(* owed to nobody.                                                         *)
Fairness ==
    /\ WF_vars(Get /\ UNCHANGED pipelineVars)
    /\ WF_vars(TaskDone /\ UNCHANGED pipelineVars)
    /\ WF_vars(Tick)
    /\ \A m \in Markets : WF_vars(Timer(m))

Spec == Init /\ [][Next]_vars /\ Fairness

-------------------------------------------------------------------------------
Forgotten(m)  == quote[m] = NoQuote \/ m \in quarantined
Evaluating(m) == consumer.stage = "work" /\ consumer.item.market = m
PushedOut(m)  == (\E c \in Contexts : DropStale(c)) /\ Head(deque).market = m

(* An emission is recorded before the queue may refuse, coalesce or drop   *)
(* it, and that does not silence its market (WI-53): it is evaluated again *)
(* and again, unless it keeps being quarantined or losing its quote, or    *)
(* its contexts keep being pushed out of the full queue by newer ones.     *)
EvaluatedAgain ==
    \A m \in Markets :
        []<>(Forgotten(m) \/ Evaluating(m)) \/ []<><<PushedOut(m)>>_vars
===============================================================================
