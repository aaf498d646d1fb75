---------------------------- MODULE TradeLifecycle ----------------------------
(***************************************************************************)
(* The life of a trade in Orchestrator: an approved decision is checked,   *)
(* routed, recorded as a position and broadcast by _execution_consumer_    *)
(* loop; _exit_scan_loop closes, sells and settles open positions; and     *)
(* _portfolio_aggregation_loop trips the circuit breaker between the two.  *)
(* The three loops share the positions table, the execution_txs table and  *)
(* the breaker, and meet at every await.  broadcast() is represented by    *)
(* the actions of OrderLedger, which OrderBroadcaster implements.  Live    *)
(* mode: with dry_run nothing is written and nothing is broadcast.         *)
(***************************************************************************)
EXTENDS Naturals, Sequences, FiniteSets

CONSTANTS
    Decisions,    \* snapshot ids of approved evaluations
    Prices,       \* best bids at which an exit may be routed
    Outcomes,     \* final statuses that a broadcast may reach
    MaxRestarts   \* bound: restarts of the process in a behaviour

ASSUME ConstantsAssumption ==
    /\ Decisions # {}
    /\ Prices # {}
    /\ "NULL" \notin Prices
    /\ Outcomes \subseteq {"CONFIRMED", "REVERTED", "FAILED"}
    /\ MaxRestarts \in Nat

VARIABLES
    fresh,      \* decisions the evaluation task has not approved yet
    queue,      \* execution_queue
    buy,        \* the frame of _execution_consumer_loop
    exit,       \* the frame of _exit_scan_loop
    breaker,    \* CircuitBreaker._state
    config,     \* the two switches of AppConfig, read when the process starts
    positions,  \* positions[d]: the row of the position that decision d opened
    status,     \* execution_txs, as in OrderLedger
    orders,     \* orders accepted by the exchange, as in OrderLedger
    lateBuys,   \* history: BUY orders sent since the breaker tripped
    restarts    \* restarts so far (bounded)

(* Decision ids of orders: the snapshot id for a BUY, "exit_<position>" for *)
(* the SELL of the position that this decision opened.                      *)
Keys    == {"BUY", "SELL"} \X Decisions
Buy(d)  == <<"BUY", d>>
Sell(d) == <<"SELL", d>>

Ledger == INSTANCE OrderLedger

ledger == <<status, orders>>
entry  == <<fresh, queue, buy, lateBuys>>
risk   == <<breaker, config>>
vars   == <<entry, exit, risk, positions, ledger, restarts>>

Nobody == "no decision"
BuyStages  == {"get", "exposure", "breaker", "route", "record", "record_failed",
               "insert", "post", "conclude"}
ExitStages == {"sleep", "scan", "route", "settle", "insert", "post", "conclude"}
Waiting    == [stage |-> "get", d |-> Nobody]
Asleep     == [stage |-> "sleep", todo |-> {}, exits |-> << >>, price |-> "NULL"]
NoPosition == [status |-> "NONE", pnl |-> "NULL"]
PositionStatus == {"NONE", "OPEN", "CLOSED", "FAILED"}
Configs == [override : BOOLEAN, exposureGate : BOOLEAN]

TypeOK ==
    /\ fresh \in SUBSET Decisions
    /\ queue \in Seq(Decisions)
    /\ buy \in [stage : BuyStages, d : Decisions \cup {Nobody}]
    /\ buy.stage # "get" => buy.d \in Decisions
    /\ exit \in [stage : ExitStages, todo : SUBSET Decisions,
                 exits : Seq(Decisions), price : Prices \cup {"NULL"}]
    /\ exit.stage \in {"settle", "insert", "post", "conclude"} => exit.exits # << >>
    /\ breaker \in {"CLOSED", "OPEN"}
    /\ config \in Configs
    /\ positions \in [Decisions -> [status : PositionStatus,
                                    pnl : Prices \cup {"NULL"}]]
    /\ Ledger!LedgerTypeOK
    /\ lateBuys \in Nat
    /\ restarts \in Nat

Init ==
    /\ fresh = Decisions
    /\ queue = << >>
    /\ buy = Waiting
    /\ exit = Asleep
    /\ breaker = "CLOSED"
    /\ config \in Configs
    /\ positions = [d \in Decisions |-> NoPosition]
    /\ Ledger!LedgerInit
    /\ lateBuys = 0
    /\ restarts = 0

-------------------------------------------------------------------------------
(* external: the evaluation task approves decision d. *)
Approve(d) ==
    /\ d \in fresh
    /\ fresh' = fresh \ {d}
    /\ queue' = Append(queue, d)
    /\ UNCHANGED <<buy, lateBuys, exit, risk, positions, ledger, restarts>>

BuyGoTo(stage) == buy' = [buy EXCEPT !.stage = stage]

(* "continue", or an exception that the loop logs, and task_done(). *)
BuyDone == buy' = Waiting

TakeDecision ==
    /\ buy.stage = "get"
    /\ queue # << >>
    /\ buy' = [stage |-> "exposure", d |-> Head(queue)]
    /\ queue' = Tail(queue)
    /\ UNCHANGED <<fresh, lateBuys, exit, risk, positions, ledger, restarts>>

(* validate_entry() refuses floats, and AppConfig.max_exposure_pct is one: *)
(* with the gate enabled it raises, whatever the positions are.            *)
ExposureGateRaises ==
    /\ buy.stage = "exposure"
    /\ config.exposureGate
    /\ BuyDone
    /\ UNCHANGED <<fresh, queue, lateBuys, exit, risk, positions, ledger, restarts>>

(* Without it: the wallet balance and the gas cost let the decision pass   *)
(* or not.                                                                 *)
CheckFunds ==
    /\ buy.stage = "exposure"
    /\ ~config.exposureGate
    /\ BuyGoTo("breaker") \/ BuyDone
    /\ UNCHANGED <<fresh, queue, lateBuys, exit, risk, positions, ledger, restarts>>

(* Mutant: the decision waits for the breaker instead of being skipped. *)
CheckBreakerWaits ==
    /\ buy.stage = "breaker"
    /\ breaker = "CLOSED"
    /\ BuyGoTo("route")
    /\ UNCHANGED <<fresh, queue, lateBuys, exit, risk, positions, ledger, restarts>>

CheckBreaker ==
    /\ buy.stage = "breaker"
    /\ IF breaker = "CLOSED" THEN BuyGoTo("route") ELSE BuyDone
    /\ UNCHANGED <<fresh, queue, lateBuys, exit, risk, positions, ledger, restarts>>

(* ExecutionRouter.route(): EXECUTED with a signed order, FAILED without   *)
(* one, SKIP, or an exception.                                             *)
RouteBuy ==
    /\ buy.stage = "route"
    /\ BuyGoTo("record") \/ BuyGoTo("record_failed") \/ BuyDone
    /\ UNCHANGED <<fresh, queue, lateBuys, exit, risk, positions, ledger, restarts>>

(* PositionTracker.record_execution(); an exception is logged, an unknown  *)
(* token id skips it, and the order goes out all the same.                 *)
RecordPosition ==
    /\ \/ /\ buy.stage = "record"
          /\ BuyGoTo("insert")
          /\ \/ positions' = [positions EXCEPT ![buy.d].status = "OPEN"]
             \/ UNCHANGED positions
       \/ /\ buy.stage = "record_failed"
          /\ BuyDone
          /\ \/ positions' = [positions EXCEPT ![buy.d].status = "FAILED"]
             \/ UNCHANGED positions
    /\ UNCHANGED <<fresh, queue, lateBuys, exit, risk, ledger, restarts>>

(* broadcast() of the BUY order: its row, the POST, and what becomes of it. *)
InsertBuy ==
    /\ buy.stage = "insert"
    /\ \/ /\ Ledger!RecordPending(Buy(buy.d))
          /\ BuyGoTo("post")
          /\ lateBuys' = lateBuys + (IF breaker = "OPEN" THEN 1 ELSE 0)
       \/ BuyDone /\ UNCHANGED <<ledger, lateBuys>>
    /\ UNCHANGED <<fresh, queue, exit, risk, positions, restarts>>

PostBuy ==
    /\ buy.stage = "post"
    /\ Ledger!AcceptOrder(Buy(buy.d)) \/ UNCHANGED ledger
    /\ BuyGoTo("conclude")
    /\ UNCHANGED <<fresh, queue, lateBuys, exit, risk, positions, restarts>>

ConcludeBuy ==
    /\ buy.stage = "conclude"
    /\ (\E s \in Outcomes : Ledger!Conclude(Buy(buy.d), s)) \/ UNCHANGED ledger
    /\ BuyDone
    /\ UNCHANGED <<fresh, queue, lateBuys, exit, risk, positions, restarts>>

ConsumerStep ==
    \/ TakeDecision \/ ExposureGateRaises \/ CheckFunds \/ CheckBreaker
    \/ RouteBuy \/ RecordPosition
    \/ InsertBuy \/ PostBuy \/ ConcludeBuy

-------------------------------------------------------------------------------
OpenPositions == {d \in Decisions : positions[d].status = "OPEN"}

ExitGoTo(stage) == exit' = [exit EXCEPT !.stage = stage]

(* The exit at the head of the results is dealt with. *)
ExitDone ==
    exit' = [exit EXCEPT !.stage = "route", !.exits = Tail(@), !.price = "NULL"]

(* Mutant: the scan reads the positions whatever their status. *)
StartScanOfAll ==
    /\ exit.stage = "sleep"
    /\ exit' = [exit EXCEPT !.stage = "scan",
                 !.todo = {d \in Decisions : positions[d].status # "NONE"}]
    /\ UNCHANGED <<entry, risk, positions, ledger, restarts>>

(* get_open_positions(); a failing read ends the pass at once. *)
StartScan ==
    /\ exit.stage = "sleep"
    /\ exit' = [exit EXCEPT !.stage = "scan", !.todo = OpenPositions]
    /\ UNCHANGED <<entry, risk, positions, ledger, restarts>>

(* One position of the scan.  It is held, or its evaluation fails, or its   *)
(* close does, which drops the result;                                     *)
HoldPosition(d) ==
    /\ exit' = [exit EXCEPT !.todo = @ \ {d}]
    /\ UNCHANGED positions

(* it is closed and will be sold;                                          *)
ClosePosition(d) ==
    /\ positions' = [positions EXCEPT ![d].status = "CLOSED"]
    /\ exit' = [exit EXCEPT !.todo = @ \ {d}, !.exits = Append(@, d)]

(* its market is stale: the result is in the list before the close fails.  *)
CloseStaleFails(d) ==
    /\ exit' = [exit EXCEPT !.todo = @ \ {d}, !.exits = Append(@, d)]
    /\ UNCHANGED positions

EvaluatePosition(d) ==
    /\ exit.stage = "scan"
    /\ d \in exit.todo
    /\ HoldPosition(d) \/ ClosePosition(d) \/ CloseStaleFails(d)
    /\ UNCHANGED <<entry, risk, ledger, restarts>>

EndScan ==
    /\ exit.stage = "scan"
    /\ exit.todo = {}
    /\ ExitGoTo("route")
    /\ UNCHANGED <<entry, risk, positions, ledger, restarts>>

(* Mutant: the open breaker holds exits up as it does entries. *)
RouteExitIfBreakerClosed ==
    /\ exit.stage = "route"
    /\ exit.exits # << >>
    /\ breaker = "CLOSED"
    /\ \/ \E c \in Prices :
             exit' = [exit EXCEPT !.stage = "settle", !.price = c]
       \/ ExitDone
    /\ UNCHANGED <<entry, risk, positions, ledger, restarts>>

(* ExitOrderRouter.route_exit(): a signed SELL order at the best bid, or   *)
(* FAILED, or an exception.                                                *)
RouteExit ==
    /\ exit.stage = "route"
    /\ exit.exits # << >>
    /\ \/ \E c \in Prices :
             exit' = [exit EXCEPT !.stage = "settle", !.price = c]
       \/ ExitDone
    /\ UNCHANGED <<entry, risk, positions, ledger, restarts>>

(* Mutant: record_settlement() without its idempotency guard. *)
SettleAgain ==
    /\ exit.stage = "settle"
    /\ ExitGoTo("insert")
    /\ \/ positions' = [positions EXCEPT ![Head(exit.exits)].pnl = exit.price]
       \/ UNCHANGED positions
    /\ UNCHANGED <<entry, risk, ledger, restarts>>

(* PnLCalculator.settle() and record_settlement(): written once, before    *)
(* the SELL order is sent; a failure is logged and the order goes out.     *)
Settle ==
    LET p == Head(exit.exits) IN
    /\ exit.stage = "settle"
    /\ ExitGoTo("insert")
    /\ \/ /\ positions[p].pnl = "NULL"
          /\ positions' = [positions EXCEPT ![p].pnl = exit.price]
       \/ UNCHANGED positions
    /\ UNCHANGED <<entry, risk, ledger, restarts>>

(* broadcast() of the SELL order. *)
InsertSell ==
    /\ exit.stage = "insert"
    /\ \/ Ledger!RecordPending(Sell(Head(exit.exits))) /\ ExitGoTo("post")
       \/ ExitDone /\ UNCHANGED ledger
    /\ UNCHANGED <<entry, risk, positions, restarts>>

PostSell ==
    /\ exit.stage = "post"
    /\ Ledger!AcceptOrder(Sell(Head(exit.exits))) \/ UNCHANGED ledger
    /\ ExitGoTo("conclude")
    /\ UNCHANGED <<entry, risk, positions, restarts>>

ConcludeSell ==
    /\ exit.stage = "conclude"
    /\ \/ \E s \in Outcomes : Ledger!Conclude(Sell(Head(exit.exits)), s)
       \/ UNCHANGED ledger
    /\ ExitDone
    /\ UNCHANGED <<entry, risk, positions, restarts>>

EndPass ==
    /\ exit.stage = "route"
    /\ exit.exits = << >>
    /\ exit' = Asleep
    /\ UNCHANGED <<entry, risk, positions, ledger, restarts>>

(* What follows the start of a pass. *)
ExitStep ==
    \/ \E d \in Decisions : EvaluatePosition(d)
    \/ EndScan \/ RouteExit \/ Settle
    \/ InsertSell \/ PostSell \/ ConcludeSell \/ EndPass

-------------------------------------------------------------------------------
(* A pass of _portfolio_aggregation_loop: AlertEngine.evaluate() finds the  *)
(* drawdown critical or not, and CircuitBreaker.evaluate_alerts() spends    *)
(* the override once, whatever the alerts are, or else trips the latch.     *)
EvaluateAlerts(critical) ==
    /\ \/ /\ config.override
          /\ breaker' = "CLOSED"
          /\ config' = [config EXCEPT !.override = FALSE]
       \/ /\ ~config.override
          /\ breaker' = IF critical THEN "OPEN" ELSE breaker
          /\ UNCHANGED config
    /\ UNCHANGED <<entry, exit, positions, ledger, restarts>>

(* Mutant: a restart takes up an entry whose row it finds PENDING. *)
RestartResumes ==
    /\ restarts < MaxRestarts
    /\ restarts' = restarts + 1
    /\ \/ /\ \A d \in Decisions : status[Buy(d)] # "PENDING"
          /\ queue' = << >>
       \/ \E d \in Decisions : status[Buy(d)] = "PENDING" /\ queue' = <<d>>
    /\ buy' = Waiting
    /\ exit' = Asleep
    /\ breaker' = "CLOSED"
    /\ config' \in Configs
    /\ lateBuys' = 0
    /\ UNCHANGED <<fresh, positions, ledger>>

(* The process dies or is shut down, and starts again: the queue, the      *)
(* frames and the breaker are memory, the tables and the exchange are not. *)
Restart ==
    /\ restarts < MaxRestarts
    /\ restarts' = restarts + 1
    /\ queue' = << >>
    /\ buy' = Waiting
    /\ exit' = Asleep
    /\ breaker' = "CLOSED"
    /\ config' \in Configs
    /\ lateBuys' = 0
    /\ UNCHANGED <<fresh, positions, ledger>>

Next ==
    \/ \E d \in Decisions : Approve(d)
    \/ ConsumerStep
    \/ StartScan
    \/ ExitStep
    \/ \E critical \in BOOLEAN : EvaluateAlerts(critical)
    \/ Restart

(* The loops run until they are cancelled and every await in them ends:    *)
(* HTTP calls, RPC calls and polling are bounded.  The consumer and the    *)
(* exit scan are tasks of one event loop, so each gets its turn.           *)
Fairness == WF_vars(ConsumerStep) /\ WF_vars(ExitStep)

Spec == Init /\ [][Next]_vars /\ Fairness

-------------------------------------------------------------------------------
(* A tripped breaker stops entries: of the decisions queued behind it none *)
(* is sent, only the one BUY that had passed check_entry_allowed() when    *)
(* _portfolio_aggregation_loop tripped the latch may still go out, and     *)
(* nothing but a restart unlatches it.                                     *)
AtMostOneLateBuy == lateBuys <= 1

(* A settlement, once written, is what a position keeps: whatever is       *)
(* scanned, routed or settled again after a failed close or a restart,     *)
(* record_settlement() does not price the same exit twice.                 *)
SettledOnce ==
    [][\A d \in Decisions : positions[d].pnl # "NULL" =>
            positions'[d].pnl = positions[d].pnl]_vars

(* The exit scan takes a position up only while it is OPEN: what a pass    *)
(* closed, sold or not, no later pass routes again.                        *)
InExit(d) == d \in exit.todo \/ d \in {exit.exits[i] : i \in DOMAIN exit.exits}

ClosedForGood ==
    [][\A d \in Decisions :
         positions[d].status \in {"CLOSED", "FAILED"} /\ ~InExit(d) =>
            /\ ~InExit(d)'
            /\ positions'[d].status = positions[d].status]_vars

(* Every approved decision comes to an end: no gate, no failing write and  *)
(* no open breaker holds up _execution_consumer_loop.                      *)
Queued(d)     == \E i \in DOMAIN queue : queue[i] = d
InConsumer(d) == Queued(d) \/ (buy.stage # "get" /\ buy.d = d)

DecisionsEnd == \A d \in Decisions : InConsumer(d) ~> ~InConsumer(d)

(* Exits go on whatever the breaker, the consumer and the exchange do: a   *)
(* pass of _exit_scan_loop that has begun reaches its end.                 *)
ExitPassEnds == exit.stage # "sleep" ~> exit.stage = "sleep"

(* Nothing is sold, settled or even looked at by the exit scan that was not *)
(* recorded as opened: no position means no SELL row and no SELL order, and *)
(* neither does one recorded as FAILED, across failing writes and restarts  *)
(* between table, scan and exchange.                                        *)
OnlyOpenedSold ==
    \A d \in Decisions :
        \/ InExit(d)
        \/ positions[d].pnl # "NULL"
        \/ status[Sell(d)] # "NONE"
        \/ orders[Sell(d)] # 0
        => positions[d].status \in {"OPEN", "CLOSED"}

(* The BUY of a decision is attempted once: up to its insert there is no    *)
(* row and no order of an earlier attempt, so that decision_id's uniqueness *)
(* never refuses a BUY, and from the insert on row and frame agree.         *)
Unsent == {"exposure", "breaker", "route", "record", "record_failed", "insert"}

NeverOrdered(d) == status[Buy(d)] = "NONE" /\ orders[Buy(d)] = 0

OneAttempt ==
    /\ \A d \in Decisions : d \in fresh \/ Queued(d) => NeverOrdered(d)
    /\ buy.stage \in Unsent => NeverOrdered(buy.d)
    /\ buy.stage = "post" => status[Buy(buy.d)] = "PENDING" /\ orders[Buy(buy.d)] = 0
    /\ buy.stage = "conclude" => status[Buy(buy.d)] = "PENDING"

(* Entries are forgotten, never resumed: once the consumer is done with a   *)
(* decision, or a crash took it from queue or frame, it never comes back    *)
(* and its BUY stays as it is.                                              *)
NeverResumed ==
    [][\A d \in Decisions :
         d \notin fresh /\ ~InConsumer(d) =>
            /\ ~InConsumer(d)'
            /\ status'[Buy(d)] = status[Buy(d)]
            /\ orders'[Buy(d)] = orders[Buy(d)]]_vars
===============================================================================
