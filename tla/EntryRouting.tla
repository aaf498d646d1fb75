----------------------------- MODULE EntryRouting -----------------------------
(***************************************************************************)
(* The way of a BUY in detail, and what may stop it: the gates of          *)
(* _execution_consumer_loop, each with its own await and its own answer to *)
(* a failing service, ExecutionRouter.route() with the book and the        *)
(* balance it reads and the size it derives, the position it leaves, and   *)
(* _portfolio_aggregation_loop, which prices those positions one after the *)
(* other and trips the circuit breaker that the next BUY meets.            *)
(*                                                                         *)
(* It implements TradeLifecycle, whose exit scan it leaves asleep.  All    *)
(* decisions are about one market.  Prices are in percent, amounts in      *)
(* cents.  Live mode.                                                      *)
(***************************************************************************)
EXTENDS Integers, Sequences, FiniteSets, FiniteSetsExt

CONSTANTS
    Decisions,    \* snapshot ids of approved evaluations
    Books,        \* order books the exchange may show: [mid, ask]
    Balances,     \* what the wallet may hold when it is asked
    Outcomes,     \* final statuses that a broadcast may reach
    MaxOrder,     \* max_order_usdc
    Drawdown,     \* alert_drawdown_usdc
    MaxRestarts   \* bound: restarts of the process in a behaviour

ASSUME EntryRoutingAssumption ==
    /\ Decisions # {}
    /\ \A b \in Books : b.mid \in 1 .. 100 /\ b.ask \in b.mid .. 100
    /\ Balances \subseteq Nat
    /\ Outcomes \subseteq {"CONFIRMED", "REVERTED", "FAILED"}
    /\ MaxOrder \in Nat /\ Drawdown \in Nat
    /\ MaxRestarts \in Nat

VARIABLES
    book,         \* the market's order book
    fresh,        \* decisions the evaluation task has not approved yet
    queue,        \* execution_queue
    buy,          \* the frame of _execution_consumer_loop and of route()
    breaker,      \* CircuitBreaker._state
    config,       \* the switches of AppConfig
    positions,    \* the row that each decision left
    scan,         \* the frame of _portfolio_aggregation_loop
    status,       \* execution_txs, as in OrderLedger
    orders,       \* orders accepted by the exchange, as in OrderLedger
    lateBuys,     \* history: BUY orders sent since the breaker tripped
    restarts      \* restarts so far (bounded)

Ledger == INSTANCE OrderLedger WITH Keys <- Decisions

ledger == <<status, orders>>
entry  == <<fresh, queue, buy, lateBuys>>
risk   == <<breaker, config, scan>>
vars   == <<book, entry, risk, positions, ledger, restarts>>

MinEv == 2        \* min_ev_threshold
Slippage == 2     \* max_slippage_tolerance

(* fetch_order_book() answers None: timeout, error, an empty or crossed book. *)
NoBook == [mid |-> 0, ask |-> 0]

Nobody == "no decision"
Gates  == {"exposure", "wallet", "gas", "breaker"}
Routes == {"book", "balance"}
Waiting    == [stage |-> "get", d |-> Nobody, mid |-> 0, size |-> 0]
NoPosition == [status |-> "NONE", price |-> 0, size |-> 0]
Asleep     == [stage |-> "asleep", todo |-> {}, pnl |-> 0]
Configs == [override : BOOLEAN, exposureGate : BOOLEAN, walletGate : BOOLEAN,
            gasGate : BOOLEAN]

TypeOK ==
    /\ book \in Books \cup {NoBook}
    /\ fresh \subseteq Decisions /\ queue \in Seq(Decisions)
    /\ buy.stage \in {"get", "record", "record_failed", "insert", "post",
                      "conclude"} \cup Gates \cup Routes
    /\ buy.stage # "get" => buy.d \in Decisions
    /\ breaker \in {"CLOSED", "OPEN"} /\ config \in Configs
    /\ \A d \in Decisions : positions[d].status \in {"NONE", "OPEN", "FAILED"}
    /\ scan.stage \in {"asleep", "pricing", "alerting"}
    /\ scan.todo \subseteq Decisions
    /\ Ledger!LedgerTypeOK
    /\ lateBuys \in Nat /\ restarts \in 0 .. MaxRestarts

Init ==
    /\ book \in Books \cup {NoBook}
    /\ fresh = Decisions /\ queue = << >>
    /\ buy = Waiting
    /\ breaker = "CLOSED" /\ config \in Configs
    /\ positions = [d \in Decisions |-> NoPosition]
    /\ scan = Asleep
    /\ Ledger!LedgerInit
    /\ lateBuys = 0 /\ restarts = 0

-----------------------------------------------------------------------------
(* external: the market moves or cannot be read; the evaluation task        *)
(* approves a decision.                                                     *)
MarketMoves ==
    /\ book' \in (Books \cup {NoBook}) \ {book}
    /\ UNCHANGED <<entry, risk, positions, ledger, restarts>>

Approve(d) ==
    /\ d \in fresh
    /\ fresh' = fresh \ {d}
    /\ queue' = Append(queue, d)
    /\ UNCHANGED <<book, buy, lateBuys, risk, positions, ledger, restarts>>

BuyGoTo(stage) == buy' = [buy EXCEPT !.stage = stage]

(* "continue", or an exception that the loop logs, and task_done().         *)
BuyDone == buy' = Waiting

TakeDecision ==
    /\ buy.stage = "get"
    /\ queue # << >>
    /\ buy' = [Waiting EXCEPT !.stage = "exposure", !.d = Head(queue)]
    /\ queue' = Tail(queue)
    /\ UNCHANGED <<book, fresh, lateBuys, risk, positions, ledger, restarts>>

BuyOnly == UNCHANGED <<book, fresh, queue, lateBuys, risk, positions, ledger,
                       restarts>>

(* validate_entry() refuses floats, and max_exposure_pct is one: once the   *)
(* open positions are read the gate raises, as it does if they cannot be.   *)
ExposureGate ==
    /\ buy.stage = "exposure"
    /\ IF config.exposureGate THEN BuyDone ELSE BuyGoTo("wallet")
    /\ BuyOnly

(* WalletBalanceProvider.check_balances() wants enough USDC and MATIC, and  *)
(* fails open: whatever the wallet holds, it may answer either.             *)
CheckBalances == BOOLEAN

WalletGate ==
    /\ buy.stage = "wallet"
    /\ \/ ~config.walletGate /\ BuyGoTo("gas")
       \/ /\ config.walletGate
          /\ \E passed \in CheckBalances : IF passed THEN BuyGoTo("gas") ELSE BuyDone
    /\ BuyOnly

(* Gas price and MATIC price fall back to configured ones, and the expected *)
(* value exceeds the cost or not.                                           *)
PreEvaluateGasCheck == BOOLEAN

GasGate ==
    /\ buy.stage = "gas"
    /\ \/ ~config.gasGate /\ BuyGoTo("breaker")
       \/ /\ config.gasGate
          /\ \E passed \in PreEvaluateGasCheck :
               IF passed THEN BuyGoTo("breaker") ELSE BuyDone
    /\ BuyOnly

(* Mutant: only the gate of the wallet is asked, not the breaker.           *)
CheckBreakerLax ==
    /\ buy.stage = "breaker"
    /\ IF breaker = "CLOSED" \/ config.walletGate THEN BuyGoTo("book") ELSE BuyDone
    /\ BuyOnly

CheckBreaker ==
    /\ buy.stage = "breaker"
    /\ IF breaker = "CLOSED" THEN BuyGoTo("book") ELSE BuyDone
    /\ BuyOnly

(* route(): without a book, or with an ask too far from the midpoint, it is *)
(* FAILED; a decision that is no BUY or too unsure is skipped.              *)
SlippageExceeded == book.ask > book.mid + Slippage

FetchBook ==
    /\ buy.stage = "book"
    /\ \/ /\ book # NoBook /\ ~SlippageExceeded
          /\ buy' = [buy EXCEPT !.stage = "balance", !.mid = book.mid]
       \/ /\ book = NoBook \/ SlippageExceeded
          /\ BuyGoTo("record_failed")
       \/ BuyDone
    /\ BuyOnly

(* A quarter of edge / odds, of the whole balance, up to the largest order. *)
OrderSize(mid, balance) ==
    LET edge == mid - MinEv
        kelly == (edge * mid * balance) \div (4 * 100 * (100 - mid))
    IN  IF mid >= 100 \/ edge <= 0 THEN 0 ELSE Min({kelly, MaxOrder})

(* Mutant: fetch_balance() fails open, past the record of the position.     *)
BalanceFailsOpen ==
    /\ buy.stage = "balance"
    /\ BuyGoTo("insert")
    /\ BuyOnly

(* fetch_balance() fails closed; then everything up to the signed order, of *)
(* which both the building and the signing may raise: the condition id need *)
(* not be the decimal number that it is taken for.                          *)
BalanceFails ==
    /\ buy.stage = "balance"
    /\ BuyGoTo("record_failed")
    /\ BuyOnly

SizeAndSign(balance) ==
    LET size == OrderSize(buy.mid, balance) IN
    /\ buy.stage = "balance"
    /\ \/ size = 0 /\ BuyGoTo("record_failed")
       \/ /\ size > 0
          /\ \/ buy' = [buy EXCEPT !.stage = "record", !.size = size]
             \/ BuyGoTo("record_failed")
             \/ BuyDone
    /\ BuyOnly

(* PositionTracker.record_execution(); an exception is logged, an unknown   *)
(* token id skips it, and the order goes out all the same.                  *)
RecordPosition ==
    /\ \/ /\ buy.stage = "record"
          /\ buy' = [Waiting EXCEPT !.stage = "insert", !.d = buy.d]
          /\ \/ positions' = [positions EXCEPT ![buy.d] =
                     [status |-> "OPEN", price |-> buy.mid, size |-> buy.size]]
             \/ UNCHANGED positions
       \/ /\ buy.stage = "record_failed"
          /\ BuyDone
          /\ \/ positions' = [positions EXCEPT ![buy.d].status = "FAILED"]
             \/ UNCHANGED positions
    /\ UNCHANGED <<book, fresh, queue, lateBuys, risk, ledger, restarts>>

(* broadcast() of the order: its row, the POST, and what becomes of it.     *)
InsertBuy ==
    /\ buy.stage = "insert"
    /\ \/ /\ Ledger!RecordPending(buy.d)
          /\ BuyGoTo("post")
          /\ lateBuys' = lateBuys + (IF breaker = "OPEN" THEN 1 ELSE 0)
       \/ BuyDone /\ UNCHANGED <<ledger, lateBuys>>
    /\ UNCHANGED <<book, fresh, queue, risk, positions, restarts>>

PostBuy ==
    /\ buy.stage = "post"
    /\ Ledger!AcceptOrder(buy.d) \/ UNCHANGED ledger
    /\ BuyGoTo("conclude")
    /\ UNCHANGED <<book, fresh, queue, lateBuys, risk, positions, restarts>>

ConcludeBuy ==
    /\ buy.stage = "conclude"
    /\ (\E s \in Outcomes : Ledger!Conclude(buy.d, s)) \/ UNCHANGED ledger
    /\ BuyDone
    /\ UNCHANGED <<book, fresh, queue, lateBuys, risk, positions, restarts>>

ConsumerStep ==
    \/ TakeDecision \/ ExposureGate \/ WalletGate \/ GasGate \/ CheckBreaker
    \/ FetchBook \/ BalanceFails \/ \E c \in Balances : SizeAndSign(c)
    \/ RecordPosition \/ InsertBuy \/ PostBuy \/ ConcludeBuy

-----------------------------------------------------------------------------
(* _portfolio_aggregation_loop: compute_snapshot() reads the open positions *)
(* and fetches one book for each.                                           *)

OpenPositions == {d \in Decisions : positions[d].status = "OPEN"}

ScanOnly == UNCHANGED <<book, entry, config, positions, ledger, restarts>>

BeginSnapshot ==
    /\ scan.stage = "asleep"
    /\ scan' = [stage |-> "pricing", todo |-> OpenPositions, pnl |-> 0]
    /\ UNCHANGED breaker /\ ScanOnly

PnL(p, mid) == ((mid - p.price) * p.size) \div p.price

(* Mutant: the loss is counted in prices, not in what was bought.           *)
PricePositionUnscaled(d) ==
    /\ scan.stage = "pricing" /\ d \in scan.todo
    /\ scan' = [scan EXCEPT !.todo = @ \ {d},
         !.pnl = @ + (IF book = NoBook THEN 0 ELSE book.mid - positions[d].price)]
    /\ UNCHANGED breaker /\ ScanOnly

(* Without a book the position counts at its entry price.                   *)
PricePosition(d) ==
    /\ scan.stage = "pricing" /\ d \in scan.todo
    /\ scan' = [scan EXCEPT !.todo = @ \ {d},
         !.pnl = @ + (IF book = NoBook THEN 0 ELSE PnL(positions[d], book.mid))]
    /\ UNCHANGED breaker /\ ScanOnly

(* The report is generated and the alerts are evaluated; they are sent one  *)
(* by one before the breaker hears of them.                                 *)
SendAlerts ==
    /\ scan.stage = "pricing" /\ scan.todo = {}
    /\ scan' = [scan EXCEPT !.stage = "alerting"]
    /\ UNCHANGED breaker /\ ScanOnly

(* The positions, or the report, cannot be read: nothing is evaluated.      *)
ScanFails ==
    /\ scan.stage = "pricing" /\ scan.todo = {}
    /\ scan' = Asleep
    /\ UNCHANGED breaker /\ ScanOnly

(* AlertEngine.evaluate(), and CircuitBreaker.evaluate_alerts() with its    *)
(* one-shot override.                                                       *)
EvaluateAlerts ==
    /\ scan.stage = "alerting"
    /\ scan' = Asleep
    /\ \/ /\ config.override
          /\ breaker' = "CLOSED"
          /\ config' = [config EXCEPT !.override = FALSE]
       \/ /\ ~config.override
          /\ breaker' = IF scan.pnl < -Drawdown THEN "OPEN" ELSE breaker
          /\ UNCHANGED config
    /\ UNCHANGED <<book, entry, positions, ledger, restarts>>

AggregationStep ==
    \/ BeginSnapshot \/ \E d \in Decisions : PricePosition(d)
    \/ SendAlerts \/ ScanFails \/ EvaluateAlerts

(* The process ends and starts again.                                       *)
Restart ==
    /\ restarts < MaxRestarts
    /\ restarts' = restarts + 1
    /\ queue' = << >> /\ buy' = Waiting /\ scan' = Asleep
    /\ breaker' = "CLOSED" /\ config' \in Configs
    /\ lateBuys' = 0
    /\ UNCHANGED <<book, fresh, positions, ledger>>

Next ==
    \/ MarketMoves
    \/ \E d \in Decisions : Approve(d)
    \/ ConsumerStep
    \/ AggregationStep
    \/ Restart

(* The loops run on and every await in them ends; the database does not     *)
(* refuse the aggregation for ever.                                         *)
Fairness == WF_vars(ConsumerStep) /\ WF_vars(AggregationStep) /\ SF_vars(SendAlerts)

Spec == Init /\ [][Next]_vars /\ Fairness

-----------------------------------------------------------------------------
(* The gates and the router are the entry of TradeLifecycle, and what the   *)
(* aggregation computes decides its EvaluateAlerts: whichever service fails *)
(* and whichever gate fails open, nothing is routed past an open breaker,   *)
(* nothing is broadcast that was not sized and recorded, in that order.     *)
AbstractStage ==
    CASE buy.stage \in {"exposure", "wallet", "gas"} -> "exposure"
      [] buy.stage \in Routes -> "route"
      [] OTHER -> buy.stage

Rows(ofBuy, ofSell) ==
    [k \in {"BUY", "SELL"} \X Decisions |-> IF k[1] = "BUY" THEN ofBuy[k[2]] ELSE ofSell]

Trade == INSTANCE TradeLifecycle WITH
    Prices    <- {"a price"},
    buy       <- [stage |-> AbstractStage, d |-> buy.d],
    exit      <- [stage |-> "sleep", todo |-> {}, exits |-> << >>, price |-> "NULL"],
    config    <- [override |-> config.override, exposureGate |-> config.exposureGate],
    positions <- [d \in Decisions |-> [status |-> positions[d].status, pnl |-> "NULL"]],
    status    <- Rows(status, "NONE"),
    orders    <- Rows(orders, 0)

ImplementsTrade == Trade!Init /\ [][Trade!Next]_Trade!vars

(* A tripped breaker stops entries: at most the one BUY that had passed it  *)
(* still goes out.                                                          *)
AtMostOneLateBuy == lateBuys <= 1

(* A loss that stays trips the breaker, whatever is opened meanwhile and    *)
(* although a position whose book cannot be read counts as no loss: if the  *)
(* book can be read from some time on, it stays open from some time on.     *)
Loss == SumFunction([d \in OpenPositions |-> PnL(positions[d], book.mid)])

DrawdownTrips ==
    <>[](book # NoBook /\ Loss < -Drawdown) => <>[](breaker = "OPEN")
===============================================================================
