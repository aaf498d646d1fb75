--------------------------- MODULE EntryRoutingProofs ---------------------------
(***************************************************************************)
(* Proofs about the way of a BUY, for any decisions, books, balances and   *)
(* limits: at most one order follows a tripped breaker, no order exceeds   *)
(* the largest allowed one, and the gates, the router and the aggregation  *)
(* are, step by step, the entry of TradeLifecycle.                         *)
(***************************************************************************)
EXTENDS EntryRouting, SequenceTheorems, TLAPS

Early  == {"exposure", "wallet", "gas"}
Stages == {"get", "record", "record_failed", "insert", "post", "conclude"}
            \cup Gates \cup Routes

(* Shape and type of each frame and table. *)
BuyTyped ==
    /\ buy = [stage |-> buy.stage, d |-> buy.d, mid |-> buy.mid, size |-> buy.size]
    /\ buy.stage \in Stages
    /\ buy.d \in Decisions \cup {Nobody}
    /\ buy.stage # "get" => buy.d \in Decisions

QueueTyped == fresh \subseteq Decisions /\ queue \in Seq(Decisions)

ConfigTyped == breaker \in {"CLOSED", "OPEN"} /\ config \in Configs

Rowed(p) ==
    /\ p = [status |-> p.status, price |-> p.price, size |-> p.size]
    /\ p.status \in {"NONE", "OPEN", "FAILED"}

PositionsTyped ==
    /\ positions = [d \in Decisions |-> positions[d]]
    /\ \A d \in Decisions : Rowed(positions[d])

ScanTyped ==
    /\ scan = [stage |-> scan.stage, todo |-> scan.todo, pnl |-> scan.pnl]
    /\ scan.stage \in {"asleep", "pricing", "alerting"}
    /\ scan.todo \subseteq Decisions

Typed ==
    /\ book \in Books \cup {NoBook}
    /\ QueueTyped /\ BuyTyped /\ ConfigTyped /\ PositionsTyped /\ ScanTyped
    /\ Ledger!LedgerTypeOK
    /\ lateBuys \in Nat /\ restarts \in 0 .. MaxRestarts

(* The exposure gate, when it is switched on, lets nothing pass. *)
GateHolds == buy.stage \in {"wallet", "gas"} => ~config.exposureGate

-------------------------------------------------------------------------------
(* The frame of the consumer moves on, or back to its queue. *)
LEMMA WentTo ==
  ASSUME BuyTyped, NEW s \in Stages, buy.stage # "get", BuyGoTo(s)
  PROVE  /\ BuyTyped' /\ buy'.stage = s /\ buy'.d = buy.d
         /\ buy'.mid = buy.mid /\ buy'.size = buy.size
  BY DEF BuyTyped, BuyGoTo

(* BuyDone leaves an empty frame. *)
LEMMA WentBack ==
  ASSUME BuyDone
  PROVE  BuyTyped' /\ buy'.stage = "get" /\ buy'.d = Nobody
  BY DEF BuyTyped, BuyDone, Waiting, Stages

(* A decision is taken from the head of the queue. *)
LEMMA Took ==
  ASSUME QueueTyped, TakeDecision
  PROVE  /\ BuyTyped' /\ buy'.stage = "exposure" /\ buy'.d = Head(queue)
         /\ queue' \in Seq(Decisions)
<1>1. Head(queue) \in Decisions /\ Tail(queue) \in Seq(Decisions)
  BY DEF QueueTyped, TakeDecision
<1>2. /\ buy' = [stage |-> "exposure", d |-> Head(queue), mid |-> 0, size |-> 0]
      /\ queue' = Tail(queue)
  BY DEF TakeDecision, Waiting
<1> QED
  BY <1>1, <1>2 DEF BuyTyped, Stages, Gates

(* The router's frame after the order book has been read. *)
LEMMA Quoted ==
  ASSUME BuyTyped, buy.stage = "book", NEW m,
         buy' = [buy EXCEPT !.stage = "balance", !.mid = m]
  PROVE  BuyTyped' /\ buy'.stage = "balance" /\ buy'.d = buy.d /\ buy'.mid = m
  BY DEF BuyTyped, Stages, Routes

(* And after the order has been sized. *)
LEMMA Sized ==
  ASSUME BuyTyped, buy.stage = "balance", NEW z,
         buy' = [buy EXCEPT !.stage = "record", !.size = z]
  PROVE  /\ BuyTyped' /\ buy'.stage = "record" /\ buy'.d = buy.d
         /\ buy'.mid = buy.mid /\ buy'.size = z
  BY DEF BuyTyped, Stages

(* And after the position has been recorded. *)
LEMMA Recorded ==
  ASSUME BuyTyped, buy.stage = "record",
         buy' = [Waiting EXCEPT !.stage = "insert", !.d = buy.d]
  PROVE  BuyTyped' /\ buy'.stage = "insert" /\ buy'.d = buy.d
<1>1. buy' = [stage |-> "insert", d |-> buy.d, mid |-> 0, size |-> 0]
  BY DEF Waiting
<1> QED
  BY <1>1 DEF BuyTyped, Stages

(* The row of one decision changes. *)
LEMMA RowWritten ==
  ASSUME PositionsTyped, NEW d \in Decisions, NEW p, Rowed(p),
         positions' = [positions EXCEPT ![d] = p]
  PROVE  /\ PositionsTyped'
         /\ \A e \in Decisions : positions'[e] = IF e = d THEN p ELSE positions[e]
  BY DEF PositionsTyped

(* Recording a FAILED position changes that row only. *)
LEMMA RowFailed ==
  ASSUME PositionsTyped, NEW d \in Decisions,
         positions' = [positions EXCEPT ![d].status = "FAILED"]
  PROVE  /\ PositionsTyped'
         /\ \A e \in Decisions : e # d => positions'[e] = positions[e]
         /\ positions'[d].status = "FAILED"
<1> DEFINE p == [positions[d] EXCEPT !.status = "FAILED"]
<1>1. Rowed(positions[d])
  BY DEF PositionsTyped
<1>2. positions' = [positions EXCEPT ![d] = p]
  BY DEF PositionsTyped
<1>3. Rowed(p) /\ p.status = "FAILED"
  BY <1>1 DEF Rowed
<1> HIDE DEF p
<1>4. /\ PositionsTyped'
      /\ \A e \in Decisions : positions'[e] = IF e = d THEN p ELSE positions[e]
  BY <1>2, <1>3, RowWritten
<1> QED
  BY <1>3, <1>4

(* The frame of the aggregation after its stage has changed. *)
LEMMA ScanWent ==
  ASSUME ScanTyped, NEW s \in {"pricing", "alerting"}, scan' = [scan EXCEPT !.stage = s]
  PROVE  ScanTyped'
  BY DEF ScanTyped

(* And after a position has been priced. *)
LEMMA ScanPriced ==
  ASSUME ScanTyped, NEW t, t \subseteq Decisions, NEW x,
         scan' = [scan EXCEPT !.todo = t, !.pnl = x]
  PROVE  ScanTyped'
  BY DEF ScanTyped

(* A step of the ledger keeps its types. *)
LEMMA LedgerStepTyped ==
  ASSUME Ledger!LedgerTypeOK, NEW d \in Decisions,
         \/ Ledger!RecordPending(d)
         \/ Ledger!AcceptOrder(d)
         \/ \E s \in Outcomes : Ledger!Conclude(d, s)
  PROVE  Ledger!LedgerTypeOK'
  BY DEF Ledger!LedgerTypeOK, Ledger!TxStatus, Ledger!Final,
         Ledger!RecordPending, Ledger!AcceptOrder, Ledger!Conclude

(* Initially nothing is under way. *)
LEMMA TypedInit == EntryRoutingAssumption /\ Init => Typed
<1> SUFFICES ASSUME EntryRoutingAssumption, Init PROVE Typed
  OBVIOUS
<1>1. BuyTyped
  BY DEF Init, BuyTyped, Waiting, Stages
<1>2. QueueTyped
  BY EmptySeq DEF Init, QueueTyped
<1>3. PositionsTyped
  BY DEF Init, PositionsTyped, Rowed, NoPosition
<1>4. ScanTyped
  BY DEF Init, ScanTyped, Asleep
<1>5. Ledger!LedgerTypeOK
  BY DEF Init, Ledger!LedgerInit, Ledger!LedgerTypeOK, Ledger!TxStatus
<1>6. lateBuys \in Nat /\ restarts \in 0 .. MaxRestarts
  BY DEF Init, EntryRoutingAssumption
<1> QED
  BY <1>1, <1>2, <1>3, <1>4, <1>5, <1>6 DEF Typed, Init, ConfigTyped

(* A gate, or a step of the router, passes the frame on and touches         *)
(* nothing else.                                                            *)
LEMMA BuyOnlyTyped ==
  ASSUME Typed, BuyOnly, BuyTyped'
  PROVE  Typed'
<1>1. QueueTyped' /\ ConfigTyped' /\ PositionsTyped' /\ ScanTyped'
  BY DEF Typed, BuyOnly, risk, QueueTyped, ConfigTyped, PositionsTyped, ScanTyped
<1>2. Ledger!LedgerTypeOK'
  BY DEF Typed, BuyOnly, ledger, Ledger!LedgerTypeOK
<1> QED
  BY <1>1, <1>2 DEF Typed, BuyOnly

(* Gates and router keep the types. *)
LEMMA GatesPass ==
  ASSUME Typed, \/ ExposureGate \/ WalletGate \/ GasGate \/ CheckBreaker \/ FetchBook
                \/ BalanceFails \/ \E c \in Balances : SizeAndSign(c)
  PROVE  Typed'
<1>a. BuyTyped /\ BuyOnly
  BY DEF Typed, ExposureGate, WalletGate, GasGate, CheckBreaker, FetchBook,
         BalanceFails, SizeAndSign
<1> SUFFICES BuyTyped'
  BY <1>a, BuyOnlyTyped
<1>b. BuyDone => BuyTyped'
  BY WentBack
<1>c. ASSUME NEW s \in Stages, buy.stage # "get", BuyGoTo(s) PROVE BuyTyped'
  BY <1>a, <1>c, WentTo
<1>1. CASE ExposureGate
  BY <1>1, <1>b, <1>c DEF ExposureGate, Stages, Gates
<1>2. CASE WalletGate
  BY <1>2, <1>b, <1>c DEF WalletGate, Stages, Gates
<1>3. CASE GasGate
  BY <1>3, <1>b, <1>c DEF GasGate, Stages, Gates
<1>4. CASE CheckBreaker
  BY <1>4, <1>b, <1>c DEF CheckBreaker, Stages, Routes
<1>5. CASE FetchBook
  BY <1>5, <1>a, <1>b, <1>c, Quoted DEF FetchBook, Stages
<1>6. CASE BalanceFails
  BY <1>6, <1>c DEF BalanceFails, Stages
<1>7. CASE \E c \in Balances : SizeAndSign(c)
  <2>1. PICK c \in Balances : SizeAndSign(c)
    BY <1>7
  <2> DEFINE z == OrderSize(buy.mid, c)
  <2>2. \/ BuyGoTo("record_failed") \/ BuyDone
        \/ buy' = [buy EXCEPT !.stage = "record", !.size = z]
    BY <2>1 DEF SizeAndSign
  <2>3. buy.stage = "balance"
    BY <2>1 DEF SizeAndSign
  <2> HIDE DEF z
  <2> QED
    BY <2>2, <2>3, <1>a, <1>b, <1>c, Sized DEF Stages
<1> QED
  BY <1>1, <1>2, <1>3, <1>4, <1>5, <1>6, <1>7

(* So does the recording of a position. *)
LEMMA RecordTyped ==
  ASSUME Typed, RecordPosition
  PROVE  Typed'
<1>a. BuyTyped /\ PositionsTyped
  BY DEF Typed
<1>1. CASE buy.stage = "record"
  <2> DEFINE p == [status |-> "OPEN", price |-> buy.mid, size |-> buy.size]
  <2>1. BuyTyped'
    BY <1>1, <1>a, Recorded DEF RecordPosition
  <2>2. buy.d \in Decisions
    BY <1>1, <1>a DEF BuyTyped
  <2>3. Rowed(p)
    BY DEF Rowed
  <2>4. positions' = [positions EXCEPT ![buy.d] = p] \/ UNCHANGED positions
    BY <1>1 DEF RecordPosition
  <2> HIDE DEF p
  <2>5. PositionsTyped'
    BY <2>2, <2>3, <2>4, <1>a, RowWritten DEF PositionsTyped
  <2> QED
    BY <2>1, <2>5 DEF RecordPosition, Typed, risk, ledger, QueueTyped, ConfigTyped,
       ScanTyped, Ledger!LedgerTypeOK
<1>2. CASE buy.stage = "record_failed"
  <2>1. BuyTyped'
    BY <1>2, WentBack DEF RecordPosition
  <2>2. buy.d \in Decisions
    BY <1>2, <1>a DEF BuyTyped
  <2>3. \/ positions' = [positions EXCEPT ![buy.d].status = "FAILED"]
        \/ UNCHANGED positions
    BY <1>2 DEF RecordPosition
  <2>4. PositionsTyped'
    BY <2>2, <2>3, <1>a, RowFailed DEF PositionsTyped
  <2> QED
    BY <2>1, <2>4 DEF RecordPosition, Typed, risk, ledger, QueueTyped, ConfigTyped,
       ScanTyped, Ledger!LedgerTypeOK
<1> QED
  BY <1>1, <1>2 DEF RecordPosition

(* The three steps of broadcast(). *)
LEMMA BroadcastTyped ==
  ASSUME Typed, InsertBuy \/ PostBuy \/ ConcludeBuy
  PROVE  Typed'
<1>a. BuyTyped /\ buy.d \in Decisions /\ buy.stage # "get" /\ Ledger!LedgerTypeOK
  BY DEF Typed, BuyTyped, InsertBuy, PostBuy, ConcludeBuy
<1>1. BuyTyped'
  BY <1>a, WentTo, WentBack DEF InsertBuy, PostBuy, ConcludeBuy, Stages
<1>2. \/ Ledger!RecordPending(buy.d) \/ Ledger!AcceptOrder(buy.d)
      \/ \E s \in Outcomes : Ledger!Conclude(buy.d, s)
      \/ UNCHANGED ledger
  BY DEF InsertBuy, PostBuy, ConcludeBuy
<1>3. Ledger!LedgerTypeOK'
  <2>1. CASE UNCHANGED ledger
    BY <2>1, <1>a DEF ledger, Ledger!LedgerTypeOK
  <2> QED
    BY <1>a, <1>2, <2>1, LedgerStepTyped
<1>4. lateBuys' \in Nat
  BY DEF Typed, InsertBuy, PostBuy, ConcludeBuy
<1>5. UNCHANGED <<book, fresh, queue, risk, positions, restarts>>
  BY DEF InsertBuy, PostBuy, ConcludeBuy
<1> QED
  BY <1>1, <1>3, <1>4, <1>5 DEF Typed, risk, QueueTyped, ConfigTyped, PositionsTyped,
     ScanTyped

(* And so does a pass of the aggregation. *)
LEMMA AggregationTyped ==
  ASSUME Typed, AggregationStep
  PROVE  Typed'
<1>a. ScanTyped /\ ConfigTyped
  BY DEF Typed
<1>b. UNCHANGED <<book, entry, positions, ledger, restarts>>
  BY DEF AggregationStep, BeginSnapshot, PricePosition, SendAlerts, ScanFails,
         EvaluateAlerts, ScanOnly
<1>c. Asleep = [stage |-> "asleep", todo |-> {}, pnl |-> 0]
  BY DEF Asleep
<1>1. ScanTyped'
  <2>1. CASE BeginSnapshot
    BY <2>1 DEF BeginSnapshot, OpenPositions, ScanTyped
  <2>2. ASSUME NEW d \in Decisions, PricePosition(d) PROVE ScanTyped'
    <3> DEFINE x == scan.pnl + (IF book = NoBook THEN 0 ELSE PnL(positions[d], book.mid))
    <3>1. scan' = [scan EXCEPT !.todo = scan.todo \ {d}, !.pnl = x]
      BY <2>2 DEF PricePosition
    <3>2. scan.todo \ {d} \subseteq Decisions
      BY <1>a DEF ScanTyped
    <3> HIDE DEF x
    <3> QED
      BY <3>1, <3>2, <1>a, ScanPriced
  <2>3. CASE SendAlerts
    BY <2>3, <1>a, ScanWent DEF SendAlerts
  <2>4. CASE ScanFails \/ EvaluateAlerts
    BY <2>4, <1>c DEF ScanFails, EvaluateAlerts, ScanTyped
  <2> QED
    BY <2>1, <2>2, <2>3, <2>4 DEF AggregationStep
<1>2. ConfigTyped'
  <2>1. CASE UNCHANGED <<breaker, config>>
    BY <2>1, <1>a DEF ConfigTyped
  <2>2. CASE EvaluateAlerts
    BY <2>2, <1>a DEF EvaluateAlerts, ConfigTyped, Configs
  <2> QED
    BY <2>1, <2>2 DEF AggregationStep, BeginSnapshot, PricePosition, SendAlerts,
       ScanFails, ScanOnly
<1> QED
  BY <1>1, <1>2, <1>b DEF Typed, entry, ledger, QueueTyped, BuyTyped, PositionsTyped,
     Ledger!LedgerTypeOK

(* Every step keeps the types. *)
LEMMA TypedStep == EntryRoutingAssumption /\ Typed /\ [Next]_vars => Typed'
<1> SUFFICES ASSUME EntryRoutingAssumption, Typed, [Next]_vars PROVE Typed'
  OBVIOUS
<1> USE DEF entry, risk, ledger
<1>1. CASE MarketMoves
  BY <1>1 DEF MarketMoves, Typed, QueueTyped, BuyTyped, ConfigTyped, PositionsTyped,
     ScanTyped, Ledger!LedgerTypeOK
<1>2. ASSUME NEW d \in Decisions, Approve(d) PROVE Typed'
  <2>1. QueueTyped'
    BY <1>2 DEF Approve, Typed, QueueTyped
  <2> QED
    BY <1>2, <2>1 DEF Approve, Typed, BuyTyped, ConfigTyped, PositionsTyped,
       ScanTyped, Ledger!LedgerTypeOK
<1>3. CASE TakeDecision
  <2>1. BuyTyped' /\ QueueTyped'
    BY <1>3, Took DEF Typed, QueueTyped, TakeDecision
  <2> QED
    BY <1>3, <2>1 DEF TakeDecision, Typed, ConfigTyped, PositionsTyped,
       ScanTyped, Ledger!LedgerTypeOK
<1>4. CASE \/ ExposureGate \/ WalletGate \/ GasGate \/ CheckBreaker \/ FetchBook
           \/ BalanceFails \/ \E c \in Balances : SizeAndSign(c)
  BY <1>4, GatesPass
<1>5. CASE RecordPosition
  BY <1>5, RecordTyped
<1>6. CASE InsertBuy \/ PostBuy \/ ConcludeBuy
  BY <1>6, BroadcastTyped
<1>7. CASE AggregationStep
  BY <1>7, AggregationTyped
<1>8. CASE Restart
  <2>1. BuyTyped' /\ ScanTyped' /\ QueueTyped'
    BY <1>8, WentBack, EmptySeq DEF Restart, BuyDone, ScanTyped, Asleep, Typed, QueueTyped
  <2>2. restarts' \in 0 .. MaxRestarts /\ lateBuys' \in Nat
    BY <1>8 DEF Restart, Typed, EntryRoutingAssumption
  <2> QED
    BY <1>8, <2>1, <2>2 DEF Restart, Typed, ConfigTyped, PositionsTyped,
       Ledger!LedgerTypeOK
<1>9. CASE UNCHANGED vars
  BY <1>9 DEF vars, Typed, QueueTyped, BuyTyped, ConfigTyped, PositionsTyped,
     ScanTyped, Ledger!LedgerTypeOK
<1> QED
  BY <1>1, <1>2, <1>3, <1>4, <1>5, <1>6, <1>7, <1>8, <1>9 DEF Next, ConsumerStep

(* Every variable keeps its type in every behaviour. *)
THEOREM Types == Spec => []Typed
<1>1. Init => Typed
  BY TypedInit, EntryRoutingAssumption
<1>2. Typed /\ [Next]_vars => Typed'
  BY TypedStep, EntryRoutingAssumption
<1> QED
  BY <1>1, <1>2, PTL DEF Spec

(* The type invariant of the run: the frames, the queue, the tables and the *)
(* counters are what the code declares.                                     *)
THEOREM TypeCorrect == Spec => []TypeOK
<1>1. Typed => TypeOK
  BY DEF Typed, TypeOK, QueueTyped, BuyTyped, ConfigTyped, PositionsTyped, ScanTyped,
         Rowed, Stages
<1> QED
  BY <1>1, Types, PTL

-------------------------------------------------------------------------------
(* Where the consumer stands after one of its steps, for the arguments that *)
(* look at nothing else of the frame.                                       *)
LEMMA StageMoves ==
  ASSUME BuyTyped, ConsumerStep
  PROVE  \/ buy.stage = "get" /\ buy'.stage = "exposure"
         \/ buy.stage = "exposure" /\ buy'.stage = "wallet" /\ ~config.exposureGate
         \/ buy.stage = "wallet" /\ buy'.stage = "gas"
         \/ buy.stage = "gas" /\ buy'.stage = "breaker"
         \/ buy.stage = "breaker" /\ buy'.stage = "book" /\ breaker = "CLOSED"
         \/ buy.stage = "book" /\ buy'.stage \in {"balance", "record_failed"}
         \/ buy.stage = "balance" /\ buy'.stage \in {"record", "record_failed"}
         \/ buy.stage = "record" /\ buy'.stage = "insert"
         \/ buy.stage = "insert" /\ buy'.stage = "post"
         \/ buy.stage = "post" /\ buy'.stage = "conclude"
         \/ buy'.stage = "get"
<1>b. BuyDone => buy'.stage = "get"
  BY WentBack
<1>c. ASSUME NEW s \in Stages, buy.stage # "get", BuyGoTo(s) PROVE buy'.stage = s
  BY <1>c, WentTo
<1>1. CASE TakeDecision
  BY <1>1 DEF TakeDecision, Waiting
<1>2. CASE ExposureGate
  BY <1>2, <1>b, <1>c DEF ExposureGate, Stages, Gates
<1>3. CASE WalletGate
  BY <1>3, <1>b, <1>c DEF WalletGate, Stages, Gates
<1>4. CASE GasGate
  BY <1>4, <1>b, <1>c DEF GasGate, Stages, Gates
<1>5. CASE CheckBreaker
  BY <1>5, <1>b, <1>c DEF CheckBreaker, Stages, Routes
<1>6. CASE FetchBook
  BY <1>6, <1>b, <1>c, Quoted DEF FetchBook, Stages
<1>7. CASE BalanceFails
  BY <1>7, <1>c DEF BalanceFails, Stages
<1>8. ASSUME NEW c \in Balances, SizeAndSign(c)
      PROVE  buy.stage = "balance" /\ buy'.stage \in {"record", "record_failed", "get"}
  <2> DEFINE z == OrderSize(buy.mid, c)
  <2>1. \/ BuyGoTo("record_failed") \/ BuyDone
        \/ buy' = [buy EXCEPT !.stage = "record", !.size = z]
    BY <1>8 DEF SizeAndSign
  <2>2. buy.stage = "balance"
    BY <1>8 DEF SizeAndSign
  <2> HIDE DEF z
  <2> QED
    BY <2>1, <2>2, <1>b, <1>c, Sized DEF Stages
<1>9. CASE RecordPosition
  BY <1>9, <1>b, Recorded DEF RecordPosition
<1>10. CASE InsertBuy \/ PostBuy \/ ConcludeBuy
  BY <1>10, <1>b, <1>c DEF InsertBuy, PostBuy, ConcludeBuy, Stages
<1> QED
  BY <1>1, <1>2, <1>3, <1>4, <1>5, <1>6, <1>7, <1>8, <1>9, <1>10 DEF ConsumerStep

(* The exposure gate, when it is switched on, keeps every decision from the *)
(* gates that follow it: the switches do not change while one is there.     *)
LEMMA GateStep == Typed /\ GateHolds /\ [Next]_vars => GateHolds'
<1> SUFFICES ASSUME Typed, GateHolds, [Next]_vars PROVE GateHolds'
  OBVIOUS
<1>1. CASE ConsumerStep
  <2>1. UNCHANGED config
    BY <1>1 DEF ConsumerStep, TakeDecision, ExposureGate, WalletGate, GasGate,
       CheckBreaker, FetchBook, BalanceFails, SizeAndSign, RecordPosition, InsertBuy,
       PostBuy, ConcludeBuy, BuyOnly, risk
  <2> QED
    BY <1>1, <2>1, StageMoves DEF GateHolds, Typed
<1>2. CASE EvaluateAlerts
  <2>1. config'.exposureGate = config.exposureGate /\ UNCHANGED buy
    BY <1>2 DEF EvaluateAlerts, entry, Typed, ConfigTyped, Configs
  <2> QED
    BY <2>1 DEF GateHolds
<1>3. CASE Restart
  BY <1>3 DEF Restart, Waiting, GateHolds
<1>4. CASE UNCHANGED <<buy, config>>
  BY <1>4 DEF GateHolds
<1> QED
  BY <1>1, <1>2, <1>3, <1>4 DEF Next, AggregationStep, MarketMoves, Approve,
     BeginSnapshot, PricePosition, SendAlerts, ScanFails, ScanOnly, entry, risk, vars

(* With the exposure gate configured, no frame of the consumer is ever      *)
(* behind it: validate_entry() raises for every decision.                   *)
THEOREM GateNeverPassed == Spec => []GateHolds
<1>1. Init => GateHolds
  BY DEF Init, GateHolds, Waiting
<1> QED
  BY <1>1, GateStep, Types, PTL DEF Spec

-------------------------------------------------------------------------------
(* Stages of a BUY that has passed the breaker and is not sent yet.         *)
Cleared == {"book", "balance", "record", "record_failed", "insert"}

(* The inductive invariant behind AtMostOneLateBuy: once the breaker is     *)
(* open only the one BUY that has passed it may still be sent, and none     *)
(* has been while that one is under way; the override is spent before the   *)
(* breaker can open.                                                        *)
LateInv ==
    /\ breaker = "CLOSED" => lateBuys = 0
    /\ breaker = "OPEN" => ~config.override
    /\ breaker = "OPEN" /\ buy.stage \in Cleared => lateBuys = 0
    /\ lateBuys <= 1

(* Every step keeps at most one BUY past an open breaker. *)
LEMMA LateStep == Typed /\ LateInv /\ [Next]_vars => LateInv'
<1> SUFFICES ASSUME Typed, LateInv, [Next]_vars PROVE LateInv'
  OBVIOUS
<1>a. BuyTyped /\ lateBuys \in Nat /\ breaker \in {"CLOSED", "OPEN"}
  BY DEF Typed, ConfigTyped
<1>1. CASE InsertBuy
  <2>1. UNCHANGED risk /\ buy.stage = "insert"
    BY <1>1 DEF InsertBuy
  <2>2. buy'.stage \notin Cleared
    BY <1>1, <2>1, <1>a, WentTo, WentBack DEF InsertBuy, Cleared, Stages
  <2>3. \/ UNCHANGED lateBuys
        \/ lateBuys' = lateBuys + (IF breaker = "OPEN" THEN 1 ELSE 0)
    BY <1>1 DEF InsertBuy
  <2> QED
    BY <2>1, <2>2, <2>3, <1>a DEF LateInv, risk, Cleared
<1>2. CASE ConsumerStep /\ ~InsertBuy
  <2>1. UNCHANGED <<breaker, config, lateBuys>>
    BY <1>2 DEF ConsumerStep, TakeDecision, ExposureGate, WalletGate, GasGate,
       CheckBreaker, FetchBook, BalanceFails, SizeAndSign, RecordPosition,
       PostBuy, ConcludeBuy, BuyOnly, risk
  <2> QED
    BY <1>2, <2>1, <1>a, StageMoves DEF LateInv, Cleared
<1>3. CASE EvaluateAlerts
  <2>1. UNCHANGED <<buy, lateBuys>>
    BY <1>3 DEF EvaluateAlerts, entry
  <2>2. CASE config.override
    BY <1>3, <2>1, <2>2, <1>a DEF EvaluateAlerts, LateInv
  <2>3. CASE ~config.override
    BY <1>3, <2>1, <2>3, <1>a DEF EvaluateAlerts, LateInv
  <2> QED
    BY <2>2, <2>3
<1>4. CASE Restart
  BY <1>4 DEF Restart, LateInv
<1>5. CASE UNCHANGED <<buy, breaker, config, lateBuys>>
  BY <1>5 DEF LateInv
<1> QED
  BY <1>1, <1>2, <1>3, <1>4, <1>5 DEF Next, AggregationStep, MarketMoves, Approve,
     BeginSnapshot, PricePosition, SendAlerts, ScanFails, ScanOnly, entry, risk, vars

(* With every gate, the router and the pricing of the positions between     *)
(* them: at most one order follows the tripping of the breaker.             *)
THEOREM LateBuys == Spec => []AtMostOneLateBuy
<1>1. Init => LateInv
  BY DEF Init, LateInv
<1>2. LateInv => AtMostOneLateBuy
  BY DEF LateInv, AtMostOneLateBuy
<1> QED
  BY <1>1, <1>2, LateStep, Types, PTL DEF Spec

-------------------------------------------------------------------------------
(* The size that route() derives for a book it may trade at.                *)
LEMMA SizeInBounds ==
  ASSUME EntryRoutingAssumption, NEW mid \in 1 .. 100, NEW c \in Balances,
         OrderSize(mid, c) > 0
  PROVE  mid \in 1 .. 99 /\ OrderSize(mid, c) \in 1 .. MaxOrder
<1> DEFINE edge == mid - MinEv
           kelly == (edge * mid * c) \div (4 * 100 * (100 - mid))
<1>a. c \in Nat /\ MaxOrder \in Nat
  BY DEF EntryRoutingAssumption
<1>1. OrderSize(mid, c) =
        IF mid >= 100 \/ edge <= 0 THEN 0 ELSE Min({kelly, MaxOrder})
  BY DEF OrderSize
<1>2. mid < 100 /\ edge \in Int
  BY <1>1 DEF MinEv
<1>3. kelly \in Int
  <2> DEFINE odds == 4 * 100 * (100 - mid)
             stake == edge * mid * c
  <2>1. odds \in Int /\ odds > 0
    BY <1>2
  <2>2. stake \in Int
    BY <1>a, <1>2
  <2> HIDE DEF odds, stake, edge
  <2>3. stake \div odds \in Int
    BY <2>1, <2>2
  <2> QED
    BY <2>3 DEF odds, stake
<1> HIDE DEF kelly, edge
<1>4. Min({kelly, MaxOrder}) \in Int /\ Min({kelly, MaxOrder}) <= MaxOrder
  BY <1>3, <1>a DEF Min
<1>5. OrderSize(mid, c) = Min({kelly, MaxOrder})
  BY <1>1, <1>2
<1> QED
  BY <1>2, <1>4, <1>5, <1>a

(* What is bought is priced inside the book and is no larger than the       *)
(* largest order: by the frame of the consumer, by the rows of the open     *)
(* positions, and by those the aggregation has still to price.  The sum it  *)
(* compares with the drawdown is therefore a number: no position is divided *)
(* by a price of zero.                                                      *)
Affordable(p) == p.price \in 1 .. 99 /\ p.size \in 1 .. MaxOrder

Sizes ==
    /\ buy.stage = "balance" => buy.mid \in 1 .. 100
    /\ buy.stage = "record" => buy.mid \in 1 .. 99 /\ buy.size \in 1 .. MaxOrder
    /\ \A d \in Decisions : positions[d].status = "OPEN" => Affordable(positions[d])
    /\ \A d \in scan.todo : Affordable(positions[d])
    /\ scan.pnl \in Int

(* What is recorded has the size and the price that the router gave it. *)
LEMMA SizesRecord ==
  ASSUME Typed, Sizes, RecordPosition
  PROVE  Sizes'
<1>a. BuyTyped /\ PositionsTyped /\ ScanTyped /\ buy.d \in Decisions
  BY DEF Typed, BuyTyped, RecordPosition
<1>b. UNCHANGED scan /\ buy'.stage \notin {"balance", "record"}
  BY <1>a, Recorded, WentBack DEF RecordPosition, risk
<1>1. ASSUME \A e \in Decisions : positions'[e] = positions[e] \/ Affordable(positions'[e])
                \/ (/\ positions'[e].status = "FAILED"
                    /\ positions'[e].price = positions[e].price
                    /\ positions'[e].size = positions[e].size)
      PROVE  Sizes'
  <2>1. \A e \in Decisions : Affordable(positions[e]) => Affordable(positions'[e])
    BY <1>1 DEF Affordable
  <2>2. \A e \in Decisions : positions'[e].status = "OPEN" => Affordable(positions'[e])
    BY <1>1 DEF Sizes
  <2> QED
    BY <2>1, <2>2, <1>a, <1>b DEF Sizes, ScanTyped
<1>2. CASE UNCHANGED positions
  BY <1>2, <1>1
<1>3. CASE buy.stage = "record" /\ ~UNCHANGED positions
  <2> DEFINE p == [status |-> "OPEN", price |-> buy.mid, size |-> buy.size]
  <2>1. Affordable(p)
    BY <1>3 DEF Affordable, Sizes
  <2>2. Rowed(p)
    BY DEF Rowed
  <2>3. positions' = [positions EXCEPT ![buy.d] = p]
    BY <1>3 DEF RecordPosition
  <2> HIDE DEF p
  <2>4. \A e \in Decisions : positions'[e] = IF e = buy.d THEN p ELSE positions[e]
    BY <2>2, <2>3, <1>a, RowWritten
  <2> QED
    BY <2>1, <2>4, <1>1
<1>4. CASE buy.stage = "record_failed" /\ ~UNCHANGED positions
  <2>1. positions' = [positions EXCEPT ![buy.d] =
                        [positions[buy.d] EXCEPT !.status = "FAILED"]]
    BY <1>4 DEF RecordPosition
  <2>2. Rowed(positions[buy.d])
    BY <1>a DEF PositionsTyped
  <2>3. \A e \in Decisions : positions'[e] =
          IF e = buy.d THEN [positions[e] EXCEPT !.status = "FAILED"] ELSE positions[e]
    BY <2>1, <1>a DEF PositionsTyped
  <2>4. LET p == [positions[buy.d] EXCEPT !.status = "FAILED"]
        IN  /\ p.status = "FAILED" /\ p.price = positions[buy.d].price
            /\ p.size = positions[buy.d].size
    BY <2>2 DEF Rowed
  <2> QED
    BY <2>3, <2>4, <1>1
<1> QED
  BY <1>2, <1>3, <1>4 DEF RecordPosition

(* The aggregation prices positions and leaves their sizes. *)
LEMMA SizesAggregation ==
  ASSUME EntryRoutingAssumption, Typed, Sizes, AggregationStep
  PROVE  Sizes'
<1>a. ScanTyped /\ PositionsTyped /\ book \in Books \cup {NoBook}
  BY DEF Typed
<1>b. UNCHANGED <<buy, positions>>
  BY DEF AggregationStep, BeginSnapshot, PricePosition, SendAlerts, ScanFails,
         EvaluateAlerts, ScanOnly, entry
<1> SUFFICES (\A d \in scan'.todo : Affordable(positions[d])) /\ scan'.pnl \in Int
  BY <1>b DEF Sizes
<1>1. CASE BeginSnapshot
  BY <1>1 DEF BeginSnapshot, OpenPositions, Sizes
<1>2. ASSUME NEW d \in Decisions, PricePosition(d)
      PROVE  (\A e \in scan'.todo : Affordable(positions[e])) /\ scan'.pnl \in Int
  <2> DEFINE x == IF book = NoBook THEN 0 ELSE PnL(positions[d], book.mid)
             y == scan.pnl + x
             p == positions[d]
  <2>1. scan' = [scan EXCEPT !.todo = scan.todo \ {d}, !.pnl = y] /\ d \in scan.todo
    BY <1>2 DEF PricePosition
  <2>2. p.price \in 1 .. 99 /\ p.size \in Nat
    BY <2>1 DEF Sizes, Affordable, EntryRoutingAssumption
  <2>3. book # NoBook => book.mid \in Int
    BY <1>a DEF EntryRoutingAssumption
  <2>4. x \in Int
    <3> DEFINE gain == (book.mid - p.price) * p.size
    <3>1. CASE book # NoBook
      <4>1. gain \in Int /\ p.price \in Int /\ p.price > 0
        BY <2>2, <2>3, <3>1
      <4>2. x = gain \div p.price
        BY <3>1 DEF PnL
      <4> HIDE DEF gain, p, x
      <4> QED
        BY <4>1, <4>2
    <3>2. CASE book = NoBook
      BY <3>2
    <3> QED
      BY <3>1, <3>2
  <2>5. y \in Int
    <3> HIDE DEF x
    <3> QED
      BY <2>4 DEF Sizes
  <2> HIDE DEF y
  <2>6. scan'.todo \subseteq scan.todo /\ scan'.pnl = y
    BY <2>1, <1>a DEF ScanTyped
  <2> QED
    BY <2>5, <2>6 DEF Sizes
<1>3. CASE SendAlerts
  <2>1. scan'.todo = scan.todo /\ scan'.pnl = scan.pnl
    BY <1>3, <1>a DEF SendAlerts, ScanTyped
  <2> QED
    BY <2>1 DEF Sizes
<1>4. CASE ScanFails \/ EvaluateAlerts
  BY <1>4 DEF ScanFails, EvaluateAlerts, Asleep
<1> QED
  BY <1>1, <1>2, <1>3, <1>4 DEF AggregationStep

(* Every step keeps sizes and prices within their limits. *)
LEMMA SizesStep == EntryRoutingAssumption /\ Typed /\ Sizes /\ [Next]_vars => Sizes'
<1> SUFFICES ASSUME EntryRoutingAssumption, Typed, Sizes, [Next]_vars PROVE Sizes'
  OBVIOUS
<1>a. BuyTyped /\ book \in Books \cup {NoBook}
  BY DEF Typed
<1>b. UNCHANGED <<positions, scan>> /\ buy'.stage \notin {"balance", "record"} => Sizes'
  BY DEF Sizes
<1>1. CASE RecordPosition
  BY <1>1, SizesRecord
<1>2. CASE AggregationStep
  BY <1>2, SizesAggregation
<1>3. CASE TakeDecision \/ InsertBuy \/ PostBuy \/ ConcludeBuy
  <2>1. UNCHANGED <<positions, scan>>
    BY <1>3 DEF TakeDecision, InsertBuy, PostBuy, ConcludeBuy, risk
  <2>2. CASE TakeDecision
    BY <2>1, <2>2, <1>b DEF TakeDecision, Waiting
  <2>3. CASE InsertBuy \/ PostBuy \/ ConcludeBuy
    <3>1. BuyGoTo("post") \/ BuyGoTo("conclude") \/ BuyDone
      BY <2>3 DEF InsertBuy, PostBuy, ConcludeBuy
    <3>2. buy.stage # "get"
      BY <2>3 DEF InsertBuy, PostBuy, ConcludeBuy
    <3> QED
      BY <2>1, <3>1, <3>2, <1>a, <1>b, WentTo, WentBack DEF Stages
  <2> QED
    BY <1>3, <2>2, <2>3
<1>4. CASE ExposureGate \/ WalletGate \/ GasGate \/ CheckBreaker
  BY <1>4, <1>a, <1>b, WentTo, WentBack DEF ExposureGate, WalletGate, GasGate,
     CheckBreaker, BuyOnly, Stages, Gates, Routes, risk
<1>5. CASE FetchBook
  <2>1. buy.stage = "book" /\ UNCHANGED <<positions, scan>>
    BY <1>5 DEF FetchBook, BuyOnly, risk
  <2>2. CASE BuyGoTo("record_failed") \/ BuyDone
    BY <2>1, <2>2, <1>a, <1>b, WentTo, WentBack DEF Stages
  <2>3. CASE book # NoBook /\ buy' = [buy EXCEPT !.stage = "balance", !.mid = book.mid]
    <3>1. book.mid \in 1 .. 100
      BY <2>3, <1>a DEF EntryRoutingAssumption
    <3>2. buy'.stage = "balance" /\ buy'.mid = book.mid
      BY <2>1, <2>3, <1>a, Quoted
    <3> QED
      BY <2>1, <3>1, <3>2 DEF Sizes
  <2> QED
    BY <1>5, <2>2, <2>3 DEF FetchBook
<1>6. CASE BalanceFails
  BY <1>6, <1>a, <1>b, WentTo DEF BalanceFails, BuyOnly, Stages, risk
<1>7. ASSUME NEW c \in Balances, SizeAndSign(c) PROVE Sizes'
  <2> DEFINE z == OrderSize(buy.mid, c)
  <2>1. buy.stage = "balance" /\ buy.mid \in 1 .. 100 /\ UNCHANGED <<positions, scan>>
    BY <1>7 DEF SizeAndSign, BuyOnly, Sizes, risk
  <2>2. \/ BuyGoTo("record_failed") \/ BuyDone
        \/ z > 0 /\ buy' = [buy EXCEPT !.stage = "record", !.size = z]
    BY <1>7 DEF SizeAndSign
  <2>3. z > 0 => buy.mid \in 1 .. 99 /\ z \in 1 .. MaxOrder
    BY <2>1, SizeInBounds
  <2> HIDE DEF z
  <2>4. CASE BuyGoTo("record_failed") \/ BuyDone
    BY <2>1, <2>4, <1>a, <1>b, WentTo, WentBack DEF Stages
  <2>5. CASE z > 0 /\ buy' = [buy EXCEPT !.stage = "record", !.size = z]
    <3>1. buy'.stage = "record" /\ buy'.mid = buy.mid /\ buy'.size = z
      BY <2>1, <2>5, <1>a, Sized
    <3> QED
      BY <2>1, <2>3, <2>5, <3>1 DEF Sizes
  <2> QED
    BY <2>2, <2>4, <2>5
<1>8. CASE Restart
  BY <1>8 DEF Restart, Sizes, Waiting, Asleep
<1>9. CASE UNCHANGED <<buy, positions, scan>>
  BY <1>9 DEF Sizes
<1> QED
  BY <1>1, <1>2, <1>3, <1>4, <1>5, <1>6, <1>7, <1>8, <1>9 DEF Next, ConsumerStep,
     MarketMoves, Approve, entry, risk, vars

(* Whatever the books and the balances, no position is recorded that is     *)
(* larger than max_order_usdc or that compute_snapshot() cannot price.      *)
THEOREM SizesBounded == Spec => []Sizes
<1>1. Init => Sizes
  BY DEF Init, Sizes, Waiting, Asleep, NoPosition
<1> QED
  BY <1>1, SizesStep, Types, EntryRoutingAssumption, PTL DEF Spec

-------------------------------------------------------------------------------
(* The refinement of TradeLifecycle.  What its variables are here:          *)
TradeBuy       == [stage |-> AbstractStage, d |-> buy.d]
TradeConfig    == [override |-> config.override, exposureGate |-> config.exposureGate]
TradePositions == [d \in Decisions |-> [status |-> positions[d].status, pnl |-> "NULL"]]

(* ... the rows and the orders of the BUYs alone, none of them a SELL.      *)
LEMMA RowsExcept ==
  ASSUME NEW f, NEW g, NEW rest, NEW d \in Decisions, NEW v,
         f = [e \in Decisions |-> f[e]], g = [f EXCEPT ![d] = v]
  PROVE  /\ Rows(g, rest) = [Rows(f, rest) EXCEPT ![<<"BUY", d>>] = v]
         /\ Rows(f, rest)[<<"BUY", d>>] = f[d]
<1>1. <<"BUY", d>> \in {"BUY", "SELL"} \X Decisions
  OBVIOUS
<1>2. Rows(f, rest)[<<"BUY", d>>] = f[d]
  BY <1>1 DEF Rows
<1>3. ASSUME NEW k \in {"BUY", "SELL"} \X Decisions
      PROVE  Rows(g, rest)[k] = [Rows(f, rest) EXCEPT ![<<"BUY", d>>] = v][k]
  <2>1. k = <<k[1], k[2]>> /\ k[1] \in {"BUY", "SELL"} /\ k[2] \in Decisions
    OBVIOUS
  <2>2. Rows(g, rest)[k] = IF k[1] = "BUY" THEN g[k[2]] ELSE rest
    BY DEF Rows
  <2>3. Rows(f, rest)[k] = IF k[1] = "BUY" THEN f[k[2]] ELSE rest
    BY DEF Rows
  <2>4. [Rows(f, rest) EXCEPT ![<<"BUY", d>>] = v][k] =
          IF k = <<"BUY", d>> THEN v ELSE Rows(f, rest)[k]
    BY DEF Rows
  <2>5. k = <<"BUY", d>> <=> k[1] = "BUY" /\ k[2] = d
    BY <2>1
  <2> QED
    BY <2>2, <2>3, <2>4, <2>5
<1>4. /\ Rows(g, rest) = [k \in {"BUY", "SELL"} \X Decisions |-> Rows(g, rest)[k]]
      /\ Rows(f, rest) = [k \in {"BUY", "SELL"} \X Decisions |-> Rows(f, rest)[k]]
  BY DEF Rows
<1> QED
  BY <1>2, <1>3, <1>4

(* How the frame of TradeLifecycle follows the one here. *)
LEMMA TradeGoes ==
  ASSUME NEW s, AbstractStage' = s, buy'.d = buy.d
  PROVE  Trade!BuyGoTo(s)
  BY DEF Trade!BuyGoTo

(* The end of an entry is the end of the abstract one. *)
LEMMA TradeDone ==
  ASSUME BuyDone
  PROVE  Trade!BuyDone
  BY DEF BuyDone, Waiting, Nobody, AbstractStage, Routes, Trade!BuyDone, Trade!Waiting,
         Trade!Nobody

(* What the abstract entry does not see is a stutter of it. *)
LEMMA TradeStays ==
  ASSUME UNCHANGED <<fresh, queue, TradeBuy, lateBuys, breaker, TradeConfig,
                     TradePositions, status, orders, restarts>>
  PROVE  UNCHANGED Trade!vars
  BY DEF Trade!vars, Trade!entry, Trade!risk, Trade!ledger, TradeBuy, TradeConfig,
         TradePositions, Rows

(* Initial states map to initial states. *)
LEMMA TradeInit == Init => Trade!Init
<1> SUFFICES ASSUME Init PROVE Trade!Init
  OBVIOUS
<1>1. TradeBuy = Trade!Waiting
  BY DEF Init, TradeBuy, Waiting, Nobody, AbstractStage, Routes, Trade!Waiting,
         Trade!Nobody
<1>2. TradeConfig \in Trade!Configs
  BY DEF Init, TradeConfig, Configs, Trade!Configs
<1>3. TradePositions = [d \in Decisions |-> Trade!NoPosition]
  BY DEF Init, TradePositions, NoPosition, Trade!NoPosition
<1>4. Trade!Ledger!LedgerInit
  BY DEF Init, Ledger!LedgerInit, Rows, Trade!Ledger!LedgerInit, Trade!Keys
<1> QED
  BY <1>1, <1>2, <1>3, <1>4 DEF Init, TradeBuy, TradeConfig, TradePositions,
     Trade!Init, Trade!Asleep

(* The gates and the router: each of their steps is one of TradeLifecycle,  *)
(* or none.                                                                 *)
LEMMA OthersStay ==
  ASSUME BuyOnly
  PROVE  /\ UNCHANGED <<fresh, queue, lateBuys, Trade!risk, Trade!ledger, restarts>>
         /\ UNCHANGED TradePositions /\ UNCHANGED TradeConfig
  BY DEF BuyOnly, risk, ledger, Trade!risk, Trade!ledger, Rows, TradePositions,
         TradeConfig

(* A gate is the abstract check, or a stutter. *)
LEMMA GatesRefine ==
  ASSUME Typed, GateHolds, ExposureGate \/ WalletGate \/ GasGate \/ CheckBreaker
  PROVE  Trade!Next \/ UNCHANGED Trade!vars
<1>a. BuyTyped /\ BuyOnly
  BY DEF Typed, ExposureGate, WalletGate, GasGate, CheckBreaker
<1>b. /\ UNCHANGED <<fresh, queue, lateBuys, Trade!risk, Trade!ledger, restarts>>
      /\ UNCHANGED TradePositions /\ UNCHANGED TradeConfig
  BY <1>a, OthersStay
<1>c. /\ UNCHANGED <<breaker, status, orders>>
  BY <1>a DEF BuyOnly, risk, ledger
<1>d. ASSUME NEW s \in Stages, buy.stage # "get", BuyGoTo(s)
      PROVE  buy'.stage = s /\ buy'.d = buy.d
  BY <1>a, <1>d, WentTo
<1>e. BuyDone => Trade!BuyDone
  BY TradeDone
<1>1. CASE CheckBreaker
  <2>1. AbstractStage = "breaker"
    BY <1>1 DEF CheckBreaker, AbstractStage, Routes
  <2>2. CASE breaker = "CLOSED"
    <3>1. buy'.stage = "book" /\ buy'.d = buy.d
      BY <1>1, <2>2, <1>d DEF CheckBreaker, Stages, Routes
    <3>2. Trade!BuyGoTo("route")
      BY <3>1, TradeGoes DEF AbstractStage, Routes
    <3>3. Trade!CheckBreaker
      BY <2>1, <2>2, <3>2, <1>b DEF Trade!CheckBreaker, TradePositions
    <3> QED
      BY <3>3 DEF Trade!Next, Trade!ConsumerStep
  <2>3. CASE breaker # "CLOSED"
    <3>1. Trade!CheckBreaker
      BY <1>1, <2>1, <2>3, <1>b, <1>e DEF CheckBreaker, Trade!CheckBreaker, TradePositions
    <3> QED
      BY <3>1 DEF Trade!Next, Trade!ConsumerStep
  <2> QED
    BY <2>2, <2>3
<1>2. CASE ExposureGate /\ config.exposureGate
  <2>1. AbstractStage = "exposure" /\ Trade!BuyDone
    BY <1>2, <1>e DEF ExposureGate, AbstractStage, Routes
  <2>2. Trade!ExposureGateRaises
    BY <1>2, <2>1, <1>b DEF Trade!ExposureGateRaises, TradePositions
  <2> QED
    BY <2>2 DEF Trade!Next, Trade!ConsumerStep
<1>3. ASSUME ~config.exposureGate, AbstractStage = "exposure",
             Trade!BuyDone \/ Trade!BuyGoTo("breaker")
      PROVE  Trade!Next
  <2>1. Trade!CheckFunds
    BY <1>3, <1>b DEF Trade!CheckFunds, TradePositions
  <2> QED
    BY <2>1 DEF Trade!Next, Trade!ConsumerStep
<1>4. ASSUME AbstractStage = "exposure", AbstractStage' = "exposure", buy'.d = buy.d
      PROVE  UNCHANGED Trade!vars
  BY <1>4, <1>b, <1>c, TradeStays DEF TradeBuy
<1>5. CASE ExposureGate /\ ~config.exposureGate
  <2>1. buy.stage = "exposure" /\ buy'.stage = "wallet" /\ buy'.d = buy.d
    BY <1>5, <1>d DEF ExposureGate, Stages, Gates
  <2> QED
    BY <2>1, <1>4 DEF AbstractStage, Routes
<1>6. CASE WalletGate
  <2>1. buy.stage = "wallet" /\ AbstractStage = "exposure" /\ ~config.exposureGate
    BY <1>6 DEF WalletGate, AbstractStage, Routes, GateHolds
  <2>2. BuyDone \/ BuyGoTo("gas")
    BY <1>6 DEF WalletGate
  <2>3. CASE BuyGoTo("gas")
    <3>1. buy'.stage = "gas" /\ buy'.d = buy.d
      BY <2>1, <2>3, <1>d DEF Stages, Gates
    <3> QED
      BY <2>1, <3>1, <1>4 DEF AbstractStage, Routes
  <2>4. CASE BuyDone
    <3>1. Trade!BuyDone
      BY <2>4, TradeDone
    <3> QED
      BY <2>1, <3>1, <1>3
  <2> QED
    BY <2>2, <2>3, <2>4
<1>7. CASE GasGate
  <2>1. buy.stage = "gas" /\ AbstractStage = "exposure" /\ ~config.exposureGate
    BY <1>7 DEF GasGate, AbstractStage, Routes, GateHolds
  <2>2. BuyDone \/ BuyGoTo("breaker")
    BY <1>7 DEF GasGate
  <2>3. CASE BuyGoTo("breaker")
    <3>1. AbstractStage' = "breaker" /\ buy'.d = buy.d
      BY <2>1, <2>3, <1>d DEF Stages, Gates, AbstractStage, Routes
    <3>2. Trade!BuyGoTo("breaker")
      BY <3>1, TradeGoes
    <3> QED
      BY <2>1, <3>2, <1>3
  <2>4. CASE BuyDone
    <3>1. Trade!BuyDone
      BY <2>4, TradeDone
    <3> QED
      BY <2>1, <3>1, <1>3
  <2> QED
    BY <2>2, <2>3, <2>4
<1> QED
  BY <1>1, <1>2, <1>5, <1>6, <1>7

(* The router's awaits are the abstract route, or stutters. *)
LEMMA RouterRefines ==
  ASSUME Typed, FetchBook \/ BalanceFails \/ \E c \in Balances : SizeAndSign(c)
  PROVE  Trade!Next \/ UNCHANGED Trade!vars
<1>a. BuyTyped /\ BuyOnly
  BY DEF Typed, FetchBook, BalanceFails, SizeAndSign
<1>b. /\ UNCHANGED <<fresh, queue, lateBuys, Trade!risk, Trade!ledger, restarts>>
      /\ UNCHANGED TradePositions /\ UNCHANGED TradeConfig
  BY <1>a, OthersStay
<1>c. /\ UNCHANGED <<breaker, status, orders>>
  BY <1>a DEF BuyOnly, risk, ledger
<1>d. AbstractStage = "route" /\ buy.stage \in Routes
  BY DEF FetchBook, BalanceFails, SizeAndSign, AbstractStage, Routes
<1>e. /\ \/ BuyDone
         \/ buy'.stage \in {"balance", "record", "record_failed"} /\ buy'.d = buy.d
  <2>1. BuyGoTo("record_failed") => buy'.stage = "record_failed" /\ buy'.d = buy.d
    BY <1>a, <1>d, WentTo DEF Stages, Routes
  <2>2. CASE FetchBook
    BY <2>1, <2>2, <1>a, Quoted DEF FetchBook
  <2>3. CASE BalanceFails
    BY <2>1, <2>3 DEF BalanceFails
  <2>4. ASSUME NEW c \in Balances, SizeAndSign(c)
        PROVE  \/ BuyDone
               \/ buy'.stage \in {"record", "record_failed"} /\ buy'.d = buy.d
    <3> DEFINE z == OrderSize(buy.mid, c)
    <3>1. /\ buy.stage = "balance"
          /\ \/ BuyGoTo("record_failed") \/ BuyDone
             \/ buy' = [buy EXCEPT !.stage = "record", !.size = z]
      BY <2>4 DEF SizeAndSign
    <3> HIDE DEF z
    <3> QED
      BY <3>1, <2>1, <1>a, Sized
  <2> QED
    BY <2>2, <2>3, <2>4
<1>1. ASSUME NEW s \in {"record", "record_failed"}, buy'.stage = s, buy'.d = buy.d
      PROVE  Trade!BuyGoTo(s)
  BY <1>1, TradeGoes DEF AbstractStage, Routes
<1>2. CASE buy'.stage = "balance" /\ buy'.d = buy.d
  <2>1. UNCHANGED TradeBuy
    BY <1>2, <1>d DEF TradeBuy, AbstractStage, Routes
  <2> QED
    BY <2>1, <1>b, <1>c, TradeStays
<1>3. ASSUME Trade!BuyDone \/ Trade!BuyGoTo("record") \/ Trade!BuyGoTo("record_failed")
      PROVE  Trade!Next
  <2>1. Trade!RouteBuy
    BY <1>3, <1>b, <1>d DEF Trade!RouteBuy, TradePositions
  <2> QED
    BY <2>1 DEF Trade!Next, Trade!ConsumerStep
<1>4. CASE BuyDone
  <2>1. Trade!BuyDone
    BY <1>4, TradeDone
  <2> QED
    BY <2>1, <1>3
<1>5. CASE buy'.stage \in {"record", "record_failed"} /\ buy'.d = buy.d
  <2>1. Trade!BuyGoTo("record") \/ Trade!BuyGoTo("record_failed")
    BY <1>1, <1>5
  <2> QED
    BY <2>1, <1>3
<1> QED
  BY <1>e, <1>2, <1>4, <1>5

(* The position of a routed decision, and the broadcast of its order.       *)
LEMMA RecordRefines ==
  ASSUME Typed, RecordPosition
  PROVE  Trade!Next
<1>a. BuyTyped /\ PositionsTyped
  BY DEF Typed
<1>b. UNCHANGED <<fresh, queue, lateBuys, Trade!risk, Trade!ledger, restarts>>
  BY DEF RecordPosition, risk, ledger, Trade!risk, Trade!ledger, Rows
<1> DEFINE A(p) == [e \in Decisions |-> [status |-> p[e].status, pnl |-> "NULL"]]
<1>c. AbstractStage = buy.stage /\ buy.d \in Decisions
  BY <1>a DEF RecordPosition, AbstractStage, Routes, BuyTyped
<1>1. CASE buy.stage = "record"
  <2> DEFINE p == [status |-> "OPEN", price |-> buy.mid, size |-> buy.size]
  <2>1. Trade!BuyGoTo("insert")
    <3>1. buy'.stage = "insert" /\ buy'.d = buy.d
      BY <1>1, <1>a, Recorded DEF RecordPosition
    <3> QED
      BY <3>1, TradeGoes DEF AbstractStage, Routes
  <2>2. \/ positions' = [positions EXCEPT ![buy.d] = p]
        \/ UNCHANGED positions
    BY <1>1 DEF RecordPosition
  <2>3. ASSUME positions' = [positions EXCEPT ![buy.d] = p]
        PROVE  A(positions') = [A(positions) EXCEPT ![buy.d].status = "OPEN"]
    <3>1. \A e \in Decisions : positions'[e] = IF e = buy.d THEN p ELSE positions[e]
      BY <2>3, <1>a DEF PositionsTyped
    <3>2. \A e \in Decisions : positions'[e].status =
            IF e = buy.d THEN "OPEN" ELSE positions[e].status
      BY <3>1
    <3> QED
      BY <3>2, <1>c
  <2>4. A(positions') = [A(positions) EXCEPT ![buy.d].status = "OPEN"]
        \/ A(positions') = A(positions)
    BY <2>2, <2>3
  <2>5. Trade!RecordPosition
    BY <1>1, <1>b, <1>c, <2>1, <2>4 DEF Trade!RecordPosition
  <2> QED
    BY <2>5 DEF Trade!Next, Trade!ConsumerStep
<1>2. CASE buy.stage = "record_failed"
  <2>1. Trade!BuyDone
    BY <1>2, TradeDone DEF RecordPosition
  <2>2. \/ positions' = [positions EXCEPT ![buy.d].status = "FAILED"]
        \/ UNCHANGED positions
    BY <1>2 DEF RecordPosition
  <2>3. ASSUME positions' = [positions EXCEPT ![buy.d].status = "FAILED"]
        PROVE  A(positions') = [A(positions) EXCEPT ![buy.d].status = "FAILED"]
    <3>1. /\ \A e \in Decisions : e # buy.d => positions'[e] = positions[e]
          /\ positions'[buy.d].status = "FAILED"
      BY <2>3, <1>a, <1>c, RowFailed
    <3> QED
      BY <3>1, <1>c
  <2>4. A(positions') = [A(positions) EXCEPT ![buy.d].status = "FAILED"]
        \/ A(positions') = A(positions)
    BY <2>2, <2>3
  <2>5. Trade!RecordPosition
    BY <1>2, <1>b, <1>c, <2>1, <2>4 DEF Trade!RecordPosition
  <2> QED
    BY <2>5 DEF Trade!Next, Trade!ConsumerStep
<1> QED
  BY <1>1, <1>2 DEF RecordPosition

(* broadcast() of the BUY is the abstract one. *)
LEMMA BroadcastRefines ==
  ASSUME Typed, InsertBuy \/ PostBuy \/ ConcludeBuy
  PROVE  Trade!Next
<1>a. BuyTyped /\ buy.d \in Decisions /\ buy.stage # "get"
  BY DEF Typed, BuyTyped, InsertBuy, PostBuy, ConcludeBuy
<1>b. AbstractStage = buy.stage
  BY DEF InsertBuy, PostBuy, ConcludeBuy, AbstractStage, Routes
<1>c. /\ UNCHANGED <<fresh, queue, Trade!risk, restarts>>
      /\ UNCHANGED TradePositions
  BY DEF InsertBuy, PostBuy, ConcludeBuy, risk, Trade!risk, TradePositions
<1>d. UNCHANGED ledger => UNCHANGED Trade!ledger
  BY DEF ledger, Trade!ledger, Rows
<1>e. ASSUME NEW s \in {"post", "conclude"}, BuyGoTo(s)
      PROVE  Trade!BuyGoTo(s)
  <2>1. buy'.stage = s /\ buy'.d = buy.d
    BY <1>a, <1>e, WentTo DEF Stages
  <2> QED
    BY <2>1, TradeGoes DEF AbstractStage, Routes
<1>f. /\ status = [e \in Decisions |-> status[e]]
      /\ orders = [e \in Decisions |-> orders[e]]
  BY DEF Typed, Ledger!LedgerTypeOK
<1>1. CASE InsertBuy
  <2>1. CASE BuyDone /\ UNCHANGED <<ledger, lateBuys>>
    <3>1. Trade!BuyDone
      BY <2>1, TradeDone
    <3>2. Trade!InsertBuy
      BY <1>1, <2>1, <3>1, <1>b, <1>c, <1>d DEF InsertBuy, Trade!InsertBuy, TradePositions
    <3> QED
      BY <3>2 DEF Trade!Next, Trade!ConsumerStep
  <2>2. CASE /\ Ledger!RecordPending(buy.d)
             /\ BuyGoTo("post")
             /\ lateBuys' = lateBuys + (IF breaker = "OPEN" THEN 1 ELSE 0)
    <3>1. Trade!Ledger!RecordPending(Trade!Buy(buy.d))
      BY <2>2, <1>a, <1>f, RowsExcept DEF Ledger!RecordPending, Rows,
         Trade!Ledger!RecordPending, Trade!Buy
    <3>2. Trade!BuyGoTo("post")
      BY <2>2, <1>e
    <3>3. Trade!InsertBuy
      BY <1>1, <2>2, <3>1, <3>2, <1>b, <1>c DEF InsertBuy, Trade!InsertBuy, TradePositions
    <3> QED
      BY <3>3 DEF Trade!Next, Trade!ConsumerStep
  <2> QED
    BY <1>1, <2>1, <2>2 DEF InsertBuy
<1>2. CASE PostBuy
  <2>1. Trade!Ledger!AcceptOrder(Trade!Buy(buy.d)) \/ UNCHANGED Trade!ledger
    <3>1. CASE Ledger!AcceptOrder(buy.d)
      <4>1. Trade!Ledger!AcceptOrder(Trade!Buy(buy.d))
        BY <3>1, <1>a, <1>f, RowsExcept DEF Ledger!AcceptOrder, Rows,
           Trade!Ledger!AcceptOrder, Trade!Buy
      <4> QED
        BY <4>1
    <3> QED
      BY <1>2, <3>1, <1>d DEF PostBuy
  <2>2. Trade!BuyGoTo("conclude")
    BY <1>2, <1>e DEF PostBuy
  <2>3. Trade!PostBuy
    BY <1>2, <2>1, <2>2, <1>b, <1>c DEF PostBuy, Trade!PostBuy, TradePositions
  <2> QED
    BY <2>3 DEF Trade!Next, Trade!ConsumerStep
<1>3. CASE ConcludeBuy
  <2>1. \/ \E s \in Outcomes : Trade!Ledger!Conclude(Trade!Buy(buy.d), s)
        \/ UNCHANGED Trade!ledger
    <3>1. ASSUME NEW s \in Outcomes, Ledger!Conclude(buy.d, s)
          PROVE  Trade!Ledger!Conclude(Trade!Buy(buy.d), s)
      <4>1. /\ status[buy.d] = "PENDING" /\ s \in Trade!Ledger!Final
            /\ s # "FAILED" => orders[buy.d] = 1
            /\ status' = [status EXCEPT ![buy.d] = s] /\ orders' = orders
        BY <3>1 DEF Ledger!Conclude, Ledger!Final, Trade!Ledger!Final
      <4>2. /\ Rows(status', "NONE")
                  = [Rows(status, "NONE") EXCEPT ![Trade!Buy(buy.d)] = s]
            /\ Rows(status, "NONE")[Trade!Buy(buy.d)] = "PENDING"
        <5>1. Trade!Buy(buy.d) = <<"BUY", buy.d>>
          BY DEF Trade!Buy
        <5>2. status' = [status EXCEPT ![buy.d] = s]
          BY <4>1
        <5> QED
          BY <1>a, <1>f, <4>1, <5>1, <5>2, RowsExcept
      <4>3. Rows(orders, 0)[Trade!Buy(buy.d)] = orders[buy.d]
        BY <1>a DEF Rows, Trade!Buy
      <4>4. Rows(orders', 0) = Rows(orders, 0)
        BY <4>1
      <4> QED
        BY <4>1, <4>2, <4>3, <4>4 DEF Trade!Ledger!Conclude
    <3> QED
      BY <1>3, <3>1, <1>d DEF ConcludeBuy
  <2>2. Trade!BuyDone
    BY <1>3, TradeDone DEF ConcludeBuy
  <2>3. Trade!ConcludeBuy
    BY <1>3, <2>1, <2>2, <1>b, <1>c DEF ConcludeBuy, Trade!ConcludeBuy, TradePositions
  <2> QED
    BY <2>3 DEF Trade!Next, Trade!ConsumerStep
<1> QED
  BY <1>1, <1>2, <1>3

(* The aggregation: what it computes is the choice that EvaluateAlerts of   *)
(* TradeLifecycle leaves open, and the pricing before it is no step there.  *)
LEMMA AggregationRefines ==
  ASSUME Typed, AggregationStep
  PROVE  Trade!Next \/ UNCHANGED Trade!vars
<1>1. CASE EvaluateAlerts
  <2> DEFINE critical == scan.pnl < -Drawdown
  <2>1. /\ UNCHANGED <<Trade!entry, Trade!ledger, restarts>>
        /\ UNCHANGED TradePositions
    BY <1>1 DEF EvaluateAlerts, entry, ledger, Trade!entry, Trade!ledger, Rows,
       TradePositions, AbstractStage
  <2>2. config \in Configs
    BY DEF Typed, ConfigTyped
  <2>3. CASE config.override
    <3>1. breaker' = "CLOSED" /\ config' = [config EXCEPT !.override = FALSE]
      BY <1>1, <2>3 DEF EvaluateAlerts
    <3>2. TradeConfig' = [TradeConfig EXCEPT !.override = FALSE]
      <4>1. config'.override = FALSE /\ config'.exposureGate = config.exposureGate
        BY <3>1, <2>2 DEF Configs
      <4>2. ASSUME NEW a, NEW b, NEW v
            PROVE  [[override |-> a, exposureGate |-> b] EXCEPT !.override = v] =
                     [override |-> v, exposureGate |-> b]
        OBVIOUS
      <4>3. TradeConfig' = [override |-> FALSE, exposureGate |-> config.exposureGate]
        BY <4>1, Zenon DEF TradeConfig
      <4>4. [TradeConfig EXCEPT !.override = FALSE] =
              [override |-> FALSE, exposureGate |-> config.exposureGate]
        BY <4>2, Zenon DEF TradeConfig
      <4> QED
        BY <4>3, <4>4
    <3>3. Trade!EvaluateAlerts(TRUE)
      BY <2>1, <2>3, <3>1, <3>2 DEF Trade!EvaluateAlerts, TradeConfig, TradePositions
    <3> QED
      BY <3>3 DEF Trade!Next
  <2>4. CASE ~config.override
    <3>1. breaker' = (IF critical THEN "OPEN" ELSE breaker) /\ UNCHANGED config
      BY <1>1, <2>4 DEF EvaluateAlerts
    <3>2. UNCHANGED TradeConfig
      BY <3>1 DEF TradeConfig
    <3> HIDE DEF critical
    <3>3. CASE critical
      <4>1. Trade!EvaluateAlerts(TRUE)
        BY <2>1, <2>4, <3>1, <3>2, <3>3 DEF Trade!EvaluateAlerts, TradeConfig,
           TradePositions
      <4> QED
        BY <4>1 DEF Trade!Next
    <3>4. CASE ~critical
      <4>1. Trade!EvaluateAlerts(FALSE)
        BY <2>1, <2>4, <3>1, <3>2, <3>4 DEF Trade!EvaluateAlerts, TradeConfig,
           TradePositions
      <4> QED
        BY <4>1 DEF Trade!Next
    <3> QED
      BY <3>3, <3>4
  <2> QED
    BY <2>3, <2>4
<1>2. CASE \/ BeginSnapshot \/ (\E d \in Decisions : PricePosition(d))
           \/ SendAlerts \/ ScanFails
  <2>1. UNCHANGED <<entry, breaker, config, positions, ledger, restarts>>
    BY <1>2 DEF BeginSnapshot, PricePosition, SendAlerts, ScanFails, ScanOnly
  <2>2. UNCHANGED <<fresh, queue, TradeBuy, lateBuys, breaker, TradeConfig,
                    TradePositions, status, orders, restarts>>
    BY <2>1 DEF entry, ledger, TradeBuy, AbstractStage, TradeConfig, TradePositions
  <2> QED
    BY <2>2, TradeStays
<1> QED
  BY <1>1, <1>2 DEF AggregationStep

(* Every step is a step of TradeLifecycle, or a stutter. *)
LEMMA StepRefines ==
  Typed /\ GateHolds /\ [Next]_vars => [Trade!Next]_Trade!vars
<1> SUFFICES ASSUME Typed, GateHolds, [Next]_vars
             PROVE  Trade!Next \/ UNCHANGED Trade!vars
  OBVIOUS
<1>1. CASE MarketMoves \/ UNCHANGED vars
  <2>1. UNCHANGED <<entry, breaker, config, positions, ledger, restarts>>
    BY <1>1 DEF MarketMoves, vars, risk
  <2>2. UNCHANGED <<fresh, queue, TradeBuy, lateBuys, breaker, TradeConfig,
                    TradePositions, status, orders, restarts>>
    BY <2>1 DEF entry, ledger, TradeBuy, AbstractStage, TradeConfig, TradePositions
  <2> QED
    BY <2>2, TradeStays
<1>2. ASSUME NEW d \in Decisions, Approve(d) PROVE Trade!Next
  <2>1. /\ UNCHANGED <<lateBuys, Trade!risk, Trade!ledger, restarts>>
        /\ UNCHANGED TradePositions /\ UNCHANGED TradeBuy
    BY <1>2 DEF Approve, risk, ledger, Trade!risk, Trade!ledger, Rows, TradePositions,
       TradeBuy, AbstractStage
  <2>2. Trade!Approve(d)
    BY <1>2, <2>1 DEF Approve, Trade!Approve, TradePositions, TradeBuy
  <2> QED
    BY <2>2 DEF Trade!Next
<1>3. CASE TakeDecision
  <2>1. /\ UNCHANGED <<fresh, lateBuys, Trade!risk, Trade!ledger, restarts>>
        /\ UNCHANGED TradePositions
    BY <1>3 DEF TakeDecision, risk, ledger, Trade!risk, Trade!ledger, Rows,
       TradePositions
  <2>2. AbstractStage = "get" /\ AbstractStage' = "exposure" /\ buy'.d = Head(queue)
    BY <1>3 DEF TakeDecision, Waiting, AbstractStage, Routes
  <2>3. Trade!TakeDecision
    BY <1>3, <2>1, <2>2 DEF TakeDecision, Trade!TakeDecision, TradePositions
  <2> QED
    BY <2>3 DEF Trade!Next, Trade!ConsumerStep
<1>4. CASE ExposureGate \/ WalletGate \/ GasGate \/ CheckBreaker
  BY <1>4, GatesRefine
<1>5. CASE FetchBook \/ BalanceFails \/ \E c \in Balances : SizeAndSign(c)
  BY <1>5, RouterRefines
<1>6. CASE RecordPosition
  BY <1>6, RecordRefines
<1>7. CASE InsertBuy \/ PostBuy \/ ConcludeBuy
  BY <1>7, BroadcastRefines
<1>8. CASE AggregationStep
  BY <1>8, AggregationRefines
<1>9. CASE Restart
  <2>1. TradeBuy' = Trade!Waiting
    BY <1>9 DEF Restart, TradeBuy, Waiting, Nobody, AbstractStage, Routes,
       Trade!Waiting, Trade!Nobody
  <2>2. TradeConfig' \in Trade!Configs
    BY <1>9 DEF Restart, TradeConfig, Configs, Trade!Configs
  <2>3. UNCHANGED <<fresh, Trade!ledger>> /\ UNCHANGED TradePositions
    BY <1>9 DEF Restart, ledger, Trade!ledger, Rows, TradePositions
  <2>4. Trade!Restart
    BY <1>9, <2>1, <2>2, <2>3 DEF Restart, Trade!Restart, Trade!Asleep, TradeBuy,
       TradeConfig, TradePositions
  <2> QED
    BY <2>4 DEF Trade!Next
<1> QED
  BY <1>1, <1>2, <1>3, <1>4, <1>5, <1>6, <1>7, <1>8, <1>9 DEF Next, ConsumerStep

(* The gates, the router and the aggregation implement TradeLifecycle: so   *)
(* all that is proved of its positions, its orders and its breaker holds of *)
(* them, whichever service fails and whatever is in the book.               *)
THEOREM Implements == Spec => ImplementsTrade
<1>1. Spec => [][Trade!Next]_Trade!vars
  BY StepRefines, Types, GateNeverPassed, PTL DEF Spec
<1> QED
  BY <1>1, TradeInit, PTL DEF Spec, ImplementsTrade

-------------------------------------------------------------------------------
(* What is proved of TradeLifecycle, read of the state of EntryRouting: its *)
(* proofs under the refinement mapping.  The two instances of the module,   *)
(* Trade and this one, are the same formulas.                               *)
TradeProofs == INSTANCE TradeLifecycleProofs WITH
    Prices    <- {"a price"},
    buy       <- TradeBuy,
    exit      <- [stage |-> "sleep", todo |-> {}, exits |-> << >>, price |-> "NULL"],
    config    <- TradeConfig,
    positions <- TradePositions,
    status    <- Rows(status, "NONE"),
    orders    <- Rows(orders, 0)

(* The constants are ones TradeLifecycle assumes. *)
LEMMA TradeConstants == TradeProofs!ConstantsAssumption
  BY EntryRoutingAssumption DEF TradeProofs!ConstantsAssumption

(* Both instances of TradeLifecycle start in the same states. *)
LEMMA SameInit == Trade!Init => TradeProofs!Init
  BY
   DEF TradeBuy, TradeConfig, TradePositions, Trade!Init, Trade!Waiting,
       Trade!Nobody, Trade!Asleep, Trade!Configs, Trade!NoPosition,
       Trade!Keys, TradeProofs!Init, TradeProofs!Waiting, TradeProofs!Nobody,
       TradeProofs!Asleep, TradeProofs!Configs, TradeProofs!NoPosition,
       TradeProofs!Keys, Trade!Ledger!LedgerInit,
       TradeProofs!Ledger!LedgerInit

(* They take the same steps. *)
LEMMA SameStep == [Trade!Next]_Trade!vars => [TradeProofs!Next]_TradeProofs!vars
  BY
   DEF TradeBuy, TradeConfig, TradePositions, Trade!Next, Trade!vars,
       Trade!entry, Trade!risk, Trade!ledger, Trade!Approve, Trade!BuyGoTo,
       Trade!BuyDone, Trade!Waiting, Trade!Nobody, Trade!ConsumerStep,
       Trade!TakeDecision, Trade!ExposureGateRaises, Trade!CheckFunds,
       Trade!CheckBreaker, Trade!RouteBuy, Trade!RecordPosition,
       Trade!InsertBuy, Trade!PostBuy, Trade!ConcludeBuy, Trade!Buy,
       Trade!Sell, Trade!ExitStep, Trade!StartScan, Trade!OpenPositions,
       Trade!EvaluatePosition, Trade!HoldPosition, Trade!ClosePosition,
       Trade!CloseStaleFails, Trade!EndScan, Trade!RouteExit, Trade!ExitGoTo,
       Trade!ExitDone, Trade!Settle, Trade!InsertSell, Trade!PostSell,
       Trade!ConcludeSell, Trade!EndPass, Trade!Asleep, Trade!EvaluateAlerts,
       Trade!Restart, Trade!Configs, TradeProofs!Next, TradeProofs!vars,
       TradeProofs!entry, TradeProofs!risk, TradeProofs!ledger,
       TradeProofs!Approve, TradeProofs!BuyGoTo, TradeProofs!BuyDone,
       TradeProofs!Waiting, TradeProofs!Nobody, TradeProofs!ConsumerStep,
       TradeProofs!TakeDecision, TradeProofs!ExposureGateRaises,
       TradeProofs!CheckFunds, TradeProofs!CheckBreaker, TradeProofs!RouteBuy,
       TradeProofs!RecordPosition, TradeProofs!InsertBuy, TradeProofs!PostBuy,
       TradeProofs!ConcludeBuy, TradeProofs!Buy, TradeProofs!Sell,
       TradeProofs!ExitStep, TradeProofs!StartScan, TradeProofs!OpenPositions,
       TradeProofs!EvaluatePosition, TradeProofs!HoldPosition,
       TradeProofs!ClosePosition, TradeProofs!CloseStaleFails,
       TradeProofs!EndScan, TradeProofs!RouteExit, TradeProofs!ExitGoTo,
       TradeProofs!ExitDone, TradeProofs!Settle, TradeProofs!InsertSell,
       TradeProofs!PostSell, TradeProofs!ConcludeSell, TradeProofs!EndPass,
       TradeProofs!Asleep, TradeProofs!EvaluateAlerts, TradeProofs!Restart,
       TradeProofs!Configs, Trade!Ledger!Final, Trade!Ledger!RecordPending,
       Trade!Ledger!AcceptOrder, Trade!Ledger!Conclude,
       TradeProofs!Ledger!Final, TradeProofs!Ledger!RecordPending,
       TradeProofs!Ledger!AcceptOrder, TradeProofs!Ledger!Conclude

(* They mean the same by a single attempt. *)
LEMMA SameAttempts == TradeProofs!OneAttempt => Trade!OneAttempt
  BY
   DEF TradeBuy, Trade!OneAttempt, Trade!Queued, Trade!NeverOrdered,
       Trade!Unsent, Trade!Buy, TradeProofs!OneAttempt, TradeProofs!Queued,
       TradeProofs!NeverOrdered, TradeProofs!Unsent, TradeProofs!Buy

(* EntryRouting takes the steps that the proofs are about. *)
LEMMA TakesSteps == Spec => TradeProofs!Steps
  BY Implements, SameInit, SameStep, PTL DEF ImplementsTrade, TradeProofs!Steps

(* With every gate, the router and the aggregation in between, the BUY of a *)
(* decision is attempted once: no earlier attempt has left a row or an      *)
(* order when the consumer inserts its own (_execution_consumer_loop).      *)
THEOREM BuysOnce == Spec => []Trade!OneAttempt
  BY TakesSteps, TradeConstants, TradeProofs!OneAttemptAlways, SameAttempts, PTL

(* And a decision that the consumer is done with, because it was sent, a    *)
(* gate refused it, a service raised or a crash took it, never comes back.  *)
THEOREM EntriesForgotten == Spec => Trade!NeverResumed
<1>1. TradeProofs!NeverResumed => Trade!NeverResumed
  BY
   DEF TradeBuy, TradeConfig, TradePositions, Trade!NeverResumed,
       Trade!InConsumer, Trade!Queued, Trade!Buy, Trade!vars, Trade!entry,
       Trade!risk, Trade!ledger, TradeProofs!NeverResumed,
       TradeProofs!InConsumer, TradeProofs!Queued, TradeProofs!Buy,
       TradeProofs!vars, TradeProofs!entry, TradeProofs!risk,
       TradeProofs!ledger
<1> QED
  BY <1>1, TakesSteps, TradeConstants, TradeProofs!ForgottenAlways, PTL
=============================================================================
