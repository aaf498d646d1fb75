------------------------- MODULE TradeLifecycleProofs -------------------------
(***************************************************************************)
(* What is proved of TradeLifecycle for any set of decisions, any prices   *)
(* and outcomes, and any number of restarts.                               *)
(***************************************************************************)
EXTENDS TradeLifecycle, TLAPS

USE ConstantsAssumption

(* The parts of TypeOK, each touched by few actions. *)
EntryOK ==
    /\ fresh \in SUBSET Decisions
    /\ queue \in Seq(Decisions)
    /\ buy \in [stage : BuyStages, d : Decisions \cup {Nobody}]
    /\ buy.stage # "get" => buy.d \in Decisions
    /\ lateBuys \in Nat

ExitOK ==
    /\ exit \in [stage : ExitStages, todo : SUBSET Decisions,
                 exits : Seq(Decisions), price : Prices \cup {"NULL"}]
    /\ exit.stage \in {"settle", "insert", "post", "conclude"} => exit.exits # << >>

RiskOK == breaker \in {"CLOSED", "OPEN"} /\ config \in Configs

PositionsOK ==
    positions \in [Decisions -> [status : PositionStatus,
                                 pnl : Prices \cup {"NULL"}]]

LedgerOK == Ledger!LedgerTypeOK

(* TypeOK is the conjunction of its parts, one per group of variables. *)
LEMMA TypeParts ==
    TypeOK <=> /\ EntryOK /\ ExitOK /\ RiskOK /\ PositionsOK /\ LedgerOK
               /\ restarts \in Nat
BY DEF TypeOK, EntryOK, ExitOK, RiskOK, PositionsOK, LedgerOK

(* A step that leaves a group of variables alone keeps its part: here the *)
(* consumer's.                                                            *)
LEMMA EntryKept == EntryOK /\ UNCHANGED entry => EntryOK'
BY DEF EntryOK, entry

(* The exit scan's part. *)
LEMMA ExitKept == ExitOK /\ UNCHANGED exit => ExitOK'
BY DEF ExitOK

(* The part of the breaker and its configuration. *)
LEMMA RiskKept == RiskOK /\ UNCHANGED risk => RiskOK'
BY DEF RiskOK, risk

(* The part of the positions table. *)
LEMMA PositionsKept == PositionsOK /\ UNCHANGED positions => PositionsOK'
BY DEF PositionsOK

(* The part of the ledger. *)
LEMMA LedgerKept == LedgerOK /\ UNCHANGED ledger => LedgerOK'
BY DEF LedgerOK, ledger, Ledger!LedgerTypeOK, Ledger!TxStatus, Ledger!Final

(* The frame of the consumer moves on, or is done. *)
LEMMA BuyGoToTyped ==
    ASSUME EntryOK, NEW s \in BuyStages, buy.stage # "get", BuyGoTo(s),
           UNCHANGED <<fresh, queue>>, lateBuys' \in Nat
    PROVE  EntryOK'
BY DEF EntryOK, BuyGoTo

(* The consumer back at its queue is well typed. *)
LEMMA BuyDoneTyped ==
    ASSUME EntryOK, BuyDone, UNCHANGED <<fresh, queue>>, lateBuys' \in Nat
    PROVE  EntryOK'
BY DEF EntryOK, BuyDone, Waiting, BuyStages

(* The steps of the ledger keep its types. *)
LEMMA LedgerStepTyped ==
    ASSUME LedgerOK, NEW k \in Keys,
           \/ Ledger!RecordPending(k)
           \/ Ledger!AcceptOrder(k)
           \/ \E s \in Outcomes : Ledger!Conclude(k, s)
    PROVE  LedgerOK'
BY DEF LedgerOK, Ledger!LedgerTypeOK, Ledger!TxStatus, Ledger!Final,
       Ledger!RecordPending, Ledger!AcceptOrder, Ledger!Conclude

(* A position's row changes its status, or its settlement. *)
LEMMA StatusTyped ==
    ASSUME PositionsOK, NEW d \in Decisions, NEW s \in PositionStatus,
           positions' = [positions EXCEPT ![d].status = s]
    PROVE  PositionsOK'
BY DEF PositionsOK

(* A settlement keeps the positions table well typed. *)
LEMMA PnlTyped ==
    ASSUME PositionsOK, NEW d \in Decisions, NEW c \in Prices \cup {"NULL"},
           positions' = [positions EXCEPT ![d].pnl = c]
    PROVE  PositionsOK'
BY DEF PositionsOK

(* The frame of the exit scan moves on, or to the next exit. *)
LEMMA ExitGoToTyped ==
    ASSUME ExitOK, NEW s \in ExitStages, ExitGoTo(s),
           s \in {"settle", "insert", "post", "conclude"} => exit.exits # << >>
    PROVE  ExitOK'
BY DEF ExitOK, ExitGoTo

(* Dealing with the exit at the head leaves a well-typed frame. *)
LEMMA ExitDoneTyped ==
    ASSUME ExitOK, ExitDone, exit.exits # << >>
    PROVE  ExitOK'
<1>1. Tail(exit.exits) \in Seq(Decisions)
  BY DEF ExitOK
<1>2. exit' = [stage |-> "route", todo |-> exit.todo,
               exits |-> Tail(exit.exits), price |-> "NULL"]
  BY DEF ExitOK, ExitDone
<1>3. exit.todo \in SUBSET Decisions
  BY DEF ExitOK
<1> QED
  BY <1>1, <1>2, <1>3 DEF ExitOK, ExitStages

(* What the loops do, whether or not they are scheduled: safety rests on   *)
(* this part of Spec alone, and EntryRouting implements it.                *)
Steps == Init /\ [][Next]_vars

(* Every behaviour of the specification is one of its steps. *)
LEMMA SpecSteps == Spec => Steps
  BY DEF Spec, Steps

(* Its steps keep the types. *)
LEMMA TypesKept == Steps => []TypeOK
<1>1. Init => TypeOK
  <2>1. Init => EntryOK
    BY DEF Init, EntryOK, Waiting, BuyStages
  <2>2. Init => ExitOK
    BY DEF Init, ExitOK, Asleep, ExitStages
  <2>3. Init => RiskOK
    BY DEF Init, RiskOK
  <2>4. Init => PositionsOK
    BY DEF Init, PositionsOK, NoPosition, PositionStatus
  <2>5. Init => LedgerOK
    BY DEF Init, LedgerOK, Ledger!LedgerInit, Ledger!LedgerTypeOK, Ledger!TxStatus
  <2> QED
    BY <2>1, <2>2, <2>3, <2>4, <2>5, TypeParts DEF Init
<1>2. TypeOK /\ [Next]_vars => TypeOK'
  <2> SUFFICES ASSUME TypeOK, [Next]_vars PROVE TypeOK'
    OBVIOUS
  <2>a. /\ EntryOK /\ ExitOK /\ RiskOK /\ PositionsOK /\ LedgerOK
        /\ restarts \in Nat
    BY TypeParts
  <2>b. SUFFICES /\ EntryOK' /\ ExitOK' /\ RiskOK' /\ PositionsOK' /\ LedgerOK'
                 /\ restarts' \in Nat
    BY DEF TypeOK, EntryOK, ExitOK, RiskOK, PositionsOK, LedgerOK, Ledger!LedgerTypeOK
  <2>c. /\ UNCHANGED entry => EntryOK'
        /\ UNCHANGED exit => ExitOK'
        /\ UNCHANGED risk => RiskOK'
        /\ UNCHANGED positions => PositionsOK'
        /\ UNCHANGED ledger => LedgerOK'
        /\ UNCHANGED restarts => restarts' \in Nat
    BY <2>a, EntryKept, ExitKept, RiskKept, PositionsKept, LedgerKept
  <2>d. buy.stage # "get" =>
           /\ buy.d \in Decisions
           /\ Buy(buy.d) \in Keys
    BY <2>a DEF EntryOK, Buy, Keys
  <2>e. exit.exits # << >> =>
           /\ Head(exit.exits) \in Decisions
           /\ Sell(Head(exit.exits)) \in Keys
    BY <2>a DEF ExitOK, Sell, Keys
  <2>1. ASSUME NEW d \in Decisions, Approve(d) PROVE EntryOK'
    BY <2>1, <2>a DEF Approve, EntryOK
  <2>2. ASSUME TakeDecision PROVE EntryOK'
    <3>1. Head(queue) \in Decisions /\ Tail(queue) \in Seq(Decisions)
      BY <2>2, <2>a DEF TakeDecision, EntryOK
    <3> QED
      BY <2>2, <2>a, <3>1 DEF TakeDecision, EntryOK, BuyStages
  <2>3. ASSUME ExposureGateRaises \/ CheckFunds \/ CheckBreaker \/ RouteBuy
        PROVE  EntryOK'
    <3>1. lateBuys' \in Nat /\ buy.stage # "get" /\ UNCHANGED <<fresh, queue>>
      BY <2>3, <2>a DEF ExposureGateRaises, CheckFunds, CheckBreaker, RouteBuy, EntryOK
    <3>2. BuyDone \/ \E s \in BuyStages : BuyGoTo(s)
      BY <2>3 DEF ExposureGateRaises, CheckFunds, CheckBreaker, RouteBuy, BuyStages
    <3> QED
      BY <2>a, <3>1, <3>2, BuyGoToTyped, BuyDoneTyped
  <2>4. ASSUME RecordPosition PROVE EntryOK' /\ PositionsOK'
    <3>1. /\ lateBuys' \in Nat /\ buy.stage # "get" /\ UNCHANGED <<fresh, queue>>
          /\ BuyDone \/ BuyGoTo("insert")
      BY <2>4, <2>a DEF RecordPosition, EntryOK
    <3>2. EntryOK'
      BY <2>a, <3>1, BuyGoToTyped, BuyDoneTyped DEF BuyStages
    <3>3. PositionsOK'
      BY <2>4, <2>a, <2>c, <2>d, StatusTyped DEF RecordPosition, PositionStatus
    <3> QED
      BY <3>2, <3>3
  <2>5. ASSUME InsertBuy \/ PostBuy \/ ConcludeBuy PROVE EntryOK' /\ LedgerOK'
    <3>1. /\ lateBuys' \in Nat /\ buy.stage # "get" /\ UNCHANGED <<fresh, queue>>
          /\ BuyDone \/ BuyGoTo("post") \/ BuyGoTo("conclude")
      BY <2>5, <2>a DEF InsertBuy, PostBuy, ConcludeBuy, EntryOK
    <3>2. EntryOK'
      BY <2>a, <3>1, BuyGoToTyped, BuyDoneTyped DEF BuyStages
    <3>3. LedgerOK'
      BY <2>5, <2>a, <2>c, <2>d, LedgerStepTyped DEF InsertBuy, PostBuy, ConcludeBuy
    <3> QED
      BY <3>2, <3>3
  <2>6. ASSUME StartScan PROVE ExitOK'
    BY <2>6, <2>a DEF StartScan, ExitOK, OpenPositions, ExitStages
  <2>7. ASSUME NEW d \in Decisions, EvaluatePosition(d)
        PROVE  ExitOK' /\ PositionsOK'
    <3>1. ExitOK'
      <4>1. Append(exit.exits, d) \in Seq(Decisions)
        BY <2>a DEF ExitOK
      <4>2. exit.todo \ {d} \in SUBSET Decisions
        BY <2>a DEF ExitOK
      <4>3. CASE exit' = [exit EXCEPT !.todo = @ \ {d}]
        BY <4>2, <4>3, <2>a, <2>7 DEF ExitOK, EvaluatePosition, HoldPosition, ClosePosition,
        CloseStaleFails
      <4>4. CASE exit' = [exit EXCEPT !.todo = @ \ {d}, !.exits = Append(@, d)]
        <5>1. exit' = [stage |-> exit.stage, todo |-> exit.todo \ {d},
                       exits |-> Append(exit.exits, d), price |-> exit.price]
          BY <4>4, <2>a DEF ExitOK
        <5> QED
          BY <5>1, <4>1, <4>2, <2>a, <2>7 DEF ExitOK, EvaluatePosition, HoldPosition, ClosePosition,
        CloseStaleFails
      <4> QED
        BY <2>7, <4>3, <4>4 DEF EvaluatePosition, HoldPosition, ClosePosition,
        CloseStaleFails
    <3>2. PositionsOK'
      BY <2>7, <2>a, <2>c, StatusTyped DEF EvaluatePosition, HoldPosition, ClosePosition,
        CloseStaleFails, PositionStatus
    <3> QED
      BY <3>1, <3>2
  <2>8. ASSUME EndScan PROVE ExitOK'
    BY <2>8, <2>a, ExitGoToTyped DEF EndScan, ExitStages
  <2>9. ASSUME RouteExit PROVE ExitOK'
    <3>1. ASSUME NEW c \in Prices,
                 exit' = [exit EXCEPT !.stage = "settle", !.price = c]
          PROVE  ExitOK'
      <4>1. exit' = [stage |-> "settle", todo |-> exit.todo,
                     exits |-> exit.exits, price |-> c]
        BY <3>1, <2>a DEF ExitOK
      <4> QED
        BY <4>1, <2>9, <2>a DEF ExitOK, RouteExit, ExitStages
    <3> QED
      BY <2>9, <3>1, <2>a, ExitDoneTyped DEF RouteExit
  <2>10. ASSUME Settle PROVE ExitOK' /\ PositionsOK'
    <3>1. exit.exits # << >> /\ exit.price \in Prices \cup {"NULL"}
      BY <2>10, <2>a DEF Settle, ExitOK
    <3>2. ExitOK'
      BY <2>10, <2>a, <3>1, ExitGoToTyped DEF Settle, ExitStages
    <3>3. PositionsOK'
      BY <2>10, <2>a, <2>c, <2>e, <3>1, PnlTyped DEF Settle
    <3> QED
      BY <3>2, <3>3
  <2>11. ASSUME InsertSell \/ PostSell \/ ConcludeSell PROVE ExitOK' /\ LedgerOK'
    <3>1. exit.exits # << >>
      BY <2>11, <2>a DEF InsertSell, PostSell, ConcludeSell, ExitOK
    <3>2. ExitOK'
      BY <2>11, <2>a, <3>1, ExitGoToTyped, ExitDoneTyped
         DEF InsertSell, PostSell, ConcludeSell, ExitStages
    <3>3. LedgerOK'
      BY <2>11, <2>a, <2>c, <2>e, <3>1, LedgerStepTyped
         DEF InsertSell, PostSell, ConcludeSell
    <3> QED
      BY <3>2, <3>3
  <2>12. ASSUME EndPass PROVE ExitOK'
    BY <2>12 DEF EndPass, ExitOK, Asleep, ExitStages
  <2>13. ASSUME NEW critical \in BOOLEAN, EvaluateAlerts(critical) PROVE RiskOK'
    BY <2>13, <2>a DEF EvaluateAlerts, RiskOK, Configs
  <2>14. CASE Restart
    <3>1. EntryOK'
      BY <2>14, <2>a DEF Restart, EntryOK, Waiting, BuyStages
    <3>2. ExitOK'
      BY <2>14 DEF Restart, ExitOK, Asleep, ExitStages
    <3> QED
      BY <2>14, <2>a, <2>c, <3>1, <3>2 DEF Restart, RiskOK
  <2>15. CASE UNCHANGED vars
    BY <2>15, <2>c DEF vars
  <2>16. CASE \E d \in Decisions : Approve(d)
    BY <2>16, <2>1, <2>c DEF Approve
  <2>17. CASE ConsumerStep
    BY <2>17, <2>2, <2>3, <2>4, <2>5, <2>c
       DEF ConsumerStep, TakeDecision, ExposureGateRaises, CheckFunds,
           CheckBreaker, RouteBuy, RecordPosition, InsertBuy, PostBuy, ConcludeBuy
  <2>18. CASE StartScan
    BY <2>18, <2>6, <2>c DEF StartScan
  <2>19. CASE ExitStep
    BY <2>19, <2>7, <2>8, <2>9, <2>10, <2>11, <2>12, <2>c
       DEF ExitStep, EvaluatePosition, HoldPosition, ClosePosition,
        CloseStaleFails, EndScan, RouteExit, Settle, InsertSell,
           PostSell, ConcludeSell, EndPass
  <2>20. CASE \E critical \in BOOLEAN : EvaluateAlerts(critical)
    BY <2>20, <2>13, <2>c DEF EvaluateAlerts
  <2> QED
    BY <2>14, <2>15, <2>16, <2>17, <2>18, <2>19, <2>20 DEF Next
<1> QED
  BY <1>1, <1>2, PTL DEF Steps

(* Type correctness: the three loops, the tables and the ledger. *)
THEOREM TypeCorrect == Spec => []TypeOK
  BY SpecSteps, TypesKept, PTL


-------------------------------------------------------------------------------
(* The stages of a BUY that has passed check_entry_allowed() and is not    *)
(* sent yet.                                                               *)
Cleared == {"route", "record", "record_failed", "insert"}

(* The inductive invariant behind AtMostOneLateBuy: with the latch open    *)
(* the consumer holds at most one cleared BUY, and none once it has been   *)
(* sent; the override is spent before the latch can open.                  *)
LateInv ==
    /\ breaker = "CLOSED" => lateBuys = 0
    /\ breaker = "OPEN" => ~config.override
    /\ breaker = "OPEN" /\ buy.stage \in Cleared => lateBuys = 0
    /\ lateBuys <= 1

(* Every step keeps LateInv: one step below per action of Next. *)
LEMMA LateInvStep == TypeOK /\ LateInv /\ [Next]_vars => LateInv'
<1> SUFFICES ASSUME TypeOK, LateInv, [Next]_vars PROVE LateInv'
  OBVIOUS
<1>a. /\ breaker \in {"CLOSED", "OPEN"} /\ config \in Configs
      /\ buy \in [stage : BuyStages, d : Decisions \cup {Nobody}]
      /\ lateBuys \in Nat
  BY DEF TypeOK
<1>b. ASSUME NEW s \in BuyStages, BuyGoTo(s) PROVE buy'.stage = s
  BY <1>a, <1>b DEF BuyGoTo
<1>c. BuyDone => buy'.stage \notin Cleared
  BY DEF BuyDone, Waiting, Cleared
<1>d. UNCHANGED risk /\ UNCHANGED lateBuys /\
        (buy'.stage \in Cleared => buy.stage \in Cleared) => LateInv'
  BY DEF LateInv, risk
<1>1. ASSUME NEW d \in Decisions, Approve(d) PROVE LateInv'
  BY <1>1, <1>d DEF Approve
<1>2. CASE TakeDecision
  BY <1>2, <1>d DEF TakeDecision, Cleared
<1>3. CASE ExposureGateRaises \/ CheckFunds
  BY <1>3, <1>b, <1>c, <1>d DEF ExposureGateRaises, CheckFunds, BuyStages, Cleared
<1>4. CASE CheckBreaker
  BY <1>4, <1>a, <1>c DEF CheckBreaker, LateInv, risk
<1>5. CASE RouteBuy
  BY <1>5, <1>b, <1>c, <1>d DEF RouteBuy, BuyStages, Cleared
<1>6. CASE RecordPosition
  BY <1>6, <1>b, <1>c, <1>d DEF RecordPosition, BuyStages, Cleared
<1>7. CASE InsertBuy
  <2>1. UNCHANGED risk /\ buy'.stage \notin Cleared
    BY <1>7, <1>b, <1>c DEF InsertBuy, BuyStages, Cleared
  <2>2. \/ UNCHANGED lateBuys
        \/ lateBuys' = lateBuys + (IF breaker = "OPEN" THEN 1 ELSE 0)
    BY <1>7 DEF InsertBuy
  <2>3. breaker = "OPEN" => lateBuys = 0
    BY <1>7 DEF InsertBuy, LateInv, Cleared
  <2> QED
    BY <2>1, <2>2, <2>3, <1>a DEF LateInv, risk
<1>8. CASE PostBuy \/ ConcludeBuy
  BY <1>8, <1>b, <1>c, <1>d DEF PostBuy, ConcludeBuy, BuyStages, Cleared
<1>9. CASE StartScan \/ ExitStep
  <2>1. UNCHANGED entry /\ UNCHANGED risk
    BY <1>9 DEF StartScan, ExitStep, EvaluatePosition, HoldPosition, ClosePosition,
        CloseStaleFails, EndScan, RouteExit, Settle,
                InsertSell, PostSell, ConcludeSell, EndPass
  <2> QED
    BY <2>1, <1>d DEF entry
<1>10. ASSUME NEW critical \in BOOLEAN, EvaluateAlerts(critical) PROVE LateInv'
  <2>1. CASE config.override
    BY <1>10, <2>1, <1>a DEF EvaluateAlerts, LateInv, entry, Configs
  <2>2. CASE ~config.override
    BY <1>10, <2>2, <1>a DEF EvaluateAlerts, LateInv, entry, Configs
  <2> QED
    BY <2>1, <2>2
<1>11. CASE Restart
  BY <1>11 DEF Restart, LateInv
<1>12. CASE UNCHANGED vars
  BY <1>12, <1>d DEF vars, entry
<1> QED
  BY <1>1, <1>2, <1>3, <1>4, <1>5, <1>6, <1>7, <1>8, <1>9, <1>10, <1>11, <1>12
     DEF Next, ConsumerStep

(* However many decisions are queued when the breaker trips, at most the   *)
(* one that had passed the check is still sent.                            *)
THEOREM LateBuys == Spec => []AtMostOneLateBuy
<1>1. Init => LateInv
  BY DEF Init, LateInv
<1>2. LateInv => AtMostOneLateBuy
  BY DEF LateInv, AtMostOneLateBuy
<1> QED
  BY <1>1, <1>2, LateInvStep, TypeCorrect, PTL DEF Spec

-------------------------------------------------------------------------------
(* No step of any loop, and no restart, prices an exit a second time.      *)
THEOREM Settlements == Spec => SettledOnce
<1>1. TypeOK /\ [Next]_vars =>
        [\A d \in Decisions : positions[d].pnl # "NULL" =>
            positions'[d].pnl = positions[d].pnl]_vars
  <2> SUFFICES ASSUME TypeOK, Next, NEW d \in Decisions, positions[d].pnl # "NULL"
               PROVE  positions'[d].pnl = positions[d].pnl
    OBVIOUS
  <2>a. PositionsOK /\ EntryOK /\ ExitOK
    BY TypeParts
  <2>b. ASSUME NEW e \in Decisions, NEW s,
               positions' = [positions EXCEPT ![e].status = s]
        PROVE  positions'[d].pnl = positions[d].pnl
    BY <2>a, <2>b DEF PositionsOK
  <2>1. CASE RecordPosition
    BY <2>1, <2>a, <2>b DEF RecordPosition, EntryOK
  <2>2. ASSUME NEW e \in Decisions, EvaluatePosition(e)
        PROVE  positions'[d].pnl = positions[d].pnl
    BY <2>2, <2>b DEF EvaluatePosition, HoldPosition, ClosePosition,
        CloseStaleFails
  <2>3. CASE Settle
    <3>1. CASE UNCHANGED positions
      BY <3>1
    <3>2. CASE /\ positions[Head(exit.exits)].pnl = "NULL"
               /\ positions' = [positions EXCEPT ![Head(exit.exits)].pnl = exit.price]
      <4>1. d # Head(exit.exits)
        BY <3>2
      <4> QED
        BY <3>2, <4>1, <2>a DEF PositionsOK
    <3> QED
      BY <2>3, <3>1, <3>2 DEF Settle
  <2>4. CASE UNCHANGED positions
    BY <2>4
  <2> QED
    BY <2>1, <2>2, <2>3, <2>4
       DEF Next, Approve, ConsumerStep, TakeDecision, ExposureGateRaises,
           CheckFunds, CheckBreaker, RouteBuy, InsertBuy, PostBuy, ConcludeBuy,
           StartScan, ExitStep, EndScan, RouteExit, InsertSell, PostSell,
           ConcludeSell, EndPass, EvaluateAlerts, Restart
<1> QED
  BY <1>1, TypeCorrect, PTL DEF Spec, SettledOnce


-------------------------------------------------------------------------------
Unrecorded == {"exposure", "breaker", "route", "record", "record_failed"}

(* The inductive invariant behind ClosedForGood: a decision is in one place *)
(* of the pipeline only, and has no position before it is recorded; a scan  *)
(* goes over positions that exist.                                          *)
OnceInv ==
    /\ \A d \in fresh : /\ positions[d].status = "NONE"
                        /\ ~Queued(d)
                        /\ buy.stage # "get" => buy.d # d
    /\ \A i, j \in DOMAIN queue : queue[i] = queue[j] => i = j
    /\ \A d \in Decisions : Queued(d) =>
          /\ positions[d].status = "NONE"
          /\ buy.stage # "get" => buy.d # d
    /\ buy.stage \in Unrecorded => positions[buy.d].status = "NONE"
    /\ \A d \in exit.todo : positions[d].status # "NONE"


(* A step of the consumer that takes nothing from the queue and records    *)
(* nothing, and a step of the other loops that opens no scan, keep it.     *)
LEMMA OnceInvQuiet ==
    ASSUME TypeOK, OnceInv, UNCHANGED <<fresh, queue, positions>>,
           buy'.stage # "get" => buy.stage # "get" /\ buy'.d = buy.d,
           buy'.stage \in Unrecorded => buy.stage \in Unrecorded,
           exit'.todo \subseteq exit.todo
    PROVE  OnceInv'
BY DEF OnceInv, Queued, Unrecorded

(* So does a write to a position that exists or that is being recorded.    *)
LEMMA OnceInvWrites ==
    ASSUME TypeOK, OnceInv, UNCHANGED <<fresh, queue>>,
           NEW d \in Decisions, NEW s \in PositionStatus \ {"NONE"},
           positions' = [positions EXCEPT ![d].status = s],
           positions[d].status # "NONE" \/ (buy.stage \in Unrecorded /\ buy.d = d),
           buy'.stage # "get" => buy.stage # "get" /\ buy'.d = buy.d,
           buy'.stage \in Unrecorded =>
               buy.stage \in Unrecorded /\ positions[d].status # "NONE",
           exit'.todo \subseteq exit.todo
    PROVE  OnceInv'
<1>1. /\ positions'[d].status = s
      /\ \A e \in Decisions \ {d} : positions'[e] = positions[e]
  BY TypeParts DEF PositionsOK
<1>2. ~Queued(d) /\ d \notin fresh
  BY DEF OnceInv, Unrecorded
<1>3. fresh \subseteq Decisions /\ exit.todo \subseteq Decisions
  BY DEF TypeOK
<1>4. buy'.stage \in Unrecorded => buy.d \in Decisions \ {d}
  BY DEF OnceInv, TypeOK, Unrecorded
<1>5. \A e \in fresh : positions'[e].status = "NONE" /\ ~Queued(e)'
  BY <1>1, <1>2, <1>3 DEF OnceInv, Queued
<1>6. \A e \in Decisions : Queued(e)' =>
          /\ positions'[e].status = "NONE"
          /\ buy'.stage # "get" => buy'.d # e
  BY <1>1, <1>2 DEF OnceInv, Queued
<1>7. buy'.stage \in Unrecorded => positions'[buy'.d].status = "NONE"
  BY <1>1, <1>4 DEF OnceInv, Unrecorded
<1>8. \A e \in exit'.todo : positions'[e].status # "NONE"
  BY <1>1, <1>3 DEF OnceInv
<1> QED
  BY <1>5, <1>6, <1>7, <1>8 DEF OnceInv

(* Every step keeps OnceInv: one step below per action of Next. *)
LEMMA OnceInvStep == TypeOK /\ OnceInv /\ [Next]_vars => OnceInv'
<1> SUFFICES ASSUME TypeOK, OnceInv, [Next]_vars PROVE OnceInv'
  OBVIOUS
<1>a. EntryOK /\ ExitOK /\ PositionsOK
  BY TypeParts
<1>b. ASSUME NEW s \in BuyStages, BuyGoTo(s)
      PROVE  buy'.stage = s /\ buy'.d = buy.d
  BY <1>a, <1>b DEF BuyGoTo, EntryOK
<1>c. BuyDone => buy'.stage = "get"
  BY DEF BuyDone, Waiting
<1>d. ASSUME NEW s \in ExitStages, ExitGoTo(s) PROVE exit'.todo = exit.todo
  BY <1>a, <1>d DEF ExitGoTo, ExitOK
<1>e. ExitDone => exit'.todo = exit.todo
  BY <1>a DEF ExitDone, ExitOK
<1>1. ASSUME NEW d \in Decisions, Approve(d) PROVE OnceInv'
  <2>1. queue' = Append(queue, d) /\ queue \in Seq(Decisions)
    BY <1>1, <1>a DEF Approve, EntryOK
  <2>2. /\ DOMAIN queue' = 1 .. Len(queue) + 1
        /\ DOMAIN queue = 1 .. Len(queue)
        /\ Len(queue) \in Nat
        /\ \A i \in 1 .. Len(queue) : queue'[i] = queue[i]
        /\ queue'[Len(queue) + 1] = d
    BY <2>1
  <2>3. \A e \in Decisions : Queued(e)' <=> Queued(e) \/ e = d
    BY <2>2 DEF Queued
  <2>4. ~Queued(d) /\ positions[d].status = "NONE" /\ (buy.stage # "get" => buy.d # d)
    BY <1>1 DEF OnceInv, Approve
  <2>5. \A i, j \in DOMAIN queue' : queue'[i] = queue'[j] => i = j
    BY <2>2, <2>4 DEF OnceInv, Queued
  <2>6. /\ fresh' = fresh \ {d} /\ fresh \subseteq Decisions
        /\ UNCHANGED <<buy, positions, exit>>
    BY <1>1, <1>a DEF Approve, EntryOK
  <2>7. \A e \in fresh' : /\ positions'[e].status = "NONE"
                          /\ ~Queued(e)'
                          /\ buy'.stage # "get" => buy'.d # e
    BY <2>3, <2>6 DEF OnceInv
  <2>8. \A e \in Decisions : Queued(e)' =>
            /\ positions'[e].status = "NONE"
            /\ buy'.stage # "get" => buy'.d # e
    BY <2>3, <2>4, <2>6 DEF OnceInv
  <2> QED
    BY <2>5, <2>6, <2>7, <2>8 DEF OnceInv
<1>2. CASE TakeDecision
  <2>1. /\ queue # << >> /\ queue \in Seq(Decisions)
        /\ queue' = Tail(queue)
        /\ buy' = [stage |-> "exposure", d |-> Head(queue)]
        /\ UNCHANGED <<fresh, positions, exit>>
    BY <1>2, <1>a DEF TakeDecision, EntryOK
  <2>2. /\ DOMAIN queue' = 1 .. Len(queue) - 1
        /\ DOMAIN queue = 1 .. Len(queue)
        /\ Len(queue) \in Nat /\ 1 \in DOMAIN queue
        /\ \A i \in 1 .. Len(queue) - 1 : queue'[i] = queue[i + 1]
        /\ Head(queue) = queue[1]
        /\ Head(queue) \in Decisions
    BY <2>1
  <2>3. Queued(Head(queue))
    BY <2>2 DEF Queued
  <2>4. \A e \in Decisions : Queued(e)' => Queued(e) /\ e # Head(queue)
    BY <2>2 DEF Queued, OnceInv
  <2>5. \A i, j \in DOMAIN queue' : queue'[i] = queue'[j] => i = j
    BY <2>2 DEF OnceInv
  <2>6. positions[Head(queue)].status = "NONE" /\ Head(queue) \notin fresh
    BY <2>2, <2>3 DEF OnceInv
  <2>7. fresh \subseteq Decisions
    BY <1>a DEF EntryOK
  <2> QED
    BY <2>1, <2>4, <2>5, <2>6, <2>7 DEF OnceInv
<1>3. CASE ExposureGateRaises \/ CheckFunds \/ CheckBreaker \/ RouteBuy
  <2>1. \/ BuyDone
        \/ \E s \in Unrecorded : BuyGoTo(s)
    BY <1>3 DEF ExposureGateRaises, CheckFunds, CheckBreaker, RouteBuy, Unrecorded
  <2>2. /\ UNCHANGED <<fresh, queue, positions, exit>>
        /\ buy.stage \in Unrecorded
    BY <1>3 DEF ExposureGateRaises, CheckFunds, CheckBreaker, RouteBuy, Unrecorded
  <2>3. Unrecorded \subseteq BuyStages /\ "get" \notin Unrecorded
    BY DEF Unrecorded, BuyStages
  <2> QED
    BY <2>1, <2>2, <2>3, <1>b, <1>c, OnceInvQuiet
<1>4. CASE RecordPosition
  <2>1. /\ UNCHANGED <<fresh, queue, exit>>
        /\ buy.stage \in Unrecorded /\ buy.d \in Decisions
        /\ buy'.stage \in {"get", "insert"}
        /\ buy'.stage = "insert" => buy'.d = buy.d
    BY <1>4, <1>a, <1>b, <1>c DEF RecordPosition, EntryOK, Unrecorded, BuyStages
  <2>2. CASE UNCHANGED positions
    BY <2>1, <2>2, OnceInvQuiet DEF Unrecorded
  <2>3. ASSUME NEW s \in {"OPEN", "FAILED"},
               positions' = [positions EXCEPT ![buy.d].status = s]
        PROVE  OnceInv'
    BY <2>1, <2>3, OnceInvWrites DEF Unrecorded, PositionStatus
  <2> QED
    BY <1>4, <2>2, <2>3 DEF RecordPosition
<1>5. CASE InsertBuy \/ PostBuy \/ ConcludeBuy
  <2>1. /\ UNCHANGED <<fresh, queue, positions, exit>>
        /\ buy.stage # "get"
        /\ buy'.stage \in {"get", "post", "conclude"}
        /\ buy'.stage # "get" => buy'.d = buy.d
    BY <1>5, <1>b, <1>c DEF InsertBuy, PostBuy, ConcludeBuy, BuyStages
  <2> QED
    BY <2>1, OnceInvQuiet DEF Unrecorded
<1>6. CASE StartScan
  <2>1. /\ UNCHANGED <<fresh, queue, positions, buy>>
        /\ exit'.todo = OpenPositions
    BY <1>6, <1>a DEF StartScan, entry, ExitOK
  <2> QED
    BY <2>1 DEF OnceInv, OpenPositions, Queued
<1>7. ASSUME NEW d \in Decisions, EvaluatePosition(d) PROVE OnceInv'
  <2>1. /\ UNCHANGED <<fresh, queue, buy>>
        /\ exit'.todo \subseteq exit.todo
        /\ d \in exit.todo
    BY <1>7, <1>a DEF EvaluatePosition, HoldPosition, ClosePosition,
        CloseStaleFails, entry, ExitOK
  <2>2. positions[d].status # "NONE"
    BY <2>1 DEF OnceInv
  <2>3. CASE UNCHANGED positions
    BY <2>1, <2>3, OnceInvQuiet
  <2>4. CASE positions' = [positions EXCEPT ![d].status = "CLOSED"]
    BY <2>1, <2>2, <2>4, OnceInvWrites DEF PositionStatus
  <2> QED
    BY <1>7, <2>3, <2>4 DEF EvaluatePosition, HoldPosition, ClosePosition,
        CloseStaleFails
<1>8. CASE Settle
  <2>1. UNCHANGED <<fresh, queue, buy>> /\ exit'.todo = exit.todo
    BY <1>8, <1>d DEF Settle, entry, ExitStages
  <2>2. \A e \in Decisions : positions'[e].status = positions[e].status
    BY <1>8, <1>a DEF Settle, PositionsOK
  <2>3. /\ fresh \subseteq Decisions /\ exit.todo \subseteq Decisions
        /\ buy.stage \in Unrecorded => buy.d \in Decisions
    BY <1>a DEF EntryOK, ExitOK, Unrecorded
  <2> QED
    BY <2>1, <2>2, <2>3 DEF OnceInv, Queued
<1>9. CASE EndScan \/ RouteExit \/ InsertSell \/ PostSell \/ ConcludeSell \/ EndPass
  <2>1. UNCHANGED <<fresh, queue, positions, buy>>
    BY <1>9 DEF EndScan, RouteExit, InsertSell, PostSell, ConcludeSell, EndPass, entry
  <2>2. exit'.todo \subseteq exit.todo
    <3>1. ASSUME NEW c \in Prices,
                 exit' = [exit EXCEPT !.stage = "settle", !.price = c]
          PROVE  exit'.todo = exit.todo
      BY <3>1, <1>a DEF ExitOK
    <3>2. EndPass => exit'.todo = {}
      BY DEF EndPass, Asleep
    <3> QED
      BY <1>9, <3>1, <3>2, <1>d, <1>e
         DEF EndScan, RouteExit, InsertSell, PostSell, ConcludeSell, ExitStages
  <2> QED
    BY <2>1, <2>2, OnceInvQuiet
<1>10. ASSUME NEW critical \in BOOLEAN, EvaluateAlerts(critical) PROVE OnceInv'
  BY <1>10, OnceInvQuiet DEF EvaluateAlerts, entry
<1>11. CASE Restart
  <2>1. /\ DOMAIN queue' = {}
        /\ UNCHANGED <<fresh, positions>>
        /\ buy'.stage = "get" /\ exit'.todo = {}
    BY <1>11 DEF Restart, Waiting, Asleep
  <2> QED
    BY <2>1 DEF OnceInv, Queued, Unrecorded
<1>12. CASE UNCHANGED vars
  BY <1>12, OnceInvQuiet DEF vars, entry
<1> QED
  BY <1>1, <1>2, <1>3, <1>4, <1>5, <1>6, <1>7, <1>8, <1>9, <1>10, <1>11, <1>12
     DEF Next, ConsumerStep, ExitStep

(* OnceInv holds of every state that the loops and restarts reach. *)
LEMMA OnceAlways == Steps => [](TypeOK /\ OnceInv)
<1>1. Init => OnceInv
  BY DEF Init, OnceInv, Queued, Waiting, Asleep, NoPosition, Unrecorded
<1> QED
  BY <1>1, OnceInvStep, TypesKept, PTL DEF Steps

(* A position that a pass has closed, sold or not, or that was recorded as *)
(* FAILED, keeps that status and is taken up by no later pass.             *)
THEOREM Closed == Spec => ClosedForGood
<1>1. TypeOK /\ OnceInv /\ [Next]_vars =>
        [\A d \in Decisions :
           positions[d].status \in {"CLOSED", "FAILED"} /\ ~InExit(d) =>
              /\ ~InExit(d)'
              /\ positions'[d].status = positions[d].status]_vars
  <2> SUFFICES ASSUME TypeOK, OnceInv, Next, NEW d \in Decisions,
                      positions[d].status \in {"CLOSED", "FAILED"}, ~InExit(d)
               PROVE  ~InExit(d)' /\ positions'[d].status = positions[d].status
    OBVIOUS
  <2>a. EntryOK /\ ExitOK /\ PositionsOK
    BY TypeParts
  <2>b. exit.exits \in Seq(Decisions) /\ exit.todo \subseteq Decisions
    BY <2>a DEF ExitOK
  <2>c. ASSUME exit'.todo \subseteq exit.todo, exit'.exits = exit.exits
        PROVE  ~InExit(d)'
    BY <2>c DEF InExit
  <2>d. ASSUME ExitDone, exit.exits # << >> PROVE ~InExit(d)'
    <3>1. exit'.todo = exit.todo /\ exit'.exits = Tail(exit.exits)
      BY <2>d, <2>a DEF ExitDone, ExitOK
    <3>2. /\ DOMAIN Tail(exit.exits) = 1 .. Len(exit.exits) - 1
          /\ DOMAIN exit.exits = 1 .. Len(exit.exits)
          /\ Len(exit.exits) \in Nat
          /\ \A i \in 1 .. Len(exit.exits) - 1 : Tail(exit.exits)[i] = exit.exits[i + 1]
      BY <2>b, <2>d
    <3>3. \A i \in DOMAIN exit'.exits :
             i + 1 \in DOMAIN exit.exits /\ exit'.exits[i] = exit.exits[i + 1]
      BY <3>1, <3>2
    <3> QED
      BY <3>1, <3>3 DEF InExit
  <2>e. ASSUME NEW s \in ExitStages, ExitGoTo(s)
        PROVE  exit'.todo = exit.todo /\ exit'.exits = exit.exits
    BY <2>e, <2>a DEF ExitGoTo, ExitOK
  <2>1. CASE RecordPosition
    <3>1. d # buy.d /\ buy.d \in Decisions
      BY <2>1, <2>a DEF RecordPosition, OnceInv, Unrecorded, EntryOK
    <3>2. positions'[d] = positions[d]
      BY <2>1, <2>a, <3>1 DEF RecordPosition, PositionsOK
    <3> QED
      BY <2>1, <2>c, <3>2 DEF RecordPosition
  <2>2. CASE StartScan
    <3>1. UNCHANGED positions /\ exit'.todo = OpenPositions /\ exit'.exits = exit.exits
      BY <2>2, <2>a DEF StartScan, ExitOK
    <3> QED
      BY <3>1 DEF InExit, OpenPositions
  <2>3. ASSUME NEW e \in Decisions, EvaluatePosition(e)
        PROVE  ~InExit(d)' /\ positions'[d].status = positions[d].status
    <3>1. d # e
      BY <2>3 DEF EvaluatePosition, HoldPosition, ClosePosition,
        CloseStaleFails, InExit
    <3>2. positions'[d] = positions[d]
      BY <2>3, <2>a, <3>1 DEF EvaluatePosition, HoldPosition, ClosePosition,
        CloseStaleFails, PositionsOK
    <3>3. exit'.todo \subseteq exit.todo
      BY <2>3, <2>a DEF EvaluatePosition, HoldPosition, ClosePosition,
        CloseStaleFails, ExitOK
    <3>4. CASE exit'.exits = exit.exits
      BY <3>2, <3>3, <3>4, <2>c
    <3>5. CASE exit'.exits = Append(exit.exits, e)
      <4>1. \A i \in DOMAIN exit'.exits :
               exit'.exits[i] = e \/ (i \in DOMAIN exit.exits /\ exit'.exits[i] = exit.exits[i])
        BY <3>5, <2>b
      <4> QED
        BY <3>1, <3>2, <3>3, <4>1 DEF InExit
    <3>6. exit'.exits = exit.exits \/ exit'.exits = Append(exit.exits, e)
      BY <2>3, <2>a DEF EvaluatePosition, HoldPosition, ClosePosition,
        CloseStaleFails, ExitOK
    <3> QED
      BY <3>4, <3>5, <3>6
  <2>4. CASE Settle
    <3>1. positions'[d].status = positions[d].status
      BY <2>4, <2>a DEF Settle, PositionsOK
    <3> QED
      BY <2>4, <2>c, <2>e, <3>1 DEF Settle, ExitStages
  <2>5. CASE EndScan \/ RouteExit \/ InsertSell \/ PostSell \/ ConcludeSell \/ EndPass
    <3>1. UNCHANGED positions
      BY <2>5 DEF EndScan, RouteExit, InsertSell, PostSell, ConcludeSell, EndPass
    <3>2. ASSUME NEW c \in Prices,
                 exit' = [exit EXCEPT !.stage = "settle", !.price = c]
          PROVE  exit'.todo = exit.todo /\ exit'.exits = exit.exits
      BY <3>2, <2>a DEF ExitOK
    <3>3. EndPass => ~InExit(d)'
      BY DEF EndPass, Asleep, InExit
    <3>4. InsertSell \/ PostSell \/ ConcludeSell => exit.exits # << >>
      BY <2>a DEF InsertSell, PostSell, ConcludeSell, ExitOK
    <3> QED
      BY <2>5, <2>c, <2>d, <2>e, <3>1, <3>2, <3>3, <3>4
         DEF EndScan, RouteExit, InsertSell, PostSell, ConcludeSell, ExitStages
  <2>6. CASE Restart
    BY <2>6 DEF Restart, Asleep, InExit
  <2>7. ASSUME UNCHANGED <<exit, positions>>
        PROVE  ~InExit(d)' /\ positions'[d].status = positions[d].status
    BY <2>7 DEF InExit
  <2> QED
    BY <2>1, <2>2, <2>3, <2>4, <2>5, <2>6, <2>7
       DEF Next, Approve, ConsumerStep, TakeDecision, ExposureGateRaises,
           CheckFunds, CheckBreaker, RouteBuy, InsertBuy, PostBuy, ConcludeBuy,
           ExitStep, EvaluateAlerts
<1> QED
  BY <1>1, SpecSteps, OnceAlways, PTL DEF Spec, ClosedForGood

-------------------------------------------------------------------------------
(* A step of the ledger on the row and the order of k. *)
OnKey(k) ==
    \/ Ledger!RecordPending(k)
    \/ Ledger!AcceptOrder(k)
    \/ \E s \in Outcomes : Ledger!Conclude(k, s)

BuyMoves == InsertBuy \/ PostBuy \/ ConcludeBuy
SellMoves == InsertSell \/ PostSell \/ ConcludeSell

(* No two decisions, and no BUY and SELL, share a decision id. *)
LEMMA KeysDiffer ==
    ASSUME NEW d \in Decisions, NEW e \in Decisions
    PROVE  /\ Buy(d) \in Keys /\ Sell(d) \in Keys
           /\ Buy(d) # Sell(e)
           /\ d # e => Buy(d) # Buy(e) /\ Sell(d) # Sell(e)
BY DEF Buy, Sell, Keys

(* The head of the results is a decision, and one of those in the scan.     *)
LEMMA HeadInExit ==
    ASSUME TypeOK, exit.exits # << >>
    PROVE  Head(exit.exits) \in Decisions /\ InExit(Head(exit.exits))
<1>1. exit.exits \in Seq(Decisions)
  BY DEF TypeOK
<1>2. /\ 1 \in DOMAIN exit.exits /\ Head(exit.exits) = exit.exits[1]
      /\ Head(exit.exits) \in Decisions
  BY <1>1
<1> QED
  BY <1>2 DEF InExit

(* A step that moves the ledger is a step of one of the two broadcast() calls. *)
LEMMA LedgerMoves ==
    ASSUME TypeOK, [Next]_vars
    PROVE  \/ UNCHANGED ledger
           \/ BuyMoves /\ buy.d \in Decisions /\ OnKey(Buy(buy.d))
           \/ /\ SellMoves /\ exit.exits # << >>
              /\ Head(exit.exits) \in Decisions /\ OnKey(Sell(Head(exit.exits)))
<1>a. EntryOK /\ ExitOK
  BY TypeParts
<1>1. CASE BuyMoves
  <2>1. buy.d \in Decisions
    BY <1>1, <1>a DEF BuyMoves, InsertBuy, PostBuy, ConcludeBuy, EntryOK
  <2>2. UNCHANGED ledger \/ OnKey(Buy(buy.d))
    BY <1>1 DEF BuyMoves, InsertBuy, PostBuy, ConcludeBuy, OnKey
  <2> QED
    BY <1>1, <2>1, <2>2
<1>2. CASE SellMoves
  <2>1. exit.exits # << >>
    BY <1>2, <1>a DEF SellMoves, InsertSell, PostSell, ConcludeSell, ExitOK
  <2>2. UNCHANGED ledger \/ OnKey(Sell(Head(exit.exits)))
    BY <1>2 DEF SellMoves, InsertSell, PostSell, ConcludeSell, OnKey
  <2> QED
    BY <1>2, <2>1, <2>2, HeadInExit
<1>3. CASE UNCHANGED vars
  BY <1>3 DEF vars, ledger
<1>4. ASSUME NEW d \in Decisions, EvaluatePosition(d) PROVE UNCHANGED ledger
  BY <1>4 DEF EvaluatePosition
<1>5. ASSUME NEW critical \in BOOLEAN, EvaluateAlerts(critical) PROVE UNCHANGED ledger
  BY <1>5 DEF EvaluateAlerts
<1> QED
  BY <1>1, <1>2, <1>3, <1>4, <1>5
     DEF Next, Approve, ConsumerStep, TakeDecision, ExposureGateRaises,
         CheckFunds, CheckBreaker, RouteBuy, RecordPosition, StartScan, ExitStep,
         EndScan, RouteExit, Settle, EndPass, Restart, BuyMoves, SellMoves

(* The other keys are left alone. *)
LEMMA OthersUnmoved ==
    ASSUME LedgerOK, NEW k \in Keys, OnKey(k)
    PROVE  \A j \in Keys \ {k} : status'[j] = status[j] /\ orders'[j] = orders[j]
BY DEF LedgerOK, Ledger!LedgerTypeOK, OnKey, Ledger!RecordPending,
       Ledger!AcceptOrder, Ledger!Conclude

BuyKept(d)  == status'[Buy(d)] = status[Buy(d)] /\ orders'[Buy(d)] = orders[Buy(d)]
SellKept(d) == status'[Sell(d)] = status[Sell(d)] /\ orders'[Sell(d)] = orders[Sell(d)]

(* Only the decision in the consumer's hands has its BUY moved, only one in *)
(* the exit scan its SELL.                                                  *)
LEMMA KeptElsewhere ==
    ASSUME TypeOK, [Next]_vars, NEW d \in Decisions
    PROVE  /\ BuyKept(d) \/ (BuyMoves /\ buy.d = d)
           /\ SellKept(d) \/ InExit(d)
<1>a. LedgerOK
  BY TypeParts
<1>1. CASE UNCHANGED ledger
  BY <1>1 DEF ledger, BuyKept, SellKept
<1>2. CASE BuyMoves /\ buy.d \in Decisions /\ OnKey(Buy(buy.d))
  <2>1. \A j \in Keys \ {Buy(buy.d)} : status'[j] = status[j] /\ orders'[j] = orders[j]
    BY <1>a, <1>2, OthersUnmoved, KeysDiffer
  <2>2. SellKept(d)
    BY <1>2, <2>1, KeysDiffer DEF SellKept
  <2>3. d # buy.d => BuyKept(d)
    BY <1>2, <2>1, KeysDiffer DEF BuyKept
  <2> QED
    BY <1>2, <2>2, <2>3
<1>3. CASE /\ exit.exits # << >>
           /\ Head(exit.exits) \in Decisions /\ OnKey(Sell(Head(exit.exits)))
  <2>1. \A j \in Keys \ {Sell(Head(exit.exits))} :
           status'[j] = status[j] /\ orders'[j] = orders[j]
    BY <1>a, <1>3, OthersUnmoved, KeysDiffer
  <2>2. BuyKept(d)
    BY <1>3, <2>1, KeysDiffer DEF BuyKept
  <2>3. d # Head(exit.exits) => SellKept(d)
    BY <1>3, <2>1, KeysDiffer DEF SellKept
  <2> QED
    BY <1>3, <2>2, <2>3, HeadInExit
<1> QED
  BY <1>1, <1>2, <1>3, LedgerMoves

(* No step leaves the ledger's specification. *)
LEMMA LedgerAlways == Steps => Ledger!LedgerSpec
<1>1. Init => Ledger!LedgerInit
  BY DEF Init
<1>2. TypeOK /\ [Next]_vars => [Ledger!LedgerNext]_(Ledger!ledgerVars)
  <2> SUFFICES ASSUME TypeOK, [Next]_vars
               PROVE  [Ledger!LedgerNext]_(Ledger!ledgerVars)
    OBVIOUS
  <2>1. ASSUME NEW k \in Keys, OnKey(k) PROVE Ledger!LedgerNext
    BY <2>1 DEF OnKey, Ledger!LedgerNext, Ledger!Conclude
  <2>2. CASE UNCHANGED ledger
    BY <2>2 DEF ledger, Ledger!ledgerVars
  <2> QED
    BY <2>1, <2>2, LedgerMoves, KeysDiffer
<1> QED
  BY <1>1, <1>2, TypesKept, PTL DEF Steps, Ledger!LedgerSpec

(* The three loops use execution_txs and the exchange as the ledger allows, *)
(* which OrderBroadcaster implements: whatever the ledger promises of rows  *)
(* and orders holds of the trades.                                          *)
THEOREM FollowsLedger == Spec => Ledger!LedgerSpec
  BY SpecSteps, LedgerAlways, PTL

(* The steps of the ledger keep what its rows tell. *)
LEMMA LedgerTells == Ledger!LedgerSpec => []Ledger!RowsTell
<1> DEFINE Told == Ledger!LedgerTypeOK /\ Ledger!RowsTell
<1> USE DEF Ledger!LedgerTypeOK, Ledger!RowsTell
<1>1. Ledger!LedgerInit => Told
  BY DEF Ledger!LedgerInit, Ledger!TxStatus
<1>2. Told /\ [Ledger!LedgerNext]_(Ledger!ledgerVars) => Told'
  <2> SUFFICES ASSUME Told, [Ledger!LedgerNext]_(Ledger!ledgerVars) PROVE Told'
    OBVIOUS
  <2>1. ASSUME NEW k \in Keys, Ledger!RecordPending(k) PROVE Told'
    BY <2>1 DEF Ledger!RecordPending, Ledger!TxStatus
  <2>2. ASSUME NEW k \in Keys, Ledger!AcceptOrder(k) PROVE Told'
    BY <2>2 DEF Ledger!AcceptOrder
  <2>3. ASSUME NEW k \in Keys, NEW s \in Ledger!Final, Ledger!Conclude(k, s)
        PROVE  Told'
    BY <2>3 DEF Ledger!Conclude, Ledger!TxStatus, Ledger!Final
  <2>4. CASE UNCHANGED Ledger!ledgerVars
    BY <2>4 DEF Ledger!ledgerVars
  <2> QED
    BY <2>1, <2>2, <2>3, <2>4 DEF Ledger!LedgerNext
<1> QED
  BY <1>1, <1>2, PTL DEF Ledger!LedgerSpec

(* What the rows tell holds of both orders of every decision, BUY and SELL, *)
(* at any await of the three loops and after any restart: no row, no order; *)
(* never two orders; a receipt, exactly one.                                *)
THEOREM TradesTell == Spec => []Ledger!RowsTell
  BY FollowsLedger, LedgerTells, PTL

-------------------------------------------------------------------------------
(* What is queued was queued before, or has just been approved; nothing     *)
(* becomes fresh again.                                                     *)
LEMMA QueueMoves ==
    ASSUME TypeOK, [Next]_vars, NEW d \in Decisions
    PROVE  /\ d \in fresh' => d \in fresh
           /\ Queued(d)' => Queued(d) \/ d \in fresh
<1>a. EntryOK
  BY TypeParts
<1>1. ASSUME NEW e \in Decisions, Approve(e)
      PROVE  fresh' \subseteq fresh /\ (Queued(d)' => Queued(d) \/ d \in fresh)
  <2>1. /\ queue' = Append(queue, e) /\ queue \in Seq(Decisions)
        /\ e \in fresh /\ fresh' \subseteq fresh
    BY <1>1, <1>a DEF Approve, EntryOK
  <2>2. \A i \in DOMAIN queue' :
           queue'[i] = e \/ (i \in DOMAIN queue /\ queue'[i] = queue[i])
    BY <2>1
  <2> QED
    BY <2>1, <2>2 DEF Queued
<1>2. CASE TakeDecision
  <2>1. /\ queue' = Tail(queue) /\ queue # << >> /\ queue \in Seq(Decisions)
        /\ UNCHANGED fresh
    BY <1>2, <1>a DEF TakeDecision, EntryOK
  <2>2. \A i \in DOMAIN queue' : i + 1 \in DOMAIN queue /\ queue'[i] = queue[i + 1]
    BY <2>1
  <2> QED
    BY <2>1, <2>2 DEF Queued
<1>3. CASE Restart
  <2>1. DOMAIN queue' = {} /\ UNCHANGED fresh
    BY <1>3 DEF Restart
  <2> QED
    BY <2>1 DEF Queued
<1>4. CASE UNCHANGED <<fresh, queue>>
  BY <1>4 DEF Queued
<1> QED
  BY <1>1, <1>2, <1>3, <1>4
     DEF Next, ConsumerStep, ExposureGateRaises, CheckFunds, CheckBreaker,
         RouteBuy, RecordPosition, InsertBuy, PostBuy, ConcludeBuy, StartScan,
         ExitStep, EvaluatePosition, EndScan, RouteExit, Settle, InsertSell,
         PostSell, ConcludeSell, EndPass, EvaluateAlerts, entry, vars

(* Outside broadcast() the frame of the consumer stays, ends, takes the head *)
(* of the queue, or goes on towards the insert with the same decision.       *)
LEMMA FrameMoves ==
    ASSUME TypeOK, [Next]_vars, ~BuyMoves
    PROVE  \/ UNCHANGED buy
           \/ buy'.stage = "get"
           \/ TakeDecision
           \/ buy.stage \in Unsent /\ buy'.stage \in Unsent /\ buy'.d = buy.d
<1>a. EntryOK
  BY TypeParts
<1>b. ASSUME NEW s \in BuyStages, BuyGoTo(s)
      PROVE  buy'.stage = s /\ buy'.d = buy.d
  BY <1>a, <1>b DEF BuyGoTo, EntryOK
<1>c. BuyDone => buy'.stage = "get"
  BY DEF BuyDone, Waiting
<1>1. CASE ExposureGateRaises \/ CheckFunds \/ CheckBreaker \/ RouteBuy \/ RecordPosition
  <2>1. buy.stage \in Unsent
    BY <1>1 DEF ExposureGateRaises, CheckFunds, CheckBreaker, RouteBuy,
                RecordPosition, Unsent
  <2>2. BuyDone \/ \E s \in Unsent : BuyGoTo(s)
    BY <1>1 DEF ExposureGateRaises, CheckFunds, CheckBreaker, RouteBuy,
                RecordPosition, Unsent
  <2>3. Unsent \subseteq BuyStages
    BY DEF Unsent, BuyStages
  <2> QED
    BY <2>1, <2>2, <2>3, <1>b, <1>c
<1>2. Restart => buy'.stage = "get"
  BY DEF Restart, Waiting
<1>3. StartScan \/ ExitStep => UNCHANGED buy
  BY DEF StartScan, ExitStep, EvaluatePosition, EndScan, RouteExit, Settle,
         InsertSell, PostSell, ConcludeSell, EndPass, entry
<1>4. (\E d \in Decisions : Approve(d)) \/ (\E c \in BOOLEAN : EvaluateAlerts(c))
        => UNCHANGED buy
  BY DEF Approve, EvaluateAlerts, entry
<1>5. UNCHANGED vars => UNCHANGED buy
  BY DEF vars, entry
<1> QED
  BY <1>1, <1>2, <1>3, <1>4, <1>5 DEF Next, ConsumerStep, BuyMoves

(* The head of the queue that the consumer takes was queued. *)
LEMMA Taken ==
    ASSUME TypeOK, TakeDecision
    PROVE  /\ buy'.d \in Decisions /\ Queued(buy'.d)
           /\ buy.stage = "get" /\ buy'.stage = "exposure"
<1>1. /\ queue # << >> /\ queue \in Seq(Decisions)
      /\ buy' = [stage |-> "exposure", d |-> Head(queue)]
  BY TypeParts DEF TakeDecision, EntryOK
<1>2. 1 \in DOMAIN queue /\ Head(queue) = queue[1] /\ Head(queue) \in Decisions
  BY <1>1
<1> QED
  BY <1>1, <1>2 DEF Queued, TakeDecision

(* What row and exchange say of the BUY in the consumer's hands. *)
FrameAgrees ==
    /\ buy.stage \in Unsent => NeverOrdered(buy.d)
    /\ buy.stage = "post" => status[Buy(buy.d)] = "PENDING" /\ orders[Buy(buy.d)] = 0
    /\ buy.stage = "conclude" => status[Buy(buy.d)] = "PENDING"

(* The three steps of broadcast() keep row and frame in agreement. *)
LEMMA BuyMovesAgree ==
    ASSUME TypeOK, OneAttempt, BuyMoves PROVE FrameAgrees'
<1>a. EntryOK /\ LedgerOK
  BY TypeParts
<1>b. ASSUME NEW s \in BuyStages, BuyGoTo(s)
      PROVE  buy'.stage = s /\ buy'.d = buy.d
  BY <1>a, <1>b DEF BuyGoTo, EntryOK
<1>c. BuyDone => FrameAgrees'
  BY DEF BuyDone, Waiting, FrameAgrees, Unsent
<1>d. Buy(buy.d) \in Keys
  BY <1>a, KeysDiffer DEF BuyMoves, InsertBuy, PostBuy, ConcludeBuy, EntryOK
<1>1. CASE InsertBuy
  <2>1. BuyDone \/ (BuyGoTo("post") /\ Ledger!RecordPending(Buy(buy.d)))
    BY <1>1 DEF InsertBuy
  <2>2. NeverOrdered(buy.d)
    BY <1>1 DEF InsertBuy, OneAttempt, Unsent
  <2>3. Ledger!RecordPending(Buy(buy.d)) =>
           status'[Buy(buy.d)] = "PENDING" /\ orders'[Buy(buy.d)] = 0
    BY <2>2, <1>a, <1>d DEF Ledger!RecordPending, LedgerOK, Ledger!LedgerTypeOK,
                            NeverOrdered
  <2>4. BuyGoTo("post") => buy'.stage = "post" /\ buy'.d = buy.d
    BY <1>b DEF BuyStages
  <2>5. buy'.d = buy.d => Buy(buy'.d) = Buy(buy.d)
    OBVIOUS
  <2> QED
    BY <2>1, <2>3, <2>4, <2>5, <1>c DEF FrameAgrees, Unsent
<1>2. CASE PostBuy
  <2>1. Ledger!AcceptOrder(Buy(buy.d)) \/ UNCHANGED ledger
    BY <1>2 DEF PostBuy
  <2>2. UNCHANGED status
    BY <2>1 DEF Ledger!AcceptOrder, ledger
  <2>3. status[Buy(buy.d)] = "PENDING"
    BY <1>2 DEF PostBuy, OneAttempt
  <2>4. buy'.stage = "conclude" /\ buy'.d = buy.d
    BY <1>2, <1>b DEF PostBuy, BuyStages
  <2> QED
    BY <2>2, <2>3, <2>4 DEF FrameAgrees, Unsent
<1>3. CASE ConcludeBuy
  BY <1>3, <1>c DEF ConcludeBuy
<1> QED
  BY <1>1, <1>2, <1>3 DEF BuyMoves

(* Every step keeps OneAttempt. *)
LEMMA OneAttemptStep ==
    TypeOK /\ OnceInv /\ OneAttempt /\ [Next]_vars => OneAttempt'
<1> SUFFICES ASSUME TypeOK, OnceInv, OneAttempt, [Next]_vars PROVE OneAttempt'
  OBVIOUS
<1>a. BuyMoves => buy.stage # "get"
  BY DEF BuyMoves, InsertBuy, PostBuy, ConcludeBuy
<1>b. buy.stage # "get" => buy.d \in Decisions
  BY DEF TypeOK
<1>1. ASSUME NEW d \in Decisions, (d \in fresh \/ Queued(d))'
      PROVE  NeverOrdered(d)'
  <2>1. d \in fresh \/ Queued(d)
    BY <1>1, QueueMoves
  <2>2. NeverOrdered(d) /\ ~(buy.stage # "get" /\ buy.d = d)
    BY <2>1 DEF OneAttempt, OnceInv
  <2>3. BuyKept(d)
    BY <2>2, <1>a, KeptElsewhere
  <2> QED
    BY <2>2, <2>3 DEF NeverOrdered, BuyKept
<1>2. FrameAgrees'
  <2>1. CASE BuyMoves
    BY <2>1, BuyMovesAgree
  <2>2. CASE ~BuyMoves
    <3>1. \A d \in Decisions : BuyKept(d)
      BY <2>2, KeptElsewhere
    <3>2. CASE UNCHANGED buy
      BY <3>1, <3>2, <1>b DEF OneAttempt, FrameAgrees, NeverOrdered, BuyKept, Unsent
    <3>3. CASE buy'.stage = "get"
      BY <3>3 DEF FrameAgrees, Unsent
    <3>4. CASE TakeDecision
      <4>1. /\ buy'.d \in Decisions /\ Queued(buy'.d)
            /\ buy'.stage = "exposure"
        BY <3>4, Taken
      <4>2. NeverOrdered(buy'.d) /\ BuyKept(buy'.d)
        BY <4>1, <3>1 DEF OneAttempt
      <4> QED
        BY <4>1, <4>2 DEF FrameAgrees, NeverOrdered, BuyKept
    <3>5. CASE buy.stage \in Unsent /\ buy'.stage \in Unsent /\ buy'.d = buy.d
      <4>1. buy.d \in Decisions /\ NeverOrdered(buy.d)
        BY <3>5, <1>b DEF OneAttempt, Unsent
      <4>2. buy'.stage \notin {"post", "conclude"}
        BY <3>5 DEF Unsent
      <4> QED
        BY <3>1, <3>5, <4>1, <4>2 DEF FrameAgrees, NeverOrdered, BuyKept
    <3> QED
      BY <2>2, <3>2, <3>3, <3>4, <3>5, FrameMoves
  <2> QED
    BY <2>1, <2>2
<1> QED
  BY <1>1, <1>2 DEF OneAttempt, FrameAgrees

(* OneAttempt holds of every state that the loops and restarts reach. *)
LEMMA OneAttemptAlways == Steps => []OneAttempt
<1>1. Init => OneAttempt
  BY KeysDiffer DEF Init, OneAttempt, NeverOrdered, Unsent, Waiting, Queued,
                    Ledger!LedgerInit
<1> QED
  BY <1>1, OneAttemptStep, OnceAlways, PTL DEF Steps

(* The BUY of a decision is attempted once, whatever restarts: no earlier   *)
(* attempt has left a row or an order when the consumer inserts its own.    *)
THEOREM BuysOnce == Spec => []OneAttempt
  BY SpecSteps, OneAttemptAlways, PTL

(* No step brings back what the consumer is done with. *)
LEMMA ForgottenAlways == Steps => NeverResumed
<1>1. TypeOK /\ [Next]_vars =>
        [\A d \in Decisions :
           d \notin fresh /\ ~InConsumer(d) =>
              /\ ~InConsumer(d)'
              /\ status'[Buy(d)] = status[Buy(d)]
              /\ orders'[Buy(d)] = orders[Buy(d)]]_vars
  <2> SUFFICES ASSUME TypeOK, [Next]_vars, NEW d \in Decisions,
                      d \notin fresh, ~InConsumer(d)
               PROVE  ~InConsumer(d)' /\ BuyKept(d)
    BY DEF BuyKept
  <2>1. ~Queued(d) /\ ~(buy.stage # "get" /\ buy.d = d)
    BY DEF InConsumer
  <2>2. BuyKept(d)
    BY <2>1, KeptElsewhere DEF BuyMoves, InsertBuy, PostBuy, ConcludeBuy
  <2>3. ~Queued(d)'
    BY <2>1, QueueMoves
  <2>4. ~(buy'.stage # "get" /\ buy'.d = d)
    <3>1. CASE BuyMoves
      <4>1. /\ buy.stage # "get"
            /\ BuyDone \/ BuyGoTo("post") \/ BuyGoTo("conclude")
        BY <3>1 DEF BuyMoves, InsertBuy, PostBuy, ConcludeBuy
      <4>2. buy'.stage = "get" \/ buy'.d = buy.d
        BY <4>1 DEF BuyDone, Waiting, BuyGoTo, TypeOK
      <4> QED
        BY <2>1, <4>1, <4>2
    <3>2. CASE TakeDecision
      BY <3>2, <2>1, Taken
    <3>3. CASE ~BuyMoves /\ ~TakeDecision
      BY <3>3, <2>1, FrameMoves DEF Unsent
    <3> QED
      BY <3>1, <3>2, <3>3
  <2> QED
    BY <2>2, <2>3, <2>4 DEF InConsumer
<1> QED
  BY <1>1, TypesKept, PTL DEF Steps, NeverResumed

(* A decision that the consumer is done with, or that a crash took from it, *)
(* never comes back, and neither its row nor its order changes.             *)
THEOREM EntriesForgotten == Spec => NeverResumed
  BY SpecSteps, ForgottenAlways, PTL

-------------------------------------------------------------------------------
(* What a pass of the exit scan has in its hands it had before, or it was   *)
(* OPEN.                                                                    *)
LEMMA ScanMoves ==
    ASSUME TypeOK, [Next]_vars, NEW d \in Decisions, InExit(d)'
    PROVE  InExit(d) \/ positions[d].status = "OPEN"
<1>a. ExitOK
  BY TypeParts
<1>b. exit.exits \in Seq(Decisions) /\ exit.todo \subseteq Decisions
  BY <1>a DEF ExitOK
<1>c. ASSUME exit'.todo \subseteq exit.todo, exit'.exits = exit.exits
      PROVE  InExit(d)
  BY <1>c DEF InExit
<1>d. ASSUME ExitDone, exit.exits # << >> PROVE InExit(d)
  <2>1. exit'.todo = exit.todo /\ exit'.exits = Tail(exit.exits)
    BY <1>d, <1>a DEF ExitDone, ExitOK
  <2>2. \A i \in DOMAIN exit'.exits :
           i + 1 \in DOMAIN exit.exits /\ exit'.exits[i] = exit.exits[i + 1]
    BY <2>1, <1>b, <1>d
  <2> QED
    BY <2>1, <2>2 DEF InExit
<1>e. ASSUME NEW s \in ExitStages, ExitGoTo(s) PROVE InExit(d)
  <2>1. exit'.todo = exit.todo /\ exit'.exits = exit.exits
    BY <1>e, <1>a DEF ExitGoTo, ExitOK
  <2> QED
    BY <2>1, <1>c
<1>1. CASE StartScan
  <2>1. exit'.todo = OpenPositions /\ exit'.exits = exit.exits
    BY <1>1, <1>a DEF StartScan, ExitOK
  <2> QED
    BY <2>1 DEF InExit, OpenPositions
<1>2. ASSUME NEW e \in Decisions, EvaluatePosition(e) PROVE InExit(d)
  <2>1. /\ e \in exit.todo /\ exit'.todo \subseteq exit.todo
        /\ exit'.exits = exit.exits \/ exit'.exits = Append(exit.exits, e)
    BY <1>2, <1>a DEF EvaluatePosition, HoldPosition, ClosePosition,
                      CloseStaleFails, ExitOK
  <2>2. CASE exit'.exits = exit.exits
    BY <2>1, <2>2, <1>c
  <2>3. CASE exit'.exits = Append(exit.exits, e)
    <3>1. \A i \in DOMAIN exit'.exits :
             exit'.exits[i] = e \/ (i \in DOMAIN exit.exits /\ exit'.exits[i] = exit.exits[i])
      BY <2>3, <1>b
    <3> QED
      BY <2>1, <3>1 DEF InExit
  <2> QED
    BY <2>1, <2>2, <2>3
<1>3. CASE RouteExit
  <2>1. ASSUME NEW c \in Prices,
               exit' = [exit EXCEPT !.stage = "settle", !.price = c]
        PROVE  InExit(d)
    <3>1. exit'.todo = exit.todo /\ exit'.exits = exit.exits
      BY <2>1, <1>a DEF ExitOK
    <3> QED
      BY <3>1, <1>c
  <2> QED
    BY <1>3, <2>1, <1>d DEF RouteExit
<1>4. CASE EndScan \/ Settle
  BY <1>4, <1>e DEF EndScan, Settle, ExitStages
<1>5. CASE InsertSell \/ PostSell \/ ConcludeSell
  <2>1. exit.exits # << >>
    BY <1>5, <1>a DEF InsertSell, PostSell, ConcludeSell, ExitOK
  <2> QED
    BY <1>5, <2>1, <1>d, <1>e DEF InsertSell, PostSell, ConcludeSell, ExitStages
<1>6. CASE EndPass \/ Restart
  BY <1>6 DEF EndPass, Restart, Asleep, InExit
<1>7. CASE UNCHANGED exit
  BY <1>7 DEF InExit
<1> QED
  BY <1>1, <1>2, <1>3, <1>4, <1>5, <1>6, <1>7
     DEF Next, Approve, ConsumerStep, TakeDecision, ExposureGateRaises,
         CheckFunds, CheckBreaker, RouteBuy, RecordPosition, InsertBuy, PostBuy,
         ConcludeBuy, ExitStep, EvaluateAlerts, vars

(* A position that is OPEN or CLOSED stays one of the two; its settlement   *)
(* is written by the exit scan only.                                        *)
LEMMA PositionMoves ==
    ASSUME TypeOK, OnceInv, [Next]_vars, NEW d \in Decisions
    PROVE  /\ positions[d].status \in {"OPEN", "CLOSED"} =>
                  positions'[d].status \in {"OPEN", "CLOSED"}
           /\ positions'[d].pnl = positions[d].pnl \/ InExit(d)
<1>a. EntryOK /\ ExitOK /\ PositionsOK
  BY TypeParts
<1>b. ASSUME NEW e \in Decisions, NEW s,
             positions' = [positions EXCEPT ![e].status = s]
      PROVE  /\ positions'[d].pnl = positions[d].pnl
             /\ positions'[d].status = IF d = e THEN s ELSE positions[d].status
  BY <1>a, <1>b DEF PositionsOK
<1>1. CASE RecordPosition
  <2>1. buy.d \in Decisions /\ positions[buy.d].status = "NONE"
    BY <1>1, <1>a DEF RecordPosition, OnceInv, Unrecorded, EntryOK
  <2>2. CASE UNCHANGED positions
    BY <2>2
  <2>3. ASSUME NEW s, positions' = [positions EXCEPT ![buy.d].status = s]
        PROVE  /\ positions'[d].pnl = positions[d].pnl
               /\ positions'[d].status = IF d = buy.d THEN s ELSE positions[d].status
    BY <2>1, <2>3, <1>b
  <2> QED
    BY <1>1, <2>1, <2>2, <2>3 DEF RecordPosition
<1>2. ASSUME NEW e \in Decisions, EvaluatePosition(e)
      PROVE  /\ positions[d].status \in {"OPEN", "CLOSED"} =>
                    positions'[d].status \in {"OPEN", "CLOSED"}
             /\ positions'[d].pnl = positions[d].pnl
  <2>1. \/ UNCHANGED positions
        \/ positions' = [positions EXCEPT ![e].status = "CLOSED"]
    BY <1>2 DEF EvaluatePosition, HoldPosition, ClosePosition, CloseStaleFails
  <2> QED
    BY <2>1, <1>b
<1>3. CASE Settle
  <2>1. exit.exits # << >>
    BY <1>3, <1>a DEF Settle, ExitOK
  <2>2. Head(exit.exits) \in Decisions /\ InExit(Head(exit.exits))
    BY <2>1, HeadInExit
  <2>3. \/ UNCHANGED positions
        \/ positions' = [positions EXCEPT ![Head(exit.exits)].pnl = exit.price]
    BY <1>3 DEF Settle
  <2>4. positions'[d].status = positions[d].status
    BY <2>3, <1>a DEF PositionsOK
  <2>5. d # Head(exit.exits) => positions'[d] = positions[d]
    BY <2>3, <1>a DEF PositionsOK
  <2> QED
    BY <2>2, <2>4, <2>5
<1>4. CASE UNCHANGED positions
  BY <1>4
<1> QED
  BY <1>1, <1>2, <1>3, <1>4
     DEF Next, Approve, ConsumerStep, TakeDecision, ExposureGateRaises,
         CheckFunds, CheckBreaker, RouteBuy, InsertBuy, PostBuy, ConcludeBuy,
         StartScan, ExitStep, EndScan, RouteExit, InsertSell, PostSell,
         ConcludeSell, EndPass, EvaluateAlerts, Restart, vars

(* The exit side touches nothing that was not opened, across failing writes *)
(* and restarts: no position, or a FAILED one, is never scanned, settled or *)
(* sold.                                                                    *)
THEOREM SoldWasOpen == Spec => []OnlyOpenedSold
<1>1. Init => OnlyOpenedSold
  BY KeysDiffer DEF Init, OnlyOpenedSold, InExit, Asleep, NoPosition,
                    Ledger!LedgerInit
<1>2. TypeOK /\ OnceInv /\ OnlyOpenedSold /\ [Next]_vars => OnlyOpenedSold'
  <2> SUFFICES ASSUME TypeOK, OnceInv, OnlyOpenedSold, [Next]_vars,
                      NEW d \in Decisions,
                      \/ InExit(d)'
                      \/ positions'[d].pnl # "NULL"
                      \/ status'[Sell(d)] # "NONE"
                      \/ orders'[Sell(d)] # 0
               PROVE  positions'[d].status \in {"OPEN", "CLOSED"}
    BY DEF OnlyOpenedSold
  <2>1. \/ InExit(d)
        \/ positions[d].pnl # "NULL"
        \/ status[Sell(d)] # "NONE"
        \/ orders[Sell(d)] # 0
        \/ positions[d].status = "OPEN"
    BY ScanMoves, PositionMoves, KeptElsewhere DEF SellKept
  <2>2. positions[d].status \in {"OPEN", "CLOSED"}
    BY <2>1 DEF OnlyOpenedSold
  <2> QED
    BY <2>2, PositionMoves
<1> QED
  BY <1>1, <1>2, SpecSteps, OnceAlways, PTL DEF Spec
===============================================================================
