----------------------------- MODULE OrderLedger -----------------------------
(***************************************************************************)
(* What the execution_txs table and OrderBroadcaster.broadcast() promise   *)
(* to the two tasks that place orders (the execution consumer and the exit *)
(* scan): one decision id never puts more than one order on the exchange,  *)
(* no order reaches the exchange before its row is committed, and the row  *)
(* only ever moves from PENDING to one final status.                       *)
(*                                                                         *)
(* An abstract specification: OrderBroadcaster implements it, and          *)
(* TradeLifecycle is built on its actions.                                 *)
(***************************************************************************)
EXTENDS Naturals

CONSTANT Keys     \* decision ids: a snapshot id (BUY) or "exit_<position>"

VARIABLES
    status,       \* status[k]: TxStatus of the row of k, "NONE" without a row
    orders        \* orders[k]: orders the exchange accepted for k

ledgerVars == <<status, orders>>

Final == {"CONFIRMED", "REVERTED", "FAILED"}
TxStatus == {"NONE", "PENDING"} \cup Final

LedgerTypeOK ==
    /\ status \in [Keys -> TxStatus]
    /\ orders \in [Keys -> Nat]

LedgerInit ==
    /\ status = [k \in Keys |-> "NONE"]
    /\ orders = [k \in Keys |-> 0]

(* The pending row of k is committed; decision_id is unique, so only once. *)
RecordPending(k) ==
    /\ status[k] = "NONE"
    /\ status' = [status EXCEPT ![k] = "PENDING"]
    /\ UNCHANGED orders

(* The exchange accepts the one order of k. *)
AcceptOrder(k) ==
    /\ status[k] = "PENDING"
    /\ orders[k] = 0
    /\ orders' = [orders EXCEPT ![k] = 1]
    /\ UNCHANGED status

(* The row gets its final status: a receipt exists only for an accepted     *)
(* order, while FAILED follows an HTTP error whatever the exchange did.     *)
Conclude(k, s) ==
    /\ status[k] = "PENDING"
    /\ s \in Final
    /\ s # "FAILED" => orders[k] = 1
    /\ status' = [status EXCEPT ![k] = s]
    /\ UNCHANGED orders

LedgerNext ==
    \E k \in Keys :
        \/ RecordPending(k)
        \/ AcceptOrder(k)
        \/ \E s \in Final : Conclude(k, s)

LedgerSpec == LedgerInit /\ [][LedgerNext]_ledgerVars

(* What a row tells of the exchange, whoever reads it and after whatever   *)
(* crash: no row, no order; a receipt, exactly one; PENDING and FAILED, at *)
(* most one (broadcaster.py: a 5xx answer is written as FAILED).           *)
RowsTell ==
    \A k \in Keys :
        /\ orders[k] <= 1
        /\ status[k] = "NONE" => orders[k] = 0
        /\ status[k] \in {"CONFIRMED", "REVERTED"} => orders[k] = 1
==============================================================================
