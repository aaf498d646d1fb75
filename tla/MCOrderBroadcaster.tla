--------------------------- MODULE MCOrderBroadcaster ---------------------------
(* A small instance: the execution consumer with one BUY decision, the exit *)
(* scan with the SELL of one position, each of which may be tried again.    *)
EXTENDS OrderBroadcaster

CONSTANTS exec, exit, buy1, sell1, sell2

MCKeysOf == [t \in {exec, exit} |-> IF t = exec THEN {buy1} ELSE {sell1}]

(* The exit scan has two positions to sell. *)
MCKeysOfTwoExits ==
    [t \in {exec, exit} |-> IF t = exec THEN {buy1} ELSE {sell1, sell2}]

(* The RPC may count an accepted order at once or not yet. *)
Any == {0, 1}

(* The RPC counts every accepted order at once. *)
Prompt == {1}
==================================================================================
