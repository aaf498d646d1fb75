---------------------------- MODULE MCEntryRouting ----------------------------
(* Instances of EntryRouting for TLC: one or two decisions on one market,    *)
(* whose book is fair, or cheap and too wide to buy from, or cannot be read, *)
(* and a wallet that is empty or full.                                       *)
EXTENDS EntryRouting

CONSTANTS d1, d2

TheBooks == {[mid |-> 50, ask |-> 51], [mid |-> 10, ask |-> 20]}
===============================================================================
