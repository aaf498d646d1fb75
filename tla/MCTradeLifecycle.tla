--------------------------- MODULE MCTradeLifecycle ---------------------------
(* An instance of TradeLifecycle for TLC: one trade with every outcome of  *)
(* its orders, two exit prices and a restart.  EntryRouting, which         *)
(* implements TradeLifecycle, is checked with two trades.                  *)
EXTENDS TradeLifecycle

CONSTANTS d1, p1, p2
===============================================================================
