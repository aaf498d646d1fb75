----------------------------- MODULE MCMarketData -----------------------------
(* Both loops, two markets of which one may fail its preflights, one       *)
(* preflight of a loop at a time, a quarantine after two failures, two     *)
(* connections.                                                            *)
EXTENDS MarketData

CONSTANTS m1, m2
===============================================================================
