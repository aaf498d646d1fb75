--------------------------- MODULE MCContextPipeline ---------------------------
(* Two markets of different cadence, two quotes a material move apart, a   *)
(* queue with coalescing and one without.                                  *)
EXTENDS ContextPipeline

CONSTANTS m1, m2

MCQuotes  == {[mid |-> 50, spread |-> 1], [mid |-> 52, spread |-> 1]}
MCCadence == [m \in Markets |-> IF m = m1 THEN 0 ELSE 2]
===============================================================================
