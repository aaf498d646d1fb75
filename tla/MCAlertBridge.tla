---------------------------- MODULE MCAlertBridge ----------------------------
(* One pass apart for readiness, two for the WebSocket; the sends of a pass *)
(* may take a minute.                                                       *)
EXTENDS AlertBridge

MCThreshold == [c \in Conditions |-> IF c = "readiness" THEN 1 ELSE 2]
=============================================================================
