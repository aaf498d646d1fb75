------------------------------ MODULE MCEventBus ------------------------------
(* A queue of two events, flushed in batches of two. *)
EXTENDS EventBus

AllPolicies == {"drop_oldest", "drop_newest", "drop_diagnostic"}
===============================================================================
