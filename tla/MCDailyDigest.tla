---------------------------- MODULE MCDailyDigest ----------------------------
(* Two changes and a restart, or three changes of one run; two pages of two *)
(* events; two places in the list of unresolved errors, so that a failing   *)
(* evaluation before the breaker trips takes them both.                     *)
EXTENDS DailyDigest
=============================================================================
