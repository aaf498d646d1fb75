--------------------------- MODULE MarketQuarantine ---------------------------
(***************************************************************************)
(* MarketQuarantineManager: markets that repeatedly fail their preflight.  *)
(* Its methods await nothing.  An entry whose time is over stays until     *)
(* somebody asks for it.                                                   *)
(***************************************************************************)
EXTENDS Naturals

CONSTANTS
    Markets,
    Threshold     \* failure_threshold

ASSUME QuarantineAssumption == Threshold \in Nat \ {0}

VARIABLES
    failures,     \* _failure_counts, 0 if absent
    entry         \* _quarantined: no entry, one in force, one whose time is over

quarantineVars == <<failures, entry>>

QuarantineTypeOK ==
    /\ failures \in [Markets -> 0 .. Threshold]
    /\ entry \in [Markets -> {"none", "active", "over"}]

QuarantineInit ==
    /\ failures = [m \in Markets |-> 0]
    /\ entry = [m \in Markets |-> "none"]

IsQuarantined(m) == entry[m] = "active"

(* What a call of is_quarantined() leaves behind. *)
Looked(m) ==
    /\ failures' = IF entry[m] = "over" THEN [failures EXCEPT ![m] = 0] ELSE failures
    /\ entry' = IF entry[m] = "over" THEN [entry EXCEPT ![m] = "none"] ELSE entry

(* record_failure(), of a market that is not quarantined: a count from a   *)
(* quarantine that is over is forgotten.                                   *)
Count(m) == IF entry[m] = "over" THEN 1 ELSE failures[m] + 1

(* record_success() of the one, record_failure() of the others. *)
RecordResults(passed, failed) ==
    LET counted == {m \in failed : ~IsQuarantined(m)} IN
    /\ failures' = [m \in Markets |-> IF m \in passed THEN 0
                                       ELSE IF m \in counted THEN Count(m)
                                       ELSE failures[m]]
    /\ entry' = [m \in Markets |->
                    IF m \in passed \/ (m \in counted /\ Count(m) < Threshold) THEN "none"
                    ELSE IF m \in counted THEN "active"
                    ELSE entry[m]]

(* preflight_quarantine_duration_seconds have passed. *)
ExpireQuarantine(m) ==
    /\ IsQuarantined(m)
    /\ entry' = [entry EXCEPT ![m] = "over"]
    /\ UNCHANGED failures
===============================================================================
