------------------------------- MODULE MCBacktest -------------------------------
(* A market observed on two days, on one of them more than once, and one    *)
(* whose only observation may be unusable or whose outcome may be missing.  *)
EXTENDS Backtest

MCDayOf(at) == IF at < 3 THEN "monday" ELSE "tuesday"

Good(at) == [at |-> at, good |-> TRUE]
Bad(at)  == [at |-> at, good |-> FALSE]

MCSources == {("busy" :> [sound |-> TRUE, snaps |-> <<Good(1), Good(3), Good(1)>>]) @@
              ("quiet" :> quiet) :
                quiet \in {[sound |-> TRUE,  snaps |-> <<Good(2)>>],
                          [sound |-> TRUE,  snaps |-> <<Bad(2)>>],
                          [sound |-> FALSE, snaps |-> << >>]}}

MCResults == {-2, 1}
===============================================================================
