---------------------------- MODULE MCEvaluation ----------------------------
(* Two markets, a day of three ticks, limits that each bite; one metered   *)
(* resource, a call using as much as its reservation or one and a half.    *)
EXTENDS Evaluation

CONSTANTS m1, m2

Tokens == {"tokens"}
Metered(n) == [r \in Tokens |-> n]
MCHourlyLimit == [t \in CallTypes |-> 2]
MCQuota   == Metered(8)
MCReserve == Metered(2)
MCExcess  == Metered(1)
MCUsages  == {Metered(3)}

Trade == [decision |-> TRUE, action |-> "BUY", confidence |-> 90, pTrue |-> 60,
          ttr |-> NoEnd, asymmetry |-> FALSE, schema |-> TRUE]
MCAnswers == {Trade,
              [Trade EXCEPT !.decision = FALSE, !.action = "HOLD", !.ttr = 1]}
MCBooks == {[bids |-> {0, 40, 50}, asks |-> {50, 99}], [bids |-> {50}, asks |-> {40}]}
===============================================================================
