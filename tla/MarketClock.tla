----------------------------- MODULE MarketClock -----------------------------
(* What the parts of the evaluation share: the markets and the time.       *)
EXTENDS Integers

CONSTANT Markets

VARIABLE now     \* datetime.now(), in ticks

Never == -1      \* a time that is not set
Times == Nat \cup {Never}
===============================================================================
