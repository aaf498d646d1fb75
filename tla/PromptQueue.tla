------------------------------ MODULE PromptQueue ------------------------------
(***************************************************************************)
(* BoundedPromptQueue between its producer, DataAggregator, and its        *)
(* consumer, ClaudeClient._consume_queue.  Nothing is awaited while the    *)
(* queue's lock is held, so put(), get() and quarantine_market_until() are *)
(* atomic; the tasks meet at the notification event, and during an         *)
(* evaluation, which may quarantine the market it evaluates.  What the     *)
(* producer puts, and when, is the business of the module that extends     *)
(* this one.                                                               *)
(***************************************************************************)
EXTENDS Integers, Sequences

CONSTANTS
    Markets,
    Quotes,       \* what a context says of its market
    MaxSize       \* prompt_queue_maxsize

ASSUME QueueAssumption ==
    /\ Markets # {}
    /\ MaxSize \in Nat \ {0}

VARIABLES
    coalescing,   \* prompt_queue_coalesce_by_market, read at the start
    deque,        \* _deque: contexts, oldest first
    notEmpty,     \* _not_empty is set
    unfinished,   \* _unfinished_tasks
    allDone,      \* _all_done is set
    quarantined,  \* markets whose _budget_quarantine_until lies ahead
    consumer      \* the frame of _consume_queue

queueVars == <<coalescing, deque, notEmpty, unfinished, allDone, quarantined, consumer>>

Contexts == [market : Markets, quote : Quotes]

(* "wait": suspended in _not_empty.wait(); "work": evaluating an item. *)
Getting    == [stage |-> "get"]
Suspended  == [stage |-> "wait"]
Working(c) == [stage |-> "work", item |-> c]

QueueTypeOK ==
    /\ coalescing \in BOOLEAN
    /\ deque \in Seq(Contexts) /\ Len(deque) <= MaxSize
    /\ notEmpty \in BOOLEAN
    /\ unfinished \in Nat
    /\ allDone \in BOOLEAN
    /\ quarantined \in SUBSET Markets
    /\ consumer \in {Getting, Suspended} \cup {Working(c) : c \in Contexts}

QueueInit ==
    /\ coalescing \in BOOLEAN
    /\ deque = << >>
    /\ notEmpty = FALSE
    /\ unfinished = 0
    /\ allDone = TRUE
    /\ quarantined = {}
    /\ consumer = Getting

Of(m) == {i \in DOMAIN deque : deque[i].market = m}

(* _not_empty.set(): a suspended get() goes round its loop again. *)
Notify ==
    /\ notEmpty' = TRUE
    /\ consumer' = IF consumer = Suspended THEN Getting ELSE consumer

-------------------------------------------------------------------------------
Enqueue(c) ==
    /\ Len(deque) < MaxSize
    /\ deque' = Append(deque, c)
    /\ unfinished' = unfinished + 1
    /\ allDone' = FALSE
    /\ Notify

(* _coalesce_sync(): the first context of the same market gives way. *)
Coalesce(c) ==
    LET first == CHOOSE i \in Of(c.market) : \A j \in Of(c.market) : i <= j IN
    /\ Len(deque) = MaxSize
    /\ coalescing
    /\ Of(c.market) # {}
    /\ deque' = [deque EXCEPT ![first] = c]
    /\ UNCHANGED <<unfinished, allDone, notEmpty, consumer>>

(* Mutant: the dropped context stays on the account of unfinished tasks. *)
DropStaleUnaccounted(c) ==
    /\ Len(deque) = MaxSize
    /\ coalescing => Of(c.market) = {}
    /\ deque' = Append(Tail(deque), c)
    /\ unfinished' = unfinished + 1
    /\ allDone' = FALSE
    /\ Notify

(* _drop_stale_sync(): the oldest context gives way, whatever its market. *)
DropStale(c) ==
    /\ Len(deque) = MaxSize
    /\ coalescing => Of(c.market) = {}
    /\ deque' = Append(Tail(deque), c)
    /\ unfinished' = (IF unfinished > 0 THEN unfinished - 1 ELSE 0) + 1
    /\ allDone' = FALSE
    /\ Notify

(* Mutant: put() does not look at the quarantine. *)
PutUnchecked(c) ==
    /\ Enqueue(c) \/ Coalesce(c) \/ DropStale(c)
    /\ UNCHANGED <<coalescing, quarantined>>

(* put(c) *)
Put(c) ==
    /\ IF c.market \in quarantined
         THEN UNCHANGED <<deque, unfinished, allDone, notEmpty, consumer>>
         ELSE Enqueue(c) \/ Coalesce(c) \/ DropStale(c)
    /\ UNCHANGED <<coalescing, quarantined>>

(* Mutant: get() waits for the event first and clears it with every item. *)
GetClearsAlways ==
    /\ consumer = Getting
    /\ \/ /\ notEmpty
          /\ deque' = Tail(deque)
          /\ notEmpty' = FALSE
          /\ consumer' = Working(Head(deque))
       \/ /\ ~notEmpty
          /\ consumer' = Suspended
          /\ UNCHANGED <<deque, notEmpty>>
    /\ UNCHANGED <<coalescing, unfinished, allDone, quarantined>>

(* get(): an item, or the event is cleared and waited for. *)
Get ==
    /\ consumer = Getting
    /\ \/ /\ deque # << >>
          /\ deque' = Tail(deque)
          /\ notEmpty' = (notEmpty /\ Tail(deque) # << >>)
          /\ consumer' = Working(Head(deque))
       \/ /\ deque = << >>
          /\ notEmpty' = FALSE
          /\ consumer' = Suspended
          /\ UNCHANGED deque
    /\ UNCHANGED <<coalescing, unfinished, allDone, quarantined>>

(* The loop over the queue: the contexts of the other markets, in order.   *)
Without(s, m) ==
    LET retained[i \in 0 .. Len(s)] ==
          IF i = 0 THEN << >>
          ELSE IF s[i].market = m THEN retained[i - 1]
          ELSE Append(retained[i - 1], s[i])
    IN  retained[Len(s)]

(* quarantine_market_until(), called by the evaluation that the budget     *)
(* blocked: the deadline may already have passed, the contexts of the      *)
(* market leave the queue all the same.                                    *)
Quarantine ==
    LET m        == consumer.item.market
        retained == Without(deque, m)
        removed  == Len(deque) - Len(retained) IN
    /\ consumer.stage = "work"
    /\ quarantined' \in {quarantined, quarantined \cup {m}}
    /\ deque' = retained
    /\ IF removed = 0
         THEN UNCHANGED <<unfinished, allDone, notEmpty>>
         ELSE /\ unfinished' = IF unfinished > removed THEN unfinished - removed ELSE 0
              /\ notEmpty' = (retained # << >>)
              /\ allDone' = (allDone \/ unfinished' = 0)
    /\ UNCHANGED <<coalescing, consumer>>

(* The evaluation ends, with or without an exception: task_done(). *)
TaskDone ==
    /\ consumer.stage = "work"
    /\ unfinished' = IF unfinished > 0 THEN unfinished - 1 ELSE 0
    /\ allDone' = (allDone \/ unfinished' = 0)
    /\ consumer' = Getting
    /\ UNCHANGED <<coalescing, deque, notEmpty, quarantined>>

(* The deadline of a quarantine passes. *)
Expire(m) ==
    /\ m \in quarantined
    /\ quarantined' = quarantined \ {m}
    /\ UNCHANGED <<coalescing, deque, notEmpty, unfinished, allDone, consumer>>

-------------------------------------------------------------------------------
(* _unfinished_tasks is what is queued and what is being evaluated, through *)
(* coalescing, stale drops and quarantines in mid-evaluation; and join()    *)
(* is released exactly when nothing of either is left.                      *)
Accounting ==
    /\ unfinished = Len(deque) + (IF consumer.stage = "work" THEN 1 ELSE 0)
    /\ allDone = (unfinished = 0)

(* While a market is quarantined no context of it is in the queue: neither *)
(* one that was there before nor one the aggregator emits meanwhile.       *)
QuarantineHolds == \A m \in quarantined : Of(m) = {}

(* No wakeup is lost: as long as contexts are queued, the evaluation       *)
(* consumer takes one (STATE.md, the notification-clear race).             *)
ConsumerServed == deque # << >> ~> consumer.stage = "work"
===============================================================================
