------------------------------- MODULE EventBus -------------------------------
(***************************************************************************)
(* OperationalEventBus: publish() never awaits, so it is one step; the     *)
(* flush loop takes a batch off the queue and awaits the database, where   *)
(* publishers, and the cancellation by stop(), may come between.           *)
(***************************************************************************)
EXTENDS Integers, SequencesExt

CONSTANTS
    Capacity,      \* event_ledger_queue_size
    BatchSize,     \* event_ledger_batch_size
    Policies,      \* values of event_ledger_overflow_policy
    MaxPublishes   \* bound: events published in a behaviour

ASSUME ConstantsAssumption ==
    /\ Capacity \in Nat \ {0}
    /\ BatchSize \in Nat \ {0}
    /\ Policies \subseteq {"drop_oldest", "drop_newest", "drop_diagnostic"}
    /\ MaxPublishes \in Nat

VARIABLES
    policy,       \* read from the configuration
    queue,        \* _queue: events, oldest first
    diagnostics,  \* _diagnostic_count
    batch,        \* the events _flush_batch() has taken and not yet answered for
    phase,        \* of the bus: flush loop, final flush, or how that ended
    degraded,     \* Orchestrator._event_ledger_degraded
    published,    \* events published so far (bounded)
    fate          \* history: fate[f] is the set of events that ended as f

vars == <<policy, queue, diagnostics, batch, phase, degraded, published, fate>>

(* ERROR is treated as CRITICAL everywhere. *)
Severities == {"INFO", "WARNING", "CRITICAL"}
Events     == [id : 1 .. MaxPublishes, severity : Severities]
Fates  == {"stored", "failed", "evicted", "rejected", "lost"}
Phases == {"running", "draining", "drained", "timed_out"}

TypeOK ==
    /\ policy \in Policies
    /\ queue \in Seq(Events) /\ Len(queue) <= Capacity
    /\ diagnostics \in Int
    /\ batch \in Seq(Events) /\ Len(batch) <= BatchSize
    /\ phase \in Phases
    /\ degraded \in BOOLEAN
    /\ published \in 0 .. MaxPublishes
    /\ fate \in [Fates -> SUBSET Events]

Init ==
    /\ policy \in Policies
    /\ queue = << >>
    /\ diagnostics = 0
    /\ batch = << >>
    /\ phase = "running"
    /\ degraded = FALSE
    /\ published = 0
    /\ fate = [f \in Fates |-> {}]

IsInfo(e)     == e.severity = "INFO"
IsCritical(e) == e.severity = "CRITICAL"
InfoIn(s)     == {i \in DOMAIN s : IsInfo(s[i])}
EvictableIn(s) == {i \in DOMAIN s : ~IsCritical(s[i])}
First(I)      == CHOOSE i \in I : \A j \in I : i <= j
One(e)        == IF IsInfo(e) THEN 1 ELSE 0

Full == Len(queue) = Capacity

EndAs(f, S)   == fate' = [fate EXCEPT ![f] = @ \cup S]

(* A critical event among S did not get into the ledger. *)
SignalFor(S)  == degraded' = (degraded \/ \E e \in S : IsCritical(e))

-------------------------------------------------------------------------------
Enqueue(e) ==
    /\ ~Full
    /\ queue' = Append(queue, e)
    /\ diagnostics' = diagnostics + One(e)
    /\ UNCHANGED <<degraded, fate>>

(* _handle_overflow() first makes room at the cost of a diagnostic event,  *)
(* if _diagnostic_count says that there is one.  The incoming event is not *)
(* counted on this way in.                                                 *)
RoomByDiagnostic == diagnostics > 0 /\ InfoIn(queue) # {}

ReplaceDiagnostic(e) ==
    LET i == First(InfoIn(queue)) IN
    /\ Full
    /\ RoomByDiagnostic
    /\ queue' = Append(RemoveAt(queue, i), e)
    /\ diagnostics' = diagnostics - 1
    /\ EndAs("evicted", {queue[i]})
    /\ UNCHANGED degraded

(* _overflow_drop_oldest_safe(), for drop_oldest and for critical events. *)
DropsOldestFor(e) == policy = "drop_oldest" \/ IsCritical(e)

(* Mutant: the oldest event goes, whatever its severity. *)
ReplaceOldestOfAll(e) ==
    /\ Full
    /\ ~RoomByDiagnostic
    /\ DropsOldestFor(e)
    /\ queue' = Append(Tail(queue), e)
    /\ diagnostics' = diagnostics - One(Head(queue)) + One(e)
    /\ EndAs("evicted", {Head(queue)})
    /\ UNCHANGED degraded

ReplaceOldest(e) ==
    LET i == First(EvictableIn(queue)) IN
    /\ Full
    /\ ~RoomByDiagnostic
    /\ DropsOldestFor(e)
    /\ EvictableIn(queue) # {}
    /\ queue' = Append(RemoveAt(queue, i), e)
    /\ diagnostics' = diagnostics - One(queue[i]) + One(e)
    /\ EndAs("evicted", {queue[i]})
    /\ UNCHANGED degraded

(* Nothing may give way: the event is refused, and a critical one signalled *)
(* both here and by _publish_operational_event().                           *)
Reject(e) ==
    /\ Full
    /\ ~RoomByDiagnostic
    /\ DropsOldestFor(e) => EvictableIn(queue) = {}
    /\ EndAs("rejected", {e})
    /\ SignalFor({e})
    /\ UNCHANGED <<queue, diagnostics>>

(* publish().  Once shutdown() reaches stop(), no task is left to call it. *)
Publish(s) ==
    LET e == [id |-> published + 1, severity |-> s] IN
    /\ phase = "running"
    /\ published < MaxPublishes
    /\ published' = published + 1
    /\ Enqueue(e) \/ ReplaceDiagnostic(e) \/ ReplaceOldest(e) \/ Reject(e)
    /\ UNCHANGED <<policy, batch, phase>>

-------------------------------------------------------------------------------
(* Mutant: the loop waits until it has a full batch. *)
CollectFullBatch ==
    /\ phase \in {"running", "draining"}
    /\ batch = << >>
    /\ Len(queue) >= BatchSize
    /\ batch' = SubSeq(queue, 1, BatchSize)
    /\ queue' = SubSeq(queue, BatchSize + 1, Len(queue))
    /\ UNCHANGED <<policy, diagnostics, phase, degraded, published, fate>>

(* _flush_batch() takes what is queued, up to a batch, and awaits.  It is  *)
(* called after every interval, and over and over by _flush_pending().     *)
CollectBatch ==
    LET n == IF Len(queue) < BatchSize THEN Len(queue) ELSE BatchSize IN
    /\ phase \in {"running", "draining"}
    /\ batch = << >>
    /\ queue # << >>
    /\ batch' = SubSeq(queue, 1, n)
    /\ queue' = SubSeq(queue, n + 1, Len(queue))
    /\ UNCHANGED <<policy, diagnostics, phase, degraded, published, fate>>

Uncount(n) == IF diagnostics > n THEN diagnostics - n ELSE 0

(* Of the batch in flight, the events in kept are durable, the others end  *)
(* as f.                                                                   *)
EndBatch(kept, f) ==
    /\ batch' = << >>
    /\ fate' = [fate EXCEPT !["stored"] = @ \cup kept,
                            ![f] = @ \cup (ToSet(batch) \ kept)]

(* Mutant: a partial failure is only counted. *)
BatchWrittenUnsignalled(kept) ==
    /\ batch # << >>
    /\ EndBatch(kept, "failed")
    /\ diagnostics' = Uncount(Cardinality(InfoIn(batch)))
    /\ UNCHANGED <<policy, queue, phase, degraded, published>>

(* batch_append() and commit() return; the events that could not be turned *)
(* into rows are reported as failed, and signalled if the batch holds any  *)
(* critical event at all.                                                  *)
BatchWritten(kept) ==
    /\ batch # << >>
    /\ EndBatch(kept, "failed")
    /\ IF kept = ToSet(batch) THEN UNCHANGED degraded ELSE SignalFor(ToSet(batch))
    /\ diagnostics' = Uncount(Cardinality(InfoIn(batch)))
    /\ UNCHANGED <<policy, queue, phase, published>>

(* Mutant: a batch that raised is kept for another attempt. *)
BatchRetried(kept) ==
    /\ batch # << >>
    /\ EndAs("failed", ToSet(batch))
    /\ SignalFor(ToSet(batch))
    /\ UNCHANGED <<policy, queue, diagnostics, batch, phase, published>>

(* The factory, a flush, commit() or close() raises: the batch is given    *)
(* up, although close() may raise after the commit, and _diagnostic_count  *)
(* goes on counting its diagnostic events.                                 *)
BatchRaises(kept) ==
    /\ batch # << >>
    /\ EndBatch(kept, "failed")
    /\ SignalFor(ToSet(batch))
    /\ UNCHANGED <<policy, queue, diagnostics, phase, published>>

AnswerBatch ==
    \E kept \in SUBSET ToSet(batch) : BatchWritten(kept) \/ BatchRaises(kept)

-------------------------------------------------------------------------------
(* A batch whose task is cancelled is answered for by nobody: what commit() *)
(* had not yet made durable is gone.                                        *)
CancelBatch == \E kept \in SUBSET ToSet(batch) : EndBatch(kept, "lost")

(* stop() cancels the flush loop, wherever it stands, and starts the final *)
(* flush.                                                                  *)
Stop ==
    /\ phase = "running"
    /\ phase' = "draining"
    /\ CancelBatch
    /\ UNCHANGED <<policy, queue, diagnostics, degraded, published>>

(* _flush_pending() finds the queue empty. *)
EndDrain ==
    /\ phase = "draining"
    /\ batch = << >>
    /\ queue = << >>
    /\ phase' = "drained"
    /\ UNCHANGED <<policy, queue, diagnostics, batch, degraded, published, fate>>

(* event_ledger_shutdown_flush_timeout_sec is over. *)
DrainTimeout ==
    /\ phase = "draining"
    /\ phase' = "timed_out"
    /\ CancelBatch
    /\ UNCHANGED <<policy, queue, diagnostics, degraded, published>>

Next ==
    \/ \E s \in Severities : Publish(s)
    \/ CollectBatch \/ AnswerBatch
    \/ Stop \/ EndDrain \/ DrainTimeout

(* The flush loop is a task that sleeps for an interval, and the database  *)
(* answers or raises; publishers and shutdown() owe nothing.               *)
Fairness == WF_vars(CollectBatch) /\ WF_vars(AnswerBatch) /\ WF_vars(EndDrain)

Spec == Init /\ [][Next]_vars /\ Fairness

-------------------------------------------------------------------------------
(* Through overflow, re-enqueuing, failing batches and shutdown, an event  *)
(* is in one place only, comes to one end only, and never overtakes an     *)
(* earlier one: the events published are those still in the bus, in order, *)
(* and those that ended, each in one way.                                  *)
Pending == batch \o queue

EachEventOnce ==
    /\ \A i, j \in DOMAIN Pending : i < j => Pending[i].id < Pending[j].id
    /\ \A f, g \in Fates : f # g => fate[f] \cap fate[g] = {}
    /\ \A f \in Fates : fate[f] \cap ToSet(Pending) = {}
    /\ {e.id : e \in ToSet(Pending) \cup UNION {fate[f] : f \in Fates}}
         = 1 .. published

(* "Fail-closed": a critical event that the bus refused or failed to       *)
(* write has marked the ledger degraded, on every path out of publish()    *)
(* and _flush_batch().                                                     *)
FailClosed ==
    \A e \in fate["rejected"] \cup fate["failed"] : IsCritical(e) => degraded

(* Overflow costs a critical event only when nothing else is queued: it is *)
(* never evicted, and refused only by a queue full of critical events.     *)
CriticalKept ==
    [][/\ \A e \in fate'["evicted"] : ~IsCritical(e)
       /\ \A e \in fate'["rejected"] \ fate["rejected"] :
             IsCritical(e) => \A i \in DOMAIN queue : IsCritical(queue[i])]_vars

(* While the loop runs, no event waits forever, whatever else is published *)
(* and however often the database raises.                                  *)
Waiting(n) == phase = "running" /\ \E e \in ToSet(Pending) : e.id = n

EventsLeave == \A n \in 1 .. MaxPublishes : Waiting(n) ~> ~Waiting(n)

(* To its publishers the bus is one line of pending events: how they are   *)
(* split into queue and batch, and when a flush takes some, is not seen.   *)
Delivery == INSTANCE EventDelivery
                WITH Critical <- {e \in Events : IsCritical(e)},
                     pending <- Pending, ended <- fate, told <- degraded

ImplementsDelivery == Delivery!DeliverySpec
===============================================================================
