----------------------------- MODULE EventDelivery -----------------------------
(***************************************************************************)
(* What OperationalEventBus promises to those that publish: the events it  *)
(* has taken stay in order and leave from the front only; what makes room  *)
(* for another is never critical; and when a critical event is refused or  *)
(* fails to be written, the orchestrator has been told.                    *)
(*                                                                         *)
(* An abstract specification, without queue, batch or flush loop: EventBus *)
(* implements it.                                                          *)
(***************************************************************************)
EXTENDS Naturals, Sequences

CONSTANTS
    Events,      \* the events that may be published
    Critical     \* those whose loss must be signalled

VARIABLES
    pending,     \* the events taken and not yet answered for, oldest first
    ended,       \* ended[f]: the events that came to the end f
    told         \* on_critical_failure() has been called

deliveryVars == <<pending, ended, told>>

Ends == {"stored", "failed", "evicted", "rejected", "lost"}

DeliveryInit ==
    /\ pending = << >>
    /\ ended = [f \in Ends |-> {}]
    /\ told = FALSE

Front(n) == {pending[i] : i \in 1 .. n}
New(e)   == e \notin Front(Len(pending)) /\ \A f \in Ends : e \notin ended[f]

(* A new event goes behind all others. *)
Take(e) ==
    /\ pending' = Append(pending, e)
    /\ UNCHANGED <<ended, told>>

(* It does so in the place of one that is not critical. *)
TakeFor(e, i) ==
    /\ pending[i] \notin Critical
    /\ pending' = Append(SubSeq(pending, 1, i - 1)
                           \o SubSeq(pending, i + 1, Len(pending)), e)
    /\ ended' = [ended EXCEPT !["evicted"] = @ \cup {pending[i]}]
    /\ UNCHANGED told

(* It is refused. *)
Refuse(e) ==
    /\ ended' = [ended EXCEPT !["rejected"] = @ \cup {e}]
    /\ told' = (told \/ e \in Critical)
    /\ UNCHANGED pending

(* The first n events leave: those in kept are durable, the others end as f. *)
Leave(n, kept, f) ==
    /\ pending' = SubSeq(pending, n + 1, Len(pending))
    /\ ended' = [ended EXCEPT !["stored"] = @ \cup kept,
                              ![f] = @ \cup (Front(n) \ kept)]

(* An answer from the database tells of every critical event that it fails, *)
(* and possibly of one that was stored all the same.                        *)
Answer(n, kept) ==
    /\ Leave(n, kept, "failed")
    /\ told' \in {told, told \/ \E e \in Front(n) : e \in Critical}
    /\ (\E e \in Front(n) \ kept : e \in Critical) => told'

(* At shutdown there may be no answer, and nobody to tell. *)
Abandon(n, kept) ==
    /\ Leave(n, kept, "lost")
    /\ UNCHANGED told

DeliveryNext ==
    \/ \E e \in Events :
          /\ New(e)
          /\ Take(e) \/ (\E i \in DOMAIN pending : TakeFor(e, i)) \/ Refuse(e)
    \/ \E n \in 1 .. Len(pending) : \E kept \in SUBSET Front(n) :
          Answer(n, kept) \/ Abandon(n, kept)

DeliverySpec == DeliveryInit /\ [][DeliveryNext]_deliveryVars
===============================================================================
