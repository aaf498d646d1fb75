------------------------- MODULE ContextPipelineProofs -------------------------
(***************************************************************************)
(* Proofs about the context pipeline, for all its constants: the prompt    *)
(* queue's account of its unfinished tasks, its quarantine, and the safety *)
(* half of its notifications: no consumer sleeps on a queue that holds a   *)
(* context.                                                                *)
(*                                                                         *)
(* The drain of a quarantined market is a loop over the queue, and         *)
(* Without() a recursive function.  What it returns is proved by           *)
(* induction, in the form the provers can use: a set of naturals with      *)
(* zero and with the successor of each of its members is Nat.              *)
(***************************************************************************)
EXTENDS ContextPipeline, SequenceTheorems, WellFoundedInduction, TLAPS

-------------------------------------------------------------------------------
(* Induction, and what the filter returns.                                 *)

(* A nonempty set of naturals has a least member. *)
LEMMA LeastNatural ==
  ASSUME NEW T, T \subseteq Nat, T # {}
  PROVE  \E n \in T : \A k \in T : n <= k
<1>1. PICK n \in T : \A k \in T : ~ (<<k, n>> \in OpToRel(<, Nat))
  BY WFMin, NatLessThanWellFounded, Zenon
<1>2. ASSUME NEW k \in T PROVE ~ (k < n)
  BY <1>1, Zenon DEF OpToRel
<1> QED
  BY <1>2

(* Induction over the naturals, for a set in the place of a predicate. *)
LEMMA SetInduction ==
  ASSUME NEW T \in SUBSET Nat, 0 \in T, \A n \in T : n + 1 \in T
  PROVE  T = Nat
<1>1. SUFFICES ASSUME Nat \ T # {} PROVE FALSE
  OBVIOUS
<1>2. PICK n \in Nat \ T : \A k \in Nat \ T : n <= k
  BY <1>1, LeastNatural
<1>3. n # 0 /\ n - 1 \in Nat
  BY <1>2
<1>4. n - 1 \in T
  BY <1>2, <1>3
<1> QED
  BY <1>2, <1>3, <1>4

(* One round of the loop of Without(). *)
Round(s, m, i, r) ==
    IF i = 0 THEN << >> ELSE IF s[i].market = m THEN r ELSE Append(r, s[i])

Rounds(s, m, n, g) == g = [i \in 0 .. n |-> Round(s, m, i, g[i - 1])]

(* The recursion of Without() has a solution for every number of rounds.   *)
LEMMA RoundsExist ==
  ASSUME NEW s, NEW m
  PROVE  \A n \in Nat : \E g : Rounds(s, m, n, g)
<1> DEFINE T == {n \in Nat : \E g : Rounds(s, m, n, g)}
<1>1. 0 \in T
  <2> DEFINE g == [i \in 0 .. 0 |-> << >>]
  <2>1. Rounds(s, m, 0, g)
    BY DEF Rounds, Round
  <2> QED
    BY <2>1
<1>2. ASSUME NEW n \in T PROVE n + 1 \in T
  <2>1. PICK g : Rounds(s, m, n, g)
    OBVIOUS
  <2> DEFINE h == [i \in 0 .. n + 1 |->
                     IF i = n + 1 THEN Round(s, m, i, g[n]) ELSE g[i]]
  <2>2. ASSUME NEW i \in 0 .. n + 1 PROVE h[i] = Round(s, m, i, h[i - 1])
    <3>1. CASE i = 0
      BY <2>1, <3>1 DEF Rounds, Round
    <3>2. CASE i \in 1 .. n
      <4>1. h[i - 1] = g[i - 1] /\ h[i] = g[i]
        BY <3>2
      <4> QED
        BY <2>1, <3>2, <4>1 DEF Rounds
    <3>3. CASE i = n + 1
      BY <3>3
    <3> QED
      BY <3>1, <3>2, <3>3
  <2>3. Rounds(s, m, n + 1, h)
    BY <2>2 DEF Rounds
  <2> HIDE DEF h
  <2> QED
    BY <2>3
<1> HIDE DEF T
<1>3. T = Nat
  BY <1>1, <1>2, SetInduction DEF T
<1> QED
  BY <1>3 DEF T

(* Without(s, m) is the last round of a solution of its recursion. *)
LEMMA WithoutUnfolds ==
  ASSUME NEW S, NEW s \in Seq(S), NEW m
  PROVE  \E g : Rounds(s, m, Len(s), g) /\ Without(s, m) = g[Len(s)]
<1> DEFINE g == CHOOSE h : Rounds(s, m, Len(s), h)
<1>1. Rounds(s, m, Len(s), g)
  <2>1. \E h : Rounds(s, m, Len(s), h)
    <3>1. Len(s) \in Nat
      OBVIOUS
    <3> QED
      BY <3>1, RoundsExist, Zenon
  <2> QED
    BY <2>1, Zenon
<1>2. Without(s, m) = g[Len(s)]
  BY Zenon DEF Without, Rounds, Round
<1> HIDE DEF g
<1> QED
  BY <1>1, <1>2

(* What the drain leaves is a sequence of contexts of the queue, no longer *)
(* than the queue was, none of them of the market m.                       *)
Filtered(r, s, m) ==
    \A i \in 1 .. Len(r) : r[i].market # m /\ \E j \in 1 .. Len(s) : r[i] = s[j]

(* Without() keeps a sequence's order and drops one market's contexts. *)
LEMMA WithoutFilters ==
  ASSUME NEW S, NEW s \in Seq(S), NEW m
  PROVE  /\ Without(s, m) \in Seq(S)
         /\ Len(Without(s, m)) <= Len(s)
         /\ Filtered(Without(s, m), s, m)
<1>1. PICK g : Rounds(s, m, Len(s), g) /\ Without(s, m) = g[Len(s)]
  BY WithoutUnfolds
<1> DEFINE T == {n \in Nat : n <= Len(s) =>
                   g[n] \in Seq(S) /\ Len(g[n]) <= n /\ Filtered(g[n], s, m)}
<1>2. 0 \in T
  <2>1. g[0] = << >>
    BY <1>1 DEF Rounds, Round
  <2>2. << >> \in Seq(S) /\ Len(<< >>) = 0
    OBVIOUS
  <2>3. Filtered(<< >>, s, m)
    BY <2>2 DEF Filtered
  <2>4. g[0] \in Seq(S) /\ Len(g[0]) <= 0 /\ Filtered(g[0], s, m)
    BY <2>1, <2>2, <2>3
  <2> QED
    BY <2>4
<1>3. ASSUME NEW n \in T PROVE n + 1 \in T
  <2>1. SUFFICES ASSUME n + 1 <= Len(s)
                 PROVE  /\ g[n + 1] \in Seq(S) /\ Len(g[n + 1]) <= n + 1
                        /\ Filtered(g[n + 1], s, m)
    OBVIOUS
  <2>2. n \in Nat /\ g[n] \in Seq(S) /\ Len(g[n]) <= n /\ Filtered(g[n], s, m)
    BY <2>1
  <2>3. g[n + 1] = IF s[n + 1].market = m THEN g[n] ELSE Append(g[n], s[n + 1])
    <3>1. n + 1 \in 0 .. Len(s) /\ n + 1 # 0 /\ (n + 1) - 1 = n
      BY <2>1, <2>2
    <3> QED
      BY <1>1, <3>1 DEF Rounds, Round
  <2>4. CASE s[n + 1].market = m
    BY <2>2, <2>3, <2>4
  <2>5. CASE s[n + 1].market # m
    <3> DEFINE r == g[n]
               c == s[n + 1]
    <3>1. c \in S /\ n + 1 \in 1 .. Len(s)
      BY <2>1, <2>2
    <3>2. r \in Seq(S) /\ Len(r) <= n /\ Filtered(r, s, m) /\ c.market # m
      BY <2>2, <2>5
    <3> HIDE DEF r
    <3>3. /\ Append(r, c) \in Seq(S) /\ Len(Append(r, c)) = Len(r) + 1
          /\ Append(r, c)[Len(r) + 1] = c
          /\ \A i \in 1 .. Len(r) : Append(r, c)[i] = r[i]
      BY <3>1, <3>2
    <3>4. Filtered(Append(r, c), s, m)
      BY <3>1, <3>2, <3>3 DEF Filtered
    <3>5. g[n + 1] = Append(r, c)
      BY <2>3, <2>5 DEF r
    <3> QED
      BY <2>2, <3>2, <3>3, <3>4, <3>5
  <2> QED
    BY <2>4, <2>5
<1> HIDE DEF T
<1>4. T = Nat
  BY <1>2, <1>3, SetInduction DEF T
<1> QED
  BY <1>1, <1>4 DEF T

-------------------------------------------------------------------------------
(* The queue.                                                              *)

(* A frame of the consumer is one of the three kinds, and says which.      *)
LEMMA ConsumerFrames ==
  ASSUME QueueTypeOK
  PROVE  /\ consumer.stage \in {"get", "wait", "work"}
         /\ consumer.stage = "work" => consumer.item \in Contexts
         /\ consumer.stage = "wait" <=> consumer = Suspended
         /\ consumer.stage = "get" <=> consumer = Getting
  BY DEF QueueTypeOK, Getting, Suspended, Working

(* A consumer that works on a context is not asleep. *)
LEMMA WorkingFrames ==
  ASSUME NEW c \in Contexts
  PROVE  /\ Working(c).stage = "work" /\ Working(c).item = c
         /\ Working(c) # Suspended
  BY DEF Working, Suspended

(* The event is set while contexts are queued, and nobody sleeps on them.  *)
WakeupPending ==
    /\ notEmpty = (deque # << >>)
    /\ consumer.stage = "wait" => deque = << >>

(* The queue's inductive invariant. *)
QueueInv == QueueTypeOK /\ Accounting /\ QuarantineHolds /\ WakeupPending

(* The queue starts accounted for. *)
LEMMA QueueInitial ==
  ASSUME QueueInit
  PROVE  QueueInv
<1>0. deque \in Seq(Contexts) /\ Len(deque) = 0 /\ deque = << >>
  BY EmptySeq DEF QueueInit
<1>1. QueueTypeOK
  <2>1. consumer \in {Getting, Suspended} \cup {Working(c) : c \in Contexts}
    BY DEF QueueInit
  <2>2. /\ notEmpty \in BOOLEAN /\ unfinished \in Nat /\ allDone \in BOOLEAN
        /\ quarantined \in SUBSET Markets /\ coalescing \in BOOLEAN
    BY DEF QueueInit
  <2>3. Len(deque) <= MaxSize
    BY <1>0, QueueAssumption
  <2> QED
    BY <1>0, <2>1, <2>2, <2>3 DEF QueueTypeOK
<1>2. Accounting /\ WakeupPending
  <2>1. consumer.stage = "get"
    BY DEF QueueInit, Getting
  <2>2. unfinished = 0 /\ allDone = TRUE /\ notEmpty = FALSE
    BY DEF QueueInit
  <2>3. unfinished = Len(deque) + (IF consumer.stage = "work" THEN 1 ELSE 0)
    BY <1>0, <2>1, <2>2
  <2>4. allDone = (unfinished = 0) /\ notEmpty = (deque # << >>)
    BY <1>0, <2>2, Zenon
  <2> QED
    BY <2>1, <2>3, <2>4 DEF Accounting, WakeupPending
<1>3. QuarantineHolds
  BY DEF QueueInit, QuarantineHolds
<1> QED
  BY <1>1, <1>2, <1>3 DEF QueueInv

(* A context is appended to a queue in which there is room for it. *)
LEMMA Appended ==
  ASSUME NEW s \in Seq(Contexts), NEW c \in Contexts
  PROVE  /\ Append(s, c) \in Seq(Contexts)
         /\ Len(Append(s, c)) = Len(s) + 1 /\ Len(s) \in Nat
         /\ Append(s, c) # << >>
         /\ \A i \in 1 .. Len(s) + 1 : Append(s, c)[i] = IF i = Len(s) + 1 THEN c ELSE s[i]
<1>1. /\ Append(s, c) \in Seq(Contexts)
      /\ Len(Append(s, c)) = Len(s) + 1 /\ Len(s) \in Nat
      /\ \A i \in 1 .. Len(s) : Append(s, c)[i] = s[i]
      /\ Append(s, c)[Len(s) + 1] = c
  OBVIOUS
<1>2. Len(<< >>) = 0
  OBVIOUS
<1> QED
  BY <1>1, <1>2

(* What the rest of a queue is that is not empty. *)
LEMMA Shortened ==
  ASSUME NEW s \in Seq(Contexts), s # << >>
  PROVE  /\ Tail(s) \in Seq(Contexts)
         /\ Len(Tail(s)) = Len(s) - 1 /\ Len(s) \in Nat /\ Len(s) >= 1
         /\ \A i \in 1 .. Len(s) - 1 : Tail(s)[i] = s[i + 1]
         /\ Head(s) \in Contexts /\ Head(s) = s[1]
         /\ Tail(s) # << >> <=> Len(s) > 1
<1>1. Len(s) \in Nat /\ Len(s) >= 1
  BY EmptySeq
<1>2. Tail(s) \in Seq(Contexts) /\ Len(Tail(s)) = Len(s) - 1
  BY <1>1, HeadTailProperties
<1>3. \A i \in 1 .. Len(s) - 1 : Tail(s)[i] = s[i + 1]
  BY <1>1, <1>2, HeadTailProperties
<1>4. Head(s) \in Contexts /\ Head(s) = s[1]
  BY <1>1
<1>5. Tail(s) # << >> <=> Len(s) > 1
  BY <1>1, <1>2, EmptySeq
<1> QED
  BY <1>1, <1>2, <1>3, <1>4, <1>5

(* The set of quarantined markets and the queue it is about. *)
NoneOf(ms, s) == \A i \in 1 .. Len(s) : s[i].market \notin ms

(* QuarantineHolds, said of the queue as a sequence. *)
LEMMA QuarantineMeans ==
  ASSUME deque \in Seq(Contexts)
  PROVE  QuarantineHolds <=> NoneOf(quarantined, deque)
  BY DEF QuarantineHolds, NoneOf, Of

(* The same after a step. *)
LEMMA QuarantineMeansNext ==
  ASSUME deque' \in Seq(Contexts)
  PROVE  QuarantineHolds' <=> NoneOf(quarantined', deque')
  BY DEF QuarantineHolds, NoneOf, Of

(* A notified consumer does not sleep; what it works on stays. *)
LEMMA Notified ==
  ASSUME QueueTypeOK, Notify
  PROVE  /\ notEmpty' = TRUE
         /\ consumer' \in {Getting, Suspended} \cup {Working(c) : c \in Contexts}
         /\ consumer'.stage # "wait"
         /\ consumer'.stage = "work" <=> consumer.stage = "work"
  BY DEF QueueTypeOK, Notify, Getting, Suspended, Working

(* put() into a queue that has room, and in the place of the oldest context. *)
LEMMA EnqueueKeeps ==
  ASSUME QueueInv, NEW c \in Contexts, c.market \notin quarantined,
         Enqueue(c), UNCHANGED <<coalescing, quarantined>>
  PROVE  QueueInv'
<1>1. deque \in Seq(Contexts) /\ Len(deque) < MaxSize /\ MaxSize \in Nat
  BY QueueAssumption DEF QueueInv, QueueTypeOK, Enqueue
<1>2. deque' = Append(deque, c) /\ unfinished' = unfinished + 1 /\ allDone' = FALSE
  BY DEF Enqueue
<1>3. /\ notEmpty' = TRUE /\ consumer'.stage # "wait"
      /\ consumer' \in {Getting, Suspended} \cup {Working(d) : d \in Contexts}
      /\ consumer'.stage = "work" <=> consumer.stage = "work"
  BY Notified DEF QueueInv, Enqueue
<1>4. /\ deque' \in Seq(Contexts) /\ Len(deque') = Len(deque) + 1 /\ deque' # << >>
      /\ \A i \in 1 .. Len(deque) + 1 : deque'[i] = IF i = Len(deque) + 1 THEN c ELSE deque[i]
  BY <1>1, <1>2, Appended
<1>5. QueueTypeOK'
  <2>1. Len(deque') <= MaxSize
    BY <1>1, <1>4
  <2>2. unfinished' \in Nat /\ quarantined' \in SUBSET Markets /\ coalescing' \in BOOLEAN
    BY <1>2 DEF QueueInv, QueueTypeOK
  <2>3. notEmpty' \in BOOLEAN /\ allDone' \in BOOLEAN
    BY <1>2, <1>3, Zenon
  <2> QED
    BY <1>3, <1>4, <2>1, <2>2, <2>3 DEF QueueTypeOK
<1>6. Accounting'
  <2>1. unfinished = Len(deque) + (IF consumer.stage = "work" THEN 1 ELSE 0)
    BY DEF QueueInv, Accounting
  <2>2. unfinished' = Len(deque') + (IF consumer'.stage = "work" THEN 1 ELSE 0)
    BY <1>1, <1>2, <1>3, <1>4, <2>1
  <2>3. unfinished' # 0
    BY <1>1, <1>2, <1>4, <2>1
  <2> QED
    BY <1>2, <2>2, <2>3 DEF Accounting
<1>7. QuarantineHolds'
  <2>1. NoneOf(quarantined, deque)
    BY <1>1, QuarantineMeans DEF QueueInv
  <2>2. NoneOf(quarantined', deque')
    BY <2>1, <1>1, <1>4 DEF NoneOf
  <2> QED
    BY <2>2, <1>4, QuarantineMeansNext
<1>8. WakeupPending'
  BY <1>3, <1>4 DEF WakeupPending
<1> QED
  BY <1>5, <1>6, <1>7, <1>8 DEF QueueInv

(* The oldest context gives way to the new one, and leaves the account. *)
LEMMA DropStaleKeeps ==
  ASSUME QueueInv, NEW c \in Contexts, c.market \notin quarantined,
         DropStale(c), UNCHANGED <<coalescing, quarantined>>
  PROVE  QueueInv'
<1>1. /\ deque \in Seq(Contexts) /\ Len(deque) = MaxSize /\ MaxSize \in Nat \ {0}
      /\ deque # << >> /\ unfinished \in Nat
  BY QueueAssumption, EmptySeq DEF QueueInv, QueueTypeOK, DropStale
<1>2. /\ deque' = Append(Tail(deque), c) /\ allDone' = FALSE
      /\ unfinished' = (IF unfinished > 0 THEN unfinished - 1 ELSE 0) + 1
  BY DEF DropStale
<1>3. /\ notEmpty' = TRUE /\ consumer'.stage # "wait"
      /\ consumer' \in {Getting, Suspended} \cup {Working(d) : d \in Contexts}
      /\ consumer'.stage = "work" <=> consumer.stage = "work"
  BY Notified DEF QueueInv, DropStale
<1>4. /\ Tail(deque) \in Seq(Contexts)
      /\ Len(Tail(deque)) = Len(deque) - 1 /\ Len(deque) \in Nat /\ Len(deque) >= 1
      /\ \A i \in 1 .. Len(deque) - 1 : Tail(deque)[i] = deque[i + 1]
  BY <1>1, Shortened
<1> DEFINE n == Len(deque)
<1>0. n \in Nat /\ n >= 1
  BY <1>4
<1>5. /\ deque' \in Seq(Contexts) /\ Len(deque') = Len(deque) /\ deque' # << >>
      /\ \A i \in 1 .. Len(deque) : deque'[i] = IF i = Len(deque) THEN c ELSE deque[i + 1]
  <2> DEFINE rest == Tail(deque)
  <2>1. rest \in Seq(Contexts) /\ deque' = Append(rest, c) /\ Len(rest) = Len(deque) - 1
    BY <1>2, <1>4
  <2>2. \A i \in 1 .. Len(deque) - 1 : rest[i] = deque[i + 1]
    BY <1>4
  <2> HIDE DEF rest
  <2>3. /\ deque' \in Seq(Contexts) /\ Len(deque') = Len(rest) + 1 /\ deque' # << >>
        /\ \A i \in 1 .. Len(rest) + 1 : deque'[i] = IF i = Len(rest) + 1 THEN c ELSE rest[i]
    BY <2>1, Appended
  <2>4. Len(deque') = Len(deque)
    <3>1. Len(rest) = n - 1 /\ Len(deque') = Len(rest) + 1
      BY <2>1, <2>3
    <3> HIDE DEF n
    <3>2. Len(deque') = n
      BY <1>0, <3>1
    <3> QED
      BY <3>2 DEF n
  <2>5. ASSUME NEW i \in 1 .. n
        PROVE  deque'[i] = IF i = Len(deque) THEN c ELSE deque[i + 1]
    <3>1. i \in 1 .. Len(rest) + 1 /\ Len(rest) + 1 = Len(deque)
      BY <1>4, <2>1
    <3>2. deque'[i] = IF i = Len(deque) THEN c ELSE rest[i]
      BY <2>3, <3>1
    <3>3. i # n => i \in 1 .. n - 1
      <4> HIDE DEF n
      <4> QED
        BY <1>0, <3>1
    <3> QED
      BY <2>2, <3>2, <3>3
  <2> QED
    BY <2>3, <2>4, <2>5
<1>6. unfinished = Len(deque) + (IF consumer.stage = "work" THEN 1 ELSE 0)
  BY DEF QueueInv, Accounting
<1>7. unfinished' = unfinished /\ unfinished > 0
  BY <1>1, <1>2, <1>4, <1>6
<1>8. QueueTypeOK'
  <2>1. Len(deque') <= MaxSize
    BY <1>1, <1>5
  <2>2. unfinished' \in Nat /\ quarantined' \in SUBSET Markets /\ coalescing' \in BOOLEAN
    BY <1>7 DEF QueueInv, QueueTypeOK
  <2>3. notEmpty' \in BOOLEAN /\ allDone' \in BOOLEAN
    BY <1>2, <1>3, Zenon
  <2> QED
    BY <1>3, <1>5, <2>1, <2>2, <2>3 DEF QueueTypeOK
<1>9. Accounting'
  <2>1. unfinished' = Len(deque') + (IF consumer'.stage = "work" THEN 1 ELSE 0)
    BY <1>3, <1>5, <1>6, <1>7
  <2>2. unfinished' # 0
    BY <1>1, <1>7
  <2> QED
    BY <1>2, <2>1, <2>2 DEF Accounting
<1>10. QuarantineHolds'
  <2>1. NoneOf(quarantined, deque)
    BY <1>1, QuarantineMeans DEF QueueInv
  <2>2. ASSUME NEW i \in 1 .. Len(deque') PROVE deque'[i].market \notin quarantined'
    <3>1. CASE i = n
      BY <1>4, <1>5, <3>1
    <3>2. CASE i # n
      <4>1. i \in 1 .. n /\ deque'[i] = deque[i + 1]
        BY <1>5, <3>2
      <4>2. i + 1 \in 1 .. n
        <5> HIDE DEF n
        <5> QED
          BY <1>0, <3>2, <4>1
      <4>3. deque[i + 1].market \notin quarantined
        BY <2>1, <4>2 DEF NoneOf
      <4> QED
        BY <4>1, <4>3
    <3> QED
      BY <3>1, <3>2
  <2>3. NoneOf(quarantined', deque')
    BY <2>2 DEF NoneOf
  <2> QED
    BY <2>3, <1>5, QuarantineMeansNext
<1>11. WakeupPending'
  BY <1>3, <1>5 DEF WakeupPending
<1> QED
  BY <1>8, <1>9, <1>10, <1>11 DEF QueueInv

(* Coalescing overwrites a context that is in the queue. *)
LEMMA CoalesceKeeps ==
  ASSUME QueueInv, NEW c \in Contexts, c.market \notin quarantined,
         Coalesce(c), UNCHANGED <<coalescing, quarantined>>
  PROVE  QueueInv'
<1> DEFINE first == CHOOSE i \in Of(c.market) : \A j \in Of(c.market) : i <= j
<1>1. /\ deque \in Seq(Contexts) /\ Len(deque) \in Nat
      /\ Of(c.market) # {} /\ Of(c.market) \subseteq 1 .. Len(deque)
  BY DEF QueueInv, QueueTypeOK, Coalesce, Of
<1>2. first \in 1 .. Len(deque)
  <2>1. \E i \in Of(c.market) : \A j \in Of(c.market) : i <= j
    BY <1>1, LeastNatural
  <2> QED
    BY <2>1, <1>1
<1>3. deque' = [deque EXCEPT ![first] = c]
  BY DEF Coalesce
<1> HIDE DEF first
<1>4. /\ deque' \in Seq(Contexts) /\ Len(deque') = Len(deque)
      /\ \A i \in 1 .. Len(deque) : deque'[i] = IF i = first THEN c ELSE deque[i]
  BY <1>1, <1>2, <1>3, ExceptSeq
<1>5. UNCHANGED <<coalescing, unfinished, allDone, notEmpty, consumer, quarantined>>
  BY DEF Coalesce
<1>6. QueueTypeOK'
  BY <1>4, <1>5 DEF QueueInv, QueueTypeOK
<1>7. Accounting'
  BY <1>4, <1>5 DEF QueueInv, Accounting
<1>8. QuarantineHolds'
  <2>1. NoneOf(quarantined, deque)
    BY <1>1, QuarantineMeans DEF QueueInv
  <2>2. ASSUME NEW i \in 1 .. Len(deque') PROVE deque'[i].market \notin quarantined'
    <3>1. CASE i = first
      BY <1>2, <1>4, <1>5, <3>1
    <3>2. CASE i # first
      BY <2>1, <1>4, <1>5, <3>2 DEF NoneOf
    <3> QED
      BY <3>1, <3>2
  <2>3. NoneOf(quarantined', deque')
    BY <2>2 DEF NoneOf
  <2> QED
    BY <2>3, <1>4, QuarantineMeansNext
<1>9. WakeupPending'
  <2>1. deque # << >> /\ deque' # << >>
    BY <1>1, <1>2, <1>4, EmptySeq
  <2> QED
    BY <1>5, <2>1 DEF QueueInv, WakeupPending
<1> QED
  BY <1>6, <1>7, <1>8, <1>9 DEF QueueInv

(* Steps that leave the queue alone keep its invariant. *)
LEMMA QueueUnchanged ==
  ASSUME QueueInv, UNCHANGED queueVars
  PROVE  QueueInv'
<1>1. QueueTypeOK' /\ Accounting' /\ WakeupPending'
  BY DEF QueueInv, QueueTypeOK, Accounting, WakeupPending, queueVars
<1>2. QuarantineHolds'
  BY DEF QueueInv, QuarantineHolds, Of, queueVars
<1> QED
  BY <1>1, <1>2 DEF QueueInv

(* put(), under each overflow policy, keeps the queue's invariant. *)
LEMMA PutKeeps ==
  ASSUME QueueInv, NEW c \in Contexts, Put(c)
  PROVE  QueueInv'
<1>1. CASE c.market \in quarantined
  <2>1. UNCHANGED queueVars
    BY <1>1 DEF Put, queueVars
  <2> QED
    BY <2>1, QueueUnchanged
<1>2. CASE c.market \notin quarantined
  <2>1. (Enqueue(c) \/ Coalesce(c) \/ DropStale(c)) /\ UNCHANGED <<coalescing, quarantined>>
    BY <1>2 DEF Put
  <2> QED
    BY <1>2, <2>1, EnqueueKeeps, CoalesceKeeps, DropStaleKeeps
<1> QED
  BY <1>1, <1>2

(* get() takes the oldest context, or goes to sleep on an empty queue. *)
LEMMA GetKeeps ==
  ASSUME QueueInv, Get
  PROVE  QueueInv'
<1> DEFINE n == Len(deque)
<1>1. deque \in Seq(Contexts) /\ n \in Nat /\ n <= MaxSize /\ MaxSize \in Nat
  BY QueueAssumption DEF QueueInv, QueueTypeOK
<1>2. consumer.stage = "get" /\ UNCHANGED <<coalescing, unfinished, allDone, quarantined>>
  BY DEF Get, Getting
<1>3. unfinished = n /\ allDone = (unfinished = 0)
  BY <1>1, <1>2 DEF QueueInv, Accounting
<1>4. CASE deque # << >>
  <2>1. /\ Tail(deque) \in Seq(Contexts) /\ Len(Tail(deque)) = n - 1 /\ n >= 1
        /\ \A i \in 1 .. n - 1 : Tail(deque)[i] = deque[i + 1]
        /\ Head(deque) \in Contexts
    BY <1>1, <1>4, Shortened
  <2>2. /\ deque' = Tail(deque) /\ consumer' = Working(Head(deque))
        /\ notEmpty' = (notEmpty /\ Tail(deque) # << >>)
    BY <1>4 DEF Get
  <2>3. deque' \in Seq(Contexts) /\ Len(deque') = n - 1 /\ n >= 1
    BY <2>1, <2>2
  <2>4. consumer'.stage = "work"
    BY <2>1, <2>2, WorkingFrames
  <2>5. QueueTypeOK'
    <3>1. Len(deque') <= MaxSize
      <4> HIDE DEF n
      <4> QED
        BY <1>1, <2>3
    <3>2. consumer' \in {Getting, Suspended} \cup {Working(c) : c \in Contexts}
      BY <2>1, <2>2
    <3>3. notEmpty' \in BOOLEAN
      BY <2>2, Zenon DEF QueueInv, QueueTypeOK
    <3> QED
      BY <1>2, <2>3, <3>1, <3>2, <3>3 DEF QueueInv, QueueTypeOK
  <2>6. Accounting'
    <3>1. unfinished' = Len(deque') + 1
      <4> HIDE DEF n
      <4> QED
        BY <1>1, <1>2, <1>3, <2>3
    <3>2. allDone' = (unfinished' = 0)
      BY <1>2, <1>3
    <3> QED
      BY <2>4, <3>1, <3>2 DEF Accounting
  <2>7. QuarantineHolds'
    <3>1. NoneOf(quarantined, deque)
      BY <1>1, QuarantineMeans DEF QueueInv
    <3>2. ASSUME NEW i \in 1 .. Len(deque') PROVE deque'[i].market \notin quarantined'
      <4>1. i \in 1 .. n - 1 /\ deque'[i] = deque[i + 1]
        BY <2>1, <2>2
      <4>2. i + 1 \in 1 .. n
        <5> HIDE DEF n
        <5> QED
          BY <1>1, <4>1
      <4> QED
        BY <1>2, <3>1, <4>1, <4>2 DEF NoneOf
    <3>3. NoneOf(quarantined', deque')
      BY <3>2 DEF NoneOf
    <3> QED
      BY <2>3, <3>3, QuarantineMeansNext
  <2>8. WakeupPending'
    <3>1. notEmpty = TRUE
      BY <1>4, Zenon DEF QueueInv, WakeupPending
    <3>2. notEmpty' = (deque' # << >>)
      BY <2>2, <3>1, Zenon
    <3> QED
      BY <2>4, <3>2 DEF WakeupPending
  <2> QED
    BY <2>5, <2>6, <2>7, <2>8 DEF QueueInv
<1>5. CASE deque = << >>
  <2>1. deque' = deque /\ notEmpty' = FALSE /\ consumer' = Suspended
    BY <1>5 DEF Get
  <2>2. consumer'.stage = "wait"
    BY <2>1 DEF Suspended
  <2>3. QueueTypeOK'
    BY <1>2, <2>1 DEF QueueInv, QueueTypeOK
  <2>4. Accounting'
    BY <1>2, <1>3, <2>1, <2>2 DEF Accounting, QueueInv, QueueTypeOK
  <2>5. QuarantineHolds'
    BY <1>2, <2>1 DEF QueueInv, QuarantineHolds, Of
  <2>6. WakeupPending'
    <3>1. notEmpty' = (deque' # << >>)
      BY <1>5, <2>1, Zenon
    <3> QED
      BY <1>5, <2>1, <3>1 DEF WakeupPending
  <2> QED
    BY <2>3, <2>4, <2>5, <2>6 DEF QueueInv
<1> QED
  BY <1>4, <1>5

(* The drain of a quarantined market takes off the account what it takes   *)
(* out of the queue, and the evaluation that caused it stays on it.        *)
LEMMA QuarantineKeeps ==
  ASSUME QueueInv, Quarantine
  PROVE  QueueInv'
<1> DEFINE m        == consumer.item.market
           retained == Without(deque, m)
           n        == Len(deque)
           k        == Len(retained)
<1>1. deque \in Seq(Contexts) /\ n \in Nat /\ n <= MaxSize /\ MaxSize \in Nat
  BY QueueAssumption DEF QueueInv, QueueTypeOK
<1>2. consumer.stage = "work" /\ UNCHANGED <<coalescing, consumer>>
  BY DEF Quarantine
<1>3. m \in Markets
  BY <1>2, ConsumerFrames DEF QueueInv, Contexts
<1>4. retained \in Seq(Contexts) /\ k <= n /\ Filtered(retained, deque, m) /\ k \in Nat
  BY <1>1, WithoutFilters
<1>5. unfinished = n + 1 /\ allDone = (unfinished = 0) /\ unfinished \in Nat
  BY <1>2 DEF QueueInv, QueueTypeOK, Accounting
<1>6. deque' = retained /\ quarantined' \in {quarantined, quarantined \cup {m}}
  BY DEF Quarantine
<1>7. IF n - k = 0
        THEN UNCHANGED <<unfinished, allDone, notEmpty>>
        ELSE /\ unfinished' = IF unfinished > n - k THEN unfinished - (n - k) ELSE 0
             /\ notEmpty' = (retained # << >>)
             /\ allDone' = (allDone \/ unfinished' = 0)
  BY DEF Quarantine
<1> HIDE DEF n, k, retained, m
<1>8. /\ unfinished' = k + 1
      /\ allDone' = (unfinished' = 0)
  <2>1. CASE n - k = 0
    <3>1. unfinished' = unfinished /\ allDone' = allDone /\ n = k
      BY <1>1, <1>4, <1>7, <2>1
    <3> QED
      BY <1>5, <3>1
  <2>2. CASE n - k # 0
    <3>1. /\ unfinished' = IF unfinished > n - k THEN unfinished - (n - k) ELSE 0
          /\ allDone' = (allDone \/ unfinished' = 0)
      BY <1>7, <2>2
    <3>2. unfinished' = k + 1 /\ unfinished # 0
      BY <1>1, <1>4, <1>5, <3>1
    <3>3. allDone = FALSE
      BY <1>5, <3>2
    <3> QED
      BY <3>1, <3>2, <3>3
  <2> QED
    BY <2>1, <2>2
<1>9. Len(deque') = k /\ deque' \in Seq(Contexts)
  BY <1>4, <1>6 DEF k
<1>10. notEmpty' = (deque' # << >>)
  <2>1. CASE n - k = 0
    <3>1. notEmpty' = notEmpty /\ notEmpty = (deque # << >>) /\ n = k
      BY <1>1, <1>4, <1>7, <2>1 DEF QueueInv, WakeupPending
    <3>2. deque = << >> <=> deque' = << >>
      <4>1. deque = << >> <=> n = 0
        BY <1>1, EmptySeq DEF n
      <4>2. deque' = << >> <=> k = 0
        BY <1>9, EmptySeq
      <4> QED
        BY <3>1, <4>1, <4>2
    <3> QED
      BY <3>1, <3>2
  <2>2. CASE n - k # 0
    BY <1>6, <1>7, <2>2
  <2> QED
    BY <2>1, <2>2
<1>11. QueueTypeOK'
  <2>1. Len(deque') <= MaxSize
    BY <1>1, <1>4, <1>9
  <2>2. quarantined' \in SUBSET Markets
    BY <1>3, <1>6 DEF QueueInv, QueueTypeOK
  <2>3. unfinished' \in Nat
    BY <1>4, <1>8
  <2>4. notEmpty' \in BOOLEAN /\ allDone' \in BOOLEAN
    BY <1>8, <1>10, Zenon
  <2> QED
    BY <1>2, <1>9, <2>1, <2>2, <2>3, <2>4 DEF QueueInv, QueueTypeOK
<1>12. Accounting'
  BY <1>2, <1>8, <1>9 DEF Accounting
<1>13. QuarantineHolds'
  <2>1. NoneOf(quarantined, deque)
    BY <1>1, QuarantineMeans DEF QueueInv
  <2>2. ASSUME NEW i \in 1 .. Len(deque') PROVE deque'[i].market \notin quarantined'
    <3>1. PICK j \in 1 .. Len(deque) : deque'[i] = deque[j] /\ deque'[i].market # m
      BY <1>4, <1>6 DEF Filtered
    <3>2. deque[j].market \notin quarantined
      BY <2>1, <3>1 DEF NoneOf
    <3> QED
      BY <1>6, <3>1, <3>2
  <2>3. NoneOf(quarantined', deque')
    BY <2>2 DEF NoneOf
  <2> QED
    BY <1>9, <2>3, QuarantineMeansNext
<1>14. WakeupPending'
  BY <1>2, <1>10 DEF WakeupPending
<1> QED
  BY <1>11, <1>12, <1>13, <1>14 DEF QueueInv

(* task_done() takes from the account what the consumer held. *)
LEMMA TaskDoneKeeps ==
  ASSUME QueueInv, TaskDone
  PROVE  QueueInv'
<1> DEFINE n == Len(deque)
<1>1. /\ consumer.stage = "work" /\ consumer' = Getting
      /\ UNCHANGED <<coalescing, deque, notEmpty, quarantined>>
      /\ unfinished' = IF unfinished > 0 THEN unfinished - 1 ELSE 0
      /\ allDone' = (allDone \/ unfinished' = 0)
  BY DEF TaskDone
<1>2. n \in Nat /\ unfinished = n + 1 /\ allDone = (unfinished = 0)
  BY <1>1 DEF QueueInv, QueueTypeOK, Accounting
<1>3. consumer'.stage = "get"
  BY <1>1 DEF Getting
<1> HIDE DEF n
<1>4. unfinished' = n /\ unfinished # 0
  BY <1>1, <1>2
<1>5. allDone' = (unfinished' = 0)
  <2>1. allDone = FALSE
    BY <1>2, <1>4
  <2> QED
    BY <1>1, <2>1
<1>6. QueueTypeOK'
  <2>1. unfinished' \in Nat
    BY <1>2, <1>4
  <2>2. allDone' \in BOOLEAN
    BY <1>5
  <2> QED
    BY <1>1, <2>1, <2>2 DEF QueueInv, QueueTypeOK
<1>7. Accounting'
  BY <1>1, <1>2, <1>3, <1>4, <1>5 DEF Accounting, n
<1>8. QuarantineHolds'
  BY <1>1 DEF QueueInv, QuarantineHolds, Of
<1>9. WakeupPending'
  BY <1>1, <1>3 DEF QueueInv, WakeupPending
<1> QED
  BY <1>6, <1>7, <1>8, <1>9 DEF QueueInv

(* A quarantine that ends keeps the queue's invariant. *)
LEMMA ExpireKeeps ==
  ASSUME QueueInv, NEW m \in Markets, Expire(m)
  PROVE  QueueInv'
<1>1. /\ quarantined' = quarantined \ {m}
      /\ UNCHANGED <<coalescing, deque, notEmpty, unfinished, allDone, consumer>>
  BY DEF Expire
<1>2. QueueTypeOK' /\ Accounting' /\ WakeupPending'
  BY <1>1 DEF QueueInv, QueueTypeOK, Accounting, WakeupPending
<1>3. QuarantineHolds'
  BY <1>1 DEF QueueInv, QuarantineHolds, Of
<1> QED
  BY <1>2, <1>3 DEF QueueInv

-------------------------------------------------------------------------------
(* The aggregator.                                                         *)

PipelineTypeOK ==
    /\ backlog \in SUBSET Markets
    /\ active \in SUBSET Markets
    /\ primary \in Markets
    /\ quote \in [Markets -> Quotes \cup {NoQuote}]
    /\ last \in [Markets -> [quote : Quotes \cup {NoQuote}, age : 0 .. Long]]
    /\ known \in SUBSET Markets

Inv == QueueInv /\ PipelineTypeOK

(* The aggregator and its queue start in order. *)
LEMMA Initial ==
  ASSUME Init
  PROVE  Inv
<1>1. QueueInv
  BY QueueInitial DEF Init
<1>2. PipelineTypeOK
  BY PipelineAssumption DEF Init, PipelineTypeOK
<1> QED
  BY <1>1, <1>2 DEF Inv

(* An emission is a context of its market, and its record is well formed.  *)
LEMMA EmitKeeps ==
  ASSUME Inv, NEW m \in Markets, NEW q \in Quotes, Emit(m, q)
  PROVE  /\ QueueInv'
         /\ last' \in [Markets -> [quote : Quotes \cup {NoQuote}, age : 0 .. Long]]
         /\ known' \in SUBSET Markets
<1>1. CASE Suppressed(m, q)
  <2>1. UNCHANGED <<last, known, queueVars>>
    BY <1>1 DEF Emit
  <2> QED
    BY <2>1, QueueUnchanged DEF Inv, PipelineTypeOK
<1>2. CASE ~Suppressed(m, q)
  <2>1. /\ last' = [last EXCEPT ![m] = [quote |-> q, age |-> 0]]
        /\ known' = known \cup {m}
        /\ Put([market |-> m, quote |-> q])
    BY <1>2 DEF Emit
  <2>2. [market |-> m, quote |-> q] \in Contexts
    BY DEF Contexts
  <2>3. QueueInv'
    BY <2>1, <2>2, PutKeeps DEF Inv
  <2>4. [quote |-> q, age |-> 0] \in [quote : Quotes \cup {NoQuote}, age : 0 .. Long]
    BY PipelineAssumption
  <2> QED
    BY <2>1, <2>3, <2>4 DEF Inv, PipelineTypeOK
<1> QED
  BY <1>1, <1>2

(* Both loops of the aggregator and activation keep the invariant. *)
LEMMA ProduceKeeps ==
  ASSUME Inv, Produce
  PROVE  Inv'
<1> USE DEF Inv
<1>1. ASSUME NEW m \in Markets, Snapshot(m) PROVE Inv'
  <2>1. QueueInv'
    BY <1>1, QueueUnchanged DEF Snapshot
  <2>2. PipelineTypeOK'
    BY <1>1 DEF Snapshot, PipelineTypeOK
  <2> QED
    BY <2>1, <2>2
<1>2. ASSUME NEW m \in Markets, Timer(m) PROVE Inv'
  <2>1. quote[m] \in Quotes
    BY <1>2 DEF Timer, PipelineTypeOK
  <2>2. /\ QueueInv'
        /\ last' \in [Markets -> [quote : Quotes \cup {NoQuote}, age : 0 .. Long]]
        /\ known' \in SUBSET Markets
    BY <1>2, <2>1, EmitKeeps DEF Timer
  <2> QED
    BY <1>2, <2>2 DEF Timer, PipelineTypeOK
<1>3. ASSUME NEW m \in Markets, NEW q \in Quotes, Message(m, q) PROVE Inv'
  <2>1. /\ QueueInv'
        /\ last' \in [Markets -> [quote : Quotes \cup {NoQuote}, age : 0 .. Long]]
        /\ known' \in SUBSET Markets
    <3>1. CASE Emit(m, q)
      BY <3>1, EmitKeeps
    <3>2. CASE UNCHANGED <<last, known, queueVars>>
      BY <3>2, QueueUnchanged DEF PipelineTypeOK
    <3> QED
      BY <1>3, <3>1, <3>2 DEF Message
  <2>2. quote' \in [Markets -> Quotes \cup {NoQuote}]
    BY <1>3 DEF Message, PipelineTypeOK
  <2>3. backlog' \in SUBSET Markets /\ UNCHANGED <<active, primary>>
    BY <1>3 DEF Message, PipelineTypeOK
  <2> QED
    BY <2>1, <2>2, <2>3 DEF PipelineTypeOK
<1>4. ASSUME NEW markets \in SUBSET Markets, Activate(markets) PROVE Inv'
  <2>1. QueueInv'
    BY <1>4, QueueUnchanged DEF Activate
  <2>2. PipelineTypeOK'
    BY <1>4 DEF Activate, Cleared, PipelineTypeOK
  <2> QED
    BY <2>1, <2>2
<1>5. CASE Deactivate
  <2>1. QueueInv'
    BY <1>5, QueueUnchanged DEF Deactivate
  <2>2. PipelineTypeOK'
    BY <1>5 DEF Deactivate, Cleared, PipelineTypeOK
  <2> QED
    BY <2>1, <2>2
<1>6. CASE Tick
  <2>1. QueueInv'
    BY <1>6, QueueUnchanged DEF Tick
  <2>2. ASSUME NEW m \in Markets
        PROVE  [last[m] EXCEPT !.age = IF @ < Long THEN @ + 1 ELSE Long]
                 \in [quote : Quotes \cup {NoQuote}, age : 0 .. Long]
    <3>1. /\ last[m] \in [quote : Quotes \cup {NoQuote}, age : 0 .. Long]
          /\ Long \in Nat
      BY PipelineAssumption DEF PipelineTypeOK
    <3>2. (IF last[m].age < Long THEN last[m].age + 1 ELSE Long) \in 0 .. Long
      BY <3>1
    <3> QED
      BY <3>1, <3>2
  <2>3. last' \in [Markets -> [quote : Quotes \cup {NoQuote}, age : 0 .. Long]]
    BY <1>6, <2>2 DEF Tick
  <2>4. PipelineTypeOK'
    BY <1>6, <2>3 DEF Tick, PipelineTypeOK
  <2> QED
    BY <2>1, <2>4
<1> QED
  BY <1>1, <1>2, <1>3, <1>4, <1>5, <1>6 DEF Produce

(* And so does the consumer. *)
LEMMA ConsumeKeeps ==
  ASSUME Inv, Consume
  PROVE  Inv'
<1>1. QueueInv'
  BY GetKeeps, QuarantineKeeps, TaskDoneKeeps, ExpireKeeps DEF Inv, Consume
<1>2. PipelineTypeOK'
  BY DEF Inv, PipelineTypeOK, Consume, pipelineVars
<1> QED
  BY <1>1, <1>2 DEF Inv

(* The queue's account, its quarantines and its event hold together, and    *)
(* with them the types of the aggregator that feeds it.                     *)
THEOREM Invariance == Spec => []Inv
<1>1. Init => Inv
  BY Initial
<1>2. Inv /\ [Next]_vars => Inv'
  <2> SUFFICES ASSUME Inv, [Next]_vars PROVE Inv'
    OBVIOUS
  <2>1. CASE Produce
    BY <2>1, ProduceKeeps
  <2>2. CASE Consume
    BY <2>2, ConsumeKeeps
  <2>3. CASE UNCHANGED vars
    <3>1. QueueInv'
      BY <2>3, QueueUnchanged DEF Inv, vars
    <3>2. PipelineTypeOK'
      BY <2>3 DEF Inv, PipelineTypeOK, vars, pipelineVars
    <3> QED
      BY <3>1, <3>2 DEF Inv
  <2> QED
    BY <2>1, <2>2, <2>3 DEF Next
<1> QED
  BY <1>1, <1>2, PTL DEF Spec

(* The state stays well typed: the queue is never longer than its bound,   *)
(* and a context never carries the quote of a cleared market.              *)
THEOREM TypeCorrect == Spec => []TypeOK
<1>1. Inv => TypeOK
  BY DEF Inv, QueueInv, PipelineTypeOK, TypeOK
<1> QED
  BY <1>1, Invariance, PTL

(* _unfinished_tasks is what is queued and what is evaluated, and join()   *)
(* is released exactly when that is nothing, for every size of the queue,  *)
(* every number of markets and either policy.                              *)
THEOREM Accounted == Spec => []Accounting
<1>1. Inv => Accounting
  BY DEF Inv, QueueInv
<1> QED
  BY <1>1, Invariance, PTL

(* No context of a quarantined market is in the queue.                     *)
THEOREM Quarantined == Spec => []QuarantineHolds
<1>1. Inv => QuarantineHolds
  BY DEF Inv, QueueInv
<1> QED
  BY <1>1, Invariance, PTL

(* The notification-clear race (STATE.md) is closed: the event is set      *)
(* exactly while contexts are queued, and the consumer never sleeps on     *)
(* one.  The rest of ConsumerServed is fairness.                           *)
THEOREM NoWakeupLost == Spec => []WakeupPending
<1>1. Inv => WakeupPending
  BY DEF Inv, QueueInv
<1> QED
  BY <1>1, Invariance, PTL
===============================================================================
