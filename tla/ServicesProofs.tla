---------------------------- MODULE ServicesProofs ----------------------------
(***************************************************************************)
(* Proofs about two services that the agents rely on: the operational      *)
(* event bus, and the market data connection with the discovery that feeds *)
(* it.  The two modules have no variable in common and nothing here        *)
(* relates them.                                                           *)
(***************************************************************************)
EXTENDS EventBus, MarketData, FiniteSetTheorems, SequenceTheorems, NaturalsInduction,
        WellFoundedInduction, TLAPS

(* The event bus, for any capacity, batch size, policies and number of     *)
(* events.                                                                  *)

(* A set of positions has a first one. *)
LEMMA FirstIn ==
    ASSUME NEW I \in SUBSET Nat, I # {}
    PROVE  First(I) \in I /\ \A j \in I : First(I) <= j
<1>1. \E i \in I : \A j \in I : i <= j
  <2>1. PICK i \in I : \A j \in I : ~(<<j, i>> \in OpToRel(<, Nat))
    BY NatLessThanWellFounded, WFMin
  <2>2. ASSUME NEW j \in I PROVE i <= j
    <3>1. ~(j < i)  BY <2>1 DEF OpToRel
    <3> QED  BY <3>1
  <2> QED  BY <2>2
<1> QED  BY <1>1 DEF First

(* One element of a sequence taken out. *)
LEMMA RemoveAtTyped ==
    ASSUME NEW S, NEW s \in Seq(S), NEW i \in 1 .. Len(s)
    PROVE  /\ RemoveAt(s, i) \in Seq(S)
           /\ Len(RemoveAt(s, i)) = Len(s) - 1
           /\ \A j \in 1 .. Len(s) - 1 :
                 RemoveAt(s, i)[j] = IF j < i THEN s[j] ELSE s[j + 1]
<1> DEFINE front == SubSeq(s, 1, i - 1)
           back == SubSeq(s, i + 1, Len(s))
<1>1. front \in Seq(S) /\ Len(front) = i - 1 /\ \A j \in 1 .. i - 1 : front[j] = s[j]
  OBVIOUS
<1>2. /\ back \in Seq(S) /\ Len(back) = Len(s) - i
      /\ \A j \in 1 .. Len(s) - i : back[j] = s[i + j]
  OBVIOUS
<1>3. RemoveAt(s, i) = front \o back  BY DEF RemoveAt
<1> HIDE DEF front, back
<1>4. front \o back \in Seq(S)  BY <1>1, <1>2
<1>5. Len(front \o back) = Len(s) - 1
  <2>1. ASSUME NEW f \in Seq(S), NEW b \in Seq(S) PROVE Len(f \o b) = Len(f) + Len(b)
    OBVIOUS
  <2>2. (i - 1) + (Len(s) - i) = Len(s) - 1  OBVIOUS
  <2> QED  BY <1>1, <1>2, <2>1, <2>2
<1>6. ASSUME NEW j \in 1 .. Len(s) - 1
      PROVE  (front \o back)[j] = IF j < i THEN s[j] ELSE s[j + 1]
  <2>1. CASE j < i  BY <1>1, <1>2, <2>1
  <2>2. CASE ~(j < i)
    <3>1. (front \o back)[j] = back[j - (i - 1)]  BY <1>1, <1>2, <2>2
    <3>2. j - (i - 1) \in 1 .. Len(s) - i /\ i + (j - (i - 1)) = j + 1  BY <2>2
    <3> QED  BY <1>2, <2>2, <3>1, <3>2
  <2> QED  BY <2>1, <2>2
<1> QED  BY <1>3, <1>4, <1>5, <1>6

(* How many diagnostic events a batch has. *)
LEMMA InfoCounted ==
    ASSUME NEW s \in Seq(Events)
    PROVE  Cardinality(InfoIn(s)) \in Nat
<1>1. IsFiniteSet(1 .. Len(s))  BY FS_Interval
<1>2. InfoIn(s) \subseteq 1 .. Len(s)  BY DEF InfoIn
<1> QED  BY <1>1, <1>2, FS_Subset, FS_CardinalityType

-------------------------------------------------------------------------------
(* The ways into a full queue, and the way in that is free, keep its type. *)
LEMMA EnqueueTyped ==
    ASSUME TypeOK, NEW e \in Events, Enqueue(e)
    PROVE  queue' \in Seq(Events) /\ Len(queue') <= Capacity /\ diagnostics' \in Int
<1>1. /\ queue \in Seq(Events) /\ Len(queue) < Capacity
      /\ queue' = Append(queue, e)
  BY ConstantsAssumption DEF TypeOK, Enqueue, Full
<1>2. queue' \in Seq(Events) /\ Len(queue') = Len(queue) + 1  BY <1>1
<1>3. diagnostics' \in Int  BY DEF TypeOK, Enqueue, One
<1> QED  BY <1>1, <1>2, <1>3, ConstantsAssumption

(* Another gives way: as many are queued as before. *)
LEMMA ReplacedTyped ==
    ASSUME TypeOK, NEW e \in Events, NEW i \in DOMAIN queue,
           queue' = Append(RemoveAt(queue, i), e)
    PROVE  queue' \in Seq(Events) /\ Len(queue') = Len(queue)
<1>1. queue \in Seq(Events) /\ i \in 1 .. Len(queue)  BY DEF TypeOK
<1>2. RemoveAt(queue, i) \in Seq(Events) /\ Len(RemoveAt(queue, i)) = Len(queue) - 1
  BY <1>1, RemoveAtTyped
<1>3. queue' \in Seq(Events) /\ Len(queue') = Len(queue) - 1 + 1  BY <1>2
<1> QED  BY <1>1, <1>3

(* Which event gives way. *)
LEMMA FirstQueued ==
    ASSUME TypeOK
    PROVE  /\ InfoIn(queue) # {} => /\ First(InfoIn(queue)) \in DOMAIN queue
                                    /\ IsInfo(queue[First(InfoIn(queue))])
           /\ EvictableIn(queue) # {} => /\ First(EvictableIn(queue)) \in DOMAIN queue
                                         /\ ~IsCritical(queue[First(EvictableIn(queue))])
<1>1. DOMAIN queue \subseteq Nat  BY DEF TypeOK
<1>2. InfoIn(queue) \in SUBSET Nat /\ EvictableIn(queue) \in SUBSET Nat
  BY <1>1 DEF InfoIn, EvictableIn
<1>3. InfoIn(queue) # {} => First(InfoIn(queue)) \in InfoIn(queue)  BY <1>2, FirstIn
<1>4. EvictableIn(queue) # {} => First(EvictableIn(queue)) \in EvictableIn(queue)
  BY <1>2, FirstIn
<1> QED  BY <1>3, <1>4 DEF InfoIn, EvictableIn
(* An event that ended stays one. *)
LEMMA EndAsTyped ==
    ASSUME TypeOK, NEW f \in Fates, NEW X \in SUBSET Events, EndAs(f, X)
    PROVE  fate' \in [Fates -> SUBSET Events]
BY DEF TypeOK, EndAs

(* publish() keeps the types. *)
LEMMA PublishTyped ==
    ASSUME TypeOK, NEW s \in Severities, Publish(s)
    PROVE  TypeOK'
<1> DEFINE e == [id |-> published + 1, severity |-> s]
<1>1. e \in Events /\ published' \in 0 .. MaxPublishes
  BY ConstantsAssumption DEF TypeOK, Publish, Events
<1>2. UNCHANGED <<policy, batch, phase>>  BY DEF Publish
<1>3. ASSUME NEW i \in DOMAIN queue, Full, queue' = Append(RemoveAt(queue, i), e),
             EndAs("evicted", {queue[i]}), diagnostics' \in Int, UNCHANGED degraded
      PROVE  TypeOK'
  <2>1. queue[i] \in Events  BY DEF TypeOK
  <2>2. fate' \in [Fates -> SUBSET Events]  BY <1>3, <2>1, EndAsTyped DEF Fates
  <2>3. queue' \in Seq(Events) /\ Len(queue') <= Capacity
    BY <1>1, <1>3, ReplacedTyped DEF TypeOK
  <2> QED  BY <1>1, <1>2, <1>3, <2>2, <2>3 DEF TypeOK
<1>4. CASE Enqueue(e)
  BY <1>1, <1>2, <1>4, EnqueueTyped DEF TypeOK, Enqueue
<1>5. CASE ReplaceDiagnostic(e)
  <2>1. First(InfoIn(queue)) \in DOMAIN queue
    BY <1>5, FirstQueued DEF ReplaceDiagnostic, RoomByDiagnostic
  <2>2. diagnostics' \in Int  BY <1>5 DEF ReplaceDiagnostic, TypeOK
  <2> QED  BY <1>3, <1>5, <2>1, <2>2 DEF ReplaceDiagnostic
<1>6. CASE ReplaceOldest(e)
  <2>1. First(EvictableIn(queue)) \in DOMAIN queue
    BY <1>6, FirstQueued DEF ReplaceOldest
  <2>2. diagnostics' \in Int  BY <1>6 DEF ReplaceOldest, TypeOK, One
  <2> QED  BY <1>3, <1>6, <2>1, <2>2 DEF ReplaceOldest
<1>7. CASE Reject(e)
  <2>1. fate' \in [Fates -> SUBSET Events]  BY <1>1, <1>7, EndAsTyped DEF Reject, Fates
  <2>2. UNCHANGED <<queue, diagnostics>>  BY <1>7 DEF Reject
  <2>3. degraded' \in BOOLEAN  BY <1>7 DEF Reject, SignalFor, TypeOK
  <2> HIDE DEF e
  <2>4. queue' \in Seq(Events) /\ Len(queue') <= Capacity /\ diagnostics' \in Int
    BY <2>2, Zenon DEF TypeOK
  <2>5. /\ policy' \in Policies /\ phase' \in Phases
        /\ batch' \in Seq(Events) /\ Len(batch') <= BatchSize
    BY <1>2, Zenon DEF TypeOK
  <2>6. published' \in 0 .. MaxPublishes  BY <1>1
  <2> QED  BY <2>1, <2>3, <2>4, <2>5, <2>6 DEF TypeOK
<1> QED  BY <1>4, <1>5, <1>6, <1>7 DEF Publish

(* A batch is what was queued first. *)
LEMMA CollectTyped ==
    ASSUME TypeOK, CollectBatch
    PROVE  /\ TypeOK'
           /\ Len(batch') + Len(queue') = Len(queue)
           /\ \A i \in DOMAIN batch' : batch'[i] = queue[i]
           /\ \A i \in DOMAIN queue' : queue'[i] = queue[i + Len(batch')]
<1> DEFINE n == IF Len(queue) < BatchSize THEN Len(queue) ELSE BatchSize
<1>1. queue \in Seq(Events) /\ n \in 0 .. Len(queue) /\ n <= BatchSize
  BY ConstantsAssumption DEF TypeOK
<1>2. batch' = SubSeq(queue, 1, n) /\ queue' = SubSeq(queue, n + 1, Len(queue))
  BY DEF CollectBatch
<1> HIDE DEF n
<1>3. batch' \in Seq(Events) /\ Len(batch') = n /\ \A i \in 1 .. n : batch'[i] = queue[i]
  BY <1>1, <1>2
<1>4. /\ queue' \in Seq(Events) /\ Len(queue') = Len(queue) - n
      /\ \A i \in 1 .. Len(queue) - n : queue'[i] = queue[n + i]
  BY <1>1, <1>2
<1>5. TypeOK'
  <2>1. UNCHANGED <<policy, diagnostics, phase, degraded, published, fate>>
    BY DEF CollectBatch
  <2>2. Len(queue') <= Capacity /\ Len(batch') <= BatchSize
    BY <1>1, <1>3, <1>4, ConstantsAssumption DEF TypeOK
  <2> QED  BY <1>3, <1>4, <2>1, <2>2 DEF TypeOK
<1>6. Len(batch') + Len(queue') = Len(queue)  BY <1>1, <1>3, <1>4
<1>7. \A i \in DOMAIN batch' : batch'[i] = queue[i]
  <2>1. DOMAIN batch' = 1 .. n  BY <1>3
  <2> QED  BY <1>3, <2>1
<1>8. \A i \in DOMAIN queue' : queue'[i] = queue[i + Len(batch')]
  <2>1. DOMAIN queue' = 1 .. Len(queue) - n  BY <1>4
  <2>2. ASSUME NEW i \in 1 .. Len(queue) - n PROVE i + n = n + i  BY <1>1
  <2> QED  BY <1>3, <1>4, <2>1, <2>2
<1> QED  BY <1>5, <1>6, <1>7, <1>8

(* The end of a batch. *)
LEMMA EndBatchTyped ==
    ASSUME TypeOK, NEW kept \in SUBSET ToSet(batch), NEW f \in Fates, EndBatch(kept, f)
    PROVE  fate' \in [Fates -> SUBSET Events] /\ batch' = << >>
<1>1. ToSet(batch) \subseteq Events  BY DEF TypeOK, ToSet
<1> QED  BY <1>1 DEF TypeOK, EndBatch

(* TypeOK is inductive. *)
LEMMA TypeStep == TypeOK /\ [Next]_vars => TypeOK'
<1> SUFFICES ASSUME TypeOK, [Next]_vars PROVE TypeOK'
  OBVIOUS
<1>1. CASE \E s \in Severities : Publish(s)  BY <1>1, PublishTyped
<1>2. CASE CollectBatch  BY <1>2, CollectTyped
<1>3. CASE AnswerBatch
  <2>1. PICK kept \in SUBSET ToSet(batch) : BatchWritten(kept) \/ BatchRaises(kept)
    BY <1>3 DEF AnswerBatch
  <2>2. fate' \in [Fates -> SUBSET Events] /\ batch' = << >>
    BY <2>1, EndBatchTyped DEF BatchWritten, BatchRaises, Fates
  <2>3. Cardinality(InfoIn(batch)) \in Nat  BY InfoCounted DEF TypeOK
  <2>4. diagnostics' \in Int
    BY <2>1, <2>3 DEF BatchWritten, BatchRaises, Uncount, TypeOK
  <2>5. degraded' \in BOOLEAN
    BY <2>1 DEF BatchWritten, BatchRaises, SignalFor, TypeOK
  <2>6. UNCHANGED <<policy, queue, phase, published>>
    BY <2>1 DEF BatchWritten, BatchRaises
  <2> QED  BY <2>2, <2>4, <2>5, <2>6, ConstantsAssumption DEF TypeOK
<1>4. CASE Stop \/ DrainTimeout
  <2>1. fate' \in [Fates -> SUBSET Events] /\ batch' = << >>
    BY <1>4, EndBatchTyped DEF Stop, DrainTimeout, CancelBatch, Fates
  <2> QED
    BY <1>4, <2>1, ConstantsAssumption DEF Stop, DrainTimeout, TypeOK, Phases
<1>5. CASE EndDrain  BY <1>5 DEF EndDrain, TypeOK, Phases
<1>6. CASE UNCHANGED vars  BY <1>6 DEF vars, TypeOK
<1> QED  BY <1>1, <1>2, <1>3, <1>4, <1>5, <1>6 DEF Next

(* The bus's state has its types, for every capacity, batch and policy. *)
THEOREM TypeCorrect == Spec => []TypeOK
<1>1. Init => TypeOK
  <2>1. << >> \in Seq(Events) /\ Len(<< >>) = 0  OBVIOUS
  <2>2. [f \in Fates |-> {}] \in [Fates -> SUBSET Events]  OBVIOUS
  <2>3. 0 \in 0 .. MaxPublishes /\ 0 <= Capacity /\ 0 <= BatchSize
    BY ConstantsAssumption
  <2> SUFFICES ASSUME Init PROVE TypeOK
    OBVIOUS
  <2>4. queue \in Seq(Events) /\ Len(queue) <= Capacity
    BY <2>1, <2>3 DEF Init
  <2>5. batch \in Seq(Events) /\ Len(batch) <= BatchSize
    BY <2>1, <2>3 DEF Init
  <2>6. diagnostics \in Int /\ published \in 0 .. MaxPublishes
    BY <2>3 DEF Init
  <2>7. degraded \in BOOLEAN  BY DEF Init
  <2>8. policy \in Policies /\ phase \in Phases /\ fate \in [Fates -> SUBSET Events]
    BY <2>2 DEF Init, Phases
  <2> QED  BY <2>4, <2>5, <2>6, <2>7, <2>8 DEF TypeOK
<1> QED  BY <1>1, TypeStep, PTL DEF Spec

-------------------------------------------------------------------------------
(* FailClosed for every instance: no path out of publish() or               *)
(* _flush_batch() refuses or fails a critical event without the signal.     *)
THEOREM Signalled == Spec => []FailClosed
<1>1. Init => FailClosed  BY DEF Init, FailClosed, Fates
<1>2. TypeOK /\ FailClosed /\ [Next]_vars => FailClosed'
  <2> SUFFICES ASSUME TypeOK, FailClosed, [Next]_vars PROVE FailClosed'
    OBVIOUS
  <2>1. fate \in [Fates -> SUBSET Events] /\ degraded \in BOOLEAN  BY DEF TypeOK
  <2>2. ASSUME NEW s \in Severities, Publish(s) PROVE FailClosed'
    <3> DEFINE e == [id |-> published + 1, severity |-> s]
    <3>1. CASE Reject(e)
      <4>1. /\ fate'["rejected"] = fate["rejected"] \cup {e}
            /\ fate'["failed"] = fate["failed"]
        BY <2>1, <3>1 DEF Reject, EndAs, Fates
      <4> QED  BY <3>1, <4>1 DEF Reject, SignalFor, FailClosed
    <3>2. CASE ~Reject(e)
      <4>1. /\ fate'["rejected"] = fate["rejected"] /\ fate'["failed"] = fate["failed"]
            /\ degraded' = degraded
        BY <2>1, <2>2, <3>2 DEF Publish, Enqueue, ReplaceDiagnostic, ReplaceOldest, EndAs, Fates
      <4> QED  BY <4>1 DEF FailClosed
    <3> QED  BY <3>1, <3>2
  <2>3. CASE AnswerBatch
    <3>1. PICK kept \in SUBSET ToSet(batch) : BatchWritten(kept) \/ BatchRaises(kept)
      BY <2>3 DEF AnswerBatch
    <3>2. /\ fate'["rejected"] = fate["rejected"]
          /\ fate'["failed"] = fate["failed"] \cup (ToSet(batch) \ kept)
      BY <2>1, <3>1 DEF BatchWritten, BatchRaises, EndBatch, Fates
    <3>3. \/ kept = ToSet(batch) /\ UNCHANGED degraded
          \/ SignalFor(ToSet(batch))
      BY <3>1 DEF BatchWritten, BatchRaises
    <3> SUFFICES ASSUME NEW e \in fate'["rejected"] \cup fate'["failed"], IsCritical(e)
                 PROVE  degraded'
      BY DEF FailClosed, IsCritical
    <3>4. e \in fate["rejected"] \cup fate["failed"] \/ (e \in ToSet(batch) /\ e \notin kept)
      BY <3>2
    <3>5. degraded => degraded'  BY <3>3, Zenon DEF SignalFor
    <3>6. e \in ToSet(batch) /\ e \notin kept => degraded'
      BY <3>3, Zenon DEF SignalFor
    <3> QED  BY <3>4, <3>5, <3>6 DEF FailClosed
  <2>4. CASE Stop \/ DrainTimeout
    <3>1. fate'["rejected"] = fate["rejected"] /\ fate'["failed"] = fate["failed"]
      BY <2>1, <2>4 DEF Stop, DrainTimeout, CancelBatch, EndBatch, Fates
    <3> QED  BY <2>4, <3>1 DEF Stop, DrainTimeout, FailClosed
  <2>5. CASE CollectBatch \/ EndDrain \/ UNCHANGED vars
    BY <2>5 DEF CollectBatch, EndDrain, vars, FailClosed
  <2> QED  BY <2>2, <2>3, <2>4, <2>5 DEF Next
<1> QED  BY <1>1, <1>2, TypeCorrect, PTL DEF Spec

-------------------------------------------------------------------------------
(* No critical event has been evicted. *)
NoneEvicted == \A e \in fate["evicted"] : ~IsCritical(e)

(* What publish() does to the events that gave way and were refused.       *)
LEMMA PublishKeeps ==
    ASSUME TypeOK, NEW s \in Severities, Publish(s)
    PROVE  /\ NoneEvicted => NoneEvicted'
           /\ \A e \in fate'["rejected"] \ fate["rejected"] :
                 IsCritical(e) => \A i \in DOMAIN queue : IsCritical(queue[i])
<1> DEFINE new == [id |-> published + 1, severity |-> s]
<1>0. fate \in [Fates -> SUBSET Events]  BY DEF TypeOK
<1>1. CASE Enqueue(new)  BY <1>1 DEF Enqueue, NoneEvicted
<1>2. ASSUME NEW x, ~IsCritical(x), EndAs("evicted", {x})
      PROVE  (NoneEvicted => NoneEvicted') /\ fate'["rejected"] = fate["rejected"]
  <2>1. fate'["evicted"] = fate["evicted"] \cup {x} /\ fate'["rejected"] = fate["rejected"]
    BY <1>0, <1>2 DEF EndAs, Fates
  <2> QED  BY <1>2, <2>1 DEF NoneEvicted
<1>3. CASE ReplaceDiagnostic(new)
  <2>1. ~IsCritical(queue[First(InfoIn(queue))])
    BY <1>3, FirstQueued DEF ReplaceDiagnostic, RoomByDiagnostic, IsInfo, IsCritical
  <2> QED  BY <1>2, <1>3, <2>1 DEF ReplaceDiagnostic
<1>4. CASE ReplaceOldest(new)
  <2>1. ~IsCritical(queue[First(EvictableIn(queue))])
    BY <1>4, FirstQueued DEF ReplaceOldest
  <2> QED  BY <1>2, <1>4, <2>1 DEF ReplaceOldest
<1>5. CASE Reject(new)
  <2>1. /\ fate'["evicted"] = fate["evicted"]
        /\ fate'["rejected"] = fate["rejected"] \cup {new}
    BY <1>0, <1>5 DEF Reject, EndAs, Fates
  <2>2. IsCritical(new) => EvictableIn(queue) = {}
    BY <1>5 DEF Reject, DropsOldestFor
  <2>3. EvictableIn(queue) = {} => \A i \in DOMAIN queue : IsCritical(queue[i])
    BY DEF EvictableIn
  <2> HIDE DEF new
  <2> QED  BY <2>1, <2>2, <2>3 DEF NoneEvicted
<1> QED  BY <1>1, <1>3, <1>4, <1>5 DEF Publish

(* No other step evicts or refuses. *)
LEMMA OthersKeep ==
    ASSUME TypeOK, CollectBatch \/ AnswerBatch \/ Stop \/ EndDrain \/ DrainTimeout
    PROVE  fate'["evicted"] = fate["evicted"] /\ fate'["rejected"] = fate["rejected"]
<1>0. fate \in [Fates -> SUBSET Events]  BY DEF TypeOK
<1>1. ASSUME NEW kept, NEW f \in {"failed", "lost"}, EndBatch(kept, f)
      PROVE  fate'["evicted"] = fate["evicted"] /\ fate'["rejected"] = fate["rejected"]
  BY <1>0, <1>1 DEF EndBatch, Fates
<1>2. CASE AnswerBatch  BY <1>1, <1>2 DEF AnswerBatch, BatchWritten, BatchRaises
<1>3. CASE Stop \/ DrainTimeout  BY <1>1, <1>3 DEF Stop, DrainTimeout, CancelBatch
<1>4. CASE CollectBatch \/ EndDrain  BY <1>4 DEF CollectBatch, EndDrain
<1> QED  BY <1>2, <1>3, <1>4

(* CriticalKept for every instance: overflow costs a critical event only    *)
(* when nothing else is queued (_handle_overflow()).                        *)
THEOREM Kept == Spec => CriticalKept
<1>1. Init => NoneEvicted  BY DEF Init, NoneEvicted, Fates
<1>2. TypeOK /\ NoneEvicted /\ [Next]_vars =>
        /\ NoneEvicted'
        /\ [/\ \A e \in fate'["evicted"] : ~IsCritical(e)
            /\ \A e \in fate'["rejected"] \ fate["rejected"] :
                  IsCritical(e) => \A i \in DOMAIN queue : IsCritical(queue[i])]_vars
  <2> SUFFICES ASSUME TypeOK, NoneEvicted, [Next]_vars
               PROVE  /\ NoneEvicted'
                      /\ \/ /\ \A e \in fate'["evicted"] : ~IsCritical(e)
                            /\ \A e \in fate'["rejected"] \ fate["rejected"] :
                                  IsCritical(e) => \A i \in DOMAIN queue : IsCritical(queue[i])
                         \/ UNCHANGED vars
    OBVIOUS
  <2>1. CASE \E s \in Severities : Publish(s)
    BY <2>1, PublishKeeps DEF NoneEvicted
  <2>2. CASE CollectBatch \/ AnswerBatch \/ Stop \/ EndDrain \/ DrainTimeout
    BY <2>2, OthersKeep DEF NoneEvicted
  <2>3. CASE UNCHANGED vars  BY <2>3 DEF vars, NoneEvicted
  <2> QED  BY <2>1, <2>2, <2>3 DEF Next
<1> QED  BY <1>1, <1>2, TypeCorrect, PTL DEF Spec, CriticalKept
-------------------------------------------------------------------------------
(* The events in A are still to come to an end, those in F have come to    *)
(* one each, and together they are the n that were published.              *)
Placed(A, F, n) ==
    /\ \A f, g \in Fates : f # g => F[f] \cap F[g] = {}
    /\ \A f \in Fates : F[f] \cap A = {}
    /\ \A e \in A : e.id \in 1 .. n
    /\ \A f \in Fates : \A e \in F[f] : e.id \in 1 .. n
    /\ \A k \in 1 .. n : (\E e \in A : e.id = k) \/ \E f \in Fates : \E e \in F[f] : e.id = k

(* A new event comes into the bus. *)
LEMMA Arrives ==
    ASSUME NEW A, NEW F, NEW n \in Nat, Placed(A, F, n), NEW new, new.id = n + 1
    PROVE  Placed(A \cup {new}, F, n + 1)
<1>1. \A f \in Fates : new \notin F[f]  BY DEF Placed
<1>2. 1 .. n + 1 = (1 .. n) \cup {n + 1}  OBVIOUS
<1>3. \A f \in Fates : F[f] \cap (A \cup {new}) = {}  BY <1>1 DEF Placed
<1>4. \A e \in A \cup {new} : e.id \in 1 .. n + 1  BY <1>2 DEF Placed
<1>5. \A f \in Fates : \A e \in F[f] : e.id \in 1 .. n + 1  BY <1>2 DEF Placed
<1>6. \A k \in 1 .. n + 1 :
        (\E e \in A \cup {new} : e.id = k) \/ \E f \in Fates : \E e \in F[f] : e.id = k
  BY <1>2 DEF Placed
<1> QED  BY <1>3, <1>4, <1>5, <1>6 DEF Placed

(* Some come to an end. *)
LEMMA Ends ==
    ASSUME NEW A, NEW F \in [Fates -> SUBSET Events], NEW n \in Nat, Placed(A, F, n),
           NEW X \in SUBSET A, NEW f \in Fates
    PROVE  Placed(A \ X, [F EXCEPT ![f] = @ \cup X], n)
<1> DEFINE G == [F EXCEPT ![f] = @ \cup X]
<1>1. G[f] = F[f] \cup X /\ \A g \in Fates : g # f => G[g] = F[g]
  OBVIOUS
<1> HIDE DEF G
<1>2. \A g, h \in Fates : g # h => G[g] \cap G[h] = {}  BY <1>1 DEF Placed
<1>3. \A g \in Fates : G[g] \cap (A \ X) = {}  BY <1>1 DEF Placed
<1>4. \A e \in A \ X : e.id \in 1 .. n  BY DEF Placed
<1>5. \A g \in Fates : \A e \in G[g] : e.id \in 1 .. n  BY <1>1 DEF Placed
<1>6. ASSUME NEW k \in 1 .. n
      PROVE  (\E e \in A \ X : e.id = k) \/ \E g \in Fates : \E e \in G[g] : e.id = k
  <2>1. CASE \E e \in A : e.id = k
    <3>1. PICK e \in A : e.id = k  BY <2>1
    <3>2. CASE e \in X  BY <1>1, <3>1, <3>2
    <3> QED  BY <3>1, <3>2
  <2>2. CASE \E g \in Fates : \E e \in F[g] : e.id = k
    <3>1. PICK g \in Fates : \E e \in F[g] : e.id = k  BY <2>2
    <3>2. F[g] \subseteq G[g]  BY <1>1
    <3> QED  BY <3>1, <3>2
  <2> QED  BY <2>1, <2>2 DEF Placed
<1>7. Placed(A \ X, G, n)  BY <1>2, <1>3, <1>4, <1>5, <1>6 DEF Placed
<1> QED  BY <1>7 DEF G

(* Ids rise along a sequence. *)
Rising(s) == \A i, j \in DOMAIN s : i < j => s[i].id < s[j].id

(* The events in the bus, whose order the sequences keep. *)
Alive == ToSet(batch) \cup ToSet(queue)

InOrder ==
    /\ Rising(batch)
    /\ Rising(queue)
    /\ \A i \in DOMAIN batch, j \in DOMAIN queue : batch[i].id < queue[j].id

OnceInv == InOrder /\ Placed(Alive, fate, published)

(* Ids go on rising with a later event at the end. *)
LEMMA RisingAppended ==
    ASSUME NEW s \in Seq(Events), Rising(s), NEW e \in Events,
           \A x \in ToSet(s) : x.id < e.id
    PROVE  Rising(Append(s, e)) /\ ToSet(Append(s, e)) = ToSet(s) \cup {e}
<1> DEFINE t == Append(s, e)
<1>1. /\ t \in Seq(Events) /\ Len(t) = Len(s) + 1
      /\ \A i \in 1 .. Len(s) : t[i] = s[i]
      /\ t[Len(s) + 1] = e
  OBVIOUS
<1>2. DOMAIN s = 1 .. Len(s) /\ DOMAIN t = 1 .. Len(s) + 1  BY <1>1
<1> HIDE DEF t
<1>3. Rising(t)
  <2> SUFFICES ASSUME NEW i \in 1 .. Len(s) + 1, NEW j \in 1 .. Len(s) + 1, i < j
               PROVE  t[i].id < t[j].id
    BY <1>2 DEF Rising
  <2>1. i \in 1 .. Len(s)  OBVIOUS
  <2>2. CASE j \in 1 .. Len(s)  BY <1>1, <1>2, <2>1, <2>2 DEF Rising
  <2>3. CASE j = Len(s) + 1  BY <1>1, <1>2, <2>1, <2>3 DEF ToSet
  <2> QED  BY <2>2, <2>3
<1>4. ToSet(t) = ToSet(s) \cup {e}
  <2>1. \A x : x \in ToSet(t) <=> \E i \in 1 .. Len(s) + 1 : x = t[i]
    BY <1>2 DEF ToSet
  <2>2. \A x : x \in ToSet(s) <=> \E i \in 1 .. Len(s) : x = s[i]
    BY <1>2 DEF ToSet
  <2>3. 1 .. Len(s) + 1 = (1 .. Len(s)) \cup {Len(s) + 1}  OBVIOUS
  <2> QED  BY <1>1, <2>1, <2>2, <2>3
<1> QED  BY <1>3, <1>4 DEF t

(* They do with an event less. *)
LEMMA RisingRemoved ==
    ASSUME NEW s \in Seq(Events), Rising(s), NEW i \in 1 .. Len(s)
    PROVE  Rising(RemoveAt(s, i)) /\ ToSet(RemoveAt(s, i)) = ToSet(s) \ {s[i]}
<1> DEFINE t == RemoveAt(s, i)
<1>1. /\ t \in Seq(Events) /\ Len(t) = Len(s) - 1
      /\ \A j \in 1 .. Len(s) - 1 : t[j] = IF j < i THEN s[j] ELSE s[j + 1]
  BY RemoveAtTyped
<1>2. DOMAIN s = 1 .. Len(s) /\ DOMAIN t = 1 .. Len(s) - 1 /\ Len(s) \in Nat  BY <1>1
<1>0. \A j \in 1 .. Len(s) : s[j].id \in Int
  <2>1. \A j \in 1 .. Len(s) : s[j] \in Events  OBVIOUS
  <2> QED  BY <2>1 DEF Events
<1> HIDE DEF t
<1>3. Rising(t)
  <2> SUFFICES ASSUME NEW j \in 1 .. Len(s) - 1, NEW k \in 1 .. Len(s) - 1, j < k
               PROVE  t[j].id < t[k].id
    BY <1>2 DEF Rising
  <2>1. PICK a \in 1 .. Len(s), b \in 1 .. Len(s) : a < b /\ t[j] = s[a] /\ t[k] = s[b]
    <3>1. CASE k < i  BY <1>1, <3>1, SMTT(20)
    <3>2. CASE j < i /\ ~(k < i)  BY <1>1, <3>2, SMTT(20)
    <3>3. CASE ~(j < i)  BY <1>1, <3>3, SMTT(20)
    <3> QED  BY <3>1, <3>2, <3>3
  <2> QED  BY <1>2, <2>1 DEF Rising
<1>4. ASSUME NEW x PROVE x \in ToSet(t) <=> x \in ToSet(s) /\ x # s[i]
  <2>1. ASSUME NEW j \in 1 .. Len(s) - 1 PROVE t[j] \in ToSet(s) /\ t[j] # s[i]
    <3>1. PICK a \in 1 .. Len(s) : t[j] = s[a] /\ a # i  BY <1>1
    <3>2. s[a].id < s[i].id \/ s[i].id < s[a].id
      <4>1. a < i \/ i < a  BY <3>1
      <4> QED  BY <1>2, <3>1, <4>1 DEF Rising
    <3>3. s[a].id # s[i].id  BY <1>0, <3>1, <3>2
    <3> QED  BY <1>2, <3>1, <3>3 DEF ToSet
  <2>2. ASSUME NEW a \in 1 .. Len(s), a # i PROVE s[a] \in ToSet(t)
    <3>1. CASE a < i
      <4>1. a \in 1 .. Len(s) - 1 /\ t[a] = s[a]  BY <1>1, <3>1
      <4> QED  BY <1>2, <4>1 DEF ToSet
    <3>2. CASE a > i
      <4>1. a - 1 \in 1 .. Len(s) - 1 /\ t[a - 1] = s[a]  BY <1>1, <3>2
      <4> QED  BY <1>2, <4>1 DEF ToSet
    <3> QED  BY <2>2, <3>1, <3>2
  <2> QED  BY <1>2, <2>1, <2>2 DEF ToSet
<1> QED  BY <1>3, <1>4 DEF t
-------------------------------------------------------------------------------
(* publish() places the event and keeps the order. *)
LEMMA PublishOnce ==
    ASSUME TypeOK, OnceInv, NEW s \in Severities, Publish(s)
    PROVE  OnceInv'
<1> DEFINE new == [id |-> published + 1, severity |-> s]
<1>1. /\ new \in Events /\ new.id = published + 1 /\ published \in Nat
      /\ published' = published + 1 /\ batch' = batch
  BY ConstantsAssumption DEF TypeOK, Publish, Events
<1>2. /\ queue \in Seq(Events) /\ batch \in Seq(Events) /\ fate \in [Fates -> SUBSET Events]
      /\ Rising(queue) /\ Rising(batch) /\ Placed(Alive, fate, published)
      /\ \A i \in DOMAIN batch, j \in DOMAIN queue : batch[i].id < queue[j].id
  BY DEF TypeOK, OnceInv, InOrder
<1>3. \A x \in Alive : x.id < new.id
  <2> SUFFICES ASSUME NEW x \in Alive PROVE x.id < new.id
    OBVIOUS
  <2>1. x.id \in 1 .. published  BY <1>2 DEF Placed
  <2> QED  BY <1>1, <2>1
<1>4. Placed(Alive \cup {new}, fate, published')
  BY <1>1, <1>2, Arrives
<1> HIDE DEF new
<1>5. \A x \in ToSet(batch), y \in ToSet(queue) : x.id < y.id
  BY <1>2 DEF ToSet
<1>6. ASSUME NEW q \in Seq(Events), Rising(q), ToSet(q) \subseteq ToSet(queue),
             queue' = Append(q, new)
      PROVE  InOrder' /\ Alive' = ToSet(batch) \cup ToSet(q) \cup {new}
  <2>1. \A x \in ToSet(q) : x.id < new.id  BY <1>3, <1>6 DEF Alive
  <2>2. Rising(queue') /\ ToSet(queue') = ToSet(q) \cup {new}
    BY <1>1, <1>6, <2>1, RisingAppended
  <2>3. \A x \in ToSet(batch), y \in ToSet(queue') : x.id < y.id
    BY <1>3, <1>5, <1>6, <2>2 DEF Alive
  <2>4. \A i \in DOMAIN batch', j \in DOMAIN queue' : batch'[i].id < queue'[j].id
    BY <1>1, <2>3 DEF ToSet
  <2>5. Rising(batch')  BY <1>1, <1>2
  <2> QED  BY <1>1, <2>2, <2>4, <2>5 DEF InOrder, Alive
<1>7. CASE Enqueue(new)
  <2>1. queue' = Append(queue, new) /\ fate' = fate  BY <1>7 DEF Enqueue
  <2>2. InOrder' /\ Alive' = Alive \cup {new}  BY <1>2, <1>6, <2>1 DEF Alive
  <2> QED  BY <1>4, <2>1, <2>2 DEF OnceInv
<1>8. ASSUME NEW i \in DOMAIN queue, queue' = Append(RemoveAt(queue, i), new),
             EndAs("evicted", {queue[i]})
      PROVE  OnceInv'
  <2>1. i \in 1 .. Len(queue)  BY <1>2, <1>8
  <2>2. /\ RemoveAt(queue, i) \in Seq(Events) /\ Rising(RemoveAt(queue, i))
        /\ ToSet(RemoveAt(queue, i)) = ToSet(queue) \ {queue[i]}
    BY <1>2, <2>1, RemoveAtTyped, RisingRemoved
  <2>3. InOrder' /\ Alive' = ToSet(batch) \cup (ToSet(queue) \ {queue[i]}) \cup {new}
    BY <1>6, <1>8, <2>2
  <2>4. queue[i] \in Alive /\ queue[i] \in ToSet(queue)
    BY <1>8 DEF Alive, ToSet
  <2>5. queue[i] \notin ToSet(batch)
    <3>1. queue[i] \in Events  BY <1>2, <2>1
    <3>2. queue[i].id \in Int  BY <3>1 DEF Events
    <3> QED  BY <1>5, <2>4, <3>2
  <2>6. queue[i] # new
    <3>1. queue[i].id < new.id  BY <1>3, <2>4
    <3> QED  BY <1>1, <3>1
  <2>7. Alive' = (Alive \cup {new}) \ {queue[i]}
    BY <2>3, <2>5, <2>6 DEF Alive
  <2>8. fate' = [fate EXCEPT !["evicted"] = @ \cup {queue[i]}]
    BY <1>8 DEF EndAs
  <2>9. Placed((Alive \cup {new}) \ {queue[i]},
               [fate EXCEPT !["evicted"] = @ \cup {queue[i]}], published')
    <3>1. {queue[i]} \in SUBSET (Alive \cup {new}) /\ "evicted" \in Fates /\ published' \in Nat
      BY <1>1, <2>4 DEF Fates
    <3> QED  BY <1>2, <1>4, <3>1, Ends
  <2> QED  BY <2>3, <2>7, <2>8, <2>9 DEF OnceInv
<1>9. CASE ReplaceDiagnostic(new)
  BY <1>8, <1>9, FirstQueued DEF ReplaceDiagnostic, RoomByDiagnostic
<1>10. CASE ReplaceOldest(new)
  BY <1>8, <1>10, FirstQueued DEF ReplaceOldest
<1>11. CASE Reject(new)
  <2>1. queue' = queue /\ fate' = [fate EXCEPT !["rejected"] = @ \cup {new}]
    BY <1>11 DEF Reject, EndAs
  <2>2. Placed((Alive \cup {new}) \ {new}, [fate EXCEPT !["rejected"] = @ \cup {new}],
               published')
    <3>1. {new} \in SUBSET (Alive \cup {new}) /\ "rejected" \in Fates /\ published' \in Nat
      BY <1>1 DEF Fates
    <3> QED  BY <1>2, <1>4, <3>1, Ends
  <2>3. new \notin Alive  BY <1>1, <1>3
  <2>4. Alive' = (Alive \cup {new}) \ {new}  BY <1>1, <2>1, <2>3 DEF Alive
  <2>5. InOrder'  BY <1>1, <2>1 DEF OnceInv, InOrder, Rising
  <2> QED  BY <2>1, <2>2, <2>4, <2>5 DEF OnceInv
<1> QED  BY <1>7, <1>9, <1>10, <1>11 DEF Publish, new

(* Collecting moves events, in their order. *)
LEMMA CollectOnce ==
    ASSUME TypeOK, OnceInv, CollectBatch
    PROVE  OnceInv'
<1> DEFINE n == Len(batch')
<1>1. /\ queue \in Seq(Events) /\ batch' \in Seq(Events) /\ queue' \in Seq(Events)
      /\ n + Len(queue') = Len(queue)
      /\ \A i \in 1 .. n : batch'[i] = queue[i]
      /\ \A i \in 1 .. Len(queue') : queue'[i] = queue[i + n]
  BY CollectTyped DEF TypeOK
<1>2. /\ DOMAIN queue = 1 .. Len(queue) /\ DOMAIN batch' = 1 .. n
      /\ DOMAIN queue' = 1 .. Len(queue') /\ n \in Nat /\ Len(queue') \in Nat
  BY <1>1
<1>3. batch = << >> /\ UNCHANGED <<fate, published>> /\ Rising(queue)
  BY DEF CollectBatch, OnceInv, InOrder
<1> HIDE DEF n
<1>4. Rising(batch')
  <2> SUFFICES ASSUME NEW i \in 1 .. n, NEW j \in 1 .. n, i < j
               PROVE  batch'[i].id < batch'[j].id
    BY <1>2 DEF Rising
  <2>1. i \in 1 .. Len(queue) /\ j \in 1 .. Len(queue)  BY <1>1, <1>2
  <2> QED  BY <1>1, <1>2, <1>3, <2>1 DEF Rising
<1>5. Rising(queue')
  <2> SUFFICES ASSUME NEW i \in 1 .. Len(queue'), NEW j \in 1 .. Len(queue'), i < j
               PROVE  queue'[i].id < queue'[j].id
    BY <1>2 DEF Rising
  <2>1. i + n \in 1 .. Len(queue) /\ j + n \in 1 .. Len(queue) /\ i + n < j + n
    BY <1>1, <1>2
  <2> QED  BY <1>1, <1>2, <1>3, <2>1 DEF Rising
<1>6. ASSUME NEW i \in 1 .. n, NEW j \in 1 .. Len(queue')
      PROVE  batch'[i].id < queue'[j].id
  <2>1. i \in 1 .. Len(queue) /\ j + n \in 1 .. Len(queue) /\ i < j + n
    BY <1>1, <1>2
  <2> QED  BY <1>1, <1>2, <1>3, <2>1 DEF Rising
<1>7. ASSUME NEW x PROVE x \in Alive <=> x \in Alive'
  <2>1. ToSet(batch) = {}  BY <1>3 DEF ToSet
  <2>2. x \in Alive <=> \E k \in 1 .. Len(queue) : x = queue[k]
    BY <1>2, <2>1 DEF Alive, ToSet
  <2>3. x \in Alive' <=> \/ \E i \in 1 .. n : x = batch'[i]
                         \/ \E i \in 1 .. Len(queue') : x = queue'[i]
    BY <1>2 DEF Alive, ToSet
  <2>4. ASSUME NEW k \in 1 .. Len(queue)
        PROVE  \/ \E i \in 1 .. n : queue[k] = batch'[i]
               \/ \E i \in 1 .. Len(queue') : queue[k] = queue'[i]
    <3>1. CASE k <= n  BY <1>1, <1>2, <3>1
    <3>2. CASE k > n
      <4>1. k - n \in 1 .. Len(queue') /\ (k - n) + n = k  BY <1>1, <1>2, <3>2
      <4> QED  BY <1>1, <4>1
    <3> QED  BY <1>2, <3>1, <3>2
  <2>5. \A i \in 1 .. n : i \in 1 .. Len(queue)  BY <1>1, <1>2
  <2>6. \A i \in 1 .. Len(queue') : i + n \in 1 .. Len(queue)  BY <1>1, <1>2
  <2>7. x \in Alive => x \in Alive'  BY <2>2, <2>3, <2>4
  <2>8. (\E i \in 1 .. n : x = batch'[i]) => x \in Alive  BY <1>1, <2>2, <2>5
  <2>9. (\E i \in 1 .. Len(queue') : x = queue'[i]) => x \in Alive
    BY <1>1, <2>2, <2>6
  <2> QED  BY <2>3, <2>7, <2>8, <2>9
<1>8. Alive' = Alive  BY <1>7
<1>9. InOrder'  BY <1>2, <1>4, <1>5, <1>6 DEF InOrder
<1> QED  BY <1>3, <1>8, <1>9 DEF OnceInv

(* The end of a batch is the end of each of its events. *)
LEMMA EndBatchOnce ==
    ASSUME TypeOK, OnceInv, NEW kept \in SUBSET ToSet(batch), NEW f \in {"failed", "lost"},
           EndBatch(kept, f), UNCHANGED <<queue, published>>
    PROVE  OnceInv'
<1> DEFINE B == ToSet(batch)
           G == [fate EXCEPT !["stored"] = @ \cup kept]
<1>1. /\ fate \in [Fates -> SUBSET Events] /\ B \subseteq Events /\ published \in Nat
  BY DEF TypeOK, ToSet
<1>2. batch' = << >> /\ fate' = [G EXCEPT ![f] = @ \cup (B \ kept)]
  BY <1>1 DEF EndBatch, Fates
<1>3. Placed(Alive, fate, published) /\ B \subseteq Alive  BY DEF OnceInv, Alive
<1>4. G \in [Fates -> SUBSET Events]  BY <1>1 DEF Fates
<1> HIDE DEF B
<1>5. kept \subseteq B  BY DEF B
<1>6. Placed(Alive \ kept, G, published)
  BY <1>1, <1>3, <1>5, Ends DEF Fates
<1> HIDE DEF G
<1>7. Placed((Alive \ kept) \ (B \ kept), [G EXCEPT ![f] = @ \cup (B \ kept)], published)
  BY <1>1, <1>3, <1>4, <1>5, <1>6, Ends DEF Fates
<1>8. Alive' = (Alive \ kept) \ (B \ kept)
  <2>1. ToSet(batch') = {}  BY <1>2 DEF ToSet
  <2>2. B \cap ToSet(queue) = {}
    <3> SUFFICES ASSUME NEW i \in DOMAIN batch, NEW j \in DOMAIN queue, batch[i] = queue[j]
                 PROVE  FALSE
      BY DEF B, ToSet
    <3>1. batch[i].id < queue[j].id  BY DEF OnceInv, InOrder
    <3>2. batch[i] \in Events  BY DEF TypeOK
    <3>3. batch[i].id \in Int  BY <3>2 DEF Events
    <3> QED  BY <3>1, <3>3
  <2>3. Alive = B \cup ToSet(queue)  BY DEF Alive, B
  <2>4. Alive' = ToSet(queue)  BY <2>1 DEF Alive
  <2> QED  BY <1>5, <2>2, <2>3, <2>4
<1>9. InOrder'  BY <1>2 DEF InOrder, Rising, OnceInv
<1> QED  BY <1>2, <1>7, <1>8, <1>9 DEF OnceInv

(* No step disturbs it. *)
LEMMA OnceStep == TypeOK /\ OnceInv /\ [Next]_vars => OnceInv'
<1> SUFFICES ASSUME TypeOK, OnceInv, [Next]_vars PROVE OnceInv'
  OBVIOUS
<1>1. CASE \E s \in Severities : Publish(s)  BY <1>1, PublishOnce
<1>2. CASE CollectBatch  BY <1>2, CollectOnce
<1>3. CASE AnswerBatch
  <2>1. PICK kept \in SUBSET ToSet(batch) :
           EndBatch(kept, "failed") /\ UNCHANGED <<queue, published>>
    BY <1>3 DEF AnswerBatch, BatchWritten, BatchRaises
  <2> QED  BY <2>1, EndBatchOnce
<1>4. CASE Stop \/ DrainTimeout
  <2>1. PICK kept \in SUBSET ToSet(batch) :
           EndBatch(kept, "lost") /\ UNCHANGED <<queue, published>>
    BY <1>4 DEF Stop, DrainTimeout, CancelBatch
  <2> QED  BY <2>1, EndBatchOnce
<1>5. CASE EndDrain \/ UNCHANGED vars
  <2>1. UNCHANGED <<batch, queue, fate, published>>  BY <1>5 DEF EndDrain, vars
  <2> QED  BY <2>1 DEF OnceInv, InOrder, Rising, Alive
<1> QED  BY <1>1, <1>2, <1>3, <1>4, <1>5 DEF Next

(* The events in the bus, one after the other. *)
LEMMA PendingIs ==
    ASSUME TypeOK
    PROVE  /\ ToSet(Pending) = Alive
           /\ InOrder => \A i, j \in DOMAIN Pending : i < j => Pending[i].id < Pending[j].id
<1> DEFINE b == Len(batch)
           q == Len(queue)
<1>1. /\ batch \in Seq(Events) /\ queue \in Seq(Events) /\ b \in Nat /\ q \in Nat
      /\ DOMAIN batch = 1 .. b /\ DOMAIN queue = 1 .. q
  BY DEF TypeOK
<1>2. /\ Pending \in Seq(Events) /\ Len(Pending) = b + q
      /\ \A i \in 1 .. b + q : Pending[i] = IF i <= b THEN batch[i] ELSE queue[i - b]
  BY <1>1 DEF Pending
<1>3. DOMAIN Pending = 1 .. b + q  BY <1>1, <1>2
<1> HIDE DEF b, q
<1>4. ASSUME NEW x PROVE x \in ToSet(Pending) <=> x \in Alive
  <2>1. x \in ToSet(Pending) <=> \E i \in 1 .. b + q : x = Pending[i]
    BY <1>3 DEF ToSet
  <2>2. x \in Alive <=> (\E i \in 1 .. b : x = batch[i]) \/ \E i \in 1 .. q : x = queue[i]
    BY <1>1 DEF Alive, ToSet
  <2>3. ASSUME NEW i \in 1 .. b + q
        PROVE  \/ i \in 1 .. b /\ Pending[i] = batch[i]
               \/ i - b \in 1 .. q /\ Pending[i] = queue[i - b]
    <3>1. CASE i <= b  BY <1>1, <1>2, <3>1
    <3>2. CASE ~(i <= b)
      <4>1. i - b \in 1 .. q  BY <1>1, <3>2
      <4> QED  BY <1>2, <3>2, <4>1
    <3> QED  BY <3>1, <3>2
  <2>4. \A i \in 1 .. b : i \in 1 .. b + q /\ Pending[i] = batch[i]  BY <1>1, <1>2
  <2>5. \A i \in 1 .. q : i + b \in 1 .. b + q /\ Pending[i + b] = queue[i]
    BY <1>1, <1>2
  <2>6. x \in ToSet(Pending) => x \in Alive  BY <2>1, <2>2, <2>3
  <2>7. (\E i \in 1 .. b : x = batch[i]) => x \in ToSet(Pending)  BY <2>1, <2>4
  <2>8. (\E i \in 1 .. q : x = queue[i]) => x \in ToSet(Pending)  BY <2>1, <2>5
  <2> QED  BY <2>2, <2>6, <2>7, <2>8
<1>5. ASSUME InOrder, NEW i \in 1 .. b + q, NEW j \in 1 .. b + q, i < j
      PROVE  Pending[i].id < Pending[j].id
  <2>1. CASE j <= b
    <3>1. i \in 1 .. b /\ j \in 1 .. b  BY <1>1, <1>5, <2>1
    <3>2. Pending[i] = batch[i] /\ Pending[j] = batch[j]  BY <1>1, <1>2, <1>5, <2>1
    <3>3. batch[i].id < batch[j].id  BY <1>1, <1>5, <3>1 DEF InOrder, Rising
    <3> QED  BY <3>2, <3>3
  <2>2. CASE i <= b /\ ~(j <= b)
    <3>1. i \in 1 .. b /\ j - b \in 1 .. q  BY <1>1, <2>2
    <3> QED  BY <1>1, <1>2, <1>5, <2>2, <3>1 DEF InOrder
  <2>3. CASE ~(i <= b)
    <3>1. i - b \in 1 .. q /\ j - b \in 1 .. q /\ i - b < j - b /\ ~(j <= b)
      BY <1>1, <1>5, <2>3
    <3> QED  BY <1>1, <1>2, <1>5, <2>3, <3>1 DEF InOrder, Rising
  <2> QED  BY <1>1, <2>1, <2>2, <2>3
<1> QED  BY <1>3, <1>4, <1>5

(* Nothing is in the bus at first. *)
LEMMA OnceStarts == Init => OnceInv
<1> SUFFICES ASSUME Init PROVE OnceInv
  OBVIOUS
<1>1. Alive = {} /\ InOrder  BY DEF Init, Alive, ToSet, InOrder, Rising
<1>2. Placed({}, [f \in Fates |-> {}], 0)  BY DEF Placed
<1> QED  BY <1>1, <1>2 DEF Init, OnceInv

(* EachEventOnce for every instance: through overflow, failing batches and  *)
(* shutdown each event is in one place, in order, or has come to one end.   *)
THEOREM OnceEach == Spec => []EachEventOnce
<1>1. Init => OnceInv
  BY OnceStarts
<1>2. TypeOK /\ OnceInv => EachEventOnce
  <2> SUFFICES ASSUME TypeOK, OnceInv PROVE EachEventOnce
    OBVIOUS
  <2>1. ToSet(Pending) = Alive  BY PendingIs
  <2>2. \A i, j \in DOMAIN Pending : i < j => Pending[i].id < Pending[j].id
    BY PendingIs DEF OnceInv
  <2>3. {e.id : e \in Alive \cup UNION {fate[f] : f \in Fates}} = 1 .. published
    <3>1. Placed(Alive, fate, published)  BY DEF OnceInv
    <3> QED  BY <3>1 DEF Placed
  <2>4. /\ \A f, g \in Fates : f # g => fate[f] \cap fate[g] = {}
        /\ \A f \in Fates : fate[f] \cap Alive = {}
    BY DEF OnceInv, Placed
  <2> QED  BY <2>1, <2>2, <2>3, <2>4 DEF EachEventOnce
<1> QED  BY <1>1, <1>2, OnceStep, TypeCorrect, PTL DEF Spec

-------------------------------------------------------------------------------
(* Queue and batch as one line: what is appended to the queue, or taken     *)
(* out of it, is appended to the line, or taken out of it.                  *)
LEMMA LineChanges ==
    ASSUME NEW b \in Seq(Events), NEW q \in Seq(Events)
    PROVE  /\ \A e \in Events : b \o Append(q, e) = Append(b \o q, e)
           /\ \A i \in 1 .. Len(q) : b \o RemoveAt(q, i) = RemoveAt(b \o q, Len(b) + i)
<1>1. ASSUME NEW e \in Events PROVE b \o Append(q, e) = Append(b \o q, e)
  OBVIOUS
<1>2. ASSUME NEW i \in 1 .. Len(q)
      PROVE  b \o RemoveAt(q, i) = RemoveAt(b \o q, Len(b) + i)
  <2> DEFINE r == RemoveAt(q, i)
             s == b \o q
             t == RemoveAt(s, Len(b) + i)
  <2>1. /\ r \in Seq(Events) /\ Len(r) = Len(q) - 1
        /\ \A j \in 1 .. Len(q) - 1 : r[j] = IF j < i THEN q[j] ELSE q[j + 1]
    BY RemoveAtTyped
  <2>2. /\ s \in Seq(Events) /\ Len(s) = Len(b) + Len(q)
        /\ \A j \in 1 .. Len(b) + Len(q) :
              s[j] = IF j <= Len(b) THEN b[j] ELSE q[j - Len(b)]
    BY ConcatProperties
  <2>3. Len(b) \in Nat /\ Len(q) \in Nat /\ Len(b) + i \in 1 .. Len(s)
    BY <2>2
  <2> HIDE DEF r, s
  <2>4. /\ t \in Seq(Events) /\ Len(t) = Len(s) - 1
        /\ \A j \in 1 .. Len(s) - 1 :
              t[j] = IF j < Len(b) + i THEN s[j] ELSE s[j + 1]
    BY <2>2, <2>3, RemoveAtTyped
  <2>5. /\ b \o r \in Seq(Events) /\ Len(b \o r) = Len(b) + Len(r)
        /\ \A j \in 1 .. Len(b) + Len(r) :
              (b \o r)[j] = IF j <= Len(b) THEN b[j] ELSE r[j - Len(b)]
    BY <2>1, ConcatProperties
  <2> HIDE DEF t
  <2>6. Len(b \o r) = Len(t)
    BY <2>1, <2>2, <2>3, <2>4, <2>5
  <2>7. ASSUME NEW j \in 1 .. Len(b \o r) PROVE (b \o r)[j] = t[j]
    <3>1. /\ j \in 1 .. Len(b) + Len(r) /\ j \in 1 .. Len(s) - 1
          /\ j \in 1 .. Len(b) + Len(q) /\ j + 1 \in 1 .. Len(b) + Len(q)
      BY <2>1, <2>2, <2>3, <2>5
    <3>2. CASE j <= Len(b)
      <4>1. j < Len(b) + i
        BY <2>3, <3>2
      <4> QED
        BY <2>2, <2>4, <2>5, <3>1, <3>2, <4>1
    <3>3. CASE ~(j <= Len(b)) /\ j < Len(b) + i
      <4>1. j - Len(b) \in 1 .. Len(q) - 1 /\ j - Len(b) < i
        BY <2>3, <3>1, <3>3
      <4>2. (b \o r)[j] = q[j - Len(b)]
        BY <2>1, <2>5, <3>1, <3>3, <4>1
      <4>3. t[j] = q[j - Len(b)]
        BY <2>2, <2>4, <3>1, <3>3
      <4> QED
        BY <4>2, <4>3
    <3>4. CASE ~(j < Len(b) + i)
      <4>1. /\ j - Len(b) \in 1 .. Len(q) - 1 /\ ~(j - Len(b) < i)
            /\ ~(j <= Len(b)) /\ ~(j + 1 <= Len(b))
            /\ (j + 1) - Len(b) = (j - Len(b)) + 1
        BY <2>1, <2>3, <3>1, <3>4
      <4>2. (b \o r)[j] = q[(j - Len(b)) + 1]
        BY <2>1, <2>5, <3>1, <4>1
      <4>3. t[j] = q[(j + 1) - Len(b)]
        BY <2>2, <2>4, <3>1, <3>4, <4>1
      <4> QED
        BY <4>1, <4>2, <4>3
    <3> QED
      BY <3>2, <3>3, <3>4
  <2>8. b \o r = t
    BY <2>4, <2>5, <2>6, <2>7, SeqEqual
  <2> QED
    BY <2>8 DEF r, s, t
<1> QED
  BY <1>1, <1>2

(* The batch is the front of the line, and the queue what follows it. *)
LEMMA LineParts ==
    ASSUME TypeOK
    PROVE  /\ Pending \in Seq(Events) /\ Len(batch) \in 0 .. Len(Pending)
           /\ Delivery!Front(Len(batch)) = ToSet(batch)
           /\ SubSeq(Pending, Len(batch) + 1, Len(Pending)) = queue
           /\ Delivery!Front(Len(Pending)) = Alive
<1> DEFINE b == Len(batch)
           q == Len(queue)
           rest == SubSeq(Pending, b + 1, Len(Pending))
<1>1. /\ batch \in Seq(Events) /\ queue \in Seq(Events) /\ b \in Nat /\ q \in Nat
      /\ DOMAIN batch = 1 .. b
  BY DEF TypeOK
<1>2. /\ Pending \in Seq(Events) /\ Len(Pending) = b + q
      /\ \A i \in 1 .. b + q : Pending[i] = IF i <= b THEN batch[i] ELSE queue[i - b]
  BY <1>1, ConcatProperties DEF Pending
<1>3. DOMAIN Pending = 1 .. Len(Pending)
  BY <1>2
<1>4. Delivery!Front(Len(Pending)) = Alive
  BY <1>3, PendingIs DEF Delivery!Front, ToSet
<1> HIDE DEF b, q
<1>5. \A i \in 1 .. b : Pending[i] = batch[i]
  BY <1>1, <1>2
<1>6. Delivery!Front(b) = ToSet(batch)
  BY <1>1, <1>5 DEF Delivery!Front, ToSet
<1>7. rest \in Seq(Events) /\ Len(rest) = q /\ \A i \in 1 .. q : rest[i] = Pending[b + i]
  BY <1>1, <1>2
<1>8. Len(queue) = q
  BY DEF q
<1> HIDE DEF rest
<1>9. ASSUME NEW i \in 1 .. q PROVE rest[i] = queue[i]
  <2>1. b + i \in 1 .. b + q /\ ~(b + i <= b) /\ (b + i) - b = i
    BY <1>1
  <2> QED
    BY <1>2, <1>7, <2>1
<1>10. rest = queue
  BY <1>1, <1>7, <1>8, <1>9, SeqEqual
<1> QED
  BY <1>1, <1>2, <1>4, <1>6, <1>10 DEF b, rest

(* A flush that takes a batch leaves the line as it is. *)
LEMMA CollectUnseen ==
    ASSUME TypeOK, CollectBatch
    PROVE  UNCHANGED <<Pending, fate, degraded>>
<1> DEFINE n == Len(batch')
           line == batch' \o queue'
<1>1. /\ queue \in Seq(Events) /\ batch' \in Seq(Events) /\ queue' \in Seq(Events)
      /\ n + Len(queue') = Len(queue)
      /\ \A i \in 1 .. n : batch'[i] = queue[i]
      /\ \A i \in 1 .. Len(queue') : queue'[i] = queue[i + n]
  BY CollectTyped DEF TypeOK
<1>2. n \in Nat /\ Len(queue') \in Nat
  BY <1>1
<1>3. /\ line \in Seq(Events) /\ Len(line) = n + Len(queue')
      /\ \A i \in 1 .. n + Len(queue') :
            line[i] = IF i <= n THEN batch'[i] ELSE queue'[i - n]
  BY <1>1, ConcatProperties
<1> HIDE DEF n, line
<1>4. ASSUME NEW i \in 1 .. Len(line) PROVE line[i] = queue[i]
  <2>1. i \in 1 .. n + Len(queue')
    BY <1>3
  <2>2. CASE i <= n
    BY <1>1, <1>2, <1>3, <2>1, <2>2
  <2>3. CASE ~(i <= n)
    <3>1. i - n \in 1 .. Len(queue') /\ (i - n) + n = i
      BY <1>2, <2>1, <2>3
    <3> QED
      BY <1>1, <1>3, <2>1, <2>3, <3>1
  <2> QED
    BY <2>2, <2>3
<1>5. line = queue
  BY <1>1, <1>3, <1>4, SeqEqual
<1>6. Pending = queue
  <2>1. batch = << >>
    BY DEF CollectBatch
  <2> QED
    BY <1>1, <2>1 DEF Pending
<1> QED
  BY <1>5, <1>6 DEF Pending, CollectBatch, line

(* publish() puts a new event into the line, in its own place or another's, *)
(* or refuses it.                                                           *)
LEMMA PublishDelivers ==
    ASSUME TypeOK, OnceInv, NEW s \in Severities, Publish(s)
    PROVE  Delivery!DeliveryNext
<1> DEFINE e == [id |-> published + 1, severity |-> s]
           crit == {x \in Events : IsCritical(x)}
<1>1. /\ e \in Events /\ e.id = published + 1 /\ published \in Nat
      /\ batch' = batch /\ queue \in Seq(Events) /\ batch \in Seq(Events)
      /\ fate \in [Fates -> SUBSET Events]
  BY ConstantsAssumption DEF TypeOK, Publish, Events
<1>2. Delivery!New(e)
  <2>1. Placed(Alive, fate, published)
    BY DEF OnceInv
  <2>2. e.id \notin 1 .. published
    BY <1>1
  <2> HIDE DEF e
  <2>3. e \notin Alive /\ \A f \in Fates : e \notin fate[f]
    BY <2>1, <2>2 DEF Placed
  <2> QED
    BY <2>3, LineParts DEF Delivery!New, Delivery!Ends, Fates
<1> HIDE DEF e
<1>3. CASE Enqueue(e)
  <2>1. Pending' = Append(Pending, e)
    BY <1>1, <1>3, LineChanges DEF Enqueue, Pending
  <2> QED
    BY <1>1, <1>2, <1>3, <2>1 DEF Enqueue, Delivery!DeliveryNext, Delivery!Take
<1>4. ASSUME NEW i \in DOMAIN queue, ~IsCritical(queue[i]),
             queue' = Append(RemoveAt(queue, i), e),
             EndAs("evicted", {queue[i]}), UNCHANGED degraded
      PROVE  Delivery!DeliveryNext
  <2> DEFINE j == Len(batch) + i
  <2>1. i \in 1 .. Len(queue) /\ RemoveAt(queue, i) \in Seq(Events)
    BY <1>1, <1>4, RemoveAtTyped
  <2>2. Pending' = Append(batch \o RemoveAt(queue, i), e)
    BY <1>1, <1>4, <2>1, LineChanges DEF Pending
  <2>3. Pending' = Append(RemoveAt(Pending, j), e)
    BY <1>1, <2>1, <2>2, LineChanges DEF Pending
  <2>4. j \in DOMAIN Pending /\ Pending[j] = queue[i]
    <3>1. /\ Pending \in Seq(Events) /\ Len(Pending) = Len(batch) + Len(queue)
          /\ \A k \in 1 .. Len(batch) + Len(queue) :
                Pending[k] = IF k <= Len(batch) THEN batch[k] ELSE queue[k - Len(batch)]
      BY <1>1, ConcatProperties DEF Pending
    <3>2. /\ j \in 1 .. Len(batch) + Len(queue) /\ ~(j <= Len(batch))
          /\ j - Len(batch) = i
      BY <1>1, <2>1
    <3> QED
      BY <3>1, <3>2
  <2> HIDE DEF j
  <2>5. Delivery!TakeFor(e, j)
    BY <1>4, <2>3, <2>4 DEF Delivery!TakeFor, RemoveAt, EndAs
  <2> QED
    BY <1>1, <1>2, <2>4, <2>5 DEF Delivery!DeliveryNext
<1>5. CASE ReplaceDiagnostic(e)
  <2> DEFINE i == First(InfoIn(queue))
  <2>1. i \in DOMAIN queue /\ IsInfo(queue[i])
    BY <1>5, FirstQueued DEF ReplaceDiagnostic, RoomByDiagnostic
  <2>2. ~IsCritical(queue[i])
    BY <2>1 DEF IsInfo, IsCritical
  <2> QED
    BY <1>4, <1>5, <2>1, <2>2 DEF ReplaceDiagnostic
<1>6. CASE ReplaceOldest(e)
  <2> DEFINE i == First(EvictableIn(queue))
  <2>1. i \in DOMAIN queue /\ ~IsCritical(queue[i])
    BY <1>6, FirstQueued DEF ReplaceOldest
  <2> QED
    BY <1>4, <1>6, <2>1 DEF ReplaceOldest
<1>7. CASE Reject(e)
  <2>1. degraded' = (degraded \/ e \in crit)
    BY <1>1, <1>7 DEF Reject, SignalFor
  <2>2. Delivery!Refuse(e)
    BY <1>1, <1>7, <2>1 DEF Reject, EndAs, Delivery!Refuse, Pending
  <2> QED
    BY <1>1, <1>2, <2>2 DEF Delivery!DeliveryNext
<1> QED
  BY <1>3, <1>5, <1>6, <1>7 DEF Publish, e

(* The end of a batch is the front of the line leaving. *)
LEMMA BatchLeaves ==
    ASSUME TypeOK, batch # << >>, NEW kept \in SUBSET ToSet(batch),
           NEW f \in {"failed", "lost"}, EndBatch(kept, f), UNCHANGED queue
    PROVE  /\ Len(batch) \in 1 .. Len(Pending)
           /\ kept \in SUBSET Delivery!Front(Len(batch))
           /\ Delivery!Leave(Len(batch), kept, f)
<1>1. /\ Pending \in Seq(Events) /\ Len(batch) \in 0 .. Len(Pending)
      /\ Delivery!Front(Len(batch)) = ToSet(batch)
      /\ SubSeq(Pending, Len(batch) + 1, Len(Pending)) = queue
  BY LineParts
<1>2. Len(batch) # 0
  BY DEF TypeOK
<1>3. Pending' = queue
  <2>1. batch' = << >> /\ queue' = queue /\ queue \in Seq(Events)
    BY DEF EndBatch, TypeOK
  <2> QED
    BY <2>1 DEF Pending
<1>4. Len(batch) \in 1 .. Len(Pending)
  BY <1>1, <1>2
<1> QED
  BY <1>1, <1>3, <1>4 DEF Delivery!Leave, EndBatch

(* The bus keeps its promise to publishers: every step of publish(), of the *)
(* flush loop and of shutdown is a step of the line of pending events, or   *)
(* one that nobody sees.                                                    *)
THEOREM Delivers == Spec => ImplementsDelivery
<1>1. Init => Delivery!DeliveryInit
  BY DEF Init, Delivery!DeliveryInit, Delivery!Ends, Fates, Pending
<1>2. TypeOK /\ OnceInv /\ [Next]_vars =>
        [Delivery!DeliveryNext]_(Delivery!deliveryVars)
  <2> SUFFICES ASSUME TypeOK, OnceInv, [Next]_vars
               PROVE  [Delivery!DeliveryNext]_(Delivery!deliveryVars)
    OBVIOUS
  <2>1. CASE \E s \in Severities : Publish(s)
    BY <2>1, PublishDelivers
  <2>2. CASE CollectBatch
    BY <2>2, CollectUnseen DEF Delivery!deliveryVars
  <2>3. CASE AnswerBatch
    <3>1. PICK kept \in SUBSET ToSet(batch) : BatchWritten(kept) \/ BatchRaises(kept)
      BY <2>3 DEF AnswerBatch
    <3>2. /\ Len(batch) \in 1 .. Len(Pending)
          /\ kept \in SUBSET Delivery!Front(Len(batch))
          /\ Delivery!Leave(Len(batch), kept, "failed")
      BY <3>1, BatchLeaves DEF BatchWritten, BatchRaises
    <3>3. Delivery!Front(Len(batch)) = ToSet(batch) /\ ToSet(batch) \subseteq Events
      BY LineParts DEF TypeOK, ToSet
    <3>4. \/ SignalFor(ToSet(batch))
          \/ UNCHANGED degraded /\ kept = ToSet(batch)
      BY <3>1 DEF BatchWritten, BatchRaises
    <3>5. Delivery!Answer(Len(batch), kept)
      BY <3>2, <3>3, <3>4 DEF Delivery!Answer, SignalFor
    <3> QED
      BY <3>2, <3>5 DEF Delivery!DeliveryNext
  <2>4. CASE Stop \/ DrainTimeout
    <3>1. PICK kept \in SUBSET ToSet(batch) : EndBatch(kept, "lost")
      BY <2>4 DEF Stop, DrainTimeout, CancelBatch
    <3>2. UNCHANGED <<queue, degraded>>
      BY <2>4 DEF Stop, DrainTimeout
    <3>3. CASE batch = << >>
      <4>1. ToSet(batch) = {} /\ batch' = batch
        BY <3>1, <3>3 DEF ToSet, EndBatch
      <4>2. kept = {}
        BY <4>1
      <4>3. fate' = fate
        BY <3>1, <4>1, <4>2 DEF EndBatch, TypeOK, Fates
      <4> QED
        BY <3>2, <4>1, <4>3 DEF Delivery!deliveryVars, Pending
    <3>4. CASE batch # << >>
      BY <3>1, <3>2, <3>4, BatchLeaves DEF Delivery!DeliveryNext, Delivery!Abandon
    <3> QED
      BY <3>3, <3>4
  <2>5. CASE EndDrain \/ UNCHANGED vars
    BY <2>5 DEF EndDrain, vars, Delivery!deliveryVars, Pending
  <2> QED
    BY <2>1, <2>2, <2>3, <2>4, <2>5 DEF Next
<1>3. Init => OnceInv
  BY OnceStarts
<1> QED
  BY <1>1, <1>2, <1>3, OnceStep, TypeCorrect, PTL DEF Spec, ImplementsDelivery, Delivery!DeliverySpec

(* What publishers may conclude from the promise alone. *)
Promised ==
    /\ Pending \in Seq(Events)
    /\ fate = [f \in Fates |-> fate[f]] /\ degraded \in BOOLEAN
    /\ NoneEvicted
    /\ FailClosed

(* A part of a line of events is one. *)
LEMMA LinePart ==
  ASSUME NEW s \in Seq(Events), NEW a \in 1 .. Len(s) + 1, NEW b \in 0 .. Len(s)
  PROVE  SubSeq(s, a, b) \in Seq(Events)
<1>1. \A i \in a .. b : s[i] \in Events
  OBVIOUS
<1> QED
  BY <1>1, SubSeqProperties

(* Every step that EventDelivery allows keeps it. *)
LEMMA PromisedStep ==
  Promised /\ [Delivery!DeliveryNext]_(Delivery!deliveryVars) => Promised'
<1> SUFFICES ASSUME Promised, [Delivery!DeliveryNext]_(Delivery!deliveryVars)
             PROVE  Promised'
  OBVIOUS
<1> DEFINE crit == {x \in Events : IsCritical(x)}
<1>a. /\ Pending \in Seq(Events) /\ Len(Pending) \in Nat
      /\ \A i \in 1 .. Len(Pending) : Pending[i] \in Events
      /\ DOMAIN Pending = 1 .. Len(Pending)
  BY DEF Promised
<1>b. /\ fate = [f \in Fates |-> fate[f]] /\ degraded \in BOOLEAN
      /\ NoneEvicted /\ FailClosed
  BY DEF Promised
<1>1. ASSUME NEW e \in Events, Delivery!Take(e) PROVE Promised'
  <2>1. Pending' \in Seq(Events) /\ fate' = fate /\ degraded' = degraded
    BY <1>1, <1>a, AppendProperties DEF Delivery!Take
  <2> QED
    BY <2>1, <1>b DEF Promised, NoneEvicted, FailClosed
<1>2. ASSUME NEW e \in Events, NEW i \in DOMAIN Pending, Delivery!TakeFor(e, i)
      PROVE  Promised'
  <2>1. /\ SubSeq(Pending, 1, i - 1) \in Seq(Events)
        /\ SubSeq(Pending, i + 1, Len(Pending)) \in Seq(Events)
    BY <1>a, LinePart
  <2>2. Pending' \in Seq(Events)
    BY <1>2, <2>1, ConcatProperties, AppendProperties DEF Delivery!TakeFor
  <2>3. /\ fate' = [fate EXCEPT !["evicted"] = @ \cup {Pending[i]}]
        /\ ~IsCritical(Pending[i]) /\ degraded' = degraded
    BY <1>2, <1>a DEF Delivery!TakeFor
  <2>4. /\ fate' = [f \in Fates |-> fate'[f]]
        /\ fate'["evicted"] = fate["evicted"] \cup {Pending[i]}
        /\ fate'["rejected"] = fate["rejected"] /\ fate'["failed"] = fate["failed"]
    BY <2>3, <1>b DEF Fates
  <2> QED
    BY <2>2, <2>3, <2>4, <1>b DEF Promised, NoneEvicted, FailClosed
<1>3. ASSUME NEW e \in Events, Delivery!Refuse(e) PROVE Promised'
  <2>1. /\ fate' = [fate EXCEPT !["rejected"] = @ \cup {e}]
        /\ degraded' = (degraded \/ IsCritical(e)) /\ Pending' = Pending
    BY <1>3 DEF Delivery!Refuse
  <2>2. /\ fate' = [f \in Fates |-> fate'[f]]
        /\ fate'["rejected"] = fate["rejected"] \cup {e}
        /\ fate'["evicted"] = fate["evicted"] /\ fate'["failed"] = fate["failed"]
    BY <2>1, <1>b DEF Fates
  <2> QED
    BY <2>1, <2>2, <1>a, <1>b DEF Promised, NoneEvicted, FailClosed
<1>4. ASSUME NEW n \in 1 .. Len(Pending), NEW kept \in SUBSET Delivery!Front(n),
             Delivery!Answer(n, kept) \/ Delivery!Abandon(n, kept)
      PROVE  Promised'
  <2>1. Pending' \in Seq(Events)
    <3>1. Pending' = SubSeq(Pending, n + 1, Len(Pending))
      BY <1>4 DEF Delivery!Answer, Delivery!Abandon, Delivery!Leave
    <3> QED
      BY <3>1, <1>a, LinePart
  <2>2. Delivery!Front(n) \subseteq Events
    BY <1>a DEF Delivery!Front
  <2>3. CASE Delivery!Answer(n, kept)
    <3>1. /\ fate' = [fate EXCEPT !["stored"] = @ \cup kept,
                                  !["failed"] = @ \cup (Delivery!Front(n) \ kept)]
          /\ degraded' \in {degraded, degraded \/ \E e \in Delivery!Front(n) : e \in crit}
          /\ (\E e \in Delivery!Front(n) \ kept : e \in crit) => degraded'
      BY <2>3 DEF Delivery!Answer, Delivery!Leave
    <3>3. degraded' \in BOOLEAN /\ (degraded => degraded')
      BY <3>1, <1>b
    <3>2. /\ fate' = [f \in Fates |-> fate'[f]]
          /\ fate'["failed"] = fate["failed"] \cup (Delivery!Front(n) \ kept)
          /\ fate'["evicted"] = fate["evicted"] /\ fate'["rejected"] = fate["rejected"]
      BY <3>1, <1>b DEF Fates
    <3> QED
      BY <2>1, <2>2, <3>1, <3>2, <3>3, <1>b DEF Promised, NoneEvicted, FailClosed
  <2>4. CASE Delivery!Abandon(n, kept)
    <3>1. /\ fate' = [fate EXCEPT !["stored"] = @ \cup kept,
                                  !["lost"] = @ \cup (Delivery!Front(n) \ kept)]
          /\ degraded' = degraded
      BY <2>4 DEF Delivery!Abandon, Delivery!Leave
    <3>2. /\ fate' = [f \in Fates |-> fate'[f]]
          /\ fate'["evicted"] = fate["evicted"] /\ fate'["rejected"] = fate["rejected"]
          /\ fate'["failed"] = fate["failed"]
      BY <3>1, <1>b DEF Fates
    <3> QED
      BY <2>1, <3>1, <3>2, <1>b DEF Promised, NoneEvicted, FailClosed
  <2> QED
    BY <1>4, <2>3, <2>4
<1>5. CASE UNCHANGED Delivery!deliveryVars
  BY <1>5, <1>a, <1>b DEF Delivery!deliveryVars, Promised, NoneEvicted, FailClosed
<1> QED
  BY <1>1, <1>2, <1>3, <1>4, <1>5 DEF Delivery!DeliveryNext

(* Fail-closed is part of the promise: whoever keeps EventDelivery tells of *)
(* every critical event that it refused or could not write, and evicts none *)
(* (publish(), _flush_batch()), however queue and batches are organised.    *)
THEOREM PromiseSignals == ImplementsDelivery => [](FailClosed /\ NoneEvicted)
<1>1. Delivery!DeliveryInit => Promised
  <2> SUFFICES ASSUME Delivery!DeliveryInit PROVE Promised
    OBVIOUS
  <2>1. /\ Pending = << >> /\ fate = [f \in Fates |-> {}] /\ degraded = FALSE
    BY DEF Delivery!DeliveryInit, Delivery!Ends, Fates
  <2>2. << >> \in Seq(Events) /\ fate = [f \in Fates |-> fate[f]]
    BY <2>1
  <2>3. degraded \in BOOLEAN
    <3>1. degraded = FALSE
      BY <2>1
    <3> QED
      BY <3>1
  <2>4. fate["evicted"] = {} /\ fate["rejected"] = {} /\ fate["failed"] = {}
    BY <2>1 DEF Fates
  <2> QED
    BY <2>1, <2>2, <2>3, <2>4 DEF Promised, NoneEvicted, FailClosed
<1>2. Promised => FailClosed /\ NoneEvicted
  BY DEF Promised
<1> QED
  BY <1>1, <1>2, PromisedStep, PTL DEF ImplementsDelivery, Delivery!DeliverySpec

-------------------------------------------------------------------------------
(* Market data.                                                             *)

(* The quarantine's share: every market counts at most Threshold failures,  *)
(* and fewer while it is not quarantined, whichever loops record them.      *)
Counted ==
    /\ QuarantineTypeOK
    /\ \A m \in Markets : entry[m] = "none" => failures[m] < Threshold

(* Looking a market up: without a quarantine its count is below the threshold. *)
LEMMA LookedCounts ==
  ASSUME Threshold \in Nat \ {0}, Counted, NEW m \in Markets, Looked(m)
  PROVE  Counted'
<1>1. CASE entry[m] = "over"
  BY <1>1 DEF Counted, Looked, QuarantineTypeOK
<1>2. CASE entry[m] # "over"
  BY <1>2 DEF Counted, Looked, QuarantineTypeOK
<1> QED
  BY <1>1, <1>2

(* A failure that reaches the threshold is a quarantine, and a success      *)
(* clears the count.                                                        *)
LEMMA ResultsCount ==
  ASSUME Threshold \in Nat \ {0}, Counted,
         NEW passed \in SUBSET Markets, NEW failed \in SUBSET Markets,
         RecordResults(passed, failed)
  PROVE  Counted'
<1> DEFINE counted == {m \in failed : ~IsQuarantined(m)}
<1>1. /\ failures' = [m \in Markets |-> IF m \in passed THEN 0
                                         ELSE IF m \in counted THEN Count(m)
                                         ELSE failures[m]]
      /\ entry' = [m \in Markets |->
                      IF m \in passed \/ (m \in counted /\ Count(m) < Threshold) THEN "none"
                      ELSE IF m \in counted THEN "active"
                      ELSE entry[m]]
  BY DEF RecordResults
<1>2. ASSUME NEW m \in Markets
      PROVE  failures[m] \in 0 .. Threshold /\ entry[m] \in {"none", "active", "over"}
  BY DEF Counted, QuarantineTypeOK
<1>3. ASSUME NEW m \in counted PROVE Count(m) \in 0 .. Threshold
  BY <1>2 DEF Counted, Count, IsQuarantined
<1> HIDE DEF counted
<1>4. ASSUME NEW m \in Markets
      PROVE  /\ failures'[m] \in 0 .. Threshold
             /\ entry'[m] \in {"none", "active", "over"}
             /\ entry'[m] = "none" => failures'[m] < Threshold
  <2>1. CASE m \in passed
    BY <1>1, <2>1
  <2>2. CASE m \notin passed /\ m \in counted
    BY <1>1, <1>3, <2>2
  <2>3. CASE m \notin passed /\ m \notin counted
    BY <1>1, <1>2, <2>3 DEF Counted
  <2> QED
    BY <2>1, <2>2, <2>3
<1>5. failures' \in [Markets -> 0 .. Threshold]
  BY <1>1, <1>4
<1>6. entry' \in [Markets -> {"none", "active", "over"}]
  BY <1>1, <1>4
<1> QED
  BY <1>4, <1>5, <1>6 DEF Counted, QuarantineTypeOK

(* A quarantine that ends keeps its count until the market is looked up. *)
LEMMA ExpiryCounts ==
  ASSUME Threshold \in Nat \ {0}, Counted, NEW m \in Markets, ExpireQuarantine(m)
  PROVE  Counted'
BY DEF Counted, ExpireQuarantine, QuarantineTypeOK

(* Every step keeps unquarantined markets below the threshold. *)
LEMMA CountedStep ==
  ASSUME Threshold \in Nat \ {0}, Counted, [FeedNext]_feedVars
  PROVE  Counted'
<1>1. CASE UNCHANGED quarantineVars
  BY <1>1 DEF Counted, QuarantineTypeOK, quarantineVars
<1>2. ASSUME NEW l \in Loops, NEW m \in Markets, BeginPreflight(l, m)
      PROVE  Counted'
  BY <1>2, LookedCounts DEF BeginPreflight
<1>3. ASSUME NEW l \in Loops, Conclude(l) PROVE Counted'
  <2>1. PICK passed \in SUBSET Markets, failed \in SUBSET Markets :
          RecordResults(passed, failed)
    BY <1>3 DEF Conclude
  <2> QED
    BY <2>1, ResultsCount
<1>4. ASSUME NEW m \in Markets, Expire(m) PROVE Counted'
  BY <1>4, ExpiryCounts DEF Expire
<1>5. ASSUME NEW l \in Loops,
             \/ StartDiscovery(l) \/ Batch(l)
             \/ \E m \in Markets : TimeoutPreflight(l, m) \/ AnswerPreflight(l, m)
      PROVE  Counted'
  BY <1>1, <1>5 DEF StartDiscovery, Batch, SendFails, SendUnsubscribe, SendSubscribe,
     FinishBatch, TimeoutPreflight, AnswerPreflight
<1>6. CASE Stream \/ Keepalive \/ Fault
  BY <1>1, <1>6 DEF Stream, Keepalive, Fault, Connect, SubscriptionFails, StreamEnds
<1>7. CASE UNCHANGED feedVars
  BY <1>1, <1>7 DEF feedVars
<1> QED
  BY <1>2, <1>3, <1>4, <1>5, <1>6, <1>7 DEF FeedNext, Looking

(* Shapes of the frames. *)
Framed == frame \in [Loops -> Frames]

(* A loop between rounds is well typed. *)
LEMMA IdleFrame ==
  ASSUME MaxConns \in Nat
  PROVE  /\ Idle \in Frames
         /\ Idle.stage = "idle" /\ Idle.result = [m \in Markets |-> "none"]
BY DEF Idle, Frames, Results

(* One loop moves, to a frame that is known. *)
LEMMA OneMoves ==
  ASSUME Framed, NEW l \in Loops, NEW f \in Frames, frame' = [frame EXCEPT ![l] = f]
  PROVE  /\ Framed' /\ frame'[l] = f
         /\ \A k \in Loops : k # l => frame'[k] = frame[k]
BY DEF Framed

(* A round starts with its candidates to be looked at. *)
LEMMA DiscoveryStarts ==
  ASSUME MaxConns \in Nat, Framed, NEW l \in Loops, StartDiscovery(l)
  PROVE  /\ Framed' /\ At(l, "idle")
         /\ \A k \in Loops : k # l => frame'[k] = frame[k]
         /\ frame'[l].stage = "preflight"
         /\ \A m \in Markets : frame'[l].result[m] \in {"todo", "none"}
<1>1. PICK candidates \in SUBSET Markets :
        frame' = [frame EXCEPT ![l] =
          [Idle EXCEPT !.stage = "preflight",
                       !.result = [m \in Markets |->
                                      IF m \in candidates THEN "todo" ELSE "none"]]]
  BY DEF StartDiscovery
<1> DEFINE g == [m \in Markets |-> IF m \in candidates THEN "todo" ELSE "none"]
           f == [Idle EXCEPT !.stage = "preflight", !.result = g]
<1>2. frame' = [frame EXCEPT ![l] = f]
  BY <1>1
<1>3. g \in [Markets -> Results] /\ \A m \in Markets : g[m] \in {"todo", "none"}
  BY DEF Results
<1> HIDE DEF g
<1>4. f \in Frames /\ f.stage = "preflight" /\ f.result = g
  BY <1>3, IdleFrame DEF Idle, Frames
<1> HIDE DEF f
<1> QED
  BY <1>2, <1>3, <1>4, OneMoves DEF StartDiscovery

(* What a frame becomes when the result of a market does. *)
LEMMA ResultSet ==
  ASSUME Framed, NEW l \in Loops, NEW m \in Markets, NEW r \in Results, SetResult(l, m, r)
  PROVE  /\ Framed'
         /\ \A k \in Loops : k # l => frame'[k] = frame[k]
         /\ frame'[l] = [frame[l] EXCEPT !.result = frame'[l].result]
         /\ frame'[l].result[m] = r
         /\ \A n \in Markets : n # m => frame'[l].result[n] = frame[l].result[n]
<1> DEFINE g == [frame[l].result EXCEPT ![m] = r]
           f == [frame[l] EXCEPT !.result = g]
<1>1. frame' = [frame EXCEPT ![l] = f]
  BY DEF SetResult
<1>2. frame[l] \in Frames
  BY DEF Framed
<1>3. g \in [Markets -> Results]
      /\ g[m] = r /\ \A n \in Markets : n # m => g[n] = frame[l].result[n]
  BY <1>2 DEF Frames
<1> HIDE DEF g
<1>4. f \in Frames /\ f.result = g /\ f = [frame[l] EXCEPT !.result = f.result]
  BY <1>2, <1>3 DEF Frames
<1> HIDE DEF f
<1>5. Framed' /\ frame'[l] = f /\ \A k \in Loops : k # l => frame'[k] = frame[k]
  BY <1>1, <1>4, OneMoves
<1>6. frame'[l].result = g
  BY <1>4, <1>5
<1> QED
  BY <1>3, <1>4, <1>5, <1>6

(* A batch on its way loses a part of what it has still to send. *)
LEMMA BatchGoesOn ==
  ASSUME Framed, NEW l \in Loops,
         \/ frame' = [frame EXCEPT ![l].out = {}]
         \/ frame' = [frame EXCEPT ![l].in = {}]
  PROVE  /\ Framed'
         /\ \A k \in Loops : k # l => frame'[k] = frame[k]
         /\ frame'[l].stage = frame[l].stage /\ frame'[l].result = frame[l].result
         /\ frame'[l].want = frame[l].want /\ frame'[l].conn = frame[l].conn
         /\ \/ frame' = [frame EXCEPT ![l].out = {}]
               /\ frame'[l].out = {} /\ frame'[l].in = frame[l].in
            \/ frame' = [frame EXCEPT ![l].in = {}]
               /\ frame'[l].in = {} /\ frame'[l].out = frame[l].out
<1>1. frame[l] \in Frames
  BY DEF Framed
<1>2. CASE frame' = [frame EXCEPT ![l].out = {}]
  <2> DEFINE f == [frame[l] EXCEPT !.out = {}]
  <2>1. frame' = [frame EXCEPT ![l] = f]
    BY <1>2
  <2>2. /\ f \in Frames /\ f.stage = frame[l].stage /\ f.result = frame[l].result
        /\ f.want = frame[l].want /\ f.conn = frame[l].conn
        /\ f.out = {} /\ f.in = frame[l].in
    BY <1>1 DEF Frames
  <2> HIDE DEF f
  <2> QED
    BY <1>2, <2>1, <2>2, OneMoves
<1>3. CASE frame' = [frame EXCEPT ![l].in = {}]
  <2> DEFINE f == [frame[l] EXCEPT !.in = {}]
  <2>1. frame' = [frame EXCEPT ![l] = f]
    BY <1>3
  <2>2. /\ f \in Frames /\ f.stage = frame[l].stage /\ f.result = frame[l].result
        /\ f.want = frame[l].want /\ f.conn = frame[l].conn
        /\ f.in = {} /\ f.out = frame[l].out
    BY <1>1 DEF Frames
  <2> HIDE DEF f
  <2> QED
    BY <1>3, <2>1, <2>2, OneMoves
<1> QED
  BY <1>2, <1>3

(* A batch as subscribe_batch() begins it: there is one if the client is    *)
(* connected and has recorded something else.                               *)
LEMMA BatchBegins ==
  ASSUME MaxConns \in Nat, NEW s \in SUBSET Markets, subscribed \in SUBSET Markets,
         ws \in 0 .. MaxConns
  PROVE  /\ Begun(s) \in Frames
         /\ Begun(s).result = [m \in Markets |-> "none"]
         /\ Begun(s).stage \in {"idle", "batch"}
         /\ Begun(s).stage = "batch" =>
              /\ Begun(s).want = s /\ Begun(s).conn = ws
              /\ Begun(s).out = subscribed \ s /\ Begun(s).in = s \ subscribed
         /\ ws # 0 /\ subscribed # s => Begun(s).stage = "batch"
<1>1. CASE ws = 0 \/ subscribed = s
  BY <1>1, IdleFrame DEF Begun
<1>2. CASE ws # 0 /\ subscribed # s
  BY <1>2 DEF Begun, Idle, Frames, Results
<1> QED
  BY <1>1, <1>2

(* The end of a round activates no more markets than are allowed, and only  *)
(* a market of its own that passed leaves quarantine.                       *)
LEMMA Concludes ==
  ASSUME MarketDataAssumption, NEW l \in Loops, Conclude(l)
  PROVE  /\ At(l, "preflight")
         /\ UNCHANGED <<subscribed, ws, stream, conn, link, server>>
         /\ \E s \in SUBSET Markets :
              /\ Cardinality(s) <= MaxActive /\ active' = s
              /\ \/ /\ s = active /\ UNCHANGED <<assets, contested>>
                    /\ frame' = [frame EXCEPT ![l] = Idle]
                 \/ /\ assets' = s /\ contested' = contested \cup Disputed(Loops \ {l}, s)
                    /\ frame' = [frame EXCEPT ![l] = Begun(s)]
         /\ \A m \in Markets : IsQuarantined(m) /\ Result(l, m) # "eligible"
                                 => entry'[m] = entry[m]
<1> DEFINE With(r) == {m \in Markets : Result(l, m) = r}
<1>1. RecordResults(With("eligible"), With("refused"))
  BY DEF Conclude
<1>2. PICK s \in Activated(l, With("eligible")) : Activate(l, s)
  BY DEF Conclude
<1>3. s \in SUBSET Markets /\ Cardinality(s) <= MaxActive
  BY MarketDataAssumption DEF Activated, MarketDataAssumption
<1>4. \/ /\ s = active /\ UNCHANGED <<assets, contested>>
         /\ frame' = [frame EXCEPT ![l] = Idle]
      \/ /\ assets' = s /\ contested' = contested \cup Disputed(Loops \ {l}, s)
         /\ frame' = [frame EXCEPT ![l] = Begun(s)]
  BY <1>2 DEF Activate
<1>5. active' = s /\ UNCHANGED <<subscribed, ws, stream, conn, link, server>>
  BY <1>2 DEF Activate
<1>6. ASSUME NEW m \in Markets, IsQuarantined(m), Result(l, m) # "eligible"
      PROVE  entry'[m] = entry[m]
  BY <1>1, <1>6 DEF RecordResults
<1> QED
  BY <1>3, <1>4, <1>5, <1>6 DEF Conclude

(* Every step keeps the types, the history of quarantines apart. *)
LEMMA FeedTypeStep ==
  ASSUME FeedTypeOK, [FeedNext]_feedVars
  PROVE  Framed' /\ active' \in SUBSET Markets /\ Cardinality(active') <= MaxActive
         /\ assets' \in SUBSET Markets /\ subscribed' \in SUBSET Markets
         /\ ws' \in {0, conn'} /\ stream' \in {"down", "open"}
         /\ conn' \in 0 .. MaxConns /\ link' \in {"up", "silent", "gone"}
         /\ server' \in SUBSET Markets /\ contested' \in SUBSET Markets
<1> USE MarketDataAssumption DEF MarketDataAssumption
<1>1. Framed /\ Idle \in Frames /\ ws \in 0 .. MaxConns
  BY IdleFrame DEF FeedTypeOK, Framed
<1>2. ASSUME NEW l \in Loops, StartDiscovery(l) PROVE Framed'
  BY <1>1, <1>2, DiscoveryStarts
<1>3. ASSUME NEW l \in Loops, NEW m \in Markets,
             BeginPreflight(l, m) \/ TimeoutPreflight(l, m) \/ AnswerPreflight(l, m)
      PROVE  Framed'
  <2>1. \E r \in Results : SetResult(l, m, r)
    BY <1>3 DEF BeginPreflight, TimeoutPreflight, AnswerPreflight, Results
  <2> QED
    BY <1>1, <2>1, ResultSet
<1>4. ASSUME NEW l \in Loops, Conclude(l)
      PROVE  /\ Framed' /\ active' \in SUBSET Markets /\ Cardinality(active') <= MaxActive
             /\ assets' \in SUBSET Markets /\ contested' \in SUBSET Markets
             /\ UNCHANGED <<subscribed, ws, stream, conn, link, server>>
  <2>1. PICK s \in SUBSET Markets :
          /\ Cardinality(s) <= MaxActive /\ active' = s
          /\ \/ /\ s = active /\ UNCHANGED <<assets, contested>>
                /\ frame' = [frame EXCEPT ![l] = Idle]
             \/ /\ assets' = s /\ contested' = contested \cup Disputed(Loops \ {l}, s)
                /\ frame' = [frame EXCEPT ![l] = Begun(s)]
    BY <1>4, Concludes
  <2>2. Begun(s) \in Frames
    BY <1>1, BatchBegins DEF FeedTypeOK
  <2>3. Framed'
    BY <1>1, <2>1, <2>2, OneMoves
  <2>4. Disputed(Loops \ {l}, s) \in SUBSET Markets
    BY DEF Disputed
  <2> QED
    BY <1>4, <2>1, <2>3, <2>4, Concludes DEF FeedTypeOK
<1>5. ASSUME NEW l \in Loops, SendUnsubscribe(l) \/ SendSubscribe(l)
      PROVE  Framed' /\ server' \in SUBSET Markets
  <2>1. Framed'
    BY <1>1, <1>5, BatchGoesOn DEF SendUnsubscribe, SendSubscribe
  <2>2. frame[l].in \in SUBSET Markets
    BY <1>1 DEF Framed, Frames
  <2> QED
    BY <1>5, <2>1, <2>2 DEF SendUnsubscribe, SendSubscribe, FeedTypeOK
<1>6. ASSUME NEW l \in Loops, SendFails(l) \/ FinishBatch(l)
      PROVE  Framed' /\ assets' \in SUBSET Markets /\ subscribed' \in SUBSET Markets
  <2>1. Framed'
    BY <1>1, <1>6, OneMoves DEF SendFails, FinishBatch
  <2>2. frame[l].want \in SUBSET Markets
    BY <1>1 DEF Framed, Frames
  <2> QED
    BY <1>6, <2>1, <2>2 DEF SendFails, FinishBatch, FeedTypeOK, clientVars
<1>7. CASE Stream \/ Keepalive \/ Fault
  <2>1. CASE Connect
    BY <1>1, <2>1 DEF Connect, Opened, FeedTypeOK, Framed, Unsettled, Disputed
  <2>2. CASE SubscriptionFails
    BY <1>1, <2>2 DEF SubscriptionFails, Opened, FeedTypeOK, Framed
  <2>3. CASE StreamEnds
    BY <1>1, <2>3 DEF StreamEnds, FeedTypeOK, Framed
  <2>4. CASE Keepalive
    BY <1>1, <2>4 DEF Keepalive, FeedTypeOK, Framed
  <2>5. CASE Fault
    BY <1>1, <2>5 DEF Fault, FeedTypeOK, Framed
  <2> QED
    BY <1>7, <2>1, <2>2, <2>3, <2>4, <2>5 DEF Stream
<1>8. CASE UNCHANGED feedVars
  BY <1>1, <1>8 DEF feedVars, clientVars, FeedTypeOK, Framed
<1> QED
  <2>1. CASE \E l \in Loops : StartDiscovery(l)
    BY <1>2, <2>1 DEF StartDiscovery, clientVars, FeedTypeOK
  <2>2. CASE \E l \in Loops, m \in Markets :
               BeginPreflight(l, m) \/ TimeoutPreflight(l, m) \/ AnswerPreflight(l, m)
    <3>1. UNCHANGED <<active, clientVars>>
      BY <2>2 DEF BeginPreflight, TimeoutPreflight, AnswerPreflight
    <3> QED
      BY <1>3, <2>2, <3>1 DEF clientVars, FeedTypeOK
  <2>3. CASE \E l \in Loops : Conclude(l)
    BY <1>4, <2>3 DEF FeedTypeOK
  <2>4. CASE \E l \in Loops : SendUnsubscribe(l) \/ SendSubscribe(l)
    BY <1>5, <2>4 DEF SendUnsubscribe, SendSubscribe, FeedTypeOK
  <2>5. CASE \E l \in Loops : SendFails(l) \/ FinishBatch(l)
    BY <1>6, <2>5 DEF SendFails, FinishBatch, FeedTypeOK, clientVars
  <2>6. CASE \E m \in Markets : Expire(m)
    BY <1>1, <2>6 DEF Expire, clientVars, FeedTypeOK, Framed
  <2> QED
    BY <1>7, <1>8, <2>1, <2>2, <2>3, <2>4, <2>5, <2>6 DEF FeedNext, Looking, Batch

(* The feed starts well typed. *)
LEMMA FeedStartsTyped == FeedInit => FeedTypeOK /\ Counted
<1> USE MarketDataAssumption DEF MarketDataAssumption
<1> SUFFICES ASSUME FeedInit PROVE FeedTypeOK /\ Counted
  OBVIOUS
<1>1. Counted
  BY QuarantineAssumption DEF FeedInit, QuarantineInit, Counted, QuarantineTypeOK,
     QuarantineAssumption
<1>2. frame \in [Loops -> Frames]
  BY IdleFrame DEF FeedInit
<1>3. /\ active \in SUBSET Markets /\ Cardinality(active) <= MaxActive
      /\ assets = active /\ subscribed = {} /\ server = {} /\ contested = {}
  BY DEF FeedInit
<1>4. ws = 0 /\ conn = 0 /\ stream = "down" /\ link = "gone"
  BY DEF FeedInit
<1>5. /\ ws \in {0, conn} /\ conn \in 0 .. MaxConns
      /\ stream \in {"down", "open"} /\ link \in {"up", "silent", "gone"}
  BY <1>4
<1>6. /\ active \in SUBSET Markets /\ assets \in SUBSET Markets
      /\ subscribed \in SUBSET Markets /\ server \in SUBSET Markets
      /\ contested \in SUBSET Markets
  BY <1>3
<1>7. QuarantineTypeOK
  BY <1>1 DEF Counted
<1> QED
  BY <1>1, <1>2, <1>3, <1>5, <1>6, <1>7, Zenon DEF FeedTypeOK

(* Types and counts are kept together. *)
LEMMA FeedTyped == FeedTypeOK /\ Counted /\ [FeedNext]_feedVars => FeedTypeOK' /\ Counted'
<1> SUFFICES ASSUME FeedTypeOK, Counted, [FeedNext]_feedVars
             PROVE  FeedTypeOK' /\ Counted'
  OBVIOUS
<1>1. Counted'
  BY CountedStep, QuarantineAssumption DEF QuarantineAssumption
<1>2. QuarantineTypeOK'
  BY <1>1 DEF Counted
<1> QED
  BY <1>1, <1>2, FeedTypeStep DEF FeedTypeOK, Framed

(* MarketData stays well typed with both loops: no more markets are active *)
(* than max_concurrent_markets, whatever the rounds that overlap, and no   *)
(* market has more failures counted than put it into quarantine.           *)
THEOREM FeedTypeCorrect == FeedSpec => []FeedTypeOK
  BY FeedStartsTyped, FeedTyped, PTL DEF FeedSpec

-------------------------------------------------------------------------------
(* What the loops and the exchange agree on.                                *)

(* A batch that can still change what the exchange sends. *)
Sending(l) == Batching(l) /\ frame[l].conn = conn

Linked == stream = "open" => ws = conn /\ conn # 0

(* A batch gives up no market it wants and asks for no other. *)
Consistent(l) ==
    Batching(l) => frame[l].out \cap frame[l].want = {} /\ frame[l].in \subseteq frame[l].want

(* An uncontested market is either everywhere as it is in active_markets,   *)
(* or a batch on the present connection will see to it.                     *)
Settled(m) ==
    /\ m \in assets <=> m \in active
    /\ \A l \in Loops : Batching(l) => (m \in frame[l].want <=> m \in active)
    /\ stream = "open" /\ link = "up" =>
         /\ (m \in subscribed <=> m \in active) \/ \E l \in Loops : Sending(l)
         /\ \/ m \in server <=> m \in active
            \/ \E l \in Loops : Sending(l) /\ m \in frame[l].out \cup frame[l].in

FeedInv ==
    /\ FeedTypeOK /\ Counted
    /\ Linked
    /\ \A l \in Loops : Consistent(l)
    /\ \A m \in Markets \ contested : Settled(m)

(* Steps of a loop that is not sending disturb no batch.                    *)
LEMMA PreflightSettles ==
  ASSUME FeedInv, NEW l \in Loops, ~Batching(l), ~Batching(l)',
         \A k \in Loops : k # l => frame'[k] = frame[k],
         UNCHANGED <<active, clientVars>>
  PROVE  /\ Linked' /\ (\A k \in Loops : Consistent(k)')
         /\ \A m \in Markets \ contested' : Settled(m)'
<1>1. Linked'
  BY DEF FeedInv, Linked, clientVars
<1>2. \A k \in Loops : Batching(k)' => Batching(k) /\ frame'[k] = frame[k]
  BY DEF Batching, At
<1>3. \A k \in Loops : Consistent(k)'
  BY <1>2 DEF FeedInv, Consistent
<1>4. \A k \in Loops : Sending(k) => Sending(k)' /\ frame'[k] = frame[k]
  BY DEF Sending, Batching, At, clientVars
<1>5. ASSUME NEW m \in Markets \ contested' PROVE Settled(m)'
  <2>1. Settled(m) /\ UNCHANGED <<active, assets, subscribed, stream, link, server>>
    BY DEF FeedInv, clientVars
  <2> QED
    BY <1>2, <1>4, <2>1 DEF Settled
<1> QED
  BY <1>1, <1>3, <1>5

(* The end of a round: what it changes about an uncontested market, no     *)
(* other batch was about to change, and its own batch sends.               *)
LEMMA ConcludeSettles ==
  ASSUME FeedInv, NEW l \in Loops, Conclude(l)
  PROVE  /\ Linked' /\ (\A k \in Loops : Consistent(k)')
         /\ \A m \in Markets \ contested' : Settled(m)'
<1>1. /\ At(l, "preflight")
      /\ UNCHANGED <<subscribed, ws, stream, conn, link, server>>
  BY Concludes, MarketDataAssumption
<1>2. PICK s \in SUBSET Markets :
        /\ Cardinality(s) <= MaxActive /\ active' = s
        /\ \/ /\ s = active /\ UNCHANGED <<assets, contested>>
              /\ frame' = [frame EXCEPT ![l] = Idle]
           \/ /\ assets' = s /\ contested' = contested \cup Disputed(Loops \ {l}, s)
              /\ frame' = [frame EXCEPT ![l] = Begun(s)]
  BY Concludes, MarketDataAssumption
<1>3. Framed /\ MaxConns \in Nat /\ subscribed \in SUBSET Markets /\ ws \in 0 .. MaxConns
  BY MarketDataAssumption DEF FeedInv, FeedTypeOK, Framed, MarketDataAssumption
<1>4. ~Batching(l)
  BY <1>1 DEF Batching, At
<1>5. Linked'
  BY <1>1 DEF FeedInv, Linked
<1>6. CASE s = active /\ UNCHANGED <<assets, contested>> /\ frame' = [frame EXCEPT ![l] = Idle]
  <2>1. /\ frame'[l] = Idle /\ Idle.stage = "idle"
        /\ \A k \in Loops : k # l => frame'[k] = frame[k]
    BY <1>3, <1>6, IdleFrame, OneMoves
  <2>2. ~Batching(l)'
    BY <2>1 DEF Batching, At
  <2>3. UNCHANGED <<active, clientVars>>
    BY <1>1, <1>2, <1>6 DEF clientVars
  <2> QED
    BY <1>4, <2>1, <2>2, <2>3, PreflightSettles
<1>7. CASE /\ assets' = s /\ contested' = contested \cup Disputed(Loops \ {l}, s)
           /\ frame' = [frame EXCEPT ![l] = Begun(s)]
  <2>1. /\ Begun(s) \in Frames
        /\ Begun(s).stage \in {"idle", "batch"}
        /\ Begun(s).stage = "batch" =>
             /\ Begun(s).want = s /\ Begun(s).conn = ws
             /\ Begun(s).out = subscribed \ s /\ Begun(s).in = s \ subscribed
        /\ ws # 0 /\ subscribed # s => Begun(s).stage = "batch"
    BY <1>3, BatchBegins
  <2>2. frame'[l] = Begun(s) /\ \A k \in Loops : k # l => frame'[k] = frame[k]
    BY <1>3, <1>7, <2>1, OneMoves
  <2>3. \A k \in Loops : k # l => (Batching(k)' <=> Batching(k)) /\ (Sending(k)' <=> Sending(k))
    BY <1>1, <2>2 DEF Batching, Sending, At
  <2>4. /\ Batching(l)' => /\ frame'[l].want = s /\ frame'[l].conn = ws
                           /\ frame'[l].out = subscribed \ s /\ frame'[l].in = s \ subscribed
        /\ ws # 0 /\ subscribed # s => Batching(l)'
    BY <2>1, <2>2 DEF Batching, At
  <2>5. ASSUME NEW k \in Loops PROVE Consistent(k)'
    <3>1. CASE k = l
      BY <2>4, <3>1 DEF Consistent
    <3>2. CASE k # l
      BY <2>2, <2>3, <3>2 DEF FeedInv, Consistent
    <3> QED
      BY <3>1, <3>2
  <2>6. ASSUME NEW m \in Markets \ contested' PROVE Settled(m)'
    <3>1. /\ Settled(m)
          /\ \A k \in Loops \ {l} : Batching(k) => (m \in frame[k].want <=> m \in s)
      BY <1>7 DEF FeedInv, Disputed
    <3>2. \A k \in Loops : Batching(k)' => (m \in frame'[k].want <=> m \in s)
      BY <2>2, <2>3, <2>4, <3>1
    <3>3. ASSUME stream = "open", link = "up"
          PROVE  /\ (m \in subscribed <=> m \in s) \/ \E k \in Loops : Sending(k)'
                 /\ \/ m \in server <=> m \in s
                    \/ \E k \in Loops : Sending(k)' /\ m \in frame'[k].out \cup frame'[k].in
      <4>1. CASE m \in active <=> m \in s
        <5>1. ASSUME NEW k \in Loops, Sending(k)
              PROVE  Sending(k)' /\ frame'[k] = frame[k]
          BY <1>4, <2>2, <2>3, <5>1 DEF Sending
        <5> QED
          BY <3>1, <3>3, <4>1, <5>1 DEF Settled
      <4>2. CASE ~(m \in active <=> m \in s)
        <5>1. \A k \in Loops : ~Batching(k)
          BY <1>4, <3>1, <4>2 DEF Settled
        <5>2. (m \in subscribed <=> m \in active) /\ (m \in server <=> m \in active)
          BY <3>1, <3>3, <5>1 DEF Settled, Sending
        <5>3. subscribed # s /\ ws # 0 /\ ws = conn
          BY <3>3, <4>2, <5>2 DEF FeedInv, Linked
        <5>4. Sending(l)' /\ m \in frame'[l].out \cup frame'[l].in
          BY <1>1, <2>4, <4>2, <5>2, <5>3 DEF Sending
        <5> QED
          BY <5>4
      <4> QED
        BY <4>1, <4>2
    <3> QED
      BY <1>1, <1>2, <1>7, <3>2, <3>3 DEF Settled
  <2> QED
    BY <1>5, <2>5, <2>6
<1> QED
  BY <1>2, <1>6, <1>7

(* A message changes what the exchange sends of the markets it names, and   *)
(* those become what its batch wants, which is what every batch wants.      *)
LEMMA SendSettles ==
  ASSUME FeedInv, NEW l \in Loops, SendUnsubscribe(l) \/ SendSubscribe(l)
  PROVE  /\ Linked' /\ (\A k \in Loops : Consistent(k)')
         /\ \A m \in Markets \ contested' : Settled(m)'
<1>1. /\ Batching(l)
      /\ UNCHANGED <<active, assets, subscribed, ws, stream, conn, link, contested>>
  BY DEF SendUnsubscribe, SendSubscribe
<1>2. Framed
  BY DEF FeedInv, FeedTypeOK, Framed
<1>3. Linked'
  BY <1>1 DEF FeedInv, Linked
<1>4. /\ \A k \in Loops : k # l => frame'[k] = frame[k]
      /\ frame'[l].stage = frame[l].stage
      /\ frame'[l].want = frame[l].want /\ frame'[l].conn = frame[l].conn
  BY <1>2, BatchGoesOn DEF SendUnsubscribe, SendSubscribe
<1>5. \A k \in Loops : /\ Batching(k)' <=> Batching(k)
                       /\ Sending(k)' <=> Sending(k)
                       /\ frame'[k].want = frame[k].want
  BY <1>1, <1>4 DEF Batching, Sending, At
<1>6. CASE SendUnsubscribe(l)
  <2>1. frame'[l].out = {} /\ frame'[l].in = frame[l].in
    <3>1. frame[l] \in Frames /\ frame' = [frame EXCEPT ![l].out = {}]
      BY <1>2, <1>6 DEF Framed, SendUnsubscribe
    <3> QED
      BY <1>2, <3>1 DEF Framed, Frames
  <2>2. server' = IF link = "up" THEN server \ frame[l].out ELSE server
    BY <1>6 DEF SendUnsubscribe
  <2>3. \A k \in Loops : Consistent(k)'
    BY <1>4, <1>5, <2>1 DEF FeedInv, Consistent
  <2>4. ASSUME NEW m \in Markets \ contested' PROVE Settled(m)'
    <3>1. Settled(m)
      BY <1>1 DEF FeedInv
    <3>2. m \in frame[l].out => m \notin active
      BY <1>1, <3>1 DEF FeedInv, Consistent, Settled
    <3>3. ASSUME stream = "open", link = "up"
          PROVE  \/ m \in server' <=> m \in active
                 \/ \E k \in Loops : Sending(k)' /\ m \in frame'[k].out \cup frame'[k].in
      <4>1. CASE m \in frame[l].out
        BY <2>2, <3>2, <3>3, <4>1
      <4>2. CASE m \notin frame[l].out
        <5>1. m \in server' <=> m \in server
          BY <2>2, <4>2
        <5>2. ASSUME NEW k \in Loops, Sending(k), m \in frame[k].out \cup frame[k].in
              PROVE  Sending(k)' /\ m \in frame'[k].out \cup frame'[k].in
          BY <1>4, <1>5, <2>1, <4>2, <5>2
        <5> QED
          BY <3>1, <3>3, <5>1, <5>2 DEF Settled
      <4> QED
        BY <4>1, <4>2
    <3> QED
      BY <1>1, <1>5, <3>1, <3>3 DEF Settled
  <2> QED
    BY <1>3, <2>3, <2>4
<1>7. CASE SendSubscribe(l)
  <2>1. frame[l].out = {} /\ frame'[l].out = {} /\ frame'[l].in = {}
    <3>1. /\ frame[l] \in Frames /\ frame' = [frame EXCEPT ![l].in = {}]
          /\ frame[l].out = {}
      BY <1>2, <1>7 DEF Framed, SendSubscribe
    <3> QED
      BY <1>2, <3>1 DEF Framed, Frames
  <2>2. server' = IF link = "up" THEN server \cup frame[l].in ELSE server
    BY <1>7 DEF SendSubscribe
  <2>3. \A k \in Loops : Consistent(k)'
    BY <1>4, <1>5, <2>1 DEF FeedInv, Consistent
  <2>4. ASSUME NEW m \in Markets \ contested' PROVE Settled(m)'
    <3>1. Settled(m)
      BY <1>1 DEF FeedInv
    <3>2. m \in frame[l].in => m \in active
      BY <1>1, <3>1 DEF FeedInv, Consistent, Settled
    <3>3. ASSUME stream = "open", link = "up"
          PROVE  \/ m \in server' <=> m \in active
                 \/ \E k \in Loops : Sending(k)' /\ m \in frame'[k].out \cup frame'[k].in
      <4>1. CASE m \in frame[l].in
        BY <2>2, <3>2, <3>3, <4>1
      <4>2. CASE m \notin frame[l].in
        <5>1. m \in server' <=> m \in server
          BY <2>2, <4>2
        <5>2. ASSUME NEW k \in Loops, Sending(k), m \in frame[k].out \cup frame[k].in
              PROVE  Sending(k)' /\ m \in frame'[k].out \cup frame'[k].in
          BY <1>4, <1>5, <2>1, <4>2, <5>2
        <5> QED
          BY <3>1, <3>3, <5>1, <5>2 DEF Settled
      <4> QED
        BY <4>1, <4>2
    <3> QED
      BY <1>1, <1>5, <3>1, <3>3 DEF Settled
  <2> QED
    BY <1>3, <2>3, <2>4
<1> QED
  BY <1>6, <1>7

(* A batch that ends has sent everything, or had no connection left.        *)
LEMMA BatchEndSettles ==
  ASSUME FeedInv, NEW l \in Loops, SendFails(l) \/ FinishBatch(l)
  PROVE  /\ Linked' /\ (\A k \in Loops : Consistent(k)')
         /\ \A m \in Markets \ contested' : Settled(m)'
<1>1. Batching(l) /\ UNCHANGED <<active, ws, stream, conn, link, server, contested>>
  BY DEF SendFails, FinishBatch, clientVars
<1>2. Framed /\ Idle \in Frames /\ Idle.stage = "idle"
  BY IdleFrame, MarketDataAssumption DEF FeedInv, FeedTypeOK, Framed, MarketDataAssumption
<1>3. /\ frame'[l] = Idle
      /\ \A k \in Loops : k # l => frame'[k] = frame[k]
  BY <1>2, OneMoves DEF SendFails, FinishBatch
<1>4. ~Batching(l)'
  BY <1>2, <1>3 DEF Batching, At
<1>5. \A k \in Loops : Batching(k)' => Batching(k) /\ frame'[k] = frame[k]
  BY <1>3, <1>4 DEF Batching, At
<1>6. \A k \in Loops : k # l /\ Sending(k) => Sending(k)' /\ frame'[k] = frame[k]
  BY <1>1, <1>3 DEF Sending, Batching, At
<1>7. Linked' /\ \A k \in Loops : Consistent(k)'
  BY <1>1, <1>5 DEF FeedInv, Linked, Consistent
<1>8. ASSUME NEW m \in Markets \ contested' PROVE Settled(m)'
  <2>1. Settled(m)
    BY <1>1 DEF FeedInv
  <2>2. \A k \in Loops : Batching(k)' => (m \in frame'[k].want <=> m \in active)
    BY <1>5, <2>1 DEF Settled
  <2>3. CASE SendFails(l)
    <3>1. link = "up" => ~Sending(l)
      BY <2>3 DEF SendFails, Writable, Sending
    <3>2. UNCHANGED <<assets, subscribed>>
      BY <2>3 DEF SendFails, clientVars
    <3> QED
      BY <1>1, <1>6, <2>1, <2>2, <3>1, <3>2 DEF Settled
  <2>4. CASE FinishBatch(l)
    <3>1. /\ assets' = frame[l].want /\ subscribed' = frame[l].want
          /\ frame[l].out \cup frame[l].in = {}
      BY <2>4 DEF FinishBatch
    <3>2. m \in frame[l].want <=> m \in active
      BY <1>1, <2>1 DEF Settled
    <3>3. ASSUME stream = "open", link = "up"
          PROVE  \/ m \in server <=> m \in active
                 \/ \E k \in Loops : Sending(k)' /\ m \in frame'[k].out \cup frame'[k].in
      BY <1>6, <2>1, <3>1, <3>3 DEF Settled
    <3> QED
      BY <1>1, <2>2, <3>1, <3>2, <3>3 DEF Settled
  <2> QED
    BY <2>3, <2>4
<1> QED
  BY <1>7, <1>8

(* Connections come and go: a new one is asked for what the client has on   *)
(* record, and whatever a batch of before differs on is contested.          *)
LEMMA ConnectionSettles ==
  ASSUME FeedInv, Stream \/ Keepalive \/ Fault
  PROVE  /\ Linked' /\ (\A k \in Loops : Consistent(k)')
         /\ \A m \in Markets \ contested' : Settled(m)'
<1>1. UNCHANGED <<frame, active, assets>>
  BY DEF Stream, Keepalive, Fault, Connect, SubscriptionFails, StreamEnds
<1>2. \A k \in Loops : (Batching(k)' <=> Batching(k)) /\ Consistent(k)'
  BY <1>1 DEF FeedInv, Batching, At, Consistent
<1>3. conn \in Nat
  BY MarketDataAssumption DEF FeedInv, FeedTypeOK, MarketDataAssumption
<1>4. CASE Connect
  <2>1. /\ subscribed' = assets /\ server' = assets /\ contested' = Unsettled
        /\ ws' = conn' /\ conn' = conn + 1
    BY <1>4 DEF Connect, Opened
  <2>2. Linked'
    BY <1>3, <2>1 DEF Linked
  <2>3. ASSUME NEW m \in Markets \ contested' PROVE Settled(m)'
    <3>1. /\ m \in assets <=> m \in active
          /\ \A k \in Loops : Batching(k) => (m \in frame[k].want <=> m \in active)
      BY <2>1 DEF Unsettled, Disputed
    <3> QED
      BY <1>1, <1>2, <2>1, <3>1 DEF Settled
  <2> QED
    BY <1>2, <2>2, <2>3
<1>5. CASE SubscriptionFails \/ StreamEnds \/ Keepalive \/ Fault
  <2>1. /\ contested' = contested
        /\ ~(stream' = "open" /\ link' = "up")
        /\ stream' = "open" => UNCHANGED <<stream, ws, conn>>
    BY <1>5 DEF SubscriptionFails, StreamEnds, Keepalive, Fault, Opened
  <2>2. Linked'
    BY <2>1 DEF FeedInv, Linked
  <2>3. ASSUME NEW m \in Markets \ contested' PROVE Settled(m)'
    BY <1>1, <1>2, <2>1 DEF FeedInv, Settled
  <2> QED
    BY <1>2, <2>2, <2>3
<1> QED
  BY <1>4, <1>5 DEF Stream

(* Every step of both loops, the stream and the network keeps the           *)
(* invariant.                                                               *)
LEMMA FeedStep == FeedInv /\ [FeedNext]_feedVars => FeedInv'
<1> SUFFICES ASSUME FeedInv, [FeedNext]_feedVars
             PROVE  /\ Linked' /\ (\A k \in Loops : Consistent(k)')
                    /\ \A m \in Markets \ contested' : Settled(m)'
  BY FeedTyped DEF FeedInv
<1>1. Framed /\ MaxConns \in Nat
  BY MarketDataAssumption DEF FeedInv, FeedTypeOK, Framed, MarketDataAssumption
<1>2. ASSUME NEW l \in Loops, StartDiscovery(l)
      PROVE  /\ ~Batching(l) /\ ~Batching(l)' /\ UNCHANGED <<active, clientVars>>
             /\ \A k \in Loops : k # l => frame'[k] = frame[k]
  BY <1>1, <1>2, DiscoveryStarts DEF StartDiscovery, Batching, At
<1>3. ASSUME NEW l \in Loops, NEW m \in Markets,
             BeginPreflight(l, m) \/ TimeoutPreflight(l, m) \/ AnswerPreflight(l, m)
      PROVE  /\ UNCHANGED <<active, clientVars>>
             /\ \E r \in Results : SetResult(l, m, r)
  BY <1>3 DEF BeginPreflight, TimeoutPreflight, AnswerPreflight, Results
<1>4. ASSUME NEW l \in Loops, NEW m \in Markets, NEW r \in Results, SetResult(l, m, r),
             UNCHANGED <<active, clientVars>>
      PROVE  /\ Linked' /\ (\A k \in Loops : Consistent(k)')
             /\ \A n \in Markets \ contested' : Settled(n)'
  <2>1. /\ \A k \in Loops : k # l => frame'[k] = frame[k]
        /\ frame'[l] = [frame[l] EXCEPT !.result = frame'[l].result]
        /\ frame[l] \in Frames
    BY <1>1, <1>4, ResultSet DEF Framed
  <2>2. /\ frame'[l].stage = frame[l].stage /\ frame'[l].want = frame[l].want
        /\ frame'[l].conn = frame[l].conn
        /\ frame'[l].out = frame[l].out /\ frame'[l].in = frame[l].in
    BY <2>1 DEF Frames
  <2>3. \A k \in Loops : /\ frame'[k].stage = frame[k].stage /\ frame'[k].want = frame[k].want
                         /\ frame'[k].conn = frame[k].conn
                         /\ frame'[k].out = frame[k].out /\ frame'[k].in = frame[k].in
    BY <2>1, <2>2
  <2>4. \A k \in Loops : (Batching(k)' <=> Batching(k)) /\ (Sending(k)' <=> Sending(k))
    BY <1>4, <2>3 DEF Batching, Sending, At, clientVars
  <2>5. Linked' /\ \A k \in Loops : Consistent(k)'
    BY <1>4, <2>3, <2>4 DEF FeedInv, Linked, Consistent, clientVars
  <2>6. ASSUME NEW n \in Markets \ contested' PROVE Settled(n)'
    <3>1. Settled(n) /\ UNCHANGED <<active, assets, subscribed, stream, link, server>>
      BY <1>4 DEF FeedInv, clientVars
    <3> QED
      BY <2>3, <2>4, <3>1 DEF Settled
  <2> QED
    BY <2>5, <2>6
<1>5. CASE UNCHANGED <<frame, active, clientVars>>
  <2>1. \A k \in Loops : (Batching(k)' <=> Batching(k)) /\ (Sending(k)' <=> Sending(k))
    BY <1>5 DEF Batching, Sending, At, clientVars
  <2> QED
    BY <1>5, <2>1 DEF FeedInv, Linked, Consistent, Settled, clientVars
<1>6. ASSUME NEW m \in Markets, Expire(m) PROVE UNCHANGED <<frame, active, clientVars>>
  BY <1>6 DEF Expire
<1>7. CASE UNCHANGED feedVars
  BY <1>5, <1>7 DEF feedVars
<1>8. CASE \E l \in Loops : StartDiscovery(l)
  BY <1>2, <1>8, PreflightSettles
<1>9. CASE \E l \in Loops : Looking(l) \/ \E m \in Markets : AnswerPreflight(l, m)
  BY <1>3, <1>4, <1>9, ConcludeSettles DEF Looking
<1>10. CASE \E l \in Loops : Batch(l)
  BY <1>10, SendSettles, BatchEndSettles DEF Batch
<1> QED
  BY <1>5, <1>6, <1>7, <1>8, <1>9, <1>10, ConnectionSettles DEF FeedNext

(* Nothing is contested at the start, and no batch is on its way. *)
LEMMA FeedStarts == FeedInit => FeedInv
<1> SUFFICES ASSUME FeedInit PROVE FeedInv
  OBVIOUS
<1>1. FeedTypeOK /\ Counted
  BY FeedStartsTyped
<1>2. \A l \in Loops : ~Batching(l)
  BY IdleFrame, MarketDataAssumption DEF FeedInit, Batching, At, MarketDataAssumption
<1>3. assets = active /\ stream = "down"
  BY DEF FeedInit
<1> QED
  BY <1>1, <1>2, <1>3 DEF FeedInv, Linked, Consistent, Settled

(* With both loops, any number of markets, connections and preflights, and  *)
(* breaks of the connection at every await: whenever the connection is up   *)
(* and no batch is on its way, a market that no overlap of batches has      *)
(* contested is sent by the exchange exactly if it is active, and both of   *)
(* the client's records agree.                                              *)
THEOREM Followed == FeedSpec => []ActiveServed
<1>1. FeedInv => ActiveServed
  BY DEF FeedInv, Settled, Sending, ActiveServed
<1> QED
  BY <1>1, FeedStep, FeedStarts, PTL DEF FeedSpec

-------------------------------------------------------------------------------
(* Once no preflight of a quarantined market is under way, neither loop     *)
(* begins one, and only time ends the quarantine: for any threshold, any    *)
(* markets and both loops.                                                  *)
THEOREM QuarantineKept == FeedSpec => QuarantineLasts
<1>1. ASSUME FeedInv, [FeedNext]_feedVars, NEW m \in Markets, Quiet(m)
      PROVE  Quiet(m)' \/ entry'[m] = "over"
  <2> USE DEF Quiet, IsQuarantined, Result
  <2>1. Framed /\ MaxConns \in Nat /\ Idle \in Frames
    BY <1>1, IdleFrame, MarketDataAssumption
    DEF FeedInv, FeedTypeOK, Framed, MarketDataAssumption
  <2>2. Idle.result[m] = "none"
    BY <2>1, IdleFrame
  <2>3. ASSUME NEW l \in Loops, \A k \in Loops : k # l => frame'[k] = frame[k],
               frame'[l].result[m] \notin {"asked", "eligible"}, entry'[m] = entry[m]
        PROVE  Quiet(m)'
    BY <1>1, <2>3
  <2>4. ASSUME NEW l \in Loops, StartDiscovery(l) PROVE Quiet(m)'
    <3>1. entry'[m] = entry[m]
      BY <2>4 DEF StartDiscovery, quarantineVars
    <3> QED
      BY <2>1, <2>3, <2>4, <3>1, DiscoveryStarts
  <2>5. ASSUME NEW l \in Loops, NEW n \in Markets,
               BeginPreflight(l, n) \/ TimeoutPreflight(l, n) \/ AnswerPreflight(l, n)
        PROVE  Quiet(m)'
    <3>1. entry'[m] = entry[m]
      <4>1. CASE Looked(n)
        BY <1>1, <4>1 DEF Looked, FeedInv, FeedTypeOK, QuarantineTypeOK
      <4>2. CASE UNCHANGED quarantineVars
        BY <4>2 DEF quarantineVars
      <4> QED
        BY <2>5, <4>1, <4>2 DEF BeginPreflight, TimeoutPreflight, AnswerPreflight
    <3>2. \E r \in Results : SetResult(l, n, r) /\ (n = m => r \notin {"asked", "eligible"})
      BY <1>1, <2>5 DEF BeginPreflight, TimeoutPreflight, AnswerPreflight, Results
    <3>3. PICK r \in Results : SetResult(l, n, r) /\ (n = m => r \notin {"asked", "eligible"})
      BY <3>2
    <3>4. SetResult(l, n, r)
      BY <3>3
    <3>5. \A k \in Loops : k # l => frame'[k] = frame[k]
      BY <2>1, <3>4, ResultSet
    <3>6. /\ frame'[l].result[n] = r
          /\ n # m => frame'[l].result[m] = frame[l].result[m]
      BY <2>1, <3>4, ResultSet
    <3>7. frame'[l].result[m] \notin {"asked", "eligible"}
      BY <1>1, <3>3, <3>6
    <3> QED
      BY <2>3, <3>1, <3>5, <3>7
  <2>6. ASSUME NEW l \in Loops, Conclude(l) PROVE Quiet(m)'
    <3>1. entry'[m] = entry[m]
      BY <1>1, <2>6, Concludes, MarketDataAssumption
    <3>2. PICK s \in SUBSET Markets :
            \/ frame' = [frame EXCEPT ![l] = Idle]
            \/ frame' = [frame EXCEPT ![l] = Begun(s)]
      BY <2>6, Concludes, MarketDataAssumption
    <3>3. Begun(s) \in Frames /\ Begun(s).result[m] = "none"
      BY <1>1, <2>1, BatchBegins, MarketDataAssumption
      DEF FeedInv, FeedTypeOK, MarketDataAssumption
    <3>4. /\ \A k \in Loops : k # l => frame'[k] = frame[k]
          /\ frame'[l].result[m] = "none"
      BY <2>1, <2>2, <3>2, <3>3, OneMoves
    <3> QED
      BY <2>3, <3>1, <3>4
  <2>7. ASSUME NEW l \in Loops, Batch(l) PROVE Quiet(m)'
    <3>1. entry'[m] = entry[m]
      BY <2>7 DEF Batch, SendFails, FinishBatch, SendUnsubscribe, SendSubscribe, quarantineVars
    <3>2. /\ \A k \in Loops : k # l => frame'[k] = frame[k]
          /\ frame'[l].result[m] \notin {"asked", "eligible"}
      <4>1. CASE SendFails(l) \/ FinishBatch(l)
        BY <2>1, <2>2, <4>1, OneMoves DEF SendFails, FinishBatch
      <4>2. CASE SendUnsubscribe(l) \/ SendSubscribe(l)
        BY <1>1, <2>1, <4>2, BatchGoesOn DEF SendUnsubscribe, SendSubscribe
      <4> QED
        BY <2>7, <4>1, <4>2 DEF Batch
    <3> QED
      BY <2>3, <3>1, <3>2
  <2>8. CASE Stream \/ Keepalive \/ Fault \/ UNCHANGED feedVars
    <3>1. UNCHANGED <<frame, quarantineVars>>
      BY <2>8 DEF Stream, Keepalive, Fault, Connect, SubscriptionFails, StreamEnds, feedVars
    <3> QED
      BY <1>1, <3>1 DEF quarantineVars
  <2>9. ASSUME NEW n \in Markets, Expire(n) PROVE Quiet(m)' \/ entry'[m] = "over"
    <3>1. /\ frame' = frame
          /\ entry'[m] = IF n = m THEN "over" ELSE entry[m]
      BY <1>1, <2>9 DEF Expire, ExpireQuarantine, FeedInv, FeedTypeOK, QuarantineTypeOK
    <3> QED
      BY <1>1, <3>1
  <2> QED
    BY <1>1, <2>4, <2>5, <2>6, <2>7, <2>8, <2>9 DEF FeedNext, Looking
<1>2. FeedInv /\ [FeedNext]_feedVars =>
        [\A m \in Markets : Quiet(m) => Quiet(m)' \/ entry'[m] = "over"]_feedVars
  BY <1>1
<1> QED
  BY <1>2, FeedStep, FeedStarts, PTL DEF FeedSpec, QuarantineLasts
=============================================================================
