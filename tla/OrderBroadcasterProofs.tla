------------------------ MODULE OrderBroadcasterProofs ------------------------
(***************************************************************************)
(* What is proved of OrderBroadcaster for any tasks, keys, bounds and any  *)
(* behaviour of the exchange, the RPC and the database.                    *)
(***************************************************************************)
EXTENDS OrderBroadcaster, TLAPS

USE ConstantsAssumption

(* The parts of TypeOK that concern the frames and the rows. *)
CallOK ==
    /\ call \in [Tasks -> Frames]
    /\ \A t \in Tasks : call[t].stage # "idle" => call[t].key \in Keys

TxsOK == txs \in [Keys -> Rows]

(* Moving a frame on to another await keeps the frames well typed. *)
LEMMA GoToTyped ==
    ASSUME CallOK, NEW t \in Tasks, call[t].stage # "idle",
           NEW s \in Stages, GoTo(t, s)
    PROVE  CallOK'
<1>1. call' \in [Tasks -> Frames]
  BY DEF CallOK, GoTo, Frames
<1>2. ASSUME NEW u \in Tasks, call'[u].stage # "idle"
      PROVE  call'[u].key \in Keys
  <2>1. call'[u].key = call[u].key
    BY DEF CallOK, GoTo, Frames
  <2>2. call[u].stage # "idle"
    BY <1>2 DEF CallOK, GoTo, Frames
  <2> QED
    BY <2>1, <2>2 DEF CallOK
<1> QED
  BY <1>1, <1>2 DEF CallOK

(* So does leaving broadcast(). *)
LEMMA ReturnTyped ==
    ASSUME CallOK, NEW t \in Tasks, Return(t)
    PROVE  CallOK'
BY DEF CallOK, Return, Frames, Idle, NoTicket, Tickets, Stages, OrderIds

(* And writing a status keeps the rows well typed. *)
LEMMA WriteStatusTyped ==
    ASSUME TxsOK, NEW k \in Keys, NEW s \in Statuses, NEW h \in OrderIds,
           WriteStatus(k, s, h)
    PROVE  TxsOK'
BY DEF TxsOK, WriteStatus, Rows

(* Type correctness. *)
THEOREM TypeCorrect == Spec => []TypeOK
<1>1. Init => TypeOK
  BY DEF Init, TypeOK, Idle, NoRow, NoTicket, Frames, Stages, Rows, Statuses,
         OrderIds, Tickets
<1>2. TypeOK /\ [Next]_vars => TypeOK'
  <2> SUFFICES ASSUME TypeOK, [Next]_vars PROVE TypeOK'
    OBVIOUS
  <2>a. /\ CallOK /\ TxsOK
        /\ lock \in SUBSET Tasks
        /\ nonce \in Int /\ chain \in Nat /\ epoch \in Nat
        /\ orders \in [Keys -> Nat] /\ broadcasts \in Nat /\ restarts \in Nat
    BY DEF TypeOK, CallOK, TxsOK
  <2>b. SUFFICES /\ CallOK' /\ TxsOK'
                 /\ lock' \in SUBSET Tasks
                 /\ nonce' \in Int /\ chain' \in Nat /\ epoch' \in Nat
                 /\ orders' \in [Keys -> Nat]
                 /\ broadcasts' \in Nat /\ restarts' \in Nat
    BY DEF TypeOK, CallOK, TxsOK
  <2>c. UNCHANGED call => CallOK'
    BY <2>a DEF CallOK
  <2>d. UNCHANGED txs => TxsOK'
    BY <2>a DEF TxsOK
  <2>e. \A t \in Tasks : call[t].stage # "idle" => call[t].key \in Keys
    BY <2>a DEF CallOK
  <2>f. \A t \in Tasks : call[t].reply \in OrderIds /\ call[t].ticket \in Tickets
    BY <2>a DEF CallOK, Frames
  <2> USE DEF nonceVars, bounds, At
  <2>1. ASSUME NEW t \in Tasks, NEW k \in Keys, CallBroadcast(t, k)
        PROVE  /\ CallOK'
               /\ UNCHANGED <<nonceVars, txs, orders, restarts>>
               /\ broadcasts' = broadcasts + 1
    <3>1. [stage |-> "gas", key |-> k, ticket |-> NoTicket, reply |-> "NULL"]
             \in Frames
      BY DEF Frames, NoTicket, Tickets, Stages, OrderIds
    <3> QED
      BY <2>1, <2>a, <3>1 DEF CallBroadcast, CallOK
  <2>2. ASSUME NEW t \in Tasks, EstimateGas(t) PROVE CallOK'
    BY <2>2, <2>a, GoToTyped DEF EstimateGas, Stages
  <2>3. ASSUME NEW t \in Tasks, GetNextNonce(t) PROVE CallOK' /\ nonce' \in Int
    <3>a. call[t] \in Frames /\ [nonce |-> nonce, epoch |-> epoch] \in Tickets
      BY <2>a DEF CallOK, Tickets
    <3>b. [call[t] EXCEPT !.stage = "insert",
                          !.ticket = [nonce |-> nonce, epoch |-> epoch]] \in Frames
      BY <3>a DEF Frames, Stages
    <3>1. call' \in [Tasks -> Frames]
      BY <2>3, <2>a, <3>b DEF GetNextNonce, CallOK
    <3>2. ASSUME NEW u \in Tasks, call'[u].stage # "idle"
          PROVE  call'[u].key \in Keys
      BY <2>3, <2>a, <3>2 DEF GetNextNonce, CallOK, Frames
    <3> QED
      BY <2>3, <2>a, <3>1, <3>2 DEF GetNextNonce, CallOK
  <2>4. ASSUME NEW t \in Tasks, InsertPending(t) PROVE CallOK' /\ TxsOK'
    <3>1. CallOK'
      BY <2>4, <2>a, GoToTyped, ReturnTyped DEF InsertPending, Stages
    <3>2. call[t].key \in Keys
      BY <2>4, <2>e DEF InsertPending
    <3>3. [status |-> "PENDING", hash |-> "NULL", ticket |-> call[t].ticket] \in Rows
      BY <2>f DEF Rows, Statuses, OrderIds
    <3>4. TxsOK'
      BY <2>4, <2>a, <3>2, <3>3 DEF InsertPending, TxsOK
    <3> QED
      BY <3>1, <3>4
  <2>5. ASSUME NEW t \in Tasks, PostOrder(t)
        PROVE  CallOK' /\ orders' \in [Keys -> Nat] /\ chain' \in Nat
    <3>1. call[t].key \in Keys /\ call[t].stage # "idle"
      BY <2>5, <2>e DEF PostOrder
    <3>2. orders' \in [Keys -> Nat] /\ chain' \in Nat
      BY <2>5, <2>a, <3>1 DEF PostOrder, Accept, NotAccepted
    <3>3. ASSUME NEW id \in {"EMPTY", "ID"},
                 call' = [call EXCEPT ![t].stage = "mark_sent", ![t].reply = id]
          PROVE  CallOK'
      <4>1. call' \in [Tasks -> Frames]
        <5>1. "mark_sent" \in Stages /\ id \in OrderIds
          BY DEF Stages, OrderIds
        <5>2. call \in [Tasks -> Frames]
          BY <2>a DEF CallOK
        <5> QED
          BY <3>3, <5>1, <5>2 DEF Frames
      <4>2. ASSUME NEW u \in Tasks, call'[u].stage # "idle"
            PROVE  call'[u].key \in Keys
        BY <3>3, <3>1, <2>a, <4>2 DEF CallOK, Frames
      <4> QED
        BY <4>1, <4>2 DEF CallOK
    <3>4. CallOK'
      BY <2>5, <2>a, <3>1, <3>3, GoToTyped, ReturnTyped DEF PostOrder, Stages
    <3> QED
      BY <3>2, <3>4
  <2>6. ASSUME NEW t \in Tasks, SyncAcquire(t)
        PROVE  CallOK' /\ lock' \in SUBSET Tasks
    BY <2>6, <2>a, GoToTyped DEF SyncAcquire, Stages
  <2>7. ASSUME NEW t \in Tasks, SyncRelease(t)
        PROVE  CallOK' /\ lock' \in SUBSET Tasks /\ nonce' \in Int /\ epoch' \in Nat
    BY <2>7, <2>a, GoToTyped, ReturnTyped DEF SyncRelease, Stages
  <2>8. ASSUME NEW t \in Tasks, MarkFailed(t) PROVE CallOK' /\ TxsOK'
    BY <2>8, <2>a, <2>d, <2>e, ReturnTyped, WriteStatusTyped
       DEF MarkFailed, Statuses, OrderIds
  <2>9. ASSUME NEW t \in Tasks, MarkSent(t) PROVE CallOK' /\ TxsOK'
    BY <2>9, <2>a, <2>d, <2>e, <2>f, GoToTyped, ReturnTyped, WriteStatusTyped
       DEF MarkSent, Statuses, Stages
  <2>10. ASSUME NEW t \in Tasks, PollReceipt(t) PROVE CallOK'
    BY <2>10, <2>a, GoToTyped DEF PollReceipt, Stages
  <2>11. ASSUME NEW t \in Tasks, MarkTimeout(t) PROVE CallOK' /\ TxsOK'
    BY <2>11, <2>a, <2>d, <2>e, <2>f, ReturnTyped, WriteStatusTyped
       DEF MarkTimeout, Statuses
  <2>12. ASSUME NEW t \in Tasks, MarkReceipt(t) PROVE CallOK' /\ TxsOK'
    BY <2>12, <2>a, <2>d, <2>e, <2>f, ReturnTyped, WriteStatusTyped
       DEF MarkReceipt, Statuses
  <2>13. CASE Restart
    BY <2>13, <2>a, <2>d
       DEF Restart, CallOK, Idle, Frames, NoTicket, Tickets, Stages, OrderIds
  <2>14. CASE UNCHANGED vars
    BY <2>14, <2>a, <2>c, <2>d DEF vars
  <2>15. ASSUME NEW t \in Tasks, NEW k \in Keys, CallBroadcast(t, k)
         PROVE  /\ CallOK' /\ TxsOK'
                /\ lock' \in SUBSET Tasks
                /\ nonce' \in Int /\ chain' \in Nat /\ epoch' \in Nat
                /\ orders' \in [Keys -> Nat]
                /\ broadcasts' \in Nat /\ restarts' \in Nat
    BY <2>15, <2>1, <2>a, <2>d
  <2>16. ASSUME NEW t \in Tasks, BroadcastStep(t)
         PROVE  /\ CallOK' /\ TxsOK'
                /\ lock' \in SUBSET Tasks
                /\ nonce' \in Int /\ chain' \in Nat /\ epoch' \in Nat
                /\ orders' \in [Keys -> Nat]
                /\ broadcasts' \in Nat /\ restarts' \in Nat
    BY <2>16, <2>2, <2>3, <2>4, <2>5, <2>6, <2>7, <2>8, <2>9, <2>10, <2>11,
       <2>12, <2>a, <2>d
       DEF BroadcastStep, EstimateGas, GetNextNonce, InsertPending, PostOrder,
           SyncAcquire, SyncRelease, MarkFailed, MarkSent, PollReceipt,
           MarkTimeout, MarkReceipt
  <2> QED
    BY <2>13, <2>14, <2>15, <2>16 DEF Next
<1> QED
  BY <1>1, <1>2, PTL DEF Spec

-------------------------------------------------------------------------------
(* A frame is past its insert when broadcast() has committed the pending   *)
(* row and not returned; Unanswered before the CLOB may have accepted the  *)
(* order, Accepted once it has answered with an order id.                  *)
Unanswered == {"post", "await_lock", "sync"}
Accepted   == {"mark_sent", "poll", "mark_timeout", "mark_CONFIRMED", "mark_REVERTED"}
PastInsert == Unanswered \cup Accepted \cup {"mark_failed"}

Past(t) == call[t].stage \in PastInsert

(* The inductive invariant behind the refinement: a frame past its insert  *)
(* owns the row of its decision id, which is PENDING, and knows whether    *)
(* the exchange has an order for it.                                       *)
LedgerInv ==
    /\ \A t \in Tasks : Past(t) => txs[call[t].key].status = "PENDING"
    /\ \A t, u \in Tasks : Past(t) /\ Past(u) /\ t # u => call[t].key # call[u].key
    /\ \A t \in Tasks : call[t].stage \in Unanswered => orders[call[t].key] = 0
    /\ \A t \in Tasks : call[t].stage \in Accepted => orders[call[t].key] = 1
    /\ \A k \in Keys : txs[k].status = "NONE" => orders[k] = 0

(* A ticket that get_next_nonce() has handed out, and two tickets that do  *)
(* not collide.                                                            *)
HandedOut(a) == a.epoch < epoch \/ (a.epoch = epoch /\ a.nonce < nonce)
Differ(a, b) == a.epoch = b.epoch => a.nonce # b.nonce

(* The inductive invariant behind NoncesDistinctPerEpoch: it speaks of the *)
(* tickets in frames that have not reached the table yet as well.          *)
NonceInv ==
    /\ \A k \in Keys : txs[k].status # "NONE" => HandedOut(txs[k].ticket)
    /\ \A t \in Tasks : At(t, "insert") => HandedOut(call[t].ticket)
    /\ \A t, u \in Tasks : At(t, "insert") /\ At(u, "insert") /\ t # u =>
          Differ(call[t].ticket, call[u].ticket)
    /\ \A t \in Tasks, k \in Keys : At(t, "insert") /\ txs[k].status # "NONE" =>
          Differ(call[t].ticket, txs[k].ticket)
    /\ NoncesDistinctPerEpoch

-------------------------------------------------------------------------------
(* What a step does to the frames and the rows, read off once. *)
LEMMA GoToEffect ==
    ASSUME CallOK, NEW t \in Tasks, NEW s, GoTo(t, s)
    PROVE  /\ call'[t].stage = s
           /\ call'[t].key = call[t].key
           /\ call'[t].ticket = call[t].ticket
           /\ \A u \in Tasks \ {t} : call'[u] = call[u]
BY DEF CallOK, GoTo, Frames

(* Return() leaves every other frame alone and makes this one idle. *)
LEMMA ReturnEffect ==
    ASSUME CallOK, NEW t \in Tasks, Return(t)
    PROVE  /\ call'[t].stage = "idle"
           /\ \A u \in Tasks \ {t} : call'[u] = call[u]
BY DEF CallOK, Return, Idle

(* WriteStatus() touches one row and never its ticket. *)
LEMMA WriteEffect ==
    ASSUME TxsOK, NEW k \in Keys, NEW s, NEW h, WriteStatus(k, s, h)
    PROVE  /\ txs'[k].status = s
           /\ \A j \in Keys : txs'[j].ticket = txs[j].ticket
           /\ \A j \in Keys \ {k} : txs'[j] = txs[j]
BY DEF TxsOK, WriteStatus, Rows

(* The parts of TypeOK that the steps below rest on. *)
LEMMA TypeParts ==
    ASSUME TypeOK
    PROVE  /\ CallOK /\ TxsOK
           /\ orders \in [Keys -> Nat]
           /\ nonce \in Int /\ epoch \in Nat
           /\ \A t \in Tasks : call[t].stage # "idle" => call[t].key \in Keys
           /\ \A t \in Tasks : call[t].ticket \in Tickets
           /\ \A t \in Tasks : Past(t) => call[t].key \in Keys
BY DEF TypeOK, CallOK, TxsOK, Frames, Past, PastInsert, Unanswered, Accepted

(* A step of task t that writes neither table nor exchange keeps LedgerInv *)
(* if it takes t to no stage that says more than the one before.           *)
LEMMA LedgerInvMoves ==
    ASSUME TypeOK, LedgerInv, NEW t \in Tasks, UNCHANGED <<txs, orders>>,
           \A u \in Tasks \ {t} : call'[u] = call[u],
           Past(t)' => Past(t) /\ call'[t].key = call[t].key,
           call'[t].stage \in Unanswered => call[t].stage \in Unanswered,
           call'[t].stage \in Accepted => call[t].stage \in Accepted
    PROVE  LedgerInv'
BY DEF LedgerInv, Past, PastInsert

(* So does one that also gives the row of t a status. *)
LEMMA LedgerInvWrites ==
    ASSUME TypeOK, LedgerInv, NEW t \in Tasks, UNCHANGED orders, Past(t),
           NEW s \in Statuses \ {"NONE"}, NEW h,
           WriteStatus(call[t].key, s, h),
           \A u \in Tasks \ {t} : call'[u] = call[u],
           Past(t)' => s = "PENDING" /\ call'[t].key = call[t].key,
           call'[t].stage \in Unanswered => call[t].stage \in Unanswered,
           call'[t].stage \in Accepted => call[t].stage \in Accepted
    PROVE  LedgerInv'
<1>1. call[t].key \in Keys /\ TxsOK
  BY TypeParts
<1>2. /\ txs'[call[t].key].status = s
      /\ \A j \in Keys \ {call[t].key} : txs'[j] = txs[j]
  BY <1>1, WriteEffect
<1>3. \A u \in Tasks : Past(u) => call[u].key \in Keys
  BY TypeParts
<1>4. \A u \in Tasks \ {t} : Past(u)' => Past(u) /\ call'[u].key # call[t].key
  BY DEF LedgerInv, Past
<1>5. \A u \in Tasks : Past(u)' => txs'[call'[u].key].status = "PENDING"
  BY <1>2, <1>3, <1>4 DEF LedgerInv, Past
<1>6. \A k \in Keys : txs'[k].status = "NONE" => orders'[k] = 0
  BY <1>2 DEF LedgerInv
<1>7. \A u, v \in Tasks : Past(u)' /\ Past(v)' /\ u # v => call'[u].key # call'[v].key
  BY <1>4 DEF LedgerInv, Past
<1>8. \A u \in Tasks : call'[u].stage \in Unanswered => orders'[call'[u].key] = 0
  BY DEF LedgerInv, Past, PastInsert
<1>9. \A u \in Tasks : call'[u].stage \in Accepted => orders'[call'[u].key] = 1
  BY DEF LedgerInv, Past, PastInsert
<1> QED
  BY <1>5, <1>6, <1>7, <1>8, <1>9 DEF LedgerInv

(* So does the exchange's acceptance of the order t has posted.            *)
LEMMA LedgerInvAccepts ==
    ASSUME TypeOK, LedgerInv, NEW t \in Tasks, UNCHANGED txs,
           At(t, "post"), Accept(call[t].key),
           \A u \in Tasks \ {t} : call'[u] = call[u],
           Past(t)' => call'[t].key = call[t].key,
           call'[t].stage \notin Unanswered
    PROVE  /\ orders[call[t].key] = 0
           /\ orders' = [orders EXCEPT ![call[t].key] = 1]
           /\ LedgerInv'
<1>1. Past(t) /\ call[t].key \in Keys /\ orders \in [Keys -> Nat]
  BY TypeParts DEF At, Past, PastInsert, Unanswered
<1>2. orders[call[t].key] = 0
  BY DEF LedgerInv, At, Unanswered
<1>3. orders' = [orders EXCEPT ![call[t].key] = 1]
  BY <1>1, <1>2 DEF Accept
<1>4. \A u \in Tasks \ {t} : Past(u)' =>
        Past(u) /\ call'[u].key # call[t].key /\ call[u].key \in Keys
  BY <1>1, TypeParts DEF LedgerInv, Past
<1>5. \A u \in Tasks : Past(u)' => txs'[call'[u].key].status = "PENDING"
  BY <1>1, <1>4 DEF LedgerInv, Past
<1>6. \A k \in Keys : txs'[k].status = "NONE" => orders'[k] = 0
  <2>1. txs[call[t].key].status # "NONE"
    BY <1>1 DEF LedgerInv
  <2> QED
    BY <2>1, <1>1, <1>3 DEF LedgerInv
<1>7. \A u, v \in Tasks : Past(u)' /\ Past(v)' /\ u # v => call'[u].key # call'[v].key
  BY <1>1, <1>4 DEF LedgerInv, Past
<1>8. \A u \in Tasks : call'[u].stage \in Unanswered => orders'[call'[u].key] = 0
  <2>1. \A u \in Tasks \ {t} : call'[u].stage \in Unanswered =>
            /\ orders[call'[u].key] = 0
            /\ call'[u].key # call[t].key
            /\ call'[u].key \in Keys
    BY <1>4 DEF LedgerInv, Past, PastInsert
  <2> QED
    BY <2>1, <1>1, <1>3
<1>9. \A u \in Tasks : call'[u].stage \in Accepted => orders'[call'[u].key] = 1
  <2>1. \A u \in Tasks \ {t} : call'[u].stage \in Accepted =>
            /\ orders[call'[u].key] = 1
            /\ call'[u].key # call[t].key
            /\ call'[u].key \in Keys
    BY <1>4 DEF LedgerInv, Past, PastInsert
  <2>2. call'[t].stage \in Accepted => orders'[call'[t].key] = 1
    BY <1>1, <1>3 DEF Past, PastInsert
  <2> QED
    BY <2>1, <2>2, <1>1, <1>3
<1> QED
  BY <1>2, <1>3, <1>5, <1>6, <1>7, <1>8, <1>9 DEF LedgerInv

(* And so does the insert of a new pending row. *)
LEMMA LedgerInvInserts ==
    ASSUME TypeOK, LedgerInv, NEW t \in Tasks, UNCHANGED orders,
           At(t, "insert"), txs[call[t].key].status = "NONE",
           txs' = [txs EXCEPT ![call[t].key] =
                     [status |-> "PENDING", hash |-> "NULL",
                      ticket |-> call[t].ticket]],
           GoTo(t, "post")
    PROVE  LedgerInv'
<1>1. call[t].key \in Keys /\ CallOK /\ TxsOK
  BY TypeParts DEF At
<1>2. /\ call'[t].stage = "post"
      /\ call'[t].key = call[t].key
      /\ \A u \in Tasks \ {t} : call'[u] = call[u]
  BY <1>1, GoToEffect
<1>3. /\ txs'[call[t].key].status = "PENDING"
      /\ \A j \in Keys \ {call[t].key} : txs'[j] = txs[j]
  BY <1>1 DEF TxsOK
<1>4. \A u \in Tasks \ {t} : Past(u)' =>
        Past(u) /\ call'[u].key # call[t].key /\ call[u].key \in Keys
  BY <1>2, TypeParts DEF LedgerInv, Past
<1>5. \A u \in Tasks : Past(u)' => txs'[call'[u].key].status = "PENDING"
  <2>1. \A u \in Tasks \ {t} : Past(u)' => txs'[call'[u].key].status = "PENDING"
    BY <1>2, <1>3, <1>4 DEF LedgerInv
  <2> QED
    BY <2>1, <1>2, <1>3
<1>6. \A k \in Keys : txs'[k].status = "NONE" => orders'[k] = 0
  BY <1>3 DEF LedgerInv
<1>7. \A u, v \in Tasks : Past(u)' /\ Past(v)' /\ u # v => call'[u].key # call'[v].key
  BY <1>2, <1>4 DEF LedgerInv, Past
<1>8. \A u \in Tasks : call'[u].stage \in Unanswered => orders'[call'[u].key] = 0
  BY <1>1, <1>2 DEF LedgerInv
<1>9. \A u \in Tasks : call'[u].stage \in Accepted => orders'[call'[u].key] = 1
  BY <1>2 DEF LedgerInv, Accepted
<1> QED
  BY <1>5, <1>6, <1>7, <1>8, <1>9 DEF LedgerInv


(* Every step keeps LedgerInv: one step of the proof per action. *)
LEMMA LedgerInvStep == TypeOK /\ LedgerInv /\ [Next]_vars => LedgerInv'
<1> SUFFICES ASSUME TypeOK, LedgerInv, [Next]_vars PROVE LedgerInv'
  OBVIOUS
<1>a. CallOK /\ TxsOK
  BY TypeParts
<1> USE DEF At
<1>1. ASSUME NEW t \in Tasks, NEW k \in Keys, CallBroadcast(t, k)
      PROVE  LedgerInv'
  <2>1. /\ UNCHANGED <<txs, orders>>
        /\ call'[t].stage = "gas"
        /\ \A u \in Tasks \ {t} : call'[u] = call[u]
    BY <1>1, <1>a DEF CallBroadcast, CallOK
  <2> QED
    BY <2>1, LedgerInvMoves DEF Past, PastInsert, Unanswered, Accepted
<1>2. ASSUME NEW t \in Tasks, EstimateGas(t) PROVE LedgerInv'
  BY <1>2, <1>a, GoToEffect, LedgerInvMoves
     DEF EstimateGas, Past, PastInsert, Unanswered, Accepted
<1>3. ASSUME NEW t \in Tasks, GetNextNonce(t) PROVE LedgerInv'
  <2>1. /\ UNCHANGED <<txs, orders>>
        /\ call'[t].stage = "insert"
        /\ \A u \in Tasks \ {t} : call'[u] = call[u]
    BY <1>3, <1>a DEF GetNextNonce, CallOK, Frames
  <2> QED
    BY <2>1, LedgerInvMoves DEF Past, PastInsert, Unanswered, Accepted
<1>4. ASSUME NEW t \in Tasks, InsertPending(t) PROVE LedgerInv'
  <2>1. CASE Return(t) /\ UNCHANGED txs
    BY <1>4, <2>1, <1>a, ReturnEffect, LedgerInvMoves
       DEF InsertPending, Past, PastInsert, Unanswered, Accepted
  <2> QED
    BY <1>4, <2>1, LedgerInvInserts DEF InsertPending
<1>5. ASSUME NEW t \in Tasks, PostOrder(t) PROVE LedgerInv'
  <2>1. ASSUME NEW id \in {"EMPTY", "ID"}, Accept(call[t].key),
               call' = [call EXCEPT ![t].stage = "mark_sent", ![t].reply = id]
        PROVE  LedgerInv'
    <3>1. /\ call'[t].stage = "mark_sent"
          /\ call'[t].key = call[t].key
          /\ \A u \in Tasks \ {t} : call'[u] = call[u]
      BY <2>1, <1>a DEF CallOK, Frames
    <3> QED
      BY <1>5, <2>1, <3>1, LedgerInvAccepts DEF PostOrder, Unanswered
  <2>2. CASE NotAccepted /\ GoTo(t, "await_lock")
    BY <1>5, <2>2, <1>a, GoToEffect, LedgerInvMoves
       DEF PostOrder, NotAccepted, Past, PastInsert, Unanswered, Accepted
  <2>3. CASE Accept(call[t].key) /\ GoTo(t, "mark_failed")
    BY <1>5, <2>3, <1>a, GoToEffect, LedgerInvAccepts DEF PostOrder, Unanswered
  <2>4. CASE NotAccepted /\ GoTo(t, "mark_failed")
    BY <1>5, <2>4, <1>a, GoToEffect, LedgerInvMoves
       DEF PostOrder, NotAccepted, Past, PastInsert, Unanswered, Accepted
  <2>5. CASE Accept(call[t].key) /\ Return(t)
    BY <1>5, <2>5, <1>a, ReturnEffect, LedgerInvAccepts
       DEF PostOrder, Past, PastInsert, Unanswered, Accepted
  <2>6. CASE NotAccepted /\ Return(t)
    BY <1>5, <2>6, <1>a, ReturnEffect, LedgerInvMoves
       DEF PostOrder, NotAccepted, Past, PastInsert, Unanswered, Accepted
  <2> QED
    BY <1>5, <2>1, <2>2, <2>3, <2>4, <2>5, <2>6 DEF PostOrder
<1>6. ASSUME NEW t \in Tasks, SyncAcquire(t) PROVE LedgerInv'
  BY <1>6, <1>a, GoToEffect, LedgerInvMoves
     DEF SyncAcquire, Past, PastInsert, Unanswered, Accepted
<1>7. ASSUME NEW t \in Tasks, SyncRelease(t) PROVE LedgerInv'
  BY <1>7, <1>a, GoToEffect, ReturnEffect, LedgerInvMoves
     DEF SyncRelease, Past, PastInsert, Unanswered, Accepted
<1>8. ASSUME NEW t \in Tasks, MarkFailed(t) PROVE LedgerInv'
  <2>1. CASE UNCHANGED txs
    BY <1>8, <2>1, <1>a, ReturnEffect, LedgerInvMoves
       DEF MarkFailed, Past, PastInsert, Unanswered, Accepted
  <2>2. CASE WriteStatus(call[t].key, "FAILED", "NULL")
    BY <1>8, <2>2, <1>a, ReturnEffect, LedgerInvWrites
       DEF MarkFailed, Past, PastInsert, Unanswered, Accepted, Statuses
  <2> QED
    BY <1>8, <2>1, <2>2 DEF MarkFailed
<1>9. ASSUME NEW t \in Tasks, MarkSent(t) PROVE LedgerInv'
  <2>1. CASE UNCHANGED txs /\ Return(t)
    BY <1>9, <2>1, <1>a, ReturnEffect, LedgerInvMoves
       DEF MarkSent, Past, PastInsert, Unanswered, Accepted
  <2>2. CASE WriteStatus(call[t].key, "PENDING", call[t].reply) /\ GoTo(t, "poll")
    BY <1>9, <2>2, <1>a, GoToEffect, LedgerInvWrites
       DEF MarkSent, Past, PastInsert, Unanswered, Accepted, Statuses
  <2> QED
    BY <1>9, <2>1, <2>2 DEF MarkSent
<1>10. ASSUME NEW t \in Tasks, PollReceipt(t) PROVE LedgerInv'
  BY <1>10, <1>a, GoToEffect, LedgerInvMoves
     DEF PollReceipt, Past, PastInsert, Unanswered, Accepted
<1>11. ASSUME NEW t \in Tasks, MarkTimeout(t) PROVE LedgerInv'
  <2>1. CASE UNCHANGED txs
    BY <1>11, <2>1, <1>a, ReturnEffect, LedgerInvMoves
       DEF MarkTimeout, Past, PastInsert, Unanswered, Accepted
  <2>2. CASE WriteStatus(call[t].key, "PENDING", call[t].reply)
    BY <1>11, <2>2, <1>a, ReturnEffect, LedgerInvWrites
       DEF MarkTimeout, Past, PastInsert, Unanswered, Accepted, Statuses
  <2> QED
    BY <1>11, <2>1, <2>2 DEF MarkTimeout
<1>12. ASSUME NEW t \in Tasks, MarkReceipt(t) PROVE LedgerInv'
  <2>1. CASE UNCHANGED txs
    BY <1>12, <2>1, <1>a, ReturnEffect, LedgerInvMoves
       DEF MarkReceipt, Past, PastInsert, Unanswered, Accepted
  <2>2. ASSUME NEW s \in {"CONFIRMED", "REVERTED"},
               WriteStatus(call[t].key, s, call[t].reply)
        PROVE  LedgerInv'
    BY <1>12, <2>2, <1>a, ReturnEffect, LedgerInvWrites
       DEF MarkReceipt, Past, PastInsert, Unanswered, Accepted, Statuses
  <2> QED
    BY <1>12, <2>1, <2>2 DEF MarkReceipt
<1>13. CASE Restart
  BY <1>13 DEF Restart, LedgerInv, Idle, Past, PastInsert, Unanswered, Accepted
<1>14. CASE UNCHANGED vars
  BY <1>14 DEF vars, LedgerInv, Past
<1> QED
  BY <1>1, <1>2, <1>3, <1>4, <1>5, <1>6, <1>7, <1>8, <1>9, <1>10, <1>11, <1>12,
     <1>13, <1>14 DEF Next, BroadcastStep

(* The inductive invariant of the refinement holds: frames past their     *)
(* insert own different PENDING rows, and an order exists only for those   *)
(* whose POST the exchange has taken.                                      *)
THEOREM LedgerInvariant == Spec => [](TypeOK /\ LedgerInv)
<1>1. Init => LedgerInv
  BY DEF Init, LedgerInv, Idle, NoRow, Past, PastInsert, Unanswered, Accepted
<1> QED
  BY <1>1, LedgerInvStep, TypeCorrect, PTL DEF Spec


-------------------------------------------------------------------------------
(* Each kind of step maps to a step of the ledger. *)
LEMMA RecordSimulates ==
    ASSUME TypeOK, NEW t \in Tasks, InsertPending(t)
    PROVE  [Ledger!LedgerNext]_(Ledger!ledgerVars)
<1>1. CallOK /\ TxsOK /\ call[t].key \in Keys
  BY TypeParts DEF InsertPending, At
<1>2. CASE UNCHANGED txs
  BY <1>2 DEF InsertPending, Ledger!ledgerVars
<1>3. CASE /\ txs[call[t].key].status = "NONE"
           /\ txs' = [txs EXCEPT ![call[t].key] =
                        [status |-> "PENDING", hash |-> "NULL",
                         ticket |-> call[t].ticket]]
  <2>1. PICK k \in Keys : k = call[t].key
    BY <1>1
  <2>2. [j \in Keys |-> txs[j].status]' =
          [[j \in Keys |-> txs[j].status] EXCEPT ![k] = "PENDING"]
    BY <1>1, <1>3, <2>1 DEF TxsOK
  <2>3. Ledger!RecordPending(k)
    BY <1>3, <2>1, <2>2 DEF Ledger!RecordPending, InsertPending
  <2> QED
    BY <2>3 DEF Ledger!LedgerNext
<1> QED
  BY <1>2, <1>3 DEF InsertPending

(* A POST is AcceptOrder of the ledger, or a stutter. *)
LEMMA PostSimulates ==
    ASSUME TypeOK, LedgerInv, NEW t \in Tasks, PostOrder(t)
    PROVE  [Ledger!LedgerNext]_(Ledger!ledgerVars)
<1>1. Past(t) /\ call[t].key \in Keys /\ orders \in [Keys -> Nat]
  BY TypeParts DEF PostOrder, At, Past, PastInsert, Unanswered
<1>2. CASE NotAccepted
  BY <1>2 DEF PostOrder, NotAccepted, Ledger!ledgerVars
<1>3. CASE Accept(call[t].key)
  <2>1. orders[call[t].key] = 0 /\ txs[call[t].key].status = "PENDING"
    BY <1>1 DEF PostOrder, LedgerInv, At, Unanswered
  <2>2. orders' = [orders EXCEPT ![call[t].key] = 1]
    BY <1>1, <1>3, <2>1 DEF Accept
  <2>3. Ledger!AcceptOrder(call[t].key)
    BY <1>1, <2>1, <2>2 DEF Ledger!AcceptOrder, PostOrder
  <2> QED
    BY <1>1, <2>3 DEF Ledger!LedgerNext
<1> QED
  BY <1>2, <1>3 DEF PostOrder

(* A status write is Conclude of the ledger, or a stutter. *)
LEMMA WriteSimulates ==
    ASSUME TypeOK, LedgerInv, NEW t \in Tasks, Past(t), UNCHANGED orders,
           NEW s \in Statuses \ {"NONE"}, NEW h,
           WriteStatus(call[t].key, s, h),
           s \in {"CONFIRMED", "REVERTED"} => call[t].stage \in Accepted
    PROVE  [Ledger!LedgerNext]_(Ledger!ledgerVars)
<1>1. TxsOK /\ call[t].key \in Keys
  BY TypeParts
<1>2. txs[call[t].key].status = "PENDING"
  BY DEF LedgerInv
<1>3. /\ txs'[call[t].key].status = s
      /\ \A j \in Keys \ {call[t].key} : txs'[j] = txs[j]
  BY <1>1, WriteEffect
<1>4. [k \in Keys |-> txs[k].status]' =
        [[k \in Keys |-> txs[k].status] EXCEPT ![call[t].key] = s]
  BY <1>1, <1>3
<1>5. CASE s = "PENDING"
  <2>1. [k \in Keys |-> txs[k].status]' = [k \in Keys |-> txs[k].status]
    BY <1>1, <1>2, <1>4, <1>5
  <2> QED
    BY <2>1 DEF Ledger!ledgerVars
<1>6. CASE s # "PENDING"
  <2>1. s \in Ledger!Final
    BY <1>6 DEF Statuses, Ledger!Final
  <2>2. s # "FAILED" => orders[call[t].key] = 1
    BY <1>6 DEF Statuses, LedgerInv
  <2>3. Ledger!Conclude(call[t].key, s)
    BY <1>1, <1>2, <1>4, <2>1, <2>2 DEF Ledger!Conclude
  <2> QED
    BY <1>1, <2>1, <2>3 DEF Ledger!LedgerNext
<1> QED
  BY <1>5, <1>6

(* The broadcaster implements the ledger: whatever the exchange, the RPC   *)
(* and the database do, one decision id gets one order at most, none       *)
(* before its row, and a row with its final status keeps it.               *)
THEOREM Refinement == Spec => ImplementsLedger
<1>1. Init => Ledger!LedgerInit
  BY DEF Init, Ledger!LedgerInit, NoRow
<1>2. TypeOK /\ LedgerInv /\ [Next]_vars => [Ledger!LedgerNext]_(Ledger!ledgerVars)
  <2> SUFFICES ASSUME TypeOK, LedgerInv, [Next]_vars
               PROVE  [Ledger!LedgerNext]_(Ledger!ledgerVars)
    OBVIOUS
  <2>1. UNCHANGED <<txs, orders>> => UNCHANGED Ledger!ledgerVars
    BY DEF Ledger!ledgerVars
  <2> USE DEF At, bounds
  <2>2. ASSUME NEW t \in Tasks, NEW k \in Keys, CallBroadcast(t, k)
        PROVE  UNCHANGED <<txs, orders>>
    BY <2>2 DEF CallBroadcast
  <2>3. ASSUME NEW t \in Tasks,
               \/ EstimateGas(t) \/ GetNextNonce(t) \/ SyncAcquire(t)
               \/ SyncRelease(t) \/ PollReceipt(t)
        PROVE  UNCHANGED <<txs, orders>>
    BY <2>3 DEF EstimateGas, GetNextNonce, SyncAcquire, SyncRelease, PollReceipt
  <2>4. ASSUME NEW t \in Tasks,
               MarkFailed(t) \/ MarkSent(t) \/ MarkTimeout(t) \/ MarkReceipt(t)
        PROVE  [Ledger!LedgerNext]_(Ledger!ledgerVars)
    <3>1. UNCHANGED orders /\ Past(t)
      BY <2>4 DEF MarkFailed, MarkSent, MarkTimeout, MarkReceipt, Past,
                  PastInsert, Accepted
    <3>2. ASSUME NEW s \in Statuses \ {"NONE"}, NEW h,
                 WriteStatus(call[t].key, s, h),
                 s \in {"CONFIRMED", "REVERTED"} => call[t].stage \in Accepted
          PROVE  [Ledger!LedgerNext]_(Ledger!ledgerVars)
      BY <3>1, <3>2, WriteSimulates
    <3>3. CASE UNCHANGED txs
      BY <3>1, <3>3, <2>1
    <3>4. CASE WriteStatus(call[t].key, "FAILED", "NULL")
      BY <3>2, <3>4 DEF Statuses
    <3>5. CASE WriteStatus(call[t].key, "PENDING", call[t].reply)
      BY <3>2, <3>5 DEF Statuses
    <3>6. ASSUME NEW s \in {"CONFIRMED", "REVERTED"}, MarkReceipt(t),
                 WriteStatus(call[t].key, s, call[t].reply)
          PROVE  [Ledger!LedgerNext]_(Ledger!ledgerVars)
      BY <3>2, <3>6 DEF MarkReceipt, Accepted, Statuses
    <3> QED
      BY <2>4, <3>3, <3>4, <3>5, <3>6
         DEF MarkFailed, MarkSent, MarkTimeout, MarkReceipt
  <2>5. CASE Restart
    BY <2>5, <2>1 DEF Restart
  <2>6. CASE UNCHANGED vars
    BY <2>6, <2>1 DEF vars
  <2> QED
    BY <2>1, <2>2, <2>3, <2>4, <2>5, <2>6, RecordSimulates, PostSimulates
       DEF Next, BroadcastStep
<1> QED
  BY <1>1, <1>2, LedgerInvariant, PTL DEF Spec, ImplementsLedger, Ledger!LedgerSpec


-------------------------------------------------------------------------------
(* The steps of the ledger keep what its rows tell. *)
LEMMA LedgerTells == Ledger!LedgerSpec => []Ledger!RowsTell
<1> DEFINE Told == Ledger!LedgerTypeOK /\ Ledger!RowsTell
<1> USE DEF Ledger!LedgerTypeOK, Ledger!RowsTell
<1>1. Ledger!LedgerInit => Told
  BY DEF Ledger!LedgerInit, Ledger!TxStatus
<1>2. Told /\ [Ledger!LedgerNext]_(Ledger!ledgerVars) => Told'
  <2> SUFFICES ASSUME Told, [Ledger!LedgerNext]_(Ledger!ledgerVars) PROVE Told'
    OBVIOUS
  <2>1. ASSUME NEW k \in Keys, Ledger!RecordPending(k) PROVE Told'
    BY <2>1 DEF Ledger!RecordPending, Ledger!TxStatus
  <2>2. ASSUME NEW k \in Keys, Ledger!AcceptOrder(k) PROVE Told'
    BY <2>2 DEF Ledger!AcceptOrder
  <2>3. ASSUME NEW k \in Keys, NEW s \in Ledger!Final, Ledger!Conclude(k, s)
        PROVE  Told'
    BY <2>3 DEF Ledger!Conclude, Ledger!TxStatus, Ledger!Final
  <2>4. CASE UNCHANGED Ledger!ledgerVars
    BY <2>4 DEF Ledger!ledgerVars
  <2> QED
    BY <2>1, <2>2, <2>3, <2>4 DEF Ledger!LedgerNext
<1>3. Told => Ledger!RowsTell
  OBVIOUS
<1> QED
  BY <1>1, <1>2, <1>3, PTL DEF Ledger!LedgerSpec

(* What a row of execution_txs tells of the exchange is true at any time,   *)
(* between any two awaits and after any restart.                            *)
THEOREM RowsTrue == Spec => []RowsTellOrders
BY Refinement, LedgerTells, PTL DEF ImplementsLedger, RowsTellOrders

-------------------------------------------------------------------------------
(* The lock follows the frames from one task at its RPC to the next.        *)
LEMMA LockStep == TypeOK /\ LockOwned /\ [Next]_vars => LockOwned'
<1> SUFFICES ASSUME TypeOK, LockOwned, [Next]_vars PROVE LockOwned'
  OBVIOUS
<1>a. CallOK
  BY TypeParts
<1> USE DEF At
<1>b. ASSUME UNCHANGED lock, \A u \in Tasks : At(u, "sync")' <=> At(u, "sync")
      PROVE  LockOwned'
  BY <1>b DEF LockOwned
<1>c. ASSUME NEW t \in Tasks, UNCHANGED lock, NEW s, GoTo(t, s),
             call[t].stage # "sync", s # "sync"
      PROVE  LockOwned'
  BY <1>a, <1>b, <1>c, GoToEffect
<1>d. ASSUME NEW t \in Tasks, UNCHANGED lock, Return(t), call[t].stage # "sync"
      PROVE  LockOwned'
  BY <1>a, <1>b, <1>d, ReturnEffect
<1>1. ASSUME NEW t \in Tasks, NEW k \in Keys, CallBroadcast(t, k) PROVE LockOwned'
  <2>1. /\ call'[t].stage = "gas"
        /\ \A u \in Tasks \ {t} : call'[u] = call[u]
    BY <1>1, <1>a DEF CallBroadcast, CallOK
  <2> QED
    BY <1>1, <1>b, <2>1 DEF CallBroadcast, nonceVars
<1>2. ASSUME NEW t \in Tasks, EstimateGas(t) \/ PollReceipt(t) PROVE LockOwned'
  BY <1>2, <1>c DEF EstimateGas, PollReceipt, nonceVars
<1>3. ASSUME NEW t \in Tasks, GetNextNonce(t) PROVE LockOwned'
  <2>1. /\ call'[t].stage = "insert"
        /\ \A u \in Tasks \ {t} : call'[u] = call[u]
    BY <1>3, <1>a DEF GetNextNonce, CallOK
  <2> QED
    BY <1>3, <1>b, <2>1 DEF GetNextNonce
<1>4. ASSUME NEW t \in Tasks, InsertPending(t) PROVE LockOwned'
  BY <1>4, <1>c, <1>d DEF InsertPending, nonceVars
<1>5. ASSUME NEW t \in Tasks, PostOrder(t) PROVE LockOwned'
  <2>1. ASSUME NEW id,
               call' = [call EXCEPT ![t].stage = "mark_sent", ![t].reply = id]
        PROVE  LockOwned'
    <3>1. /\ call'[t].stage = "mark_sent"
          /\ \A u \in Tasks \ {t} : call'[u] = call[u]
      BY <2>1, <1>a DEF CallOK
    <3> QED
      BY <1>5, <1>b, <3>1 DEF PostOrder
  <2> QED
    BY <1>5, <1>c, <1>d, <2>1 DEF PostOrder
<1>6. ASSUME NEW t \in Tasks, SyncAcquire(t) PROVE LockOwned'
  <2>1. call'[t].stage = "sync" /\ \A u \in Tasks \ {t} : call'[u] = call[u]
    BY <1>6, <1>a, GoToEffect DEF SyncAcquire
  <2>2. \A u \in Tasks : call[u].stage # "sync"
    BY <1>6 DEF SyncAcquire, LockOwned
  <2> QED
    BY <1>6, <2>1, <2>2 DEF SyncAcquire, LockOwned
<1>7. ASSUME NEW t \in Tasks, SyncRelease(t) PROVE LockOwned'
  <2>1. t \in lock /\ lock = {t}
    BY <1>7 DEF SyncRelease, LockOwned
  <2>2. lock' = {} /\ \A u \in Tasks \ {t} : call[u].stage # "sync"
    BY <1>7, <2>1 DEF SyncRelease, LockOwned
  <2>3. call'[t].stage # "sync" /\ \A u \in Tasks \ {t} : call'[u] = call[u]
    BY <1>7, <1>a, GoToEffect, ReturnEffect DEF SyncRelease, Idle
  <2> QED
    BY <2>2, <2>3 DEF LockOwned
<1>8. ASSUME NEW t \in Tasks,
             MarkFailed(t) \/ MarkSent(t) \/ MarkTimeout(t) \/ MarkReceipt(t)
      PROVE  LockOwned'
  BY <1>8, <1>c, <1>d DEF MarkFailed, MarkSent, MarkTimeout, MarkReceipt, nonceVars
<1>9. CASE Restart
  <2>1. \A u \in Tasks : call'[u].stage = "idle"
    BY <1>9 DEF Restart, Idle
  <2> QED
    BY <1>9, <2>1 DEF Restart, LockOwned
<1>10. CASE UNCHANGED vars
  BY <1>10, <1>b DEF vars, nonceVars
<1> QED
  BY <1>1, <1>2, <1>3, <1>4, <1>5, <1>6, <1>7, <1>8, <1>9, <1>10
     DEF Next, BroadcastStep

(* Whoever waits for the lock of NonceManager waits for a task that is at   *)
(* its RPC call: the safety half of BroadcastReturns.                       *)
THEOREM LockNeverLost == Spec => []LockOwned
<1>1. Init => LockOwned
  BY DEF Init, LockOwned, At, Idle
<1> QED
  BY <1>1, LockStep, TypeCorrect, PTL DEF Spec

-------------------------------------------------------------------------------
(* A step that draws no ticket, records none and moves the counter only    *)
(* forward, or into a new epoch, keeps NonceInv.                           *)
LEMMA NonceInvQuiet ==
    ASSUME TypeOK, NonceInv,
           UNCHANGED <<nonce, epoch>> \/ epoch' = epoch + 1,
           \A k \in Keys : /\ txs'[k].ticket = txs[k].ticket
                           /\ txs'[k].status # "NONE" => txs[k].status # "NONE",
           \A u \in Tasks : At(u, "insert")' =>
               At(u, "insert") /\ call'[u].ticket = call[u].ticket
    PROVE  NonceInv'
<1>1. /\ \A k \in Keys : txs[k].ticket.epoch \in Int
      /\ \A u \in Tasks : call[u].ticket.epoch \in Int
      /\ epoch \in Int
  BY DEF TypeOK, Rows, Frames, Tickets
<1>2. /\ \A k \in Keys : HandedOut(txs[k].ticket) => HandedOut(txs[k].ticket)'
      /\ \A u \in Tasks : HandedOut(call[u].ticket) /\ call'[u].ticket = call[u].ticket
                             => HandedOut(call[u].ticket)'
  BY <1>1 DEF HandedOut
<1>3. \A k \in Keys : txs'[k].status # "NONE" => HandedOut(txs[k].ticket)'
  BY <1>2 DEF NonceInv
<1>4. \A u \in Tasks : At(u, "insert")' => HandedOut(call[u].ticket)'
  BY <1>2 DEF NonceInv
<1> QED
  BY <1>3, <1>4 DEF NonceInv, NoncesDistinctPerEpoch, Differ

(* get_next_nonce() hands out a ticket that differs from every one before. *)
LEMMA NonceInvDraws ==
    ASSUME TypeOK, NonceInv, NEW t \in Tasks, GetNextNonce(t)
    PROVE  NonceInv'
<1>1. /\ epoch' = epoch /\ nonce' = nonce + 1 /\ UNCHANGED txs
      /\ call'[t].ticket = [nonce |-> nonce, epoch |-> epoch]
      /\ \A u \in Tasks \ {t} : call'[u] = call[u]
  BY DEF GetNextNonce, TypeOK, Frames
<1>2. nonce \in Int /\ epoch \in Nat
  BY DEF TypeOK
<1>3. /\ \A k \in Keys : txs[k].ticket.nonce \in Int /\ txs[k].ticket.epoch \in Nat
      /\ \A u \in Tasks : call[u].ticket.nonce \in Int /\ call[u].ticket.epoch \in Nat
  BY DEF TypeOK, Rows, Frames, Tickets
<1>4. \A k \in Keys : txs[k].status # "NONE" =>
          /\ HandedOut(txs[k].ticket)'
          /\ Differ(call[t].ticket, txs[k].ticket)'
  BY <1>1, <1>2, <1>3 DEF NonceInv, HandedOut, Differ
<1>5. \A u \in Tasks \ {t} : At(u, "insert") =>
          /\ HandedOut(call[u].ticket)'
          /\ Differ(call[t].ticket, call[u].ticket)'
  BY <1>1, <1>2, <1>3 DEF NonceInv, HandedOut, Differ
<1>6. HandedOut(call[t].ticket)'
  BY <1>1, <1>2 DEF HandedOut
<1>7. \A u \in Tasks \ {t} : At(u, "insert")' => At(u, "insert")
  BY <1>1 DEF At
<1>8. \A u \in Tasks : At(u, "insert")' => HandedOut(call[u].ticket)'
  BY <1>5, <1>6, <1>7
<1>9. \A u, v \in Tasks : At(u, "insert")' /\ At(v, "insert")' /\ u # v =>
          Differ(call[u].ticket, call[v].ticket)'
  <2>1. \A u, v \in Tasks \ {t} : At(u, "insert")' /\ At(v, "insert")' /\ u # v =>
          Differ(call[u].ticket, call[v].ticket)'
    BY <1>1, <1>7 DEF NonceInv, Differ
  <2> QED
    BY <2>1, <1>5, <1>7 DEF Differ
<1>10. \A u \in Tasks, k \in Keys : At(u, "insert")' /\ txs'[k].status # "NONE" =>
          Differ(call[u].ticket, txs[k].ticket)'
  <2>1. \A u \in Tasks \ {t}, k \in Keys :
          At(u, "insert")' /\ txs'[k].status # "NONE" =>
          Differ(call[u].ticket, txs[k].ticket)'
    BY <1>1, <1>7 DEF NonceInv, Differ
  <2> QED
    BY <2>1, <1>1, <1>4
<1> QED
  BY <1>1, <1>4, <1>8, <1>9, <1>10 DEF NonceInv, NoncesDistinctPerEpoch

(* The insert moves the ticket of a frame into the table. *)
LEMMA NonceInvInserts ==
    ASSUME TypeOK, NonceInv, NEW t \in Tasks, At(t, "insert"),
           UNCHANGED <<nonce, epoch>>,
           txs' = [txs EXCEPT ![call[t].key] =
                     [status |-> "PENDING", hash |-> "NULL",
                      ticket |-> call[t].ticket]],
           GoTo(t, "post")
    PROVE  NonceInv'
<1>1. call[t].key \in Keys /\ CallOK /\ TxsOK
  BY TypeParts DEF At
<1>2. /\ call'[t].stage = "post"
      /\ \A u \in Tasks \ {t} : call'[u] = call[u]
  BY <1>1, GoToEffect
<1>3. /\ txs'[call[t].key].ticket = call[t].ticket
      /\ \A j \in Keys \ {call[t].key} : txs'[j] = txs[j]
  BY <1>1 DEF TxsOK
<1>4. \A u \in Tasks : At(u, "insert")' =>
          u # t /\ At(u, "insert") /\ call'[u] = call[u]
  BY <1>2 DEF At
<1>5. \A k \in Keys : txs'[k].status # "NONE" => HandedOut(txs[k].ticket)'
  <2>1. \A k \in Keys \ {call[t].key} :
            txs'[k].status # "NONE" => HandedOut(txs[k].ticket)'
    BY <1>3 DEF NonceInv, HandedOut
  <2> QED
    BY <2>1, <1>1, <1>3 DEF NonceInv, HandedOut
<1>6. \A u \in Tasks : At(u, "insert")' => HandedOut(call[u].ticket)'
  BY <1>4 DEF NonceInv, HandedOut
<1>7. \A u, v \in Tasks : At(u, "insert")' /\ At(v, "insert")' /\ u # v =>
          Differ(call[u].ticket, call[v].ticket)'
  BY <1>4 DEF NonceInv, Differ
<1>8. \A u \in Tasks, k \in Keys : At(u, "insert")' /\ txs'[k].status # "NONE" =>
          Differ(call[u].ticket, txs[k].ticket)'
  BY <1>3, <1>4 DEF NonceInv, Differ
<1>9. NoncesDistinctPerEpoch'
  <2>1. \A k \in Keys \ {call[t].key} : txs'[k].status # "NONE" =>
            Differ(call[t].ticket, txs'[k].ticket)
    BY <1>3 DEF NonceInv
  <2> QED
    BY <2>1, <1>1, <1>3 DEF NonceInv, NoncesDistinctPerEpoch, Differ
<1> QED
  BY <1>5, <1>6, <1>7, <1>8, <1>9 DEF NonceInv


(* Every step keeps NonceInv.  A status is only ever written to the row of *)
(* a frame past its insert, which LedgerInv knows to be there already.     *)
LEMMA NonceInvStep ==
    TypeOK /\ LedgerInv /\ NonceInv /\ [Next]_vars => NonceInv'
<1> SUFFICES ASSUME TypeOK, LedgerInv, NonceInv, [Next]_vars PROVE NonceInv'
  OBVIOUS
<1>a. CallOK /\ TxsOK
  BY TypeParts
<1>b. ASSUME NEW t \in Tasks, NEW s \in Stages \ {"insert"}, GoTo(t, s)
      PROVE  \A u \in Tasks : At(u, "insert")' =>
                At(u, "insert") /\ call'[u].ticket = call[u].ticket
  BY <1>a, <1>b, GoToEffect DEF At
<1>c. ASSUME NEW t \in Tasks, Return(t)
      PROVE  \A u \in Tasks : At(u, "insert")' =>
                At(u, "insert") /\ call'[u].ticket = call[u].ticket
  BY <1>a, <1>c, ReturnEffect DEF At
<1>d. UNCHANGED txs =>
        \A k \in Keys : /\ txs'[k].ticket = txs[k].ticket
                        /\ txs'[k].status # "NONE" => txs[k].status # "NONE"
  OBVIOUS
<1>e. ASSUME NEW t \in Tasks, Past(t), NEW s, NEW h,
             WriteStatus(call[t].key, s, h)
      PROVE  \A k \in Keys : /\ txs'[k].ticket = txs[k].ticket
                             /\ txs'[k].status # "NONE" => txs[k].status # "NONE"
  <2>1. call[t].key \in Keys /\ txs[call[t].key].status = "PENDING"
    BY <1>e, TypeParts DEF LedgerInv
  <2> QED
    BY <1>a, <1>e, <2>1, WriteEffect
<1> USE DEF nonceVars
<1>1. ASSUME NEW t \in Tasks, NEW k \in Keys, CallBroadcast(t, k)
      PROVE  NonceInv'
  <2>1. \A u \in Tasks : At(u, "insert")' =>
            At(u, "insert") /\ call'[u].ticket = call[u].ticket
    BY <1>1, <1>a DEF CallBroadcast, CallOK, At
  <2> QED
    BY <1>1, <1>d, <2>1, NonceInvQuiet DEF CallBroadcast
<1>2. ASSUME NEW t \in Tasks, EstimateGas(t) PROVE NonceInv'
  BY <1>2, <1>b, <1>d, NonceInvQuiet DEF EstimateGas, Stages
<1>3. ASSUME NEW t \in Tasks, GetNextNonce(t) PROVE NonceInv'
  BY <1>3, NonceInvDraws
<1>4. ASSUME NEW t \in Tasks, InsertPending(t) PROVE NonceInv'
  BY <1>4, <1>c, <1>d, NonceInvInserts, NonceInvQuiet DEF InsertPending
<1>5. ASSUME NEW t \in Tasks, PostOrder(t) PROVE NonceInv'
  <2>1. \A u \in Tasks : At(u, "insert")' =>
            At(u, "insert") /\ call'[u].ticket = call[u].ticket
    <3>1. ASSUME NEW id,
                 call' = [call EXCEPT ![t].stage = "mark_sent", ![t].reply = id]
          PROVE  \A u \in Tasks : At(u, "insert")' =>
                    At(u, "insert") /\ call'[u].ticket = call[u].ticket
      BY <3>1, <1>a DEF CallOK, Frames, At
    <3> QED
      BY <1>5, <3>1, <1>b, <1>c DEF PostOrder, Stages
  <2> QED
    BY <1>5, <1>d, <2>1, NonceInvQuiet DEF PostOrder
<1>6. ASSUME NEW t \in Tasks, SyncAcquire(t) PROVE NonceInv'
  BY <1>6, <1>b, <1>d, NonceInvQuiet DEF SyncAcquire, Stages
<1>7. ASSUME NEW t \in Tasks, SyncRelease(t) PROVE NonceInv'
  BY <1>7, <1>b, <1>c, <1>d, NonceInvQuiet DEF SyncRelease, Stages
<1>8. ASSUME NEW t \in Tasks, MarkFailed(t) PROVE NonceInv'
  BY <1>8, <1>c, <1>d, <1>e, NonceInvQuiet DEF MarkFailed, At, Past, PastInsert
<1>9. ASSUME NEW t \in Tasks, MarkSent(t) PROVE NonceInv'
  BY <1>9, <1>b, <1>c, <1>d, <1>e, NonceInvQuiet
     DEF MarkSent, At, Past, PastInsert, Accepted, Stages
<1>10. ASSUME NEW t \in Tasks, PollReceipt(t) PROVE NonceInv'
  BY <1>10, <1>b, <1>d, NonceInvQuiet DEF PollReceipt, Stages
<1>11. ASSUME NEW t \in Tasks, MarkTimeout(t) PROVE NonceInv'
  BY <1>11, <1>c, <1>d, <1>e, NonceInvQuiet
     DEF MarkTimeout, At, Past, PastInsert, Accepted
<1>12. ASSUME NEW t \in Tasks, MarkReceipt(t) PROVE NonceInv'
  BY <1>12, <1>c, <1>d, <1>e, NonceInvQuiet
     DEF MarkReceipt, At, Past, PastInsert, Accepted
<1>13. CASE Restart
  BY <1>13, <1>d, NonceInvQuiet DEF Restart, At, Idle
<1>14. CASE UNCHANGED vars
  BY <1>14, <1>d, NonceInvQuiet DEF vars, At
<1> QED
  BY <1>1, <1>2, <1>3, <1>4, <1>5, <1>6, <1>7, <1>8, <1>9, <1>10, <1>11, <1>12,
     <1>13, <1>14 DEF Next, BroadcastStep

(* Two rows drawn between the same two readings of the chain never carry   *)
(* the same nonce, for any number of tasks, decisions and restarts.        *)
THEOREM NoncesDistinct == Spec => []NoncesDistinctPerEpoch
<1>1. Init => NonceInv
  BY DEF Init, NonceInv, Idle, NoRow, At, NoncesDistinctPerEpoch
<1>2. NonceInv => NoncesDistinctPerEpoch
  BY DEF NonceInv
<1> QED
  BY <1>1, <1>2, NonceInvStep, LedgerInvariant, PTL DEF Spec

===============================================================================
