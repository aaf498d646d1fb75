--------------------------- MODULE OrderBroadcaster ---------------------------
(***************************************************************************)
(* OrderBroadcaster.broadcast() and the NonceManager it draws from, called *)
(* concurrently by the tasks that place orders.  Every await of the code   *)
(* is a boundary between two actions, so the tasks interleave wherever     *)
(* asyncio lets them.  The CLOB, the Polygon RPC and the database may each *)
(* fail at every call; the process may stop and start again at any point.  *)
(***************************************************************************)
EXTENDS Integers, FiniteSets

CONSTANTS
    Tasks,          \* callers of broadcast(): execution consumer, exit scan
    Keys,           \* decision ids
    KeysOf,         \* KeysOf[t]: the decision ids task t broadcasts
    ChainCounts,    \* by how much an accepted order may raise the RPC's count
    MaxBroadcasts,  \* bound: calls of broadcast() in a behaviour
    MaxRestarts     \* bound: restarts of the process in a behaviour

ASSUME ConstantsAssumption ==
    /\ KeysOf \in [Tasks -> SUBSET Keys]
    /\ ChainCounts \in SUBSET Nat
    /\ ChainCounts # {}
    /\ MaxBroadcasts \in Nat
    /\ MaxRestarts \in Nat

VARIABLES
    nonce,       \* NonceManager._nonce
    lock,        \* NonceManager._lock: the tasks that hold it
    chain,       \* external: eth_getTransactionCount(address, "pending")
    epoch,       \* history: how often _nonce was read from the chain
    call,        \* call[t]: the frame of broadcast() in task t
    txs,         \* txs[k]: the execution_txs row of decision id k
    orders,      \* external: orders[k] orders accepted by the CLOB for k
    broadcasts,  \* calls of broadcast() so far (bounded)
    restarts     \* restarts so far (bounded)

nonceVars == <<nonce, lock, chain, epoch>>
bounds    == <<broadcasts, restarts>>
vars == <<nonceVars, call, txs, orders, bounds>>

NoKey    == "no key"
OrderIds == {"NULL", "EMPTY", "ID"}   \* data.get("orderID", "") may be ""
Statuses == {"NONE", "PENDING", "CONFIRMED", "REVERTED", "FAILED"}
Tickets  == [nonce : Int, epoch : Nat]
Rows     == [status : Statuses, hash : OrderIds, ticket : Tickets]

(* The await at which broadcast() stands. *)
Stages == {"idle", "gas", "nonce", "insert", "post", "await_lock", "sync",
           "mark_failed", "mark_sent", "poll", "mark_timeout",
           "mark_CONFIRMED", "mark_REVERTED"}

(* Its locals: the decision id, the nonce drawn with the epoch it belongs  *)
(* to, and the order id the CLOB answered with.                            *)
Frames == [stage : Stages, key : Keys \cup {NoKey}, ticket : Tickets,
           reply : OrderIds]

NoTicket == [nonce |-> -1, epoch |-> 0]
NoRow == [status |-> "NONE", hash |-> "NULL", ticket |-> NoTicket]
Idle  == [stage |-> "idle", key |-> NoKey, ticket |-> NoTicket,
          reply |-> "NULL"]

TypeOK ==
    /\ nonce \in Int
    /\ lock \in SUBSET Tasks
    /\ chain \in Nat
    /\ epoch \in Nat
    /\ call \in [Tasks -> Frames]
    /\ \A t \in Tasks : call[t].stage # "idle" => call[t].key \in Keys
    /\ txs \in [Keys -> Rows]
    /\ orders \in [Keys -> Nat]
    /\ broadcasts \in Nat
    /\ restarts \in Nat

(* The process starts on an empty database; initialize() has read the      *)
(* chain before the tasks are created.                                     *)
Init ==
    /\ chain = 0
    /\ nonce = chain
    /\ lock = {}
    /\ epoch = 0
    /\ call = [t \in Tasks |-> Idle]
    /\ txs = [k \in Keys |-> NoRow]
    /\ orders = [k \in Keys |-> 0]
    /\ broadcasts = 0
    /\ restarts = 0

-------------------------------------------------------------------------------
At(t, stage)   == call[t].stage = stage
GoTo(t, stage) == call' = [call EXCEPT ![t].stage = stage]

(* broadcast() returns to its caller or raises into it: the caller logs    *)
(* the exception and goes on, so both leave the task idle.                 *)
Return(t) == call' = [call EXCEPT ![t] = Idle]

(* The caller enters broadcast() and waits for the gas estimate. *)
CallBroadcast(t, k) ==
    /\ At(t, "idle")
    /\ k \in KeysOf[t]
    /\ broadcasts < MaxBroadcasts
    /\ broadcasts' = broadcasts + 1
    /\ call' = [call EXCEPT ![t] = [stage |-> "gas", key |-> k,
                                     ticket |-> NoTicket, reply |-> "NULL"]]
    /\ UNCHANGED <<nonceVars, txs, orders, restarts>>

(* gas_estimator.estimate(): an RPC failure is answered with a fallback. *)
EstimateGas(t) ==
    /\ At(t, "gas")
    /\ GoTo(t, "nonce")
    /\ UNCHANGED <<nonceVars, txs, orders, bounds>>

(* Mutant: the nonce is handed out, but the increment is left to sync(). *)
GetNextNonceWithoutIncrement(t) ==
    /\ At(t, "nonce")
    /\ lock = {}
    /\ call' = [call EXCEPT ![t].stage = "insert",
                            ![t].ticket = [nonce |-> nonce, epoch |-> epoch]]
    /\ UNCHANGED <<nonceVars, txs, orders, bounds>>

(* get_next_nonce(): post-increment once the lock is free; nothing is      *)
(* awaited while it is held.                                               *)
GetNextNonce(t) ==
    /\ At(t, "nonce")
    /\ lock = {}
    /\ call' = [call EXCEPT ![t].stage = "insert",
                            ![t].ticket = [nonce |-> nonce, epoch |-> epoch]]
    /\ nonce' = nonce + 1
    /\ UNCHANGED <<lock, chain, epoch, txs, orders, bounds>>

(* Mutant: an upsert, so that a second call of one decision id passes. *)
UpsertPending(t) ==
    /\ At(t, "insert")
    /\ \/ /\ txs' = [txs EXCEPT ![call[t].key] =
                       [status |-> "PENDING", hash |-> "NULL",
                        ticket |-> call[t].ticket]]
          /\ GoTo(t, "post")
       \/ Return(t) /\ UNCHANGED txs
    /\ UNCHANGED <<nonceVars, orders, bounds>>

(* _insert_pending_execution(): decision_id is unique, and the database    *)
(* may fail; either way the exception leaves broadcast() before the POST.  *)
InsertPending(t) ==
    /\ At(t, "insert")
    /\ \/ /\ txs[call[t].key].status = "NONE"
          /\ txs' = [txs EXCEPT ![call[t].key] =
                       [status |-> "PENDING", hash |-> "NULL",
                        ticket |-> call[t].ticket]]
          /\ GoTo(t, "post")
       \/ Return(t) /\ UNCHANGED txs
    /\ UNCHANGED <<nonceVars, orders, bounds>>

(* The CLOB takes the order of decision id k into its book. *)
Accept(k) ==
    /\ orders' = [orders EXCEPT ![k] = @ + 1]
    /\ \E c \in ChainCounts : chain' = chain + c

NotAccepted == UNCHANGED <<orders, chain>>

(* _submit_to_clob(): a 2xx answer carries an orderID (or none at all); a  *)
(* 4xx answer starts a nonce resync; a 5xx answer does not; any other      *)
(* exception (timeout, reset, undecodable body) is no BroadcastError and   *)
(* leaves broadcast() at once.  After a 5xx or a lost answer the order may *)
(* or may not have been accepted.                                          *)
PostOrder(t) ==
    /\ At(t, "post")
    /\ \/ /\ Accept(call[t].key)
          /\ \E id \in {"EMPTY", "ID"} :
                call' = [call EXCEPT ![t].stage = "mark_sent", ![t].reply = id]
       \/ NotAccepted /\ GoTo(t, "await_lock")
       \/ (Accept(call[t].key) \/ NotAccepted) /\ GoTo(t, "mark_failed")
       \/ (Accept(call[t].key) \/ NotAccepted) /\ Return(t)
    /\ UNCHANGED <<nonce, lock, epoch, txs, bounds>>

(* sync() enters its critical section and waits for the RPC inside it. *)
SyncAcquire(t) ==
    /\ At(t, "await_lock")
    /\ lock = {}
    /\ lock' = {t}
    /\ GoTo(t, "sync")
    /\ UNCHANGED <<nonce, chain, epoch, txs, orders, bounds>>

(* Mutant: acquire() and release() without "async with": an RPC failure    *)
(* skips the release.                                                      *)
SyncReleaseOnSuccessOnly(t) ==
    /\ At(t, "sync")
    /\ \/ /\ lock' = lock \ {t}
          /\ nonce' = chain
          /\ epoch' = epoch + 1
          /\ GoTo(t, "mark_failed")
       \/ Return(t) /\ UNCHANGED <<lock, nonce, epoch>>
    /\ UNCHANGED <<chain, txs, orders, bounds>>

(* The RPC answers and _nonce is overwritten, whatever it was; or it fails *)
(* and NonceManagerError, no BroadcastError either, leaves broadcast().    *)
(* "async with" releases the lock on both ways out.                        *)
SyncRelease(t) ==
    /\ At(t, "sync")
    /\ lock' = lock \ {t}
    /\ \/ /\ nonce' = chain
          /\ epoch' = epoch + 1
          /\ GoTo(t, "mark_failed")
       \/ Return(t) /\ UNCHANGED <<nonce, epoch>>
    /\ UNCHANGED <<chain, txs, orders, bounds>>

(* _update_execution_status(): one transaction, lost as a whole when the   *)
(* database fails; tx_hash is unique, so an empty one fits only one row.   *)
HashTaken(k, h) ==
    /\ h = "EMPTY"
    /\ \E j \in Keys \ {k} : txs[j].hash = "EMPTY"

WriteStatus(k, s, h) ==
    /\ ~HashTaken(k, h)
    /\ txs' = [txs EXCEPT ![k].status = s, ![k].hash = h]

(* The except branch of broadcast(): FAILED, tx_hash back to NULL, raise. *)
MarkFailed(t) ==
    /\ At(t, "mark_failed")
    /\ WriteStatus(call[t].key, "FAILED", "NULL") \/ UNCHANGED txs
    /\ Return(t)
    /\ UNCHANGED <<nonceVars, orders, bounds>>

(* PENDING again, now with the order id; a failing write ends the call. *)
MarkSent(t) ==
    /\ At(t, "mark_sent")
    /\ \/ WriteStatus(call[t].key, "PENDING", call[t].reply) /\ GoTo(t, "poll")
       \/ UNCHANGED txs /\ Return(t)
    /\ UNCHANGED <<nonceVars, orders, bounds>>

(* _poll_receipt(): the receipt of an order that was given an id, or the   *)
(* last attempt; an empty id is no transaction hash and never has one.     *)
PollReceipt(t) ==
    /\ At(t, "poll")
    /\ \/ GoTo(t, "mark_timeout")
       \/ /\ call[t].reply = "ID"
          /\ \E s \in {"mark_CONFIRMED", "mark_REVERTED"} : GoTo(t, s)
    /\ UNCHANGED <<nonceVars, txs, orders, bounds>>

(* Out of attempts: the row stays PENDING and the caller gets the error. *)
MarkTimeout(t) ==
    /\ At(t, "mark_timeout")
    /\ WriteStatus(call[t].key, "PENDING", call[t].reply) \/ UNCHANGED txs
    /\ Return(t)
    /\ UNCHANGED <<nonceVars, orders, bounds>>

(* The receipt's status goes into the row. *)
MarkReceipt(t) ==
    /\ \/ /\ At(t, "mark_CONFIRMED")
          /\ WriteStatus(call[t].key, "CONFIRMED", call[t].reply) \/ UNCHANGED txs
       \/ /\ At(t, "mark_REVERTED")
          /\ WriteStatus(call[t].key, "REVERTED", call[t].reply) \/ UNCHANGED txs
    /\ Return(t)
    /\ UNCHANGED <<nonceVars, orders, bounds>>

(* The process dies, or shutdown() cancels the tasks, and start() builds a *)
(* new NonceManager: memory is gone, the table and the exchange are not.   *)
Restart ==
    /\ restarts < MaxRestarts
    /\ restarts' = restarts + 1
    /\ call' = [t \in Tasks |-> Idle]
    /\ lock' = {}
    /\ nonce' = chain
    /\ epoch' = epoch + 1
    /\ UNCHANGED <<chain, txs, orders, broadcasts>>

BroadcastStep(t) ==
    \/ EstimateGas(t) \/ GetNextNonce(t) \/ InsertPending(t) \/ PostOrder(t)
    \/ SyncAcquire(t) \/ SyncRelease(t)
    \/ MarkFailed(t) \/ MarkSent(t)
    \/ PollReceipt(t) \/ MarkTimeout(t) \/ MarkReceipt(t)

Next ==
    \/ \E t \in Tasks :
          \/ \E k \in Keys : CallBroadcast(t, k)
          \/ BroadcastStep(t)
    \/ Restart

(* Every await inside broadcast() ends: the HTTP calls carry a timeout,    *)
(* polling is bounded, and asyncio.Lock is first come, first served.  No   *)
(* call is obliged to start and the process is not obliged to restart.     *)
Fairness == \A t \in Tasks : WF_vars(BroadcastStep(t))

Spec == Init /\ [][Next]_vars /\ Fairness

-------------------------------------------------------------------------------
(* Nonces drawn between two readings of the chain go to different rows: no *)
(* interleaving of get_next_nonce() calls, no failed insert, no lost POST  *)
(* hands one nonce to two orders (nonce_manager.py, get_next_nonce).       *)
NoncesDistinctPerEpoch ==
    \A j, k \in Keys :
        /\ txs[j].status # "NONE"
        /\ txs[k].status # "NONE"
        /\ j # k
        /\ txs[j].ticket.epoch = txs[k].ticket.epoch
        => txs[j].ticket.nonce # txs[k].ticket.nonce

(* No two orders the exchange accepted carry the same nonce: the lock of   *)
(* NonceManager "guarantee prevents duplicate / colliding orders under     *)
(* concurrent execution", says its module docstring.                       *)
NoCollidingOrders ==
    \A j, k \in Keys :
        /\ orders[j] > 0
        /\ orders[k] > 0
        /\ j # k
        => txs[j].ticket.nonce # txs[k].ticket.nonce

(* One order at most per decision id, none before its row is committed,    *)
(* and a row that has its final status keeps it -- across crashes, retried *)
(* exits and every failure of the exchange and the database.               *)
Ledger == INSTANCE OrderLedger
            WITH status <- [k \in Keys |-> txs[k].status]

ImplementsLedger == Ledger!LedgerSpec

(* Reading execution_txs after a crash is as good as asking the exchange,  *)
(* but for the rows that are PENDING or FAILED: of these nobody knows more *)
(* than that there is one order at most.                                   *)
RowsTellOrders == Ledger!RowsTell

(* NonceManager's lock is held by exactly the task that waits for the RPC   *)
(* inside sync(), and by one at most: no path out of it, no cancellation    *)
(* and no restart leaves it to nobody, so whoever waits for it waits for an *)
(* RPC call that has a timeout.                                             *)
LockOwned ==
    /\ lock = {t \in Tasks : At(t, "sync")}
    /\ \A t, u \in lock : t = u

(* broadcast() never hangs: whatever fails inside it, and however the two  *)
(* tasks meet at the nonce lock, the caller gets control back.             *)
BroadcastReturns ==
    \A t \in Tasks : call[t].stage # "idle" ~> call[t].stage = "idle"
===============================================================================
