------------------------------ MODULE MarketData ------------------------------
(***************************************************************************)
(* Which markets are followed, and whether the exchange knows: the loops   *)
(* that discover markets and activate them, the preflight and its          *)
(* quarantine, and the WebSocket client with its subscriptions and its     *)
(* reconnects.                                                             *)
(*                                                                         *)
(* Both loops run side by side, and each takes a step from one await to    *)
(* the next.  A send may wait for another one before it writes its message *)
(* and, while the connection's buffer is full, after it; on a fresh        *)
(* connection it does neither.  Messages arrive in the order of the sends. *)
(* Metrics and events are awaited too, but never suspend a task.           *)
(***************************************************************************)
EXTENDS MarketQuarantine, FiniteSets

CONSTANTS
    Loops,        \* "tracking": _market_tracking_loop, "discovery": _discovery_loop
    MaxActive,    \* max_concurrent_markets
    Slots,        \* preflights at a time
    Failing,      \* bound: the markets whose preflight may be refused
    MaxConns      \* bound: connections in a behaviour

ASSUME MarketDataAssumption ==
    /\ Loops \subseteq {"tracking", "discovery"}
    /\ MaxActive \in Nat \ {0}
    /\ Slots \in Nat \ {0}
    /\ Failing \subseteq Markets
    /\ MaxConns \in Nat

VARIABLES
    frame,        \* by loop: what it is doing
    active,       \* active_markets, condition_by_token
    assets,       \* _assets_ids: what a new connection will ask for
    subscribed,   \* _subscribed_assets
    ws,           \* _ws: the number of the connection, 0 if None
    stream,       \* where _stream() is
    conn,         \* connections made so far (bounded)
    link,         \* of the last connection: the exchange answers, is silent, is gone
    server,       \* what the exchange sends on it
    contested     \* history: see Disputed

clientVars == <<assets, subscribed, ws, stream, conn, link, server, contested>>
feedVars == <<quarantineVars, frame, active, clientVars>>

(* A market stands for the tokens of its two outcomes, which are           *)
(* subscribed and unsubscribed together.                                   *)
Results == {"none", "todo", "asked", "eligible", "refused"}

(* A batch is to leave the subscriptions at "want"; "out" and "in" are what *)
(* it has still to unsubscribe and to subscribe, on its connection.        *)
Idle == [stage |-> "idle", result |-> [m \in Markets |-> "none"],
         want |-> {}, out |-> {}, in |-> {}, conn |-> 0]

Frames == [stage : {"idle", "preflight", "batch"},
           result : [Markets -> Results],
           want : SUBSET Markets, out : SUBSET Markets, in : SUBSET Markets,
           conn : 0 .. MaxConns]

FeedTypeOK ==
    /\ QuarantineTypeOK
    /\ frame \in [Loops -> Frames]
    /\ active \in SUBSET Markets /\ Cardinality(active) <= MaxActive
    /\ assets \in SUBSET Markets
    /\ subscribed \in SUBSET Markets
    /\ ws \in {0, conn}
    /\ stream \in {"down", "open"}
    /\ conn \in 0 .. MaxConns
    /\ link \in {"up", "silent", "gone"}
    /\ server \in SUBSET Markets
    /\ contested \in SUBSET Markets

FeedInit ==
    /\ QuarantineInit
    /\ frame = [l \in Loops |-> Idle]
    /\ active \in {s \in SUBSET Markets : Cardinality(s) <= MaxActive}
    /\ assets = active
    /\ subscribed = {}
    /\ ws = 0
    /\ stream = "down"
    /\ conn = 0
    /\ link = "gone"
    /\ server = {}
    /\ contested = {}

At(l, stage) == frame[l].stage = stage
Result(l, m) == frame[l].result[m]
SetResult(l, m, r) == frame' = [frame EXCEPT ![l].result[m] = r]

(* subscribe_batch() is under way. *)
Batching(l) == At(l, "batch")

(* The markets on which a batch of one of these loops differs from s.      *)
(* "contested" collects them for every activation of this connection that  *)
(* finds the other loop's batch under way, and a new connection starts     *)
(* with what is still unsettled then.                                      *)
Disputed(loops, s) ==
    {m \in Markets : \E l \in loops : Batching(l) /\ ~(m \in frame[l].want <=> m \in s)}

Unsettled == Disputed(Loops, active) \cup {m \in Markets : ~(m \in assets <=> m \in active)}

-------------------------------------------------------------------------------
(* discover(): the candidates that pass the cheap filters. *)
StartDiscovery(l) ==
    /\ At(l, "idle")
    /\ \E candidates \in SUBSET Markets :
         frame' = [frame EXCEPT ![l] =
            [Idle EXCEPT !.stage = "preflight",
                         !.result = [m \in Markets |->
                                        IF m \in candidates THEN "todo" ELSE "none"]]]
    /\ UNCHANGED <<quarantineVars, active, clientVars>>

(* Mutant: every candidate is looked at. *)
BeginUnchecked(l, m) ==
    /\ Result(l, m) = "todo"
    /\ Cardinality({n \in Markets : Result(l, n) = "asked"}) < Slots
    /\ SetResult(l, m, "asked")
    /\ UNCHANGED <<quarantineVars, active, clientVars>>

(* _preflight_one() has a slot: the quarantine is asked first. *)
BeginPreflight(l, m) ==
    /\ Result(l, m) = "todo"
    /\ Cardinality({n \in Markets : Result(l, n) = "asked"}) < Slots
    /\ SetResult(l, m, IF IsQuarantined(m) THEN "none" ELSE "asked")
    /\ Looked(m)
    /\ UNCHANGED <<active, clientVars>>

(* The order book is there, and passes or does not. *)
AnswerPreflight(l, m) ==
    /\ Result(l, m) = "asked"
    /\ \/ SetResult(l, m, "eligible")
       \/ m \in Failing /\ SetResult(l, m, "refused")
    /\ UNCHANGED <<quarantineVars, active, clientVars>>

(* Mutant: the lookup is bounded by the inner wait_for() of a retry loop,  *)
(* which asks again.                                                       *)
AskAgain(l, m) ==
    /\ Result(l, m) = "asked"
    /\ SetResult(l, m, "todo")
    /\ UNCHANGED <<quarantineVars, active, clientVars>>

(* wait_for(): the market is out of this round, but no failure is recorded. *)
TimeoutPreflight(l, m) ==
    /\ Result(l, m) = "asked"
    /\ SetResult(l, m, "none")
    /\ UNCHANGED <<quarantineVars, active, clientVars>>

(* What the loop makes active: the first of what is eligible, or, in the   *)
(* discovery loop after three passes with too wide a spread, one other.    *)
Activated(l, eligible) ==
    {s \in SUBSET eligible :
        \/ Cardinality(s) = IF Cardinality(eligible) <= MaxActive
                            THEN Cardinality(eligible) ELSE MaxActive
        \/ l = "discovery" /\ Cardinality(eligible) > 1 /\ Cardinality(s) = 1}

(* The first send of subscribe_batch(), which takes its differences now;   *)
(* without a connection, or without a difference, there is none.           *)
Begun(s) ==
    IF ws = 0 \/ subscribed = s THEN Idle
    ELSE [Idle EXCEPT !.stage = "batch", !.conn = ws,
                      !.want = s, !.out = subscribed \ s, !.in = s \ subscribed]

(* _activate_markets(), or what the loops do when nothing is eligible, up  *)
(* to the first send.                                                      *)
Activate(l, s) ==
    /\ active' = s
    /\ IF s = {} /\ active = {} /\ l = "tracking"
       THEN /\ frame' = [frame EXCEPT ![l] = Idle]
            /\ UNCHANGED <<assets, contested>>
       ELSE /\ assets' = s
            /\ frame' = [frame EXCEPT ![l] = Begun(s)]
            /\ contested' = contested \cup Disputed(Loops \ {l}, s)
    /\ UNCHANGED <<subscribed, ws, stream, conn, link, server>>

(* gather() returns: the results are recorded, and what is eligible is     *)
(* activated.                                                              *)
Conclude(l) ==
    LET With(r) == {m \in Markets : Result(l, m) = r} IN
    /\ At(l, "preflight")
    /\ With("todo") \cup With("asked") = {}
    /\ RecordResults(With("eligible"), With("refused"))
    /\ \E s \in Activated(l, With("eligible")) : Activate(l, s)

(* The batch's connection can still be written to. *)
Writable(l) == frame[l].conn = conn /\ link # "gone"

(* send() raises ConnectionClosed; the loop logs it and sleeps. *)
SendFails(l) ==
    /\ Batching(l)
    /\ ~Writable(l)
    /\ frame' = [frame EXCEPT ![l] = Idle]
    /\ UNCHANGED <<quarantineVars, active, clientVars>>

SendUnsubscribe(l) ==
    /\ Batching(l) /\ frame[l].out # {}
    /\ Writable(l)
    /\ server' = IF link = "up" THEN server \ frame[l].out ELSE server
    /\ frame' = [frame EXCEPT ![l].out = {}]
    /\ UNCHANGED <<quarantineVars, active, assets, subscribed, ws, stream, conn,
                   link, contested>>

SendSubscribe(l) ==
    /\ Batching(l) /\ frame[l].out = {} /\ frame[l].in # {}
    /\ Writable(l)
    /\ server' = IF link = "up" THEN server \cup frame[l].in ELSE server
    /\ frame' = [frame EXCEPT ![l].in = {}]
    /\ UNCHANGED <<quarantineVars, active, assets, subscribed, ws, stream, conn,
                   link, contested>>

(* Mutant: the record keeps what has been unsubscribed. *)
FinishKeepsAll(l) ==
    /\ Batching(l) /\ frame[l].out = {} /\ frame[l].in = {}
    /\ assets' = frame[l].want
    /\ subscribed' = subscribed \cup frame[l].want
    /\ frame' = [frame EXCEPT ![l] = Idle]
    /\ UNCHANGED <<quarantineVars, active, ws, stream, conn, link, server, contested>>

(* The batch is recorded, whatever has happened since it was computed. *)
FinishBatch(l) ==
    /\ Batching(l) /\ frame[l].out = {} /\ frame[l].in = {}
    /\ assets' = frame[l].want
    /\ subscribed' = frame[l].want
    /\ frame' = [frame EXCEPT ![l] = Idle]
    /\ UNCHANGED <<quarantineVars, active, ws, stream, conn, link, server, contested>>

-------------------------------------------------------------------------------
(* run(), _stream(): a new connection; the subscription message for it is  *)
(* the first that is written to it.                                        *)
Opened ==
    /\ stream = "down"
    /\ conn < MaxConns
    /\ conn' = conn + 1
    /\ ws' = conn'

Connect ==
    /\ Opened
    /\ link' = "up"
    /\ server' = assets
    /\ subscribed' = assets
    /\ stream' = "open"
    /\ contested' = Unsettled
    /\ UNCHANGED <<quarantineVars, frame, active, assets>>

(* The message cannot be sent: that is before the try, so nothing resets   *)
(* _ws, and the loops go on to use this connection.                        *)
SubscriptionFails ==
    /\ Opened
    /\ conn' < MaxConns
    /\ link' = "gone"
    /\ server' = {}
    /\ UNCHANGED <<quarantineVars, frame, active, assets, subscribed, stream, contested>>

(* The reader's loop ends; the heartbeat is cancelled and awaited, which   *)
(* changes nothing for the loops, before _ws is reset.                     *)
StreamEnds ==
    /\ stream = "open"
    /\ link = "gone"
    /\ stream' = "down"
    /\ ws' = 0
    /\ subscribed' = {}
    /\ UNCHANGED <<quarantineVars, frame, active, assets, conn, link, server, contested>>

(* Mutant: connect(ping_interval=None), with the heartbeat relied upon. *)
KeepaliveDisabled ==
    /\ link = "silent"
    /\ UNCHANGED feedVars

(* The library's own ping goes unanswered and it closes the connection.    *)
(* _heartbeat(), which misses its PONG earlier, only returns.              *)
Keepalive ==
    /\ link = "silent"
    /\ link' = "gone"
    /\ UNCHANGED <<quarantineVars, frame, active, assets, subscribed, ws, stream, conn, server, contested>>

(* The network: the connection breaks, or nothing comes through any more. *)
Fault ==
    /\ link = "up"
    /\ conn < MaxConns
    /\ link' \in {"silent", "gone"}
    /\ server' = {}
    /\ UNCHANGED <<quarantineVars, frame, active, assets, subscribed, ws, stream, conn, contested>>

Expire(m) ==
    /\ ExpireQuarantine(m)
    /\ UNCHANGED <<frame, active, clientVars>>

Batch(l)  == SendFails(l) \/ SendUnsubscribe(l) \/ SendSubscribe(l) \/ FinishBatch(l)
Stream    == Connect \/ SubscriptionFails \/ StreamEnds
Looking(l) ==
    \/ Conclude(l)
    \/ \E m \in Markets : BeginPreflight(l, m) \/ TimeoutPreflight(l, m)

FeedNext ==
    \/ \E l \in Loops : StartDiscovery(l) \/ Looking(l) \/ Batch(l)
    \/ \E l \in Loops, m \in Markets : AnswerPreflight(l, m)
    \/ Stream \/ Keepalive \/ Fault
    \/ \E m \in Markets : Expire(m)

(* The loops and the stream are tasks of the event loop; every preflight   *)
(* has a timeout, the library's keepalive has one; nobody owes an answer.  *)
FeedFairness ==
    /\ \A l \in Loops : WF_feedVars(Looking(l) \/ Batch(l))
    /\ WF_feedVars(Stream)
    /\ WF_feedVars(Keepalive)

FeedSpec == FeedInit /\ [][FeedNext]_feedVars /\ FeedFairness

-------------------------------------------------------------------------------
(* With the connection up and no batch on its way, the exchange sends what *)
(* is active and nothing else, and the client's two records of what it     *)
(* asked for say so, through disconnects and reconnects at every await     *)
(* (WI-32: "no duplicate subscriptions or stale state").  So it is for     *)
(* every market but those that the two loops' overlapping batches differ   *)
(* on, while the connection lasts: an overlap harms no other market.       *)
ActiveServed ==
    (stream = "open" /\ link = "up" /\ \A l \in Loops : ~Batching(l)) =>
        \A m \in Markets \ contested :
            /\ m \in server <=> m \in active
            /\ m \in subscribed <=> m \in active
            /\ m \in assets <=> m \in active

(* No preflight under way may still lift the quarantine of the market. *)
Quiet(m) == IsQuarantined(m) /\ \A l \in Loops : Result(l, m) \notin {"asked", "eligible"}

(* Once a market is quarantined, and the preflight the other loop may have *)
(* begun before that is over, neither loop begins one and the quarantine   *)
(* stays until its time is over (runbook: "After expiry, the market is     *)
(* eligible for preflight again").                                         *)
QuarantineLasts ==
    [][\A m \in Markets : Quiet(m) => Quiet(m)' \/ entry'[m] = "over"]_feedVars

(* A connection that broke or went silent is replaced, and over and over   *)
(* what is active is served, though the heartbeat may long have returned.  *)
ServedAgain ==
    []<>(link = "up" /\ stream = "open" /\ active \ contested \subseteq server)

(* "a slow market cannot stall the discovery loop" (WI-53, rule 5): every  *)
(* round ends, with markets that never answer and with dying connections.  *)
RoundsEnd == \A l \in Loops : []<>At(l, "idle")
===============================================================================
