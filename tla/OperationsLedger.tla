--------------------------- MODULE OperationsLedger ---------------------------
(***************************************************************************)
(* What the process tells its ledger about itself: the lifecycle events,   *)
(* the monitor loop that turns the state of the WebSocket and of readiness *)
(* into events when it changes, the circuit breaker, the failures of the   *)
(* language model's provider, and the bus between them and the table,      *)
(* which a crash or a failing database empties.                            *)
(*                                                                         *)
(* The bus is that of EventBus, short of its overflow.  CONFIG_LOADED,     *)
(* which comes before every START, ERROR_RECOVERED of a monitor pass that  *)
(* raises, and the pipeline's events of lesser severity are left out.      *)
(***************************************************************************)
EXTENDS Integers, SequencesExt

CONSTANTS
    MaxUpsets     \* bound: restarts and changes of what the monitor looks at

ASSUME OperationsLedgerAssumption == MaxUpsets \in Nat

VARIABLES
    process,      \* "down", "running", "stopping", "flushing"
    connected,    \* the client's connection_state is CONNECTED
    reachable,    \* the database answers
    degraded,     \* _event_ledger_degraded
    breaker,      \* CircuitBreaker.state
    monitor,      \* the locals of _event_ledger_monitor_loop
    bus,          \* events published and not yet written
    ledger,       \* the rows of operational_events, oldest first
    started,      \* the process has been started before
    upsets,       \* restarts and changes so far (bounded)
    lost,         \* history: an event of this run did not reach the ledger
    crashed       \* history: the last run ended in a crash

ledgerVars == <<process, connected, reachable, degraded, breaker, monitor,
                bus, ledger, started, upsets, lost, crashed>>

Kinds == {"START", "SHUTDOWN", "READY", "DEGRADED", "WS_CONNECTED",
          "WS_RECONNECT", "WS_PONG_STALE", "CIRCUIT_BREAKER_OPEN", "PROVIDER_FAILURE"}

(* Of severity CRITICAL and ERROR. *)
IsCritical(k) == k \in {"CIRCUIT_BREAKER_OPEN", "PROVIDER_FAILURE"}

FreshMonitor == [stage |-> "asleep", sawSocket |-> FALSE, prevSocket |-> FALSE,
                 prevReady |-> FALSE, reported |-> FALSE]

LedgerTypeOK ==
    /\ process \in {"down", "running", "stopping", "flushing"}
    /\ connected \in BOOLEAN /\ reachable \in BOOLEAN /\ degraded \in BOOLEAN
    /\ breaker \in {"OPEN", "CLOSED"}
    /\ monitor \in [stage : {"asleep", "told", "asking"}, sawSocket : BOOLEAN,
                    prevSocket : BOOLEAN, prevReady : BOOLEAN, reported : BOOLEAN]
    /\ bus \in Seq(Kinds) /\ ledger \in Seq(Kinds)
    /\ started \in BOOLEAN /\ upsets \in 0 .. MaxUpsets
    /\ lost \in BOOLEAN /\ crashed \in BOOLEAN
    /\ monitor.prevSocket => monitor.reported

LedgerInit ==
    /\ process = "down"
    /\ connected = FALSE /\ reachable = TRUE /\ degraded = FALSE
    /\ breaker = "CLOSED"
    /\ monitor = FreshMonitor
    /\ bus = << >> /\ ledger = << >>
    /\ started = FALSE /\ upsets = 0
    /\ lost = FALSE /\ crashed = FALSE

Emit(k) == bus' = Append(bus, k)

----------------------------------------------------------------------------
(* Lifecycle.  Everything but the ledger is in memory.                     *)

Start ==
    /\ process = "down"
    /\ started => upsets < MaxUpsets
    /\ process' = "running"
    /\ started' = TRUE
    /\ upsets' = IF started THEN upsets + 1 ELSE upsets
    /\ connected' = FALSE /\ degraded' = FALSE /\ breaker' = "CLOSED"
    /\ monitor' = FreshMonitor
    /\ bus' = <<"START">>
    /\ lost' = FALSE /\ crashed' = FALSE
    /\ UNCHANGED <<reachable, ledger>>

(* shutdown() up to its first await: the monitor will begin no other pass. *)
BeginShutdown ==
    /\ process = "running"
    /\ process' = "stopping"
    /\ UNCHANGED <<connected, reachable, degraded, breaker, monitor, bus,
                   ledger, started, upsets, lost, crashed>>

(* The tasks are cancelled and gathered; SHUTDOWN is the last event, and   *)
(* the bus is stopped, which cancels the batch in flight.                  *)
CancelTasks ==
    /\ process = "stopping"
    /\ process' = "flushing"
    /\ monitor' = FreshMonitor
    /\ \E n \in 0 .. Len(bus) :
         /\ bus' = Append(SubSeq(bus, n + 1, Len(bus)), "SHUTDOWN")
         /\ lost' = (lost \/ n > 0)
    /\ UNCHANGED <<connected, reachable, degraded, breaker, ledger, started,
                   upsets, crashed>>

(* The final flush is over, or its timeout struck.                         *)
Exit ==
    /\ process = "flushing"
    /\ process' = "down"
    /\ connected' = FALSE
    /\ lost' = (lost \/ bus # << >>)
    /\ bus' = << >>
    /\ UNCHANGED <<reachable, degraded, breaker, monitor, ledger, started,
                   upsets, crashed>>

Crash ==
    /\ process # "down"
    /\ process' = "down"
    /\ connected' = FALSE
    /\ monitor' = FreshMonitor
    /\ lost' = (lost \/ bus # << >>)
    /\ bus' = << >>
    /\ crashed' = TRUE
    /\ UNCHANGED <<reachable, degraded, breaker, ledger, started, upsets>>

----------------------------------------------------------------------------
(* The bus.  A batch, which is what is queued, is written, or given up     *)
(* when the database raises, which marks the ledger degraded if a critical *)
(* event was in it.                                                        *)

CommitBatch ==
    /\ reachable /\ bus # << >>
    /\ ledger' = ledger \o bus
    /\ bus' = << >>
    /\ UNCHANGED <<process, connected, reachable, degraded, breaker, monitor,
                   started, upsets, lost, crashed>>

LoseBatch ==
    /\ ~reachable /\ bus # << >>
    /\ degraded' = (degraded \/ \E k \in ToSet(bus) : IsCritical(k))
    /\ bus' = << >>
    /\ lost' = TRUE
    /\ UNCHANGED <<process, connected, reachable, breaker, monitor, ledger,
                   started, upsets, crashed>>

----------------------------------------------------------------------------
(* What goes on around the monitor.                                        *)

Change ==
    /\ upsets < MaxUpsets
    /\ upsets' = upsets + 1
    /\ UNCHANGED <<process, monitor, ledger, started, lost, crashed>>

SocketChanges ==
    /\ Change
    /\ process # "down"
    /\ connected' = ~connected
    /\ UNCHANGED <<reachable, degraded, breaker, bus>>

DatabaseChanges ==
    /\ Change
    /\ reachable' = ~reachable
    /\ UNCHANGED <<connected, degraded, breaker, bus>>

(* _portfolio_aggregation_loop: evaluate_alerts() finds a critical         *)
(* drawdown.  Nothing closes the breaker again before the next start.      *)
BreakerTrips ==
    /\ Change
    /\ process = "running" /\ breaker = "CLOSED"
    /\ breaker' = "OPEN"
    /\ Emit("CIRCUIT_BREAKER_OPEN")
    /\ UNCHANGED <<connected, reachable, degraded>>

(* An evaluation ends because the provider fails or answers nonsense: the   *)
(* call tells it after its last retry, and so does the evaluation.         *)
ProviderFails ==
    /\ Change
    /\ process \in {"running", "stopping"}
    /\ \/ Emit("PROVIDER_FAILURE")
       \/ bus' = bus \o <<"PROVIDER_FAILURE", "PROVIDER_FAILURE">>
    /\ UNCHANGED <<connected, reachable, degraded, breaker>>

----------------------------------------------------------------------------
(* A pass of _event_ledger_monitor_loop, every 15 s: the connection is     *)
(* looked at and told, ...                                                 *)

SocketEvent ==
    CASE connected /\ ~monitor.prevSocket /\ monitor.reported -> <<"WS_RECONNECT">>
      [] connected /\ ~monitor.prevSocket /\ ~monitor.reported -> <<"WS_CONNECTED">>
      [] ~connected /\ monitor.prevSocket -> <<"WS_PONG_STALE">>
      [] OTHER -> << >>

TellSocket ==
    /\ process = "running" /\ monitor.stage = "asleep"
    /\ bus' = bus \o SocketEvent
    /\ monitor' = [monitor EXCEPT !.stage = "told", !.prevSocket = connected,
                                  !.reported = @ \/ connected]
    /\ UNCHANGED <<process, connected, reachable, degraded, breaker, ledger,
                   started, upsets, lost, crashed>>

(* ... and looked at once more by _get_runtime_health, which then awaits   *)
(* the database, ...                                                       *)
AskHealth ==
    /\ process \in {"running", "stopping"} /\ monitor.stage = "told"
    /\ monitor' = [monitor EXCEPT !.stage = "asking", !.sawSocket = connected]
    /\ UNCHANGED <<process, connected, reachable, degraded, breaker, bus,
                   ledger, started, upsets, lost, crashed>>

(* ... for readiness, which is told when it is not what it was.            *)
Ready == monitor.sawSocket /\ reachable /\ ~degraded

(* Mutant: what was told is remembered only when it was good.              *)
TellReadinessForgets ==
    /\ process \in {"running", "stopping"} /\ monitor.stage = "asking"
    /\ IF Ready # monitor.prevReady
       THEN Emit(IF Ready THEN "READY" ELSE "DEGRADED")
       ELSE UNCHANGED bus
    /\ monitor' = [monitor EXCEPT !.stage = "asleep", !.sawSocket = FALSE,
                                  !.prevReady = @ \/ Ready]
    /\ UNCHANGED <<process, connected, reachable, degraded, breaker, ledger,
                   started, upsets, lost, crashed>>

TellReadiness ==
    /\ process \in {"running", "stopping"} /\ monitor.stage = "asking"
    /\ IF Ready # monitor.prevReady
       THEN Emit(IF Ready THEN "READY" ELSE "DEGRADED")
       ELSE UNCHANGED bus
    /\ monitor' = [monitor EXCEPT !.stage = "asleep", !.sawSocket = FALSE,
                                  !.prevReady = Ready]
    /\ UNCHANGED <<process, connected, reachable, degraded, breaker, ledger,
                   started, upsets, lost, crashed>>

MonitorPass == TellSocket \/ AskHealth \/ TellReadiness

LedgerNext ==
    \/ Start \/ BeginShutdown \/ CancelTasks \/ Exit \/ Crash
    \/ CommitBatch \/ LoseBatch
    \/ SocketChanges \/ DatabaseChanges \/ BreakerTrips \/ ProviderFails
    \/ MonitorPass
=============================================================================
