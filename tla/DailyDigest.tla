----------------------------- MODULE DailyDigest -----------------------------
(***************************************************************************)
(* The daily digest, a process of its own that may run beside the agent:   *)
(* it pages through the events of its window, newest first, and derives    *)
(* from them how the run stands.  The window holds the whole ledger.       *)
(***************************************************************************)
EXTENDS OperationsLedger

CONSTANTS
    PageSize,     \* _DEFAULT_EVENT_LIMIT
    MaxPages,     \* _MAX_EVENT_READ_PAGES
    UnresolvedLimit   \* _UNRESOLVED_LIMIT

ASSUME DailyDigestAssumption ==
    PageSize \in Nat \ {0} /\ MaxPages \in Nat \ {0} /\ UnresolvedLimit \in Nat \ {0}

VARIABLE reader   \* _read_events: where it is, what it counted and read

digestVars == <<ledgerVars, reader>>

(* rows: the places in the ledger of the events read; base: how many there *)
(* were when the reader began.                                             *)
NoReader == [stage |-> "idle", total |-> 0, pages |-> 0, rows |-> << >>, base |-> 0]

DigestTypeOK ==
    /\ LedgerTypeOK
    /\ reader.stage \in {"idle", "count", "fetch", "SUCCESS", "READ_CAP_REACHED",
                         "DATABASE_UNAVAILABLE"}
    /\ reader.total \in 0 .. Len(ledger)
    /\ reader.pages \in 0 .. MaxPages
    /\ reader.rows \in Seq(DOMAIN ledger)
    /\ reader.base \in 0 .. Len(ledger)

DigestInit == LedgerInit /\ reader = NoReader

BeginRead ==
    /\ reader.stage = "idle"
    /\ reader' = [reader EXCEPT !.stage = "count", !.base = Len(ledger)]

(* read_window() asks twice: how many rows there are, ...                  *)
CountRows ==
    /\ reader.stage = "count" /\ reachable
    /\ reader' = [reader EXCEPT !.stage = "fetch", !.total = Len(ledger)]

(* ... and for a page of them; the offset is the number of rows read.      *)
Offset == Len(reader.rows)

Page ==
    LET n == Min({PageSize, Max({0, Len(ledger) - Offset})})
    IN  [i \in 1 .. n |-> Len(ledger) - Offset - i + 1]

(* Mutant: the cursor stops one row short.                                 *)
HasMoreButOne == Offset + Len(Page) + 1 < reader.total

HasMore == Offset + Len(Page) < reader.total

FetchPage ==
    /\ reader.stage = "fetch" /\ reachable
    /\ reader' =
         IF      ~HasMore \/ Page = << >> THEN [NoReader EXCEPT !.stage = "SUCCESS"]
         ELSE IF reader.pages + 1 = MaxPages THEN [NoReader EXCEPT !.stage = "READ_CAP_REACHED"]
         ELSE    [reader EXCEPT !.stage = "count", !.pages = @ + 1, !.rows = @ \o Page]

ReadRaises ==
    /\ reader.stage \in {"count", "fetch"} /\ ~reachable
    /\ reader' = [NoReader EXCEPT !.stage = "DATABASE_UNAVAILABLE"]

Read == (BeginRead \/ CountRows \/ FetchPage \/ ReadRaises) /\ UNCHANGED ledgerVars

DigestNext == (LedgerNext /\ UNCHANGED reader) \/ Read

(* The monitor and the bus go on while the process does; nobody owes a     *)
(* start, a shutdown or a digest.                                          *)
DigestFairness ==
    /\ WF_digestVars(MonitorPass /\ UNCHANGED reader)
    /\ WF_digestVars((CommitBatch \/ LoseBatch) /\ UNCHANGED reader)

DigestSpec == DigestInit /\ [][DigestNext]_digestVars /\ DigestFairness

----------------------------------------------------------------------------
(* What the digest derives from events in the order of time.               *)

LastOf(s, S) == SelectLastInSeq(s, LAMBDA k : k \in S)

(* Mutant: starts and shutdowns are counted, not paired.                   *)
RunStatusByCount(s) ==
    LET n(k) == Cardinality({i \in DOMAIN s : s[i] = k})
    IN  IF n("START") > n("SHUTDOWN") THEN "partial" ELSE "completed"

(* run_status of _derive_run_summary: a SHUTDOWN ends the run that is open *)
(* and a START opens one only if none is.                                  *)
RunStatus(s) ==
    IF      LastOf(s, {"START"}) > LastOf(s, {"SHUTDOWN"}) THEN "partial"
    ELSE IF LastOf(s, {"START"}) > 0 THEN "completed"
    ELSE IF s # << >> THEN "unknown"
    ELSE    "no_run"

(* latest_readiness.                                                       *)
LatestReadiness(s) ==
    LET i == LastOf(s, {"READY", "DEGRADED"}) IN IF i = 0 THEN "None" ELSE s[i]

(* _select_unresolved: what supersedes a problem of its category, by the   *)
(* latest of the two; nothing here supersedes a provider's failure.        *)
Recovery(k) ==
    CASE k = "DEGRADED" -> {"READY"}
      [] k = "WS_PONG_STALE" -> {"WS_CONNECTED", "WS_RECONNECT"}
      [] k = "CIRCUIT_BREAKER_OPEN" -> {"CIRCUIT_BREAKER_CLOSED"}
      [] OTHER -> {}

Recovered(s, k) == LastOf(s, Recovery(k)) > LastOf(s, {k})

(* Of severity WARNING; and ERROR or CRITICAL.                             *)
Warnings == {"DEGRADED", "WS_PONG_STALE", "WS_RECONNECT"}
Errors   == {"CIRCUIT_BREAKER_OPEN", "PROVIDER_FAILURE"}

(* The first of the events that are left, which are the oldest.            *)
Unresolved(s, kinds) ==
    LET left == SelectSeq(s, LAMBDA k : k \in kinds /\ ~Recovered(s, k))
    IN  SubSeq(left, 1, Min({UnresolvedLimit, Len(left)}))

(* _derive_operator_checks, of these events.                               *)
OperatorChecks(s) ==
    {check \in {"lifecycle", "readiness", "provider", "general"} :
        CASE check = "lifecycle" -> RunStatus(s) = "partial"
          [] check = "readiness" -> LatestReadiness(s) = "DEGRADED"
          [] check = "provider"  -> Contains(s, "PROVIDER_FAILURE")
          [] check = "general"   -> Unresolved(s, Errors) \o Unresolved(s, Warnings) # << >>}

----------------------------------------------------------------------------
(* A digest written while the agent goes on misses no more events than     *)
(* were written meanwhile, repeats no more, and on a closed day none of    *)
(* either: the two queries of a page and the offset into a list that grows *)
(* at its head never skip further.                                         *)
Succeeds == FetchPage /\ reader'.stage = "SUCCESS"
Rows == reader.rows \o Page

DigestCovers ==
    [][Succeeds =>
         LET meanwhile == Len(ledger) - reader.base
         IN  /\ Cardinality((1 .. reader.base) \ ToSet(Rows)) <= meanwhile
             /\ Len(Rows) - Cardinality(ToSet(Rows)) <= meanwhile]_digestVars

(* The status of the run is that of the process: a digest read while the   *)
(* agent runs never says completed, and after an orderly end never         *)
(* partial, whatever crashed before, if no event of this run was lost.     *)
LifecycleTold ==
    ~lost =>
        /\ process = "running" /\ ~Contains(bus, "START") =>
              RunStatus(ledger) = "partial"
        /\ process = "down" /\ started /\ ~crashed =>
              RunStatus(ledger) = "completed"

(* Events are sent on a change only, but if the feed and the database stay *)
(* well and no event of the run is lost, a digest ends up saying that the  *)
(* agent is ready, lists no trouble of theirs and asks the operator for no *)
(* check of it.  A tripped breaker ends up with a check to make, and in    *)
(* the list of unresolved errors; but only as long as the older ones, of   *)
(* the provider, leave it a place, since the list is cut at its end.       *)
Well == process = "running" /\ connected /\ reachable /\ ~degraded /\ ~lost

StateTold ==
    /\ <>[]Well =>
          <>[](/\ LatestReadiness(ledger) = "READY"
               /\ {"DEGRADED", "WS_PONG_STALE"} \cap ToSet(Unresolved(ledger, Warnings)) = {}
               /\ "readiness" \notin OperatorChecks(ledger))
    /\ <>[](process = "running" /\ breaker = "OPEN" /\ ~lost) =>
          <>[](/\ "general" \in OperatorChecks(ledger)
               /\ \/ Contains(Unresolved(ledger, Errors), "CIRCUIT_BREAKER_OPEN")
                  \/ Len(Unresolved(ledger, Errors)) = UnresolvedLimit)
=============================================================================
