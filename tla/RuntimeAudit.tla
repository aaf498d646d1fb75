----------------------------- MODULE RuntimeAudit -----------------------------
(***************************************************************************)
(* The periodic runtime audit, a process that a timer or an operator       *)
(* starts beside the agent.  It asks the agent's endpoints one after the   *)
(* other, derives a status, and leaves a report: two files named by the    *)
(* second it began in, and two latest files, each renamed from the one     *)
(* temporary file.  aggregate_audits.py reads the reports afterwards.      *)
(*                                                                         *)
(* The summaries of the tables, the size of the database, Docker and the   *)
(* log tail are reported and never judged, and are left out, as is the     *)
(* alert: the entry point passes no notifier to send it with.              *)
(***************************************************************************)
EXTENDS Naturals, FiniteSets

CONSTANTS
    MaxAudits,    \* bound: audits of a behaviour
    AtOnce,       \* how many of them may run at once
    MaxChanges    \* bound: changes of the agent

ASSUME RuntimeAuditAssumption ==
    /\ MaxAudits \in Nat /\ MaxChanges \in Nat
    /\ AtOnce \in Nat \ {0}

VARIABLES
    agent,        \* what the endpoints tell
    changes,      \* changes of the agent so far (bounded)
    audit,        \* the frame of each audit
    files         \* docs/operations/runtime_audits

vars == <<agent, changes, audit, files>>

Audits == 1 .. MaxAudits
Stamps == Audits

Statuses == {"HEALTHY", "DEGRADED", "SAFETY_GATE_FAILED", "PROBE_ERROR"}
FindingTypes == {"SAFETY_GATE", "PROBE_ERROR", "DEGRADATION"}
Writing  == {"json", "md", "tmp_json", "swap_json", "tmp_md", "swap_md"}
AtWork   == {"health", "readiness", "metrics"} \cup Writing

(* labels: those of the metrics; the filter of the report's content refuses *)
(* the names of some of the forbidden ones.                                 *)
Agents == [up : BOOLEAN, db : BOOLEAN, fit : BOOLEAN, dryRun : BOOLEAN,
           labels : {"clean", "forbidden", "refused"}]

Contents == [kind : {"absent", "torn", "json", "md"}, by : 0 .. MaxAudits,
             gate : BOOLEAN]

Absent == [kind |-> "absent", by |-> 0, gate |-> FALSE]
Torn   == [kind |-> "torn", by |-> 0, gate |-> FALSE]

NotBegun == [stage |-> "idle", stamp |-> 1, findings |-> {}, refused |-> FALSE,
             failed |-> FALSE, status |-> "none", held |-> {}]

(* What an audit that calls the agent healthy vouches for.                  *)
Conditions == {"up", "db", "dryRun", "labels"}

Holding(g) == {c \in Conditions : CASE c = "up" -> g.up
                                    [] c = "db" -> g.db
                                    [] c = "dryRun" -> g.dryRun
                                    [] c = "labels" -> g.labels = "clean"}

TypeOK ==
    /\ agent \in Agents
    /\ changes \in 0 .. MaxChanges
    /\ \A a \in Audits :
         /\ audit[a].stage \in {"idle", "done", "killed"} \cup AtWork
         /\ audit[a].stamp \in Stamps
         /\ audit[a].findings \subseteq FindingTypes
         /\ audit[a].refused \in BOOLEAN /\ audit[a].failed \in BOOLEAN
         /\ audit[a].status \in Statuses \cup {"none"}
         /\ audit[a].held \subseteq Conditions
    /\ files.json \in [Stamps -> Contents] /\ files.md \in [Stamps -> Contents]
    /\ {files.tmp, files.latestJson, files.latestMd} \subseteq Contents

Init ==
    /\ agent = [up |-> TRUE, db |-> TRUE, fit |-> TRUE, dryRun |-> TRUE,
                labels |-> "clean"]
    /\ changes = 0
    /\ audit = [a \in Audits |-> NotBegun]
    /\ files = [json |-> [s \in Stamps |-> Absent], md |-> [s \in Stamps |-> Absent],
                tmp |-> Absent, latestJson |-> Absent, latestMd |-> Absent]

Running == {a \in Audits : audit[a].stage \in AtWork}

(* The agent stops or starts, its database, its feed or its ledger fails or *)
(* is well again, it is configured otherwise, or grows a metric.            *)
AgentChanges ==
    /\ changes < MaxChanges
    /\ changes' = changes + 1
    /\ \/ \E f \in {"up", "db", "fit", "dryRun"} :
            agent' = [agent EXCEPT ![f] = ~@]
       \/ \E l \in {"clean", "forbidden", "refused"} \ {agent.labels} :
            agent' = [agent EXCEPT !.labels = l]
    /\ audit' = [a \in Audits |-> IF a \in Running
                   THEN [audit[a] EXCEPT !.held = @ \cup Holding(agent')]
                   ELSE audit[a]]
    /\ UNCHANGED files

----------------------------------------------------------------------------
(* The probes.  An agent that is up may still let a request time out.       *)

(* The timer does not start an audit beside a running one, and its stamps   *)
(* differ; an operator's may begin in the same second.                      *)
Begin(a) ==
    /\ audit[a].stage = "idle"
    /\ \A b \in 1 .. a - 1 : audit[b].stage # "idle"
    /\ Cardinality(Running) < AtOnce
    /\ \E s \in {a} \cup {audit[b].stamp : b \in Running} :
         audit' = [audit EXCEPT ![a] = [NotBegun EXCEPT !.stage = "health",
                                          !.stamp = s, !.held = Holding(agent)]]
    /\ UNCHANGED <<agent, changes, files>>

Found(a, fs, next) ==
    /\ audit' = [audit EXCEPT ![a].findings = @ \cup fs, ![a].stage = next]
    /\ UNCHANGED <<agent, changes, files>>

ProbeHealth(a) ==
    /\ audit[a].stage = "health"
    /\ \/ agent.up /\ Found(a, {}, "readiness")
       \/ Found(a, {"PROBE_ERROR"}, "readiness")

(* /readyz answers 503 only without the database, and READY and DEGRADED    *)
(* alike with 200.                                                          *)
ReadyzStatus ==
    CASE ~agent.db -> "NOT_READY"
      [] agent.db /\ agent.fit -> "READY"
      [] OTHER -> "DEGRADED"

HttpStatus(s) == IF s = "NOT_READY" THEN 503 ELSE 200

(* Mutant: any answer is a good one.                                        *)
ReadinessFindingsLax == IF agent.dryRun THEN {} ELSE {"SAFETY_GATE"}

ReadinessFindings ==
    (IF HttpStatus(ReadyzStatus) = 200 THEN {} ELSE {"DEGRADATION"})
      \cup (IF agent.dryRun THEN {} ELSE {"SAFETY_GATE"})

(* Without an answer the dry-run posture is missing as well.                *)
ProbeReadiness(a) ==
    /\ audit[a].stage = "readiness"
    /\ \/ agent.up /\ Found(a, ReadinessFindings, "metrics")
       \/ Found(a, {"PROBE_ERROR", "SAFETY_GATE"}, "metrics")

MetricsFindings == IF agent.labels = "clean" THEN {} ELSE {"SAFETY_GATE"}

StatusOf(fs) ==
    CASE "SAFETY_GATE" \in fs -> "SAFETY_GATE_FAILED"
      [] "SAFETY_GATE" \notin fs /\ "PROBE_ERROR" \in fs -> "PROBE_ERROR"
      [] fs = {"DEGRADATION"} -> "DEGRADED"
      [] OTHER -> "HEALTHY"

(* The last probe, and the status derived from what was found.              *)
Judged(a, fs, refused) ==
    /\ audit' = [audit EXCEPT ![a].findings = @ \cup fs, ![a].stage = "json",
                   ![a].refused = refused,
                   ![a].status = StatusOf(audit[a].findings \cup fs)]
    /\ UNCHANGED <<agent, changes, files>>

ProbeMetrics(a) ==
    /\ audit[a].stage = "metrics"
    /\ \/ agent.up /\ Judged(a, MetricsFindings, agent.labels = "refused")
       \/ Judged(a, {"PROBE_ERROR"}, FALSE)

----------------------------------------------------------------------------
(* write_audit_artifacts.                                                   *)

Report(a, kind) ==
    [kind |-> kind, by |-> a, gate |-> "SAFETY_GATE" \in audit[a].findings]

(* Mutant: the status stands whether or not the report could be written.    *)
FinishAnyway(a, failed) == audit' = [audit EXCEPT ![a].stage = "done"]

(* A report that was not written in full makes the audit a probe error.     *)
Finish(a, failed) ==
    audit' = [audit EXCEPT ![a].stage = "done",
                ![a].status = IF failed THEN "PROBE_ERROR" ELSE @]

GoOn(a, stage, failed) ==
    audit' = [audit EXCEPT ![a].stage = stage, ![a].failed = @ \/ failed]

(* Mutant: the latest files are renewed before the report is complete.      *)
WriteJsonAndSwap(a) ==
    /\ audit[a].stage = "json"
    /\ ~audit[a].refused
    /\ files' = [files EXCEPT !.json[audit[a].stamp] = Report(a, "json")]
    /\ GoOn(a, "tmp_json", FALSE)
    /\ UNCHANGED <<agent, changes>>

WriteJson(a) ==
    /\ audit[a].stage = "json"
    /\ \/ /\ ~audit[a].refused
          /\ files' = [files EXCEPT !.json[audit[a].stamp] = Report(a, "json")]
          /\ GoOn(a, "md", FALSE)
       \/ /\ ~audit[a].refused
          /\ files' = [files EXCEPT !.json[audit[a].stamp] = Torn]
          /\ Finish(a, TRUE)
       \/ Finish(a, TRUE) /\ UNCHANGED files
    /\ UNCHANGED <<agent, changes>>

WriteMd(a) ==
    /\ audit[a].stage = "md"
    /\ \/ /\ files' = [files EXCEPT !.md[audit[a].stamp] = Report(a, "md")]
          /\ GoOn(a, "tmp_json", FALSE)
       \/ /\ \/ files' = [files EXCEPT !.md[audit[a].stamp] = Torn]
             \/ UNCHANGED files
          /\ Finish(a, TRUE)
    /\ UNCHANGED <<agent, changes>>

(* latest.json and latest.md are both written as latest.tmp first.          *)
WriteTmp(a, kind, stage, next, skip) ==
    /\ audit[a].stage = stage
    /\ \/ /\ files' = [files EXCEPT !.tmp = Report(a, kind)]
          /\ GoOn(a, next, FALSE)
       \/ /\ \/ files' = [files EXCEPT !.tmp = Torn]
             \/ UNCHANGED files
          /\ IF skip = "done" THEN Finish(a, TRUE) ELSE GoOn(a, skip, TRUE)
    /\ UNCHANGED <<agent, changes>>

WriteTmpJson(a) == WriteTmp(a, "json", "tmp_json", "swap_json", "tmp_md")
WriteTmpMd(a)   == WriteTmp(a, "md", "tmp_md", "swap_md", "done")

SwapJson(a) ==
    /\ audit[a].stage = "swap_json"
    /\ \/ /\ files.tmp # Absent
          /\ files' = [files EXCEPT !.latestJson = files.tmp, !.tmp = Absent]
          /\ GoOn(a, "tmp_md", FALSE)
       \/ GoOn(a, "tmp_md", TRUE) /\ UNCHANGED files
    /\ UNCHANGED <<agent, changes>>

SwapMd(a) ==
    /\ audit[a].stage = "swap_md"
    /\ \/ /\ files.tmp # Absent
          /\ files' = [files EXCEPT !.latestMd = files.tmp, !.tmp = Absent]
          /\ Finish(a, audit[a].failed)
       \/ Finish(a, TRUE) /\ UNCHANGED files
    /\ UNCHANGED <<agent, changes>>

(* The audit is killed; a file it was writing may be left torn.             *)
Killed(a) ==
    /\ a \in Running
    /\ audit' = [audit EXCEPT ![a].stage = "killed", ![a].status = "none"]
    /\ \/ UNCHANGED files
       \/ /\ audit[a].stage = "json" /\ ~audit[a].refused
          /\ files' = [files EXCEPT !.json[audit[a].stamp] = Torn]
       \/ /\ audit[a].stage = "md"
          /\ files' = [files EXCEPT !.md[audit[a].stamp] = Torn]
       \/ /\ audit[a].stage \in {"tmp_json", "tmp_md"}
          /\ files' = [files EXCEPT !.tmp = Torn]
    /\ UNCHANGED <<agent, changes>>

Probe(a)   == Begin(a) \/ ProbeHealth(a) \/ ProbeReadiness(a) \/ ProbeMetrics(a)
Archive(a) == WriteJson(a) \/ WriteMd(a) \/ WriteTmpJson(a) \/ SwapJson(a)
                \/ WriteTmpMd(a) \/ SwapMd(a)

Next == AgentChanges \/ \E a \in Audits : Probe(a) \/ Archive(a) \/ Killed(a)

Spec == Init /\ [][Next]_vars

----------------------------------------------------------------------------
(* aggregate_audits.py: the reports that parse and tell of a safety gate.   *)

CriticalSafetyGates ==
    Cardinality({s \in Stamps : files.json[s].kind = "json" /\ files.json[s].gate})

(* An audit calls the agent healthy only if, at some moment while it ran,   *)
(* it was up, at some moment its database answered, and so on; and whatever *)
(* else was wrong, only a dry run with clean labels is merely degraded.     *)
VerdictTrue ==
    \A a \in Audits : audit[a].stage = "done" =>
        /\ audit[a].status = "HEALTHY" => audit[a].held = Conditions
        /\ audit[a].status = "DEGRADED" => {"up", "dryRun", "labels"} \subseteq audit[a].held

(* Each audit that exits with a failed safety gate is found by the          *)
(* aggregation, whatever was killed before, and whatever the disk refused.  *)
SafetyRecorded ==
    CriticalSafetyGates >= Cardinality({a \in Audits :
        audit[a].stage = "done" /\ audit[a].status = "SAFETY_GATE_FAILED"})

(* The latest files are never torn or swapped, stand for a report that is   *)
(* there in full, and are of one audit unless the last one was killed or    *)
(* exited with an error.                                                    *)
LatestSound ==
    /\ files.latestJson.kind \in {"absent", "json"}
    /\ files.latestMd.kind \in {"absent", "md"}
    /\ \A a \in Audits : files.latestJson.by = a =>
         /\ files.json[audit[a].stamp] = files.latestJson
         /\ files.md[audit[a].stamp].kind = "md"
         /\ files.md[audit[a].stamp].by = a
    /\ \A a \in Audits :
         /\ audit[a].stage = "done" /\ audit[a].status # "PROBE_ERROR"
         /\ \A b \in Audits : b > a => audit[b].stage = "idle"
         => files.latestJson.by = a /\ files.latestMd.by = a
=============================================================================
