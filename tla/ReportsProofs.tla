---------------------------- MODULE ReportsProofs ----------------------------
(***************************************************************************)
(* Proofs about the runtime audit and the daily digest.  That a verdict of *)
(* the audit has its reasons holds for any number of audits at once.  What *)
(* is said of the report files is proved for audits that follow one        *)
(* another, as the timer starts them (AtOnce = 1); audits that overlap may *)
(* write to the same names.  Of the digest: that the ledger tells how the  *)
(* run stands, and that a paged read beside the agent covers its window.   *)
(***************************************************************************)
EXTENDS RuntimeAudit, DailyDigest, SequenceTheorems, FiniteSetTheorems,
        NaturalsInduction, WellFoundedInduction, TLAPS

Stages == {"idle", "done", "killed"} \cup AtWork

Frames == [stage : Stages, stamp : Stamps, findings : SUBSET FindingTypes,
           refused : BOOLEAN, failed : BOOLEAN, status : Statuses \cup {"none"},
           held : SUBSET Conditions]

Directories == [json : [Stamps -> Contents], md : [Stamps -> Contents],
                tmp : Contents, latestJson : Contents, latestMd : Contents]

Typed ==
    /\ agent \in Agents
    /\ changes \in 0 .. MaxChanges
    /\ audit \in [Audits -> Frames]
    /\ files \in Directories

-------------------------------------------------------------------------------
(* The frames after a step of one audit: those of the others are untouched. *)

Others(a) == \A b \in Audits \ {a} : audit'[b] = audit[b]

(* What a probe that found something leaves in its audit's frame. *)
LEMMA FoundFrame ==
  ASSUME Typed, NEW a \in Audits, NEW fs \in SUBSET FindingTypes, NEW next \in Stages,
         Found(a, fs, next)
  PROVE  /\ audit' \in [Audits -> Frames] /\ Others(a)
         /\ audit'[a].stage = next
         /\ audit'[a].findings = audit[a].findings \cup fs
         /\ audit'[a].held = audit[a].held
         /\ audit'[a].status = audit[a].status
         /\ audit'[a].stamp = audit[a].stamp
<1> DEFINE f == [audit[a] EXCEPT !.findings = @ \cup fs, !.stage = next]
<1>1. audit[a] \in Frames /\ audit \in [Audits -> Frames]
  BY DEF Typed
<1>2. /\ f \in Frames
      /\ f.stage = next /\ f.findings = audit[a].findings \cup fs
      /\ f.held = audit[a].held /\ f.status = audit[a].status /\ f.stamp = audit[a].stamp
  BY <1>1 DEF Frames
<1>3. audit' = [audit EXCEPT ![a] = f]
  BY <1>1 DEF Found
<1> HIDE DEF f
<1> QED
  BY <1>1, <1>2, <1>3 DEF Others

(* What the last probe leaves in it: the verdict of all findings. *)
LEMMA JudgedFrame ==
  ASSUME Typed, NEW a \in Audits, NEW fs \in SUBSET FindingTypes, NEW r \in BOOLEAN,
         Judged(a, fs, r)
  PROVE  /\ audit' \in [Audits -> Frames] /\ Others(a)
         /\ audit'[a].stage = "json"
         /\ audit'[a].findings = audit[a].findings \cup fs
         /\ audit'[a].held = audit[a].held
         /\ audit'[a].status = StatusOf(audit[a].findings \cup fs)
         /\ audit'[a].stamp = audit[a].stamp
<1> DEFINE s == StatusOf(audit[a].findings \cup fs)
           f == [audit[a] EXCEPT !.findings = @ \cup fs, !.stage = "json",
                                 !.refused = r, !.status = s]
<1>1. audit[a] \in Frames /\ audit \in [Audits -> Frames]
  BY DEF Typed
<1>2. s \in Statuses
  BY DEF StatusOf, Statuses
<1>3. audit' = [audit EXCEPT ![a] = f]
  BY <1>1 DEF Judged
<1> HIDE DEF s
<1>4. /\ f \in Frames
      /\ f.stage = "json" /\ f.findings = audit[a].findings \cup fs
      /\ f.held = audit[a].held /\ f.status = s /\ f.stamp = audit[a].stamp
  BY <1>1, <1>2 DEF Frames, Stages, AtWork, Writing
<1> HIDE DEF f
<1> QED
  BY <1>1, <1>3, <1>4 DEF Others, s

(* What the end of an audit leaves in it. *)
LEMMA FinishFrame ==
  ASSUME Typed, NEW a \in Audits, NEW failed \in BOOLEAN, Finish(a, failed)
  PROVE  /\ audit' \in [Audits -> Frames] /\ Others(a)
         /\ audit'[a].stage = "done"
         /\ audit'[a].findings = audit[a].findings
         /\ audit'[a].held = audit[a].held
         /\ audit'[a].status = IF failed THEN "PROBE_ERROR" ELSE audit[a].status
         /\ audit'[a].stamp = audit[a].stamp
<1> DEFINE s == IF failed THEN "PROBE_ERROR" ELSE audit[a].status
           f == [audit[a] EXCEPT !.stage = "done", !.status = s]
<1>1. audit[a] \in Frames /\ audit \in [Audits -> Frames]
  BY DEF Typed
<1>2. s \in Statuses \cup {"none"}
  BY <1>1 DEF Frames, Statuses
<1>3. audit' = [audit EXCEPT ![a] = f]
  BY <1>1 DEF Finish
<1> HIDE DEF s
<1>4. /\ f \in Frames
      /\ f.stage = "done" /\ f.findings = audit[a].findings
      /\ f.held = audit[a].held /\ f.status = s /\ f.stamp = audit[a].stamp
  BY <1>1, <1>2 DEF Frames, Stages
<1> HIDE DEF f
<1> QED
  BY <1>1, <1>3, <1>4 DEF Others, s

(* What a write of an audit that goes on leaves in it. *)
LEMMA GoOnFrame ==
  ASSUME Typed, NEW a \in Audits, NEW stage \in Stages, NEW failed \in BOOLEAN,
         GoOn(a, stage, failed)
  PROVE  /\ audit' \in [Audits -> Frames] /\ Others(a)
         /\ audit'[a].stage = stage
         /\ audit'[a].findings = audit[a].findings
         /\ audit'[a].held = audit[a].held
         /\ audit'[a].status = audit[a].status
         /\ audit'[a].stamp = audit[a].stamp
         /\ audit'[a].failed <=> audit[a].failed \/ failed
<1> DEFINE l == audit[a].failed \/ failed
           f == [audit[a] EXCEPT !.stage = stage, !.failed = l]
<1>1. audit[a] \in Frames /\ audit \in [Audits -> Frames]
  BY DEF Typed
<1>2. l \in BOOLEAN
  OBVIOUS
<1>3. audit' = [audit EXCEPT ![a] = f]
  BY <1>1 DEF GoOn
<1> HIDE DEF l
<1>4. /\ f \in Frames
      /\ f.stage = stage /\ f.findings = audit[a].findings /\ f.failed = l
      /\ f.held = audit[a].held /\ f.status = audit[a].status /\ f.stamp = audit[a].stamp
  BY <1>1, <1>2 DEF Frames
<1> HIDE DEF f
<1> QED
  BY <1>1, <1>3, <1>4 DEF Others, l

(* What a kill leaves in it. *)
LEMMA KilledFrame ==
  ASSUME Typed, NEW a \in Audits,
         audit' = [audit EXCEPT ![a].stage = "killed", ![a].status = "none"]
  PROVE  /\ audit' \in [Audits -> Frames] /\ Others(a)
         /\ audit'[a].stage = "killed"
         /\ audit'[a].stamp = audit[a].stamp
<1> DEFINE f == [audit[a] EXCEPT !.stage = "killed", !.status = "none"]
<1>1. audit[a] \in Frames /\ audit \in [Audits -> Frames]
  BY DEF Typed
<1>2. audit' = [audit EXCEPT ![a] = f]
  BY <1>1
<1>3. f \in Frames /\ f.stage = "killed" /\ f.stamp = audit[a].stamp
  BY <1>1 DEF Frames, Stages
<1> HIDE DEF f
<1> QED
  BY <1>1, <1>2, <1>3 DEF Others

(* Only conditions hold. *)
LEMMA HoldingConditions == \A g : Holding(g) \subseteq Conditions
  BY DEF Holding

(* What the start of an audit puts into it. *)
LEMMA BeginFrame ==
  ASSUME Typed, NEW a \in Audits, NEW s \in Stamps,
         audit' = [audit EXCEPT ![a] = [NotBegun EXCEPT !.stage = "health",
                                          !.stamp = s, !.held = Holding(agent)]]
  PROVE  /\ audit' \in [Audits -> Frames] /\ Others(a)
         /\ audit'[a].stage = "health"
         /\ audit'[a].findings = {}
         /\ audit'[a].held = Holding(agent)
         /\ audit'[a].stamp = s
<1> DEFINE h == Holding(agent)
           f == [NotBegun EXCEPT !.stage = "health", !.stamp = s, !.held = h]
<1>1. audit[a] \in Frames /\ audit \in [Audits -> Frames]
  BY DEF Typed
<1>2. h \in SUBSET Conditions
  BY HoldingConditions
<1>3. audit' = [audit EXCEPT ![a] = f]
  BY <1>1
<1> HIDE DEF h
<1>4. /\ f \in Frames
      /\ f.stage = "health" /\ f.findings = {} /\ f.held = h /\ f.stamp = s
  BY <1>2 DEF Frames, NotBegun, Stages, AtWork
<1> HIDE DEF f
<1> QED
  BY <1>1, <1>3, <1>4 DEF Others, h

(* A change of the agent is noted by the audits that run, and by nothing else. *)
LEMMA ChangesFrame ==
  ASSUME Typed, AgentChanges
  PROVE  /\ audit' \in [Audits -> Frames]
         /\ agent' \in Agents /\ changes' \in 0 .. MaxChanges /\ files' = files
         /\ \A a \in Audits :
              /\ audit'[a].stage = audit[a].stage
              /\ audit'[a].findings = audit[a].findings
              /\ audit'[a].status = audit[a].status
              /\ audit'[a].failed = audit[a].failed
              /\ audit'[a].stamp = audit[a].stamp
              /\ audit[a].held \subseteq audit'[a].held
              /\ audit[a].stage \in AtWork => Holding(agent') \subseteq audit'[a].held
<1> DEFINE h == Holding(agent')
           f(a) == [audit[a] EXCEPT !.held = @ \cup h]
<1>1. audit \in [Audits -> Frames] /\ agent \in Agents /\ changes \in 0 .. MaxChanges
  BY DEF Typed
<1>2. h \in SUBSET Conditions
  BY HoldingConditions
<1>3. audit' = [a \in Audits |-> IF a \in Running THEN f(a) ELSE audit[a]]
  BY DEF AgentChanges
<1>4. \A a \in Audits : a \in Running <=> audit[a].stage \in AtWork
  BY DEF Running
<1>5. agent' \in Agents
  <2>1. ASSUME NEW x \in {"up", "db", "fit", "dryRun"}, agent' = [agent EXCEPT ![x] = ~@]
        PROVE  agent' \in Agents
    BY <1>1, <2>1 DEF Agents
  <2>2. ASSUME NEW l \in {"clean", "forbidden", "refused"}, agent' = [agent EXCEPT !.labels = l]
        PROVE  agent' \in Agents
    BY <1>1, <2>2 DEF Agents
  <2> QED
    BY <2>1, <2>2 DEF AgentChanges
<1>6. changes' \in 0 .. MaxChanges /\ files' = files
  BY <1>1, RuntimeAuditAssumption DEF AgentChanges
<1> HIDE DEF h
<1>7. ASSUME NEW a \in Audits
      PROVE  /\ f(a) \in Frames
             /\ f(a).stage = audit[a].stage /\ f(a).findings = audit[a].findings
             /\ f(a).status = audit[a].status /\ f(a).failed = audit[a].failed
             /\ f(a).stamp = audit[a].stamp /\ f(a).held = audit[a].held \cup h
  <2>1. audit[a] \in Frames
    BY <1>1
  <2> QED
    BY <1>2, <2>1 DEF Frames
<1> HIDE DEF f
<1>8. audit' \in [Audits -> Frames]
  BY <1>1, <1>3, <1>7
<1>9. ASSUME NEW a \in Audits
      PROVE  /\ audit'[a].stage = audit[a].stage
             /\ audit'[a].findings = audit[a].findings
             /\ audit'[a].status = audit[a].status
             /\ audit'[a].failed = audit[a].failed
             /\ audit'[a].stamp = audit[a].stamp
             /\ audit[a].held \subseteq audit'[a].held
             /\ audit[a].stage \in AtWork => h \subseteq audit'[a].held
  <2>1. audit'[a] = IF a \in Running THEN f(a) ELSE audit[a]
    BY <1>3
  <2> QED
    BY <1>4, <1>7, <2>1
<1> QED
  BY <1>5, <1>6, <1>8, <1>9 DEF h

-------------------------------------------------------------------------------
(* The directory after a write. *)

(* A report says whose it is, which file and whether the gate failed. *)
LEMMA ReportTyped ==
  ASSUME NEW a \in Audits, NEW kind \in {"json", "md"}
  PROVE  /\ Report(a, kind) \in Contents /\ Torn \in Contents /\ Absent \in Contents
         /\ Report(a, kind).kind = kind /\ Report(a, kind).by = a
         /\ Report(a, kind).gate <=> "SAFETY_GATE" \in audit[a].findings
<1> DEFINE g == "SAFETY_GATE" \in audit[a].findings
<1>1. g \in BOOLEAN
  OBVIOUS
<1>2. Report(a, kind) = [kind |-> kind, by |-> a, gate |-> g]
  BY DEF Report
<1> HIDE DEF g
<1>3. a \in 0 .. MaxAudits /\ 0 \in 0 .. MaxAudits
  BY RuntimeAuditAssumption DEF Audits
<1>4. Report(a, kind) \in Contents /\ Torn \in Contents /\ Absent \in Contents
  BY <1>1, <1>2, <1>3 DEF Contents, Torn, Absent
<1>5. Report(a, kind).kind = kind /\ Report(a, kind).by = a /\ Report(a, kind).gate = g
  BY <1>2
<1> QED
  BY <1>4, <1>5 DEF g

(* Writing a JSON report changes that file only. *)
LEMMA JsonWritten ==
  ASSUME files \in Directories, NEW s \in Stamps, NEW c \in Contents,
         files' = [files EXCEPT !.json[s] = c]
  PROVE  /\ files' \in Directories
         /\ \A t \in Stamps : files'.json[t] = IF t = s THEN c ELSE files.json[t]
         /\ files'.md = files.md /\ files'.tmp = files.tmp
         /\ files'.latestJson = files.latestJson /\ files'.latestMd = files.latestMd
<1> DEFINE j == [files.json EXCEPT ![s] = c]
<1>1. files.json \in [Stamps -> Contents]
  BY DEF Directories
<1>2. j \in [Stamps -> Contents] /\ \A t \in Stamps : j[t] = IF t = s THEN c ELSE files.json[t]
  BY <1>1
<1>3. files' = [files EXCEPT !.json = j]
  OBVIOUS
<1> HIDE DEF j
<1>4. /\ files' \in Directories /\ files'.json = j
      /\ files'.md = files.md /\ files'.tmp = files.tmp
      /\ files'.latestJson = files.latestJson /\ files'.latestMd = files.latestMd
  BY <1>2, <1>3 DEF Directories
<1> QED
  BY <1>2, <1>4

(* Writing a Markdown report changes that file only. *)
LEMMA MdWritten ==
  ASSUME files \in Directories, NEW s \in Stamps, NEW c \in Contents,
         files' = [files EXCEPT !.md[s] = c]
  PROVE  /\ files' \in Directories
         /\ \A t \in Stamps : files'.md[t] = IF t = s THEN c ELSE files.md[t]
         /\ files'.json = files.json /\ files'.tmp = files.tmp
         /\ files'.latestJson = files.latestJson /\ files'.latestMd = files.latestMd
<1> DEFINE j == [files.md EXCEPT ![s] = c]
<1>1. files.md \in [Stamps -> Contents]
  BY DEF Directories
<1>2. j \in [Stamps -> Contents] /\ \A t \in Stamps : j[t] = IF t = s THEN c ELSE files.md[t]
  BY <1>1
<1>3. files' = [files EXCEPT !.md = j]
  OBVIOUS
<1> HIDE DEF j
<1>4. /\ files' \in Directories /\ files'.md = j
      /\ files'.json = files.json /\ files'.tmp = files.tmp
      /\ files'.latestJson = files.latestJson /\ files'.latestMd = files.latestMd
  BY <1>2, <1>3 DEF Directories
<1> QED
  BY <1>2, <1>4

(* Writing latest.tmp changes that file only. *)
LEMMA TmpWritten ==
  ASSUME files \in Directories, NEW c \in Contents, files' = [files EXCEPT !.tmp = c]
  PROVE  /\ files' \in Directories /\ files'.tmp = c
         /\ files'.json = files.json /\ files'.md = files.md
         /\ files'.latestJson = files.latestJson /\ files'.latestMd = files.latestMd
  BY DEF Directories

(* A rename over latest.json takes latest.tmp away. *)
LEMMA JsonSwapped ==
  ASSUME files \in Directories,
         files' = [files EXCEPT !.latestJson = files.tmp, !.tmp = Absent]
  PROVE  /\ files' \in Directories /\ files'.latestJson = files.tmp
         /\ files'.json = files.json /\ files'.md = files.md
         /\ files'.latestMd = files.latestMd
<1>1. Absent \in Contents
  BY RuntimeAuditAssumption DEF Absent, Contents
<1> QED
  BY <1>1 DEF Directories

(* And so does one over latest.md. *)
LEMMA MdSwapped ==
  ASSUME files \in Directories,
         files' = [files EXCEPT !.latestMd = files.tmp, !.tmp = Absent]
  PROVE  /\ files' \in Directories /\ files'.latestMd = files.tmp
         /\ files'.json = files.json /\ files'.md = files.md
         /\ files'.latestJson = files.latestJson
<1>1. Absent \in Contents
  BY RuntimeAuditAssumption DEF Absent, Contents
<1> QED
  BY <1>1 DEF Directories

-------------------------------------------------------------------------------
(* What an audit has found so far has its reasons: at some moment since it *)
(* began the agent was as the missing findings say.                        *)

Complete == Writing \cup {"done"}
Asked    == {"metrics"} \cup Complete
Heard    == {"readiness"} \cup Asked

Reasoned(a) ==
    /\ audit[a].stage \in AtWork => Holding(agent) \subseteq audit[a].held
    /\ audit[a].stage \in Heard /\ "PROBE_ERROR" \notin audit[a].findings
         => "up" \in audit[a].held
    /\ audit[a].stage \in Asked /\ {"PROBE_ERROR", "DEGRADATION"} \cap audit[a].findings = {}
         => "db" \in audit[a].held
    /\ audit[a].stage \in Asked /\ "SAFETY_GATE" \notin audit[a].findings
         => "dryRun" \in audit[a].held
    /\ audit[a].stage \in Complete /\ {"SAFETY_GATE", "PROBE_ERROR"} \cap audit[a].findings = {}
         => "labels" \in audit[a].held
    /\ audit[a].stage \in Writing => audit[a].status = StatusOf(audit[a].findings)
    /\ audit[a].stage = "done" => audit[a].status \in {StatusOf(audit[a].findings), "PROBE_ERROR"}

VerdictInv == Typed /\ \A a \in Audits : Reasoned(a)

(* A step of one audit disturbs what is said of that one only. *)
LEMMA OthersReasoned ==
  ASSUME VerdictInv, NEW a \in Audits, Others(a), agent' = agent, Reasoned(a)'
  PROVE  \A b \in Audits : Reasoned(b)'
<1>1. ASSUME NEW b \in Audits, b # a PROVE Reasoned(b)'
  <2>1. audit'[b] = audit[b] /\ Reasoned(b)
    BY <1>1 DEF Others, VerdictInv
  <2> QED
    BY <2>1 DEF Reasoned
<1> QED
  BY <1>1

(* What holds now of the agent, by its parts. *)
LEMMA HoldingSays ==
  ASSUME Typed
  PROVE  /\ agent.up => "up" \in Holding(agent)
         /\ agent.db => "db" \in Holding(agent)
         /\ agent.dryRun => "dryRun" \in Holding(agent)
         /\ agent.labels = "clean" => "labels" \in Holding(agent)
  BY DEF Holding, Conditions

(* A probe finds what holds, or does not, when it asks. *)
LEMMA ProbesReasoned ==
  ASSUME VerdictInv, NEW a \in Audits, Probe(a)
  PROVE  VerdictInv'
<1>1. Typed /\ Reasoned(a)
  BY DEF VerdictInv
<1>2. UNCHANGED <<agent, changes, files>>
  BY DEF Probe, Begin, ProbeHealth, ProbeReadiness, ProbeMetrics, Found, Judged
<1>3. CASE Begin(a)
  <2>1. PICK s \in {a} \cup {audit[b].stamp : b \in Running} :
          audit' = [audit EXCEPT ![a] = [NotBegun EXCEPT !.stage = "health",
                                           !.stamp = s, !.held = Holding(agent)]]
    BY <1>3 DEF Begin
  <2>2. s \in Stamps
    BY <1>1 DEF Typed, Frames, Running, Stamps
  <2>3. /\ audit' \in [Audits -> Frames] /\ Others(a)
        /\ audit'[a].stage = "health" /\ audit'[a].held = Holding(agent)
    BY <1>1, <2>1, <2>2, BeginFrame
  <2>4. Reasoned(a)'
    BY <1>2, <2>3 DEF Reasoned, Heard, Asked, Complete, Writing
  <2>5. \A b \in Audits : Reasoned(b)'
    BY <1>2, <2>3, <2>4, OthersReasoned
  <2> QED
    BY <1>1, <1>2, <2>3, <2>5 DEF VerdictInv, Typed
<1>4. CASE ProbeHealth(a)
  <2>1. PICK fs \in {{}, {"PROBE_ERROR"}} :
          Found(a, fs, "readiness") /\ (fs = {} => agent.up)
    BY <1>4 DEF ProbeHealth
  <2>2. audit[a].stage = "health" /\ fs \in SUBSET FindingTypes /\ "readiness" \in Stages
    BY <1>4 DEF ProbeHealth, FindingTypes, Stages, AtWork
  <2>3. /\ audit' \in [Audits -> Frames] /\ Others(a)
        /\ audit'[a].stage = "readiness" /\ audit'[a].held = audit[a].held
        /\ audit'[a].findings = audit[a].findings \cup fs
    BY <1>1, <2>1, <2>2, FoundFrame
  <2>4. Holding(agent) \subseteq audit'[a].held
    BY <1>1, <2>2, <2>3 DEF Reasoned, AtWork
  <2>5. "PROBE_ERROR" \notin audit'[a].findings => "up" \in audit'[a].held
    BY <1>1, <2>1, <2>3, <2>4, HoldingSays
  <2>6. Reasoned(a)'
    BY <1>2, <2>3, <2>4, <2>5 DEF Reasoned, Heard, Asked, Complete, Writing
  <2>7. \A b \in Audits : Reasoned(b)'
    BY <1>2, <2>3, <2>6, OthersReasoned
  <2> QED
    BY <1>1, <1>2, <2>3, <2>7 DEF VerdictInv, Typed
<1>5. CASE ProbeReadiness(a)
  <2>1. PICK fs \in SUBSET FindingTypes :
          /\ Found(a, fs, "metrics")
          /\ \/ agent.up /\ fs = ReadinessFindings
             \/ fs = {"PROBE_ERROR", "SAFETY_GATE"}
    BY <1>5 DEF ProbeReadiness, ReadinessFindings, FindingTypes
  <2>2. audit[a].stage = "readiness" /\ "metrics" \in Stages
    BY <1>5 DEF ProbeReadiness, Stages, AtWork
  <2>3. /\ audit' \in [Audits -> Frames] /\ Others(a)
        /\ audit'[a].stage = "metrics" /\ audit'[a].held = audit[a].held
        /\ audit'[a].findings = audit[a].findings \cup fs
    BY <1>1, <2>1, <2>2, FoundFrame
  <2>4. Holding(agent) \subseteq audit'[a].held
    BY <1>1, <2>2, <2>3 DEF Reasoned, AtWork
  <2>5. "PROBE_ERROR" \notin audit'[a].findings => "up" \in audit'[a].held
    BY <1>1, <2>2, <2>3 DEF Reasoned, Heard
  <2>6. {"PROBE_ERROR", "DEGRADATION"} \cap fs = {} => agent.db
    BY <2>1 DEF ReadinessFindings, ReadyzStatus, HttpStatus
  <2>7. "SAFETY_GATE" \notin fs => agent.dryRun
    BY <2>1 DEF ReadinessFindings
  <2>8. /\ {"PROBE_ERROR", "DEGRADATION"} \cap audit'[a].findings = {} => "db" \in audit'[a].held
        /\ "SAFETY_GATE" \notin audit'[a].findings => "dryRun" \in audit'[a].held
    BY <1>1, <2>3, <2>4, <2>6, <2>7, HoldingSays
  <2>9. Reasoned(a)'
    BY <1>2, <2>3, <2>4, <2>5, <2>8 DEF Reasoned, Heard, Asked, Complete, Writing
  <2>10. \A b \in Audits : Reasoned(b)'
    BY <1>2, <2>3, <2>9, OthersReasoned
  <2> QED
    BY <1>1, <1>2, <2>3, <2>10 DEF VerdictInv, Typed
<1>6. CASE ProbeMetrics(a)
  <2>1. PICK fs \in SUBSET FindingTypes, r \in BOOLEAN :
          /\ Judged(a, fs, r)
          /\ \/ agent.up /\ fs = MetricsFindings
             \/ fs = {"PROBE_ERROR"}
    <3>1. CASE agent.up /\ Judged(a, MetricsFindings, agent.labels = "refused")
      <4>1. MetricsFindings \in SUBSET FindingTypes /\ (agent.labels = "refused") \in BOOLEAN
        BY DEF MetricsFindings, FindingTypes
      <4> QED
        BY <3>1, <4>1
    <3>2. CASE Judged(a, {"PROBE_ERROR"}, FALSE)
      BY <3>2 DEF FindingTypes
    <3> QED
      BY <1>6, <3>1, <3>2 DEF ProbeMetrics
  <2>2. audit[a].stage = "metrics"
    BY <1>6 DEF ProbeMetrics
  <2>3. /\ audit' \in [Audits -> Frames] /\ Others(a)
        /\ audit'[a].stage = "json" /\ audit'[a].held = audit[a].held
        /\ audit'[a].findings = audit[a].findings \cup fs
        /\ audit'[a].status = StatusOf(audit'[a].findings)
    <3>1. /\ audit' \in [Audits -> Frames] /\ Others(a)
          /\ audit'[a].stage = "json" /\ audit'[a].held = audit[a].held
          /\ audit'[a].findings = audit[a].findings \cup fs
          /\ audit'[a].status = StatusOf(audit[a].findings \cup fs)
      <4>1. Typed /\ Judged(a, fs, r)
        BY <1>1, <2>1
      <4> QED
        BY <4>1, JudgedFrame, Zenon
    <3> QED
      BY <3>1, Zenon
  <2>4. Holding(agent) \subseteq audit'[a].held
    BY <1>1, <2>2, <2>3 DEF Reasoned, AtWork
  <2>5. /\ "PROBE_ERROR" \notin audit'[a].findings => "up" \in audit'[a].held
        /\ {"PROBE_ERROR", "DEGRADATION"} \cap audit'[a].findings = {} => "db" \in audit'[a].held
        /\ "SAFETY_GATE" \notin audit'[a].findings => "dryRun" \in audit'[a].held
    BY <1>1, <2>2, <2>3 DEF Reasoned, Heard, Asked
  <2>6. {"SAFETY_GATE", "PROBE_ERROR"} \cap audit'[a].findings = {} => "labels" \in audit'[a].held
    <3>1. {"SAFETY_GATE", "PROBE_ERROR"} \cap fs = {} => agent.labels = "clean"
      BY <2>1 DEF MetricsFindings
    <3> QED
      BY <1>1, <2>3, <2>4, <3>1, HoldingSays
  <2>7. Reasoned(a)'
    BY <1>2, <2>3, <2>4, <2>5, <2>6 DEF Reasoned
  <2>8. \A b \in Audits : Reasoned(b)'
    BY <1>2, <2>3, <2>7, OthersReasoned
  <2> QED
    BY <1>1, <1>2, <2>3, <2>8 DEF VerdictInv, Typed
<1> QED
  BY <1>3, <1>4, <1>5, <1>6 DEF Probe

(* A write changes neither what was found nor what is held against it. *)
LEMMA GoOnReasoned ==
  ASSUME VerdictInv, NEW a \in Audits, audit[a].stage \in Writing,
         NEW stage \in Writing, NEW failed \in BOOLEAN, GoOn(a, stage, failed),
         agent' = agent, changes' = changes, files' \in Directories
  PROVE  VerdictInv'
<1>1. Typed /\ Reasoned(a)
  BY DEF VerdictInv
<1>2. stage \in Stages
  BY DEF Stages, AtWork
<1>3. /\ audit' \in [Audits -> Frames] /\ Others(a)
      /\ audit'[a].stage = stage /\ audit'[a].held = audit[a].held
      /\ audit'[a].findings = audit[a].findings /\ audit'[a].status = audit[a].status
  BY <1>1, <1>2, GoOnFrame
<1>4. Reasoned(a)'
  <2>1. /\ stage \in AtWork /\ stage \in Complete /\ stage \in Asked /\ stage \in Heard
        /\ stage # "done"
    BY DEF AtWork, Writing, Complete, Asked, Heard
  <2>2. audit[a].stage \in AtWork \cap Complete \cap Asked \cap Heard
    BY DEF AtWork, Writing, Complete, Asked, Heard
  <2> QED
    BY <1>1, <1>3, <2>1, <2>2 DEF Reasoned
<1>5. \A b \in Audits : Reasoned(b)'
  BY <1>3, <1>4, OthersReasoned
<1> QED
  BY <1>1, <1>3, <1>5 DEF VerdictInv, Typed

(* The end of an audit keeps its verdict or reports a probe error. *)
LEMMA FinishReasoned ==
  ASSUME VerdictInv, NEW a \in Audits, audit[a].stage \in Writing,
         NEW failed \in BOOLEAN, Finish(a, failed),
         agent' = agent, changes' = changes, files' \in Directories
  PROVE  VerdictInv'
<1>1. Typed /\ Reasoned(a)
  BY DEF VerdictInv
<1>2. /\ audit' \in [Audits -> Frames] /\ Others(a)
      /\ audit'[a].stage = "done" /\ audit'[a].held = audit[a].held
      /\ audit'[a].findings = audit[a].findings
      /\ audit'[a].status = IF failed THEN "PROBE_ERROR" ELSE audit[a].status
  BY <1>1, FinishFrame
<1>3. Reasoned(a)'
  <2>1. audit[a].stage \in Complete \cap Asked \cap Heard
    BY DEF Complete, Asked, Heard
  <2>2. "done" \notin AtWork \cup Writing
    BY DEF AtWork, Writing
  <2> QED
    BY <1>1, <1>2, <2>1, <2>2 DEF Reasoned
<1>4. \A b \in Audits : Reasoned(b)'
  BY <1>2, <1>3, OthersReasoned
<1> QED
  BY <1>1, <1>2, <1>4 DEF VerdictInv, Typed

(* Writing latest.tmp leaves the findings alone. *)
LEMMA WriteTmpReasoned ==
  ASSUME VerdictInv, NEW a \in Audits, NEW kind \in {"json", "md"},
         NEW stage \in Writing, NEW next \in Writing, NEW skip \in Complete,
         WriteTmp(a, kind, stage, next, skip)
  PROVE  VerdictInv'
<1>1. files \in Directories /\ audit[a].stage \in Writing
  BY DEF VerdictInv, Typed, WriteTmp
<1>2. UNCHANGED <<agent, changes>>
  BY DEF WriteTmp
<1>3. files' \in Directories
  BY <1>1, ReportTyped, TmpWritten DEF WriteTmp
<1>4. \/ GoOn(a, next, FALSE)
      \/ IF skip = "done" THEN Finish(a, TRUE) ELSE GoOn(a, skip, TRUE)
  BY DEF WriteTmp
<1>5. skip # "done" => skip \in Writing
  BY DEF Complete
<1> QED
  BY <1>1, <1>2, <1>3, <1>4, <1>5, GoOnReasoned, FinishReasoned

(* So do all six writes. *)
LEMMA ArchiveReasoned ==
  ASSUME VerdictInv, NEW a \in Audits, Archive(a)
  PROVE  VerdictInv'
<1>1. files \in Directories /\ audit[a].stamp \in Stamps /\ audit[a].failed \in BOOLEAN
  BY DEF VerdictInv, Typed, Frames
<1>2. CASE WriteJson(a)
  <2>1. audit[a].stage \in Writing /\ UNCHANGED <<agent, changes>> /\ "md" \in Writing
    BY <1>2 DEF WriteJson, Writing
  <2>2. files' \in Directories
    <3>1. \E c \in Contents : \/ files' = [files EXCEPT !.json[audit[a].stamp] = c]
                              \/ files' = files
      BY <1>2, ReportTyped DEF WriteJson, VerdictInv
    <3> QED
      BY <1>1, <3>1, JsonWritten
  <2>3. GoOn(a, "md", FALSE) \/ Finish(a, TRUE)
    BY <1>2 DEF WriteJson
  <2> QED
    BY <2>1, <2>2, <2>3, GoOnReasoned, FinishReasoned
<1>3. CASE WriteMd(a)
  <2>1. audit[a].stage \in Writing /\ UNCHANGED <<agent, changes>> /\ "tmp_json" \in Writing
    BY <1>3 DEF WriteMd, Writing
  <2>2. files' \in Directories
    <3>1. \E c \in Contents : \/ files' = [files EXCEPT !.md[audit[a].stamp] = c]
                              \/ files' = files
      BY <1>3, ReportTyped DEF WriteMd, VerdictInv
    <3> QED
      BY <1>1, <3>1, MdWritten
  <2>3. GoOn(a, "tmp_json", FALSE) \/ Finish(a, TRUE)
    BY <1>3 DEF WriteMd
  <2> QED
    BY <2>1, <2>2, <2>3, GoOnReasoned, FinishReasoned
<1>4. CASE WriteTmpJson(a)
  BY <1>4, WriteTmpReasoned DEF WriteTmpJson, Writing, Complete
<1>5. CASE WriteTmpMd(a)
  BY <1>5, WriteTmpReasoned DEF WriteTmpMd, Writing, Complete
<1>6. CASE SwapJson(a)
  <2>1. audit[a].stage \in Writing /\ UNCHANGED <<agent, changes>> /\ "tmp_md" \in Writing
    BY <1>6 DEF SwapJson, Writing
  <2>2. files' \in Directories
    BY <1>1, <1>6, JsonSwapped DEF SwapJson
  <2>3. GoOn(a, "tmp_md", FALSE) \/ GoOn(a, "tmp_md", TRUE)
    BY <1>6 DEF SwapJson
  <2> QED
    BY <2>1, <2>2, <2>3, GoOnReasoned
<1>7. CASE SwapMd(a)
  <2>1. audit[a].stage \in Writing /\ UNCHANGED <<agent, changes>>
    BY <1>7 DEF SwapMd, Writing
  <2>2. files' \in Directories
    BY <1>1, <1>7, MdSwapped DEF SwapMd
  <2>3. Finish(a, audit[a].failed) \/ Finish(a, TRUE)
    BY <1>7 DEF SwapMd
  <2> QED
    BY <1>1, <2>1, <2>2, <2>3, FinishReasoned
<1> QED
  BY <1>2, <1>3, <1>4, <1>5, <1>6, <1>7 DEF Archive

(* A killed audit says nothing. *)
LEMMA KilledReasoned ==
  ASSUME VerdictInv, NEW a \in Audits, Killed(a)
  PROVE  VerdictInv'
<1>1. Typed /\ files \in Directories /\ audit[a].stamp \in Stamps
  BY DEF VerdictInv, Typed, Frames
<1>2. /\ audit' = [audit EXCEPT ![a].stage = "killed", ![a].status = "none"]
      /\ UNCHANGED <<agent, changes>>
  BY DEF Killed
<1>3. audit' \in [Audits -> Frames] /\ Others(a) /\ audit'[a].stage = "killed"
  BY <1>1, <1>2, KilledFrame
<1>4. files' \in Directories
  BY <1>1, ReportTyped, JsonWritten, MdWritten, TmpWritten DEF Killed
<1>5. Reasoned(a)'
  <2>1. "killed" \notin AtWork \cup Writing \cup Heard \cup Asked \cup Complete \cup {"done"}
    BY DEF AtWork, Writing, Heard, Asked, Complete
  <2> QED
    BY <1>3, <2>1 DEF Reasoned
<1>6. \A b \in Audits : Reasoned(b)'
  BY <1>2, <1>3, <1>5, OthersReasoned
<1> QED
  BY <1>1, <1>2, <1>3, <1>4, <1>6 DEF VerdictInv, Typed

(* A change of the agent adds to what held meanwhile. *)
LEMMA ChangesReasoned ==
  ASSUME VerdictInv, AgentChanges
  PROVE  VerdictInv'
<1>1. Typed'
  BY ChangesFrame DEF VerdictInv, Typed
<1>2. ASSUME NEW a \in Audits PROVE Reasoned(a)'
  <2>1. Reasoned(a)
    BY DEF VerdictInv
  <2>2. /\ audit'[a].stage = audit[a].stage /\ audit'[a].findings = audit[a].findings
        /\ audit'[a].status = audit[a].status /\ audit[a].held \subseteq audit'[a].held
        /\ audit[a].stage \in AtWork => Holding(agent') \subseteq audit'[a].held
    BY ChangesFrame DEF VerdictInv
  <2> QED
    BY <2>1, <2>2 DEF Reasoned
<1> QED
  BY <1>1, <1>2 DEF VerdictInv

(* What a verdict tells of the findings it comes from. *)
LEMMA StatusReads ==
  ASSUME NEW fs \in SUBSET FindingTypes
  PROVE  /\ StatusOf(fs) = "HEALTHY" => fs = {}
         /\ StatusOf(fs) = "DEGRADED" => fs = {"DEGRADATION"}
         /\ StatusOf(fs) = "SAFETY_GATE_FAILED" => "SAFETY_GATE" \in fs
         /\ StatusOf(fs) \in Statuses
  BY DEF StatusOf, FindingTypes, Statuses

(* Before the first audit there is nothing to give a reason for. *)
LEMMA InitialVerdict ==
  ASSUME Init
  PROVE  VerdictInv
<1>1. agent \in Agents /\ changes \in 0 .. MaxChanges
  BY RuntimeAuditAssumption DEF Init, Agents
<1>2. audit \in [Audits -> Frames]
  <2>1. ASSUME NEW a \in Audits PROVE NotBegun \in Frames
    <3>1. 1 \in Stamps
      BY RuntimeAuditAssumption DEF Audits, Stamps
    <3> QED
      BY <3>1 DEF NotBegun, Frames, Stages
  <2> QED
    BY <2>1 DEF Init
<1>3. files \in Directories
  <2>1. Absent \in Contents
    BY RuntimeAuditAssumption DEF Absent, Contents
  <2> QED
    BY <2>1 DEF Init, Directories
<1>4. ASSUME NEW a \in Audits PROVE Reasoned(a)
  <2>1. audit[a].stage = "idle"
    BY DEF Init, NotBegun
  <2> QED
    BY <2>1 DEF Reasoned, AtWork, Writing, Heard, Asked, Complete
<1> QED
  BY <1>1, <1>2, <1>3, <1>4 DEF VerdictInv, Typed

(* Every step keeps the reasons. *)
LEMMA VerdictStep ==
  ASSUME VerdictInv, [Next]_vars
  PROVE  VerdictInv'
<1>1. CASE UNCHANGED vars
  <2>1. Typed'
    BY <1>1 DEF VerdictInv, Typed, vars
  <2>2. \A a \in Audits : Reasoned(a)'
    BY <1>1 DEF VerdictInv, Reasoned, vars
  <2> QED
    BY <2>1, <2>2 DEF VerdictInv
<1> QED
  BY <1>1, ChangesReasoned, ProbesReasoned, ArchiveReasoned, KilledReasoned DEF Next

(* What an audit has found, or not found, is matched by what held at some   *)
(* moment since its first probe, at every await of run_audit().             *)
THEOREM VerdictInvariance == Spec => []VerdictInv
  BY InitialVerdict, VerdictStep, PTL DEF Spec

(* The state stays well typed, however the audits overlap. *)
THEOREM TypeCorrect == Spec => []TypeOK
<1>1. VerdictInv => TypeOK
  BY DEF VerdictInv, Typed, TypeOK, Frames, Stages, Directories
<1> QED
  BY <1>1, VerdictInvariance, PTL

(* An audit that exits with HEALTHY, or with DEGRADED, has had its reasons *)
(* while it ran, however many audits overlap and however the agent changes *)
(* between their probes.                                                   *)
THEOREM VerdictsTrue == Spec => []VerdictTrue
<1>1. VerdictInv => VerdictTrue
  <2> SUFFICES ASSUME VerdictInv, NEW a \in Audits, audit[a].stage = "done"
               PROVE  /\ audit[a].status = "HEALTHY" => audit[a].held = Conditions
                      /\ audit[a].status = "DEGRADED"
                           => {"up", "dryRun", "labels"} \subseteq audit[a].held
    BY DEF VerdictTrue
  <2>1. /\ audit[a].findings \in SUBSET FindingTypes
        /\ audit[a].held \in SUBSET Conditions
    BY DEF VerdictInv, Typed, Frames
  <2>2. audit[a].status # "PROBE_ERROR" => audit[a].status = StatusOf(audit[a].findings)
    BY DEF VerdictInv, Reasoned
  <2>3. audit[a].stage \in Heard \cap Asked \cap Complete
    BY DEF Heard, Asked, Complete
  <2>4. Reasoned(a)
    BY DEF VerdictInv
  <2>5. audit[a].status = "HEALTHY" => {"up", "db", "dryRun", "labels"} \subseteq audit[a].held
    <3>1. audit[a].status = "HEALTHY" => audit[a].findings = {}
      BY <2>1, <2>2, StatusReads
    <3> QED
      BY <2>3, <2>4, <3>1 DEF Reasoned
  <2>6. audit[a].status = "DEGRADED" => {"up", "dryRun", "labels"} \subseteq audit[a].held
    <3>1. audit[a].status = "DEGRADED" => audit[a].findings = {"DEGRADATION"}
      BY <2>1, <2>2, StatusReads
    <3> QED
      BY <2>3, <2>4, <3>1 DEF Reasoned
  <2> QED
    BY <2>1, <2>5, <2>6 DEF Conditions
<1> QED
  BY <1>1, VerdictInvariance, PTL

-------------------------------------------------------------------------------
(* The report files of audits that follow one another.                     *)

Renaming == {"tmp_json", "swap_json", "tmp_md", "swap_md"}
Over     == {"done", "killed"}

Good(a) == audit[a].stage = "done" /\ audit[a].status # "PROBE_ERROR"

(* An audit begins when those before it are over. *)
InSequence ==
    \A a, b \in Audits : a < b /\ audit[b].stage # "idle" => audit[a].stage \in Over

(* How far an audit has come with its files.  The temporary file is its    *)
(* own from the write to the rename; the latest report is its own once it  *)
(* has renamed one, and its copy under the stamp is whole by then.         *)
WellWritten(a) ==
    /\ audit[a].stage # "idle" => audit[a].stamp = a
    /\ audit[a].stage \in {"md"} \cup Renaming \/ Good(a) => files.json[a] = Report(a, "json")
    /\ audit[a].stage \in Renaming \/ Good(a) => files.md[a] = Report(a, "md")
    /\ audit[a].stage = "swap_json" => files.tmp = Report(a, "json")
    /\ audit[a].stage = "swap_md" => files.tmp = Report(a, "md")
    /\ files.latestJson.by = a =>
         /\ audit[a].stage \in {"tmp_md", "swap_md"} \cup Over
         /\ files.json[a] = files.latestJson
         /\ files.md[a].kind = "md" /\ files.md[a].by = a
    /\ audit[a].stage \in {"tmp_md", "swap_md"} /\ ~audit[a].failed => files.latestJson.by = a
    /\ Good(a) /\ (\A b \in Audits : b > a => audit[b].stage = "idle")
         => files.latestJson.by = a /\ files.latestMd.by = a

LatestKinds ==
    /\ files.latestJson.kind \in {"absent", "json"}
    /\ files.latestMd.kind \in {"absent", "md"}

FilesInv == InSequence /\ (\A a \in Audits : WellWritten(a)) /\ LatestKinds

(* A step of the running audit, which may write under its own stamp and    *)
(* put its own report in the place of the latest.                          *)
OwnFiles(a) ==
    /\ \A s \in Stamps \ {a} : files'.json[s] = files.json[s] /\ files'.md[s] = files.md[s]
    /\ files'.latestJson = files.latestJson \/ files'.latestJson.by = a

(* With one audit at once the others are over or have not begun. *)
LEMMA RunningAlone ==
  ASSUME InSequence, NEW a \in Audits, audit[a].stage \in AtWork
  PROVE  \A b \in Audits \ {a} : /\ b < a => audit[b].stage \in Over
                                 /\ b > a => audit[b].stage = "idle"
                                 /\ b < a \/ b > a
<1>1. audit[a].stage \notin Over \cup {"idle"}
  BY DEF AtWork, Writing, Over
<1> QED
  BY <1>1 DEF InSequence, Audits

(* A step of the one at work keeps the audits in sequence. *)
LEMMA StepInSequence ==
  ASSUME InSequence, NEW a \in Audits, audit[a].stage \in AtWork, Others(a)
  PROVE  InSequence'
<1> SUFFICES ASSUME NEW c \in Audits, NEW d \in Audits, c < d, audit'[d].stage # "idle"
             PROVE  audit'[c].stage \in Over
  BY DEF InSequence
<1>1. audit[a].stage \notin Over \cup {"idle"}
  BY DEF AtWork, Writing, Over
<1>2. audit[d].stage # "idle"
  BY <1>1 DEF Others
<1>3. audit[c].stage \in Over
  BY <1>2 DEF InSequence
<1> QED
  BY <1>1, <1>3 DEF Others

(* It touches no report of the others. *)
LEMMA OthersWritten ==
  ASSUME FilesInv, NEW a \in Audits, audit[a].stage \in AtWork,
         Others(a), OwnFiles(a), audit'[a].stage # "idle"
  PROVE  \A b \in Audits \ {a} : WellWritten(b)'
<1> SUFFICES ASSUME NEW b \in Audits \ {a} PROVE WellWritten(b)'
  OBVIOUS
<1>1. audit'[b] = audit[b] /\ WellWritten(b)
  BY DEF Others, FilesInv
<1>2. /\ b < a => audit[b].stage \in Over
      /\ b > a => audit[b].stage = "idle"
      /\ b < a \/ b > a
  BY RunningAlone DEF FilesInv
<1>3. audit[b].stage \notin {"md", "tmp_md", "swap_md"} \cup Renaming
  BY <1>2 DEF Over, Renaming
<1>4. Report(b, "json")' = Report(b, "json") /\ Report(b, "md")' = Report(b, "md")
  BY <1>1 DEF Report
<1>5. files'.json[b] = files.json[b] /\ files'.md[b] = files.md[b]
  BY DEF OwnFiles, Audits, Stamps
<1>6. files'.latestJson.by = b => files'.latestJson = files.latestJson
  BY DEF OwnFiles
<1>7. ~(Good(b)' /\ (\A c \in Audits : c > b => audit'[c].stage = "idle"))
  <2>1. CASE b < a
    BY <2>1 DEF Audits
  <2>2. CASE b > a
    BY <1>1, <1>2, <2>2 DEF Good
  <2> QED
    BY <1>2, <2>1, <2>2
<1>8. Good(b)' <=> Good(b)
  BY <1>1 DEF Good
<1> QED
  BY <1>1, <1>3, <1>4, <1>5, <1>6, <1>7, <1>8 DEF WellWritten, Renaming

(* Probes write nothing. *)
LEMMA ProbesWritten ==
  ASSUME VerdictInv, FilesInv, NEW a \in Audits,
         ProbeHealth(a) \/ ProbeReadiness(a) \/ ProbeMetrics(a)
  PROVE  FilesInv'
<1>1. Typed
  BY DEF VerdictInv
<1>2. audit[a].stage \in {"health", "readiness", "metrics"} /\ files' = files
  BY DEF ProbeHealth, ProbeReadiness, ProbeMetrics, Found, Judged
<1>3. /\ Others(a) /\ audit'[a].stage \in {"readiness", "metrics", "json"}
      /\ audit'[a].stamp = audit[a].stamp
  <2>1. CASE ProbeHealth(a)
    BY <1>1, <2>1, FoundFrame DEF ProbeHealth, FindingTypes, Stages, AtWork
  <2>2. CASE ProbeReadiness(a)
    <3>1. PICK fs \in SUBSET FindingTypes : Found(a, fs, "metrics")
      BY <2>2 DEF ProbeReadiness, ReadinessFindings, FindingTypes
    <3> QED
      BY <1>1, <3>1, FoundFrame DEF Stages, AtWork
  <2>3. CASE ProbeMetrics(a)
    <3>1. MetricsFindings \in SUBSET FindingTypes /\ {"PROBE_ERROR"} \in SUBSET FindingTypes
      BY DEF MetricsFindings, FindingTypes
    <3>2. PICK fs \in SUBSET FindingTypes, r \in BOOLEAN : Judged(a, fs, r)
      BY <2>3, <3>1 DEF ProbeMetrics
    <3> QED
      BY <1>1, <3>2, JudgedFrame
  <2> QED
    BY <2>1, <2>2, <2>3
<1>4. audit[a].stage \in AtWork
  BY <1>2 DEF AtWork
<1>5. InSequence' /\ LatestKinds'
  BY <1>2, <1>3, <1>4, StepInSequence DEF FilesInv, LatestKinds
<1>6. \A b \in Audits \ {a} : WellWritten(b)'
  BY <1>2, <1>3, <1>4, OthersWritten DEF OwnFiles
<1>7. WellWritten(a)'
  <2>1. WellWritten(a)
    BY DEF FilesInv
  <2>2. files.latestJson.by # a /\ audit[a].stamp = a
    BY <1>2, <2>1 DEF WellWritten, Over
  <2>3. /\ audit'[a].stage \notin {"md", "swap_json", "swap_md", "tmp_md", "idle"} \cup Renaming
        /\ ~Good(a)'
    BY <1>3 DEF Renaming, Good
  <2> QED
    BY <1>2, <1>3, <2>2, <2>3 DEF WellWritten
<1> QED
  BY <1>5, <1>6, <1>7 DEF FilesInv

(* An audit begins with a stamp of its own. *)
LEMMA BeginWritten ==
  ASSUME AtOnce = 1, VerdictInv, FilesInv, NEW a \in Audits, Begin(a)
  PROVE  FilesInv'
<1>1. Typed /\ files' = files /\ audit[a].stage = "idle"
  BY DEF VerdictInv, Begin
<1>2. Running = {}
  <2>1. IsFiniteSet(Running)
    <3>1. IsFiniteSet(Audits)
      BY FS_Interval, RuntimeAuditAssumption DEF Audits
    <3> QED
      BY <3>1, FS_Subset DEF Running
  <2>2. Cardinality(Running) \in Nat /\ Cardinality(Running) < 1
    BY <2>1, FS_CardinalityType DEF Begin
  <2> QED
    BY <2>1, <2>2, FS_EmptySet
<1>3. audit' = [audit EXCEPT ![a] = [NotBegun EXCEPT !.stage = "health",
                                       !.stamp = a, !.held = Holding(agent)]]
  BY <1>2 DEF Begin
<1>4. Others(a) /\ audit'[a].stage = "health" /\ audit'[a].stamp = a
  BY <1>1, <1>3, BeginFrame DEF Audits, Stamps
<1>5. ASSUME NEW b \in Audits, b < a PROVE audit[b].stage \in Over
  <2>1. b \in 1 .. a - 1
    BY <1>5 DEF Audits
  <2>2. audit[b].stage # "idle" /\ audit[b].stage \notin AtWork
    BY <1>2, <2>1 DEF Begin, Running
  <2>3. audit[b].stage \in Stages
    BY <1>1 DEF Typed, Frames
  <2> QED
    BY <2>2, <2>3 DEF Stages, Over
<1>6. ASSUME NEW b \in Audits, b > a PROVE audit[b].stage = "idle"
  BY <1>1, <1>6 DEF FilesInv, InSequence, Over, Audits
<1>7. InSequence'
  <2> SUFFICES ASSUME NEW c \in Audits, NEW d \in Audits, c < d, audit'[d].stage # "idle"
               PROVE  audit'[c].stage \in Over
    BY DEF InSequence
  <2>1. CASE d = a
    BY <1>4, <1>5, <2>1 DEF Others, Audits
  <2>2. CASE d # a
    <3>1. audit[d].stage # "idle"
      BY <1>4, <2>2 DEF Others
    <3>2. audit[c].stage \in Over
      BY <3>1 DEF FilesInv, InSequence
    <3>3. c # a
      BY <1>1, <3>2 DEF Over
    <3> QED
      BY <1>4, <3>2, <3>3 DEF Others
  <2> QED
    BY <2>1, <2>2
<1>8. ASSUME NEW b \in Audits \ {a} PROVE WellWritten(b)'
  <2>1. audit'[b] = audit[b] /\ WellWritten(b)
    BY <1>4 DEF Others, FilesInv
  <2>2. Report(b, "json")' = Report(b, "json") /\ Report(b, "md")' = Report(b, "md")
    BY <2>1 DEF Report
  <2>3. Good(b)' <=> Good(b)
    BY <2>1 DEF Good
  <2>4. ~(Good(b) /\ (\A c \in Audits : c > b => audit'[c].stage = "idle"))
    <3>1. CASE b < a
      BY <1>4, <3>1 DEF Audits
    <3>2. CASE b > a
      BY <1>6, <3>2 DEF Good
    <3> QED
      BY <3>1, <3>2 DEF Audits
  <2> QED
    BY <1>1, <2>1, <2>2, <2>3, <2>4 DEF WellWritten
<1>9. WellWritten(a)'
  <2>1. files.latestJson.by # a
    BY <1>1 DEF FilesInv, WellWritten, Over
  <2>2. "health" \notin {"md", "swap_json", "swap_md", "tmp_md", "idle"} \cup Renaming /\ ~Good(a)'
    BY <1>4 DEF Renaming, Good
  <2> QED
    BY <1>1, <1>4, <2>1, <2>2 DEF WellWritten
<1> QED
  BY <1>1, <1>7, <1>8, <1>9 DEF FilesInv, LatestKinds

(* A write of the one at work need be looked at for its own reports only. *)
LEMMA OwnStep ==
  ASSUME FilesInv, NEW a \in Audits, audit[a].stage \in AtWork, Others(a), OwnFiles(a),
         audit'[a].stage # "idle", WellWritten(a)', LatestKinds'
  PROVE  FilesInv'
<1>1. InSequence'
  BY StepInSequence DEF FilesInv
<1>2. \A b \in Audits \ {a} : WellWritten(b)'
  BY OthersWritten
<1> QED
  BY <1>1, <1>2 DEF FilesInv

(* What a write that succeeds, and one that fails, leave of the frame. *)
LEMMA WentOn ==
  ASSUME VerdictInv, FilesInv, NEW a \in Audits, audit[a].stage \in Writing,
         NEW stage \in Writing, NEW failed \in BOOLEAN, GoOn(a, stage, failed)
  PROVE  /\ Others(a) /\ audit'[a].stage = stage /\ audit'[a].stamp = a
         /\ ~Good(a)'
         /\ audit'[a].failed <=> audit[a].failed \/ failed
         /\ Report(a, "json")' = Report(a, "json") /\ Report(a, "md")' = Report(a, "md")
         /\ audit[a].stage \in AtWork /\ audit'[a].stage # "idle"
<1>1. Typed /\ stage \in Stages
  BY DEF VerdictInv, Stages, AtWork
<1>2. /\ Others(a) /\ audit'[a].stage = stage /\ audit'[a].stamp = audit[a].stamp
      /\ audit'[a].findings = audit[a].findings
      /\ audit'[a].failed <=> audit[a].failed \/ failed
  BY <1>1, GoOnFrame
<1>3. Report(a, "json")' = Report(a, "json") /\ Report(a, "md")' = Report(a, "md")
  BY <1>2 DEF Report
<1>4. audit[a].stamp = a
  BY DEF FilesInv, WellWritten, Writing
<1>5. stage # "done" /\ stage # "idle" /\ audit[a].stage \in AtWork
  BY DEF Writing, AtWork
<1> QED
  BY <1>2, <1>3, <1>4, <1>5 DEF Good

(* What the end of an audit leaves of its frame and its reports. *)
LEMMA Finished ==
  ASSUME VerdictInv, FilesInv, NEW a \in Audits, audit[a].stage \in Writing,
         NEW failed \in BOOLEAN, Finish(a, failed)
  PROVE  /\ Others(a) /\ audit'[a].stage = "done" /\ audit'[a].stamp = a
         /\ failed => ~Good(a)'
         /\ Report(a, "json")' = Report(a, "json") /\ Report(a, "md")' = Report(a, "md")
         /\ audit[a].stage \in AtWork
<1>1. Typed
  BY DEF VerdictInv
<1>2. /\ Others(a) /\ audit'[a].stage = "done" /\ audit'[a].stamp = audit[a].stamp
      /\ audit'[a].findings = audit[a].findings
      /\ failed => audit'[a].status = "PROBE_ERROR"
  BY <1>1, FinishFrame
<1>3. Report(a, "json")' = Report(a, "json") /\ Report(a, "md")' = Report(a, "md")
  BY <1>2 DEF Report
<1>4. audit[a].stamp = a /\ audit[a].stage \in AtWork
  BY DEF FilesInv, WellWritten, Writing, AtWork
<1> QED
  BY <1>2, <1>3, <1>4 DEF Good

(* An audit that has not come to its report has not renamed one either.    *)
LEMMA NotLatestYet ==
  ASSUME FilesInv, NEW a \in Audits, audit[a].stage \in {"json", "md", "tmp_json", "swap_json"}
  PROVE  files.latestJson.by # a
  BY DEF FilesInv, WellWritten, Over

(* An audit that ends with an error, or is killed, promises nothing but    *)
(* that the latest report stands for one that is there.                    *)
LEMMA PromisesNothing ==
  ASSUME NEW a \in Audits, audit'[a].stamp = a, audit'[a].stage \in Over, ~Good(a)',
         files'.latestJson.by = a =>
           /\ files'.json[a] = files'.latestJson
           /\ files'.md[a].kind = "md" /\ files'.md[a].by = a
  PROVE  WellWritten(a)'
<1>1. audit'[a].stage \notin {"idle", "md", "swap_json", "swap_md", "tmp_md"} \cup Renaming
  BY DEF Over, Renaming
<1> QED
  BY <1>1 DEF WellWritten

(* The JSON report is there, or its write failed. *)
LEMMA WriteJsonWritten ==
  ASSUME VerdictInv, FilesInv, NEW a \in Audits, WriteJson(a)
  PROVE  FilesInv'
<1>1. /\ audit[a].stage = "json" /\ audit[a].stage \in Writing /\ "md" \in Writing
      /\ files \in Directories /\ files.latestJson.by # a /\ LatestKinds
  BY NotLatestYet DEF WriteJson, Writing, VerdictInv, Typed, FilesInv
<1>2. audit[a].stamp = a /\ a \in Stamps
  BY <1>1 DEF FilesInv, WellWritten, Audits, Stamps
<1>3. files' = files \/ \E c \in Contents : files' = [files EXCEPT !.json[a] = c]
  BY <1>2, ReportTyped DEF WriteJson
<1>4. OwnFiles(a) /\ files'.latestJson.by # a /\ LatestKinds'
  BY <1>1, <1>2, <1>3, JsonWritten DEF OwnFiles, LatestKinds
<1>5. CASE /\ files' = [files EXCEPT !.json[audit[a].stamp] = Report(a, "json")]
           /\ GoOn(a, "md", FALSE)
  <2>1. /\ Others(a) /\ audit'[a].stage = "md" /\ audit'[a].stamp = a /\ ~Good(a)'
        /\ Report(a, "json")' = Report(a, "json")
        /\ audit[a].stage \in AtWork /\ audit'[a].stage # "idle"
    BY <1>1, <1>5, WentOn
  <2>2. files'.json[a] = Report(a, "json")'
    BY <1>1, <1>2, <1>5, <2>1, JsonWritten, ReportTyped
  <2>3. WellWritten(a)'
    BY <1>4, <2>1, <2>2 DEF WellWritten, Renaming
  <2> QED
    BY <1>4, <2>1, <2>3, OwnStep
<1>6. CASE Finish(a, TRUE)
  <2>1. /\ Others(a) /\ audit'[a].stage = "done" /\ audit'[a].stamp = a /\ ~Good(a)'
        /\ audit[a].stage \in AtWork
    BY <1>1, <1>6, Finished
  <2>2. WellWritten(a)'
    BY <1>4, <2>1, PromisesNothing DEF Over
  <2> QED
    BY <1>4, <2>1, <2>2, OwnStep
<1> QED
  BY <1>5, <1>6 DEF WriteJson

(* The Markdown report is there, or its write failed. *)
LEMMA WriteMdWritten ==
  ASSUME VerdictInv, FilesInv, NEW a \in Audits, WriteMd(a)
  PROVE  FilesInv'
<1>1. /\ audit[a].stage = "md" /\ audit[a].stage \in Writing /\ "tmp_json" \in Writing
      /\ files \in Directories /\ files.latestJson.by # a /\ LatestKinds
  BY NotLatestYet DEF WriteMd, Writing, VerdictInv, Typed, FilesInv
<1>2. /\ audit[a].stamp = a /\ a \in Stamps
      /\ files.json[a] = Report(a, "json")
  BY <1>1 DEF FilesInv, WellWritten, Audits, Stamps
<1>3. files' = files \/ \E c \in Contents : files' = [files EXCEPT !.md[a] = c]
  BY <1>2, ReportTyped DEF WriteMd
<1>4. /\ OwnFiles(a) /\ files'.latestJson.by # a /\ LatestKinds'
      /\ files'.json[a] = Report(a, "json")
  BY <1>1, <1>2, <1>3, MdWritten DEF OwnFiles, LatestKinds
<1>5. CASE /\ files' = [files EXCEPT !.md[audit[a].stamp] = Report(a, "md")]
           /\ GoOn(a, "tmp_json", FALSE)
  <2>1. /\ Others(a) /\ audit'[a].stage = "tmp_json" /\ audit'[a].stamp = a /\ ~Good(a)'
        /\ Report(a, "json")' = Report(a, "json") /\ Report(a, "md")' = Report(a, "md")
        /\ audit[a].stage \in AtWork /\ audit'[a].stage # "idle"
    BY <1>1, <1>5, WentOn
  <2>2. files'.md[a] = Report(a, "md")'
    BY <1>1, <1>2, <1>5, <2>1, MdWritten, ReportTyped
  <2>3. WellWritten(a)'
    BY <1>4, <2>1, <2>2 DEF WellWritten, Renaming
  <2> QED
    BY <1>4, <2>1, <2>3, OwnStep
<1>6. CASE Finish(a, TRUE)
  <2>1. /\ Others(a) /\ audit'[a].stage = "done" /\ audit'[a].stamp = a /\ ~Good(a)'
        /\ audit[a].stage \in AtWork
    BY <1>1, <1>6, Finished
  <2>2. WellWritten(a)'
    BY <1>4, <2>1, PromisesNothing DEF Over
  <2> QED
    BY <1>4, <2>1, <2>2, OwnStep
<1> QED
  BY <1>5, <1>6 DEF WriteMd

(* latest.tmp is the audit's own until the rename. *)
LEMMA WriteTmpJsonWritten ==
  ASSUME VerdictInv, FilesInv, NEW a \in Audits, WriteTmpJson(a)
  PROVE  FilesInv'
<1>1. /\ audit[a].stage = "tmp_json" /\ audit[a].stage \in Writing
      /\ "swap_json" \in Writing /\ "tmp_md" \in Writing
      /\ files \in Directories /\ files.latestJson.by # a /\ LatestKinds
  BY NotLatestYet DEF WriteTmpJson, WriteTmp, Writing, VerdictInv, Typed, FilesInv
<1>2. files.json[a] = Report(a, "json") /\ files.md[a] = Report(a, "md")
  BY <1>1 DEF FilesInv, WellWritten, Renaming
<1>3. files' = files \/ \E c \in Contents : files' = [files EXCEPT !.tmp = c]
  BY ReportTyped DEF WriteTmpJson, WriteTmp
<1>4. /\ OwnFiles(a) /\ files'.latestJson.by # a /\ LatestKinds'
      /\ files'.json = files.json /\ files'.md = files.md
  BY <1>1, <1>3, TmpWritten DEF OwnFiles, LatestKinds
<1>5. CASE files' = [files EXCEPT !.tmp = Report(a, "json")] /\ GoOn(a, "swap_json", FALSE)
  <2>1. /\ Others(a) /\ audit'[a].stage = "swap_json" /\ audit'[a].stamp = a /\ ~Good(a)'
        /\ Report(a, "json")' = Report(a, "json") /\ Report(a, "md")' = Report(a, "md")
        /\ audit[a].stage \in AtWork /\ audit'[a].stage # "idle"
    BY <1>1, <1>5, WentOn
  <2>2. files'.tmp = Report(a, "json")'
    BY <1>1, <1>5, <2>1, TmpWritten, ReportTyped
  <2>3. WellWritten(a)'
    BY <1>2, <1>4, <2>1, <2>2 DEF WellWritten, Renaming
  <2> QED
    BY <1>4, <2>1, <2>3, OwnStep
<1>6. CASE GoOn(a, "tmp_md", TRUE)
  <2>1. /\ Others(a) /\ audit'[a].stage = "tmp_md" /\ audit'[a].stamp = a /\ ~Good(a)'
        /\ audit'[a].failed
        /\ Report(a, "json")' = Report(a, "json") /\ Report(a, "md")' = Report(a, "md")
        /\ audit[a].stage \in AtWork /\ audit'[a].stage # "idle"
    BY <1>1, <1>6, WentOn
  <2>2. WellWritten(a)'
    BY <1>2, <1>4, <2>1 DEF WellWritten, Renaming
  <2> QED
    BY <1>4, <2>1, <2>2, OwnStep
<1> QED
  BY <1>5, <1>6 DEF WriteTmpJson, WriteTmp

(* The rename makes it latest.json. *)
LEMMA SwapJsonWritten ==
  ASSUME VerdictInv, FilesInv, NEW a \in Audits, SwapJson(a)
  PROVE  FilesInv'
<1>1. /\ audit[a].stage = "swap_json" /\ audit[a].stage \in Writing /\ "tmp_md" \in Writing
      /\ files \in Directories /\ files.latestJson.by # a /\ LatestKinds
  BY NotLatestYet DEF SwapJson, Writing, VerdictInv, Typed, FilesInv
<1>2. /\ files.json[a] = Report(a, "json") /\ files.md[a] = Report(a, "md")
      /\ files.tmp = Report(a, "json")
  BY <1>1 DEF FilesInv, WellWritten, Renaming
<1>3. CASE /\ files' = [files EXCEPT !.latestJson = files.tmp, !.tmp = Absent]
           /\ GoOn(a, "tmp_md", FALSE)
  <2>1. /\ Others(a) /\ audit'[a].stage = "tmp_md" /\ audit'[a].stamp = a /\ ~Good(a)'
        /\ Report(a, "json")' = Report(a, "json") /\ Report(a, "md")' = Report(a, "md")
        /\ audit[a].stage \in AtWork /\ audit'[a].stage # "idle"
    BY <1>1, <1>3, WentOn
  <2>2. /\ files'.latestJson = Report(a, "json")
        /\ files'.json = files.json /\ files'.md = files.md /\ files'.latestMd = files.latestMd
    BY <1>1, <1>2, <1>3, JsonSwapped
  <2>3. files'.latestJson.by = a /\ files'.latestJson.kind = "json"
    BY <2>2, ReportTyped
  <2>4. files'.md[a].kind = "md" /\ files'.md[a].by = a
    BY <1>2, <2>2, ReportTyped
  <2>5. WellWritten(a)'
    BY <1>2, <2>1, <2>2, <2>3, <2>4 DEF WellWritten, Renaming
  <2>6. OwnFiles(a) /\ LatestKinds'
    BY <1>1, <2>2, <2>3 DEF OwnFiles, LatestKinds
  <2> QED
    BY <2>1, <2>5, <2>6, OwnStep
<1>4. CASE GoOn(a, "tmp_md", TRUE) /\ UNCHANGED files
  <2>1. /\ Others(a) /\ audit'[a].stage = "tmp_md" /\ audit'[a].stamp = a /\ ~Good(a)'
        /\ audit'[a].failed
        /\ Report(a, "json")' = Report(a, "json") /\ Report(a, "md")' = Report(a, "md")
        /\ audit[a].stage \in AtWork /\ audit'[a].stage # "idle"
    BY <1>1, <1>4, WentOn
  <2>2. WellWritten(a)'
    BY <1>1, <1>2, <1>4, <2>1 DEF WellWritten, Renaming
  <2>3. OwnFiles(a) /\ LatestKinds'
    BY <1>1, <1>4 DEF OwnFiles, LatestKinds
  <2> QED
    BY <2>1, <2>2, <2>3, OwnStep
<1> QED
  BY <1>3, <1>4 DEF SwapJson

(* latest.tmp is the audit's own again, for Markdown. *)
LEMMA WriteTmpMdWritten ==
  ASSUME VerdictInv, FilesInv, NEW a \in Audits, WriteTmpMd(a)
  PROVE  FilesInv'
<1>1. /\ audit[a].stage = "tmp_md" /\ audit[a].stage \in Writing /\ "swap_md" \in Writing
      /\ files \in Directories /\ LatestKinds /\ WellWritten(a)
  BY DEF WriteTmpMd, WriteTmp, Writing, VerdictInv, Typed, FilesInv
<1>2. /\ files.json[a] = Report(a, "json") /\ files.md[a] = Report(a, "md")
      /\ ~audit[a].failed => files.latestJson.by = a
      /\ files.latestJson.by = a => files.json[a] = files.latestJson
  BY <1>1 DEF WellWritten, Renaming
<1>3. files.md[a].kind = "md" /\ files.md[a].by = a
  BY <1>2, ReportTyped
<1>4. files' = files \/ \E c \in Contents : files' = [files EXCEPT !.tmp = c]
  BY ReportTyped DEF WriteTmpMd, WriteTmp
<1>5. /\ OwnFiles(a) /\ LatestKinds' /\ files'.latestJson = files.latestJson
      /\ files'.json = files.json /\ files'.md = files.md
  BY <1>1, <1>4, TmpWritten DEF OwnFiles, LatestKinds
<1>6. CASE files' = [files EXCEPT !.tmp = Report(a, "md")] /\ GoOn(a, "swap_md", FALSE)
  <2>1. /\ Others(a) /\ audit'[a].stage = "swap_md" /\ audit'[a].stamp = a /\ ~Good(a)'
        /\ audit'[a].failed <=> audit[a].failed
        /\ Report(a, "json")' = Report(a, "json") /\ Report(a, "md")' = Report(a, "md")
        /\ audit[a].stage \in AtWork /\ audit'[a].stage # "idle"
    BY <1>1, <1>6, WentOn
  <2>2. files'.tmp = Report(a, "md")'
    BY <1>1, <1>6, <2>1, TmpWritten, ReportTyped
  <2>3. WellWritten(a)'
    BY <1>2, <1>3, <1>5, <2>1, <2>2 DEF WellWritten, Renaming
  <2> QED
    BY <1>5, <2>1, <2>3, OwnStep
<1>7. CASE Finish(a, TRUE)
  <2>1. /\ Others(a) /\ audit'[a].stage = "done" /\ audit'[a].stamp = a /\ ~Good(a)'
        /\ audit[a].stage \in AtWork
    BY <1>1, <1>7, Finished
  <2>2. WellWritten(a)'
    BY <1>2, <1>3, <1>5, <2>1, PromisesNothing DEF Over
  <2> QED
    BY <1>5, <2>1, <2>2, OwnStep
<1> QED
  BY <1>6, <1>7 DEF WriteTmpMd, WriteTmp

(* The rename makes it latest.md. *)
LEMMA SwapMdWritten ==
  ASSUME VerdictInv, FilesInv, NEW a \in Audits, SwapMd(a)
  PROVE  FilesInv'
<1>1. /\ audit[a].stage = "swap_md" /\ audit[a].stage \in Writing
      /\ audit[a].failed \in BOOLEAN
      /\ files \in Directories /\ LatestKinds /\ WellWritten(a)
  BY DEF SwapMd, Writing, VerdictInv, Typed, Frames, FilesInv
<1>2. /\ files.json[a] = Report(a, "json") /\ files.md[a] = Report(a, "md")
      /\ files.tmp = Report(a, "md")
      /\ ~audit[a].failed => files.latestJson.by = a
      /\ files.latestJson.by = a => files.json[a] = files.latestJson
  BY <1>1 DEF WellWritten, Renaming
<1>3. files.md[a].kind = "md" /\ files.md[a].by = a
  BY <1>2, ReportTyped
<1>4. CASE /\ files' = [files EXCEPT !.latestMd = files.tmp, !.tmp = Absent]
           /\ Finish(a, audit[a].failed)
  <2>1. /\ Others(a) /\ audit'[a].stage = "done" /\ audit'[a].stamp = a
        /\ audit[a].failed => ~Good(a)'
        /\ Report(a, "json")' = Report(a, "json") /\ Report(a, "md")' = Report(a, "md")
        /\ audit[a].stage \in AtWork
    BY <1>1, <1>4, Finished
  <2>2. /\ files'.latestMd = Report(a, "md") /\ files'.latestJson = files.latestJson
        /\ files'.json = files.json /\ files'.md = files.md
    BY <1>1, <1>2, <1>4, MdSwapped
  <2>3. files'.latestMd.by = a /\ files'.latestMd.kind = "md"
    BY <2>2, ReportTyped
  <2>4. Good(a)' => files'.latestJson.by = a
    BY <1>2, <2>1, <2>2
  <2>5. WellWritten(a)'
    BY <1>2, <1>3, <2>1, <2>2, <2>3, <2>4 DEF WellWritten, Renaming, Over
  <2>6. OwnFiles(a) /\ LatestKinds'
    BY <1>1, <2>2, <2>3 DEF OwnFiles, LatestKinds
  <2> QED
    BY <2>1, <2>5, <2>6, OwnStep
<1>5. CASE Finish(a, TRUE) /\ UNCHANGED files
  <2>1. /\ Others(a) /\ audit'[a].stage = "done" /\ audit'[a].stamp = a /\ ~Good(a)'
        /\ audit[a].stage \in AtWork
    BY <1>1, <1>5, Finished
  <2>2. WellWritten(a)'
    BY <1>2, <1>3, <1>5, <2>1, PromisesNothing DEF Over
  <2>3. OwnFiles(a) /\ LatestKinds'
    BY <1>1, <1>5 DEF OwnFiles, LatestKinds
  <2> QED
    BY <2>1, <2>2, <2>3, OwnStep
<1> QED
  BY <1>4, <1>5 DEF SwapMd

(* A kill leaves the files as they are. *)
LEMMA KilledWritten ==
  ASSUME VerdictInv, FilesInv, NEW a \in Audits, Killed(a)
  PROVE  FilesInv'
<1>1. /\ Typed /\ files \in Directories /\ LatestKinds /\ WellWritten(a)
      /\ audit[a].stage \in AtWork
  BY DEF VerdictInv, Typed, FilesInv, Killed, Running
<1>2. audit[a].stamp = a /\ a \in Stamps
  BY <1>1 DEF WellWritten, AtWork, Writing, Audits, Stamps
<1>3. Others(a) /\ audit'[a].stage = "killed" /\ audit'[a].stamp = a
  BY <1>1, <1>2, KilledFrame DEF Killed
<1>4. \/ files' = files
      \/ audit[a].stage = "json" /\ files' = [files EXCEPT !.json[a] = Torn]
      \/ audit[a].stage = "md" /\ files' = [files EXCEPT !.md[a] = Torn]
      \/ files' = [files EXCEPT !.tmp = Torn]
  BY <1>2 DEF Killed
<1>5. OwnFiles(a) /\ files'.latestJson = files.latestJson /\ files'.latestMd = files.latestMd
  BY <1>1, <1>2, <1>4, JsonWritten, MdWritten, TmpWritten, ReportTyped DEF OwnFiles
<1>6. files.latestJson.by = a => files'.json[a] = files.json[a] /\ files'.md[a] = files.md[a]
  BY <1>1, <1>4, TmpWritten, ReportTyped, NotLatestYet
<1>7. WellWritten(a)'
  <2>1. files'.latestJson.by = a => /\ files'.json[a] = files'.latestJson
                                    /\ files'.md[a].kind = "md" /\ files'.md[a].by = a
    BY <1>1, <1>5, <1>6 DEF WellWritten
  <2>2. ~Good(a)'
    BY <1>3 DEF Good
  <2> QED
    BY <1>3, <2>1, <2>2, PromisesNothing DEF Over
<1>8. LatestKinds'
  BY <1>1, <1>5 DEF LatestKinds
<1> QED
  BY <1>1, <1>3, <1>5, <1>7, <1>8, OwnStep

(* The agent does not write to the report directory. *)
LEMMA ChangesWritten ==
  ASSUME VerdictInv, FilesInv, AgentChanges
  PROVE  FilesInv'
<1>1. /\ files' = files
      /\ \A a \in Audits : /\ audit'[a].stage = audit[a].stage
                           /\ audit'[a].findings = audit[a].findings
                           /\ audit'[a].status = audit[a].status
                           /\ audit'[a].failed = audit[a].failed
                           /\ audit'[a].stamp = audit[a].stamp
  BY ChangesFrame DEF VerdictInv
<1>2. InSequence' /\ LatestKinds'
  BY <1>1 DEF FilesInv, InSequence, LatestKinds
<1>3. ASSUME NEW a \in Audits PROVE WellWritten(a)'
  <2>1. Report(a, "json")' = Report(a, "json") /\ Report(a, "md")' = Report(a, "md")
    BY <1>1 DEF Report
  <2>2. Good(a)' <=> Good(a)
    BY <1>1 DEF Good
  <2>3. WellWritten(a)
    BY DEF FilesInv
  <2> QED
    BY <1>1, <2>1, <2>2, <2>3 DEF WellWritten
<1> QED
  BY <1>2, <1>3 DEF FilesInv

(* The empty directory satisfies the invariant of the files. *)
LEMMA InitialFiles ==
  ASSUME Init
  PROVE  FilesInv
<1>1. \A a \in Audits : audit[a].stage = "idle"
  BY DEF Init, NotBegun
<1>2. files.latestJson = Absent /\ files.latestMd = Absent
  BY DEF Init
<1>3. \A a \in Audits : files.latestJson.by # a
  BY <1>2, RuntimeAuditAssumption DEF Absent, Audits
<1>4. InSequence /\ LatestKinds
  BY <1>1, <1>2 DEF InSequence, LatestKinds, Absent
<1>5. ASSUME NEW a \in Audits PROVE WellWritten(a)
  BY <1>1, <1>3 DEF WellWritten, Renaming, Good
<1> QED
  BY <1>4, <1>5 DEF FilesInv

(* Every step keeps it. *)
LEMMA FilesStep ==
  ASSUME AtOnce = 1, VerdictInv, FilesInv, [Next]_vars
  PROVE  FilesInv'
<1>1. CASE UNCHANGED vars
  <2>1. audit' = audit /\ files' = files
    BY <1>1 DEF vars
  <2>2. InSequence' /\ LatestKinds'
    BY <2>1 DEF FilesInv, InSequence, LatestKinds
  <2>3. ASSUME NEW a \in Audits PROVE WellWritten(a)'
    BY <2>1 DEF FilesInv, WellWritten, Good, Report
  <2> QED
    BY <2>2, <2>3 DEF FilesInv
<1>2. ASSUME NEW a \in Audits, Probe(a) PROVE FilesInv'
  BY <1>2, BeginWritten, ProbesWritten DEF Probe
<1>3. ASSUME NEW a \in Audits, Archive(a) PROVE FilesInv'
  BY <1>3, WriteJsonWritten, WriteMdWritten, WriteTmpJsonWritten, SwapJsonWritten,
     WriteTmpMdWritten, SwapMdWritten DEF Archive
<1> QED
  BY <1>1, <1>2, <1>3, ChangesWritten, KilledWritten DEF Next

(* The report directory between any two writes of an audit: what each stage *)
(* has written is there under its stamp, or the stage failed.               *)
THEOREM FilesInvariance ==
  ASSUME AtOnce = 1
  PROVE  Spec => []FilesInv
<1>1. Init => FilesInv
  BY InitialFiles
<1>2. VerdictInv /\ FilesInv /\ [Next]_vars => FilesInv'
  BY FilesStep
<1> QED
  BY <1>1, <1>2, VerdictInvariance, PTL DEF Spec

(* When audits follow one another, the latest files are whole, stand for a *)
(* report that is there, and are of the last audit that exited without an  *)
(* error, through any number of kills and of writes and renames that fail. *)
THEOREM LatestReports ==
  ASSUME AtOnce = 1
  PROVE  Spec => []LatestSound
<1>1. FilesInv => LatestSound
  <2> SUFFICES ASSUME FilesInv PROVE LatestSound
    OBVIOUS
  <2>1. LatestKinds
    BY DEF FilesInv
  <2>2. ASSUME NEW a \in Audits, files.latestJson.by = a
        PROVE  /\ files.json[audit[a].stamp] = files.latestJson
               /\ files.md[audit[a].stamp].kind = "md"
               /\ files.md[audit[a].stamp].by = a
    BY <2>2 DEF FilesInv, WellWritten, Over
  <2>3. ASSUME NEW a \in Audits, audit[a].stage = "done" /\ audit[a].status # "PROBE_ERROR",
               \A b \in Audits : b > a => audit[b].stage = "idle"
        PROVE  files.latestJson.by = a /\ files.latestMd.by = a
    BY <2>3 DEF FilesInv, WellWritten, Good
  <2> QED
    BY <2>1, <2>2, <2>3 DEF LatestSound, LatestKinds
<1> QED
  BY <1>1, FilesInvariance, PTL

(* When audits follow one another, the aggregation counts at least as many *)
(* failed safety gates as audits have exited with one.                     *)
THEOREM GatesRecorded ==
  ASSUME AtOnce = 1
  PROVE  Spec => []SafetyRecorded
<1>1. VerdictInv /\ FilesInv => SafetyRecorded
  <2> SUFFICES ASSUME VerdictInv, FilesInv PROVE SafetyRecorded
    OBVIOUS
  <2> DEFINE failed == {a \in Audits : audit[a].stage = "done"
                                         /\ audit[a].status = "SAFETY_GATE_FAILED"}
             found  == {s \in Stamps : files.json[s].kind = "json" /\ files.json[s].gate}
  <2>1. ASSUME NEW a \in failed PROVE a \in found
    <3>1. Good(a) /\ Reasoned(a) /\ WellWritten(a) /\ audit[a].findings \in SUBSET FindingTypes
      BY DEF Good, VerdictInv, FilesInv, Typed, Frames
    <3>2. StatusOf(audit[a].findings) = "SAFETY_GATE_FAILED"
      BY <3>1 DEF Reasoned
    <3>3. "SAFETY_GATE" \in audit[a].findings
      BY <3>1, <3>2, StatusReads
    <3>4. files.json[a] = Report(a, "json")
      BY <3>1 DEF WellWritten
    <3> QED
      BY <3>3, <3>4, ReportTyped DEF Stamps, Audits
  <2>2. IsFiniteSet(found)
    <3>1. IsFiniteSet(Stamps)
      BY FS_Interval, RuntimeAuditAssumption DEF Stamps, Audits
    <3> QED
      BY <3>1, FS_Subset
  <2>3. Cardinality(failed) <= Cardinality(found)
    <3>1. failed \subseteq found
      BY <2>1
    <3> HIDE DEF failed, found
    <3> QED
      BY <2>2, <3>1, FS_Subset
  <2>4. Cardinality(failed) \in Nat /\ Cardinality(found) \in Nat
    <3>1. failed \subseteq found
      BY <2>1
    <3> HIDE DEF failed, found
    <3> QED
      BY <2>2, <3>1, FS_Subset, FS_CardinalityType
  <2> QED
    BY <2>3, <2>4 DEF SafetyRecorded, CriticalSafetyGates
<1> QED
  BY <1>1, VerdictInvariance, FilesInvariance, PTL

-------------------------------------------------------------------------------
(* The largest of a bounded set of numbers exists.                          *)
LEMMA Largest ==
  ASSUME NEW n \in Nat, NEW T, T \subseteq 1 .. n, T # {}
  PROVE  Max(T) \in T /\ \A k \in T : k <= Max(T)
<1> DEFINE U == {n - k : k \in T}
<1>1. U \subseteq Nat /\ U # {}
  <2>1. \A k \in T : k \in 1 .. n /\ n - k \in Nat
    OBVIOUS
  <2> QED
    BY <2>1
<1>2. PICK u \in U : \A v \in U : ~(<<v, u>> \in OpToRel(<, Nat))
  BY <1>1, WFMin, NatLessThanWellFounded
<1>3. ASSUME NEW v \in U PROVE u <= v
  <2>1. v \in Nat /\ u \in Nat
    BY <1>1
  <2>2. ~(v < u)
    BY <1>2, <2>1 DEF OpToRel
  <2> QED
    BY <2>1, <2>2
<1>4. PICK x \in T : u = n - x
  OBVIOUS
<1>5. \A k \in T : x >= k
  <2>1. ASSUME NEW k \in T PROVE x >= k
    <3>1. n - k \in U
      OBVIOUS
    <3>2. n - x <= n - k
      BY <1>3, <1>4, <3>1
    <3> QED
      BY <3>2
  <2> QED
    BY <2>1
<1>6. Max(T) \in T /\ \A k \in T : Max(T) >= k
  BY <1>5 DEF Max
<1> QED
  BY <1>6

(* LastOf finds the last event of a kind, and nothing where there is none.  *)
LEMMA LastFound ==
  ASSUME NEW s \in Seq(Kinds), NEW k
  PROVE  /\ LastOf(s, {k}) \in 0 .. Len(s)
         /\ LastOf(s, {k}) = 0 => \A i \in 1 .. Len(s) : s[i] # k
         /\ LastOf(s, {k}) # 0 => s[LastOf(s, {k})] = k
         /\ \A i \in 1 .. Len(s) : s[i] = k => i <= LastOf(s, {k})
<1> DEFINE I == {i \in 1 .. Len(s) : s[i] \in {k}}
<1>1. LastOf(s, {k}) = IF I # {} THEN Max(I) ELSE 0
  BY DEF LastOf, SelectLastInSeq
<1>2. ASSUME I # {} PROVE Max(I) \in I /\ \A i \in I : i <= Max(I)
  <2>1. I \subseteq 1 .. Len(s) /\ Len(s) \in Nat
    OBVIOUS
  <2> HIDE DEF I
  <2> QED
    BY <1>2, <2>1, Largest
<1> HIDE DEF I
<1>3. \A i : i \in I <=> i \in 1 .. Len(s) /\ s[i] = k
  BY DEF I
<1>4. CASE I = {}
  BY <1>1, <1>3, <1>4
<1>5. CASE I # {}
  <2> DEFINE x == LastOf(s, {k})
  <2>1. x \in I /\ \A i \in I : i <= x
    BY <1>1, <1>2, <1>5
  <2> HIDE DEF x
  <2>2. x \in 1 .. Len(s) /\ s[x] = k /\ \A i \in 1 .. Len(s) : s[i] = k => i <= x
    BY <1>3, <2>1
  <2>3. /\ x \in 0 .. Len(s) /\ (x = 0 => \A i \in 1 .. Len(s) : s[i] # k)
        /\ x # 0 => s[x] = k
    BY <2>2
  <2> QED
    BY <2>2, <2>3 DEF x
<1> QED
  BY <1>4, <1>5

(* A run is open when its START is the last word of the two, and over when  *)
(* a SHUTDOWN is.                                                           *)
Told(s, k) == \E i \in 1 .. Len(s) : s[i] = k

LastWord(s, k, l) ==
    \E i \in 1 .. Len(s) : s[i] = k /\ \A j \in 1 .. Len(s) : s[j] = l => j < i

(* A run whose last word is START is reported as partial. *)
LEMMA OpenRunTold ==
  ASSUME NEW s \in Seq(Kinds), LastWord(s, "START", "SHUTDOWN")
  PROVE  RunStatus(s) = "partial"
<1> DEFINE a == LastOf(s, {"START"})
           b == LastOf(s, {"SHUTDOWN"})
<1>1. PICK i \in 1 .. Len(s) :
        s[i] = "START" /\ \A j \in 1 .. Len(s) : s[j] = "SHUTDOWN" => j < i
  BY DEF LastWord
<1>2. a \in 0 .. Len(s) /\ i <= a
  BY <1>1, LastFound
<1>3. b \in 0 .. Len(s) /\ (b # 0 => s[b] = "SHUTDOWN")
  BY LastFound
<1>4. RunStatus(s) = IF a > b THEN "partial"
                     ELSE IF a > 0 THEN "completed"
                     ELSE IF s # << >> THEN "unknown" ELSE "no_run"
  BY DEF RunStatus
<1> HIDE DEF a, b
<1>5. b < i
  BY <1>1, <1>3
<1>6. a > b
  BY <1>2, <1>3, <1>5
<1> QED
  BY <1>2, <1>3, <1>4, <1>6

(* One that ends with SHUTDOWN is reported as completed. *)
LEMMA ClosedRunTold ==
  ASSUME NEW s \in Seq(Kinds), LastWord(s, "SHUTDOWN", "START"), Told(s, "START")
  PROVE  RunStatus(s) = "completed"
<1> DEFINE a == LastOf(s, {"START"})
           b == LastOf(s, {"SHUTDOWN"})
<1>1. PICK i \in 1 .. Len(s) :
        s[i] = "SHUTDOWN" /\ \A j \in 1 .. Len(s) : s[j] = "START" => j < i
  BY DEF LastWord
<1>2. b \in 0 .. Len(s) /\ i <= b
  BY <1>1, LastFound
<1>3. /\ a \in 0 .. Len(s) /\ (a # 0 => s[a] = "START")
      /\ a = 0 => \A j \in 1 .. Len(s) : s[j] # "START"
  BY LastFound
<1>4. RunStatus(s) = IF a > b THEN "partial"
                     ELSE IF a > 0 THEN "completed"
                     ELSE IF s # << >> THEN "unknown" ELSE "no_run"
  BY DEF RunStatus
<1> HIDE DEF a, b
<1>5. a # 0
  BY <1>3 DEF Told
<1>6. a < i
  BY <1>1, <1>3, <1>5
<1>7. ~(a > b) /\ a > 0
  BY <1>2, <1>3, <1>5, <1>6
<1> QED
  BY <1>4, <1>7

(* Other events do not change the last word of a run. *)
LEMMA WordKept ==
  ASSUME NEW s \in Seq(Kinds), NEW t \in Seq(Kinds), ~Told(t, "SHUTDOWN"),
         LastWord(s, "START", "SHUTDOWN")
  PROVE  LastWord(s \o t, "START", "SHUTDOWN")
<1>1. PICK i \in 1 .. Len(s) :
        s[i] = "START" /\ \A j \in 1 .. Len(s) : s[j] = "SHUTDOWN" => j < i
  BY DEF LastWord
<1> DEFINE u == s \o t
<1>2. /\ Len(u) = Len(s) + Len(t) /\ Len(s) \in Nat /\ Len(t) \in Nat
      /\ \A j \in 1 .. Len(u) : u[j] = IF j <= Len(s) THEN s[j] ELSE t[j - Len(s)]
  BY ConcatProperties
<1> HIDE DEF u
<1>3. i \in 1 .. Len(u) /\ u[i] = "START"
  BY <1>1, <1>2
<1>4. ASSUME NEW j \in 1 .. Len(u), u[j] = "SHUTDOWN" PROVE j < i
  <2>1. CASE j <= Len(s)
    BY <1>1, <1>2, <1>4, <2>1
  <2>2. CASE j > Len(s)
    <3>1. j - Len(s) \in 1 .. Len(t) /\ t[j - Len(s)] = "SHUTDOWN"
      BY <1>2, <1>4, <2>2
    <3> QED
      BY <3>1 DEF Told
  <2> QED
    BY <1>2, <2>1, <2>2
<1>5. LastWord(u, "START", "SHUTDOWN")
  BY <1>3, <1>4 DEF LastWord
<1> QED
  BY <1>5 DEF u

(* What is told last is the last word.                                      *)
LEMMA WordAdded ==
  ASSUME NEW s \in Seq(Kinds), NEW k \in Kinds, NEW l, k # l
  PROVE  /\ LastWord(Append(s, k), k, l)
         /\ Told(s, l) => Told(Append(s, k), l)
<1> DEFINE u == Append(s, k)
<1>1. /\ Len(u) = Len(s) + 1 /\ Len(s) \in Nat /\ u[Len(s) + 1] = k
      /\ \A j \in 1 .. Len(s) : u[j] = s[j]
  BY AppendProperties
<1> HIDE DEF u
<1>2. Len(u) \in 1 .. Len(u) /\ u[Len(u)] = k
  BY <1>1
<1>3. ASSUME NEW j \in 1 .. Len(u), u[j] = l PROVE j < Len(u)
  BY <1>1, <1>2, <1>3
<1>4. LastWord(u, k, l)
  BY <1>2, <1>3 DEF LastWord
<1>5. Told(s, l) => Told(u, l)
  <2>1. 1 .. Len(s) \subseteq 1 .. Len(u)
    BY <1>1
  <2> QED
    BY <1>1, <2>1 DEF Told
<1> QED
  BY <1>4, <1>5 DEF u

(* What is the last word, and not said in the end, was so before the end.   *)
LEMMA WordBefore ==
  ASSUME NEW s \in Seq(Kinds), NEW t \in Seq(Kinds), NEW k, NEW l,
         ~Told(t, k), LastWord(s \o t, k, l)
  PROVE  LastWord(s, k, l)
<1> DEFINE u == s \o t
<1>1. PICK i \in 1 .. Len(u) : u[i] = k /\ \A j \in 1 .. Len(u) : u[j] = l => j < i
  BY DEF LastWord
<1>2. /\ Len(u) = Len(s) + Len(t) /\ Len(s) \in Nat /\ Len(t) \in Nat
      /\ \A j \in 1 .. Len(u) : u[j] = IF j <= Len(s) THEN s[j] ELSE t[j - Len(s)]
  BY ConcatProperties
<1> HIDE DEF u
<1>3. i <= Len(s)
  <2>1. SUFFICES ASSUME i > Len(s) PROVE FALSE
    BY <1>2
  <2>2. i - Len(s) \in 1 .. Len(t) /\ t[i - Len(s)] = k
    BY <1>1, <1>2, <2>1
  <2> QED
    BY <2>2 DEF Told
<1>4. i \in 1 .. Len(s) /\ s[i] = k
  BY <1>1, <1>2, <1>3
<1>5. ASSUME NEW j \in 1 .. Len(s), s[j] = l PROVE j < i
  <2>1. j \in 1 .. Len(u) /\ u[j] = l
    BY <1>2, <1>5
  <2> QED
    BY <1>1, <2>1
<1> QED
  BY <1>4, <1>5 DEF LastWord

-------------------------------------------------------------------------------
(* What the ledger and the bus say together: as long as no event of the run *)
(* is lost, a run that goes on is open, and one that ended orderly is over. *)

All == ledger \o bus

Open   == LastWord(All, "START", "SHUTDOWN")
Closed == LastWord(All, "SHUTDOWN", "START") /\ Told(All, "START")

Lifecycle ==
    /\ process = "down" => bus = << >>
    /\ ~lost /\ process \in {"running", "stopping"} => Open
    /\ ~lost /\ process = "flushing" => Closed
    /\ ~lost /\ process = "down" /\ started /\ ~crashed => Closed

(* What is emitted while the process runs keeps the last word. *)
LEMMA EmitsTold ==
  ASSUME LedgerTypeOK, Lifecycle, process \in {"running", "stopping"},
         NEW t \in Seq(Kinds), ~Told(t, "SHUTDOWN"), bus' = bus \o t,
         UNCHANGED <<process, lost, ledger>>
  PROVE  bus' \in Seq(Kinds) /\ Lifecycle'
<1>1. bus \in Seq(Kinds) /\ ledger \in Seq(Kinds)
  BY DEF LedgerTypeOK
<1>2. bus' \in Seq(Kinds) /\ All \in Seq(Kinds) /\ All' = All \o t
  BY <1>1, ConcatProperties, ConcatAssociative DEF All
<1>3. ~lost => LastWord(All \o t, "START", "SHUTDOWN")
  BY <1>2, WordKept DEF Lifecycle, Open
<1>4. ~lost' => Open'
  BY <1>2, <1>3 DEF Open
<1> QED
  BY <1>2, <1>4 DEF Lifecycle

(* Nothing is emitted, or the batch moves from the bus to the ledger.       *)
LEMMA SameTold ==
  ASSUME Lifecycle, All' = All, process = "down" => bus' = bus,
         UNCHANGED <<process, lost, started, crashed>>
  PROVE  Lifecycle'
BY DEF Lifecycle, Open, Closed

(* One event that is no SHUTDOWN, as a sequence. *)
LEMMA OneEvent ==
  ASSUME NEW k \in Kinds \ {"SHUTDOWN"}
  PROVE  /\ <<k>> \in Seq(Kinds) /\ ~Told(<<k>>, "SHUTDOWN")
         /\ \A s \in Seq(Kinds) : Append(s, k) = s \o <<k>>
<1>1. \A i \in 1 .. Len(<<k>>) : <<k>>[i] = k
  OBVIOUS
<1>2. <<k>> \in Seq(Kinds) /\ ~Told(<<k>>, "SHUTDOWN")
  BY <1>1 DEF Told
<1> QED
  BY <1>2, AppendIsConcat

(* A start says START. *)
LEMMA StartsTold ==
  ASSUME LedgerTypeOK, Lifecycle, Start
  PROVE  Lifecycle'
<1>1. /\ ledger' = ledger /\ bus' = <<"START">> /\ process' = "running"
      /\ ledger \in Seq(Kinds)
  BY DEF Start, LedgerTypeOK
<1>2. All' = Append(ledger, "START")
  BY <1>1, AppendIsConcat DEF All, Kinds
<1>3. LastWord(Append(ledger, "START"), "START", "SHUTDOWN")
  BY <1>1, WordAdded DEF Kinds
<1> QED
  BY <1>1, <1>2, <1>3 DEF Lifecycle, Open

(* A shutdown says SHUTDOWN; a crash says nothing. *)
LEMMA EndsTold ==
  ASSUME LedgerTypeOK, Lifecycle, CancelTasks \/ Exit \/ Crash
  PROVE  bus' \in Seq(Kinds) /\ Lifecycle'
<1>1. bus \in Seq(Kinds) /\ ledger \in Seq(Kinds) /\ All \in Seq(Kinds)
  BY ConcatProperties DEF LedgerTypeOK, All
<1>2. CASE CancelTasks
  <2>1. PICK n \in 0 .. Len(bus) : /\ bus' = Append(SubSeq(bus, n + 1, Len(bus)), "SHUTDOWN")
                                   /\ lost' = (lost \/ n > 0)
    BY <1>2 DEF CancelTasks
  <2>2. process = "stopping" /\ process' = "flushing" /\ ledger' = ledger
    BY <1>2 DEF CancelTasks
  <2>3. SubSeq(bus, n + 1, Len(bus)) \in Seq(Kinds) /\ "SHUTDOWN" \in Kinds
    <3>1. \A i \in n + 1 .. Len(bus) : bus[i] \in Kinds
      BY <1>1
    <3>2. n + 1 \in Int /\ Len(bus) \in Int
      BY <1>1
    <3> QED
      BY <3>1, <3>2, SubSeqProperties DEF Kinds
  <2>4. bus' \in Seq(Kinds)
    BY <2>1, <2>3, AppendProperties
  <2>5. ASSUME ~lost' PROVE Closed'
    <3>1. ~lost /\ ~(n > 0)
      BY <2>1, <2>5, Zenon
    <3>2. bus' = Append(bus, "SHUTDOWN")
      <4>1. n = 0
        BY <3>1
      <4> QED
        BY <1>1, <2>1, <4>1, SubSeqFull
    <3>3. bus' = bus \o <<"SHUTDOWN">> /\ <<"SHUTDOWN">> \in Seq(Kinds)
      BY <1>1, <2>3, <3>2, AppendIsConcat
    <3>4. All' = Append(All, "SHUTDOWN")
      BY <1>1, <2>2, <2>3, <3>3, ConcatAssociative, AppendIsConcat DEF All
    <3>5. Told(All, "START")
      BY <2>2, <3>1 DEF Lifecycle, Open, LastWord, Told
    <3>6. /\ LastWord(Append(All, "SHUTDOWN"), "SHUTDOWN", "START")
          /\ Told(Append(All, "SHUTDOWN"), "START")
      BY <1>1, <2>3, <3>5, WordAdded
    <3> QED
      BY <3>4, <3>6 DEF Closed
  <2> QED
    BY <2>2, <2>4, <2>5 DEF Lifecycle
<1>3. CASE Exit
  <2>1. /\ process = "flushing" /\ process' = "down" /\ bus' = << >>
        /\ ledger' = ledger /\ lost' = (lost \/ bus # << >>)
    BY <1>3 DEF Exit
  <2>2. ASSUME ~lost' PROVE Closed'
    <3>1. ~lost /\ bus = << >>
      BY <2>1, <2>2
    <3>2. All' = All
      BY <2>1, <3>1 DEF All
    <3> QED
      BY <2>1, <3>1, <3>2 DEF Lifecycle, Closed
  <2> QED
    BY <2>1, <2>2 DEF Lifecycle
<1>4. CASE Crash
  BY <1>4 DEF Crash, Lifecycle
<1> QED
  BY <1>2, <1>3, <1>4

(* A committed batch moves events within ledger and bus; a lost one is lost. *)
LEMMA BusTold ==
  ASSUME LedgerTypeOK, Lifecycle, CommitBatch \/ LoseBatch
  PROVE  bus' \in Seq(Kinds) /\ ledger' \in Seq(Kinds) /\ Lifecycle'
<1>1. bus \in Seq(Kinds) /\ ledger \in Seq(Kinds) /\ All \in Seq(Kinds)
  BY ConcatProperties DEF LedgerTypeOK, All
<1>2. CASE CommitBatch
  <2>1. /\ ledger' = All /\ bus' = << >> /\ bus # << >>
        /\ UNCHANGED <<process, lost, started, crashed>>
    BY <1>2 DEF CommitBatch, All
  <2>2. All' = All
    BY <1>1, <2>1, ConcatEmptySeq DEF All
  <2>3. process # "down"
    BY <2>1 DEF Lifecycle
  <2> QED
    BY <1>1, <2>1, <2>2, <2>3, SameTold
<1>3. CASE LoseBatch
  BY <1>1, <1>3 DEF LoseBatch, Lifecycle
<1> QED
  BY <1>2, <1>3

(* The monitor's pass emits no word of start or shutdown. *)
LEMMA MonitorTold ==
  ASSUME LedgerTypeOK, Lifecycle, MonitorPass
  PROVE  LedgerTypeOK' /\ Lifecycle'
<1> DEFINE Monitors == [stage : {"asleep", "told", "asking"}, sawSocket : BOOLEAN,
                        prevSocket : BOOLEAN, prevReady : BOOLEAN, reported : BOOLEAN]
<1>1. /\ monitor \in Monitors /\ (monitor.prevSocket => monitor.reported)
      /\ connected \in BOOLEAN /\ reachable \in BOOLEAN /\ degraded \in BOOLEAN
      /\ bus \in Seq(Kinds) /\ ledger \in Seq(Kinds)
  BY DEF LedgerTypeOK
<1>2. /\ UNCHANGED <<process, connected, reachable, degraded, breaker, ledger,
                     started, upsets, lost, crashed>>
      /\ process \in {"running", "stopping"}
  BY DEF MonitorPass, TellSocket, AskHealth, TellReadiness
<1>3. monitor' \in Monitors /\ (monitor'.prevSocket => monitor'.reported)
  <2>1. CASE TellSocket
    <3>1. monitor' = [monitor EXCEPT !.stage = "told", !.prevSocket = connected,
                                     !.reported = @ \/ connected]
      BY <2>1 DEF TellSocket
    <3> QED
      BY <1>1, <3>1
  <2>2. CASE AskHealth
    BY <1>1, <2>2 DEF AskHealth
  <2>3. CASE TellReadiness
    <3>1. monitor' = [monitor EXCEPT !.stage = "asleep", !.sawSocket = FALSE,
                                     !.prevReady = Ready]
      BY <2>3 DEF TellReadiness
    <3>2. Ready \in BOOLEAN
      BY <1>1 DEF Ready
    <3> HIDE DEF Ready
    <3> QED
      BY <1>1, <3>1, <3>2
  <2> QED
    BY <2>1, <2>2, <2>3 DEF MonitorPass
<1>4. \E t \in Seq(Kinds) : ~Told(t, "SHUTDOWN") /\ bus' = bus \o t
  <2>1. /\ << >> \in Seq(Kinds) /\ ~Told(<< >>, "SHUTDOWN") /\ bus = bus \o << >>
    BY <1>1, ConcatEmptySeq, EmptySeq DEF Told
  <2>2. ASSUME NEW k \in {"READY", "DEGRADED", "WS_CONNECTED", "WS_RECONNECT", "WS_PONG_STALE"}
        PROVE  <<k>> \in Seq(Kinds) /\ ~Told(<<k>>, "SHUTDOWN") /\ Append(bus, k) = bus \o <<k>>
    BY <1>1, OneEvent DEF Kinds
  <2>3. CASE TellSocket
    <3>1. bus' = bus \o SocketEvent
      BY <2>3 DEF TellSocket
    <3>2. SocketEvent \in {<<"WS_RECONNECT">>, <<"WS_CONNECTED">>, <<"WS_PONG_STALE">>, << >>}
      BY DEF SocketEvent
    <3>3. SocketEvent \in Seq(Kinds) /\ ~Told(SocketEvent, "SHUTDOWN")
      BY <2>1, <2>2, <3>2
    <3> QED
      BY <3>1, <3>3
  <2>4. CASE AskHealth
    BY <2>1, <2>4 DEF AskHealth
  <2>5. CASE TellReadiness
    <3>1. bus' = bus \/ bus' = Append(bus, "READY") \/ bus' = Append(bus, "DEGRADED")
      BY <2>5 DEF TellReadiness, Emit
    <3> QED
      BY <2>1, <2>2, <3>1
  <2> QED
    BY <2>3, <2>4, <2>5 DEF MonitorPass
<1>5. bus' \in Seq(Kinds) /\ Lifecycle'
  BY <1>2, <1>4, EmitsTold
<1> QED
  BY <1>1, <1>2, <1>3, <1>5 DEF LedgerTypeOK

(* What upsets the agent emits none either. *)
LEMMA UpsetsTold ==
  ASSUME LedgerTypeOK, Lifecycle,
         SocketChanges \/ DatabaseChanges \/ BreakerTrips \/ ProviderFails
  PROVE  LedgerTypeOK' /\ Lifecycle'
<1>1. /\ upsets \in 0 .. MaxUpsets /\ upsets < MaxUpsets /\ upsets' = upsets + 1
      /\ UNCHANGED <<process, monitor, ledger, started, lost, crashed>>
  BY DEF LedgerTypeOK, SocketChanges, DatabaseChanges, BreakerTrips, ProviderFails, Change
<1>2. upsets' \in 0 .. MaxUpsets
  BY <1>1, OperationsLedgerAssumption DEF OperationsLedgerAssumption
<1>3. CASE SocketChanges \/ DatabaseChanges
  <2>1. bus' = bus /\ UNCHANGED <<degraded, breaker>>
    BY <1>3 DEF SocketChanges, DatabaseChanges
  <2>2. Lifecycle'
    BY <1>1, <2>1, SameTold DEF All
  <2>3. connected' \in BOOLEAN /\ reachable' \in BOOLEAN
    BY <1>3 DEF SocketChanges, DatabaseChanges, LedgerTypeOK
  <2> QED
    BY <1>1, <1>2, <2>1, <2>2, <2>3 DEF LedgerTypeOK
<1>4. CASE BreakerTrips
  <2>1. /\ process = "running" /\ breaker' = "OPEN"
        /\ bus' = Append(bus, "CIRCUIT_BREAKER_OPEN")
        /\ UNCHANGED <<connected, reachable, degraded>>
    BY <1>4 DEF BreakerTrips, Emit
  <2>2. /\ <<"CIRCUIT_BREAKER_OPEN">> \in Seq(Kinds)
        /\ ~Told(<<"CIRCUIT_BREAKER_OPEN">>, "SHUTDOWN")
        /\ bus' = bus \o <<"CIRCUIT_BREAKER_OPEN">>
    BY <2>1, OneEvent DEF LedgerTypeOK, Kinds
  <2>3. bus' \in Seq(Kinds) /\ Lifecycle'
    BY <1>1, <2>1, <2>2, EmitsTold
  <2> QED
    BY <1>1, <1>2, <2>1, <2>3 DEF LedgerTypeOK
<1>5. CASE ProviderFails
  <2> DEFINE failure == <<"PROVIDER_FAILURE">>
             failures == <<"PROVIDER_FAILURE", "PROVIDER_FAILURE">>
  <2>1. /\ process \in {"running", "stopping"}
        /\ bus' = Append(bus, "PROVIDER_FAILURE") \/ bus' = bus \o failures
        /\ UNCHANGED <<connected, reachable, degraded, breaker>>
    BY <1>5 DEF ProviderFails, Emit
  <2>2. /\ failure \in Seq(Kinds) /\ ~Told(failure, "SHUTDOWN")
        /\ Append(bus, "PROVIDER_FAILURE") = bus \o failure
    BY OneEvent DEF LedgerTypeOK, Kinds
  <2>3. failures \in Seq(Kinds) /\ ~Told(failures, "SHUTDOWN")
    BY DEF Told, Kinds
  <2>4. \E t \in Seq(Kinds) : ~Told(t, "SHUTDOWN") /\ bus' = bus \o t
    BY <2>1, <2>2, <2>3
  <2>5. bus' \in Seq(Kinds) /\ Lifecycle'
    BY <1>1, <2>1, <2>4, EmitsTold
  <2> QED
    BY <1>1, <1>2, <2>1, <2>5 DEF LedgerTypeOK
<1> QED
  BY <1>3, <1>4, <1>5

(* The monitor starts without previous values. *)
LEMMA FreshMonitorTyped ==
  /\ FreshMonitor \in [stage : {"asleep", "told", "asking"}, sawSocket : BOOLEAN,
                       prevSocket : BOOLEAN, prevReady : BOOLEAN, reported : BOOLEAN]
  /\ FreshMonitor.prevSocket = FALSE
BY DEF FreshMonitor

(* Every step keeps the last word true to the process. *)
LEMMA LedgerStep ==
  ASSUME LedgerTypeOK, Lifecycle, [LedgerNext]_ledgerVars
  PROVE  LedgerTypeOK' /\ Lifecycle'
<1>1. CASE Start
  <2>1. Lifecycle'
    BY <1>1, StartsTold
  <2>2. upsets' \in 0 .. MaxUpsets
    BY <1>1, OperationsLedgerAssumption DEF Start, LedgerTypeOK, OperationsLedgerAssumption
  <2>3. bus' \in Seq(Kinds)
    BY <1>1, OneEvent DEF Start, Kinds
  <2> QED
    BY <1>1, <2>1, <2>2, <2>3, FreshMonitorTyped DEF Start, LedgerTypeOK
<1>2. CASE BeginShutdown
  <2>1. All' = All
    BY <1>2 DEF BeginShutdown, All
  <2>2. Lifecycle'
    BY <1>2, <2>1 DEF BeginShutdown, Lifecycle, Open, Closed
  <2> QED
    BY <1>2, <2>2 DEF BeginShutdown, LedgerTypeOK
<1>3. CASE CancelTasks \/ Exit \/ Crash
  <2>1. bus' \in Seq(Kinds) /\ Lifecycle'
    BY <1>3, EndsTold
  <2>2. lost' \in BOOLEAN
    BY <1>3 DEF CancelTasks, Exit, Crash
  <2>3. monitor' = monitor \/ monitor' = FreshMonitor
    BY <1>3 DEF CancelTasks, Exit, Crash
  <2> QED
    BY <1>3, <2>1, <2>2, <2>3, FreshMonitorTyped DEF CancelTasks, Exit, Crash, LedgerTypeOK
<1>4. CASE CommitBatch \/ LoseBatch
  <2>1. bus' \in Seq(Kinds) /\ ledger' \in Seq(Kinds) /\ Lifecycle'
    BY <1>4, BusTold
  <2>2. lost' \in BOOLEAN /\ degraded' \in BOOLEAN
    BY <1>4 DEF CommitBatch, LoseBatch, LedgerTypeOK
  <2> QED
    BY <1>4, <2>1, <2>2 DEF CommitBatch, LoseBatch, LedgerTypeOK
<1>5. CASE UNCHANGED ledgerVars
  <2>1. Lifecycle'
    BY <1>5, SameTold DEF ledgerVars, All
  <2> QED
    BY <1>5, <2>1 DEF ledgerVars, LedgerTypeOK
<1> QED
  BY <1>1, <1>2, <1>3, <1>4, <1>5, MonitorTold, UpsetsTold DEF LedgerNext

(* Before the first start nothing is said. *)
LEMMA LedgerStarts == LedgerInit => LedgerTypeOK /\ Lifecycle
<1> SUFFICES ASSUME LedgerInit PROVE LedgerTypeOK /\ Lifecycle
  OBVIOUS
<1>1. LedgerTypeOK
  <2>1. << >> \in Seq(Kinds) /\ 0 \in 0 .. MaxUpsets
    BY OperationsLedgerAssumption DEF OperationsLedgerAssumption
  <2> QED
    BY <2>1, FreshMonitorTyped DEF LedgerInit, LedgerTypeOK
<1>2. Lifecycle
  BY DEF LedgerInit, Lifecycle
<1> QED
  BY <1>1, <1>2

(* With the digest beside it the ledger takes its own steps. *)
LEMMA DigestMovesLedger == [DigestNext]_digestVars => [LedgerNext]_ledgerVars
BY DEF DigestNext, Read, digestVars

(* While the agent runs, what its ledger holds says so, from its START on;  *)
(* after an orderly end it says that: for any number of restarts, crashes   *)
(* and changes in between, unless an event of the run was lost.             *)
THEOREM LifecycleSaid == DigestSpec => []LifecycleTold
<1>1. DigestInit => LedgerTypeOK /\ Lifecycle
  BY LedgerStarts DEF DigestInit
<1>2. LedgerTypeOK /\ Lifecycle /\ [DigestNext]_digestVars => (LedgerTypeOK /\ Lifecycle)'
  BY LedgerStep, DigestMovesLedger
<1>3. LedgerTypeOK /\ Lifecycle => LifecycleTold
  <2> SUFFICES ASSUME LedgerTypeOK, Lifecycle, ~lost PROVE
        /\ process = "running" /\ ~Contains(bus, "START") => RunStatus(ledger) = "partial"
        /\ process = "down" /\ started /\ ~crashed => RunStatus(ledger) = "completed"
    BY DEF LifecycleTold
  <2>1. bus \in Seq(Kinds) /\ ledger \in Seq(Kinds)
    BY DEF LedgerTypeOK
  <2>2. ASSUME process = "running", ~Contains(bus, "START")
        PROVE  RunStatus(ledger) = "partial"
    <3>1. LastWord(ledger \o bus, "START", "SHUTDOWN")
      BY <2>2 DEF Lifecycle, Open, All
    <3>2. ~Told(bus, "START")
      BY <2>2 DEF Told, Contains
    <3> QED
      BY <2>1, <3>1, <3>2, WordBefore, OpenRunTold
  <2>3. ASSUME process = "down", started, ~crashed
        PROVE  RunStatus(ledger) = "completed"
    <3>1. Closed /\ All = ledger
      BY <2>1, <2>3, ConcatEmptySeq DEF Lifecycle, All
    <3> QED
      BY <2>1, <3>1, ClosedRunTold DEF Closed
  <2> QED
    BY <2>2, <2>3
<1> QED
  BY <1>1, <1>2, <1>3, PTL DEF DigestSpec

-------------------------------------------------------------------------------
(* The reader.  Every place of the ledger there was when it began is read,  *)
(* or lies in what is still to come: the offset never passes over one,      *)
(* however far the ledger has grown since.                                  *)

Readers == [stage : {"idle", "count", "fetch", "SUCCESS", "READ_CAP_REACHED",
                     "DATABASE_UNAVAILABLE"},
            total : Nat, pages : Nat, rows : Seq(Nat), base : Nat]

Passed(rows, base, size) ==
    \A p \in 1 .. base : p > size - Len(rows) => p \in ToSet(rows)

ReaderInv ==
    /\ reader \in Readers
    /\ reader.base <= Len(ledger) /\ Len(reader.rows) <= Len(ledger)
    /\ reader.total <= Len(ledger)
    /\ reader.pages <= MaxPages
    /\ reader.rows \in Seq(1 .. Len(ledger))
    /\ Passed(reader.rows, reader.base, Len(ledger))
    /\ reader.stage = "idle" => reader.rows = << >> /\ reader.pages = 0
    /\ reader.stage = "count" => reader.pages < MaxPages
    /\ reader.stage = "fetch" => reader.pages < MaxPages /\ reader.base <= reader.total

(* The lesser and the greater of two numbers. *)
LEMMA LeastOfTwo ==
  ASSUME NEW a \in Int, NEW b \in Int
  PROVE  /\ Min({a, b}) = IF a <= b THEN a ELSE b
         /\ Max({a, b}) = IF a <= b THEN b ELSE a
<1>1. /\ \E x \in {a, b} : \A y \in {a, b} : x <= y
      /\ \E x \in {a, b} : \A y \in {a, b} : x >= y
  OBVIOUS
<1>2. Min({a, b}) \in {a, b} /\ \A y \in {a, b} : Min({a, b}) <= y
  BY <1>1 DEF Min
<1>3. Max({a, b}) \in {a, b} /\ \A y \in {a, b} : Max({a, b}) >= y
  BY <1>1 DEF Max
<1> QED
  BY <1>2, <1>3

(* A page goes on from the offset, towards the oldest row.                  *)
LEMMA PageRead ==
  ASSUME ledger \in Seq(Kinds), ReaderInv
  PROVE  /\ Page \in Seq(1 .. Len(ledger))
         /\ Len(reader.rows) + Len(Page) <= Len(ledger)
         /\ Page = << >> => Len(reader.rows) = Len(ledger)
         /\ \A i \in 1 .. Len(Page) : Page[i] = Len(ledger) - Len(reader.rows) - i + 1
<1> DEFINE size == Len(ledger)
           read == Len(reader.rows)
           n == Min({PageSize, Max({0, size - read})})
<1>1. size \in Nat /\ read \in Nat /\ read <= size /\ PageSize \in Nat \ {0}
  BY DailyDigestAssumption DEF DailyDigestAssumption, ReaderInv, Readers
<1>2. Page = [i \in 1 .. n |-> size - read - i + 1]
  BY DEF Page, Offset
<1> HIDE DEF size, read
<1>3. n \in 0 .. size - read /\ (n = 0 => read = size)
  <2> DEFINE left == size - read
             m == Max({0, left})
  <2>1. left \in Int /\ 0 <= left
    BY <1>1
  <2>2. m = left /\ m \in Int
    <3>1. 0 \in Int
      OBVIOUS
    <3> HIDE DEF left
    <3>2. Max({0, left}) = IF 0 <= left THEN left ELSE 0
      BY <2>1, <3>1, LeastOfTwo, Zenon
    <3> QED
      BY <2>1, <3>2
  <2> HIDE DEF m
  <2>3. Min({PageSize, m}) = IF PageSize <= m THEN PageSize ELSE m
    BY <1>1, <2>2, LeastOfTwo
  <2>4. n = IF PageSize <= m THEN PageSize ELSE m
    BY <2>3 DEF m, left
  <2> HIDE DEF n
  <2> QED
    BY <1>1, <2>2, <2>4
<1> HIDE DEF n
<1>4. \A i \in 1 .. n : size - read - i + 1 \in 1 .. size
  BY <1>1, <1>3
<1>5. Page \in Seq(1 .. size) /\ Len(Page) = n
  BY <1>2, <1>3, <1>4
<1>6. \A i \in 1 .. Len(Page) : Page[i] = size - read - i + 1
  BY <1>2, <1>5
<1>7. Page = << >> => n = 0
  BY <1>5, EmptySeq
<1>8. read + Len(Page) <= size /\ (Page = << >> => read = size)
  BY <1>1, <1>3, <1>5, <1>7
<1> QED
  BY <1>5, <1>6, <1>8 DEF size, read

(* A page at its offset passes over no row that was there before. *)
LEMMA PagePasses ==
  ASSUME ledger \in Seq(Kinds), ReaderInv
  PROVE  /\ reader.rows \o Page \in Seq(1 .. Len(ledger))
         /\ Len(reader.rows \o Page) = Len(reader.rows) + Len(Page)
         /\ Passed(reader.rows \o Page, reader.base, Len(ledger))
<1> DEFINE size == Len(ledger)
           read == Len(reader.rows)
           n == Len(Page)
           s == reader.rows \o Page
<1>1. /\ size \in Nat /\ read \in Nat /\ n \in Nat
      /\ reader.rows \in Seq(1 .. size) /\ Page \in Seq(1 .. size)
      /\ \A i \in 1 .. n : Page[i] = size - read - i + 1
      /\ reader.base \in Nat
  BY PageRead DEF ReaderInv, Readers
<1>2. /\ s \in Seq(1 .. size) /\ Len(s) = read + n /\ DOMAIN s = 1 .. Len(s)
      /\ \A i \in 1 .. Len(s) : s[i] = IF i <= read THEN reader.rows[i] ELSE Page[i - read]
  BY <1>1, ConcatProperties
<1>3. \A p \in 1 .. reader.base : p > size - read => p \in ToSet(reader.rows)
  BY DEF ReaderInv, Passed
<1>4. DOMAIN reader.rows = 1 .. read
  BY <1>1
<1> HIDE DEF size, read, n, s
<1>5. ASSUME NEW p \in 1 .. reader.base, p > size - Len(s) PROVE p \in ToSet(s)
  <2>1. CASE p > size - read
    <3>1. PICK i \in 1 .. read : reader.rows[i] = p
      BY <1>3, <1>4, <2>1 DEF ToSet
    <3>2. i \in 1 .. Len(s) /\ s[i] = p
      BY <1>1, <1>2, <3>1
    <3> QED
      BY <1>2, <3>2 DEF ToSet
  <2>2. CASE p <= size - read
    <3> DEFINE j == size - read - p + 1
    <3>1. j \in 1 .. n /\ size - read - j + 1 = p
      BY <1>1, <1>2, <1>5, <2>2
    <3>2. Page[j] = p
      BY <1>1, <3>1
    <3> HIDE DEF j
    <3>3. read + j \in 1 .. Len(s) /\ s[read + j] = p
      <4>1. read + j \in 1 .. Len(s) /\ ~(read + j <= read) /\ (read + j) - read = j
        BY <1>1, <1>2, <3>1
      <4>2. s[read + j] = Page[(read + j) - read]
        BY <1>2, <4>1
      <4> QED
        BY <3>2, <4>1, <4>2
    <3> QED
      BY <1>2, <3>3 DEF ToSet
  <2> QED
    BY <1>1, <2>1, <2>2
<1> QED
  BY <1>2, <1>5 DEF Passed, size, read, n, s

(* The events table only grows. *)
LEMMA LedgerGrows ==
  ASSUME LedgerTypeOK, [LedgerNext]_ledgerVars
  PROVE  Len(ledger) <= Len(ledger')
<1>1. bus \in Seq(Kinds) /\ ledger \in Seq(Kinds)
  BY DEF LedgerTypeOK
<1>2. Len(ledger \o bus) = Len(ledger) + Len(bus)
  BY <1>1, ConcatProperties
<1>3. ledger' = ledger \/ ledger' = ledger \o bus
  BY DEF LedgerNext, Start, BeginShutdown, CancelTasks, Exit, Crash, CommitBatch, LoseBatch,
     SocketChanges, DatabaseChanges, BreakerTrips, ProviderFails, Change, MonitorPass,
     TellSocket, AskHealth, TellReadiness, ledgerVars
<1> QED
  BY <1>1, <1>2, <1>3

(* Rows that are added meanwhile are in front of the offset. *)
LEMMA ReaderWaits ==
  ASSUME ledger \in Seq(Kinds), ledger' \in Seq(Kinds), Len(ledger) <= Len(ledger'),
         ReaderInv, reader' = reader
  PROVE  ReaderInv'
<1> DEFINE size == Len(ledger)
           rows == reader.rows
<1>1. size \in Nat /\ Len(ledger') \in Nat /\ size <= Len(ledger') /\ rows \in Seq(1 .. size)
      /\ Len(rows) \in Nat /\ reader \in Readers
  BY DEF ReaderInv, Readers
<1> HIDE DEF rows
<1>2. rows \in Seq(1 .. Len(ledger'))
  <2>1. 1 .. size \subseteq 1 .. Len(ledger')
    BY <1>1
  <2> QED
    BY <1>1, <2>1, SeqMonotonic
<1>3. \A p \in 1 .. reader.base : p > Len(ledger') - Len(rows) => p > size - Len(rows)
  BY <1>1 DEF Readers
<1>4. Passed(rows, reader.base, Len(ledger'))
  BY <1>3 DEF Passed, ReaderInv, rows
<1>5. /\ reader.base <= Len(ledger') /\ Len(rows) <= Len(ledger')
      /\ reader.total <= Len(ledger')
  BY <1>1 DEF ReaderInv, Readers, rows
<1> QED
  BY <1>1, <1>2, <1>4, <1>5 DEF ReaderInv, rows

(* A digest that has not begun has read nothing. *)
LEMMA NoReaderReads ==
  /\ NoReader \in Readers /\ NoReader.total = 0 /\ NoReader.pages = 0
  /\ NoReader.base = 0 /\ NoReader.rows = << >> /\ NoReader.stage = "idle"
BY DEF NoReader, Readers

(* Nor does one that has ended hold rows. *)
LEMMA ReaderEnded ==
  ASSUME ledger' \in Seq(Kinds), NEW stage,
         stage \in {"idle", "SUCCESS", "READ_CAP_REACHED", "DATABASE_UNAVAILABLE"},
         reader' = [NoReader EXCEPT !.stage = stage]
  PROVE  ReaderInv'
<1>1. /\ reader' \in Readers /\ reader'.total = 0 /\ reader'.pages = 0
      /\ reader'.base = 0 /\ reader'.rows = << >> /\ reader'.stage = stage
  BY NoReaderReads DEF Readers
<1>2. << >> \in Seq(1 .. Len(ledger')) /\ Len(<< >>) = 0
  OBVIOUS
<1>3. Len(ledger') \in Nat /\ MaxPages \in Nat
  BY DailyDigestAssumption DEF DailyDigestAssumption
<1>4. Passed(<< >>, 0, Len(ledger'))
  BY DEF Passed
<1>5. /\ reader'.stage # "count" /\ reader'.stage # "fetch"
      /\ Len(reader'.rows) = 0 /\ reader'.rows \in Seq(1 .. Len(ledger'))
      /\ Passed(reader'.rows, reader'.base, Len(ledger'))
  BY <1>1, <1>2, <1>4
<1> QED
  BY <1>1, <1>3, <1>5 DEF ReaderInv

(* Every query of _read_events() keeps the reader's invariant. *)
LEMMA ReaderStep ==
  ASSUME ledger \in Seq(Kinds), ReaderInv, Read
  PROVE  ReaderInv'
<1> DEFINE size == Len(ledger)
<1>1. /\ size \in Nat /\ MaxPages \in Nat \ {0} /\ reader \in Readers
      /\ ledger' = ledger
  BY DailyDigestAssumption DEF DailyDigestAssumption, ReaderInv, Read, ledgerVars
<1>2. CASE BeginRead
  <2>1. /\ reader.stage = "idle" /\ reader' = [reader EXCEPT !.stage = "count", !.base = size]
        /\ reader.rows = << >> /\ reader.pages = 0
    BY <1>2 DEF BeginRead, ReaderInv
  <2>2. /\ reader' \in Readers /\ reader'.stage = "count" /\ reader'.base = size
        /\ reader'.rows = << >> /\ reader'.pages = 0 /\ reader'.total = reader.total
    BY <1>1, <2>1 DEF Readers
  <2>3. Passed(<< >>, size, size)
    BY <1>1 DEF Passed
  <2>4. << >> \in Seq(1 .. size) /\ Len(<< >>) = 0
    OBVIOUS
  <2> QED
    BY <1>1, <2>2, <2>3, <2>4 DEF ReaderInv
<1>3. CASE CountRows
  <2>1. /\ reader.stage = "count" /\ reader' = [reader EXCEPT !.stage = "fetch", !.total = size]
    BY <1>3 DEF CountRows
  <2>2. /\ reader' \in Readers /\ reader'.stage = "fetch" /\ reader'.base = reader.base
        /\ reader'.rows = reader.rows /\ reader'.pages = reader.pages /\ reader'.total = size
    BY <1>1, <2>1 DEF Readers
  <2> QED
    BY <1>1, <2>1, <2>2 DEF ReaderInv
<1>4. CASE FetchPage
  <2>1. \/ reader' = [NoReader EXCEPT !.stage = "SUCCESS"]
        \/ reader' = [NoReader EXCEPT !.stage = "READ_CAP_REACHED"]
        \/ /\ reader.pages + 1 # MaxPages
           /\ reader' = [reader EXCEPT !.stage = "count", !.pages = @ + 1,
                                       !.rows = @ \o Page]
    BY <1>4 DEF FetchPage
  <2>2. CASE /\ reader.pages + 1 # MaxPages
             /\ reader' = [reader EXCEPT !.stage = "count", !.pages = @ + 1,
                                         !.rows = @ \o Page]
    <3> DEFINE rows == reader.rows \o Page
               pages == reader.pages + 1
    <3>1. /\ rows \in Seq(1 .. size) /\ Len(rows) <= size
          /\ Passed(rows, reader.base, size)
      BY PagePasses, PageRead
    <3>2. reader.pages < MaxPages /\ reader.stage = "fetch"
      BY <1>4 DEF FetchPage, ReaderInv
    <3>3. pages \in Nat /\ pages < MaxPages
      BY <1>1, <2>2, <3>2 DEF Readers
    <3>4. rows \in Seq(Nat)
      <4>1. 1 .. size \subseteq Nat
        OBVIOUS
      <4> HIDE DEF rows
      <4> QED
        BY <3>1, <4>1, SeqMonotonic
    <3>5. reader' = [reader EXCEPT !.stage = "count", !.pages = pages, !.rows = rows]
      BY <2>2
    <3> HIDE DEF rows, pages
    <3>6. /\ reader' \in Readers /\ reader'.stage = "count" /\ reader'.base = reader.base
          /\ reader'.rows = rows /\ reader'.pages = pages /\ reader'.total = reader.total
      BY <1>1, <3>3, <3>4, <3>5 DEF Readers
    <3> QED
      BY <1>1, <3>1, <3>3, <3>6 DEF ReaderInv
  <2> QED
    BY <1>1, <2>1, <2>2, ReaderEnded
<1>5. CASE ReadRaises
  BY <1>1, <1>5, ReaderEnded DEF ReadRaises
<1> QED
  BY <1>2, <1>3, <1>4, <1>5 DEF Read

DigestInv == LedgerTypeOK /\ Lifecycle /\ ReaderInv

(* The digest's invariant holds initially. *)
LEMMA DigestStarts == DigestInit => DigestInv
<1> SUFFICES ASSUME DigestInit PROVE DigestInv
  OBVIOUS
<1>1. LedgerTypeOK /\ Lifecycle
  BY LedgerStarts DEF DigestInit
<1>2. reader = NoReader /\ ledger \in Seq(Kinds)
  BY <1>1 DEF DigestInit, LedgerTypeOK
<1>3. /\ << >> \in Seq(1 .. Len(ledger)) /\ Len(<< >>) = 0 /\ Len(ledger) \in Nat
      /\ MaxPages \in Nat
  BY <1>2, DailyDigestAssumption DEF DailyDigestAssumption
<1>4. Passed(<< >>, 0, Len(ledger))
  BY DEF Passed
<1>5. ReaderInv
  BY <1>2, <1>3, <1>4, NoReaderReads DEF ReaderInv
<1> QED
  BY <1>1, <1>5 DEF DigestInv

(* Every step of agent and digest keeps it. *)
LEMMA DigestStep == DigestInv /\ [DigestNext]_digestVars => DigestInv'
<1> SUFFICES ASSUME DigestInv, [DigestNext]_digestVars PROVE DigestInv'
  OBVIOUS
<1>1. [LedgerNext]_ledgerVars
  BY DigestMovesLedger
<1>2. LedgerTypeOK' /\ Lifecycle' /\ Len(ledger) <= Len(ledger')
  BY <1>1, LedgerStep, LedgerGrows DEF DigestInv
<1>3. ledger \in Seq(Kinds) /\ ledger' \in Seq(Kinds) /\ ReaderInv
  BY <1>2 DEF DigestInv, LedgerTypeOK
<1>4. CASE Read
  BY <1>2, <1>3, <1>4, ReaderStep DEF DigestInv
<1>5. CASE reader' = reader
  BY <1>2, <1>3, <1>5, ReaderWaits DEF DigestInv
<1> QED
  BY <1>4, <1>5 DEF DigestNext, digestVars

(* The ledger's and the reader's records keep their types.                  *)
THEOREM DigestTypeCorrect == DigestSpec => []DigestTypeOK
<1>1. DigestInv => DigestTypeOK
  <2> SUFFICES ASSUME DigestInv PROVE DigestTypeOK
    OBVIOUS
  <2>1. /\ ledger \in Seq(Kinds) /\ Len(ledger) \in Nat /\ DOMAIN ledger = 1 .. Len(ledger)
        /\ MaxPages \in Nat
    BY DailyDigestAssumption DEF DailyDigestAssumption, DigestInv, LedgerTypeOK
  <2> QED
    BY <2>1 DEF DigestInv, DigestTypeOK, ReaderInv, Readers
<1> QED
  BY <1>1, DigestStarts, DigestStep, PTL DEF DigestSpec

(* Rows passed over in a table that grew are at most as many as it grew by. *)
LEMMA CoverCounted ==
  ASSUME NEW base \in Nat, NEW size \in Nat, NEW rows \in Seq(1 .. size),
         base <= Len(rows), Len(rows) <= size, Passed(rows, base, size)
  PROVE  /\ Cardinality((1 .. base) \ ToSet(rows)) <= size - base
         /\ Len(rows) - Cardinality(ToSet(rows)) <= size - base
<1> DEFINE n == Len(rows)
           read == ToSet(rows)
           rest == (1 .. base) \ read
<1>1. n \in Nat /\ DOMAIN rows = 1 .. n /\ \A i \in 1 .. n : rows[i] \in 1 .. size
  OBVIOUS
<1>2. read \subseteq 1 .. size
  BY <1>1 DEF ToSet
<1>3. \A p \in 1 .. base : p > size - n => p \in read
  BY DEF Passed
<1> HIDE DEF n, read
<1>4. rest \subseteq 1 .. size - n
  BY <1>1, <1>3
<1>5. Cardinality(rest) <= size - n
  <2> DEFINE last == size - n
  <2>1. last \in Nat /\ rest \subseteq 1 .. last
    BY <1>1, <1>4 DEF n
  <2> HIDE DEF rest, last
  <2>2. IsFiniteSet(1 .. last) /\ Cardinality(1 .. last) = IF 1 > last THEN 0 ELSE last - 1 + 1
    BY <2>1, FS_Interval
  <2>3. Cardinality(rest) <= Cardinality(1 .. last)
    BY <2>1, <2>2, FS_Subset
  <2> QED
    BY <2>1, <2>2, <2>3 DEF last
<1>6. size - n + 1 .. base \subseteq read
  BY <1>1, <1>3 DEF n
<1>7. Cardinality(read) >= base - (size - n) /\ Cardinality(read) \in Nat
  <2>1. IsFiniteSet(read)
    <3>1. IsFiniteSet(1 .. size)
      BY FS_Interval
    <3> QED
      BY <1>2, <3>1, FS_Subset
  <2>2. Cardinality(read) \in Nat
    BY <2>1, FS_CardinalityType
  <2> DEFINE first == size - n + 1
  <2>3. Cardinality(first .. base) = IF first > base THEN 0 ELSE base - first + 1
    <3>1. first \in Int /\ base \in Int
      BY <1>1
    <3> HIDE DEF first
    <3> QED
      BY <3>1, FS_Interval
  <2>4. Cardinality(first .. base) <= Cardinality(read)
    BY <1>6, <2>1, FS_Subset
  <2> QED
    BY <1>1, <2>2, <2>3, <2>4
<1> QED
  <2> HIDE DEF rest
  <2>1. n - Cardinality(read) <= size - base
    BY <1>1, <1>7
  <2>2. size - n <= size - base
    BY <1>1 DEF n
  <2>3. Cardinality(rest) \in Int
    <3>1. IsFiniteSet(1 .. base)
      BY FS_Interval
    <3>2. IsFiniteSet(rest)
      BY <3>1, FS_Subset DEF rest
    <3> QED
      BY <3>2, FS_CardinalityType
  <2>4. Cardinality(rest) <= size - base
    BY <1>1, <1>5, <2>2, <2>3
  <2> QED
    BY <2>1, <2>4 DEF n, read, rest

(* A digest misses and repeats no more rows than were written while it was  *)
(* read: for pages of any size, and however the writes fall between the     *)
(* count and the fetch of each page.                                        *)
THEOREM DigestReadsAll == DigestSpec => DigestCovers
<1>1. ASSUME DigestInv, Succeeds
      PROVE  /\ Cardinality((1 .. reader.base) \ ToSet(Rows)) <= Len(ledger) - reader.base
             /\ Len(Rows) - Cardinality(ToSet(Rows)) <= Len(ledger) - reader.base
  <2>1. ledger \in Seq(Kinds) /\ ReaderInv /\ reader \in Readers
    BY <1>1 DEF DigestInv, LedgerTypeOK, ReaderInv
  <2>2. /\ Rows \in Seq(1 .. Len(ledger)) /\ Len(Rows) = Len(reader.rows) + Len(Page)
        /\ Passed(Rows, reader.base, Len(ledger))
        /\ Len(Rows) <= Len(ledger)
        /\ Page = << >> => Len(reader.rows) = Len(ledger)
        /\ Len(Page) \in Nat /\ Len(reader.rows) \in Nat /\ Len(ledger) \in Nat
    <3>1. Rows \in Seq(1 .. Len(ledger)) /\ Len(Rows) = Len(reader.rows) + Len(Page)
          /\ Passed(Rows, reader.base, Len(ledger))
      BY <2>1, PagePasses DEF Rows
    <3>2. /\ Page \in Seq(1 .. Len(ledger)) /\ reader.rows \in Seq(1 .. Len(ledger))
          /\ Len(reader.rows) + Len(Page) <= Len(ledger)
          /\ Page = << >> => Len(reader.rows) = Len(ledger)
      BY <2>1, PageRead DEF ReaderInv
    <3>3. Len(Page) \in Nat /\ Len(reader.rows) \in Nat /\ Len(ledger) \in Nat
      BY <2>1, <3>2
    <3> QED
      BY <3>1, <3>2, <3>3
  <2>3. FetchPage /\ reader'.stage = "SUCCESS"
    BY <1>1 DEF Succeeds
  <2>4. ~HasMore \/ Page = << >>
    <3>1. SUFFICES ASSUME HasMore, Page # << >> PROVE FALSE
      OBVIOUS
    <3>2. \/ reader' = [NoReader EXCEPT !.stage = "READ_CAP_REACHED"]
          \/ reader' = [reader EXCEPT !.stage = "count", !.pages = @ + 1, !.rows = @ \o Page]
      BY <2>3, <3>1 DEF FetchPage
    <3>3. reader'.stage \in {"READ_CAP_REACHED", "count"}
      BY <2>1, <3>2, NoReaderReads DEF Readers
    <3> QED
      BY <2>3, <3>3
  <2>5. reader.stage = "fetch" /\ reader.base <= reader.total /\ reader.base <= Len(ledger)
    BY <2>1, <2>3 DEF FetchPage, ReaderInv
  <2>6. reader.base \in Nat /\ reader.total \in Nat
    BY <2>1 DEF Readers
  <2>7. reader.base <= Len(Rows)
    <3>1. CASE Page = << >>
      BY <2>2, <2>5, <2>6, <3>1
    <3>2. CASE ~HasMore
      <4>1. ~(Len(reader.rows) + Len(Page) < reader.total)
        BY <3>2 DEF HasMore, Offset
      <4> QED
        BY <2>2, <2>5, <2>6, <4>1
    <3> QED
      BY <2>4, <3>1, <3>2
  <2> QED
    BY <2>2, <2>6, <2>7, CoverCounted
<1>2. DigestInv /\ [DigestNext]_digestVars =>
        [Succeeds =>
          LET meanwhile == Len(ledger) - reader.base
          IN  /\ Cardinality((1 .. reader.base) \ ToSet(Rows)) <= meanwhile
              /\ Len(Rows) - Cardinality(ToSet(Rows)) <= meanwhile]_digestVars
  BY <1>1
<1> QED
  BY <1>2, DigestStarts, DigestStep, PTL DEF DigestSpec, DigestCovers
==============================================================================
