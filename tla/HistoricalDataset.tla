--------------------------- MODULE HistoricalDataset ---------------------------
(***************************************************************************)
(* HistoricalDatasetBuilder.build() and the files it leaves: one per token *)
(* and day with what could be observed, one per token with its outcome,    *)
(* and a manifest.  Several builds go to one directory; each may fail to   *)
(* read a market, and may be killed at any write, which Path.write_text()  *)
(* begins by truncating the file.                                          *)
(*                                                                         *)
(* The day files keep a bag of timestamps, since their reader sorts them.  *)
(***************************************************************************)
EXTENDS Integers, Sequences, FiniteSets, SequencesExt

CONSTANTS
    Tokens,       \* token ids
    Times, Days,  \* timestamps, and the days they fall on
    DayOf(_),
    Sources,      \* what the history API may have: [sound, snaps] per token
    MaxBuilds     \* bound: builds in a behaviour

ASSUME DatasetAssumption ==
    /\ \A at \in Times : DayOf(at) \in Days
    /\ \A s \in Sources, t \in Tokens :
         /\ s[t].sound \in BOOLEAN
         /\ \A i \in DOMAIN s[t].snaps :
              s[t].snaps[i].at \in Times /\ s[t].snaps[i].good \in BOOLEAN
    /\ MaxBuilds \in Nat

VARIABLES
    source,       \* what the API has; markets are resolved, so it stays
    disk,         \* the output directory
    build,        \* the frame of build() and of its command line
    builds        \* builds so far (bounded)

dataset == <<source, disk, build, builds>>

Absent == [kind |-> "absent", rows |-> EmptyBag]
Torn   == [kind |-> "torn", rows |-> EmptyBag]
NoBuild == [stage |-> "idle", found |-> {}, todo |-> {}, token |-> "none", days |-> {},
            open |-> {}, merged |-> EmptyBag, written |-> 0, skipped |-> 0,
            failed |-> FALSE, exit |-> "none"]

DatasetInit ==
    /\ source \in Sources
    /\ disk = [day |-> [td \in Tokens \X Days |-> Absent], outcomes |-> {},
               manifest |-> [kind |-> "absent", written |-> 0, skipped |-> 0]]
    /\ build = NoBuild /\ builds = 0

At(stage) == build.stage = stage

-------------------------------------------------------------------------------
(* _build_market_record(): a market needs ids and a clear outcome.          *)
Sound(t) == source[t].sound

(* _parse_snapshot(): an observation needs a time, prices and no crossed    *)
(* book.                                                                    *)
Usable(t) == {s \in ToSet(source[t].snaps) : s.good}

(* Of two of one time the second is skipped.                                *)
GoodTimes(t) == {s.at : s \in Usable(t)}
BadRows(t)   == Len(source[t].snaps) - Cardinality(GoodTimes(t))

OfDay(t, d) == {at \in GoodTimes(t) : DayOf(at) = d}

BeginBuild ==
    /\ At("idle") /\ builds < MaxBuilds
    /\ builds' = builds + 1
    /\ build' = [NoBuild EXCEPT !.stage = "discover"]
    /\ UNCHANGED <<source, disk>>

(* fetch_resolved_markets() with its retries: it asks for so many markets   *)
(* of a range of dates, and keeps those that are resolved.                  *)
Discover ==
    /\ At("discover")
    /\ \/ \E found \in SUBSET Tokens :
            build' = [build EXCEPT !.stage = "markets", !.found = found, !.todo = found]
       \/ build' = [NoBuild EXCEPT !.exit = "failed"]
    /\ UNCHANGED <<source, disk, builds>>

SkipMarket(t) ==
    /\ At("markets") /\ t \in build.todo /\ ~Sound(t)
    /\ build' = [build EXCEPT !.todo = @ \ {t}, !.skipped = @ + 1]
    /\ UNCHANGED <<source, disk, builds>>

(* fetch_market_snapshots() raises after its retries.                       *)
SourceFails(t) ==
    /\ At("markets") /\ t \in build.todo /\ Sound(t)
    /\ build' = [build EXCEPT !.todo = @ \ {t}, !.skipped = @ + 1, !.failed = TRUE]
    /\ UNCHANGED <<source, disk, builds>>

(* A market with nothing left after parsing is skipped as a whole.          *)
BuildMarket(t) ==
    /\ At("markets") /\ t \in build.todo /\ Sound(t)
    /\ build' =
         IF GoodTimes(t) = {}
         THEN [build EXCEPT !.todo = @ \ {t}, !.skipped = @ + BadRows(t) + 1]
         ELSE [build EXCEPT !.todo = @ \ {t}, !.skipped = @ + BadRows(t),
                            !.stage = "writing", !.token = t,
                            !.days = {DayOf(at) : at \in GoodTimes(t)}]
    /\ UNCHANGED <<source, disk, builds>>

(* _write_snapshot_files(): what the file holds already stays in front; a   *)
(* file that cannot be parsed counts as empty.                              *)
OpenDay(d) ==
    LET t == build.token IN
    /\ At("writing") /\ d \in build.days
    /\ build' = [build EXCEPT !.stage = "filling", !.days = @ \ {d}, !.open = {d},
                   !.merged = disk.day[<<t, d>>].rows (+) SetToBag(OfDay(t, d))]
    /\ disk' = [disk EXCEPT !.day[<<t, d>>] = Torn]
    /\ UNCHANGED <<source, builds>>

FillDay(d) ==
    LET t == build.token IN
    /\ At("filling") /\ d \in build.open
    /\ disk' = [disk EXCEPT !.day[<<t, d>>] = [kind |-> "json", rows |-> build.merged]]
    /\ build' = [build EXCEPT !.stage = "writing", !.open = {}, !.merged = EmptyBag,
                              !.written = @ + Cardinality(OfDay(t, d))]
    /\ UNCHANGED <<source, builds>>

WriteOutcomes ==
    /\ At("writing") /\ build.days = {}
    /\ disk' = [disk EXCEPT !.outcomes = @ \cup {build.token}]
    /\ build' = [build EXCEPT !.stage = "markets", !.token = "none"]
    /\ UNCHANGED <<source, builds>>

OpenManifest ==
    /\ At("markets") /\ build.todo = {}
    /\ disk' = [disk EXCEPT !.manifest = [kind |-> "torn", written |-> 0, skipped |-> 0]]
    /\ build' = [build EXCEPT !.stage = "manifest"]
    /\ UNCHANGED <<source, builds>>

(* The manifest counts this build only.                                     *)
FillManifest ==
    /\ At("manifest")
    /\ disk' = [disk EXCEPT !.manifest = [kind |-> "json", written |-> build.written,
                                          skipped |-> build.skipped]]
    /\ build' = [NoBuild EXCEPT !.exit = IF build.failed THEN "failed" ELSE "ok",
                                !.found = build.found]
    /\ UNCHANGED <<source, builds>>

BuildKilled ==
    /\ ~At("idle")
    /\ build' = [NoBuild EXCEPT !.exit = "killed"]
    /\ UNCHANGED <<source, disk, builds>>

BuildStep ==
    \/ BeginBuild \/ Discover
    \/ \E t \in Tokens : SkipMarket(t) \/ SourceFails(t) \/ BuildMarket(t)
    \/ \E d \in Days : OpenDay(d) \/ FillDay(d)
    \/ WriteOutcomes \/ OpenManifest \/ FillManifest \/ BuildKilled
===============================================================================
