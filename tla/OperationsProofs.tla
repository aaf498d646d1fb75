---------------------------- MODULE OperationsProofs ----------------------------
(***************************************************************************)
(* Proofs about two tools that stand beside the trading loops: the         *)
(* datasets and replays of a backtest, and the alert bridge.  The two      *)
(* modules have no variable in common and nothing here relates them.       *)
(***************************************************************************)
EXTENDS Backtest, AlertBridge, SequenceTheorems, WellFoundedInduction, TLAPS

-------------------------------------------------------------------------------
(* Historical datasets.                                                     *)
BuildStages == {"idle", "discover", "markets", "writing", "filling", "manifest"}

(* Shapes of the frames and of the directory.                               *)
BuildTyped ==
    /\ build = [stage |-> build.stage, found |-> build.found, todo |-> build.todo,
                token |-> build.token, days |-> build.days, open |-> build.open,
                merged |-> build.merged, written |-> build.written,
                skipped |-> build.skipped, failed |-> build.failed, exit |-> build.exit]
    /\ build.stage \in BuildStages

DiskTyped ==
    /\ disk = [day |-> disk.day, outcomes |-> disk.outcomes, manifest |-> disk.manifest]
    /\ disk.day = [td \in Tokens \X Days |-> disk.day[td]]

ReplayTyped ==
    replay = [stage |-> replay.stage, tool |-> replay.tool, files |-> replay.files,
              owed |-> replay.owed, loaded |-> replay.loaded, seen |-> replay.seen, left |-> replay.left, quality |-> replay.quality,
              verdict |-> replay.verdict]

Writing == At("writing") \/ At("filling")

(* A day file that can be parsed holds all that could be observed on the    *)
(* day, whichever builds wrote it and wherever they were killed.            *)
WholeDays ==
    \A td \in Tokens \X Days :
        /\ disk.day[td].kind \in {"absent", "torn", "json"}
        /\ disk.day[td].kind = "json" =>
              OfDay(td[1], td[2]) \subseteq DOMAIN disk.day[td].rows

(* Some build has begun every file that this market calls for.              *)
Begun(t) == \A at \in GoodTimes(t) : disk.day[<<t, DayOf(at)>>].kind # "absent"

(* The market being written: the files it calls for are begun or still to   *)
(* be opened, and what will be put in the open one is whole.                *)
MarketUnderWay ==
    Writing =>
        /\ build.token \in Tokens
        /\ \A at \in GoodTimes(build.token) :
              \/ DayOf(at) \in build.days
              \/ disk.day[<<build.token, DayOf(at)>>].kind # "absent"
        /\ At("filling") => \A d \in build.open :
              OfDay(build.token, d) \subseteq DOMAIN build.merged

(* What is promised of a market: its outcome is on disk, or this build has  *)
(* found it and dealt with it without a failure, or the last one did and    *)
(* ended well.                                                              *)
Promised(t) ==
    \/ t \in disk.outcomes
    \/ /\ At("idle") /\ build.exit = "ok" /\ t \in build.found /\ Sound(t)
    \/ /\ At("markets") \/ At("manifest") \/ Writing
       /\ ~build.failed /\ Sound(t) /\ t \in build.found \ build.todo
       /\ ~(Writing /\ t = build.token)

DatasetInv ==
    /\ source \in Sources /\ BuildTyped /\ DiskTyped
    /\ WholeDays /\ MarketUnderWay
    /\ \A t \in Tokens : Promised(t) => Begun(t)
    /\ At("manifest") => build.todo = {}

-------------------------------------------------------------------------------
(* What a build may do to the directory.                                    *)
LEMMA OfDayMeans ==
  ASSUME NEW t \in Tokens, NEW at \in GoodTimes(t)
  PROVE  at \in OfDay(t, DayOf(at))
  BY DEF OfDay

(* An observation that is kept has a time and a day. *)
LEMMA GoodTimesTyped ==
  ASSUME DatasetAssumption, source \in Sources, NEW t \in Tokens, NEW at \in GoodTimes(t)
  PROVE  at \in Times /\ DayOf(at) \in Days
<1>1. PICK s \in ToSet(source[t].snaps) : s.good /\ at = s.at
  BY DEF GoodTimes, Usable
<1>2. PICK i \in DOMAIN source[t].snaps : s = source[t].snaps[i]
  BY <1>1 DEF ToSet
<1> QED
  BY <1>1, <1>2 DEF DatasetAssumption

(* The files stay, and so does what is promised of them. *)
LEMMA DiskStays ==
  ASSUME DatasetInv, UNCHANGED <<source, disk>>, BuildTyped', MarketUnderWay',
         \A t \in Tokens : Promised(t)' => Promised(t) \/ Begun(t),
         At("manifest")' => build'.todo = {}
  PROVE  DatasetInv'
<1>1. \A t \in Tokens : Begun(t)' <=> Begun(t)
  BY DEF Begun, GoodTimes, Usable, Sound
<1>2. WholeDays'
  BY DEF DatasetInv, WholeDays, OfDay, GoodTimes, Usable
<1> QED
  BY <1>1, <1>2 DEF DatasetInv, DiskTyped

(* One day file is begun or filled, and none is removed. *)
LEMMA FileWritten ==
  ASSUME DatasetInv, NEW t \in Tokens, NEW d \in Days, NEW f, UNCHANGED source,
         f.kind \in {"torn", "json"},
         f.kind = "json" => OfDay(t, d) \subseteq DOMAIN f.rows,
         disk' = [disk EXCEPT !.day[<<t, d>>] = f]
  PROVE  /\ DiskTyped' /\ WholeDays' /\ disk'.outcomes = disk.outcomes
         /\ disk'.day[<<t, d>>] = f
         /\ \A td \in Tokens \X Days : td # <<t, d>> => disk'.day[td] = disk.day[td]
         /\ \A u \in Tokens : Begun(u) => Begun(u)'
<1>1. <<t, d>> \in Tokens \X Days
  OBVIOUS
<1>2. /\ disk' = [day |-> [disk.day EXCEPT ![<<t, d>>] = f], outcomes |-> disk.outcomes,
                  manifest |-> disk.manifest]
  BY DEF DatasetInv, DiskTyped
<1>3. disk'.day = [disk.day EXCEPT ![<<t, d>>] = f] /\ disk'.outcomes = disk.outcomes
  BY <1>2
<1>4. \A td \in Tokens \X Days :
        disk'.day[td] = IF td = <<t, d>> THEN f ELSE disk.day[td]
  BY <1>1, <1>3 DEF DatasetInv, DiskTyped
<1>5. DiskTyped'
  BY <1>2, <1>3 DEF DatasetInv, DiskTyped
<1>6. \A u, e : OfDay(u, e)' = OfDay(u, e)
  BY DEF OfDay, GoodTimes, Usable
<1>7. WholeDays'
  BY <1>4, <1>6 DEF DatasetInv, WholeDays
<1>8. ASSUME NEW u \in Tokens, Begun(u), NEW at \in GoodTimes(u)
      PROVE  disk'.day[<<u, DayOf(at)>>].kind # "absent"
  <2>1. CASE <<u, DayOf(at)>> = <<t, d>>
    BY <1>1, <1>4, <2>1
  <2>2. CASE <<u, DayOf(at)>> # <<t, d>>
    <3>1. disk'.day[<<u, DayOf(at)>>] = disk.day[<<u, DayOf(at)>>]
      BY <1>3, <2>2 DEF DatasetInv, DiskTyped
    <3> QED
      BY <1>8, <3>1 DEF Begun
  <2> QED
    BY <2>1, <2>2
<1>9. \A u \in Tokens : GoodTimes(u)' = GoodTimes(u)
  BY DEF GoodTimes, Usable
<1> QED
  BY <1>1, <1>3, <1>4, <1>5, <1>7, <1>8, <1>9 DEF Begun

(* write_text() truncates a day file: until it is filled it is torn. *)
LEMMA OpenDayKeeps ==
  ASSUME DatasetAssumption, DatasetInv, NEW d \in Days, OpenDay(d)
  PROVE  DatasetInv'
<1> DEFINE t == build.token
           m == disk.day[<<t, d>>].rows (+) SetToBag(OfDay(t, d))
<1>1. /\ At("writing") /\ t \in Tokens /\ d \in build.days
      /\ build' = [build EXCEPT !.stage = "filling", !.days = build.days \ {d},
                     !.open = {d}, !.merged = m]
      /\ disk' = [disk EXCEPT !.day[<<t, d>>] = Torn]
      /\ UNCHANGED source
  BY DEF OpenDay, DatasetInv, MarketUnderWay, Writing
<1>2. OfDay(t, d) \subseteq DOMAIN m
  BY DEF (+), SetToBag
<1> HIDE DEF m
<1>3. /\ BuildTyped' /\ build'.stage = "filling" /\ build'.days = build.days \ {d}
      /\ build'.open = {d} /\ build'.merged = m /\ build'.token = t
      /\ build'.failed = build.failed /\ build'.found = build.found /\ build'.todo = build.todo
  BY <1>1 DEF DatasetInv, BuildTyped, BuildStages
<1>4. /\ DiskTyped' /\ WholeDays' /\ disk'.outcomes = disk.outcomes
      /\ disk'.day[<<t, d>>] = Torn
      /\ \A td \in Tokens \X Days : td # <<t, d>> => disk'.day[td] = disk.day[td]
      /\ \A u \in Tokens : Begun(u) => Begun(u)'
  <2>1. Torn.kind = "torn"
    BY DEF Torn
  <2> QED
    BY <1>1, <2>1, FileWritten
<1>5. GoodTimes(t)' = GoodTimes(t) /\ OfDay(t, d)' = OfDay(t, d)
  BY <1>1 DEF GoodTimes, Usable, OfDay
<1>6. MarketUnderWay'
  <2>1. ASSUME NEW at \in GoodTimes(t)
        PROVE  DayOf(at) \in build.days \ {d} \/ disk'.day[<<t, DayOf(at)>>].kind # "absent"
    <3>1. CASE DayOf(at) = d
      BY <1>4, <3>1 DEF Torn
    <3>2. CASE DayOf(at) # d
      <4>1. DayOf(at) \in Days
        BY <1>1, GoodTimesTyped DEF DatasetInv
      <4>2. disk'.day[<<t, DayOf(at)>>] = disk.day[<<t, DayOf(at)>>]
        BY <1>1, <1>4, <3>2, <4>1
      <4>3. DayOf(at) \in build.days \/ disk.day[<<t, DayOf(at)>>].kind # "absent"
        BY <1>1 DEF DatasetInv, MarketUnderWay, Writing
      <4> QED
        BY <3>2, <4>2, <4>3
    <3> QED
      BY <3>1, <3>2
  <2> QED
    BY <1>1, <1>2, <1>3, <1>5, <2>1 DEF MarketUnderWay
<1>7. ASSUME NEW u \in Tokens, Promised(u)' PROVE Begun(u)'
  <2>1. Promised(u)
    BY <1>1, <1>3, <1>4, <1>7 DEF Promised, Writing, At, Sound
  <2> QED
    BY <1>4, <2>1 DEF DatasetInv
<1> QED
  BY <1>1, <1>3, <1>4, <1>6, <1>7 DEF DatasetInv, At

(* A day file that has been filled is whole. *)
LEMMA FillDayKeeps ==
  ASSUME DatasetAssumption, DatasetInv, NEW d \in Days, FillDay(d)
  PROVE  DatasetInv'
<1> DEFINE t == build.token
           f == [kind |-> "json", rows |-> build.merged]
           n == build.written + Cardinality(OfDay(t, d))
<1>1. /\ At("filling") /\ t \in Tokens /\ d \in build.open
      /\ build' = [build EXCEPT !.stage = "writing", !.open = {}, !.merged = EmptyBag,
                                !.written = n]
      /\ disk' = [disk EXCEPT !.day[<<t, d>>] = f]
      /\ UNCHANGED source
  BY DEF FillDay, DatasetInv, MarketUnderWay, Writing
<1>2. f.kind = "json" /\ OfDay(t, d) \subseteq DOMAIN f.rows
  BY <1>1 DEF DatasetInv, MarketUnderWay, Writing
<1> HIDE DEF f, n
<1>3. /\ BuildTyped' /\ build'.stage = "writing" /\ build'.days = build.days
      /\ build'.token = t /\ build'.todo = build.todo
      /\ build'.failed = build.failed /\ build'.found = build.found
  BY <1>1 DEF DatasetInv, BuildTyped, BuildStages
<1>4. /\ DiskTyped' /\ WholeDays' /\ disk'.outcomes = disk.outcomes
      /\ disk'.day[<<t, d>>] = f
      /\ \A td \in Tokens \X Days : td # <<t, d>> => disk'.day[td] = disk.day[td]
      /\ \A u \in Tokens : Begun(u) => Begun(u)'
  BY <1>1, <1>2, FileWritten
<1>5. GoodTimes(t)' = GoodTimes(t)
  BY <1>1 DEF GoodTimes, Usable
<1>6. MarketUnderWay'
  <2>1. ASSUME NEW at \in GoodTimes(t)
        PROVE  DayOf(at) \in build.days \/ disk'.day[<<t, DayOf(at)>>].kind # "absent"
    <3>1. DayOf(at) \in Days
      BY <1>1, GoodTimesTyped DEF DatasetInv
    <3>2. CASE DayOf(at) = d
      BY <1>2, <1>4, <3>2
    <3>3. CASE DayOf(at) # d
      <4>1. disk'.day[<<t, DayOf(at)>>] = disk.day[<<t, DayOf(at)>>]
        BY <1>1, <1>4, <3>1, <3>3
      <4> QED
        BY <1>1, <4>1 DEF DatasetInv, MarketUnderWay, Writing
    <3> QED
      BY <3>2, <3>3
  <2> QED
    BY <1>1, <1>3, <1>5, <2>1 DEF MarketUnderWay, At
<1>7. ASSUME NEW u \in Tokens, Promised(u)' PROVE Begun(u)'
  <2>1. Promised(u)
    BY <1>1, <1>3, <1>4, <1>7 DEF Promised, Writing, At, Sound
  <2> QED
    BY <1>4, <2>1 DEF DatasetInv
<1> QED
  BY <1>1, <1>3, <1>4, <1>6, <1>7 DEF DatasetInv, At

(* The outcome is written when every file of the market is. *)
LEMMA OutcomeKeeps ==
  ASSUME DatasetInv, WriteOutcomes
  PROVE  DatasetInv'
<1> DEFINE t == build.token
<1>1. /\ At("writing") /\ t \in Tokens /\ build.days = {}
      /\ disk' = [disk EXCEPT !.outcomes = disk.outcomes \cup {t}]
      /\ build' = [build EXCEPT !.stage = "markets", !.token = "none"]
      /\ UNCHANGED source
  BY DEF WriteOutcomes, DatasetInv, MarketUnderWay, Writing
<1>2. Begun(t)
  BY <1>1 DEF DatasetInv, MarketUnderWay, Writing, Begun
<1>3. /\ BuildTyped' /\ build'.stage = "markets" /\ build'.todo = build.todo
      /\ build'.failed = build.failed /\ build'.found = build.found
  BY <1>1 DEF DatasetInv, BuildTyped, BuildStages
<1>4. /\ DiskTyped' /\ disk'.day = disk.day /\ disk'.outcomes = disk.outcomes \cup {t}
  BY <1>1 DEF DatasetInv, DiskTyped
<1>5. WholeDays'
  BY <1>1, <1>4 DEF DatasetInv, WholeDays, OfDay, GoodTimes, Usable
<1>6. \A u \in Tokens : Begun(u)' <=> Begun(u)
  BY <1>1, <1>4 DEF Begun, GoodTimes, Usable
<1>7. ASSUME NEW u \in Tokens, Promised(u)' PROVE u = t \/ Promised(u)
  BY <1>1, <1>3, <1>4, <1>7 DEF Promised, Writing, At, Sound
<1>8. MarketUnderWay'
  BY <1>3 DEF MarketUnderWay, Writing, At
<1> QED
  BY <1>1, <1>2, <1>3, <1>4, <1>5, <1>6, <1>7, <1>8 DEF DatasetInv, At

(* What the other steps of a build leave of its frame.  A build that fails  *)
(* somewhere, or is killed, or skips a market with an outcome, promises     *)
(* nothing; a market without a usable observation calls for no file.        *)
LEMMA BuildMarketKeeps ==
  ASSUME DatasetAssumption, DatasetInv, NEW t \in Tokens, BuildMarket(t)
  PROVE  DatasetInv'
<1> DEFINE n == build.skipped + BadRows(t) + 1
           k == build.skipped + BadRows(t)
           days == {DayOf(at) : at \in GoodTimes(t)}
<1>1. At("markets") /\ t \in build.todo /\ Sound(t) /\ UNCHANGED <<source, disk>>
  BY DEF BuildMarket
<1>2. CASE GoodTimes(t) = {}
  <2>1. build' = [build EXCEPT !.todo = build.todo \ {t}, !.skipped = n]
    BY <1>2 DEF BuildMarket
  <2> HIDE DEF n
  <2>2. /\ BuildTyped' /\ build'.stage = "markets" /\ build'.todo = build.todo \ {t}
        /\ build'.failed = build.failed /\ build'.found = build.found
    BY <1>1, <2>1 DEF DatasetInv, BuildTyped, At
  <2>3. Begun(t)
    BY <1>2 DEF Begun
  <2>4. ASSUME NEW u \in Tokens, Promised(u)' PROVE Promised(u) \/ Begun(u)
    BY <1>1, <2>2, <2>3, <2>4 DEF Promised, At, Writing, Sound
  <2>5. MarketUnderWay'
    BY <2>2 DEF MarketUnderWay, Writing, At
  <2> QED
    BY <1>1, <2>2, <2>4, <2>5, DiskStays DEF At
<1>3. CASE GoodTimes(t) # {}
  <2>1. build' = [build EXCEPT !.todo = build.todo \ {t}, !.skipped = k,
                    !.stage = "writing", !.token = t, !.days = days]
    BY <1>3 DEF BuildMarket
  <2>2. \A at \in GoodTimes(t) : DayOf(at) \in days
    OBVIOUS
  <2> HIDE DEF k, days
  <2>3. /\ BuildTyped' /\ build'.stage = "writing" /\ build'.todo = build.todo \ {t}
        /\ build'.token = t /\ build'.days = days
        /\ build'.failed = build.failed /\ build'.found = build.found
    BY <1>1, <2>1 DEF DatasetInv, BuildTyped, BuildStages
  <2>4. ASSUME NEW u \in Tokens, Promised(u)' PROVE Promised(u) \/ Begun(u)
    BY <1>1, <2>3, <2>4 DEF Promised, At, Writing, Sound
  <2>5. MarketUnderWay'
    <3>1. GoodTimes(t)' = GoodTimes(t)
      BY <1>1 DEF GoodTimes, Usable
    <3> QED
      BY <2>2, <2>3, <3>1 DEF MarketUnderWay, At
  <2> QED
    BY <1>1, <2>3, <2>4, <2>5, DiskStays DEF At
<1> QED
  BY <1>2, <1>3

(* A market that is unsound, or whose source fails, leaves the files alone. *)
LEMMA MarketPassedOver ==
  ASSUME DatasetInv, NEW t \in Tokens, SkipMarket(t) \/ SourceFails(t)
  PROVE  DatasetInv'
<1> DEFINE n == build.skipped + 1
<1>1. At("markets") /\ UNCHANGED <<source, disk>>
  BY DEF SkipMarket, SourceFails
<1>2. /\ BuildTyped' /\ build'.stage = "markets" /\ build'.todo = build.todo \ {t}
      /\ build'.found = build.found
      /\ \/ build'.failed
         \/ build'.failed = build.failed /\ ~Sound(t)
  <2>1. CASE SkipMarket(t)
    <3>1. build' = [build EXCEPT !.todo = build.todo \ {t}, !.skipped = n] /\ ~Sound(t)
      BY <2>1 DEF SkipMarket
    <3> HIDE DEF n
    <3> QED
      BY <1>1, <3>1 DEF DatasetInv, BuildTyped, At
  <2>2. CASE SourceFails(t)
    <3>1. build' = [build EXCEPT !.todo = build.todo \ {t}, !.skipped = n, !.failed = TRUE]
      BY <2>2 DEF SourceFails
    <3> HIDE DEF n
    <3> QED
      BY <1>1, <3>1 DEF DatasetInv, BuildTyped, At
  <2> QED
    BY <2>1, <2>2
<1>3. ASSUME NEW u \in Tokens, Promised(u)' PROVE Promised(u)
  BY <1>1, <1>2, <1>3 DEF Promised, At, Writing, Sound
<1>4. MarketUnderWay'
  BY <1>2 DEF MarketUnderWay, Writing, At
<1> QED
  BY <1>1, <1>2, <1>3, <1>4, DiskStays DEF At

(* The manifest is written after all of the day files. *)
LEMMA ManifestKeeps ==
  ASSUME DatasetInv, OpenManifest \/ FillManifest
  PROVE  DatasetInv'
<1>1. UNCHANGED source /\ \E m : disk' = [disk EXCEPT !.manifest = m]
  BY DEF OpenManifest, FillManifest
<1>2. DiskTyped' /\ disk'.day = disk.day /\ disk'.outcomes = disk.outcomes
  BY <1>1 DEF DatasetInv, DiskTyped
<1>3. WholeDays' /\ \A u \in Tokens : Begun(u)' <=> Begun(u)
  BY <1>1, <1>2 DEF DatasetInv, WholeDays, OfDay, GoodTimes, Usable, Begun
<1>4. CASE OpenManifest
  <2>1. /\ At("markets") /\ build.todo = {} /\ BuildTyped' /\ build'.stage = "manifest"
        /\ build'.todo = {} /\ build'.failed = build.failed /\ build'.found = build.found
    BY <1>4 DEF OpenManifest, DatasetInv, BuildTyped, BuildStages
  <2>2. ASSUME NEW u \in Tokens, Promised(u)' PROVE Promised(u)
    BY <1>1, <1>2, <2>1, <2>2 DEF Promised, At, Writing, Sound
  <2> QED
    BY <1>1, <1>2, <1>3, <2>1, <2>2 DEF DatasetInv, MarketUnderWay, Writing, At
<1>5. CASE FillManifest
  <2>1. At("manifest") /\ build.todo = {}
    BY <1>5 DEF FillManifest, DatasetInv
  <2>2. build' = [NoBuild EXCEPT !.exit = IF build.failed THEN "failed" ELSE "ok",
                                 !.found = build.found]
    BY <1>5 DEF FillManifest
  <2>3. /\ BuildTyped' /\ build'.stage = "idle" /\ build'.found = build.found
        /\ build'.exit = "ok" => ~build.failed
    BY <2>2 DEF NoBuild, BuildTyped, BuildStages
  <2>4. ASSUME NEW u \in Tokens, Promised(u)' PROVE Promised(u)
    BY <1>1, <1>2, <2>1, <2>3, <2>4 DEF Promised, At, Writing, Sound
  <2> QED
    BY <1>1, <1>2, <1>3, <2>3, <2>4 DEF DatasetInv, MarketUnderWay, Writing, At
<1> QED
  BY <1>4, <1>5

(* Every step of a build keeps the dataset's invariant. *)
LEMMA BuildStepKeeps ==
  ASSUME DatasetAssumption, DatasetInv, BuildStep
  PROVE  DatasetInv'
<1>1. CASE BeginBuild \/ Discover \/ BuildKilled
  <2>1. UNCHANGED <<source, disk>>
    BY <1>1 DEF BeginBuild, Discover, BuildKilled
  <2>2. /\ BuildTyped'
        /\ \/ build'.stage = "discover"
           \/ build'.stage = "markets" /\ build'.todo = build'.found
           \/ build'.stage = "idle" /\ build'.exit # "ok"
    <3>1. CASE BeginBuild
      BY <3>1 DEF BeginBuild, NoBuild, BuildTyped, BuildStages
    <3>2. CASE Discover
      BY <3>2 DEF Discover, NoBuild, DatasetInv, BuildTyped, BuildStages
    <3>3. CASE BuildKilled
      BY <3>3 DEF BuildKilled, NoBuild, BuildTyped, BuildStages
    <3> QED
      BY <1>1, <3>1, <3>2, <3>3
  <2>3. ASSUME NEW u \in Tokens, Promised(u)' PROVE Promised(u)
    BY <2>1, <2>2, <2>3 DEF Promised, At, Writing
  <2>4. MarketUnderWay' /\ ~At("manifest")'
    BY <2>2 DEF MarketUnderWay, Writing, At
  <2> QED
    BY <2>1, <2>2, <2>3, <2>4, DiskStays
<1>2. ASSUME NEW t \in Tokens, SkipMarket(t) \/ SourceFails(t) \/ BuildMarket(t)
      PROVE  DatasetInv'
  BY <1>2, MarketPassedOver, BuildMarketKeeps
<1>3. ASSUME NEW d \in Days, OpenDay(d) \/ FillDay(d) PROVE DatasetInv'
  BY <1>3, OpenDayKeeps, FillDayKeeps
<1>4. CASE WriteOutcomes \/ OpenManifest \/ FillManifest
  BY <1>4, OutcomeKeeps, ManifestKeeps
<1> QED
  BY <1>1, <1>2, <1>3, <1>4 DEF BuildStep

(* The empty directory satisfies it. *)
LEMMA DatasetInitially == DatasetAssumption /\ DatasetInit => DatasetInv
<1> SUFFICES ASSUME DatasetInit PROVE DatasetInv
  OBVIOUS
<1>1. /\ disk.day = [td \in Tokens \X Days |-> Absent] /\ disk.outcomes = {}
      /\ build = NoBuild /\ source \in Sources
  BY DEF DatasetInit
<1>2. BuildTyped /\ At("idle") /\ build.exit = "none"
  BY <1>1 DEF NoBuild, BuildTyped, BuildStages, At
<1>3. DiskTyped
  BY DEF DatasetInit, DiskTyped
<1>4. WholeDays
  BY <1>1 DEF WholeDays, Absent
<1>5. MarketUnderWay /\ \A t \in Tokens : ~Promised(t)
  BY <1>1, <1>2 DEF MarketUnderWay, Promised, Writing, At
<1> QED
  BY <1>1, <1>2, <1>3, <1>4, <1>5 DEF DatasetInv, At

(* Steps that leave the dataset alone keep it. *)
LEMMA DatasetUnchanged ==
  ASSUME DatasetInv, UNCHANGED dataset
  PROVE  DatasetInv'
<1>1. UNCHANGED <<source, disk, build>>
  BY DEF dataset
<1>2. BuildTyped' /\ MarketUnderWay' /\ (At("manifest")' => build'.todo = {})
  BY <1>1 DEF DatasetInv, BuildTyped, MarketUnderWay, Writing, At, OfDay, GoodTimes, Usable
<1>3. \A t \in Tokens : Promised(t)' => Promised(t)
  BY <1>1 DEF Promised, Writing, At, Sound
<1> QED
  BY <1>1, <1>2, <1>3, DiskStays

(* The readers leave the dataset alone, and keep the shape of their frame.  *)
Reads ==
    \/ BeginValidation \/ BeginComparison \/ ListFiles \/ EndCount \/ ReadManifest \/ EndLoad
    \/ \E td \in Tokens \X Days : ReadFile(td)
    \/ ReplayStep \/ WriteReport \/ EndReplay

(* A replay only reads. *)
LEMMA ReaderKeeps ==
  ASSUME ReplayTyped, Reads
  PROVE  UNCHANGED dataset /\ ReplayTyped'
<1>a. ASSUME NEW v, Report(v) PROVE ReplayTyped'
  BY <1>a DEF Report, ReplayTyped
<1>1. CASE BeginValidation \/ BeginComparison \/ EndReplay
  BY <1>1 DEF BeginValidation, BeginComparison, EndReplay, NoReplay, ReplayTyped
<1>2. CASE ListFiles
  <2> DEFINE f == Files
             o == Owed
  <2>1. /\ replay' = [replay EXCEPT !.stage = IF In("count") THEN "counting" ELSE "loading",
                                    !.files = f, !.owed = o]
        /\ UNCHANGED dataset
    BY <1>2 DEF ListFiles
  <2> HIDE DEF f, o
  <2> QED
    BY <2>1 DEF ReplayTyped
<1>3. CASE ReadManifest
  <2> DEFINE q == QualitySummary
  <2>1. replay' = [replay EXCEPT !.stage = "load", !.quality = q] /\ UNCHANGED dataset
    BY <1>3 DEF ReadManifest
  <2> HIDE DEF q
  <2> QED
    BY <2>1 DEF ReplayTyped
<1>4. ASSUME NEW td \in Tokens \X Days, ReadFile(td) PROVE UNCHANGED dataset /\ ReplayTyped'
  <2> DEFINE r == replay.seen \cup RowsOf(td)
             n == replay.left + BagCardinality(disk.day[td].rows)
  <2>1. /\ \/ replay' = [replay EXCEPT !.files = replay.files \ {td}, !.seen = r, !.left = n]
           \/ \E v : Report(v)
        /\ UNCHANGED dataset
    BY <1>4 DEF ReadFile
  <2> HIDE DEF n, r
  <2> QED
    BY <2>1, <1>a DEF ReplayTyped
<1>5. CASE ReplayStep
  <2>1. CASE NextRow
    <3> DEFINE n == replay.left - 1
    <3>1. replay' = [replay EXCEPT !.left = n] /\ UNCHANGED dataset
      BY <2>1 DEF NextRow
    <3> HIDE DEF n
    <3> QED
      BY <3>1 DEF ReplayTyped
  <2>2. CASE Abort
    BY <2>2, <1>a DEF Abort
  <2> QED
    BY <1>5, <2>1, <2>2 DEF ReplayStep, Hold, Unused, Rejected, Held, Trade
<1>6. CASE WriteReport
  <2>1. (\E v : Report(v)) /\ UNCHANGED dataset
    BY <1>6 DEF WriteReport
  <2> QED
    BY <2>1, <1>a
<1>7. CASE EndCount \/ EndLoad
  BY <1>7 DEF EndCount, EndLoad, ReplayTyped
<1> QED
  BY <1>1, <1>2, <1>3, <1>4, <1>5, <1>6, <1>7 DEF Reads

(* While the files are read, what is owed has been read or is in a file     *)
(* that is still to be read.                                                *)
Got(t) ==
    \A at \in GoodTimes(t) :
        <<t, at>> \in replay.seen \/ <<t, DayOf(at)>> \in replay.files

ReadInv ==
    /\ replay.owed \subseteq Tokens
    /\ In("counting") \/ In("loading") \/ In("replay") => \A t \in replay.owed : Got(t)
    /\ In("replay") => replay.files = {}

(* Every day file that is owed is there to be listed. *)
LEMMA FilesListed ==
  ASSUME DatasetAssumption, DatasetInv, ReplayTyped, ListFiles
  PROVE  ReadInv'
<1> DEFINE f == Files
           o == Owed
<1>1. /\ replay' = [replay EXCEPT !.stage = IF In("count") THEN "counting" ELSE "loading",
                                  !.files = f, !.owed = o]
      /\ UNCHANGED dataset
  BY DEF ListFiles
<1>2. o \subseteq Tokens /\ \A t \in o : Begun(t)
  BY DEF Owed, DatasetInv, Promised
<1>3. ASSUME NEW t \in o, NEW at \in GoodTimes(t) PROVE <<t, DayOf(at)>> \in f
  <2>1. t \in Tokens /\ DayOf(at) \in Days
    BY <1>2, <1>3, GoodTimesTyped DEF DatasetInv
  <2>2. disk.day[<<t, DayOf(at)>>].kind # "absent"
    BY <1>2, <1>3 DEF Begun
  <2> QED
    BY <2>1, <2>2 DEF Files
<1> HIDE DEF f, o
<1>4. /\ replay'.files = f /\ replay'.owed = o
      /\ replay'.stage \in {"counting", "loading"}
  BY <1>1 DEF ReplayTyped
<1>5. \A t : GoodTimes(t)' = GoodTimes(t)
  BY <1>1 DEF dataset, GoodTimes, Usable
<1> QED
  BY <1>2, <1>3, <1>4, <1>5 DEF ReadInv, Got, In

(* A file that can be read is whole, whichever build has written it by then. *)
LEMMA FileRead ==
  ASSUME DatasetAssumption, DatasetInv, ReplayTyped, ReadInv,
         NEW td \in Tokens \X Days, ReadFile(td)
  PROVE  ReadInv'
<1>1. UNCHANGED dataset /\ td \in replay.files /\ (In("counting") \/ In("loading"))
  BY DEF ReadFile
<1>2. \A t : GoodTimes(t)' = GoodTimes(t)
  BY <1>1 DEF dataset, GoodTimes, Usable
<1>3. CASE \E v : Report(v)
  <2>1. replay'.stage = "done" /\ replay'.owed = replay.owed
    BY <1>3 DEF Report, ReplayTyped
  <2> QED
    BY <2>1 DEF ReadInv, In
<1>4. CASE ~\E v : Report(v)
  <2> DEFINE r == RowsOf(td)
             n == replay.left + BagCardinality(disk.day[td].rows)
  <2>1. /\ Readable(td)
        /\ replay' = [replay EXCEPT !.files = replay.files \ {td},
                                    !.seen = replay.seen \cup r, !.left = n]
    BY <1>4 DEF ReadFile
  <2>2. ASSUME NEW t \in Tokens, NEW at \in GoodTimes(t), <<t, DayOf(at)>> = td
        PROVE  <<t, at>> \in r
    <3>1. disk.day[td].kind = "json" /\ td[1] = t /\ td[2] = DayOf(at)
      BY <2>1, <2>2 DEF Readable
    <3>2. OfDay(t, DayOf(at)) \subseteq DOMAIN disk.day[td].rows
      BY <3>1 DEF DatasetInv, WholeDays
    <3>3. at \in DOMAIN disk.day[td].rows
      BY <3>2, OfDayMeans
    <3> QED
      BY <3>1, <3>3 DEF RowsOf
  <2> HIDE DEF r, n
  <2>3. /\ replay'.files = replay.files \ {td} /\ replay'.seen = replay.seen \cup r
        /\ replay'.owed = replay.owed /\ replay'.stage = replay.stage
    BY <2>1 DEF ReplayTyped
  <2>4. ASSUME NEW t \in replay.owed PROVE Got(t)'
    BY <1>1, <1>2, <2>2, <2>3, <2>4 DEF ReadInv, Got
  <2> QED
    BY <1>1, <2>3, <2>4 DEF ReadInv, In
<1> QED
  BY <1>3, <1>4

(* A reader's other steps. *)
LEMMA ReadGoesOn ==
  ASSUME DatasetAssumption, DatasetInv, ReplayTyped, ReadInv, Reads
  PROVE  ReadInv'
<1>1. UNCHANGED dataset
  BY ReaderKeeps
<1>2. \A t : GoodTimes(t)' = GoodTimes(t)
  BY <1>1 DEF dataset, GoodTimes, Usable
<1>3. CASE /\ replay'.owed \subseteq Tokens
           /\ replay'.stage \notin {"counting", "loading", "replay"}
  BY <1>3 DEF ReadInv, In
<1>4. CASE /\ UNCHANGED <<replay.owed, replay.seen, replay.files>>
           /\ replay.stage \in {"loading", "replay"} /\ replay'.stage = "replay"
           /\ replay.stage = "loading" => replay.files = {}
  BY <1>2, <1>4 DEF ReadInv, In, Got
<1>a. ASSUME NEW v, Report(v)
      PROVE  replay'.stage = "done" /\ replay'.owed = replay.owed
  BY <1>a DEF Report, ReplayTyped
<1>5. CASE BeginValidation \/ BeginComparison \/ EndReplay
  <2>1. replay'.owed = {} /\ replay'.stage \in {"idle", "count", "load"}
    <3>1. CASE BeginValidation
      BY <3>1 DEF BeginValidation, NoReplay
    <3>2. CASE BeginComparison
      BY <3>2 DEF BeginComparison, NoReplay
    <3>3. CASE EndReplay
      BY <3>3 DEF EndReplay, NoReplay
    <3> QED
      BY <1>5, <3>1, <3>2, <3>3
  <2> QED
    BY <1>3, <2>1
<1>6. CASE ReadManifest
  <2> DEFINE q == QualitySummary
  <2>1. replay' = [replay EXCEPT !.stage = "load", !.quality = q]
    BY <1>6 DEF ReadManifest
  <2> HIDE DEF q
  <2>2. replay'.stage = "load" /\ replay'.owed = replay.owed
    BY <2>1 DEF ReplayTyped
  <2> QED
    BY <1>3, <2>2 DEF ReadInv
<1>7. CASE EndCount
  <2>1. replay'.stage = "manifest" /\ replay'.owed = {}
    BY <1>7 DEF EndCount, ReplayTyped
  <2> QED
    BY <1>3, <2>1
<1>8. CASE EndLoad
  <2>1. /\ replay.stage = "loading" /\ replay.files = {} /\ replay'.stage = "replay"
        /\ UNCHANGED <<replay.owed, replay.seen, replay.files>>
    BY <1>8 DEF EndLoad, In, ReplayTyped
  <2> QED
    BY <1>4, <2>1
<1>9. CASE WriteReport \/ Abort
  <2>1. \E v : Report(v)
    BY <1>9 DEF WriteReport, Abort
  <2> QED
    BY <1>3, <1>a, <2>1 DEF ReadInv
<1>10. CASE NextRow /\ In("replay")
  <2> DEFINE n == replay.left - 1
  <2>1. replay' = [replay EXCEPT !.left = n]
    BY <1>10 DEF NextRow
  <2> HIDE DEF n
  <2>2. /\ replay'.stage = replay.stage
        /\ UNCHANGED <<replay.owed, replay.seen, replay.files>>
    BY <2>1 DEF ReplayTyped
  <2> QED
    BY <1>4, <1>10, <2>2 DEF In
<1>11. ReplayStep => Abort \/ (NextRow /\ In("replay"))
  BY DEF ReplayStep, Hold, Unused, Rejected, Held, Trade, Replaying
<1>12. CASE ListFiles
  BY <1>12, FilesListed
<1>13. ASSUME NEW td \in Tokens \X Days, ReadFile(td) PROVE ReadInv'
  BY <1>13, FileRead
<1> QED
  BY <1>5, <1>6, <1>7, <1>8, <1>9, <1>10, <1>11, <1>12, <1>13 DEF Reads

(* No step breaks it, a build, a kill or a replay. *)
LEMMA DatasetStep ==
  ASSUME DatasetAssumption, DatasetInv, ReplayTyped, ReadInv, [Next]_vars
  PROVE  DatasetInv' /\ ReplayTyped' /\ ReadInv'
<1>1. CASE BuildStep /\ UNCHANGED replay
  <2>1. UNCHANGED source
    BY <1>1 DEF BuildStep, BeginBuild, Discover, SkipMarket, SourceFails, BuildMarket, OpenDay,
       FillDay, WriteOutcomes, OpenManifest, FillManifest, BuildKilled
  <2>2. ReadInv'
    BY <1>1, <2>1 DEF ReadInv, Got, In, GoodTimes, Usable
  <2> QED
    BY <1>1, <2>2, BuildStepKeeps DEF ReplayTyped
<1>2. CASE Reads
  BY <1>2, ReaderKeeps, DatasetUnchanged, ReadGoesOn
<1>3. CASE UNCHANGED vars
  <2>1. UNCHANGED <<dataset, source, replay>>
    BY <1>3 DEF vars, dataset
  <2>2. ReadInv'
    BY <2>1 DEF ReadInv, Got, In, GoodTimes, Usable
  <2> QED
    BY <2>1, <2>2, DatasetUnchanged DEF ReplayTyped
<1> QED
  BY <1>1, <1>2, <1>3 DEF Next, Reads

(* What a replay reads is whole: wherever earlier builds were killed,       *)
(* however the builds that are running interleave with the load, file by    *)
(* file, and whatever the days and the observations are.                    *)
THEOREM Replayed == Spec => []ReplayedAll
<1> DEFINE Inv == DatasetInv /\ ReplayTyped /\ ReadInv
<1>1. Init => Inv
  <2>1. Init => ReplayTyped /\ ReadInv
    BY DEF Init, NoReplay, ReplayTyped, ReadInv, In
  <2> QED
    BY <2>1, DatasetInitially, DatasetAssumption DEF Init
<1>2. Inv /\ [Next]_vars => Inv'
  BY DatasetStep, DatasetAssumption
<1>3. Inv => ReplayedAll
  <2> SUFFICES ASSUME ReadInv, In("replay"), NEW t \in replay.owed, NEW at \in GoodTimes(t)
               PROVE  <<t, at>> \in replay.seen
    BY DEF ReplayedAll
  <2> QED
    BY DEF ReadInv, Got
<1> QED
  BY <1>1, <1>2, <1>3, PTL DEF Spec

-------------------------------------------------------------------------------
(* Running sums, by induction over the naturals with a set in the place of  *)
(* a predicate.                                                             *)
LEMMA LeastNatural ==
  ASSUME NEW T, T \subseteq Nat, T # {}
  PROVE  \E n \in T : \A k \in T : n <= k
<1>1. PICK n \in T : \A k \in T : ~ (<<k, n>> \in OpToRel(<, Nat))
  BY WFMin, NatLessThanWellFounded
<1>2. ASSUME NEW k \in T PROVE ~ (k < n)
  BY <1>1 DEF OpToRel
<1> QED
  BY <1>2

(* A set of naturals with zero and each member's successor is Nat. *)
LEMMA SetInduction ==
  ASSUME NEW T \in SUBSET Nat, 0 \in T, \A n \in T : n + 1 \in T
  PROVE  T = Nat
<1>1. SUFFICES ASSUME Nat \ T # {} PROVE FALSE
  OBVIOUS
<1>2. PICK n \in Nat \ T : \A k \in Nat \ T : n <= k
  BY <1>1, LeastNatural
<1>3. n # 0 /\ n - 1 \in Nat
  BY <1>2
<1>4. n - 1 \in T
  BY <1>2, <1>3
<1> QED
  BY <1>2, <1>3, <1>4

(* g is the curve of the first n trades of s. *)
Point(s, i, before) == IF i = 0 THEN 0 ELSE before + s[i]

Curve(s, n, g) == g = [i \in 0 .. n |-> Point(s, i, g[i - 1])]

(* A sequence of profits has an equity curve of any length. *)
LEMMA CurveExists ==
  ASSUME NEW s
  PROVE  \A n \in Nat : \E g : Curve(s, n, g)
<1> DEFINE T == {n \in Nat : \E g : Curve(s, n, g)}
<1>1. 0 \in T
  <2> DEFINE g == [i \in 0 .. 0 |-> 0]
  <2>1. Curve(s, 0, g)
    BY DEF Curve, Point
  <2> QED
    BY <2>1
<1>2. ASSUME NEW n \in T PROVE n + 1 \in T
  <2>1. PICK g : Curve(s, n, g)
    OBVIOUS
  <2> DEFINE h == [i \in 0 .. n + 1 |->
                     IF i = n + 1 THEN Point(s, i, g[n]) ELSE g[i]]
  <2>2. ASSUME NEW i \in 0 .. n + 1 PROVE h[i] = Point(s, i, h[i - 1])
    <3>1. CASE i = 0
      BY <2>1, <3>1 DEF Curve, Point
    <3>2. CASE i \in 1 .. n
      <4>1. h[i - 1] = g[i - 1] /\ h[i] = g[i]
        BY <3>2
      <4> QED
        BY <2>1, <3>2, <4>1 DEF Curve
    <3>3. CASE i = n + 1
      BY <3>3
    <3> QED
      BY <3>1, <3>2, <3>3
  <2>3. Curve(s, n + 1, h)
    BY <2>2 DEF Curve
  <2> HIDE DEF h
  <2> QED
    BY <2>3
<1> HIDE DEF T
<1>3. T = Nat
  BY <1>1, <1>2, SetInduction DEF T
<1> QED
  BY <1>3 DEF T

Alike(s, t, n) == \A i \in 1 .. n : s[i] = t[i] /\ s[i] \in Int

(* Two lists of trades that begin alike have curves that begin alike, and   *)
(* every point of a curve is a number.                                      *)
LEMMA CurvesAgree ==
  ASSUME NEW n \in Nat, NEW s, NEW t, Alike(s, t, n),
         NEW k \in Nat, NEW m \in Nat, n <= k, n <= m,
         NEW g, Curve(s, k, g), NEW h, Curve(t, m, h)
  PROVE  \A i \in 0 .. n : g[i] = h[i] /\ g[i] \in Int
<1> DEFINE T == {i \in Nat : i <= n => g[i] = h[i] /\ g[i] \in Int}
<1>1. \A i \in 0 .. n : g[i] = Point(s, i, g[i - 1]) /\ h[i] = Point(t, i, h[i - 1])
  BY DEF Curve
<1>2. 0 \in T
  BY <1>1 DEF Point
<1>3. ASSUME NEW i \in T PROVE i + 1 \in T
  <2>1. SUFFICES ASSUME i + 1 <= n PROVE g[i + 1] = h[i + 1] /\ g[i + 1] \in Int
    OBVIOUS
  <2>2. i \in Nat /\ g[i] = h[i] /\ g[i] \in Int
    BY <2>1
  <2>3. g[i + 1] = g[i] + s[i + 1] /\ h[i + 1] = h[i] + t[i + 1]
    <3>1. i + 1 \in 0 .. n /\ i + 1 # 0 /\ (i + 1) - 1 = i
      BY <2>1, <2>2
    <3> QED
      BY <1>1, <3>1 DEF Point
  <2>4. s[i + 1] = t[i + 1] /\ s[i + 1] \in Int
    BY <2>1, <2>2 DEF Alike
  <2> QED
    BY <2>2, <2>3, <2>4
<1> HIDE DEF T
<1>4. T = Nat
  BY <1>2, <1>3, SetInduction DEF T
<1> QED
  BY <1>4 DEF T

(* The greater of two numbers. *)
LEMMA MaxOfTwo ==
  ASSUME NEW a \in Int, NEW b \in Int
  PROVE  /\ Max({a, b}) \in Int /\ Max({a, b}) \in {a, b}
         /\ Max({a, b}) >= a /\ Max({a, b}) >= b
<1>1. \E x \in {a, b} : \A y \in {a, b} : x >= y
  <2>1. CASE a >= b
    BY <2>1
  <2>2. CASE ~ (a >= b)
    BY <2>2
  <2> QED
    BY <2>1, <2>2
<1>2. Max({a, b}) \in {a, b} /\ \A y \in {a, b} : Max({a, b}) >= y
  BY <1>1, Zenon DEF Max
<1> QED
  BY <1>2

(* The points of a curve: the last, the highest, and the deepest fall.      *)
Points(g, n, last, top, fall) ==
    /\ \A i \in 0 .. n : g[i] \in Int /\ g[i] <= top
    /\ \E i \in 0 .. n : g[i] = top
    /\ \A i, j \in 0 .. n : i <= j => g[i] - g[j] <= fall
    /\ \E i, j \in 0 .. n : i <= j /\ g[i] - g[j] = fall
    /\ g[n] = last

Summary(s, last, top, fall) ==
    \E g : Curve(s, Len(s), g) /\ Points(g, Len(s), last, top, fall)

(* One more point: what Booked() computes from the summary so far.          *)
LEMMA PointsExtended ==
  ASSUME NEW n \in Nat, NEW g, NEW h, NEW last, NEW top, NEW fall,
         Points(g, n, last, top, fall),
         \A i \in 0 .. n : h[i] = g[i],
         NEW pnl \in Int, h[n + 1] = last + pnl,
         NEW peak, peak = Max({top, last + pnl}),
         NEW down, down = Max({fall, peak - (last + pnl)})
  PROVE  Points(h, n + 1, last + pnl, peak, down)
<1>1. /\ \A i \in 0 .. n : h[i] \in Int /\ h[i] <= top
      /\ \E i \in 0 .. n : h[i] = top
      /\ \A i, j \in 0 .. n : i <= j => h[i] - h[j] <= fall
      /\ \E i, j \in 0 .. n : i <= j /\ h[i] - h[j] = fall
      /\ h[n] = last
  BY DEF Points
<1>2. last \in Int /\ top \in Int /\ fall \in Int
  <2>1. PICK i \in 0 .. n, j \in 0 .. n : h[i] - h[j] = fall
    BY <1>1
  <2> QED
    BY <1>1, <2>1
<1> DEFINE e == last + pnl
<1>3. e \in Int /\ h[n + 1] = e
  BY <1>2
<1>4. peak \in Int /\ peak \in {top, e} /\ peak >= top /\ peak >= e
  BY <1>2, <1>3, MaxOfTwo
<1>5. down \in Int /\ down \in {fall, peak - e} /\ down >= fall /\ down >= peak - e
  <2>1. peak - e \in Int
    BY <1>3, <1>4
  <2> QED
    BY <1>2, <2>1, MaxOfTwo
<1> HIDE DEF e
<1>6. ASSUME NEW i \in 0 .. n + 1 PROVE h[i] \in Int /\ h[i] <= peak
  BY <1>1, <1>2, <1>3, <1>4
<1>7. \E i \in 0 .. n + 1 : h[i] = peak
  <2>1. CASE peak = e
    BY <1>3, <2>1
  <2>2. CASE peak = top
    <3>1. PICK i \in 0 .. n : h[i] = top
      BY <1>1
    <3> QED
      BY <2>2, <3>1
  <2> QED
    BY <1>4, <2>1, <2>2
<1>8. ASSUME NEW i \in 0 .. n + 1, NEW j \in 0 .. n + 1, i <= j
      PROVE  h[i] - h[j] <= down
  <2>1. CASE j <= n
    <3>1. i \in 0 .. n /\ j \in 0 .. n
      BY <1>8, <2>1
    <3>2. h[i] - h[j] <= fall /\ h[i] \in Int /\ h[j] \in Int
      BY <1>1, <1>8, <3>1
    <3> QED
      BY <1>2, <1>5, <3>2
  <2>2. CASE j = n + 1
    <3>1. h[i] \in Int /\ h[i] <= peak /\ h[j] = e
      BY <1>3, <1>6, <2>2
    <3> QED
      BY <1>3, <1>4, <1>5, <3>1
  <2> QED
    BY <2>1, <2>2
<1>9. \E i, j \in 0 .. n + 1 : i <= j /\ h[i] - h[j] = down
  <2>1. CASE down = fall
    <3>1. PICK i \in 0 .. n, j \in 0 .. n : i <= j /\ h[i] - h[j] = fall
      BY <1>1
    <3> QED
      BY <2>1, <3>1
  <2>2. CASE down = peak - e
    <3>1. PICK i \in 0 .. n + 1 : h[i] = peak
      BY <1>7
    <3> QED
      BY <1>3, <2>2, <3>1
  <2> QED
    BY <1>5, <2>1, <2>2
<1> QED
  BY <1>3, <1>6, <1>7, <1>8, <1>9 DEF Points, e

(* One more trade, and the three numbers stand for the longer history. *)
LEMMA SummaryExtended ==
  ASSUME NEW s \in Seq(Int), NEW pnl \in Int, NEW last, NEW top, NEW fall,
         Summary(s, last, top, fall),
         NEW peak, peak = Max({top, last + pnl}),
         NEW down, down = Max({fall, peak - (last + pnl)})
  PROVE  Summary(Append(s, pnl), last + pnl, peak, down)
<1> DEFINE n == Len(s)
           t == Append(s, pnl)
<1>1. n \in Nat /\ t \in Seq(Int) /\ Len(t) = n + 1 /\ t[n + 1] = pnl
  OBVIOUS
<1>2. Alike(s, t, n)
  BY DEF Alike
<1>3. PICK g : Curve(s, n, g) /\ Points(g, n, last, top, fall)
  BY DEF Summary
<1>4. PICK h : Curve(t, n + 1, h)
  <2>1. n + 1 \in Nat
    BY <1>1
  <2> QED
    BY <2>1, CurveExists
<1> HIDE DEF n, t
<1>5. \A i \in 0 .. n : g[i] = h[i] /\ g[i] \in Int
  <2>1. n <= n /\ n <= n + 1 /\ n + 1 \in Nat
    BY <1>1
  <2> QED
    BY <1>1, <1>2, <1>3, <1>4, <2>1, CurvesAgree, Zenon
<1>6. h[n + 1] = last + pnl
  <2>1. h[n + 1] = Point(t, n + 1, h[(n + 1) - 1])
    BY <1>1, <1>4 DEF Curve
  <2>2. (n + 1) - 1 = n /\ n + 1 # 0
    BY <1>1
  <2>3. h[n] = last
    BY <1>1, <1>3, <1>5 DEF Points
  <2> QED
    BY <1>1, <2>1, <2>2, <2>3 DEF Point
<1>7. \A i \in 0 .. n : h[i] = g[i]
  BY <1>5
<1>8. Points(h, n + 1, last + pnl, peak, down)
  BY <1>1, <1>3, <1>6, <1>7, PointsExtended
<1> QED
  BY <1>1, <1>4, <1>8 DEF Summary, t

(* There is one equity curve of a sequence of profits. *)
LEMMA CurveUnique ==
  ASSUME NEW s \in Seq(Int), NEW g, Curve(s, Len(s), g), NEW h, Curve(s, Len(s), h)
  PROVE  g = h
<1> DEFINE n == Len(s)
<1>1. n \in Nat /\ n <= n
  OBVIOUS
<1>2. Alike(s, s, n)
  BY DEF Alike
<1>3. Curve(s, n, g) /\ Curve(s, n, h)
  OBVIOUS
<1> HIDE DEF n
<1>4. \A i \in 0 .. n : g[i] = h[i] /\ g[i] \in Int
  BY <1>1, <1>2, <1>3, CurvesAgree
<1>5. g = [i \in 0 .. n |-> g[i]] /\ h = [i \in 0 .. n |-> h[i]]
  BY <1>3 DEF Curve
<1> QED
  BY <1>4, <1>5

(* The tally of a replay. *)
TallyTyped ==
    tally = [valid |-> tally.valid, invalid |-> tally.invalid, paid |-> tally.paid,
             pnls |-> tally.pnls, equity |-> tally.equity, peak |-> tally.peak,
             drawdown |-> tally.drawdown]

TallyInv ==
    /\ TallyTyped
    /\ tally.pnls \in Seq(Int)
    /\ Summary(tally.pnls, tally.equity, tally.peak, tally.drawdown)

(* Before the first trade the three numbers stand for no history. *)
LEMMA EmptyTally == tally = NoTally => TallyInv
<1> SUFFICES ASSUME tally = NoTally PROVE TallyInv
  OBVIOUS
<1>1. /\ TallyTyped /\ tally.pnls = << >>
      /\ tally.equity = 0 /\ tally.peak = 0 /\ tally.drawdown = 0
  BY DEF TallyTyped, NoTally
<1>2. PICK g : Curve(<< >>, 0, g)
  BY CurveExists
<1>3. Points(g, 0, 0, 0, 0)
  <2>1. g[0] = 0
    BY <1>2 DEF Curve, Point
  <2> QED
    BY <2>1 DEF Points
<1>4. Summary(<< >>, 0, 0, 0)
  <2>1. Len(<< >>) = 0
    OBVIOUS
  <2> QED
    BY <1>2, <1>3, <2>1 DEF Summary
<1> QED
  BY <1>1, <1>4 DEF TallyInv

(* The same when a replay begins anew. *)
LEMMA EmptyTallyNext == tally' = NoTally => TallyInv'
<1> SUFFICES ASSUME tally' = NoTally PROVE TallyInv'
  OBVIOUS
<1>1. /\ TallyTyped' /\ tally'.pnls = << >>
      /\ tally'.equity = 0 /\ tally'.peak = 0 /\ tally'.drawdown = 0
  BY DEF TallyTyped, NoTally
<1>2. PICK g : Curve(<< >>, 0, g)
  BY CurveExists
<1>3. Points(g, 0, 0, 0, 0)
  <2>1. g[0] = 0
    BY <1>2 DEF Curve, Point
  <2> QED
    BY <2>1 DEF Points
<1>4. Summary(<< >>, 0, 0, 0)
  <2>1. Len(<< >>) = 0
    OBVIOUS
  <2> QED
    BY <1>2, <1>3, <2>1 DEF Summary
<1> QED
  BY <1>1, <1>4 DEF TallyInv

(* What counting a valid decision changes of the tally. *)
LEMMA ValidShape ==
  ASSUME TallyTyped, NEW t, t = Valid(tally)
  PROVE  /\ t = [valid |-> t.valid, invalid |-> t.invalid, paid |-> t.paid,
                 pnls |-> t.pnls, equity |-> t.equity, peak |-> t.peak,
                 drawdown |-> t.drawdown]
         /\ t.pnls = tally.pnls /\ t.equity = tally.equity
         /\ t.peak = tally.peak /\ t.drawdown = tally.drawdown
  BY DEF Valid, TallyTyped

(* Every step keeps what the three numbers stand for. *)
LEMMA TallyStep == BacktestAssumption /\ TallyInv /\ [Next]_vars => TallyInv'
<1> SUFFICES ASSUME BacktestAssumption, TallyInv, [Next]_vars PROVE TallyInv'
  OBVIOUS
<1> USE DEF TallyInv
<1>1. CASE tally' = tally
  BY <1>1 DEF TallyTyped
<1>2. CASE Unused \/ Rejected \/ Held
  <2>1. /\ tally'.pnls = tally.pnls /\ tally'.equity = tally.equity
        /\ tally'.peak = tally.peak /\ tally'.drawdown = tally.drawdown
        /\ TallyTyped'
    BY <1>2 DEF Unused, Rejected, Held, Valid, TallyTyped
  <2> QED
    BY <2>1
<1>3. ASSUME NEW pnl \in Results, Trade(pnl) PROVE TallyInv'
  <2> DEFINE t == Valid(tally)
             peak == Max({tally.peak, tally.equity + pnl})
             down == Max({tally.drawdown, peak - (tally.equity + pnl)})
  <2>1. /\ t = [valid |-> t.valid, invalid |-> t.invalid, paid |-> t.paid,
                pnls |-> t.pnls, equity |-> t.equity, peak |-> t.peak,
                drawdown |-> t.drawdown]
        /\ t.pnls = tally.pnls /\ t.equity = tally.equity
        /\ t.peak = tally.peak /\ t.drawdown = tally.drawdown
    BY ValidShape
  <2>2. tally' = Booked(t, pnl)
    BY <1>3 DEF Trade
  <2> HIDE DEF t, peak, down
  <2>3. /\ TallyTyped'
        /\ tally'.pnls = Append(tally.pnls, pnl)
        /\ tally'.equity = tally.equity + pnl
        /\ tally'.peak = peak /\ tally'.drawdown = down
    BY <2>1, <2>2 DEF Booked, TallyTyped, peak, down
  <2>4. pnl \in Int
    BY DEF BacktestAssumption
  <2>5. Summary(Append(tally.pnls, pnl), tally.equity + pnl, peak, down)
    BY <2>4, SummaryExtended DEF peak, down
  <2>6. Append(tally.pnls, pnl) \in Seq(Int)
    BY <2>4
  <2> QED
    BY <2>3, <2>5, <2>6
<1>4. CASE tally' = NoTally
  BY <1>4, EmptyTallyNext
<1> QED
  <2>1. CASE UNCHANGED vars
    BY <1>1, <2>1 DEF vars
  <2>2. CASE Hold \/ Abort
    BY <1>1, <2>2 DEF Hold, Abort
  <2>3. CASE BeginValidation \/ ListFiles \/ EndCount \/ ReadManifest
    BY <1>1, <2>3 DEF BeginValidation, ListFiles, EndCount, ReadManifest
  <2>4. CASE BeginComparison \/ EndLoad \/ WriteReport \/ \E td \in Tokens \X Days : ReadFile(td)
    BY <1>1, <2>4 DEF BeginComparison, EndLoad, WriteReport, ReadFile
  <2>5. CASE EndReplay
    BY <1>4, <2>5 DEF EndReplay
  <2>6. CASE UNCHANGED <<replay, tally, replays>>
    BY <1>1, <2>6
  <2> QED
    BY <1>2, <1>3, <2>1, <2>2, <2>3, <2>4, <2>5, <2>6 DEF Next, ReplayStep

(* Equity is the curve of the trades of the tally. *)
LEMMA EquityIsCurve ==
  ASSUME tally.pnls \in Seq(Int)
  PROVE  Curve(tally.pnls, Len(tally.pnls), Equity)
<1> DEFINE s == tally.pnls
<1>1. \E g : Curve(s, Len(s), g)
  <2>1. Len(s) \in Nat
    OBVIOUS
  <2> QED
    BY <2>1, CurveExists
<1>2. Equity = CHOOSE g : Curve(s, Len(s), g)
  BY DEF Equity, Curve, Point
<1> QED
  BY <1>1, <1>2

(* So the reported drawdown is the largest fall of the equity. *)
LEMMA SummaryIsMax == TallyInv => DrawdownIsMax
<1> SUFFICES ASSUME TallyInv PROVE DrawdownIsMax
  OBVIOUS
<1> DEFINE n == Len(tally.pnls)
           falls == {Equity[p[1]] - Equity[p[2]] :
                       p \in {q \in (0 .. n) \X (0 .. n) : q[1] <= q[2]}}
<1>1. n \in Nat /\ tally.pnls \in Seq(Int)
  BY DEF TallyInv
<1>2. PICK g : Curve(tally.pnls, n, g)
               /\ Points(g, n, tally.equity, tally.peak, tally.drawdown)
  BY DEF TallyInv, Summary
<1>3. Curve(tally.pnls, n, Equity)
  BY <1>1, EquityIsCurve
<1>4. g = Equity
  BY <1>1, <1>2, <1>3, CurveUnique
<1>5. /\ \A i, j \in 0 .. n : i <= j => Equity[i] - Equity[j] <= tally.drawdown
      /\ \A i \in 0 .. n : Equity[i] \in Int
      /\ \E i, j \in 0 .. n : i <= j /\ Equity[i] - Equity[j] = tally.drawdown
  BY <1>2, <1>4 DEF Points
<1>6. tally.drawdown \in falls
  <2>1. PICK i \in 0 .. n, j \in 0 .. n :
          i <= j /\ Equity[i] - Equity[j] = tally.drawdown
    BY <1>5
  <2>2. <<i, j>> \in {q \in (0 .. n) \X (0 .. n) : q[1] <= q[2]}
    BY <2>1
  <2>3. <<i, j>>[1] = i /\ <<i, j>>[2] = j
    OBVIOUS
  <2> QED
    BY <2>1, <2>2, <2>3
<1>7. \A x \in falls : x \in Int /\ x <= tally.drawdown
  BY <1>1, <1>5
<1> HIDE DEF falls, n
<1>8. tally.drawdown \in Int
  BY <1>6, <1>7
<1>9. \A x \in falls : (\A y \in falls : x >= y) => x = tally.drawdown
  BY <1>6, <1>7, <1>8
<1>10. tally.drawdown = Max(falls)
  <2>1. \A y \in falls : tally.drawdown >= y
    BY <1>7, <1>8
  <2> DEFINE top == CHOOSE x \in falls : \A y \in falls : x >= y
  <2>2. top \in falls /\ \A y \in falls : top >= y
    BY <1>6, <2>1, Zenon
  <2>3. top = tally.drawdown
    BY <1>9, <2>2
  <2> QED
    BY <2>3 DEF Max
<1> QED
  BY <1>10 DEF DrawdownIsMax, falls, n

(* The drawdown that a comparison reports is the largest fall of the equity *)
(* of its trades from any earlier point, the start included, to any later   *)
(* one: whatever the trades, though run() keeps three numbers only.         *)
THEOREM DrawdownExact == Spec => []DrawdownIsMax
<1>1. Init => TallyInv
  BY EmptyTally DEF Init
<1>2. TallyInv /\ [Next]_vars => TallyInv'
  BY TallyStep, BacktestAssumption
<1> QED
  BY <1>1, <1>2, SummaryIsMax, PTL DEF Spec

-------------------------------------------------------------------------------
(* Operational alerts.                                                      *)

(* Of the ages, what the argument needs: the condition was last absent no   *)
(* later than `now` of the pass and no later than it was first seen, and an *)
(* alert that is being sent was due.                                        *)
AlertTyped ==
    /\ frame = [stage |-> frame.stage, ws |-> frame.ws, breaker |-> frame.breaker,
                age |-> frame.age]
    /\ frame.age \in 0 .. PassTime
    /\ since \in [Conditions -> Int]
    /\ clear \in [Conditions -> 0 .. OldCondition]

Sustained ==
    \A c \in Conditions :
        /\ frame.age <= clear[c]
        /\ since[c] <= clear[c]
        /\ frame.stage = c => clear[c] - frame.age >= Threshold[c]

(* The age that stands for all older ones exceeds every threshold. *)
LEMMA AlertBounds ==
  ASSUME AlertBridgeAssumption
  PROVE  /\ OldCondition \in Nat
         /\ \A c \in Conditions : /\ Threshold[c] \in Nat
                                         /\ OldCondition >= Threshold[c] + PassTime
<1> DEFINE r == Threshold["readiness"]
           w == Threshold["websocket"]
<1>1. Conditions = {"readiness", "websocket"}
  BY DEF Conditions
<1>2. r \in Nat /\ w \in Nat /\ PassTime \in Nat
  BY <1>1 DEF AlertBridgeAssumption
<1>3. {Threshold[c] : c \in Conditions} = {r, w}
  BY <1>1
<1> HIDE DEF r, w
<1>4. Max({r, w}) \in {r, w} /\ Max({r, w}) >= r /\ Max({r, w}) >= w
  BY <1>2 DEF Max
<1>5. OldCondition = Max({r, w}) + PassTime
  BY <1>3 DEF OldCondition
<1>6. /\ OldCondition \in Nat
      /\ OldCondition >= r + PassTime /\ OldCondition >= w + PassTime
  BY <1>2, <1>4, <1>5
<1> QED
  BY <1>1, <1>2, <1>6 DEF r, w

(* A condition is evaluated at an age no greater than that of `now`: what   *)
(* is sent next was absent long enough ago.                                 *)
LEMMA Evaluated ==
  ASSUME AlertBridgeAssumption, AlertTyped, Sustained,
         NEW c \in Conditions, NEW bad \in BOOLEAN,
         NEW n \in 0 .. PassTime, n <= frame.age,
         NEW s, s \notin Conditions,
         Observe(c, bad, n),
         frame'.stage = IF Due(c, bad, n) THEN c ELSE s,
         frame' = [stage |-> frame'.stage, ws |-> frame'.ws, breaker |-> frame'.breaker,
                   age |-> n]
  PROVE  AlertTyped' /\ Sustained'
<1>1. /\ frame.age \in Int /\ n \in Int /\ n >= 0
      /\ OldCondition \in Int /\ \A e \in Conditions : Threshold[e] \in Nat
  BY AlertBounds DEF AlertTyped
<1>2. \A e \in Conditions :
        /\ since[e] \in Int /\ clear[e] \in 0 .. OldCondition
        /\ n <= clear[e] /\ since[e] <= clear[e]
  BY <1>1 DEF AlertTyped, Sustained
<1>3. CASE bad
  <2>1. /\ clear' = clear
        /\ since' = [since EXCEPT ![c] = IF since[c] < 0 THEN n ELSE since[c]]
    BY <1>3 DEF Observe
  <2>2. since' \in [Conditions -> Int]
    BY <2>1, <1>1 DEF AlertTyped
  <2>3. \A e \in Conditions : since'[e] <= clear'[e]
    BY <2>1, <1>1, <1>2 DEF AlertTyped
  <2>4. ASSUME NEW e \in Conditions, frame'.stage = e
        PROVE  clear'[e] - frame'.age >= Threshold[e]
    <3>1. e = c /\ since[e] - n >= Threshold[e]
      BY <2>4 DEF Due
    <3> QED
      BY <2>1, <3>1, <1>1, <1>2
  <2> QED
    BY <2>1, <2>2, <2>3, <2>4, <1>2 DEF AlertTyped, Sustained
<1>4. CASE ~bad
  <2>1. clear' = [clear EXCEPT ![c] = n] /\ since' = [since EXCEPT ![c] = -1]
    BY <1>4 DEF Observe
  <2>2. n \in 0 .. OldCondition
    BY <1>1, <1>2
  <2>3. frame'.stage = s
    BY <1>4 DEF Due
  <2>4. /\ since' \in [Conditions -> Int]
        /\ clear' \in [Conditions -> 0 .. OldCondition]
    BY <2>1, <2>2 DEF AlertTyped
  <2>5. \A e \in Conditions : n <= clear'[e] /\ since'[e] <= clear'[e]
    BY <2>1, <1>1, <1>2 DEF AlertTyped
  <2> QED
    BY <2>3, <2>4, <2>5 DEF AlertTyped, Sustained
<1> QED
  BY <1>3, <1>4

(* One minute passes for everything, and no age is capped too early.        *)
LEMMA TickSustains ==
  ASSUME AlertBridgeAssumption, AlertTyped, Sustained, Tick
  PROVE  AlertTyped' /\ Sustained'
<1> DEFINE old == OldCondition
<1>1. /\ old \in Nat /\ PassTime \in Nat
      /\ \A c \in Conditions : Threshold[c] \in Nat /\ old >= Threshold[c] + PassTime
  BY AlertBounds DEF AlertBridgeAssumption
<1>2. /\ frame'.age = frame.age + 1 /\ frame'.stage = frame.stage
      /\ frame' = [stage |-> frame'.stage, ws |-> frame'.ws, breaker |-> frame'.breaker,
                   age |-> frame'.age]
      /\ frame.age < PassTime /\ frame.age \in Nat
  BY DEF Tick, AlertTyped
<1>3. /\ since' = [c \in Conditions |->
             IF since[c] < 0 THEN -1 ELSE IF since[c] < old THEN since[c] + 1 ELSE old]
      /\ clear' = [c \in Conditions |-> IF clear[c] < old THEN clear[c] + 1 ELSE old]
  BY DEF Tick, Aged
<1> HIDE DEF old
<1>4. \A c \in Conditions : since[c] \in Int /\ clear[c] \in 0 .. old
  BY DEF AlertTyped, old
<1>5. AlertTyped'
  <2>1. frame'.age \in 0 .. PassTime
    BY <1>1, <1>2
  <2>2. since' \in [Conditions -> Int] /\ clear' \in [Conditions -> 0 .. old]
    BY <1>1, <1>3, <1>4
  <2> QED
    BY <1>2, <2>1, <2>2 DEF AlertTyped, old
<1>6. ASSUME NEW c \in Conditions
      PROVE  /\ frame'.age <= clear'[c] /\ since'[c] <= clear'[c]
             /\ frame'.stage = c => clear'[c] - frame'.age >= Threshold[c]
  BY <1>1, <1>2, <1>3, <1>4 DEF Sustained
<1> QED
  BY <1>5, <1>6 DEF Sustained

(* Every step keeps the ages of conditions true to the world. *)
LEMMA SustainedStep ==
  AlertBridgeAssumption /\ AlertTyped /\ Sustained /\ [AlertNext]_alertVars
    => AlertTyped' /\ Sustained'
<1> SUFFICES ASSUME AlertBridgeAssumption, AlertTyped, Sustained,
                    [AlertNext]_alertVars
             PROVE  AlertTyped' /\ Sustained'
  OBVIOUS
<1>a. Conditions = {"readiness", "websocket"}
  BY DEF Conditions
<1>b. PassTime \in Nat /\ OldCondition \in Nat
  BY AlertBounds DEF AlertBridgeAssumption
<1>c. ASSUME NEW s, s \notin Conditions, NEW n \in 0 .. PassTime, n <= frame.age,
             NEW w, NEW b, UNCHANGED <<since, clear>>,
             frame' = [stage |-> s, ws |-> w, breaker |-> b, age |-> n]
      PROVE  AlertTyped' /\ Sustained'
  BY <1>b, <1>c DEF AlertTyped, Sustained
<1>d. Idle = [stage |-> "idle", ws |-> "down", breaker |-> "CLOSED", age |-> 0]
  BY DEF Idle
<1>e. frame.age \in 0 .. PassTime /\ 0 \in 0 .. PassTime /\ 0 <= frame.age
  BY <1>b DEF AlertTyped
<1>1. CASE World
  BY <1>1 DEF World, bridgeVars, AlertTyped, Sustained
<1>2. CASE Tick
  BY <1>2, TickSustains
<1>3. CASE BeginPass
  <2>1. frame' = [stage |-> "asking", ws |-> ws, breaker |-> frame.breaker, age |-> 0]
        /\ UNCHANGED <<since, clear>>
    BY <1>3 DEF BeginPass, bridgeVars, AlertTyped
  <2> QED
    BY <2>1, <1>a, <1>c, <1>e
<1>4. CASE EvaluateReadiness
  <2> DEFINE bad == ~Ready
  <2>1. /\ Observe("readiness", bad, 0)
        /\ frame' = [stage |-> IF Due("readiness", bad, 0)
                               THEN "readiness" ELSE "evaluate websocket",
                     ws |-> ws, breaker |-> breaker, age |-> 0]
    BY <1>4 DEF EvaluateReadiness
  <2>2. bad \in BOOLEAN
    OBVIOUS
  <2>3. /\ frame'.stage = IF Due("readiness", bad, 0)
                          THEN "readiness" ELSE "evaluate websocket"
        /\ frame' = [stage |-> frame'.stage, ws |-> frame'.ws,
                     breaker |-> frame'.breaker, age |-> 0]
    BY <2>1
  <2> HIDE DEF bad
  <2> QED
    BY <2>1, <2>2, <2>3, <1>a, <1>e, Evaluated
<1>5. CASE EvaluateWebsocket
  <2> DEFINE bad == frame.ws # "fine"
             n == frame.age
  <2>1. /\ Observe("websocket", bad, n)
        /\ frame' = [frame EXCEPT !.ws = "down", !.stage =
                       IF Due("websocket", bad, n)
                       THEN "websocket" ELSE "evaluate breaker"]
    BY <1>5 DEF EvaluateWebsocket
  <2>2. /\ frame'.stage = IF Due("websocket", bad, n)
                          THEN "websocket" ELSE "evaluate breaker"
        /\ frame' = [stage |-> frame'.stage, ws |-> frame'.ws,
                     breaker |-> frame'.breaker, age |-> n]
    BY <2>1 DEF AlertTyped
  <2>3. bad \in BOOLEAN /\ n \in 0 .. PassTime /\ n <= frame.age
    BY <1>e
  <2> HIDE DEF bad, n
  <2> QED
    BY <2>1, <2>2, <2>3, <1>a, Evaluated
<1>6. CASE EvaluateBreaker
  <2>1. UNCHANGED <<since, clear>>
    BY <1>6 DEF EvaluateBreaker
  <2>2. CASE frame' = Idle
    BY <2>1, <2>2, <1>a, <1>c, <1>d, <1>e
  <2>3. CASE frame' = [frame EXCEPT !.stage = Transition]
    <3>1. Transition \notin Conditions
      BY <1>a DEF Transition
    <3>2. frame' = [stage |-> Transition, ws |-> frame.ws,
                    breaker |-> frame.breaker, age |-> frame.age]
      BY <2>3 DEF AlertTyped
    <3> QED
      BY <2>1, <3>1, <3>2, <1>c, <1>e
  <2> QED
    BY <1>6, <2>2, <2>3 DEF EvaluateBreaker, EndPass
<1>7. ASSUME NEW a \in Alerts, SendSucceeds(a) \/ SendFails(a)
      PROVE  AlertTyped' /\ Sustained'
  <2>1. UNCHANGED <<since, clear>> /\ Continue(a)
    BY <1>7 DEF SendSucceeds, SendFails
  <2>2. CASE frame' = Idle
    BY <2>1, <2>2, <1>a, <1>c, <1>d, <1>e
  <2>3. ASSUME NEW to, to \in {"evaluate websocket", "evaluate breaker"},
               frame' = [frame EXCEPT !.stage = to]
        PROVE  AlertTyped' /\ Sustained'
    <3>1. frame' = [stage |-> to, ws |-> frame.ws, breaker |-> frame.breaker,
                    age |-> frame.age]
      BY <2>3 DEF AlertTyped
    <3>2. to \notin Conditions
      BY <2>3, <1>a
    <3>3. UNCHANGED <<since, clear>>
      BY <2>1
    <3> QED
      BY <3>1, <3>2, <3>3, <1>c, <1>e
  <2> QED
    BY <2>1, <2>2, <2>3 DEF Continue, EndPass
<1>8. CASE UNCHANGED alertVars
  BY <1>8 DEF alertVars, bridgeVars, AlertTyped, Sustained
<1> QED
  BY <1>1, <1>2, <1>3, <1>4, <1>5, <1>6, <1>7, <1>8 DEF AlertNext, Pass

(* No alert about readiness or the WebSocket goes out unless the condition  *)
(* lasted: for any thresholds, any cooldown and any duration of a pass.     *)
THEOREM AlertsSustained == AlertSpec => SustainedOnly
<1>1. AlertInit => AlertTyped /\ Sustained
  <2> SUFFICES ASSUME AlertInit PROVE AlertTyped /\ Sustained
    OBVIOUS
  <2>1. PassTime \in Nat /\ OldCondition \in Nat
    BY AlertBounds, AlertBridgeAssumption DEF AlertBridgeAssumption
  <2> QED
    BY <2>1 DEF AlertInit, Idle, Conditions, AlertTyped, Sustained
<1>2. AlertTyped /\ Sustained /\ [AlertNext]_alertVars => AlertTyped' /\ Sustained'
  BY SustainedStep, AlertBridgeAssumption
<1>3. AlertTyped /\ Sustained /\ [AlertNext]_alertVars =>
        [\A c \in Conditions : SendSucceeds(c) =>
             clear[c] - frame.age >= Threshold[c]]_alertVars
  BY DEF Sustained, SendSucceeds
<1> QED
  BY <1>1, <1>2, <1>3, PTL DEF AlertSpec, SustainedOnly

----------------------------------------------------------------------------
(* What AlertTypeOK says beyond AlertTyped and Sustained. *)
AlertValues ==
    /\ ws \in {"fine", "stale", "down"}
    /\ reachable \in BOOLEAN
    /\ breaker \in {"OPEN", "CLOSED"}
    /\ frame.stage \in {"idle", "asking", "evaluate websocket", "evaluate breaker"}
                          \cup Alerts
    /\ frame.ws \in {"fine", "stale", "down"}
    /\ frame.breaker \in {"OPEN", "CLOSED"}
    /\ \A c \in Conditions : since[c] >= -1
    /\ sent \in [Alerts -> 0 .. OldAlert]
    /\ lastBreaker \in {"OPEN", "CLOSED"}

(* The oldest age of an alert is one no pass can exceed. *)
LEMMA OldestAlert ==
    ASSUME AlertBridgeAssumption
    PROVE  OldAlert \in Nat /\ OldAlert >= PassTime /\ PassTime \in Nat
BY DEF AlertBridgeAssumption, OldAlert

(* An evaluated condition is absent or has an age. *)
LEMMA ObservedAge ==
    ASSUME AlertTyped, AlertValues, NEW c \in Conditions, NEW bad, NEW n \in Nat,
           Observe(c, bad, n)
    PROVE  \A e \in Conditions : since'[e] >= -1
<1>1. \A e \in Conditions : since[e] \in Int /\ since[e] >= -1
  BY DEF AlertTyped, AlertValues
<1>2. \A e \in Conditions : since'[e] \in {since[e], n, -1}
  BY DEF Observe, AlertTyped
<1> QED  BY <1>1, <1>2

(* After a send the evaluators go on. *)
LEMMA ContinuedValues ==
    ASSUME AlertTyped, AlertValues, NEW a \in Alerts, Continue(a)
    PROVE  /\ frame'.stage \in {"idle", "evaluate websocket", "evaluate breaker"}
           /\ frame'.ws \in {"fine", "stale", "down"}
           /\ frame'.breaker \in {"OPEN", "CLOSED"}
           /\ lastBreaker' \in {"OPEN", "CLOSED"}
<1>1. CASE frame' = Idle /\ lastBreaker' = frame.breaker
  BY <1>1 DEF Idle, AlertValues
<1>2. ASSUME NEW to \in {"evaluate websocket", "evaluate breaker"},
             frame' = [frame EXCEPT !.stage = to], UNCHANGED lastBreaker
      PROVE  /\ frame'.stage = to /\ frame'.ws = frame.ws
             /\ frame'.breaker = frame.breaker /\ lastBreaker' = lastBreaker
  BY <1>2 DEF AlertTyped
<1>3. \/ frame' = Idle /\ lastBreaker' = frame.breaker
      \/ \E to \in {"evaluate websocket", "evaluate breaker"} :
            frame' = [frame EXCEPT !.stage = to] /\ UNCHANGED lastBreaker
  BY DEF Continue, EndPass
<1> QED  BY <1>1, <1>2, <1>3 DEF AlertValues

(* The loop, its sends and the world leave every variable in its type. *)
LEMMA ValuesStep ==
    ASSUME AlertBridgeAssumption, AlertTyped, AlertValues, [AlertNext]_alertVars
    PROVE  AlertValues'
<1>0. /\ OldAlert \in Nat /\ OldAlert >= PassTime /\ PassTime \in Nat
      /\ frame.age \in 0 .. PassTime
  BY OldestAlert DEF AlertTyped
<1>1. CASE World
  BY <1>1 DEF World, bridgeVars, AlertValues
<1>2. CASE Tick
  <2>1. /\ frame'.stage = frame.stage /\ frame'.ws = frame.ws
        /\ frame'.breaker = frame.breaker
    BY <1>2 DEF Tick, AlertTyped
  <2>2. sent' \in [Alerts -> 0 .. OldAlert]
    <3>1. \A n \in 0 .. OldAlert : Aged(n, OldAlert) \in 0 .. OldAlert
      BY <1>0 DEF Aged
    <3>2. sent' = [a \in Alerts |-> Aged(sent[a], OldAlert)]  BY <1>2 DEF Tick
    <3>3. \A a \in Alerts : sent[a] \in 0 .. OldAlert  BY DEF AlertValues
    <3> QED  BY <3>1, <3>2, <3>3
  <2>3. ASSUME NEW c \in Conditions PROVE since'[c] >= -1
    <3>1. since'[c] = IF since[c] < 0 THEN -1 ELSE Aged(since[c], OldCondition)
      BY <1>2 DEF Tick
    <3>2. since[c] \in Int /\ OldCondition \in Nat  BY AlertBounds DEF AlertTyped
    <3> QED  BY <3>1, <3>2 DEF Aged
  <2> QED  BY <1>2, <2>1, <2>2, <2>3 DEF Tick, worldVars, AlertValues
<1>3. CASE BeginPass
  <2>1. /\ frame'.stage = "asking" /\ frame'.ws = ws /\ frame'.breaker = frame.breaker
    BY <1>3 DEF BeginPass, AlertTyped
  <2> QED  BY <1>3, <2>1 DEF BeginPass, worldVars, bridgeVars, AlertValues
<1>4. CASE EvaluateReadiness
  <2>1. /\ frame'.stage \in {"readiness", "evaluate websocket"}
        /\ frame'.ws = ws /\ frame'.breaker = breaker
    BY <1>4 DEF EvaluateReadiness
  <2>2. \A e \in Conditions : since'[e] >= -1
    <3>1. Observe("readiness", ~Ready, 0)  BY <1>4 DEF EvaluateReadiness
    <3>2. "readiness" \in Conditions  BY DEF Conditions
    <3> QED  BY <3>1, <3>2, ObservedAge
  <2> QED
    BY <1>4, <2>1, <2>2
    DEF EvaluateReadiness, worldVars, AlertValues, Alerts, Conditions
<1>5. CASE EvaluateWebsocket
  <2>1. /\ frame'.stage \in {"websocket", "evaluate breaker"}
        /\ frame'.ws = "down" /\ frame'.breaker = frame.breaker
    BY <1>5 DEF EvaluateWebsocket, AlertTyped
  <2>2. \A e \in Conditions : since'[e] >= -1
    <3>1. Observe("websocket", frame.ws # "fine", frame.age)
      BY <1>5 DEF EvaluateWebsocket
    <3>2. "websocket" \in Conditions /\ frame.age \in Nat  BY <1>0 DEF Conditions
    <3> QED  BY <3>1, <3>2, ObservedAge
  <2> QED
    BY <1>5, <2>1, <2>2
    DEF EvaluateWebsocket, worldVars, AlertValues, Alerts, Conditions
<1>6. CASE EvaluateBreaker
  <2>1. CASE frame' = [frame EXCEPT !.stage = Transition] /\ UNCHANGED lastBreaker
    <3>1. frame'.stage = Transition /\ frame'.ws = frame.ws /\ frame'.breaker = frame.breaker
      BY <2>1 DEF AlertTyped
    <3>2. Transition \in Alerts  BY DEF Transition, Alerts
    <3> QED
      BY <1>6, <2>1, <3>1, <3>2 DEF EvaluateBreaker, worldVars, AlertValues
  <2>2. CASE frame' = Idle /\ lastBreaker' = frame.breaker
    BY <1>6, <2>2 DEF EvaluateBreaker, Idle, worldVars, AlertValues
  <2> QED  BY <1>6, <2>1, <2>2 DEF EvaluateBreaker, EndPass
<1>7. ASSUME NEW a \in Alerts, SendSucceeds(a) \/ SendFails(a)
      PROVE  AlertValues'
  <2>1. /\ Continue(a) /\ UNCHANGED <<worldVars, since>>
        /\ sent' \in {sent, [sent EXCEPT ![a] = frame.age]}
    BY <1>7 DEF SendSucceeds, SendFails
  <2>2. sent' \in [Alerts -> 0 .. OldAlert]
    <3>1. frame.age \in 0 .. OldAlert  BY <1>0
    <3>2. sent \in [Alerts -> 0 .. OldAlert]  BY DEF AlertValues
    <3>3. [sent EXCEPT ![a] = frame.age] \in [Alerts -> 0 .. OldAlert]
      BY <3>1, <3>2
    <3> QED  BY <2>1, <3>2, <3>3
  <2> QED  BY <2>1, <2>2, ContinuedValues DEF worldVars, AlertValues
<1>8. CASE UNCHANGED alertVars
  BY <1>8 DEF alertVars, worldVars, bridgeVars, AlertValues
<1> QED
  BY <1>1, <1>2, <1>3, <1>4, <1>5, <1>6, <1>7, <1>8 DEF AlertNext, Pass

(* AlertTypeOK for every instance: ages stay within the bounds that make no *)
(* difference, and first_seen_at_utc is never before the condition was      *)
(* last seen absent (ConditionState, _dispatch()).                          *)
THEOREM AlertTypeCorrect == AlertSpec => []AlertTypeOK
<1>1. AlertInit => AlertTyped /\ Sustained /\ AlertValues
  <2> SUFFICES ASSUME AlertInit PROVE AlertTyped /\ Sustained /\ AlertValues
    OBVIOUS
  <2>1. PassTime \in Nat /\ OldCondition \in Nat /\ OldAlert \in Nat
    BY AlertBounds, OldestAlert, AlertBridgeAssumption
  <2>2. AlertTyped /\ Sustained
    BY <2>1 DEF AlertInit, Idle, Conditions, AlertTyped, Sustained
  <2>3. AlertValues
    BY <2>1 DEF AlertInit, Idle, AlertValues
  <2> QED  BY <2>2, <2>3
<1>2. /\ AlertTyped /\ Sustained /\ AlertValues
      /\ [AlertNext]_alertVars
      => (AlertTyped /\ Sustained /\ AlertValues)'
  BY SustainedStep, ValuesStep, AlertBridgeAssumption
<1>3. AlertTyped /\ Sustained /\ AlertValues => AlertTypeOK
  <2> SUFFICES ASSUME AlertTyped, Sustained, AlertValues PROVE AlertTypeOK
    OBVIOUS
  <2>1. OldCondition \in Nat  BY AlertBounds, AlertBridgeAssumption
  <2>2. ASSUME NEW c \in Conditions PROVE since[c] \in -1 .. OldCondition
    <3>1. /\ since[c] \in Int /\ since[c] >= -1 /\ since[c] <= clear[c]
          /\ clear[c] \in 0 .. OldCondition
      BY DEF AlertTyped, Sustained, AlertValues
    <3> QED  BY <2>1, <3>1
  <2>3. since \in [Conditions -> -1 .. OldCondition]  BY <2>2 DEF AlertTyped
  <2>4. frame \in [stage : {"idle", "asking", "evaluate websocket",
                            "evaluate breaker"} \cup Alerts,
                   ws : {"fine", "stale", "down"},
                   breaker : {"OPEN", "CLOSED"}, age : 0 .. PassTime]
    BY DEF AlertTyped, AlertValues
  <2> QED  BY <2>3, <2>4 DEF AlertTyped, Sustained, AlertValues, AlertTypeOK
<1> QED  BY <1>1, <1>2, <1>3, PTL DEF AlertSpec
=============================================================================
