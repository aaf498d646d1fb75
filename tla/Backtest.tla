-------------------------------- MODULE Backtest --------------------------------
(***************************************************************************)
(* The readers of a historical dataset.  run_real_data_backtest loads it,  *)
(* weighs its quality, has BacktestRunner load and replay it, and derives  *)
(* the live-readiness verdict: its evaluator is the fallback, which holds. *)
(* run_llm_provider_comparison replays it through the adapter around       *)
(* ClaudeClient.evaluate_for_backtest() and derives the provider's.        *)
(*                                                                         *)
(* A validation may meet a build at any of its reads; a comparison loads   *)
(* once, and runs while no build does (bound).  What a trade realises is   *)
(* what the injected router or the snapshot says.                          *)
(***************************************************************************)
EXTENDS HistoricalDataset

CONSTANTS
    Results,      \* what a trade may realise
    MinTrades,    \* _MIN_TRADES, min_trades_for_verdict
    Tolerated,    \* json_validity_tolerance, in percent
    CostCap,      \* calls that are cheap enough against the baseline
    MaxReplays    \* bound: replays in a behaviour

ASSUME BacktestAssumption ==
    /\ Results \subseteq Int
    /\ MinTrades \in Nat \ {0} /\ CostCap \in Nat
    /\ Tolerated \in 0 .. 100 /\ MaxReplays \in Nat

VARIABLES
    replay,       \* the frame of a reader
    tally,        \* counters of the adapter and of BacktestRunner.run()
    replays       \* replays so far (bounded)

vars == <<dataset, replay, tally, replays>>

(* owed: history, what the load owes.                                       *)
NoReplay == [stage |-> "idle", tool |-> "none", files |-> {}, owed |-> {},
             loaded |-> 0, seen |-> {}, left |-> 0,
             quality |-> [total |-> 0, bad |-> 0], verdict |-> "none"]
NoTally == [valid |-> 0, invalid |-> 0, paid |-> 0, pnls |-> << >>,
            equity |-> 0, peak |-> 0, drawdown |-> 0]

Init ==
    /\ DatasetInit
    /\ replay = NoReplay /\ tally = NoTally /\ replays = 0

In(stage) == replay.stage = stage
Report(verdict) == replay' = [replay EXCEPT !.stage = "done", !.verdict = verdict]

-------------------------------------------------------------------------------
(* BacktestDataLoader.load_all(): day files only; one that cannot be parsed *)
(* is an error.                                                             *)
Files == {td \in Tokens \X Days : disk.day[td].kind # "absent"}

(* Mutant: it is skipped.                                                   *)
ReadableLeniently(td) == TRUE

Readable(td) == disk.day[td].kind = "json"

RowsOf(td) == {td[1]} \X DOMAIN disk.day[td].rows

BeginValidation ==
    /\ In("idle") /\ replays < MaxReplays
    /\ replays' = replays + 1
    /\ replay' = [NoReplay EXCEPT !.tool = "validate", !.stage = "count"]
    /\ UNCHANGED <<dataset, tally>>

(* The markets that a load which begins now owes, all of them: see below.   *)
Owed ==
    {t \in Tokens : \/ t \in disk.outcomes
                    \/ t \in build.found /\ At("idle") /\ build.exit = "ok" /\ Sound(t)}

(* The files are listed, once to count the rows and once to replay them,   *)
(* ...                                                                      *)
ListFiles ==
    /\ In("count") \/ In("load")
    /\ replay' = [replay EXCEPT !.stage = IF In("count") THEN "counting" ELSE "loading",
                                !.files = Files, !.owed = Owed]
    /\ UNCHANGED <<dataset, tally, replays>>

(* ... and read one by one, ...                                             *)
ReadFile(td) ==
    /\ In("counting") \/ In("loading")
    /\ td \in replay.files
    /\ IF Readable(td)
       THEN replay' = [replay EXCEPT !.files = @ \ {td}, !.seen = @ \cup RowsOf(td),
                                     !.left = @ + BagCardinality(disk.day[td].rows)]
       ELSE Report(IF replay.tool = "validate" THEN "FAIL_DATA_QUALITY" ELSE "error")
    /\ UNCHANGED <<dataset, tally, replays>>

(* ... until all of them have been.                                         *)
EndCount ==
    /\ In("counting") /\ replay.files = {}
    /\ replay' = [replay EXCEPT !.stage = "manifest", !.loaded = replay.left,
                                !.seen = {}, !.left = 0, !.owed = {}]
    /\ UNCHANGED <<dataset, tally, replays>>

EndLoad ==
    /\ In("loading") /\ replay.files = {}
    /\ replay' = [replay EXCEPT !.stage = "replay"]
    /\ UNCHANGED <<dataset, tally, replays>>

(* _load_data_quality_summary(): what the manifest skipped counts as bad,   *)
(* and so does, once, a manifest that cannot be read.                       *)
QualitySummary ==
    LET m == disk.manifest IN
    CASE m.kind = "absent" -> [total |-> replay.loaded, bad |-> 0]
      [] m.kind = "torn"   -> [total |-> Max({replay.loaded, 1}), bad |-> 1]
      [] OTHER -> [total |-> Max({replay.loaded, m.written}) + m.skipped,
                   bad |-> m.skipped]

ReadManifest ==
    /\ In("manifest")
    /\ replay' = [replay EXCEPT !.stage = "load", !.quality = QualitySummary]
    /\ UNCHANGED <<dataset, tally, replays>>

BeginComparison ==
    /\ In("idle") /\ replays < MaxReplays /\ At("idle")
    /\ replays' = replays + 1
    /\ replay' = [NoReplay EXCEPT !.tool = "compare", !.stage = "load"]
    /\ UNCHANGED <<dataset, tally>>

-------------------------------------------------------------------------------
(* _replay_snapshot(), once per row.                                        *)
Replaying(tool) == In("replay") /\ replay.left > 0 /\ replay.tool = tool

NextRow ==
    /\ replay' = [replay EXCEPT !.left = @ - 1]
    /\ UNCHANGED <<dataset, replays>>

(* The fallback evaluator.                                                  *)
Hold ==
    /\ Replaying("validate")
    /\ UNCHANGED tally
    /\ NextRow

(* evaluate_for_backtest() answers without usage: in cooldown, without      *)
(* budget, or after timeouts, retries and exceptions; and the adapter       *)
(* answers with its fallback, which holds.                                  *)
Unused ==
    /\ Replaying("compare")
    /\ tally' = [tally EXCEPT !.invalid = @ + 1]
    /\ NextRow

(* The primary call was paid for; its reflection rejects the answer, or has *)
(* no budget, or the answer cannot be parsed: a fallback all the same.      *)
Rejected ==
    /\ Replaying("compare")
    /\ tally' = [tally EXCEPT !.invalid = @ + 1, !.paid = @ + 1]
    /\ NextRow

Valid(t) == [t EXCEPT !.valid = @ + 1, !.paid = @ + 1]

Held ==
    /\ Replaying("compare")
    /\ tally' = Valid(tally)
    /\ NextRow

(* Mutant: the peak is taken before the trade.                              *)
BookedLate(t, pnl) ==
    [t EXCEPT !.pnls = Append(@, pnl), !.equity = @ + pnl,
              !.peak = Max({@, t.equity}),
              !.drawdown = Max({@, t.peak - (t.equity + pnl)})]

(* A decision to trade counts as a trade, whatever the router says.         *)
Booked(t, pnl) ==
    LET equity == t.equity + pnl
        peak   == Max({t.peak, equity})
    IN  [t EXCEPT !.pnls = Append(@, pnl), !.equity = equity, !.peak = peak,
                  !.drawdown = Max({@, peak - equity})]

Trade(pnl) ==
    /\ Replaying("compare")
    /\ tally' = Booked(Valid(tally), pnl)
    /\ NextRow

(* An answer that the Gatekeeper model refuses ends the whole run.          *)
Abort ==
    /\ Replaying("compare")
    /\ Report("error")
    /\ UNCHANGED <<dataset, tally, replays>>

ReplayStep ==
    \/ Hold \/ Unused \/ Rejected \/ Held \/ Abort
    \/ \E pnl \in Results : Trade(pnl)

-------------------------------------------------------------------------------
(* derive_verdict(), as far as a replay without trades goes.                *)
LiveVerdict(quality, trades) ==
    IF      quality.total > 0 /\ 10 * quality.bad > quality.total THEN "FAIL_DATA_QUALITY"
    ELSE IF quality.total <= 0 /\ trades <= 0 THEN "FAIL_DATA_QUALITY"
    ELSE IF trades < MinTrades THEN "FAIL_INSUFFICIENT_TRADES"
    ELSE    "PASS"

NetPnl == FoldSeq(+, 0, tally.pnls)
Calls  == tally.valid + tally.invalid
Expensive == tally.paid > CostCap

(* derive_readiness_verdict(): gates in their order.  Whether the provider  *)
(* was slow and whether its confidence or expected value was off is chosen; *)
(* every trade counts as an outcome.                                        *)
ProviderVerdict(slow, uncalibrated) ==
    LET outcomes == tally.pnls # << >> IN
    IF      100 * tally.invalid > Tolerated * Calls \/ Calls = 0 THEN "REJECTED_FOR_JSON_VALIDITY"
    ELSE IF Calls < MinTrades THEN "REJECTED_FOR_COST_OR_LATENCY"
    ELSE IF outcomes /\ NetPnl < 0 THEN "REJECTED_FOR_NEGATIVE_EV"
    ELSE IF Expensive \/ slow THEN "REJECTED_FOR_COST_OR_LATENCY"
    ELSE IF uncalibrated \/ 2 * Len(tally.pnls) < tally.valid THEN "NEEDS_THRESHOLD_RECALIBRATION"
    ELSE IF ~outcomes THEN "READY_FOR_SAMPLED_AUDIT_ONLY"
    ELSE    "READY_FOR_DRY_RUN_PRIMARY"

WriteReport ==
    /\ In("replay") /\ replay.left = 0
    /\ \/ /\ replay.tool = "validate"
          /\ Report(LiveVerdict(replay.quality, Len(tally.pnls)))
       \/ /\ replay.tool = "compare"
          /\ \E slow, uncalibrated \in BOOLEAN : Report(ProviderVerdict(slow, uncalibrated))
    /\ UNCHANGED <<dataset, tally, replays>>

EndReplay ==
    /\ In("done")
    /\ replay' = NoReplay /\ tally' = NoTally
    /\ UNCHANGED <<dataset, replays>>

Next ==
    \/ BuildStep /\ UNCHANGED <<replay, tally, replays>> /\ replay.tool # "compare"
    \/ BeginValidation \/ BeginComparison \/ ListFiles \/ EndCount \/ ReadManifest \/ EndLoad
    \/ \E td \in Tokens \X Days : ReadFile(td)
    \/ ReplayStep \/ WriteReport \/ EndReplay

Spec == Init /\ [][Next]_vars

-------------------------------------------------------------------------------
(* What a replay reads is whole.  If a market's outcome is on disk when a   *)
(* load begins, or the last build_historical_dataset found the market and   *)
(* has exited with 0, then the load, if it succeeds, gives every valid      *)
(* observation of that market, whatever builds were killed in between their *)
(* writes, failed, or write while the files are read one by one: a file cut *)
(* short makes the load fail, and is never an empty day.                    *)
ReplayedAll ==
    In("replay") => \A t \in replay.owed : {t} \X GoodTimes(t) \subseteq replay.seen

(* The running peak and drawdown of BacktestRunner.run() give the largest   *)
(* fall from any earlier equity, the initial one included, to any later.    *)
Equity[n \in 0 .. Len(tally.pnls)] ==
    IF n = 0 THEN 0 ELSE Equity[n - 1] + tally.pnls[n]

DrawdownIsMax ==
    tally.drawdown =
      LET points == 0 .. Len(tally.pnls)
      IN  Max({Equity[p[1]] - Equity[p[2]] : p \in {q \in points \X points : q[1] <= q[2]}})
===============================================================================
