-------------------------------- MODULE Research --------------------------------
(***************************************************************************)
(* What the models are trained on and judged by: the local cache of daily  *)
(* bars, the two kinds of labels, the purged walk-forward folds, the split *)
(* of the meta-model and the verdict of the research lab.                  *)
(*                                                                         *)
(* One symbol.  Its bar of the current day is still forming when it is     *)
(* downloaded.  A row without its features is a bar of the warm-up.  The   *)
(* barriers stand at multiples of the average true range, which remembers  *)
(* every bar since the first of the history.                               *)
(***************************************************************************)
EXTENDS Integers, Sequences, FiniteSetsExt, SequencesExt

CONSTANTS
  DayShapes,      \* the bars there are: [low, close, high]
  LastDay,        \* bound: the number of days
  PeriodDays,     \* days in a download
  WarmupRows,     \* bars without features
  LabelHorizon,   \* labels.horizon, also the purge
  Threshold,      \* labels.breakout_threshold, in percent
  AtrPeriod,      \* _ATR_PERIOD
  MinShare, MaxShare,     \* fusion.min_ and max_volatility_fraction, per mille
  StopMult, TargetMult,   \* fusion.stop_vol_mult and target_vol_mult
  TimeStop,       \* risk.time_stop_bars
  NFolds, TrainWindow, TestWindow,   \* walkforward.*
  MinTrain, MinTest,      \* the floors of shrunken windows
  SplitPct,       \* split, in percent
  MinBars,        \* _MIN_BARS
  MinTrades,      \* _MIN_TRADES_FOR_VERDICT
  Suspicious, OverfitGap,   \* walkforward.suspicious_accuracy, overfit_gap_warn, in percent
  Measured,       \* what estimator and backtest may show: [accuracy, gap, return, trades]
  Others,         \* the results of other symbols, a sequence each
  Unknown,        \* NaN
  NoReport

ASSUME ResearchAssumption ==
  /\ DayShapes \subseteq [low : Nat \ {0}, close : Nat \ {0}, high : Nat \ {0}]
  /\ {LabelHorizon, TimeStop, NFolds, PeriodDays, MinTrain, MinTest} \subseteq Nat \ {0}
  /\ {LastDay, WarmupRows, TrainWindow, TestWindow} \subseteq Nat
  /\ AtrPeriod \in Nat \ {0, 1}
  /\ {MinShare, MaxShare, StopMult, TargetMult} \subseteq Nat
  /\ SplitPct \in 1..99 /\ Unknown \notin {0, 1}
  /\ Suspicious \in Nat \ {0}
  /\ Measured \subseteq [accuracy : Nat, gap : Int, return : Int, trades : Nat]
  /\ \A others \in Others :
       /\ others \in Seq([folds : Nat, accuracy : Nat, gap : Int, return : Int, trades : Nat])
       /\ \A r \in Range(others) : r.folds = 0 => r.accuracy = 0

VARIABLES
  days,     \* the market's daily bars; the last is still forming
  stored,   \* the table bars: a row for each date in it
  covered,  \* for each date, the day of the last download that covered it
  history,  \* what HistoryCache.get last returned, each bar with its date
  report    \* the ResearchReport

researchVars == <<days, stored, covered, history, report>>

-----------------------------------------------------------------------------
Today == Len(days)

(* Numbers in order: in place p the one with p - 1 below it.               *)
Below(n, S) == Cardinality({m \in S : m < n})
Ordered(S) == [p \in 1..Cardinality(S) |-> CHOOSE n \in S : Below(n, S) = p - 1]

(* load: the rows, oldest first.                                           *)
Load(rows) ==
  LET dates == Ordered(DOMAIN rows)
  IN  [i \in DOMAIN dates |-> [date |-> dates[i], bar |-> rows[dates[i]]]]

(* _download: the last days, today's bar as it stands.                     *)
Downloaded == {d \in 1..Today : Today - PeriodDays < d}

(* store replaces what was there; the variant inserts only what was not.   *)
StoreMissing(rows, dates) ==
  [d \in DOMAIN rows \cup dates |-> IF d \in DOMAIN rows THEN rows[d] ELSE days[d]]
Store(rows, dates) ==
  [d \in DOMAIN rows \cup dates |-> IF d \in dates THEN days[d] ELSE rows[d]]

-----------------------------------------------------------------------------
(* breakout_label of row i: decisive moves only, unknown where the future  *)
(* is.                                                                     *)
BreakoutLabel(c, i) ==
  LET now == c[i].bar.close
      move == 100 * (c[i + LabelHorizon].bar.close - now)
  IN  CASE i + LabelHorizon > Len(c) -> Unknown
        [] i + LabelHorizon <= Len(c) /\ move > Threshold * now -> 1
        [] i + LabelHorizon <= Len(c) /\ move < -Threshold * now -> 0
        [] OTHER -> Unknown

(* true_range; the first row has no close before it.                       *)
TrueRange(c, j) ==
  LET b == c[j].bar
      was == c[j - 1].bar.close
  IN  IF j = 1 THEN b.high - b.low
      ELSE Max({b.high - b.low, b.high - was, was - b.high, b.low - was, was - b.low})

(* atr: each row's mean is the last one's, moved by 1/AtrPeriod towards    *)
(* its own range, and the first row's is its range.  Solved for row i and  *)
(* multiplied by Grain(i), which makes it whole.                           *)
Grain(i) == AtrPeriod ^ (i - 1)
Weight(i, j) == (AtrPeriod - 1) ^ (i - j) * (IF j = 1 THEN 1 ELSE AtrPeriod ^ (j - 2))
AverageRange(c, i) == SumFunction([j \in 1..i |-> Weight(i, j) * TrueRange(c, j)])

(* The volatility unit of row i and its barriers, in thousandths of a      *)
(* grain.                                                                  *)
Grained(price, i) == 1000 * Grain(i) * price
Unit(c, i) ==
  LET price == Grain(i) * c[i].bar.close
  IN  Min({Max({1000 * AverageRange(c, i), MinShare * price}), MaxShare * price})
StopBarrier(c, i) == Grained(c[i].bar.close, i) - StopMult * Unit(c, i)
TargetBarrier(c, i) == Grained(c[i].bar.close, i) + TargetMult * Unit(c, i)

(* triple_barrier_labels: the first touch decides, the stop on a tie; no   *)
(* touch is a 0 only when the whole window is there.  The first rows have  *)
(* no average range yet, the last one has no future.                       *)
TimedOut(c, i) == i + TimeStop <= Len(c)
BarrierLabel(c, i) ==
  LET Stopped(j) == Grained(c[j].bar.low, i) <= StopBarrier(c, i)
      Won(j) == Grained(c[j].bar.high, i) >= TargetBarrier(c, i)
      touched == {j \in (i + 1)..Len(c) : j <= i + TimeStop /\ (Stopped(j) \/ Won(j))}
      barred == AtrPeriod <= i /\ i < Len(c)
  IN  CASE ~barred -> Unknown
        [] barred /\ touched # {} -> IF Stopped(Min(touched)) THEN 0 ELSE 1
        [] barred /\ touched = {} -> IF TimedOut(c, i) THEN 0 ELSE Unknown

(* build_dataset and build_meta_dataset: the rows with features and label. *)
Rows(labels) == {i \in DOMAIN labels : i > WarmupRows /\ labels[i] # Unknown}
Dataset(c) == Ordered(Rows([i \in DOMAIN c |-> BreakoutLabel(c, i)]))
MetaRows(c) == Rows([i \in DOMAIN c |-> BarrierLabel(c, i)])

(* _resolve_windows, and walk_forward_validate: the folds that fit, each   *)
(* with the positions of its rows; a training window of one class is       *)
(* skipped.  The variant purges nothing.                                   *)
NoPurge == 0
Purge == LabelHorizon
Windows(n) ==
  LET needed == TrainWindow + Purge + TestWindow * NFolds
  IN  IF needed <= n THEN [train |-> TrainWindow, test |-> TestWindow]
      ELSE [train |-> Max({MinTrain, (TrainWindow * n) \div needed}),
            test |-> Max({MinTest, (TestWindow * n) \div needed})]

Folds(c) ==
  LET rows == Dataset(c)
      w == Windows(Len(rows))
      Fold(k) == LET start == k * w.test testing == start + w.train + Purge
                 IN  [train |-> {rows[p] : p \in (start + 1)..(start + w.train)},
                      test |-> {rows[p] : p \in (testing + 1)..(testing + w.test)}]
      fitting == {k \in 0..(NFolds - 1) : k * w.test + w.train + Purge + w.test <= Len(rows)}
  IN  {f \in {Fold(k) : k \in fitting} :
         {BreakoutLabel(c, i) : i \in f.train} = {0, 1}}

(* evaluate_meta: the bars before the cut are labelled by themselves.      *)
Cut(c) == (SplitPct * Len(c)) \div 100
InSample(c) == SubSeq(c, 1, Cut(c))

-----------------------------------------------------------------------------
(* _verdict over the results of all symbols; means are over those that     *)
(* were validated.                                                         *)
Total(results, on, field) ==
  SumFunctionOnSet([k \in DOMAIN results |-> results[k][field]], on)
Mean(results, on, field) == Total(results, on, field) \div Max({Cardinality(on), 1})

Verdict(results) ==
  LET all == DOMAIN results
      folded == {k \in all : results[k].folds > 0}
      accuracy == Mean(results, folded, "accuracy")
      suspect == accuracy >= Suspicious
                 \/ \E k \in folded : results[k].accuracy >= Suspicious
      few == Total(results, all, "trades") < MinTrades
      overfit == Mean(results, folded, "gap") >= OverfitGap
      faint == accuracy >= 52 /\ Total(results, all, "return") > 0
  IN  CASE all = {} -> "no_data"
        [] all # {} /\ folded = {} -> "insufficient_data"
        [] folded # {} /\ suspect -> "suspected_leakage"
        [] folded # {} /\ ~suspect /\ few -> "insufficient_evidence"
        [] folded # {} /\ ~suspect /\ ~few /\ accuracy >= 50 /\ overfit -> "overfit"
        [] folded # {} /\ ~suspect /\ ~few /\ ~overfit /\ faint -> "marginal_edge"
        [] OTHER -> "no_edge"

-----------------------------------------------------------------------------
ResearchInit ==
  /\ days \in {<<b>> : b \in DayShapes}
  /\ stored = <<>> /\ covered = <<>> /\ history = <<>>
  /\ report = NoReport

(* The market: the day's bar widens, or the day is over.                   *)
BarForms ==
  /\ \E b \in DayShapes :
       /\ b.low <= Last(days).low /\ b.high >= Last(days).high
       /\ days' = Append(Front(days), b)
  /\ UNCHANGED <<stored, covered, history, report>>

DayCloses ==
  /\ Today < LastDay
  /\ \E b \in DayShapes : days' = Append(days, b)
  /\ UNCHANGED <<stored, covered, history, report>>

(* HistoryCache.get: the cache when there is one and no refresh is asked.   *)
GetCached ==
  /\ DOMAIN stored # {}
  /\ history' = Load(stored)
  /\ UNCHANGED <<days, stored, covered, report>>

GetDownloaded ==
  /\ stored' = Store(stored, Downloaded)
  /\ covered' = [d \in DOMAIN covered \cup Downloaded |->
                   IF d \in Downloaded THEN Today ELSE covered[d]]
  /\ history' = Load([d \in Downloaded |-> days[d]])
  /\ UNCHANGED <<days, report>>

(* A refresh whose download fails falls back on the cache.                  *)
GetFails ==
  /\ history' = Load(stored)
  /\ UNCHANGED <<days, stored, covered, report>>

(* ResearchLab.run: a symbol with too few bars is skipped.                 *)
RunLab ==
  \E m \in Measured, others \in Others :
    LET folds == Cardinality(Folds(history))
        own == [folds |-> folds, accuracy |-> IF folds = 0 THEN 0 ELSE m.accuracy,
                gap |-> IF folds = 0 THEN 0 ELSE m.gap,
                return |-> m.return, trades |-> m.trades]
        results == IF Len(history) < MinBars THEN others ELSE <<own>> \o others
    IN  /\ report' = [verdict |-> Verdict(results), results |-> results]
        /\ UNCHANGED <<days, stored, covered, history>>

ResearchNext ==
  /\ report = NoReport
  /\ BarForms \/ DayCloses \/ GetCached \/ GetDownloaded \/ GetFails \/ RunLab

ResearchSpec == ResearchInit /\ [][ResearchNext]_researchVars

-----------------------------------------------------------------------------
(* A bar of a day that was over when a download covered it is the market's *)
(* (history.py, store): a refresh repairs what an earlier download took    *)
(* from an unfinished day.                                                 *)
Closed(d) == d \in DOMAIN covered /\ covered[d] > d
CacheIsRepaired == \A d \in DOMAIN stored : Closed(d) => stored[d] = days[d]

(* No fold is trained on a label that looks at its test window, or beyond  *)
(* (walkforward.py, the purge), although rows between them are dropped and *)
(* windows shrunk.                                                         *)
NoLookahead ==
  \A f \in Folds(history) : \A i \in f.train, j \in f.test :
    i + LabelHorizon < j

(* What the meta-model is trained on is what the whole history says, too   *)
(* (lab.py, evaluate_meta; triple_barrier.py).                             *)
SplitIsHonest ==
  LET ins == InSample(history)
  IN  \A i \in MetaRows(ins) : BarrierLabel(ins, i) = BarrierLabel(history, i)

(* An edge is claimed only where a symbol that could be validated predicts *)
(* better than a coin, one made money and none is suspect (lab.py).        *)
EdgeIsEarned ==
  (report # NoReport /\ report.verdict = "marginal_edge") =>
    LET rs == Range(report.results)
    IN  /\ \E r \in rs : r.folds > 0 /\ r.accuracy >= 52
        /\ \E r \in rs : r.return > 0
        /\ \A r \in rs : r.accuracy < Suspicious

ResearchIsHonest == CacheIsRepaired /\ NoLookahead /\ SplitIsHonest /\ EdgeIsEarned

(* A known label that was decided by bars of finished days is the same in  *)
(* the next history that has its bar (generate.py, triple_barrier.py).     *)
(* A meta-label is decided by every bar before it, too: it stands as long  *)
(* as the history begins where it began.                                   *)
Finished(c, first, last) == \A k \in first..Min({last, Len(c)}) : Closed(c[k].date)
BreakoutsKept(c, d) ==
  \A i \in DOMAIN c, j \in DOMAIN d :
    (/\ c[i].date = d[j].date
     /\ BreakoutLabel(c, i) # Unknown
     /\ Finished(c, i, i + LabelHorizon))
    => BreakoutLabel(d, j) = BreakoutLabel(c, i)
BarriersKept(c, d) ==
  (1 \in DOMAIN c /\ 1 \in DOMAIN d /\ c[1].date = d[1].date) =>
    \A i \in DOMAIN c :
      BarrierLabel(c, i) # Unknown /\ Finished(c, 1, i + TimeStop) =>
        /\ i \in DOMAIN d /\ d[i].date = c[i].date
        /\ BarrierLabel(d, i) = BarrierLabel(c, i)
LabelsNeverRevised ==
  [][BreakoutsKept(history, history') /\ BarriersKept(history, history')]_history
=============================================================================
