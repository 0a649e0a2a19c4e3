------------------------------- MODULE Decisions -------------------------------
(***************************************************************************)
(* One symbol, observed cycle after cycle: the analysis is fused into a    *)
(* decision, the decision and the state of the symbol are recorded, and    *)
(* the gates, which learn from how earlier predictions turned out, let an  *)
(* entry through or not.                                                   *)
(*                                                                         *)
(* Confidences and scores are in thousandths, prices in the unit they are  *)
(* rounded to (at least 10000 of them: a dollar has four decimals and a    *)
(* hundred dollars two).                                                   *)
(***************************************************************************)
EXTENDS SafetyScore

CONSTANTS
  Tapes,              \* what the feed may show: a function from names to tapes
  Replies,            \* what Gemini may answer, None for no answer
  Ups,                \* the model's P(up), in thousandths
  Wins,               \* the meta-model's P(win), in thousandths
  OutcomesLimit,      \* outcomes(limit=500)
  RegimeMinSamples,
  CalibrationMinSamples,
  SymbolMinSamples,   \* 5
  ReliableMinSamples, \* 10
  Histories,          \* outcomes an earlier life may have left
  MaxOutcomes         \* bound: evaluated predictions

ASSUME DecisionsAssumption ==
  /\ Replies # {} /\ Wins \subseteq 0..One /\ Ups \subseteq 0..One \cup {None}
  /\ OutcomesLimit \in Nat \ {0}
  /\ RegimeMinSamples \in Nat \ {0} /\ CalibrationMinSamples \in Nat \ {0}
  /\ SymbolMinSamples \in Nat /\ ReliableMinSamples \in Nat \ {0}
  /\ MaxOutcomes \in Nat
  /\ \A n \in DOMAIN Tapes :
       IsTape(Tapes[n]) /\ Tapes[n].price \in Nat /\ Tapes[n].price >= 10 * One
  /\ Histories \subseteq Seq([condition : Range(Severity) \cup {None}, confidence : 0..One,
                             correct : {0, 1, None}])
  /\ {Config.weights.technical, Config.weights.microstructure, Config.weights.macro,
      Config.weights.ml, Config.entryOffset, Config.minConfidence, Config.baseSlippage} \subseteq Nat
  /\ \E w \in {Config.weights.technical, Config.weights.microstructure, Config.weights.macro,
               Config.weights.ml} : w > 0
  /\ {Config.stop, Config.target, Config.minVol, Config.maxVol, Config.actionThreshold}
       \subseteq Nat \ {0}
  /\ Config.minVol < Config.maxVol

VARIABLES
  outcomes,     \* prediction_outcomes joined with predictions, oldest first
  last,         \* the rows this cycle wrote, None when it begins
  held,         \* a position is open
  modelTrained, \* pipeline.model
  metaTrained   \* meta_model.is_trained

decisionsVars == <<outcomes, last, held, modelTrained, metaTrained>>

-----------------------------------------------------------------------------
(* Fusion.                                                                 *)
Layer(signal, weight) ==
  [score |-> signal.score, confidence |-> signal.confidence, weight |-> weight]

Layers(tape, reply, up) ==
  << Layer(Technical(tape), Config.weights.technical),
     Layer(Microstructure(tape), Config.weights.microstructure),
     Layer(Scenarios[MacroRegime(tape, reply)], Config.weights.macro),
     Layer(MlSignal(up), Config.weights.ml) >>

Sign(x) == CASE x > 0 -> 1 [] x < 0 -> -1 [] OTHER -> 0

Effective(l) == l.weight * l.confidence
Credence(layers) == SumFunction([i \in DOMAIN layers |-> Effective(layers[i])])
WeightOf(layers) == SumFunction([i \in DOMAIN layers |-> layers[i].weight])
WeightedConfidence(layers) == Quot(Credence(layers), WeightOf(layers))

Fused(layers) ==
  IF Credence(layers) <= 0 THEN 0
  ELSE Clip(Quot(SumFunction([i \in DOMAIN layers |-> Effective(layers[i]) * layers[i].score]),
                 Credence(layers)))

(* Layers without a direction count half.                                  *)
Agreement(layers) ==
  LET s == Sign(Fused(layers))
      share(l) == CASE s = 0 \/ Sign(l.score) = 0 -> 500
                    [] s # 0 /\ Sign(l.score) = s -> One
                    [] OTHER -> 0
  IN  Quot(SumFunction([i \in DOMAIN layers |-> layers[i].weight * share(layers[i])]),
           WeightOf(layers))

Confidence(layers) ==
  Within(Quot(73 * WeightedConfidence(layers)
              + 15 * Min({One, 2 * Abs(Fused(layers))})
              + 10 * Agreement(layers), 100), 0, One)

Action(layers, killed) ==
  CASE killed \/ Abs(Fused(layers)) < Config.actionThreshold
              \/ Confidence(layers) < Config.minConfidence -> "hold"
    [] ~killed /\ Abs(Fused(layers)) >= Config.actionThreshold
              /\ Confidence(layers) >= Config.minConfidence ->
         IF Fused(layers) > 0 THEN "buy" ELSE "sell"

(* Latest ATR(14); no value on a short history.                            *)
Atr(tape) == IF tape.history < 15 \/ tape.atr <= 0 THEN None ELSE tape.atr

(* The volatility unit, between its floor and its cap, in basis points.    *)
VolatilityUnit(price, atr) ==
  LET frac == Within(Quot(Or(atr, 0) * 10 * One, price), Config.minVol, Config.maxVol)
  IN  Quot(price * frac, 10 * One)

TradeLevels(action, price, atr) ==
  LET side == IF action = "buy" THEN 1 ELSE -1
      unit == VolatilityUnit(price, atr)
      entry == price - side * Config.entryOffset * unit
  IN  IF action = "hold" THEN None
      ELSE [entry |-> entry,
            stop |-> entry - side * Config.stop * unit,
            target |-> entry + side * Config.target * unit]

(* What TradingDecision validates; anything else raises.                   *)
Consistent(action, l) ==
  \/ action = "hold"
  \/ /\ l.entry > 0 /\ l.stop > 0 /\ l.target > 0
     /\ \/ action = "buy" /\ l.stop < l.entry /\ l.entry < l.target
        \/ action = "sell" /\ l.target < l.entry /\ l.entry < l.stop

(* AnalysisPipeline.analyze: the four layers, then the veto, the fusion    *)
(* and the levels.                                                         *)
LayersOf(n, reply, up) ==
  [tape |-> n, up |-> up, micro |-> Microstructure(Tapes[n]),
   regime |-> MacroRegime(Tapes[n], reply), layers |-> Layers(Tapes[n], reply, up)]

Analyze(v) ==
  LET tape == Tapes[v.tape]
      killed == KillSwitch(v.micro, v.regime, tape.spread)
      action == Action(v.layers, killed)
  IN  [tape |-> v.tape, up |-> v.up, micro |-> v.micro, regime |-> v.regime,
       action |-> action, confidence |-> Confidence(v.layers), killed |-> killed,
       levels |-> TradeLevels(action, tape.price, Atr(tape))]

(* Computed once: the analysis has no memory.                              *)
Layered == {LayersOf(n, reply, up) : n \in DOMAIN Tapes, reply \in Replies, up \in Ups \cup {None}}
Analyses == {Analyze(v) : v \in Layered}

-----------------------------------------------------------------------------
(* What was learned: the evaluated directional predictions among the       *)
(* newest outcomes.  A hold has no verdict; the variant keeps the oldest.  *)
OldestOutcomes == SubSeq(outcomes, 1, Min({Len(outcomes), OutcomesLimit}))
Recent == LastBars(outcomes, OutcomesLimit)
Judged == {i \in DOMAIN Recent : Recent[i].correct # None}
Right(S) == {i \in S : Recent[i].correct = 1}
In(condition) == {i \in Judged : Recent[i].condition = condition}

Accuracy(S) == Quot(100 * Cardinality(Right(S)), Cardinality(S))
RecentAccuracy ==
  IF Cardinality(Judged) >= ReliableMinSamples THEN Accuracy(Judged) ELSE None
SymbolAccuracy ==
  IF Judged # {} /\ Cardinality(Judged) >= SymbolMinSamples
  THEN Accuracy(Judged) ELSE RecentAccuracy

(* The break-even win rate is 1 / (1 + reward:risk).                       *)
RegimeAllows(condition) ==
  \/ Cardinality(In(condition)) < RegimeMinSamples
  \/ Cardinality(Right(In(condition))) * (Config.stop + Config.target)
       >= Cardinality(In(condition)) * Config.stop

(* Isotonic regression: at a sample, the largest over what lies below of   *)
(* the least mean over what lies above; linear between samples, flat       *)
(* beyond them.                                                            *)
Stated == {Recent[i].confidence : i \in Judged}
MeanOver(lo, hi) ==
  LET S == {i \in Judged : lo <= Recent[i].confidence /\ Recent[i].confidence <= hi}
  IN  Share(Cardinality(Right(S)), Cardinality(S))
IsotonicAt(c) ==
  Max({Min({MeanOver(lo, hi) : hi \in {h \in Stated : h >= c}})
         : lo \in {l \in Stated : l <= c}})

Fitted ==
  /\ Cardinality(Judged) >= Max({2, CalibrationMinSamples})
  /\ Right(Judged) # {} /\ Right(Judged) # Judged

Calibrate(c) ==
  LET below == {x \in Stated : x <= c}
      above == {x \in Stated : x >= c}
      a == Max(below)
      b == Min(above)
  IN  IF ~Fitted THEN c
      ELSE IF below = {} THEN IsotonicAt(Min(above))
      ELSE IF above = {} THEN IsotonicAt(Max(below))
      ELSE IF a = b THEN IsotonicAt(a)
      ELSE IsotonicAt(a) + Quot((IsotonicAt(b) - IsotonicAt(a)) * (c - a), b - a)

CalibrationAllows(c) == ~Fitted \/ Calibrate(c) >= Config.calibrationFloor
MetaAllows(win) == ~metaTrained \/ win >= Config.metaFloor

(* The first gate to object; the variant skips those that learn from the   *)
(* outcomes.                                                               *)
ObjectionToRegime(condition, confidence, win) ==
  IF ~MetaAllows(win) THEN "meta" ELSE "none"
Objection(condition, confidence, win) ==
  IF ~RegimeAllows(condition) THEN "regime"
  ELSE IF ~CalibrationAllows(confidence) THEN "calibration"
  ELSE IF ~MetaAllows(win) THEN "meta"
  ELSE "none"

-----------------------------------------------------------------------------
DecisionsInit ==
  /\ outcomes \in Histories
  /\ last = None
  /\ held = FALSE
  /\ modelTrained = FALSE
  /\ metaTrained = FALSE

Measures(tape, a) ==
  [notional |-> tape.notional, volatility |-> Or(tape.vol, 0),
   spread |-> 10 * Or(tape.spread, 0),
   slippage |-> 10 * Config.baseSlippage + 5 * Or(tape.spread, 0),
   trend |-> Min({1200, 5 * Abs(Or(tape.slope, 0))}),
   imbalance |-> a.micro.imbalance, chop |-> a.micro.chop,
   panic |-> a.regime \in CriticalRegimes \/ MacroTriggered(a.regime),
   accuracy |-> SymbolAccuracy, reliability |-> RecentAccuracy, drawdown |-> 0]

(* _observe_symbol: with the market closed nothing is predicted, and so    *)
(* nothing entered.  `permitted' is the risk engine's and the sizing's     *)
(* word.                                                                   *)
ObserveSymbol(a, win, open, permitted) ==
  LET tape == Tapes[a.tape]
      m == Measures(tape, a)
      score == Score(m)
      condition == Condition(m, score)
      objection == Objection(condition, a.confidence, win)
      entered == /\ open /\ permitted
                 /\ a.action = "buy" /\ ~a.killed
                 /\ ~held /\ Approved(tape)
                 /\ objection = "none"
  IN  /\ last = None
      /\ a.up # None => modelTrained /\ tape.history >= Config.featureHistory
      /\ last' = [tape |-> a.tape, regime |-> a.regime, open |-> open,
                  direction |-> a.action, confidence |-> a.confidence,
                  levels |-> a.levels, condition |-> condition,
                  grade |-> StatusForScore(score),
                  status |-> SymbolStatus(tape, condition, score, a.killed),
                  gate |-> CASE ~open \/ a.action = "hold" -> "unasked"
                             [] open /\ a.action # "hold" -> objection,
                  entered |-> entered]
      /\ held' = (held \/ entered)
      /\ UNCHANGED <<outcomes, modelTrained, metaTrained>>

(* The next run_once, with the prediction not yet matured.                 *)
NextCycle ==
  /\ last # None
  /\ last' = None
  /\ UNCHANGED <<outcomes, held, modelTrained, metaTrained>>

(* A recorded prediction matures: right or wrong, or neither for a hold.   *)
Mature ==
  /\ last # None
  /\ last.open
  /\ Len(outcomes) < MaxOutcomes
  /\ \E verdict \in IF last.direction = "hold" THEN {None} ELSE {0, 1} :
       outcomes' = Append(outcomes,
         IF verdict = None THEN [condition |-> None, confidence |-> 0, correct |-> None]
         ELSE [condition |-> last.condition, confidence |-> last.confidence,
               correct |-> verdict])
  /\ last' = None
  /\ UNCHANGED <<held, modelTrained, metaTrained>>

(* _manage_positions closes it.                                            *)
ClosePaperTrade ==
  /\ held
  /\ held' = FALSE
  /\ UNCHANGED <<outcomes, last, modelTrained, metaTrained>>

(* _train_model_idle, while the market is closed: the meta-model is not    *)
(* always trained along with the model.                                    *)
TrainModelIdle ==
  /\ ~modelTrained \/ ~metaTrained
  /\ modelTrained' = TRUE
  /\ metaTrained' \in {metaTrained, TRUE}
  /\ UNCHANGED <<outcomes, last, held>>

DecisionsNext ==
  \/ \E a \in Analyses, win \in IF metaTrained THEN Wins ELSE {0}, open \in BOOLEAN :
       \E permitted \in {open, FALSE} : ObserveSymbol(a, win, open, permitted)
  \/ NextCycle
  \/ Mature
  \/ ClosePaperTrade
  \/ TrainModelIdle

DecisionsSpec == DecisionsInit /\ [][DecisionsNext]_decisionsVars

-----------------------------------------------------------------------------
Conditions == {Severity[i] : i \in DOMAIN Severity}

(* The rows keep their ranges.                                             *)
DecisionsTypeOK ==
  /\ outcomes \in Seq([condition : Conditions \cup {None}, confidence : 0..One,
                       correct : {0, 1, None}])
  /\ last # None =>
       /\ last.direction \in {"buy", "sell", "hold"}
       /\ last.confidence \in 0..One
       /\ last.condition \in Conditions
       /\ last.gate \in {"none", "regime", "calibration", "meta", "unasked"}
       /\ last.entered \in BOOLEAN
  /\ held \in BOOLEAN /\ modelTrained \in BOOLEAN /\ metaTrained \in BOOLEAN

(* Whatever the other layers say, nothing is proposed on a frozen tape, in *)
(* a trendless or a one-sided market, across a wide spread or in a regime  *)
(* of systemic stress: read off the raw feed, not off the signals.         *)
Stressed == {"panic", "war", "credit_crisis"}
RawHazard(tape) ==
  \/ \E i, j, k \in DOMAIN tape.bars :
       /\ i < j /\ j < k /\ i > Len(tape.bars) - 5
       /\ \A x \in {i, j, k} : tape.bars[x].volume = 0
                            /\ tape.bars[x].high = tape.bars[x].low
  \/ tape.spread # None /\ tape.spread > 8
  \/ tape.history >= 30 /\ tape.slope # None /\ tape.vol # None /\ Abs(tape.slope) < 60
HazardIsHeld ==
  last # None /\ (RawHazard(Tapes[last.tape]) \/ last.regime \in Stressed)
    => last.direction = "hold"

(* The dashboard never warns off a symbol that is entered in the same      *)
(* observation, but for a book between the two thresholds of illiquidity.  *)
EntryIsNotCondemned ==
  last # None /\ last.entered =>
    /\ last.status \in {"GOOD_PAPER_CONDITIONS", "WATCH_ONLY", "TOO_ILLIQUID"}
    /\ last.status = "TOO_ILLIQUID" => Tapes[last.tape].notional \in 100..149
    /\ last.condition \notin {"PANIC", "CHOPPY"}

(* A symbol whose recent predictions were mostly wrong is not graded safe, *)
(* and neither is one that a hazard condition is stored for.               *)
GradeRemembersErrors ==
  last # None /\ last.grade = "SAFE_TO_OBSERVE" =>
    /\ last.condition \notin {"PANIC", "ILLIQUID", "CHOPPY"}
    /\ LET newest == LastBars(outcomes, OutcomesLimit)
           n(v) == Cardinality({i \in DOMAIN newest : newest[i].correct = v})
       IN  n(0) + n(1) >= SymbolMinSamples => n(1) * 100 >= 45 * (n(0) + n(1))

(* A decision never fails its own validation, which would cost the cycle   *)
(* the symbol.                                                             *)
LevelsStraddle ==
  last # None => Consistent(last.direction, last.levels)

(* An entry is not made where the newest evidence, once there is enough,   *)
(* is below break-even, and never while a gate objects to it.              *)
WeakRegime(condition) ==
  LET newest == LastBars(outcomes, OutcomesLimit)
      n(v) == Cardinality({i \in DOMAIN newest :
                             newest[i].condition = condition /\ newest[i].correct = v})
  IN  /\ n(0) + n(1) >= RegimeMinSamples
      /\ n(1) * (Config.stop + Config.target) < (n(0) + n(1)) * Config.stop
EntryHasEvidence ==
  [][held' /\ ~held => ~WeakRegime(last'.condition) /\ last'.gate = "none"]_decisionsVars

(* More stated confidence never turns an admitted entry into a blocked     *)
(* one: as fitted at the start of a cycle, calibration keeps the order of  *)
(* the confidences.                                                        *)
CalibrationIsMonotone ==
  last = None => \A c \in {100 * x : x \in 0..9} : Calibrate(c) <= Calibrate(c + 100)

(* The parts of a decision agree with each other and with the memory they  *)
(* were made from.                                                         *)
DecisionsAreSound ==
  /\ DecisionsTypeOK /\ LevelsStraddle /\ CalibrationIsMonotone
  /\ EntryIsNotCondemned /\ GradeRemembersErrors
=============================================================================
