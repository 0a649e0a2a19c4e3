-------------------------------- MODULE Signals --------------------------------
(***************************************************************************)
(* The four analysis layers and the kill switch, as functions of what the  *)
(* feed shows of a symbol.                                                 *)
(*                                                                         *)
(* Scores and confidences are in thousandths, divided towards zero.  A     *)
(* tape is a record: the number of candles (history), the last of them     *)
(* (bars), the readings of the indicator library, each None while its      *)
(* window is not full (rsi in percent; emaGap, hist, mom, vol and the      *)
(* returns in basis points; slope in tenths of one), the quote's       *)
(* spread in basis points, or None when one side is empty.                 *)
(***************************************************************************)
EXTENDS Integers, Sequences, FiniteSetsExt, Functions

CONSTANTS
  Config,   \* the sections of AppConfig the analysis reads, as one record
  None      \* no value

Risks == <<"low", "medium", "high", "extreme">>

ASSUME SignalsAssumption ==
  /\ None \notin Int
  /\ {Config.flowWindow, Config.vwapWindow, Config.rvolWindow,
      Config.strongImbalance, Config.vwapStretch} \subseteq Nat \ {0}
  /\ Config.riskBlock \in Range(Risks)
  /\ {Config.blockOnChop, Config.blockOnThin} \subseteq BOOLEAN

(* What the feed may show of a symbol.                                     *)
IsBar(b) ==
  /\ {b.open, b.low, b.close, b.high} \subseteq Nat \ {0} /\ b.volume \in Nat
  /\ b.low <= b.open /\ b.open <= b.high /\ b.low <= b.close /\ b.close <= b.high
IsTape(t) ==
  /\ t.bars \in Seq(Range(t.bars)) /\ \A b \in Range(t.bars) : IsBar(b)
  /\ {t.rsi, t.emaGap, t.hist, t.slope, t.mom} \subseteq Int \cup {None}
  /\ {t.vol, t.spread} \subseteq Nat \cup {None}
  /\ {t.history, t.notional} \subseteq Nat
  /\ t.atr \in Int

One == 1000

(* Division towards zero, of either sign.                                  *)
Quot(a, b) == IF a >= 0 THEN a \div b ELSE -((-a) \div b)
Abs(a) == IF a >= 0 THEN a ELSE -a
Within(x, lo, hi) == Max({lo, Min({hi, x})})
Clip(x) == Within(x, -One, One)
Share(a, b) == Quot(a * One, b)
Or(x, default) == IF x = None THEN default ELSE x

LastBars(bars, n) == SubSeq(bars, Max({1, Len(bars) - n + 1}), Len(bars))

-----------------------------------------------------------------------------
(* Microstructure.                                                         *)

(* max(volume, 1e-9): with no volume at all every bar weighs the same.     *)
Weights(bars) ==
  LET silent == \A i \in DOMAIN bars : bars[i].volume = 0
  IN  [i \in DOMAIN bars |-> IF silent THEN 1 ELSE bars[i].volume]

CloseInRange(bar) ==
  LET rng == bar.high - bar.low
  IN  IF rng <= 0 THEN 0 ELSE Share(2 * (bar.close - bar.low), rng) - One

OrderFlowImbalance(candles) ==
  LET bars == LastBars(candles, Config.flowWindow)
      w == Weights(bars)
  IN  Clip(Quot(SumFunction([i \in DOMAIN bars |-> w[i] * CloseInRange(bars[i])]),
                SumFunction(w)))

(* (price - vwap) / vwap, over three times the typical price.              *)
VwapStretch(candles) ==
  LET bars == LastBars(candles, Config.vwapWindow)
      w == Weights(bars)
      paid == SumFunction([i \in DOMAIN bars |->
                 w[i] * (bars[i].high + bars[i].low + bars[i].close)])
  IN  Share(3 * candles[Len(candles)].close * SumFunction(w) - paid, paid)

RelativeVolume(candles) ==
  LET bars == LastBars(candles, Config.rvolWindow)
      total == SumFunction([i \in DOMAIN bars |-> bars[i].volume])
  IN  IF total <= 0 THEN One
      ELSE Share(candles[Len(candles)].volume * Len(bars), total)

Frozen(bar) ==
  bar.volume <= 0 /\ bar.high = bar.low /\ bar.low = bar.open /\ bar.open = bar.close

HaltLookback == 5
DetectHalt(candles) ==
  Quantify(DOMAIN LastBars(candles, HaltLookback),
           LAMBDA i : Frozen(LastBars(candles, HaltLookback)[i])) >= 3

(* The regime, and whether it is a chop zone.                              *)
Regime(tape) ==
  LET wild == tape.vol > 120
      weak == Abs(tape.slope) < 60
      is(label, chop) == [label |-> label, chop |-> chop]
  IN  IF tape.history < 30 \/ tape.slope = None \/ tape.vol = None THEN is("range", FALSE)
      ELSE IF wild /\ weak THEN is("volatile", TRUE)
      ELSE IF weak THEN is("chop", TRUE)
      ELSE IF wild THEN is("volatile", FALSE)
      ELSE IF tape.slope > 0 THEN is("trend_up", FALSE)
      ELSE is("trend_down", FALSE)

WideSpread(tape) == tape.spread # None /\ tape.spread > Config.wideSpread

(* No tape: an honest neutral signal.                                      *)
NoTape == [score |-> 0, confidence |-> 100, imbalance |-> 0,
           regime |-> "range", thin |-> TRUE, chop |-> FALSE]

If(condition, amount) == IF condition THEN amount ELSE 0

Microstructure(tape) ==
  IF tape.bars = <<>> THEN NoTape
  ELSE
  LET imbalance == OrderFlowImbalance(tape.bars)
      regime == Regime(tape)
      wide == WideSpread(tape)
      quiet == RelativeVolume(tape.bars) < Config.lowRvol
      halted == DetectHalt(tape.bars)
      flow == Clip(Share(imbalance, Config.strongImbalance))
      reversion == Clip(Share(-VwapStretch(tape.bars), Config.vwapStretch))
  IN  [score |-> Clip(Quot(65 * flow + 35 * reversion, 100)),
       confidence |-> Within(600 + Quot(Abs(flow), 5)
                               - If(wide, 250) - If(quiet, 200)
                               - If(regime.chop, 200) - If(halted, 350), 0, One),
       imbalance |-> imbalance,
       regime |-> regime.label,
       thin |-> quiet \/ wide \/ halted,
       chop |-> regime.chop]

-----------------------------------------------------------------------------
(* Technical: each reading the library could give casts a weighted vote;   *)
(* a stretched RSI outweighs the trend.                                    *)
RsiWeight(rsi) == 10 + Quot(55 * Min({25, Abs(rsi - 50)}), 25)

Votes(tape) ==
  LET vote(reading, score, weight) ==
        IF reading = None THEN <<>> ELSE << [score |-> Clip(score), weight |-> weight] >>
      rsi == Or(tape.rsi, 50)
  IN  vote(tape.rsi, Share(50 - rsi, 30), RsiWeight(rsi))
      \o vote(tape.emaGap, 10 * Or(tape.emaGap, 0), 8)
      \o vote(tape.hist, 25 * Or(tape.hist, 0), 6)
      \o vote(tape.slope, 5 * Or(tape.slope, 0), 8)
      \o vote(tape.mom, 5 * Or(tape.mom, 0), 6)

(* The standard deviation, rounded down and at most one.                   *)
Spread(scores) ==
  LET n == Len(scores)
      total == SumFunction(scores)
      squares == SumFunction([i \in DOMAIN scores |-> scores[i] * scores[i]])
      variance == (n * squares - total * total) \div (n * n)
  IN  Max({0} \cup {r \in 1..One : r * r <= variance})

Technical(tape) ==
  LET votes == Votes(tape)
      weight == SumFunction([i \in DOMAIN votes |-> votes[i].weight])
  IN  IF votes = <<>> THEN [score |-> 0, confidence |-> 0]
      ELSE [score |-> Clip(Quot(SumFunction([i \in DOMAIN votes |->
                                  votes[i].weight * votes[i].score]), weight)),
            confidence |-> Within(350
              + Quot(2 * (One - Spread([i \in DOMAIN votes |-> votes[i].score])), 5)
              + 50 * Len(votes), 0, One)]

-----------------------------------------------------------------------------
(* Machine learning: P(up) in thousandths, or None without a model, with   *)
(* an untrained one, or when a feature is missing.                         *)
MlSignal(up) ==
  IF up = None THEN [score |-> 0, confidence |-> 0]
  ELSE [score |-> Clip(2 * up - One), confidence |-> Within(Abs(2 * up - One), 0, One)]

-----------------------------------------------------------------------------
(* Macro: a table of regimes.                                              *)
Rank(risk) == CHOOSE r \in DOMAIN Risks : Risks[r] = risk

Scenario(score, confidence, risk) ==
  [score |-> score, confidence |-> confidence, risk |-> risk]

Scenarios ==
  [risk_on              |-> Scenario(700, 850, "low"),
   institutional_buying |-> Scenario(800, 880, "low"),
   fed_dovish           |-> Scenario(620, 800, "low"),
   neutral              |-> Scenario(0, 400, "medium"),
   fed_hawkish          |-> Scenario(-450, 720, "medium"),
   risk_off             |-> Scenario(-550, 750, "high"),
   panic                |-> Scenario(-850, 900, "high"),
   war                  |-> Scenario(-800, 920, "extreme"),
   credit_crisis        |-> Scenario(-950, 950, "extreme")]

(* The mock analyzer reads the regime off the candles.                     *)
Derive(tape) ==
  LET vol == Or(tape.vol, 0)
  IN  IF tape.history < 30 THEN "neutral"
      ELSE IF vol > 200 THEN IF tape.trailing < 0 THEN "panic" ELSE "risk_off"
      ELSE IF tape.trailing > 500 /\ vol < 100 THEN "institutional_buying"
      ELSE IF tape.trailing > 150 THEN "risk_on"
      ELSE IF tape.trailing < -500 THEN "risk_off"
      ELSE "neutral"

(* What comes back from Gemini: a label, anything else, or no answer (no   *)
(* key, no network, an error), for which the mock stands in.               *)
Classified(reply) == IF reply \in DOMAIN Scenarios THEN reply ELSE "neutral"
MacroRegime(tape, reply) ==
  IF reply = None THEN Derive(tape) ELSE Classified(reply)

-----------------------------------------------------------------------------
(* The kill switch.                                                        *)
CriticalRegimes == {"war", "credit_crisis", "panic"}

MacroTriggered(regime) ==
  \/ regime \in CriticalRegimes
  \/ Rank(Scenarios[regime].risk) >= Rank(Config.riskBlock)

MicroTriggeredBySpread(micro, spread) ==
  \/ Config.blockOnChop /\ micro.chop
  \/ spread # None /\ spread > Config.maxSpread

MicroTriggered(micro, spread) ==
  \/ Config.blockOnChop /\ micro.chop
  \/ Config.blockOnThin /\ micro.thin
  \/ spread # None /\ spread > Config.maxSpread

KillSwitch(micro, regime, spread) ==
  MacroTriggered(regime) \/ MicroTriggered(micro, spread)
=============================================================================
