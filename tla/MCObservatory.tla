----------------------------- MODULE MCObservatory -----------------------------
(* The learning window, the decisions of a cycle and what is monitored of  *)
(* them, for TLC.  One of the four runs in each behaviour.  Scores are in  *)
(* thousandths of one, prices and weights as the modules say.              *)
EXTENDS MCLearningWindow, Decisions, Monitoring, Ranking, TLC

DefaultConfig ==
  [flowWindow |-> 20, vwapWindow |-> 60, rvolWindow |-> 30,
   wideSpread |-> 8, lowRvol |-> 400, strongImbalance |-> 300, vwapStretch |-> 15,
   riskBlock |-> "extreme", blockOnChop |-> TRUE, blockOnThin |-> TRUE, maxSpread |-> 12,
   weights |-> [technical |-> 35, microstructure |-> 25, macro |-> 20, ml |-> 20],
   actionThreshold |-> 150, minConfidence |-> 350,
   entryOffset |-> 1, stop |-> 1, target |-> 5, minVol |-> 20, maxVol |-> 500,
   calibrationFloor |-> 500, metaFloor |-> 200, baseSlippage |-> 2, featureHistory |-> 30,
   minVolume |-> 20, watchSpread |-> 20, minNotional |-> 100, pumpMove |-> 2000]

-----------------------------------------------------------------------------
(* Feeds: bars, and the indicators computed from them.                     *)
Candle(open, low, close, high, volume) ==
  [open |-> open, low |-> low, close |-> close, high |-> high, volume |-> volume]
Rise(i) == Candle(999 + i, 999 + i, 1000 + i, 1000 + i, 100)
Fall(i) == Candle(1001 - i, 1000 - i, 1000 - i, 1001 - i, 100)
Halt == Candle(1004, 1004, 1004, 1004, 0)
BuyersTape == <<Rise(1), Rise(2), Rise(3), Rise(4), Rise(5)>>
SellersTape == <<Fall(1), Fall(2), Fall(3), Fall(4), Fall(5)>>
QuietTape == <<Rise(1), Rise(2), Rise(3), Rise(4), [Rise(5) EXCEPT !.volume = 10]>>
HaltedTape == <<Rise(1), Halt, Halt, Halt, Rise(5)>>

Bull == [history |-> 240, bars |-> BuyersTape, spread |-> 2, notional |-> 200,
         levels |-> 40, volume24h |-> 50, hourMove |-> 200, trailing |-> 200,
         rsi |-> 35, emaGap |-> 50, hist |-> 20, slope |-> 100, vol |-> 50, mom |-> 60,
         price |-> 10000, atr |-> 100]
Bear == [Bull EXCEPT !.bars = SellersTape, !.rsi = 70, !.emaGap = -50, !.hist = -20,
                     !.slope = -150, !.mom = -60, !.trailing = -600]
Young == [Bull EXCEPT !.history = 10, !.rsi = None, !.emaGap = None, !.hist = None,
                      !.slope = None, !.vol = None, !.mom = None, !.trailing = 0]

Feed ==
  "bull" :> Bull @@
  "bear" :> Bear @@
  "young" :> Young @@
  "wide" :> [Bull EXCEPT !.spread = 9] @@
  "small" :> [Bull EXCEPT !.notional = 120] @@
  "tiny" :> [Bull EXCEPT !.notional = 90] @@
  "pumped" :> [Bull EXCEPT !.hourMove = 2001] @@
  "quiet" :> [Bull EXCEPT !.bars = QuietTape] @@
  "halted" :> [Bull EXCEPT !.bars = HaltedTape] @@
  "chop" :> [Bull EXCEPT !.slope = 59] @@
  "wild" :> [Bull EXCEPT !.vol = 170, !.slope = 200] @@
  "panicky" :> [Bear EXCEPT !.vol = 250] @@
  "calm" :> [Bull EXCEPT !.slope = 61, !.atr = 0] @@
  "deep" :> [Bull EXCEPT !.notional = 1000, !.atr = 900]

(* What the database remembers when the process starts.                    *)
Row(condition, confidence, correct) ==
  [condition |-> condition, confidence |-> confidence, correct |-> correct]
HeldRow == Row(None, 0, None)
Pasts ==
  { <<HeldRow, HeldRow>>,
    <<Row("OPPORTUNISTIC", 756, 0), Row("OPPORTUNISTIC", 883, 1)>>,
    <<Row("OPPORTUNISTIC", 756, 1), Row("OPPORTUNISTIC", 883, 0)>>,
    <<Row("OPPORTUNISTIC", 756, 0), Row("MIXED", 395, 0)>>,
    <<Row("MIXED", 395, 1), Row("ILLIQUID", 756, 0)>>,
    <<Row("OPPORTUNISTIC", 883, 1), Row("OPPORTUNISTIC", 756, 0), Row("OPPORTUNISTIC", 756, 0)>> }

-----------------------------------------------------------------------------
(* What a cycle may see of two symbols, and what it may have shown.        *)
Symbol(score, condition) == [score |-> score, condition |-> condition]
Views == { << Symbol(900, "CALM"), Symbol(700, "CALM") >>,
           << Symbol(100, "PANIC"), Symbol(300, "ILLIQUID") >> }
Shown(evaluated, drawdown, accuracy, recent) ==
  [evaluated |-> evaluated, drawdown |-> drawdown, accuracy |-> accuracy, recent |-> recent,
   fake |-> 0, regimes |-> 5, spread |-> 5, failures |-> 0]
Showings == {Shown(600, 0, 65, 70), Shown(60, 0, 80, 35)}

-----------------------------------------------------------------------------
(* Stocks of a universe: one without a score that is better than another   *)
(* with one, a bad one the model likes, a mixed one and an illiquid one.   *)
Look(momentum, trend, ml) ==
  [momentum |-> momentum, trend |-> trend, reversion |-> 1, low_vol |-> -1,
   ml |-> ml, dollars |-> 20]
SomeLooks == {Look(6, 4, 3), Look(6, 5, NoScore), Look(-6, -4, 9), Look(9, -5, 3),
              [Look(6, 4, 3) EXCEPT !.dollars = 5]}
Blend == [momentum |-> 35, trend |-> 25, reversion |-> 15, low_vol |-> 15, ml |-> 10]
ThreeStocks == <<"first", "second", "third">>

-----------------------------------------------------------------------------
VARIABLE machine   \* whose behaviour this is

ObservatoryInit ==
  /\ machine \in {"window", "decisions", "monitor", "ranking"}
  /\ IF machine = "window" THEN Init
     ELSE /\ pc = "down" /\ row = NoRow /\ cycle = 0 /\ stop = FALSE
          /\ failures = 0 /\ lastDay = "none" /\ midnight = 0
          /\ seen = FALSE /\ owed = FALSE /\ missed = FALSE
          /\ futile = 0 /\ mishaps = 0
  /\ IF machine = "decisions" THEN DecisionsInit
     ELSE /\ outcomes = <<>> /\ last = None /\ held = FALSE
          /\ modelTrained = FALSE /\ metaTrained = FALSE
  /\ MonitoringInit /\ RankingInit

WindowRuns ==
  /\ machine = "window" /\ Next
  /\ UNCHANGED <<decisionsVars, monitoringVars, rankingVars, machine>>
DecisionsRun ==
  /\ machine = "decisions" /\ DecisionsNext
  /\ UNCHANGED <<vars, monitoringVars, rankingVars, machine>>
MonitorRuns ==
  /\ machine = "monitor" /\ MonitoringNext
  /\ UNCHANGED <<vars, decisionsVars, rankingVars, machine>>
RankingRuns ==
  /\ machine = "ranking" /\ RankingNext
  /\ UNCHANGED <<vars, decisionsVars, monitoringVars, machine>>

ObservatoryNext == WindowRuns \/ DecisionsRun \/ MonitorRuns \/ RankingRuns
ObservatorySpec ==
  ObservatoryInit
    /\ [][ObservatoryNext]_<<vars, decisionsVars, monitoringVars, rankingVars, machine>>
=============================================================================
