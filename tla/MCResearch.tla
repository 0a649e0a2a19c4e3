------------------------------ MODULE MCResearch ------------------------------
(* The backtest, and where its prices, labels and verdicts come from, for  *)
(* TLC.  One of the four runs in each behaviour.                           *)
EXTENDS MCBacktest, Outcomes, MarketData, Research

Ticks == {-1, 1}

Three == <<"yfinance", "stooq", "other">>
Wiggle == {-1, 2}
Prints == {98, 103, 106, 250}

(* Flat, up by more than the threshold and the target, and down through    *)
(* the stop.                                                               *)
Candles == {Bar(99, 100, 101), Bar(98, 104, 106), Bar(93, 96, 101)}
Measure(accuracy, return, trades) ==
  [accuracy |-> accuracy, gap |-> 1, return |-> return, trades |-> trades]
Measures == {Measure(54, 2, 25), Measure(90, 2, 25)}
Companion(folds, accuracy, return, trades) ==
  [folds |-> folds, accuracy |-> accuracy, gap |-> 1, return |-> return, trades |-> trades]
Companions == {<<>>, <<Companion(2, 51, -1, 10)>>, <<Companion(0, 0, 5, 40)>>}

-----------------------------------------------------------------------------
VARIABLE machine   \* whose behaviour this is

ResearchesInit ==
  /\ machine \in {"backtest", "outcomes", "market", "research"}
  /\ Init /\ OutcomesInit /\ MarketDataInit /\ ResearchInit
  /\ machine # "backtest" => shape = CHOOSE s \in Shapes : TRUE
  /\ machine # "research" => days = <<CHOOSE b \in DayShapes : TRUE>>

BacktestRuns ==
  /\ machine = "backtest" /\ Next
  /\ UNCHANGED <<outcomesVars, marketVars, researchVars, machine>>
OutcomesRun ==
  /\ machine = "outcomes" /\ OutcomesNext
  /\ UNCHANGED <<vars, marketVars, researchVars, machine>>
MarketRuns ==
  /\ machine = "market" /\ MarketDataNext
  /\ UNCHANGED <<vars, outcomesVars, researchVars, machine>>
ResearchRuns ==
  /\ machine = "research" /\ ResearchNext
  /\ UNCHANGED <<vars, outcomesVars, marketVars, machine>>

ResearchesNext == BacktestRuns \/ OutcomesRun \/ MarketRuns \/ ResearchRuns
ResearchesSpec ==
  ResearchesInit /\ [][ResearchesNext]_<<vars, outcomesVars, marketVars, researchVars, machine>>
=============================================================================
