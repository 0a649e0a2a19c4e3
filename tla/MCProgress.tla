------------------------------ MODULE MCProgress ------------------------------
(* What must come to an end in the end, for TLC: the learning window, the  *)
(* backlog of predictions, and the parking of a symbol.  One of the three  *)
(* runs in each behaviour.                                                 *)
EXTENDS MCPredictions, LiveFeed

CONSTANTS TargetDays, DayUnits, MaxCycles, AbortThreshold, Accidents, MaxAccidents

VARIABLES
  machine,   \* whose behaviour this is
  loop, row, cycle, stop, failures, lastDay, midnight, seen, owed, missed,
  futile, accidents

Learning ==
  INSTANCE LearningWindow
    WITH pc <- loop, mishaps <- accidents, Mishaps <- Accidents, MaxMishaps <- MaxAccidents

Everything == {"cycle", "record", "rollup", "signal", "kill"}

windowVars ==
  <<loop, row, cycle, stop, failures, lastDay, midnight, seen, owed, missed, futile, accidents>>
progressVars == <<vars, feedVars, windowVars, machine>>

-----------------------------------------------------------------------------
(* A machine that does not run is at rest in one of its initial states.    *)
ProgressInit ==
  /\ machine \in {"window", "predictions", "feed"}
  /\ Init /\ FeedInit /\ Learning!Init
  /\ machine # "feed" => serving = Symbols
  /\ machine # "window" => midnight = 0

OthersOfWindow == UNCHANGED <<vars, feedVars, machine>>
OthersOfPredictions == UNCHANGED <<windowVars, feedVars, machine>>
OthersOfFeed == UNCHANGED <<vars, windowVars, machine>>

WindowRuns == machine = "window" /\ Learning!Next /\ OthersOfWindow
PredictionsRun == machine = "predictions" /\ Next /\ OthersOfPredictions
FeedRuns == machine = "feed" /\ FeedNext /\ OthersOfFeed

ProgressNext == WindowRuns \/ PredictionsRun \/ FeedRuns

(* The fairness of the three specifications.  The machine never changes,   *)
(* so the steps of different ones are fair together as they are alone.     *)
Goes ==
  \/ machine = "window" /\ Learning!Loop /\ OthersOfWindow
  \/ machine = "predictions" /\ ProcessStep /\ OthersOfPredictions
  \/ machine = "feed" /\ StartFeed /\ OthersOfFeed
Asks ==
  \/ machine = "predictions" /\ BeginCycle /\ OthersOfPredictions
  \/ machine = "feed" /\ (\E s \in Symbols : AskStale(s)) /\ OthersOfFeed
Ticks == machine = "feed" /\ Tick /\ OthersOfFeed
Finishes == machine = "feed" /\ FinishDownload /\ OthersOfFeed

FairProgress ==
  /\ ProgressInit /\ [][ProgressNext]_progressVars
  /\ WF_progressVars(Goes) /\ SF_progressVars(Asks)
  /\ WF_progressVars(Ticks) /\ SF_progressVars(Finishes)

-----------------------------------------------------------------------------
(* A learning window is completed in the end, whatever kills, signals and  *)
(* failures strike the loop of learn; of the behaviours of the window.     *)
WindowCompletes == machine = "window" => Learning!WindowCompletes
=============================================================================
