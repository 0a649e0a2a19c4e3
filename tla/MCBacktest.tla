------------------------------ MODULE MCBacktest ------------------------------
(* Small instances of Backtest for TLC.                                    *)
EXTENDS Backtest

Bar(low, close, high) == [low |-> low, close |-> close, high |-> high]

(* Calm, falling to the stop, through the stop at once, rising to the      *)
(* target, and wide enough for both.                                       *)
AllShapes == {Bar(99, 100, 102), Bar(90, 95, 99), Bar(60, 65, 70),
              Bar(100, 115, 120), Bar(85, 100, 125)}
=============================================================================
