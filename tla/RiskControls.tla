----------------------------- MODULE RiskControls -----------------------------
(***************************************************************************)
(* The risk engine: the daily and the weekly loss limit, the cap on open   *)
(* positions, the cooldown after a loss, and the size of an entry.         *)
(* Fractions are percentages.  Variants are used by no definition.         *)
(***************************************************************************)
EXTENDS Integers

CONSTANTS
  RiskPerTrade,       \* risk_per_trade, %
  MaxPositionPct,     \* max_position_pct, %
  MaxDailyLossPct,    \* max_daily_loss_pct, %
  MaxWeeklyLossPct,   \* max_weekly_loss_pct, %
  MaxOpenPositions,   \* max_open_positions
  LossCooldownBars    \* loss_cooldown_bars

ASSUME RiskAssumption ==
  /\ {RiskPerTrade, MaxPositionPct, MaxDailyLossPct, MaxWeeklyLossPct}
       \subseteq 1..100
  /\ MaxDailyLossPct <= MaxWeeklyLossPct
  /\ MaxOpenPositions \in Nat \ {0}
  /\ LossCooldownBars \in Nat

(* A loss tracker: the period it is in, once it has seen one, and the      *)
(* equity that period began with.                                          *)
Tracker == [seen : BOOLEAN, period : Nat, start : Int]
NewTracker(equity) == [seen |-> FALSE, period |-> 0, start |-> equity]

(* The variant keeps the baseline it was created with.                     *)
ObservedOnce(tracker, period, equity) ==
  IF ~tracker.seen
  THEN [seen |-> TRUE, period |-> period, start |-> equity] ELSE tracker
Observed(tracker, period, equity) ==
  IF ~tracker.seen \/ period # tracker.period
  THEN [seen |-> TRUE, period |-> period, start |-> equity] ELSE tracker

IsBreached(tracker, equity, limit) ==
  /\ tracker.start > 0
  /\ 100 * (tracker.start - equity) >= limit * tracker.start

NewRisk(equity) == [daily |-> NewTracker(equity), weekly |-> NewTracker(equity),
                    cooldown |-> -1]

ObserveEquity(risk, day, week, equity) ==
  [risk EXCEPT !.daily = Observed(@, day, equity),
               !.weekly = Observed(@, week, equity)]

(* register_trade_close; the variant counts up to the bar before the end.  *)
CooldownTooShort(until, pnl, bar) ==
  IF pnl < 0 /\ LossCooldownBars > 0 THEN bar + LossCooldownBars - 1 ELSE until
CooldownUntil(until, pnl, bar) ==
  IF pnl < 0 /\ LossCooldownBars > 0 THEN bar + LossCooldownBars ELSE until

RegisterTradeClose(risk, pnl, bar) ==
  [risk EXCEPT !.cooldown = CooldownUntil(@, pnl, bar)]

MayOpen(risk, equity, positions, bar) ==
  /\ ~IsBreached(risk.daily, equity, MaxDailyLossPct)
  /\ ~IsBreached(risk.weekly, equity, MaxWeeklyLossPct)
  /\ positions < MaxOpenPositions
  /\ bar >= risk.cooldown

(* position_size: the units whose loss between entry and stop is the risk  *)
(* budget, unless they cost more than a position may.                      *)
Distance(entry, stop) == IF entry > stop THEN entry - stop ELSE stop - entry

PositionSize(equity, entry, stop) ==
  IF equity <= 0 \/ entry <= 0 \/ entry = stop THEN 0
  ELSE LET byRisk == (equity * RiskPerTrade) \div (100 * Distance(entry, stop))
           byCap == (equity * MaxPositionPct) \div (100 * entry)
       IN  IF byRisk * entry * 100 > equity * MaxPositionPct THEN byCap ELSE byRisk
=============================================================================
