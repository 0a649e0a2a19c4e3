------------------------------- MODULE Backtest -------------------------------
(***************************************************************************)
(* Backtester.run: the replay of a series of bars with the paper broker    *)
(* and the risk engine.  In each bar the loss limits see the equity, an    *)
(* open trade is checked for its exit, and without an open trade the       *)
(* analysis may ask for an entry.  What the analysis says is free; the     *)
(* bars come from a small set of shapes.                                   *)
(***************************************************************************)
EXTENDS PaperBroker, RiskControls

CONSTANTS
  Shapes,          \* the bars there are: [low, close, high]
  Units,           \* the volatility units there are
  LastBar,         \* bound: the number of bars after the warm-up
  BarsPerDay, DaysPerWeek,
  FillableWorth,   \* what one order may fill: the assumed liquidity times
                   \* partial_fill_liquidity_frac
  EntryOffset,     \* entry_offset_vol_mult
  StopDistance,    \* stop_vol_mult
  TargetDistance,  \* target_vol_mult
  TimeStopBars,    \* time_stop_bars
  NoTrade          \* no trade is open

Levels == [entry : Nat \ {0}, stop : Nat \ {0}, target : Nat \ {0}]

LevelsOf(close, unit) ==
  LET entry == close - EntryOffset * unit
  IN  [entry |-> entry,
       stop |-> entry - StopDistance * unit,
       target |-> entry + TargetDistance * unit]

ASSUME BacktestAssumption ==
  /\ Shapes \subseteq [low : Nat \ {0}, close : Nat \ {0}, high : Nat \ {0}]
  /\ \A s \in Shapes : s.low <= s.close /\ s.close <= s.high
  /\ Units \subseteq Nat \ {0}
  /\ {LastBar, EntryOffset, TimeStopBars} \subseteq Nat
  /\ {BarsPerDay, DaysPerWeek, FillableWorth, StopDistance, TargetDistance}
       \subseteq Nat \ {0}
  /\ \A s \in Shapes : s.close <= FillableWorth
  /\ \A s \in Shapes, u \in Units : LevelsOf(s.close, u) \in Levels
  /\ NoTrade \notin [stop : Nat, target : Nat, quantity : Nat, opened : Nat]

VARIABLES
  pc,       \* where the loop body is
  bar,      \* i, counted from the first bar after the warm-up
  shape,    \* the bar itself
  broker,   \* the account
  risk,     \* the risk engine
  trade,    \* open_trade
  lostAt,   \* the bar of the last trade recorded with a loss; 0 for none
  opening   \* the equity at the first bar of the day

vars == <<pc, bar, shape, broker, risk, trade, lostAt, opening>>

-----------------------------------------------------------------------------
DayOf(i) == i \div BarsPerDay
WeekOf(i) == DayOf(i) \div DaysPerWeek

Fillable == FillableWorth \div shape.close
Worth == Equity(broker, shape.close)

(* _exit_price; the variants look at the target first, and at the clock    *)
(* one bar late.                                                           *)
StopHit == shape.low <= trade.stop
TargetHit == shape.high >= trade.target

TimeUpLate == 0 < TimeStopBars /\ TimeStopBars < bar - trade.opened
TimeUp == 0 < TimeStopBars /\ TimeStopBars <= bar - trade.opened

TargetFirst ==
  IF TargetHit THEN trade.target ELSE IF StopHit THEN trade.stop ELSE shape.close
ExitPrice ==
  IF StopHit THEN trade.stop ELSE IF TargetHit THEN trade.target ELSE shape.close

(* The quantity a trade remembers: what was filled, not what was asked.    *)
Remembered(asked, filled) == filled

-----------------------------------------------------------------------------
Init ==
  /\ pc = "observing"
  /\ bar = 0
  /\ shape \in Shapes
  /\ broker = NewBroker
  /\ risk = NewRisk(StartingCash)
  /\ trade = NoTrade
  /\ lostAt = 0
  /\ opening = StartingCash

(* The next bar, marked at its close.                                      *)
ObserveBar ==
  /\ pc = "observing"
  /\ bar < LastBar
  /\ bar' = bar + 1
  /\ shape' \in Shapes
  /\ LET worth == Equity(broker, shape'.close)
     IN  /\ risk' = ObserveEquity(risk, DayOf(bar'), WeekOf(bar'), worth)
         /\ opening' = IF bar = 0 \/ DayOf(bar') # DayOf(bar) THEN worth ELSE opening
  /\ pc' = IF trade = NoTrade THEN "deciding" ELSE "managing"
  /\ UNCHANGED <<broker, trade, lostAt>>

KeepTrade ==
  /\ pc = "managing"
  /\ ~(StopHit \/ TargetHit \/ TimeUp)
  /\ pc' = "observing"
  /\ UNCHANGED <<bar, shape, broker, risk, trade, lostAt, opening>>

(* The trade is over, whatever of it the order could fill; the result      *)
(* reported to the risk engine is that of the last trade on record.        *)
ExitTrade ==
  /\ pc = "managing"
  /\ StopHit \/ TargetHit \/ TimeUp
  /\ broker' = MarketSell(broker, trade.quantity, ExitPrice, Fillable)
  /\ risk' = IF broker'.trades = 0 THEN risk
             ELSE RegisterTradeClose(risk, broker'.last, bar)
  /\ trade' = NoTrade
  /\ lostAt' = IF broker'.trades # broker.trades /\ broker'.last < 0
               THEN bar ELSE lostAt
  /\ pc' = "deciding"
  /\ UNCHANGED <<bar, shape, opening>>

(* No BUY, not permitted, too small.                                       *)
StayOut ==
  /\ pc = "deciding"
  /\ pc' = "observing"
  /\ UNCHANGED <<bar, shape, broker, risk, trade, lostAt, opening>>

EnterTrade(unit) ==
  LET levels == LevelsOf(shape.close, unit)
      size == PositionSize(Worth, levels.entry, levels.stop)
  IN  /\ pc = "deciding"
      /\ MayOpen(risk, Worth, IF broker.lot.quantity > 0 THEN 1 ELSE 0, bar)
      /\ size > 0
      /\ broker' = MarketBuy(broker, size, levels.entry, Fillable)
      /\ trade' = [stop |-> levels.stop, target |-> levels.target,
                   quantity |-> Remembered(size, broker'.fill.quantity),
                   opened |-> bar]
      /\ pc' = "observing"
      /\ UNCHANGED <<bar, shape, risk, lostAt, opening>>

(* After the last bar an open trade is closed at its close.                *)
Finish ==
  /\ pc = "observing"
  /\ bar = LastBar
  /\ broker' = IF trade = NoTrade THEN broker
               ELSE MarketSell(broker, trade.quantity, shape.close, Fillable)
  /\ pc' = "done"
  /\ UNCHANGED <<bar, shape, risk, trade, lostAt, opening>>

Next ==
  \/ ObserveBar \/ KeepTrade \/ ExitTrade \/ StayOut
  \/ \E u \in Units : EnterTrade(u)
  \/ Finish

Spec == Init /\ [][Next]_vars

-----------------------------------------------------------------------------
(* Every variable keeps its shape: nothing is held short, and a cooldown   *)
(* is never longer than configured.                                        *)
TypeOK ==
  /\ pc \in {"observing", "managing", "deciding", "done"}
  /\ pc = "managing" => trade # NoTrade
  /\ pc = "deciding" => trade = NoTrade
  /\ bar \in 0..LastBar
  /\ shape \in Shapes
  /\ broker \in Account
  /\ risk \in [daily : Tracker, weekly : Tracker, cooldown : Int]
  /\ -1 <= risk.cooldown /\ risk.cooldown <= bar + LossCooldownBars
  /\ trade \in [stop : Nat, target : Nat, quantity : Nat, opened : 0..bar]
               \cup {NoTrade}
  /\ lostAt \in 0..bar
  /\ opening \in Int

(* The money is all there: cash and what the lot has cost are the starting *)
(* cash, what sales have gained, and less the fees of every fill.          *)
MoneyIsConserved ==
  broker.cash + broker.lot.cost = StartingCash + broker.realized - broker.fees

(* The trades on record, from which the accounting report and the metrics  *)
(* are made, tell the truth: with nothing held they sum up to what the     *)
(* account has gained.                                                     *)
TradesAddUp ==
  broker.lot.quantity = 0 => broker.cash = StartingCash + broker.net

(* An exit finds what it is to sell: selling what is not held raises, and  *)
(* ends the backtest.                                                      *)
ExitCanSell ==
  trade # NoTrade /\ pc # "done" =>
    trade.quantity > 0 /\ trade.quantity <= broker.lot.quantity

(* "Stop and target hit in the same bar is resolved as the stop."          *)
StopComesFirst ==
  [][pc = "managing" /\ shape.low <= trade.stop
       => trade' = NoTrade /\ broker'.fill.price <= trade.stop]_vars

(* The third barrier: no trade outlives its time stop.                     *)
TimeStopHolds ==
  trade # NoTrade /\ pc = "observing" /\ TimeStopBars > 0 =>
    bar - trade.opened < TimeStopBars

(* An entry never comes sooner than LossCooldownBars after a trade that is *)
(* on record with a loss, whatever was closed or left over in between.     *)
CooledDown ==
  [][trade = NoTrade /\ trade' # NoTrade /\ lostAt > 0
       => bar >= lostAt + LossCooldownBars]_vars

(* No entry on a day on which the account is down by the daily limit since *)
(* the first bar of that day.                                              *)
NoEntryAfterBadDay ==
  [][trade = NoTrade /\ trade' # NoTrade
       => 100 * (opening - Worth) < MaxDailyLossPct * opening]_vars

(* "A simulated fill must never flatter the strategy": no fill is better   *)
(* than the best price the bar has traded at.                              *)
NothingFlattered ==
  [][broker' # broker =>
       IF broker'.fill.side = "buy" THEN broker'.fill.price >= shape.low
       ELSE broker'.fill.price <= shape.high]_vars

(* The money, the records and the positions agree, whatever sequence of    *)
(* entries, fills in part and exits led there.                             *)
BooksAddUp == TypeOK /\ MoneyIsConserved /\ TradesAddUp /\ ExitCanSell
=============================================================================
