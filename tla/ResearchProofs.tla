---------------------------- MODULE ResearchProofs ----------------------------
(***************************************************************************)
(* Theorems about everything that replays the past.  The backtest: types,  *)
(* the conservation of money, the truth of the trades on record, and the   *)
(* promises of exits, of the time stop and of the cooldown.  The outcomes  *)
(* of predictions: what is written of one is what the market did.  The     *)
(* research lab: cache, folds, labels and verdict.  Each for every         *)
(* configuration, series of bars and sequence of decisions.                *)
(*                                                                         *)
(* Of the backtest, products and quotients enter only through the four     *)
(* lemmas about fills and sales; of the lab, only through SumBounds.       *)
(***************************************************************************)
EXTENDS Backtest, Outcomes, Research, NumberProofs, SequenceTheorems

(* Either nothing of the trade has been sold, and the records account for  *)
(* everything but its fees; or the lot has a remainder no trade covers,    *)
(* and will never be closed.                                               *)
Whole == \/ broker.lot = NoLot
         \/ trade # NoTrade /\ trade.quantity = broker.lot.quantity

RecordsAddUp ==
  Whole /\ pc # "done" =>
    broker.realized - broker.fees = broker.net - broker.lot.fees

(* The cooldown of the last loss on record is still in force or over.      *)
CooldownIsSet ==
  lostAt > 0 => LossCooldownBars = 0 \/ lostAt + LossCooldownBars <= risk.cooldown

EmptyLot == broker.lot.quantity = 0 => broker.lot = NoLot

IInv ==
  /\ TypeOK
  /\ MoneyIsConserved
  /\ EmptyLot
  /\ RecordsAddUp
  /\ TradesAddUp
  /\ ExitCanSell
  /\ TimeStopHolds
  /\ CooldownIsSet

-----------------------------------------------------------------------------
LEMMA QuotientBounded ==
  ASSUME NEW a \in Nat, NEW b \in Nat, NEW c \in Nat \ {0}, a <= b * c
  PROVE  a \div c \in Nat /\ a \div c <= b
OBVIOUS

LEMMA QuotientIsNatural ==
  ASSUME NEW a \in Nat, NEW c \in Nat \ {0}
  PROVE  a \div c \in Nat
OBVIOUS

(* Slippage never takes more than the price.                               *)
LEMMA AdverseBounded ==
  ASSUME NEW reference \in Nat, NEW fillable \in Nat \ {0},
         NEW filled \in 0..fillable
  PROVE  /\ Adverse(reference, filled, fillable) \in Nat
         /\ Adverse(reference, filled, fillable) <= reference
<1> DEFINE bps == BaseSlippageBps * fillable + ImpactSlippageBps * filled
           whole == 10000 * fillable
<1>1. BaseSlippageBps \in Nat /\ ImpactSlippageBps \in Nat
      /\ BaseSlippageBps + ImpactSlippageBps < 10000
  BY PaperBrokerAssumption
<1>2. ImpactSlippageBps * filled <= ImpactSlippageBps * fillable
  BY <1>1
<1>3. BaseSlippageBps * fillable + ImpactSlippageBps * fillable
        = (BaseSlippageBps + ImpactSlippageBps) * fillable
  BY <1>1
<1>4. (BaseSlippageBps + ImpactSlippageBps) * fillable <= whole
  BY <1>1
<1>5. bps \in Nat /\ whole \in Nat \ {0} /\ bps <= whole
  BY <1>1, <1>2, <1>3, <1>4
<1> HIDE DEF bps, whole
<1>6. reference * bps \in Nat /\ reference * bps <= reference * whole
  BY <1>5
<1>7. QED
  BY <1>5, <1>6, QuotientBounded DEF Adverse, bps, whole

(* A fill is of no more than was asked for or can be filled, and of some.  *)
LEMMA FillType ==
  ASSUME NEW side \in {"buy", "sell"}, NEW quantity \in Nat \ {0},
         NEW reference \in Nat, NEW fillable \in Nat \ {0}
  PROVE  LET fill == SimulateFill(side, quantity, reference, fillable)
         IN  /\ fill \in Fill
             /\ fill.side = side
             /\ 0 < fill.quantity /\ fill.quantity <= quantity
             /\ side = "sell" => fill.price <= reference
<1> DEFINE filled == Least(quantity, fillable)
           adverse == Adverse(reference, filled, fillable)
           price == IF side = "buy" THEN reference + adverse ELSE reference - adverse
<1>1. /\ filled \in Nat \ {0} /\ filled <= fillable /\ filled <= quantity
      /\ filled \in 0..fillable
  BY DEF Least
<1> HIDE DEF filled
<1>2. adverse \in Nat /\ adverse <= reference
  BY <1>1, AdverseBounded
<1>3. price \in Nat /\ (side = "sell" => price <= reference)
  BY <1>2
<1> HIDE DEF adverse, price
<1>4. FeeBps \in Nat
  BY PaperBrokerAssumption
<1>5. price * filled \in Nat
  BY <1>1, <1>3
<1>6. price * filled * FeeBps \in Nat
  BY <1>4, <1>5
<1>7. (price * filled * FeeBps) \div 10000 \in Nat
  BY <1>6, QuotientIsNatural
<1>8. SimulateFill(side, quantity, reference, fillable)
        = [side |-> side, quantity |-> filled, price |-> price,
           fee |-> (price * filled * FeeBps) \div 10000]
  BY DEF SimulateFill, filled, adverse, price
<1>9. QED
  BY <1>1, <1>3, <1>7, <1>8 DEF Fill

LEMMA BuyKeeps ==
  ASSUME NEW b \in Account, NEW fill \in Fill
  PROVE  /\ Buy(b, fill) \in Account
         /\ Buy(b, fill).fill = fill
         /\ Buy(b, fill).lot.quantity = b.lot.quantity + fill.quantity
         /\ Buy(b, fill).lot.fees = b.lot.fees + fill.fee
         /\ Buy(b, fill).cash + Buy(b, fill).lot.cost + Buy(b, fill).fees
              = b.cash + b.lot.cost + b.fees
         /\ Buy(b, fill).realized = b.realized
         /\ Buy(b, fill).fees = b.fees + fill.fee
         /\ Buy(b, fill).net = b.net
         /\ Buy(b, fill).trades = b.trades
<1>1. fill.price * fill.quantity \in Nat /\ fill.fee \in Nat /\ fill.quantity \in Nat
  BY DEF Fill
<1>2. /\ b.cash \in Int /\ b.fees \in Nat
      /\ b.lot.quantity \in Nat /\ b.lot.cost \in Nat /\ b.lot.fees \in Nat
  BY DEF Account, Lot
<1> DEFINE paid == fill.price * fill.quantity
           lot == [quantity |-> b.lot.quantity + fill.quantity,
                   cost |-> b.lot.cost + paid,
                   fees |-> b.lot.fees + fill.fee]
           cash == b.cash - (paid + fill.fee)
           fees == b.fees + fill.fee
<1>3. Buy(b, fill) = [b EXCEPT !.cash = cash, !.lot = lot, !.fees = fees, !.fill = fill]
  BY Zenon DEF Buy
<1>4. lot \in Lot /\ cash \in Int /\ fees \in Nat
  BY <1>1, <1>2 DEF Lot
<1>5. /\ lot.quantity = b.lot.quantity + fill.quantity
      /\ lot.fees = b.lot.fees + fill.fee
      /\ fees = b.fees + fill.fee
      /\ cash + lot.cost + fees = b.cash + b.lot.cost + b.fees
  <2> HIDE DEF paid
  <2>1. paid \in Nat
    BY <1>1 DEF paid
  <2>2. QED
    BY <1>1, <1>2, <2>1
<1> HIDE DEF cash, lot, fees
<1>6. Buy(b, fill) =
        [cash |-> cash, realized |-> b.realized, lot |-> lot, fill |-> fill,
         fees |-> fees, trades |-> b.trades, net |-> b.net, last |-> b.last]
  BY <1>3 DEF Account
<1>7. b.trades \in Nat /\ b.net \in Int /\ b.last \in Int /\ b.realized \in Int
  BY DEF Account
<1>8. Buy(b, fill) \in Account
  BY <1>4, <1>6, <1>7 DEF Account
<1>9. QED
  BY <1>5, <1>6, <1>8

(* A sale of what is held changes hands and closes the trade when nothing  *)
(* is left of it, and only then.                                           *)
LEMMA SellKeeps ==
  ASSUME NEW b \in Account, NEW fill \in Fill,
         0 < fill.quantity, fill.quantity <= b.lot.quantity
  PROVE  LET after == Sell(b, fill)
         IN  /\ after \in Account
             /\ after.cash + after.lot.cost - after.realized + after.fees
                  = b.cash + b.lot.cost - b.realized + b.fees
             /\ after.lot.quantity = b.lot.quantity - fill.quantity
             /\ after.fill = fill
             /\ after.trades \in {b.trades, b.trades + 1}
             /\ after.lot.quantity = 0 =>
                  /\ after.lot = NoLot
                  /\ after.net - after.realized + after.fees
                       = b.net - b.realized + b.fees - b.lot.fees
<1> DEFINE q == b.lot.quantity
           sold == fill.quantity
           got == fill.price * sold
           released == (b.lot.cost * sold) \div q
           gain == got - released
           result == gain - (b.lot.fees + fill.fee)
<1>1. /\ fill.fee \in Nat /\ fill.price \in Nat /\ sold \in Nat /\ q \in Nat \ {0}
      /\ b.lot.cost \in Nat /\ b.lot.fees \in Nat
      /\ b.cash \in Int /\ b.realized \in Int /\ b.fees \in Nat /\ b.net \in Int
      /\ b.trades \in Nat
  BY DEF Fill, Account, Lot
<1>2. Least(fill.quantity, b.lot.quantity) = sold
  BY <1>1 DEF Least
<1>3. b.lot.cost * sold \in Nat /\ b.lot.cost * sold <= b.lot.cost * q
  BY <1>1
<1>4. released \in Nat /\ released <= b.lot.cost
  BY <1>1, <1>3, QuotientBounded
<1>5. sold = q => b.lot.cost * sold = b.lot.cost * q /\ released = b.lot.cost
  BY <1>1
<1>6. got \in Nat
  BY <1>1
<1>7. Released(b.lot, fill, sold) = released /\ Result(b.lot, fill, gain) = result
  BY DEF Released, Result
<1>8. sold = q => Sell(b, fill) =
        [cash |-> b.cash + got - fill.fee, realized |-> b.realized + gain,
         lot |-> NoLot, fill |-> fill, fees |-> b.fees + fill.fee,
         trades |-> b.trades + 1, net |-> b.net + result, last |-> result]
  BY <1>2, <1>7 DEF Sell, Account
<1>9. sold # q => Sell(b, fill) =
        [cash |-> b.cash + got - fill.fee, realized |-> b.realized + gain,
         lot |-> [quantity |-> q - sold, cost |-> b.lot.cost - released,
                  fees |-> b.lot.fees + fill.fee],
         fill |-> fill, fees |-> b.fees + fill.fee,
         trades |-> b.trades, net |-> b.net, last |-> b.last]
  BY <1>2, <1>7 DEF Sell, Account
<1>10. q - sold \in Nat /\ b.lot.quantity = q /\ fill.quantity = sold
  BY <1>1
<1> HIDE DEF q, sold, got, released
<1>11. gain \in Int /\ result \in Int
  BY <1>1, <1>4, <1>6
<1>12. b.last \in Int
  BY DEF Account
<1>13. CASE sold = q
  <2>1. Sell(b, fill) \in Account
    BY <1>1, <1>6, <1>8, <1>11, <1>13 DEF Account, Lot, NoLot
  <2>2. Sell(b, fill).lot = NoLot /\ NoLot.quantity = 0 /\ NoLot.cost = 0
    BY <1>8, <1>13 DEF NoLot
  <2>3. released = b.lot.cost
    BY <1>5, <1>13
  <2>4. QED
    BY <1>1, <1>6, <1>8, <1>10, <1>13, <2>1, <2>2, <2>3
<1>14. CASE sold # q
  <2>1. b.lot.cost - released \in Nat
    BY <1>1, <1>4
  <2>2. Sell(b, fill) \in Account
    BY <1>1, <1>6, <1>9, <1>10, <1>11, <1>12, <1>14, <2>1 DEF Account, Lot
  <2>3. QED
    BY <1>1, <1>4, <1>6, <1>9, <1>10, <1>14, <2>2
<1>15. QED
  BY <1>13, <1>14

-----------------------------------------------------------------------------
LEMMA ConfigTypes ==
  /\ \A s \in Shapes : s.low \in Nat /\ s.close \in Nat \ {0} /\ s.high \in Nat
  /\ FillableWorth \in Nat /\ TimeStopBars \in Nat /\ LastBar \in Nat
  /\ BarsPerDay \in Nat \ {0} /\ DaysPerWeek \in Nat \ {0}
  /\ StartingCash \in Nat \ {0} /\ LossCooldownBars \in Nat
  /\ RiskPerTrade \in Nat /\ MaxPositionPct \in Nat
BY BacktestAssumption, PaperBrokerAssumption, RiskAssumption

(* Every order can be filled, if not in full.                              *)
LEMMA SomethingFills ==
  ASSUME shape \in Shapes
  PROVE  Fillable \in Nat \ {0}
<1>1. /\ shape.close \in Nat \ {0} /\ FillableWorth \in Nat
      /\ shape.close <= FillableWorth
  BY ConfigTypes, BacktestAssumption
<1>2. FillableWorth \div shape.close \in Nat
      /\ FillableWorth \div shape.close # 0
  BY <1>1
<1>3. QED
  BY <1>2 DEF Fillable

LEMMA EquityType ==
  ASSUME NEW b \in Account, NEW mark \in Nat
  PROVE  Equity(b, mark) \in Int
<1>1. b.cash \in Int /\ b.lot.quantity \in Nat
  BY DEF Account, Lot
<1>2. b.lot.quantity * mark \in Nat
  BY <1>1
<1>3. QED
  BY <1>1, <1>2 DEF Equity

LEMMA SizeType ==
  ASSUME NEW equity \in Int, NEW entry \in Nat \ {0}, NEW stop \in Nat
  PROVE  PositionSize(equity, entry, stop) \in Nat
<1>1. CASE equity <= 0 \/ entry = stop
  BY <1>1 DEF PositionSize
<1>2. CASE 0 < equity /\ entry # stop
  <2>1. RiskPerTrade \in Nat /\ MaxPositionPct \in Nat
    BY ConfigTypes
  <2>2. equity * RiskPerTrade \in Nat /\ equity * MaxPositionPct \in Nat
    BY <1>2, <2>1
  <2>3. 100 * Distance(entry, stop) \in Nat \ {0} /\ 100 * entry \in Nat \ {0}
    BY <1>2 DEF Distance
  <2>4. /\ (equity * RiskPerTrade) \div (100 * Distance(entry, stop)) \in Nat
        /\ (equity * MaxPositionPct) \div (100 * entry) \in Nat
    BY <2>2, <2>3, QuotientIsNatural
  <2>5. QED
    BY <1>2, <2>4 DEF PositionSize
<1>3. QED
  BY <1>1, <1>2

(* Selling the open trade keeps the money, and closes the trade on record  *)
(* only if it closes all that is held.                                     *)
LEMMA SaleSound ==
  ASSUME IInv, trade # NoTrade, pc # "done", NEW price \in Nat
  PROVE  LET after == MarketSell(broker, trade.quantity, price, Fillable)
         IN  /\ after \in Account
             /\ after.trades \in {broker.trades, broker.trades + 1}
             /\ after.fill.price <= price
             /\ after.cash + after.lot.cost
                  = StartingCash + after.realized - after.fees
             /\ after.lot.quantity = 0 =>
                  /\ after.lot = NoLot
                  /\ after.realized - after.fees = after.net
                  /\ after.cash = StartingCash + after.net
<1> DEFINE q == trade.quantity
           fill == SimulateFill("sell", q, price, Fillable)
           after == Sell(broker, fill)
<1>1. /\ broker \in Account /\ shape \in Shapes
      /\ q \in Nat /\ 0 < q /\ q <= broker.lot.quantity
  BY DEF IInv, TypeOK, ExitCanSell
<1>2. broker.lot.quantity \in Nat /\ broker.lot.fees \in Nat
  BY <1>1 DEF Account, Lot
<1>3. MarketSell(broker, q, price, Fillable) = after
  <2>1. Least(q, broker.lot.quantity) = q
    BY <1>1, <1>2 DEF Least
  <2>2. QED
    BY <2>1 DEF MarketSell
<1>4. Fillable \in Nat \ {0}
  BY <1>1, SomethingFills
<1>5. /\ fill \in Fill /\ 0 < fill.quantity /\ fill.quantity <= q
      /\ fill.price <= price
  BY <1>1, <1>4, FillType
<1>6. fill.quantity <= broker.lot.quantity /\ fill.quantity \in Nat
  BY <1>1, <1>2, <1>5 DEF Fill
<1> HIDE DEF fill
<1>7. /\ after \in Account
      /\ after.trades \in {broker.trades, broker.trades + 1}
      /\ after.fill = fill
      /\ after.cash + after.lot.cost - after.realized + after.fees
           = broker.cash + broker.lot.cost - broker.realized + broker.fees
      /\ after.lot.quantity = broker.lot.quantity - fill.quantity
      /\ after.lot.quantity = 0 =>
           /\ after.lot = NoLot
           /\ after.net - after.realized + after.fees
                = broker.net - broker.realized + broker.fees - broker.lot.fees
  BY <1>1, <1>5, <1>6, SellKeeps
<1>8. /\ broker.cash \in Int /\ broker.realized \in Int /\ broker.fees \in Nat
      /\ broker.lot.cost \in Nat /\ broker.net \in Int
  BY <1>1 DEF Account, Lot
<1> HIDE DEF after
<1>9. /\ after.cash \in Int /\ after.realized \in Int /\ after.fees \in Nat
      /\ after.lot.cost \in Nat /\ after.net \in Int
  BY <1>7 DEF Account, Lot
<1>10. after.cash + after.lot.cost = StartingCash + after.realized - after.fees
  BY <1>7, <1>8, <1>9, ConfigTypes DEF IInv, MoneyIsConserved
<1>11. ASSUME after.lot.quantity = 0
       PROVE  /\ after.lot = NoLot
              /\ after.realized - after.fees = after.net
              /\ after.cash = StartingCash + after.net
  <2>1. trade.quantity = broker.lot.quantity
    BY <1>1, <1>2, <1>5, <1>6, <1>7, <1>11
  <2>2. broker.realized - broker.fees = broker.net - broker.lot.fees
    BY <2>1 DEF IInv, RecordsAddUp, Whole
  <2>3. after.realized - after.fees = after.net
    <3>1. after.net - after.realized + after.fees
            = broker.net - broker.realized + broker.fees - broker.lot.fees
      BY <1>7, <1>11
    <3>2. QED
      BY <1>2, <1>8, <1>9, <2>2, <3>1
  <2>4. after.lot = NoLot /\ after.lot.cost = 0
    BY <1>7, <1>11 DEF NoLot
  <2>5. QED
    BY <1>9, <1>10, <2>3, <2>4, ConfigTypes
<1>12. QED
  BY <1>3, <1>5, <1>7, <1>10, <1>11

-----------------------------------------------------------------------------
LEMMA InitInvariant == Init => IInv
<1> SUFFICES ASSUME Init PROVE IInv
  OBVIOUS
<1>1. NewBroker \in Account /\ NewBroker.lot = NoLot
  BY ConfigTypes DEF NewBroker, Account, NoLot, Lot, NoFill, Fill
<1>2. NewRisk(StartingCash) \in [daily : Tracker, weekly : Tracker, cooldown : Int]
      /\ NewRisk(StartingCash).cooldown = -1
  BY ConfigTypes DEF NewRisk, NewTracker, Tracker
<1>3. TypeOK
  BY <1>1, <1>2, ConfigTypes DEF Init, TypeOK
<1>4. MoneyIsConserved /\ TradesAddUp /\ RecordsAddUp /\ EmptyLot
  BY ConfigTypes
  DEF Init, MoneyIsConserved, TradesAddUp, RecordsAddUp, EmptyLot, Whole,
      NewBroker, NoLot
<1>5. ExitCanSell /\ TimeStopHolds /\ CooldownIsSet
  BY DEF Init, ExitCanSell, TimeStopHolds, CooldownIsSet
<1>6. QED
  BY <1>3, <1>4, <1>5 DEF IInv

LEMMA ObservedType ==
  ASSUME NEW tracker \in Tracker, NEW period \in Nat, NEW equity \in Int
  PROVE  Observed(tracker, period, equity) \in Tracker
BY DEF Observed, Tracker

LEMMA ObserveKeeps == IInv /\ ObserveBar => IInv'
<1> SUFFICES ASSUME IInv, ObserveBar PROVE IInv'
  OBVIOUS
<1> DEFINE worth == Equity(broker, shape'.close)
<1>1. /\ bar \in 0..LastBar /\ broker \in Account
      /\ risk \in [daily : Tracker, weekly : Tracker, cooldown : Int]
      /\ opening \in Int
      /\ -1 <= risk.cooldown /\ risk.cooldown <= bar + LossCooldownBars
  BY DEF IInv, TypeOK
<1>2. bar' \in 0..LastBar /\ bar' \in Nat /\ bar < bar' /\ shape' \in Shapes
  BY <1>1, ConfigTypes DEF ObserveBar
<1>3. worth \in Int
  BY <1>1, <1>2, ConfigTypes, EquityType
<1> HIDE DEF worth
<1>4. DayOf(bar') \in Nat /\ WeekOf(bar') \in Nat
  <2>1. DayOf(bar') \in Nat
    BY <1>2, ConfigTypes, QuotientIsNatural DEF DayOf
  <2>2. QED
    BY <2>1, ConfigTypes, QuotientIsNatural DEF WeekOf
<1>5. risk' = ObserveEquity(risk, DayOf(bar'), WeekOf(bar'), worth)
  BY DEF ObserveBar, worth
<1>6. /\ risk' \in [daily : Tracker, weekly : Tracker, cooldown : Int]
      /\ risk'.cooldown = risk.cooldown
  <2>1. /\ Observed(risk.daily, DayOf(bar'), worth) \in Tracker
        /\ Observed(risk.weekly, WeekOf(bar'), worth) \in Tracker
    BY <1>1, <1>3, <1>4, ObservedType
  <2>2. QED
    BY <1>1, <1>5, <2>1 DEF ObserveEquity
<1>7. opening' \in Int
  BY <1>1, <1>3 DEF ObserveBar, worth
<1>8. UNCHANGED <<broker, trade, lostAt>>
      /\ pc = "observing"
      /\ pc' = IF trade = NoTrade THEN "deciding" ELSE "managing"
  BY DEF ObserveBar
<1>9. TypeOK'
  <2>1. trade' \in [stop : Nat, target : Nat, quantity : Nat, opened : 0..bar']
                   \cup {NoTrade}
    BY <1>1, <1>2, <1>8 DEF IInv, TypeOK
  <2>2. lostAt' \in 0..bar'
    BY <1>1, <1>2, <1>8 DEF IInv, TypeOK
  <2>3. -1 <= risk'.cooldown /\ risk'.cooldown <= bar' + LossCooldownBars
    BY <1>1, <1>2, <1>6, ConfigTypes
  <2>4. QED
    BY <1>1, <1>2, <1>6, <1>7, <1>8, <2>1, <2>2, <2>3 DEF TypeOK
<1>10. /\ MoneyIsConserved' /\ EmptyLot' /\ RecordsAddUp' /\ TradesAddUp'
       /\ ExitCanSell'
  BY <1>8 DEF IInv, MoneyIsConserved, EmptyLot, RecordsAddUp, Whole, TradesAddUp,
              ExitCanSell
<1>11. TimeStopHolds'
  BY <1>8 DEF TimeStopHolds
<1>12. CooldownIsSet'
  BY <1>6, <1>8 DEF IInv, CooldownIsSet
<1>13. QED
  BY <1>9, <1>10, <1>11, <1>12 DEF IInv

LEMMA KeepKeeps == IInv /\ KeepTrade => IInv'
<1> SUFFICES ASSUME IInv, KeepTrade PROVE IInv'
  OBVIOUS
<1>1. /\ UNCHANGED <<bar, shape, broker, risk, trade, lostAt, opening>>
      /\ pc = "managing" /\ pc' = "observing" /\ ~TimeUp
  BY DEF KeepTrade
<1>2. TypeOK'
  BY <1>1 DEF IInv, TypeOK
<1>3. TimeStopHolds'
  <2>1. bar \in Nat /\ (trade # NoTrade => trade.opened \in Nat)
    BY ConfigTypes DEF IInv, TypeOK
  <2>2. QED
    BY <1>1, <2>1, ConfigTypes DEF TimeStopHolds, TimeUp
<1>4. /\ MoneyIsConserved' /\ EmptyLot' /\ RecordsAddUp' /\ TradesAddUp'
      /\ ExitCanSell' /\ CooldownIsSet'
  BY <1>1 DEF IInv, MoneyIsConserved, EmptyLot, RecordsAddUp, Whole, TradesAddUp,
              ExitCanSell, CooldownIsSet
<1>5. QED
  BY <1>2, <1>3, <1>4 DEF IInv

LEMMA StayOutKeeps == IInv /\ StayOut => IInv'
<1> SUFFICES ASSUME IInv, StayOut PROVE IInv'
  OBVIOUS
<1>1. /\ UNCHANGED <<bar, shape, broker, risk, trade, lostAt, opening>>
      /\ pc = "deciding" /\ pc' = "observing"
  BY DEF StayOut
<1>2. trade = NoTrade
  BY <1>1 DEF IInv, TypeOK
<1>3. TypeOK'
  BY <1>1 DEF IInv, TypeOK
<1>4. TimeStopHolds' /\ ExitCanSell'
  BY <1>1, <1>2 DEF TimeStopHolds, ExitCanSell
<1>5. /\ MoneyIsConserved' /\ EmptyLot' /\ RecordsAddUp' /\ TradesAddUp'
      /\ CooldownIsSet'
  BY <1>1 DEF IInv, MoneyIsConserved, EmptyLot, RecordsAddUp, Whole, TradesAddUp,
              CooldownIsSet
<1>6. QED
  BY <1>3, <1>4, <1>5 DEF IInv

LEMMA ExitKeeps == IInv /\ ExitTrade => IInv'
<1> SUFFICES ASSUME IInv, ExitTrade PROVE IInv'
  OBVIOUS
<1>1. /\ pc = "managing" /\ pc' = "deciding" /\ trade' = NoTrade
      /\ UNCHANGED <<bar, shape, opening>>
      /\ broker' = MarketSell(broker, trade.quantity, ExitPrice, Fillable)
      /\ risk' = IF broker'.trades = 0 THEN risk
                 ELSE RegisterTradeClose(risk, broker'.last, bar)
      /\ lostAt' = IF broker'.trades # broker.trades /\ broker'.last < 0
                   THEN bar ELSE lostAt
  BY DEF ExitTrade
<1>2. /\ trade # NoTrade /\ trade.stop \in Nat /\ trade.target \in Nat
      /\ shape \in Shapes /\ broker \in Account
      /\ bar \in 0..LastBar /\ bar \in Nat /\ opening \in Int /\ lostAt \in 0..bar
      /\ risk \in [daily : Tracker, weekly : Tracker, cooldown : Int]
      /\ -1 <= risk.cooldown /\ risk.cooldown <= bar + LossCooldownBars
  BY <1>1, ConfigTypes DEF IInv, TypeOK
<1>3. ExitPrice \in Nat
  BY <1>2, ConfigTypes DEF ExitPrice
<1>4. /\ broker' \in Account
      /\ broker'.trades \in {broker.trades, broker.trades + 1}
      /\ broker'.cash + broker'.lot.cost
           = StartingCash + broker'.realized - broker'.fees
      /\ broker'.lot.quantity = 0 =>
           /\ broker'.lot = NoLot
           /\ broker'.realized - broker'.fees = broker'.net
           /\ broker'.cash = StartingCash + broker'.net
  BY <1>1, <1>2, <1>3, SaleSound
<1>5. /\ broker'.last \in Int /\ broker.trades \in Nat
      /\ broker'.net \in Int /\ broker'.realized \in Int /\ broker'.fees \in Nat
  BY <1>2, <1>4 DEF Account
<1> DEFINE set == broker'.trades # 0 /\ broker'.last < 0 /\ LossCooldownBars > 0
<1>6. /\ risk' \in [daily : Tracker, weekly : Tracker, cooldown : Int]
      /\ risk'.cooldown = IF set THEN bar + LossCooldownBars ELSE risk.cooldown
  BY <1>1, <1>2, <1>5, ConfigTypes DEF RegisterTradeClose, CooldownUntil
<1>7. -1 <= risk'.cooldown /\ risk'.cooldown <= bar + LossCooldownBars
  BY <1>2, <1>6, ConfigTypes
<1>8. lostAt' \in 0..bar
  BY <1>1, <1>2
<1>9. TypeOK'
  BY <1>1, <1>2, <1>4, <1>6, <1>7, <1>8 DEF TypeOK
<1>10. CooldownIsSet'
  <2>1. CASE broker'.trades # broker.trades /\ broker'.last < 0
    <3>1. lostAt' = bar /\ broker'.trades # 0
      BY <1>1, <1>4, <1>5, <2>1
    <3>2. QED
      BY <1>2, <1>6, <2>1, <3>1, ConfigTypes DEF CooldownIsSet
  <2>2. CASE ~(broker'.trades # broker.trades /\ broker'.last < 0)
    <3>1. lostAt' = lostAt
      BY <1>1, <2>2
    <3>2. CASE set
      BY <1>2, <1>6, <3>1, <3>2, ConfigTypes DEF CooldownIsSet
    <3>3. CASE ~set
      BY <1>6, <3>1, <3>3 DEF IInv, CooldownIsSet
    <3>4. QED
      BY <3>2, <3>3
  <2>3. QED
    BY <2>1, <2>2
<1>11. MoneyIsConserved' /\ EmptyLot' /\ TradesAddUp'
  BY <1>4 DEF MoneyIsConserved, EmptyLot, TradesAddUp
<1>12. RecordsAddUp'
  BY <1>1, <1>4, <1>5 DEF RecordsAddUp, Whole, NoLot
<1>13. ExitCanSell' /\ TimeStopHolds'
  BY <1>1 DEF ExitCanSell, TimeStopHolds
<1>14. QED
  BY <1>9, <1>10, <1>11, <1>12, <1>13 DEF IInv

LEMMA FinishKeeps == IInv /\ Finish => IInv'
<1> SUFFICES ASSUME IInv, Finish PROVE IInv'
  OBVIOUS
<1>1. /\ pc = "observing" /\ pc' = "done"
      /\ UNCHANGED <<bar, shape, risk, trade, lostAt, opening>>
  BY DEF Finish
<1>2. /\ broker' \in Account
      /\ MoneyIsConserved' /\ EmptyLot' /\ TradesAddUp'
  <2>1. CASE trade = NoTrade
    <3>1. broker' = broker
      BY <2>1 DEF Finish
    <3>2. QED
      BY <3>1 DEF IInv, TypeOK, MoneyIsConserved, EmptyLot, TradesAddUp
  <2>2. CASE trade # NoTrade
    <3>1. broker' = MarketSell(broker, trade.quantity, shape.close, Fillable)
      BY <2>2 DEF Finish
    <3>2. shape.close \in Nat
      BY ConfigTypes DEF IInv, TypeOK
    <3>3. QED
      BY <1>1, <2>2, <3>1, <3>2, SaleSound DEF MoneyIsConserved, EmptyLot, TradesAddUp
  <2>3. QED
    BY <2>1, <2>2
<1>3. TypeOK'
  BY <1>1, <1>2 DEF IInv, TypeOK
<1>4. RecordsAddUp' /\ ExitCanSell' /\ TimeStopHolds'
  BY <1>1 DEF RecordsAddUp, ExitCanSell, TimeStopHolds
<1>5. CooldownIsSet'
  BY <1>1 DEF IInv, CooldownIsSet
<1>6. QED
  BY <1>2, <1>3, <1>4, <1>5 DEF IInv

LEMMA EnterKeeps ==
  ASSUME IInv, NEW unit \in Units, EnterTrade(unit)
  PROVE  IInv'
<1> DEFINE levels == LevelsOf(shape.close, unit)
           size == PositionSize(Worth, levels.entry, levels.stop)
           fill == SimulateFill("buy", size, levels.entry, Fillable)
<1>1. /\ pc = "deciding" /\ pc' = "observing" /\ size > 0
      /\ UNCHANGED <<bar, shape, risk, lostAt, opening>>
      /\ broker' = Buy(broker, fill)
      /\ trade' = [stop |-> levels.stop, target |-> levels.target,
                   quantity |-> broker'.fill.quantity, opened |-> bar]
  BY DEF EnterTrade, MarketBuy, Remembered
<1>2. /\ trade = NoTrade /\ shape \in Shapes /\ broker \in Account
      /\ bar \in 0..LastBar /\ bar \in Nat
  BY <1>1, ConfigTypes DEF IInv, TypeOK
<1>3. levels \in Levels
  BY <1>2, BacktestAssumption
<1>4. levels.entry \in Nat \ {0} /\ levels.stop \in Nat /\ levels.target \in Nat
  BY <1>3 DEF Levels
<1> HIDE DEF levels
<1>5. Worth \in Int
  BY <1>2, ConfigTypes, EquityType DEF Worth
<1>6. size \in Nat \ {0}
  <2>1. size \in Nat
    BY <1>4, <1>5, SizeType
  <2>2. QED
    BY <1>1, <2>1
<1>7. Fillable \in Nat \ {0}
  BY <1>2, SomethingFills
<1> HIDE DEF size
<1>8. fill \in Fill /\ 0 < fill.quantity /\ fill.quantity \in Nat /\ fill.fee \in Nat
  <2>1. fill \in Fill /\ 0 < fill.quantity
    BY <1>4, <1>6, <1>7, FillType
  <2>2. QED
    BY <2>1 DEF Fill
<1> HIDE DEF fill
<1>9. /\ broker' \in Account /\ broker'.fill = fill
      /\ broker'.lot.quantity = broker.lot.quantity + fill.quantity
      /\ broker'.lot.fees = broker.lot.fees + fill.fee
      /\ broker'.cash + broker'.lot.cost + broker'.fees
           = broker.cash + broker.lot.cost + broker.fees
      /\ broker'.realized = broker.realized
      /\ broker'.fees = broker.fees + fill.fee
      /\ broker'.net = broker.net
  BY <1>1, <1>2, <1>8, BuyKeeps
<1>10. /\ broker.cash \in Int /\ broker.realized \in Int /\ broker.fees \in Nat
       /\ broker.net \in Int /\ broker.lot.quantity \in Nat /\ broker.lot.cost \in Nat
       /\ broker.lot.fees \in Nat
  BY <1>2 DEF Account, Lot
<1>11. /\ broker'.cash \in Int /\ broker'.lot.cost \in Nat
       /\ broker'.lot.quantity \in Nat
  BY <1>9 DEF Account, Lot
<1>12. trade' = [stop |-> levels.stop, target |-> levels.target,
                 quantity |-> fill.quantity, opened |-> bar]
  BY <1>1, <1>9
<1>13. TypeOK'
  <2>1. trade' \in [stop : Nat, target : Nat, quantity : Nat, opened : 0..bar']
    BY <1>1, <1>2, <1>4, <1>8, <1>12
  <2>2. QED
    BY <1>1, <1>9, <2>1 DEF IInv, TypeOK
<1>14. MoneyIsConserved'
  BY <1>8, <1>9, <1>10, <1>11, ConfigTypes DEF IInv, MoneyIsConserved
<1>15. broker'.lot.quantity > 0
  BY <1>8, <1>9, <1>10
<1>16. EmptyLot' /\ TradesAddUp'
  BY <1>11, <1>15 DEF EmptyLot, TradesAddUp
<1>17. ExitCanSell' /\ TimeStopHolds'
  BY <1>1, <1>2, <1>8, <1>9, <1>10, <1>12, ConfigTypes DEF ExitCanSell, TimeStopHolds
<1>18. RecordsAddUp'
  <2> SUFFICES ASSUME Whole'
               PROVE  broker'.realized - broker'.fees = broker'.net - broker'.lot.fees
    BY DEF RecordsAddUp
  <2>1. broker'.lot # NoLot
    BY <1>15 DEF NoLot
  <2>2. broker.lot.quantity = 0
    <3>1. trade'.quantity = broker'.lot.quantity
      BY <2>1 DEF Whole
    <3>2. trade'.quantity = fill.quantity
      BY <1>12
    <3>3. fill.quantity = broker.lot.quantity + fill.quantity
      BY <1>9, <3>1, <3>2
    <3>4. QED
      BY <1>8, <1>10, <3>3
  <2>3. broker.realized - broker.fees = broker.net - broker.lot.fees
    BY <1>1, <2>2 DEF IInv, EmptyLot, RecordsAddUp, Whole
  <2>4. QED
    BY <1>8, <1>9, <1>10, <2>3
<1>19. CooldownIsSet'
  BY <1>1 DEF IInv, CooldownIsSet
<1>20. QED
  BY <1>13, <1>14, <1>16, <1>17, <1>18, <1>19 DEF IInv

LEMMA StepInvariant == IInv /\ [Next]_vars => IInv'
<1> SUFFICES ASSUME IInv, [Next]_vars PROVE IInv'
  OBVIOUS
<1>1. CASE ObserveBar
  BY <1>1, ObserveKeeps
<1>2. CASE KeepTrade
  BY <1>2, KeepKeeps
<1>3. CASE ExitTrade
  BY <1>3, ExitKeeps
<1>4. CASE StayOut
  BY <1>4, StayOutKeeps
<1>5. ASSUME NEW u \in Units, EnterTrade(u) PROVE IInv'
  BY <1>5, EnterKeeps
<1>6. CASE Finish
  BY <1>6, FinishKeeps
<1>7. CASE UNCHANGED vars
  BY <1>7
  DEF vars, IInv, TypeOK, MoneyIsConserved, EmptyLot, RecordsAddUp, Whole,
      TradesAddUp, ExitCanSell, TimeStopHolds, CooldownIsSet
<1>8. QED
  BY <1>1, <1>2, <1>3, <1>4, <1>5, <1>6, <1>7 DEF Next

LEMMA Invariance == Spec => []IInv
BY InitInvariant, StepInvariant, PTL DEF Spec

-----------------------------------------------------------------------------
(* A replay never leaves the shapes TypeOK lists: nothing is ever held     *)
(* short, and a cooldown never reaches further than configured.            *)
THEOREM TypeCorrect == Spec => []TypeOK
<1>1. IInv => TypeOK
  BY DEF IInv
<1>2. QED
  BY <1>1, Invariance, PTL

(* No sequence of fills, partial ones included, makes or loses money: cash *)
(* and the cost of the lot are the starting cash plus what sales have      *)
(* gained less all fees, at any rate of fees and slippage.                 *)
THEOREM MoneyConserved == Spec => []MoneyIsConserved
<1>1. IInv => MoneyIsConserved
  BY DEF IInv
<1>2. QED
  BY <1>1, Invariance, PTL

(* The closed trades that the accounting and the metrics are made from sum *)
(* up, whenever nothing is held, to exactly what the cash has changed by.  *)
THEOREM RecordsTellTruth == Spec => []TradesAddUp
<1>1. IInv => TradesAddUp
  BY DEF IInv
<1>2. QED
  BY <1>1, Invariance, PTL

(* An exit never asks the broker for more than it holds, so the replay is  *)
(* never ended by the broker's refusal.                                    *)
THEOREM ExitsCanSell == Spec => []ExitCanSell
<1>1. IInv => ExitCanSell
  BY DEF IInv
<1>2. QED
  BY <1>1, Invariance, PTL

(* No open trade outlives its time stop, for any number of bars.           *)
THEOREM TimeStopKept == Spec => []TimeStopHolds
<1>1. IInv => TimeStopHolds
  BY DEF IInv
<1>2. QED
  BY <1>1, Invariance, PTL

(* No entry comes before the cooldown of the last recorded loss is over,   *)
(* also when the risk engine is told an old result again.                  *)
THEOREM EntriesCooledDown == Spec => CooledDown
<1>1. IInv /\ [Next]_vars
        => [trade = NoTrade /\ trade' # NoTrade /\ lostAt > 0
              => bar >= lostAt + LossCooldownBars]_vars
  <2> SUFFICES ASSUME IInv, [Next]_vars, trade = NoTrade, trade' # NoTrade, lostAt > 0
               PROVE  bar >= lostAt + LossCooldownBars
    OBVIOUS
  <2>1. PICK u \in Units : EnterTrade(u)
    BY DEF Next, vars, ObserveBar, KeepTrade, ExitTrade, StayOut, Finish
  <2>2. bar >= risk.cooldown
    BY <2>1 DEF EnterTrade, MayOpen
  <2>3. /\ bar \in 0..LastBar /\ lostAt \in 0..bar
        /\ risk \in [daily : Tracker, weekly : Tracker, cooldown : Int]
    BY DEF IInv, TypeOK
  <2>4. QED
    BY <2>2, <2>3, ConfigTypes DEF IInv, CooldownIsSet
<1>2. QED
  BY <1>1, Invariance, PTL DEF Spec, CooledDown

(* A bar that reaches the stop always ends the trade at the stop or below, *)
(* even if it reaches the target or the time stop as well.                 *)
THEOREM StopBeforeTarget == Spec => StopComesFirst
<1>1. IInv /\ [Next]_vars
        => [pc = "managing" /\ shape.low <= trade.stop
              => trade' = NoTrade /\ broker'.fill.price <= trade.stop]_vars
  <2> SUFFICES ASSUME IInv, [Next]_vars, vars' # vars,
                      pc = "managing", shape.low <= trade.stop
               PROVE  trade' = NoTrade /\ broker'.fill.price <= trade.stop
    OBVIOUS
  <2>1. ExitTrade
    BY DEF Next, vars, ObserveBar, KeepTrade, StayOut, EnterTrade, Finish, StopHit
  <2>2. trade # NoTrade /\ trade.stop \in Nat
    BY DEF IInv, TypeOK
  <2>3. ExitPrice = trade.stop
    BY DEF ExitPrice, StopHit
  <2>4. /\ trade' = NoTrade
        /\ broker' = MarketSell(broker, trade.quantity, trade.stop, Fillable)
    BY <2>1, <2>3 DEF ExitTrade
  <2>5. QED
    BY <2>2, <2>4, SaleSound
<1>2. QED
  BY <1>1, Invariance, PTL DEF Spec, StopComesFirst

(* The daily tracker measures from the equity at the day's first bar.      *)
Baseline ==
  /\ bar = 0 => pc \in {"observing", "done"} /\ ~risk.daily.seen
  /\ bar > 0 => /\ risk.daily.seen
                /\ risk.daily.period = DayOf(bar)
                /\ risk.daily.start = opening

LEMMA BaselineStep == IInv /\ Baseline /\ [Next]_vars => Baseline'
<1> SUFFICES ASSUME IInv, Baseline, [Next]_vars PROVE Baseline'
  OBVIOUS
<1>1. /\ bar \in 0..LastBar /\ bar \in Nat
      /\ risk \in [daily : Tracker, weekly : Tracker, cooldown : Int]
  BY ConfigTypes DEF IInv, TypeOK
<1>2. CASE ObserveBar
  <2> DEFINE worth == Equity(broker, shape'.close)
  <2>1. /\ bar' = bar + 1
        /\ opening' = IF bar = 0 \/ DayOf(bar') # DayOf(bar) THEN worth ELSE opening
        /\ risk' = ObserveEquity(risk, DayOf(bar'), WeekOf(bar'), worth)
    BY <1>2 DEF ObserveBar
  <2> HIDE DEF worth
  <2>2. risk'.daily = Observed(risk.daily, DayOf(bar'), worth)
    BY <1>1, <2>1 DEF ObserveEquity
  <2>3. bar' > 0
    BY <1>1, <2>1
  <2> DEFINE today == DayOf(bar')
             before == DayOf(bar)
  <2> HIDE DEF today, before
  <2>4. risk'.daily.seen /\ risk'.daily.period = today /\ risk'.daily.start = opening'
    BY <1>1, <2>1, <2>2 DEF Baseline, Observed, today
  <2>5. QED
    BY <2>3, <2>4 DEF Baseline, today
<1>3. CASE ExitTrade
  <2>1. risk'.daily = risk.daily /\ UNCHANGED <<bar, opening>> /\ bar # 0
    BY <1>1, <1>3 DEF ExitTrade, RegisterTradeClose, Baseline
  <2>2. QED
    BY <2>1 DEF Baseline, DayOf
<1>4. CASE KeepTrade \/ StayOut \/ (\E u \in Units : EnterTrade(u)) \/ Finish
            \/ UNCHANGED vars
  <2>1. UNCHANGED <<bar, risk, opening>> /\ pc' \in {pc, "observing", "done"}
    BY <1>4 DEF KeepTrade, StayOut, EnterTrade, Finish, vars
  <2>2. QED
    BY <2>1 DEF Baseline, DayOf
<1>5. QED
  BY <1>2, <1>3, <1>4 DEF Next

(* No entry on a day on which the account is down by the daily limit since *)
(* the day's first bar, whatever day the replay began on.                  *)
THEOREM DailyLimitKept == Spec => NoEntryAfterBadDay
<1>1. Init => Baseline
  BY ConfigTypes DEF Init, Baseline, NewRisk, NewTracker
<1>2. IInv /\ Baseline /\ [Next]_vars
        => [trade = NoTrade /\ trade' # NoTrade
              => 100 * (opening - Worth) < MaxDailyLossPct * opening]_vars
  <2> SUFFICES ASSUME IInv, Baseline, [Next]_vars, trade = NoTrade, trade' # NoTrade
               PROVE  100 * (opening - Worth) < MaxDailyLossPct * opening
    OBVIOUS
  <2>1. PICK u \in Units : EnterTrade(u)
    BY DEF Next, vars, ObserveBar, KeepTrade, ExitTrade, StayOut, Finish
  <2>2. /\ opening \in Int /\ bar \in Nat
        /\ MaxDailyLossPct \in 1..100
    BY ConfigTypes, RiskAssumption DEF IInv, TypeOK
  <2>3. Worth \in Int
    BY ConfigTypes, EquityType, SMTT(40) DEF Worth, IInv, TypeOK
  <2>4. Worth > 0
    BY <2>1, <2>3 DEF EnterTrade, PositionSize
  <2>5. risk.daily.start = opening
    BY <2>1, <2>2 DEF Baseline, EnterTrade
  <2>6. ~(opening > 0 /\ 100 * (opening - Worth) >= MaxDailyLossPct * opening)
    BY <2>1, <2>5 DEF EnterTrade, MayOpen, IsBreached
  <2>7. CASE opening > 0
    BY <2>2, <2>3, <2>6, <2>7
  <2>8. CASE opening <= 0
    <3>1. (100 - MaxDailyLossPct) * opening <= 0
      BY <2>2, <2>8
    <3>2. QED
      BY <2>2, <2>3, <2>4, <3>1
  <2>9. QED
    BY <2>2, <2>7, <2>8
<1>3. QED
  BY <1>1, <1>2, BaselineStep, Invariance, PTL DEF Spec, NoEntryAfterBadDay

(* Over any replay the money, the records and the positions agree.         *)
THEOREM BooksBalance == Spec => []BooksAddUp
<1>1. IInv => BooksAddUp
  BY DEF IInv, BooksAddUp
<1>2. QED
  BY <1>1, Invariance, PTL

-----------------------------------------------------------------------------
(* The outcomes.                                                           *)

(* The market's bars so far, in the order in which they closed.            *)
TapeIsOrdered ==
  /\ minute \in 0..LastMinute
  /\ tape \in Seq([at : Nat, close : Int]) /\ Len(tape) >= 1
  /\ \A a, b \in DOMAIN tape : a < b => tape[a].at < tape[b].at
  /\ \A b \in DOMAIN tape : tape[b].at <= minute

IsCache(c) ==
  /\ c.rate \in Rates
  /\ c.first \in 1..c.last /\ c.last \in 1..Len(tape)

(* A prediction entered at the last bar of the cache it was made from, and *)
(* whatever the feed holds later reaches at least that far.                *)
PredictionIsRead ==
  prediction # NotYet =>
    LET p == prediction
    IN  /\ p.at \in 0..minute /\ p.direction \in {"buy", "sell", "hold"}
        /\ IsCache(p.seen) /\ tape[p.seen.last].at <= p.at
        /\ p.entry = p.seen.rate * tape[p.seen.last].close
        /\ p.stop = p.entry - Side(p.direction) * StopGap
        /\ p.target = p.entry + Side(p.direction) * TargetGap
        /\ cache # NoCache => cache.last >= p.seen.last

Walk(p) == (p.at + 1)..(p.at + Longest)
Free(p, c, t) == ~AtStop(p, PriceAt(c, t)) /\ ~AtTarget(p, PriceAt(c, t))

(* What the caches S, each as new as the one of the entry, answered: the   *)
(* prices, and no level reached until the minute m.                        *)
FreeUntil(p, S, m) == \A t \in (p.at + 1)..m : \E c \in S : Free(p, c, t)
Reading(p, prices, S, m) ==
  /\ DOMAIN prices \subseteq Horizons
  /\ \A c \in S : IsCache(c) /\ c.last >= p.seen.last
  /\ \A h \in DOMAIN prices : \E c \in S : prices[h] = PriceAt(c, p.at + h)
  /\ FreeUntil(p, S, m)

ScoringIsRead ==
  /\ scoring = [state |-> scoring.state, prices |-> scoring.prices,
                reached |-> scoring.reached, seen |-> scoring.seen]
  /\ scoring.state \in {"none", "open", "over"}
  /\ scoring.reached \in 0..(Longest - 1)
  /\ DOMAIN scoring.prices \subseteq Horizons
  /\ scoring.state = "open" =>
       /\ prediction # NotYet
       /\ Reading(prediction, scoring.prices, scoring.seen, prediction.at + scoring.reached)

(* The first minute of the walk that reaches a level, in the cache asked   *)
(* for it, decides; without one, the last price does.                      *)
Touched(p, S, touch) ==
  \E t \in Walk(p), c \in S :
    /\ FreeUntil(p, S, t - 1)
    /\ \/ touch = "stop" /\ AtStop(p, PriceAt(c, t))
       \/ touch = "target" /\ ~AtStop(p, PriceAt(c, t)) /\ AtTarget(p, PriceAt(c, t))

Gain(p, o) ==
  CASE o.touch = "none" -> Side(p.direction) * (o.prices[Longest] - p.entry)
    [] o.touch = "stop" -> Side(p.direction) * (p.stop - p.entry)
    [] o.touch = "target" -> Side(p.direction) * (p.target - p.entry)

OutcomeIsScored ==
  outcome # NotYet =>
    /\ prediction # NotYet
    /\ outcome.touch \in {"none", "stop", "target"}
    /\ outcome.correct \in {0, 1, NotYet}
    /\ DOMAIN outcome.prices = Horizons
    /\ Reading(prediction, outcome.prices, outcome.seen, prediction.at)
    /\ prediction.direction # "hold" =>
         /\ outcome.touch = "none" => FreeUntil(prediction, outcome.seen, prediction.at + Longest)
         /\ outcome.touch # "none" => Touched(prediction, outcome.seen, outcome.touch)
         /\ outcome.pnl = Gain(prediction, outcome)
         /\ outcome.correct =
              IF Side(prediction.direction) * (outcome.prices[Longest] - prediction.entry) > 0 THEN 1 ELSE 0

OutcomesInv ==
  /\ TapeIsOrdered
  /\ cache # NoCache => IsCache(cache)
  /\ PredictionIsRead
  /\ ScoringIsRead
  /\ OutcomeIsScored

-----------------------------------------------------------------------------
LEMMA HorizonFacts ==
  /\ Longest \in Horizons /\ Longest \in Nat /\ Longest >= 1
  /\ \A h \in Horizons : h \in Nat /\ h >= 1 /\ h <= Longest
<1>1. Horizons \subseteq Nat \ {0} /\ \E m \in Horizons : \A h \in Horizons : m >= h
  BY OutcomesAssumption
<1>2. Longest \in Horizons /\ \A h \in Horizons : Longest >= h
  BY <1>1 DEF Longest, Max
<1>3. QED
  BY <1>1, <1>2

LEMMA HorizonsAhead ==
  \A n \in Nat : n + Longest \in Nat /\ \A h \in Horizons : h \in Nat /\ n + h \in Nat
<1>1. \A n, h \in Nat : n + h \in Nat
  OBVIOUS
<1>2. QED
  BY <1>1, HorizonFacts

LEMMA OutcomeConstants ==
  /\ StopGap \in Nat /\ StopGap >= 1 /\ TargetGap \in Nat /\ TargetGap >= 1
  /\ CacheCap \in Nat /\ CacheCap >= 1 /\ LastMinute \in Nat
  /\ FirstPrice \in Int /\ Moves \subseteq Int /\ Rates \subseteq Nat \ {0}
BY OutcomesAssumption

LEMMA TapeFacts ==
  ASSUME TapeIsOrdered
  PROVE  /\ Len(tape) \in Nat /\ Len(tape) >= 1 /\ DOMAIN tape = 1..Len(tape)
         /\ \A b \in DOMAIN tape : b \in Nat /\ tape[b].at \in Nat /\ tape[b].close \in Int
                                 /\ tape[b].at <= minute
         /\ minute \in Nat
<1>1. tape \in Seq([at : Nat, close : Int]) /\ Len(tape) >= 1
      /\ \A b \in DOMAIN tape : tape[b].at <= minute
  BY DEF TapeIsOrdered
<1>2. Len(tape) \in Nat /\ DOMAIN tape = 1..Len(tape)
  BY <1>1
<1>3. ASSUME NEW b \in 1..Len(tape) PROVE tape[b].at \in Nat /\ tape[b].close \in Int
  <2>1. tape[b] \in [at : Nat, close : Int]
    BY <1>1, <1>2, ElementOfSeq
  <2>2. QED
    BY <2>1
<1>4. minute \in 0..LastMinute /\ LastMinute \in Nat
  BY OutcomeConstants DEF TapeIsOrdered
<1>5. QED
  BY <1>1, <1>2, <1>3, <1>4

LEMMA BarFacts ==
  ASSUME TapeIsOrdered, NEW c, IsCache(c), NEW t \in Nat
  PROVE  /\ BarAt(c, t) \in c.first..c.last /\ BarAt(c, t) \in DOMAIN tape
         /\ BarAt(c, t) \in Nat /\ c.first \in Nat /\ c.last \in Nat
         /\ \A b \in c.first..c.last : tape[b].at <= t => b <= BarAt(c, t)
         /\ BarAt(c, t) = c.first \/ tape[BarAt(c, t)].at <= t
         /\ PriceAt(c, t) \in Int
<1>1. /\ DOMAIN tape = 1..Len(tape) /\ Len(tape) \in Nat
      /\ \A b \in DOMAIN tape : tape[b].close \in Int
  BY TapeFacts
<1>2. c.first \in Nat /\ c.last \in Nat /\ 1 <= c.first /\ c.first <= c.last /\ c.last <= Len(tape)
  BY <1>1 DEF IsCache
<1> DEFINE S == {c.first} \cup {b \in c.first..c.last : tape[b].at <= t}
<1>3. S \in SUBSET (0..c.last) /\ S # {}
  BY <1>2
<1>4. Max(S) \in S /\ \A s \in S : s <= Max(S)
  BY <1>2, <1>3, LargestOf
<1>5. BarAt(c, t) = Max(S)
  BY DEF BarAt
<1>6. BarAt(c, t) \in S /\ \A s \in S : s <= BarAt(c, t)
  BY <1>4, <1>5
<1>7. BarAt(c, t) \in c.first..c.last /\ BarAt(c, t) \in DOMAIN tape
  BY <1>1, <1>2, <1>6
<1>8. c.rate \in Int
  <2>1. c.rate \in Rates /\ Rates \subseteq Nat \ {0}
    BY OutcomeConstants DEF IsCache
  <2>2. c.rate \in Nat
    BY <2>1, Zenon
  <2>3. QED
    BY <2>2
<1>9. PriceAt(c, t) \in Int
  BY <1>1, <1>7, <1>8 DEF PriceAt
<1>10. QED
  BY <1>1, <1>2, <1>6, <1>7, <1>9

(* What the cache has of the tape does not change while the tape grows.    *)
TapeGrows == \/ tape' = tape
             \/ \E candle \in [at : Nat, close : Int] : tape' = Append(tape, candle)

LEMMA BarsStay ==
  ASSUME TapeIsOrdered, TapeGrows
  PROVE  /\ Len(tape') \in Nat /\ Len(tape) <= Len(tape')
         /\ \A b \in DOMAIN tape : b \in DOMAIN tape' /\ tape'[b] = tape[b]
<1>1. tape \in Seq([at : Nat, close : Int]) /\ Len(tape) \in Nat
  BY TapeFacts DEF TapeIsOrdered
<1>2. CASE tape' = tape
  BY <1>1, <1>2
<1>3. ASSUME NEW candle \in [at : Nat, close : Int], tape' = Append(tape, candle)
      PROVE  /\ Len(tape') = Len(tape) + 1
             /\ \A b \in 1..Len(tape) : tape'[b] = tape[b]
             /\ DOMAIN tape' = 1..(Len(tape) + 1) /\ DOMAIN tape = 1..Len(tape)
  BY <1>1, <1>3
<1>4. CASE \E candle \in [at : Nat, close : Int] : tape' = Append(tape, candle)
  <2>1. PICK candle \in [at : Nat, close : Int] : tape' = Append(tape, candle)
    BY <1>4
  <2>2. QED
    BY <1>1, <1>3, <2>1
<1>5. QED
  BY <1>2, <1>4 DEF TapeGrows

LEMMA CacheStays ==
  ASSUME TapeIsOrdered, TapeGrows, NEW CONSTANT c, IsCache(c), NEW CONSTANT t \in Nat
  PROVE  IsCache(c)' /\ PriceAt(c, t)' = PriceAt(c, t)
<1>1. /\ Len(tape') \in Nat /\ Len(tape) <= Len(tape') /\ Len(tape) \in Nat
      /\ DOMAIN tape = 1..Len(tape)
      /\ \A b \in DOMAIN tape : b \in DOMAIN tape' /\ tape'[b] = tape[b]
  BY BarsStay, TapeFacts
<1>2. c.first \in Nat /\ c.last \in Nat /\ 1 <= c.first /\ c.first <= c.last /\ c.last <= Len(tape)
  BY <1>1 DEF IsCache
<1>3. IsCache(c)'
  BY <1>1, <1>2 DEF IsCache
<1>4. \A b \in c.first..c.last : tape'[b] = tape[b]
  BY <1>1, <1>2
<1>5. {b \in c.first..c.last : tape'[b].at <= t} = {b \in c.first..c.last : tape[b].at <= t}
  BY <1>4
<1>6. BarAt(c, t)' = BarAt(c, t)
  BY <1>5 DEF BarAt
<1>7. tape'[BarAt(c, t)] = tape[BarAt(c, t)]
  BY <1>4, BarFacts
<1>8. QED
  BY <1>3, <1>6, <1>7 DEF PriceAt

(* What was read, and a verdict on it, stand while the tape grows.         *)
LEMMA ReadingStays ==
  ASSUME TapeIsOrdered, TapeGrows, NEW CONSTANT p, p.at \in Nat, NEW CONSTANT prices,
         NEW CONSTANT S, NEW CONSTANT m, m \in Nat, Reading(p, prices, S, m)
  PROVE  Reading(p, prices, S, m)'
<1>1. /\ DOMAIN prices \subseteq Horizons
      /\ \A c \in S : IsCache(c) /\ c.last >= p.seen.last
      /\ \A h \in DOMAIN prices : \E c \in S : prices[h] = PriceAt(c, p.at + h)
      /\ \A t \in (p.at + 1)..m : \E c \in S : Free(p, c, t)
  BY DEF Reading, FreeUntil
<1>2. \A c \in S : IsCache(c)' /\ \A t \in Nat : PriceAt(c, t)' = PriceAt(c, t)
  BY <1>1, CacheStays
<1>3. \A h \in DOMAIN prices : p.at + h \in Nat
  BY <1>1, HorizonsAhead
<1>4. \A h \in DOMAIN prices : \E c \in S : prices[h] = PriceAt(c, p.at + h)'
  BY <1>1, <1>2, <1>3
<1>5. \A t \in (p.at + 1)..m : t \in Nat
  OBVIOUS
<1>6. \A c \in S : \A t \in Nat : Free(p, c, t) => Free(p, c, t)'
  BY <1>2 DEF Free, AtStop, AtTarget
<1>7. \A t \in (p.at + 1)..m : \E c \in S : Free(p, c, t)'
  BY <1>1, <1>5, <1>6
<1>8. QED
  BY <1>1, <1>2, <1>4, <1>7 DEF Reading, FreeUntil

LEMMA FreeStays ==
  ASSUME TapeIsOrdered, TapeGrows, NEW CONSTANT p, p.at \in Nat, NEW CONSTANT S,
         \A c \in S : IsCache(c), NEW CONSTANT m, m \in Nat, FreeUntil(p, S, m)
  PROVE  FreeUntil(p, S, m)'
<1>1. \A c \in S : \A t \in Nat : PriceAt(c, t)' = PriceAt(c, t)
  BY CacheStays
<1>2. \A c \in S : \A t \in Nat : Free(p, c, t) => Free(p, c, t)'
  BY <1>1 DEF Free, AtStop, AtTarget
<1>3. \A t \in (p.at + 1)..m : t \in Nat
  OBVIOUS
<1>4. QED
  BY <1>2, <1>3 DEF FreeUntil

LEMMA TouchStays ==
  ASSUME TapeIsOrdered, TapeGrows, NEW CONSTANT p, p.at \in Nat, NEW CONSTANT S,
         \A c \in S : IsCache(c), NEW CONSTANT touch, Touched(p, S, touch)
  PROVE  Touched(p, S, touch)'
<1>1. PICK t \in Walk(p), c \in S :
        /\ FreeUntil(p, S, t - 1)
        /\ \/ touch = "stop" /\ AtStop(p, PriceAt(c, t))
           \/ touch = "target" /\ ~AtStop(p, PriceAt(c, t)) /\ AtTarget(p, PriceAt(c, t))
  BY DEF Touched
<1>2. t \in Nat /\ t - 1 \in Nat
  BY HorizonFacts DEF Walk
<1>3. FreeUntil(p, S, t - 1)'
  BY <1>1, <1>2, FreeStays
<1>4. PriceAt(c, t)' = PriceAt(c, t)
  BY <1>2, CacheStays
<1>5. Walk(p)' = Walk(p)
  BY DEF Walk
<1>6. QED
  BY <1>1, <1>3, <1>4, <1>5 DEF Touched, AtStop, AtTarget

-----------------------------------------------------------------------------
LEMMA OutcomesInitEstablishes == OutcomesInit => OutcomesInv
<1> SUFFICES ASSUME OutcomesInit PROVE OutcomesInv
  OBVIOUS
<1>1. minute = 0 /\ tape = <<[at |-> 0, close |-> FirstPrice]>>
  BY DEF OutcomesInit
<1>2. TapeIsOrdered
  BY <1>1, OutcomeConstants DEF TapeIsOrdered
<1>3. ScoringIsRead
  <2>1. 0 \in 0..(Longest - 1)
    BY HorizonFacts
  <2>2. QED
    BY <2>1 DEF OutcomesInit, NotScoring, ScoringIsRead
<1>4. QED
  BY <1>2, <1>3 DEF OutcomesInit, OutcomesInv, PredictionIsRead, OutcomeIsScored

LEMMA ScoringStays ==
  ASSUME TapeIsOrdered, TapeGrows, UNCHANGED <<prediction, scoring>>, ScoringIsRead,
         prediction # NotYet => prediction.at \in Nat
  PROVE  ScoringIsRead'
<1>1. CASE scoring.state # "open"
  BY <1>1 DEF ScoringIsRead
<1>2. CASE scoring.state = "open"
  <2> DEFINE m == prediction.at + scoring.reached
  <2>1. /\ prediction # NotYet
        /\ Reading(prediction, scoring.prices, scoring.seen, m)
    BY <1>2 DEF ScoringIsRead
  <2>2. prediction.at \in Nat /\ m \in Nat
    BY <2>1, HorizonFacts DEF ScoringIsRead
  <2> HIDE DEF m
  <2>3. \A p, prices, S, k : p = prediction /\ prices = scoring.prices /\ S = scoring.seen /\ k = m
          => Reading(p, prices, S, k)'
    BY <2>1, <2>2, ReadingStays
  <2>4. Reading(prediction, scoring.prices, scoring.seen, prediction.at + scoring.reached)'
    BY <2>3 DEF m, Reading, FreeUntil, Free, AtStop, AtTarget, Side
  <2>5. QED
    BY <2>1, <2>4 DEF ScoringIsRead
<1>3. QED
  BY <1>1, <1>2

LEMMA OutcomeStays ==
  ASSUME TapeIsOrdered, TapeGrows, UNCHANGED <<prediction, outcome>>, OutcomeIsScored,
         prediction # NotYet => prediction.at \in Nat
  PROVE  OutcomeIsScored'
<1> SUFFICES ASSUME outcome # NotYet PROVE OutcomeIsScored'
  BY DEF OutcomeIsScored
<1> DEFINE p == prediction
           S == outcome.seen
<1>1. /\ p # NotYet
      /\ Reading(p, outcome.prices, S, p.at)
      /\ p.direction # "hold" =>
           /\ outcome.touch = "none" => FreeUntil(p, S, p.at + Longest)
           /\ outcome.touch # "none" => Touched(p, S, outcome.touch)
  BY DEF OutcomeIsScored
<1>2. p.at \in Nat /\ p.at + Longest \in Nat /\ \A c \in S : IsCache(c)
  BY <1>1, HorizonFacts DEF Reading
<1>3. \A q, prices, T, k : q = p /\ prices = outcome.prices /\ T = S /\ k = p.at
        => Reading(q, prices, T, k)'
  BY <1>1, <1>2, ReadingStays
<1>4. \A q, T, k : q = p /\ T = S /\ k = p.at + Longest /\ FreeUntil(p, S, p.at + Longest)
        => FreeUntil(q, T, k)'
  BY <1>2, FreeStays
<1>5. \A q, T, how : q = p /\ T = S /\ how = outcome.touch /\ Touched(p, S, outcome.touch)
        => Touched(q, T, how)'
  BY <1>2, TouchStays
<1>6. Reading(prediction, outcome.prices, outcome.seen, prediction.at)'
  BY <1>3 DEF Reading, FreeUntil, Free, AtStop, AtTarget, Side
<1>7. FreeUntil(p, S, p.at + Longest) => FreeUntil(prediction, outcome.seen, prediction.at + Longest)'
  BY <1>4 DEF FreeUntil, Free, AtStop, AtTarget, Side
<1>8. Touched(p, S, outcome.touch) => Touched(prediction, outcome.seen, outcome.touch)'
  BY <1>5 DEF Touched, Walk, FreeUntil, Free, AtStop, AtTarget, Side
<1>9. Gain(prediction, outcome)' = Gain(prediction, outcome)
  BY DEF Gain, Side
<1>10. QED
  BY <1>1, <1>6, <1>7, <1>8, <1>9 DEF OutcomeIsScored, Side

LEMMA PredictionStays ==
  ASSUME OutcomesInv, TapeGrows, UNCHANGED <<cache, prediction, scoring, outcome>>,
         minute' \in Nat, minute <= minute'
  PROVE  (cache # NoCache => IsCache(cache))' /\ PredictionIsRead' /\ ScoringIsRead' /\ OutcomeIsScored'
<1>1. TapeIsOrdered
  BY DEF OutcomesInv
<1>2. (cache # NoCache => IsCache(cache))'
  BY <1>1, CacheStays DEF OutcomesInv
<1>3. PredictionIsRead'
  <2> SUFFICES ASSUME prediction # NotYet
               PROVE  PredictionIsRead'
    BY DEF PredictionIsRead
  <2> DEFINE p == prediction
  <2>1. /\ p.at \in 0..minute /\ p.direction \in {"buy", "sell", "hold"}
        /\ IsCache(p.seen) /\ tape[p.seen.last].at <= p.at
        /\ p.entry = p.seen.rate * tape[p.seen.last].close
        /\ p.stop = p.entry - Side(p.direction) * StopGap
        /\ p.target = p.entry + Side(p.direction) * TargetGap
        /\ cache # NoCache => cache.last >= p.seen.last
    BY DEF OutcomesInv, PredictionIsRead
  <2>2. p.seen.last \in DOMAIN tape
    BY <1>1, <2>1, TapeFacts DEF IsCache
  <2>3. tape'[p.seen.last] = tape[p.seen.last]
    BY <1>1, <2>2, BarsStay
  <2>4. IsCache(p.seen)'
    BY <1>1, <2>1, CacheStays
  <2>5. p.at \in 0..minute'
    BY <1>1, <2>1, TapeFacts
  <2>6. QED
    BY <2>1, <2>3, <2>4, <2>5 DEF PredictionIsRead, Side
<1>4. ASSUME prediction # NotYet PROVE prediction.at \in Nat
  BY <1>1, <1>4, TapeFacts DEF OutcomesInv, PredictionIsRead
<1>5. ScoringIsRead'
  BY <1>4, ScoringStays DEF OutcomesInv
<1>6. OutcomeIsScored'
  BY <1>4, OutcomeStays DEF OutcomesInv
<1>7. QED
  BY <1>2, <1>3, <1>5, <1>6

LEMMA MarketKeeps == OutcomesInv /\ MarketMoves => OutcomesInv'
<1> SUFFICES ASSUME OutcomesInv, MarketMoves PROVE OutcomesInv'
  OBVIOUS
<1>1. TapeIsOrdered
  BY DEF OutcomesInv
<1>2. /\ minute < LastMinute /\ minute' = minute + 1
      /\ UNCHANGED <<cache, prediction, scoring, outcome>>
      /\ \/ tape' = tape
         \/ \E move \in Moves :
              tape' = Append(tape, [at |-> minute + 1, close |-> tape[Len(tape)].close + move])
  BY DEF MarketMoves
<1>3. /\ minute \in Nat /\ Len(tape) \in Nat /\ Len(tape) >= 1 /\ DOMAIN tape = 1..Len(tape)
      /\ \A b \in DOMAIN tape : b \in Nat /\ tape[b].at \in Nat /\ tape[b].close \in Int
                              /\ tape[b].at <= minute
  BY <1>1, TapeFacts
<1>4. minute' \in Nat /\ minute' \in 0..LastMinute
  BY <1>2, <1>3, OutcomeConstants
<1>5. CASE tape' = tape
  <2>1. TapeIsOrdered'
    BY <1>1, <1>2, <1>3, <1>4, <1>5 DEF TapeIsOrdered
  <2>2. QED
    BY <1>2, <1>3, <1>4, <1>5, <2>1, PredictionStays DEF TapeGrows, OutcomesInv
<1>6. ASSUME NEW move \in Moves,
             tape' = Append(tape, [at |-> minute + 1, close |-> tape[Len(tape)].close + move])
      PROVE  OutcomesInv'
  <2> DEFINE candle == [at |-> minute + 1, close |-> tape[Len(tape)].close + move]
  <2>1. candle \in [at : Nat, close : Int] /\ candle.at = minute + 1
    BY <1>3, OutcomeConstants
  <2>2. tape \in Seq([at : Nat, close : Int])
    BY <1>1 DEF TapeIsOrdered
  <2> HIDE DEF candle
  <2>3. /\ tape' \in Seq([at : Nat, close : Int]) /\ Len(tape') = Len(tape) + 1
        /\ \A b \in 1..Len(tape) : tape'[b] = tape[b]
        /\ tape'[Len(tape) + 1] = candle /\ DOMAIN tape' = 1..(Len(tape) + 1)
    BY <1>6, <2>1, <2>2 DEF candle
  <2>4. \A b \in DOMAIN tape' : tape'[b].at <= minute'
    <3> TAKE b \in DOMAIN tape'
    <3>1. CASE b \in 1..Len(tape)
      <4>1. tape'[b] = tape[b] /\ tape[b].at \in Nat /\ tape[b].at <= minute
        BY <3>1, <2>3, <1>3
      <4>2. QED
        BY <4>1, <1>2, <1>3
    <3>2. CASE b = Len(tape) + 1
      BY <3>2, <2>1, <2>3, <1>2, <1>3
    <3>3. QED
      BY <3>1, <3>2, <2>3, <1>3
  <2>5. \A a, b \in DOMAIN tape' : a < b => tape'[a].at < tape'[b].at
    <3> SUFFICES ASSUME NEW a \in DOMAIN tape', NEW b \in DOMAIN tape', a < b
                 PROVE  tape'[a].at < tape'[b].at
      OBVIOUS
    <3>1. a \in 1..Len(tape) /\ tape'[a] = tape[a] /\ tape[a].at \in Nat /\ tape[a].at <= minute
      BY <2>3, <1>3
    <3>2. CASE b \in 1..Len(tape)
      BY <3>1, <3>2, <1>1, <1>3, <2>3 DEF TapeIsOrdered
    <3>3. CASE b = Len(tape) + 1
      BY <3>1, <3>3, <2>1, <2>3, <1>3
    <3>4. QED
      BY <3>2, <3>3, <2>3, <1>3
  <2>6. TapeIsOrdered'
    BY <1>3, <1>4, <2>3, <2>4, <2>5 DEF TapeIsOrdered
  <2>7. TapeGrows
    BY <1>6, <2>1 DEF TapeGrows, candle
  <2>8. QED
    BY <1>2, <1>3, <1>4, <2>6, <2>7, PredictionStays DEF OutcomesInv
<1>7. QED
  BY <1>2, <1>5, <1>6

(* A cache that reaches the newest bar keeps everything.                   *)
LEMMA NewCacheKeeps ==
  ASSUME OutcomesInv, UNCHANGED <<minute, tape, prediction, outcome>>,
         scoring' \in {scoring, NotScoring},
         cache' # NoCache => IsCache(cache') /\ cache'.last = Len(tape)
  PROVE  OutcomesInv'
<1>1. TapeIsOrdered /\ Len(tape) \in Nat /\ TapeGrows
  BY TapeFacts DEF OutcomesInv, TapeGrows
<1>2. TapeIsOrdered' /\ (cache # NoCache => IsCache(cache))'
  BY <1>1 DEF TapeIsOrdered, IsCache
<1>3. PredictionIsRead'
  BY <1>1, SMTT(40) DEF OutcomesInv, PredictionIsRead, IsCache
<1>4. prediction # NotYet => prediction.at \in Nat
  BY <1>1, TapeFacts DEF OutcomesInv, PredictionIsRead
<1>5. OutcomeIsScored'
  BY <1>1, <1>4, OutcomeStays DEF OutcomesInv
<1>6. ScoringIsRead'
  <2>1. CASE scoring' = scoring
    BY <1>1, <1>4, <2>1, ScoringStays DEF OutcomesInv
  <2>2. CASE scoring' = NotScoring
    <3>1. 0 \in 0..(Longest - 1)
      BY HorizonFacts
    <3>2. QED
      BY <2>2, <3>1 DEF NotScoring, ScoringIsRead
  <2>3. QED
    BY <2>1, <2>2
<1>7. QED
  BY <1>2, <1>3, <1>5, <1>6 DEF OutcomesInv

LEMMA RefreshKeeps == OutcomesInv /\ (RefreshCache \/ DropCache \/ FetchOneSymbol \/ EndProcess) => OutcomesInv'
<1> SUFFICES ASSUME OutcomesInv, RefreshCache \/ DropCache \/ FetchOneSymbol \/ EndProcess PROVE OutcomesInv'
  OBVIOUS
<1>1. UNCHANGED <<minute, tape, prediction, outcome>> /\ scoring' \in {scoring, NotScoring}
  BY DEF RefreshCache, DropCache, FetchOneSymbol, EndProcess
<1>2. Len(tape) \in Nat /\ Len(tape) >= 1 /\ CacheCap \in Nat /\ CacheCap >= 1
  BY TapeFacts, OutcomeConstants DEF OutcomesInv
<1>3. CachedFrom(CacheCap) \in 1..Len(tape)
  <2> DEFINE S == {1, Len(tape) - CacheCap + 1}
  <2>1. \E m \in S : \A n \in S : m >= n
    <3>1. CASE Len(tape) - CacheCap + 1 >= 1
      BY <3>1, <1>2
    <3>2. CASE ~(Len(tape) - CacheCap + 1 >= 1)
      BY <3>2, <1>2
    <3>3. QED
      BY <3>1, <3>2
  <2>2. Max(S) \in S /\ \A n \in S : Max(S) >= n
    BY <2>1 DEF Max
  <2>3. CachedFrom(CacheCap) \in S /\ CachedFrom(CacheCap) >= 1
    BY <2>2 DEF CachedFrom
  <2>4. QED
    BY <2>3, <1>2
<1>4. ASSUME NEW rate \in Rates, NEW first \in 1..Len(tape)
      PROVE  LET c == [first |-> first, last |-> Len(tape), rate |-> rate]
             IN  IsCache(c) /\ c.last = Len(tape)
  BY <1>2 DEF IsCache
<1>5. CASE RefreshCache
  <2>1. PICK rate \in Rates :
          cache' = [first |-> CachedFrom(CacheCap), last |-> Len(tape), rate |-> rate]
    BY <1>5 DEF RefreshCache
  <2>2. QED
    BY <1>1, <1>3, <1>4, <2>1, NewCacheKeeps
<1>6. CASE FetchOneSymbol
  <2>1. PICK rate \in Rates : cache' = [first |-> 1, last |-> Len(tape), rate |-> rate]
    BY <1>6 DEF FetchOneSymbol
  <2>2. QED
    BY <1>1, <1>2, <1>4, <2>1, NewCacheKeeps
<1>7. CASE DropCache \/ EndProcess
  BY <1>1, <1>7, NewCacheKeeps DEF DropCache, EndProcess
<1>8. QED
  BY <1>5, <1>6, <1>7

LEMMA PredictKeeps ==
  ASSUME OutcomesInv, NEW direction \in {"buy", "sell", "hold"}, Predict(direction)
  PROVE  OutcomesInv'
<1>1. TapeIsOrdered /\ minute \in Nat
  BY TapeFacts DEF OutcomesInv
<1> DEFINE entry == PriceAt(cache, minute)
<1>2. /\ prediction = NotYet /\ cache # NoCache
      /\ prediction' = [at |-> minute, direction |-> direction, entry |-> entry,
                        stop |-> entry - Side(direction) * StopGap,
                        target |-> entry + Side(direction) * TargetGap,
                        seen |-> cache]
      /\ UNCHANGED <<minute, tape, cache, scoring, outcome>>
  BY DEF Predict
<1>3. IsCache(cache)
  BY <1>2 DEF OutcomesInv
<1>4. TapeIsOrdered' /\ (cache # NoCache => IsCache(cache))'
  BY <1>1, <1>2, <1>3 DEF TapeIsOrdered, IsCache
<1>5. cache.last \in DOMAIN tape /\ tape[cache.last].at <= minute
  BY <1>1, <1>3, TapeFacts DEF IsCache
<1>6. BarAt(cache, minute) = cache.last
  <2>1. /\ BarAt(cache, minute) \in cache.first..cache.last
        /\ \A b \in cache.first..cache.last : tape[b].at <= minute => b <= BarAt(cache, minute)
        /\ cache.first \in Nat /\ cache.last \in Nat
    BY <1>1, <1>3, BarFacts
  <2>2. cache.last \in cache.first..cache.last
    BY <2>1
  <2>3. QED
    BY <2>1, <2>2, <1>5
<1>7. entry = cache.rate * tape[cache.last].close
  <2>1. entry = cache.rate * tape[BarAt(cache, minute)].close
    BY DEF PriceAt
  <2>2. QED
    BY <2>1, <1>6
<1>8. PredictionIsRead'
  <2> HIDE DEF entry
  <2>1. /\ prediction'.at = minute /\ prediction'.direction = direction
        /\ prediction'.seen = cache /\ prediction'.entry = entry
        /\ prediction'.stop = entry - Side(direction) * StopGap
        /\ prediction'.target = entry + Side(direction) * TargetGap
    BY <1>2
  <2>2. cache.last >= cache.last
    BY <1>3, <1>1, TapeFacts DEF IsCache
  <2>3. minute \in 0..minute
    BY <1>1
  <2>4. IsCache(prediction.seen)'
    BY <1>2, <1>3, <2>1 DEF IsCache
  <2>5. QED
    BY <1>2, <1>5, <1>7, <2>1, <2>2, <2>3, <2>4 DEF PredictionIsRead, Side
<1>9. outcome = NotYet /\ scoring.state # "open"
  BY <1>2 DEF OutcomesInv, OutcomeIsScored, ScoringIsRead
<1>10. OutcomeIsScored'
  BY <1>2, <1>9 DEF OutcomeIsScored
<1>11. ScoringIsRead'
  BY <1>2, <1>9 DEF OutcomesInv, ScoringIsRead
<1>12. QED
  BY <1>4, <1>8, <1>10, <1>11 DEF OutcomesInv

(* The steps of an evaluation move nothing but it and its outcome.         *)
LEMMA ScoringKeeps ==
  ASSUME OutcomesInv, UNCHANGED <<minute, tape, cache, prediction>>,
         ScoringIsRead', OutcomeIsScored'
  PROVE  OutcomesInv'
<1>1. TapeIsOrdered' /\ (cache # NoCache => IsCache(cache))' /\ PredictionIsRead'
  BY DEF OutcomesInv, TapeIsOrdered, IsCache, PredictionIsRead
<1>2. QED
  BY <1>1 DEF OutcomesInv

LEMMA OverIsRead == scoring' = Evaluated => ScoringIsRead'
<1> SUFFICES ASSUME scoring' = Evaluated PROVE ScoringIsRead'
  OBVIOUS
<1>1. scoring' = [state |-> "over", prices |-> <<>>, reached |-> 0, seen |-> {}]
  BY DEF Evaluated, NotScoring
<1>2. 0 \in 0..(Longest - 1)
  BY HorizonFacts
<1>3. QED
  BY <1>1, <1>2 DEF ScoringIsRead

LEMMA BeginsAndEnds == OutcomesInv /\ (BeginScoring \/ ScoreGivenUp) => OutcomesInv'
<1> SUFFICES ASSUME OutcomesInv, BeginScoring \/ ScoreGivenUp PROVE OutcomesInv'
  OBVIOUS
<1>1. UNCHANGED <<minute, tape, cache, prediction, outcome>> /\ TapeIsOrdered /\ TapeGrows
  BY DEF BeginScoring, ScoreGivenUp, OutcomesInv, TapeGrows
<1>2. prediction # NotYet => prediction.at \in Nat
  BY <1>1, TapeFacts DEF OutcomesInv, PredictionIsRead
<1>3. OutcomeIsScored'
  BY <1>1, <1>2, OutcomeStays DEF OutcomesInv
<1>4. CASE ScoreGivenUp
  BY <1>1, <1>3, <1>4, OverIsRead, ScoringKeeps DEF ScoreGivenUp
<1>5. CASE BeginScoring
  <2>1. /\ prediction # NotYet
        /\ scoring' = [state |-> "open", prices |-> <<>>, reached |-> 0, seen |-> {}]
    BY <1>5 DEF BeginScoring, NotScoring
  <2>2. 0 \in 0..(Longest - 1) /\ prediction.at \in Nat /\ prediction.at + 0 = prediction.at
    BY <1>2, <2>1, HorizonFacts
  <2>3. (prediction.at + 1)..prediction.at = {}
    BY <2>2
  <2>4. Reading(prediction, <<>>, {}, prediction.at)'
    BY <1>1, <2>3 DEF Reading, FreeUntil
  <2>5. ScoringIsRead'
    BY <1>1, <2>1, <2>2, <2>4 DEF ScoringIsRead
  <2>6. QED
    BY <1>1, <1>3, <2>5, ScoringKeeps
<1>6. QED
  BY <1>4, <1>5

(* One answer more.                                                        *)
LEMMA ReadingGrows ==
  ASSUME NEW p, NEW prices, NEW S, NEW m, Reading(p, prices, S, m),
         NEW c, IsCache(c), c.last >= p.seen.last
  PROVE  /\ Reading(p, prices, S \cup {c}, m)
         /\ \A t : Free(p, c, t) /\ p.at \in Nat /\ m \in Nat /\ p.at <= m /\ t = m + 1
                     => FreeUntil(p, S \cup {c}, t)
<1>1. Reading(p, prices, S \cup {c}, m)
  BY DEF Reading, FreeUntil
<1>2. ASSUME NEW t, Free(p, c, t), p.at \in Nat, m \in Nat, p.at <= m, t = m + 1
      PROVE  FreeUntil(p, S \cup {c}, t)
  <2>1. \A u \in (p.at + 1)..t : u \in (p.at + 1)..m \/ u = t
    BY <1>2
  <2>2. QED
    BY <1>2, <2>1 DEF Reading, FreeUntil
<1>3. QED
  BY <1>1, <1>2

(* The tape stands while answers are given.                                *)
LEMMA BookKeeps ==
  ASSUME OutcomesInv, UNCHANGED <<minute, tape, cache, prediction>>, prediction # NotYet,
         NEW prices, NEW how \in {"none", "stop", "target"}, Book(prices, how),
         DOMAIN prices = Horizons,
         Reading(prediction, prices, scoring.seen \cup {cache}, prediction.at),
         prediction.direction # "hold" =>
           /\ how = "none" => FreeUntil(prediction, scoring.seen \cup {cache}, prediction.at + Longest)
           /\ how # "none" => Touched(prediction, scoring.seen \cup {cache}, how)
  PROVE  OutcomesInv'
<1> DEFINE p == prediction
           S == scoring.seen \cup {cache}
           o == Booked(p, prices, how, S)
<1>1. outcome' = o /\ scoring' = Evaluated
  BY DEF Book
<1>2. /\ o.prices = prices /\ o.touch = how /\ o.seen = S
      /\ o.correct \in {0, 1, NotYet}
      /\ p.direction # "hold" =>
           /\ o.correct = IF Side(p.direction) * (prices[Longest] - p.entry) > 0 THEN 1 ELSE 0
           /\ how = "none" => o.pnl = Side(p.direction) * (prices[Longest] - p.entry)
           /\ how = "stop" => o.pnl = Side(p.direction) * (p.stop - p.entry)
           /\ how = "target" => o.pnl = Side(p.direction) * (p.target - p.entry)
  BY DEF Booked
<1> HIDE DEF o, S
<1>3. TapeIsOrdered /\ TapeGrows /\ (prediction # NotYet => prediction.at \in Nat)
  BY TapeFacts DEF OutcomesInv, PredictionIsRead, TapeGrows
<1>4. p.direction # "hold" => o.pnl = Gain(p, o)
  BY <1>2 DEF Gain
<1>5. p.at \in Nat /\ p.at + Longest \in Nat /\ \A c \in S : IsCache(c)
  BY <1>3, HorizonFacts DEF Reading, S
<1>6. Reading(p, prices, S, p.at)
      /\ (p.direction # "hold" =>
           /\ how = "none" => FreeUntil(p, S, p.at + Longest)
           /\ how # "none" => Touched(p, S, how))
  BY DEF S
<1>7. \A q, r, T, k : q = p /\ r = prices /\ T = S /\ k = p.at => Reading(q, r, T, k)'
  BY <1>3, <1>5, <1>6, ReadingStays
<1>8. \A q, T, k : q = p /\ T = S /\ k = p.at + Longest /\ FreeUntil(p, S, p.at + Longest)
        => FreeUntil(q, T, k)'
  BY <1>3, <1>5, FreeStays
<1>9. \A q, T, x : q = p /\ T = S /\ x = how /\ Touched(p, S, how) => Touched(q, T, x)'
  BY <1>3, <1>5, TouchStays
<1>10. Reading(prediction, outcome.prices, outcome.seen, prediction.at)'
  BY <1>1, <1>2, <1>7 DEF Reading, FreeUntil, Free, AtStop, AtTarget, Side
<1>11. FreeUntil(p, S, p.at + Longest) => FreeUntil(prediction, outcome.seen, prediction.at + Longest)'
  BY <1>1, <1>2, <1>8 DEF FreeUntil, Free, AtStop, AtTarget, Side
<1>12. Touched(p, S, how) => Touched(prediction, outcome.seen, outcome.touch)'
  BY <1>1, <1>2, <1>9 DEF Touched, Walk, FreeUntil, Free, AtStop, AtTarget, Side
<1>13. Gain(prediction, outcome)' = Gain(p, o)
  BY <1>1 DEF Gain, Side
<1>14. OutcomeIsScored'
  BY <1>1, <1>2, <1>4, <1>6, <1>10, <1>11, <1>12, <1>13 DEF OutcomeIsScored, Side
<1>15. QED
  BY <1>1, <1>14, OverIsRead, ScoringKeeps

LEMMA ReadKeeps ==
  ASSUME OutcomesInv, UNCHANGED <<minute, tape, cache, prediction, outcome>>, prediction # NotYet,
         NEW prices, NEW n \in 0..(Longest - 1), NEW S,
         scoring' = [state |-> "open", prices |-> prices, reached |-> n, seen |-> S],
         Reading(prediction, prices, S, prediction.at + n)
  PROVE  OutcomesInv'
<1>1. TapeIsOrdered /\ TapeGrows /\ (prediction # NotYet => prediction.at \in Nat)
  BY TapeFacts DEF OutcomesInv, PredictionIsRead, TapeGrows
<1>2. OutcomeIsScored'
  BY <1>1, OutcomeStays DEF OutcomesInv
<1>3. prediction.at \in Nat /\ prediction.at + n \in Nat
  BY <1>1, HorizonFacts
<1>4. \A q, r, T, k : q = prediction /\ r = prices /\ T = S /\ k = prediction.at + n
        => Reading(q, r, T, k)'
  BY <1>1, <1>3, ReadingStays
<1>5. Reading(prediction, scoring.prices, scoring.seen, prediction.at + scoring.reached)'
  BY <1>4 DEF Reading, FreeUntil, Free, AtStop, AtTarget, Side
<1>6. DOMAIN prices \subseteq Horizons
  BY DEF Reading
<1>7. ScoringIsRead'
  BY <1>5, <1>6 DEF ScoringIsRead
<1>8. QED
  BY <1>2, <1>7, ScoringKeeps

LEMMA PriceKeeps == OutcomesInv /\ PriceHorizon => OutcomesInv'
<1> SUFFICES ASSUME OutcomesInv, PriceHorizon PROVE OutcomesInv'
  OBVIOUS
<1> DEFINE next == Min(Horizons \ DOMAIN scoring.prices)
           prices == [h \in DOMAIN scoring.prices \cup {next} |->
                        IF h = next THEN PriceAt(cache, prediction.at + next) ELSE scoring.prices[h]]
           S == scoring.seen \cup {cache}
           n == scoring.reached
<1>1. /\ scoring.state = "open" /\ cache # NoCache /\ DOMAIN scoring.prices # Horizons
      /\ UNCHANGED <<minute, tape, cache, prediction>>
  BY DEF PriceHorizon, LookingUp, Priced
<1>2. /\ scoring = [state |-> scoring.state, prices |-> scoring.prices,
                    reached |-> scoring.reached, seen |-> scoring.seen]
      /\ n \in 0..(Longest - 1) /\ DOMAIN scoring.prices \subseteq Horizons
      /\ prediction # NotYet
      /\ Reading(prediction, scoring.prices, scoring.seen, prediction.at + n)
      /\ IsCache(cache) /\ cache.last >= prediction.seen.last
  BY <1>1 DEF OutcomesInv, ScoringIsRead, PredictionIsRead
<1>3. next \in Horizons
  <2>1. Horizons \ DOMAIN scoring.prices \in SUBSET Nat
    BY HorizonFacts
  <2>2. Horizons \ DOMAIN scoring.prices # {}
    BY <1>1, <1>2
  <2>3. QED
    BY <2>1, <2>2, SmallestOf
<1>4. \/ /\ DOMAIN prices = Horizons /\ prediction.direction = "hold"
         /\ Book(prices, "none")
      \/ /\ scoring' = [scoring EXCEPT !.prices = prices, !.seen = @ \cup {cache}]
         /\ UNCHANGED outcome
  BY DEF PriceHorizon
<1> HIDE DEF next
<1>5. Reading(prediction, scoring.prices, S, prediction.at + n)
  BY <1>2, ReadingGrows
<1>6. Reading(prediction, prices, S, prediction.at + n)
  <2>1. DOMAIN prices = DOMAIN scoring.prices \cup {next}
    OBVIOUS
  <2>2. ASSUME NEW h \in DOMAIN prices
        PROVE  \E c \in S : prices[h] = PriceAt(c, prediction.at + h)
    <3>1. CASE h = next
      BY <3>1, <2>1
    <3>2. CASE h # next
      <4>1. h \in DOMAIN scoring.prices /\ prices[h] = scoring.prices[h]
        BY <2>1, <2>2, <3>2
      <4>2. QED
        BY <4>1, <1>5 DEF Reading
    <3>3. QED
      BY <3>1, <3>2
  <2>3. DOMAIN prices \subseteq Horizons
    BY <1>2, <1>3, <2>1
  <2> HIDE DEF prices
  <2>4. QED
    BY <1>5, <2>2, <2>3 DEF Reading
<1> HIDE DEF prices
<1>7. CASE DOMAIN prices = Horizons /\ prediction.direction = "hold" /\ Book(prices, "none")
  <2>1. prediction.at \in Nat /\ n \in Nat /\ Longest \in Nat
    BY <1>2, TapeFacts, HorizonFacts DEF OutcomesInv, PredictionIsRead
  <2>2. (prediction.at + 1)..prediction.at = {}
    BY <2>1
  <2>3. Reading(prediction, prices, S, prediction.at)
    BY <1>6, <2>2 DEF Reading, FreeUntil
  <2>4. QED
    BY <1>1, <1>2, <1>7, <2>3, BookKeeps
<1>8. CASE /\ scoring' = [scoring EXCEPT !.prices = prices, !.seen = @ \cup {cache}]
           /\ UNCHANGED outcome
  <2>1. scoring' = [state |-> "open", prices |-> prices, reached |-> n, seen |-> S]
    BY <1>1, <1>2, <1>8
  <2>2. QED
    BY <1>1, <1>2, <1>6, <1>8, <2>1, ReadKeeps
<1>9. QED
  BY <1>4, <1>7, <1>8

LEMMA WalkKeeps == OutcomesInv /\ WalkMinute => OutcomesInv'
<1> SUFFICES ASSUME OutcomesInv, WalkMinute PROVE OutcomesInv'
  OBVIOUS
<1> DEFINE p == prediction
           n == scoring.reached
           t == p.at + n + 1
           px == PriceAt(cache, t)
           S == scoring.seen \cup {cache}
<1>1. /\ scoring.state = "open" /\ cache # NoCache /\ DOMAIN scoring.prices = Horizons
      /\ UNCHANGED <<minute, tape, cache, prediction>>
  BY DEF WalkMinute, LookingUp, Priced
<1>2. /\ scoring = [state |-> scoring.state, prices |-> scoring.prices,
                    reached |-> scoring.reached, seen |-> scoring.seen]
      /\ n \in 0..(Longest - 1)
      /\ prediction # NotYet
      /\ Reading(p, scoring.prices, scoring.seen, p.at + n)
      /\ IsCache(cache) /\ cache.last >= p.seen.last
  BY <1>1 DEF OutcomesInv, ScoringIsRead, PredictionIsRead
<1>3. p.at \in Nat /\ n \in Nat /\ Longest \in Nat /\ Longest >= 1
  BY <1>2, TapeFacts, HorizonFacts DEF OutcomesInv, PredictionIsRead
<1>4. Reading(p, scoring.prices, S, p.at + n) /\ (Free(p, cache, t) => FreeUntil(p, S, t))
  <2>1. p.at + n \in Nat /\ p.at <= p.at + n /\ t = (p.at + n) + 1
    BY <1>3
  <2>2. QED
    BY <1>2, <1>3, <2>1, ReadingGrows
<1>5. t \in Walk(p) /\ t - 1 = p.at + n
  BY <1>2, <1>3 DEF Walk
<1>6. FreeUntil(p, S, t - 1)
  BY <1>4, <1>5 DEF Reading
<1>7. Reading(p, scoring.prices, S, p.at)
  <2>1. (p.at + 1)..p.at = {}
    BY <1>3
  <2>2. QED
    BY <1>4, <2>1 DEF Reading, FreeUntil
<1>8. \/ AtStop(p, px) /\ Book(scoring.prices, "stop")
      \/ ~AtStop(p, px) /\ AtTarget(p, px) /\ Book(scoring.prices, "target")
      \/ ~AtStop(p, px) /\ ~AtTarget(p, px) /\ n + 1 = Longest /\ Book(scoring.prices, "none")
      \/ /\ ~AtStop(p, px) /\ ~AtTarget(p, px) /\ n + 1 # Longest
         /\ scoring' = [scoring EXCEPT !.reached = @ + 1, !.seen = @ \cup {cache}]
         /\ UNCHANGED outcome
  BY DEF WalkMinute, WalksFor
<1>9. ASSUME NEW how \in {"stop", "target"}, Book(scoring.prices, how),
             \/ how = "stop" /\ AtStop(p, px)
             \/ how = "target" /\ ~AtStop(p, px) /\ AtTarget(p, px)
      PROVE  OutcomesInv'
  <2>1. Touched(p, S, how)
    BY <1>5, <1>6, <1>9 DEF Touched
  <2>2. QED
    BY <1>1, <1>2, <1>7, <1>9, <2>1, BookKeeps
<1>10. CASE ~AtStop(p, px) /\ ~AtTarget(p, px) /\ n + 1 = Longest /\ Book(scoring.prices, "none")
  <2>1. t = p.at + Longest
    BY <1>3, <1>10
  <2>2. FreeUntil(p, S, p.at + Longest)
    BY <1>4, <1>10, <2>1 DEF Free
  <2>3. QED
    BY <1>1, <1>2, <1>7, <1>10, <2>2, BookKeeps
<1>11. CASE /\ ~AtStop(p, px) /\ ~AtTarget(p, px) /\ n + 1 # Longest
            /\ scoring' = [scoring EXCEPT !.reached = @ + 1, !.seen = @ \cup {cache}]
            /\ UNCHANGED outcome
  <2>1. scoring' = [state |-> "open", prices |-> scoring.prices, reached |-> n + 1, seen |-> S]
    BY <1>1, <1>2, <1>11
  <2>2. n + 1 \in 0..(Longest - 1) /\ p.at + (n + 1) = t
    BY <1>2, <1>3, <1>11
  <2>3. FreeUntil(p, S, t)
    BY <1>4, <1>11 DEF Free
  <2>4. Reading(p, scoring.prices, S, p.at + (n + 1))
    BY <1>4, <2>2, <2>3 DEF Reading
  <2>5. QED
    BY <1>1, <1>2, <1>11, <2>1, <2>2, <2>4, ReadKeeps
<1>12. QED
  BY <1>8, <1>9, <1>10, <1>11

LEMMA OutcomesStepKeeps == OutcomesInv /\ [OutcomesNext]_outcomesVars => OutcomesInv'
<1> SUFFICES ASSUME OutcomesInv, [OutcomesNext]_outcomesVars PROVE OutcomesInv'
  OBVIOUS
<1>1. CASE UNCHANGED outcomesVars
  <2>1. TapeIsOrdered' /\ (cache # NoCache => IsCache(cache))'
    BY <1>1 DEF outcomesVars, OutcomesInv, TapeIsOrdered, IsCache
  <2>2. TapeGrows /\ UNCHANGED <<cache, prediction, scoring, outcome>> /\ minute' = minute
    BY <1>1 DEF outcomesVars, TapeGrows
  <2>3. minute \in Nat
    BY TapeFacts DEF OutcomesInv
  <2>4. minute' \in Nat /\ minute <= minute'
    BY <2>2, <2>3
  <2>5. PredictionIsRead' /\ ScoringIsRead' /\ OutcomeIsScored'
    BY <2>2, <2>4, PredictionStays
  <2>6. QED
    BY <2>1, <2>5 DEF OutcomesInv
<1>2. CASE OutcomesNext
  BY <1>2, MarketKeeps, RefreshKeeps, PredictKeeps, BeginsAndEnds, PriceKeeps, WalkKeeps DEF OutcomesNext
<1>3. QED
  BY <1>1, <1>2

LEMMA OutcomesInductive == OutcomesSpec => []OutcomesInv
BY OutcomesInitEstablishes, OutcomesStepKeeps, PTL DEF OutcomesSpec

-----------------------------------------------------------------------------
(* From here to the end, of a scored prediction with a direction.          *)
LEMMA ScoredFacts ==
  ASSUME OutcomesInv, Scored
  PROVE  LET p == prediction
             S == outcome.seen
         IN  /\ p.at \in Nat /\ p.at <= minute /\ p.direction \in {"buy", "sell"}
             /\ IsCache(p.seen) /\ p.seen.last \in DOMAIN tape /\ p.seen.last \in Nat
             /\ \A c \in S : IsCache(c) /\ c.last >= p.seen.last
             /\ tape[p.seen.last].at <= p.at
             /\ p.entry \in Int /\ p.entry = p.seen.rate * tape[p.seen.last].close
             /\ p.stop = p.entry - Side(p.direction) * StopGap
             /\ p.target = p.entry + Side(p.direction) * TargetGap
             /\ DOMAIN outcome.prices = Horizons
             /\ \A h \in Horizons : \E c \in S : outcome.prices[h] = PriceAt(c, p.at + h)
             /\ outcome.touch \in {"none", "stop", "target"}
             /\ outcome.touch = "none" => FreeUntil(p, S, p.at + Longest)
             /\ outcome.touch # "none" => Touched(p, S, outcome.touch)
             /\ outcome.pnl = Gain(p, outcome)
             /\ outcome.correct =
                  IF Side(p.direction) * (outcome.prices[Longest] - p.entry) > 0 THEN 1 ELSE 0
<1> DEFINE p == prediction
           S == outcome.seen
<1>1. TapeIsOrdered /\ minute \in Nat /\ DOMAIN tape = 1..Len(tape) /\ Len(tape) \in Nat
      /\ \A b \in DOMAIN tape : tape[b].close \in Int
  BY TapeFacts DEF OutcomesInv
<1>2. prediction # NotYet /\ outcome # NotYet /\ p.direction # "hold"
  BY DEF Scored
<1>3. /\ p.at \in 0..minute /\ p.direction \in {"buy", "sell", "hold"}
      /\ IsCache(p.seen) /\ tape[p.seen.last].at <= p.at
      /\ p.entry = p.seen.rate * tape[p.seen.last].close
      /\ p.stop = p.entry - Side(p.direction) * StopGap
      /\ p.target = p.entry + Side(p.direction) * TargetGap
  BY <1>2 DEF OutcomesInv, PredictionIsRead
<1>4. /\ DOMAIN outcome.prices = Horizons /\ Reading(p, outcome.prices, S, p.at)
      /\ outcome.touch \in {"none", "stop", "target"}
      /\ outcome.touch = "none" => FreeUntil(p, S, p.at + Longest)
      /\ outcome.touch # "none" => Touched(p, S, outcome.touch)
      /\ outcome.pnl = Gain(p, outcome)
      /\ outcome.correct =
           IF Side(p.direction) * (outcome.prices[Longest] - p.entry) > 0 THEN 1 ELSE 0
  BY <1>2 DEF OutcomesInv, OutcomeIsScored
<1>5. p.seen.last \in DOMAIN tape /\ p.seen.last \in Nat
  BY <1>1, <1>3 DEF IsCache
<1>6. p.entry \in Int
  <2>1. p.seen.rate \in Rates /\ Rates \subseteq Nat \ {0}
    BY <1>3, OutcomeConstants DEF IsCache
  <2>2. p.seen.rate \in Nat
    BY <2>1, Zenon
  <2>3. tape[p.seen.last].close \in Int
    BY <1>1, <1>5
  <2>4. QED
    BY <1>3, <2>2, <2>3
<1>7. /\ \A c \in S : IsCache(c) /\ c.last >= p.seen.last
      /\ \A h \in Horizons : \E c \in S : outcome.prices[h] = PriceAt(c, p.at + h)
  BY <1>4 DEF Reading
<1>8. QED
  BY <1>1, <1>2, <1>3, <1>4, <1>5, <1>6, <1>7

(* Where the levels lie: an entry is between them, and nothing is at both. *)
LEMMA LevelsApart ==
  ASSUME OutcomesInv, Scored, NEW px \in Int
  PROVE  LET p == prediction
         IN  /\ AtStop(p, px) => ~AtTarget(p, px)
             /\ px = p.entry => ~AtStop(p, px) /\ ~AtTarget(p, px)
             /\ ~AtStop(p, px) /\ ~AtTarget(p, px) =>
                  LET gain == Side(p.direction) * (px - p.entry)
                  IN  gain \in Int /\ -StopGap < gain /\ gain < TargetGap
             /\ Side(p.direction) * (p.stop - p.entry) = -StopGap
             /\ Side(p.direction) * (p.target - p.entry) = TargetGap
<1> DEFINE p == prediction
<1>1. /\ p.direction \in {"buy", "sell"} /\ p.entry \in Int
      /\ p.stop = p.entry - Side(p.direction) * StopGap
      /\ p.target = p.entry + Side(p.direction) * TargetGap
      /\ StopGap \in Nat /\ StopGap >= 1 /\ TargetGap \in Nat /\ TargetGap >= 1
  BY ScoredFacts, OutcomeConstants
<1>2. CASE p.direction = "buy"
  <2>1. Side(p.direction) = 1
    BY <1>2 DEF Side
  <2>2. p.stop = p.entry - StopGap /\ p.target = p.entry + TargetGap
    BY <1>1, <2>1
  <2>3. QED
    BY <1>1, <2>1, <2>2 DEF AtStop, AtTarget
<1>3. CASE p.direction = "sell"
  <2>1. Side(p.direction) = -1
    BY <1>3 DEF Side
  <2>2. p.stop = p.entry + StopGap /\ p.target = p.entry - TargetGap
    BY <1>1, <2>1
  <2>3. QED
    BY <1>1, <2>1, <2>2 DEF AtStop, AtTarget
<1>4. QED
  BY <1>1, <1>2, <1>3

LEMMA TouchesAreBooked == OutcomesInv => TouchIsBooked
<1> SUFFICES ASSUME OutcomesInv, Scored
             PROVE  /\ outcome.touch = "stop" => outcome.pnl = -StopGap
                    /\ outcome.touch = "target" => outcome.pnl = TargetGap
                    /\ outcome.touch = "none" =>
                         /\ (outcome.correct = 1) = (outcome.pnl > 0)
                         /\ (\A c, d \in outcome.seen : c = d) =>
                              -StopGap < outcome.pnl /\ outcome.pnl < TargetGap
  BY DEF TouchIsBooked
<1> DEFINE p == prediction
           S == outcome.seen
           final == outcome.prices[Longest]
<1>1. /\ p.at \in Nat /\ outcome.pnl = Gain(p, outcome)
      /\ \A c \in S : IsCache(c)
      /\ \E c \in S : final = PriceAt(c, p.at + Longest)
      /\ outcome.touch = "none" => FreeUntil(p, S, p.at + Longest)
      /\ outcome.correct = IF Side(p.direction) * (final - p.entry) > 0 THEN 1 ELSE 0
  BY ScoredFacts, HorizonFacts
<1>2. TapeIsOrdered /\ Longest \in Nat /\ Longest >= 1
  BY HorizonFacts DEF OutcomesInv
<1>3. /\ Side(p.direction) * (p.stop - p.entry) = -StopGap
      /\ Side(p.direction) * (p.target - p.entry) = TargetGap
  BY LevelsApart, 0 \in Int
<1>4. outcome.touch = "none" => outcome.pnl = Side(p.direction) * (final - p.entry)
  BY <1>1 DEF Gain
<1>5. ASSUME outcome.touch = "none", \A c, d \in S : c = d
      PROVE  -StopGap < outcome.pnl /\ outcome.pnl < TargetGap
  <2>1. PICK c \in S : final = PriceAt(c, p.at + Longest)
    BY <1>1
  <2>2. S = {c}
    BY <1>5, <2>1
  <2>3. p.at + Longest \in (p.at + 1)..(p.at + Longest) /\ p.at + Longest \in Nat
    BY <1>1, <1>2
  <2>4. Free(p, c, p.at + Longest)
    BY <1>1, <1>5, <2>2, <2>3 DEF FreeUntil
  <2>5. ~AtStop(p, final) /\ ~AtTarget(p, final)
    BY <2>1, <2>4 DEF Free
  <2>6. final \in Int
    BY <1>1, <1>2, <2>1, <2>3, BarFacts
  <2> HIDE DEF final
  <2>7. QED
    BY <1>4, <1>5, <2>5, <2>6, LevelsApart
<1> HIDE DEF final
<1>6. QED
  BY <1>1, <1>3, <1>4, <1>5 DEF Gain

(* However short a cache has become, its bars are none older than the one  *)
(* the prediction was made on, or that one is among them.                  *)
LEMMA LaterBars == OutcomesInv => ScoredOnLaterBars
<1> SUFFICES ASSUME OutcomesInv, Scored, NEW h \in Horizons
             PROVE  \E c \in outcome.seen, b \in DOMAIN tape :
                      b >= prediction.seen.last /\ outcome.prices[h] = c.rate * tape[b].close
  BY DEF ScoredOnLaterBars
<1> DEFINE p == prediction
<1>0. PICK c \in outcome.seen : outcome.prices[h] = PriceAt(c, p.at + h)
  BY ScoredFacts
<1> DEFINE b == BarAt(c, p.at + h)
<1>1. /\ p.at \in Nat /\ IsCache(c) /\ c.last >= p.seen.last /\ p.seen.last \in Nat
      /\ p.seen.last \in DOMAIN tape /\ tape[p.seen.last].at <= p.at
  BY ScoredFacts
<1>2. TapeIsOrdered /\ h \in Nat /\ p.at + h \in Nat
  BY <1>1, HorizonsAhead DEF OutcomesInv
<1>3. /\ b \in c.first..c.last /\ b \in DOMAIN tape /\ c.first \in Nat /\ c.last \in Nat
      /\ \A x \in c.first..c.last : tape[x].at <= p.at + h => x <= b
  BY <1>1, <1>2, BarFacts
<1>4. outcome.prices[h] = c.rate * tape[b].close
  BY <1>0 DEF PriceAt
<1>5. b >= p.seen.last
  <2>1. CASE p.seen.last < c.first
    BY <1>1, <1>3, <2>1
  <2>2. CASE p.seen.last >= c.first
    <3>1. p.seen.last \in c.first..c.last
      BY <1>1, <1>3, <2>2
    <3>2. tape[p.seen.last].at \in Nat
      BY <1>1, <1>2, TapeFacts
    <3>3. tape[p.seen.last].at <= p.at + h
      BY <1>1, <1>2, <3>2
    <3>4. QED
      BY <1>1, <1>3, <3>1, <3>3
  <2>3. QED
    BY <1>1, <1>3, <2>1, <2>2
<1> HIDE DEF b
<1>6. QED
  BY <1>3, <1>4, <1>5

(* What the feed can know of the market: each cache reaches back to the    *)
(* bar of the entry, which was the newest, and on to the end of the window.*)
Covered ==
  /\ \A c \in outcome.seen : Covers(c, prediction)
  /\ \A b \in DOMAIN tape : b > prediction.seen.last => tape[b].at > prediction.at

(* Then the price of a minute of the walk is that of the last bar until    *)
(* then, which is the bar of the entry or lies in the window ...           *)
LEMMA CoveredPrice ==
  ASSUME OutcomesInv, Scored, Covered, NEW c \in outcome.seen,
         NEW t \in Nat, prediction.at <= t, t <= prediction.at + Longest
  PROVE  LET p == prediction
             b == BarAt(c, t)
         IN  /\ b \in DOMAIN tape /\ tape[b].at <= t
             /\ \A x \in DOMAIN tape : x > b => tape[x].at > t
             /\ PriceAt(c, t) = p.seen.rate * tape[b].close
             /\ b \in Window(p) \/ PriceAt(c, t) = p.entry
<1> DEFINE p == prediction
           b == BarAt(c, t)
           b0 == p.seen.last
<1>1. /\ p.at \in Nat /\ IsCache(c) /\ c.last >= b0 /\ b0 \in Nat
      /\ b0 \in DOMAIN tape /\ tape[b0].at <= p.at /\ p.entry = p.seen.rate * tape[b0].close
  BY ScoredFacts
<1>2. TapeIsOrdered /\ Longest \in Nat
  BY HorizonFacts DEF OutcomesInv
<1>3. \A x \in DOMAIN tape : x \in Nat /\ tape[x].at \in Nat
  BY <1>2, TapeFacts
<1>4. /\ b \in c.first..c.last /\ b \in DOMAIN tape /\ c.first \in Nat /\ c.last \in Nat
      /\ \A x \in c.first..c.last : tape[x].at <= t => x <= b
      /\ b \in Nat
  BY <1>1, <1>2, BarFacts
<1>5. /\ c.rate = p.seen.rate /\ c.first <= b0
      /\ \A x \in Window(p) : x <= c.last
      /\ \A x \in DOMAIN tape : x > b0 => tape[x].at > p.at
  BY DEF Covered, Covers
<1>6. PriceAt(c, t) = p.seen.rate * tape[b].close
  BY <1>5 DEF PriceAt
<1> HIDE DEF b, b0
<1>7. b >= b0
  <2>1. b0 \in c.first..c.last /\ tape[b0].at <= t
    BY <1>1, <1>3, <1>4, <1>5
  <2>2. QED
    BY <1>1, <1>4, <2>1
<1>8. tape[b].at <= t
  <2>1. CASE b = c.first
    <3>1. b = b0
      BY <2>1, <1>1, <1>4, <1>5, <1>7
    <3>2. QED
      BY <3>1, <1>1, <1>3
  <2>2. CASE b # c.first
    BY <2>2, <1>1, <1>2, BarFacts DEF b
  <2>3. QED
    BY <2>1, <2>2
<1>9. ASSUME NEW x \in DOMAIN tape, x > b PROVE tape[x].at > t
  <2> SUFFICES ASSUME tape[x].at <= t PROVE FALSE
    BY <1>3
  <2>1. x \in Nat /\ x > b0 /\ tape[x].at \in Nat /\ tape[x].at > p.at
    BY <1>1, <1>3, <1>4, <1>5, <1>7, <1>9
  <2>2. x \in Window(p)
    BY <1>1, <1>2, <2>1 DEF Window
  <2>3. x \in c.first..c.last
    BY <1>4, <1>5, <1>9, <2>1, <2>2
  <2>4. QED
    BY <1>4, <1>9, <2>1, <2>3
<1>10. b \in Window(p) \/ PriceAt(c, t) = p.entry
  <2>1. CASE b = b0
    BY <1>1, <1>6, <2>1
  <2>2. CASE b # b0
    <3>1. b > b0 /\ tape[b].at > p.at /\ tape[b].at \in Nat
      BY <1>1, <1>3, <1>4, <1>5, <1>7, <2>2
    <3>2. QED
      BY <1>1, <1>2, <1>4, <1>8, <3>1 DEF Window
  <2>3. QED
    BY <2>1, <2>2
<1>11. QED
  BY <1>4, <1>6, <1>8, <1>9, <1>10 DEF b

(* ... and every bar of the window decides the minute in which it closed.  *)
LEMMA CoveredBar ==
  ASSUME OutcomesInv, Scored, Covered, NEW c \in outcome.seen, NEW b \in Window(prediction)
  PROVE  LET t == tape[b].at
         IN  /\ t \in Walk(prediction) /\ t \in Nat /\ b \in Nat
             /\ BarAt(c, t) = b
             /\ PriceAt(c, t) = prediction.seen.rate * tape[b].close
<1> DEFINE p == prediction
           t == tape[b].at
           x == BarAt(c, t)
<1>1. /\ p.at \in Nat /\ TapeIsOrdered /\ Longest \in Nat
      /\ b \in DOMAIN tape /\ p.at < t /\ t <= p.at + Longest
  BY ScoredFacts, HorizonFacts DEF OutcomesInv, Window
<1>2. b \in Nat /\ t \in Nat
  BY <1>1, TapeFacts
<1>3. /\ x \in DOMAIN tape /\ tape[x].at <= t
      /\ \A y \in DOMAIN tape : y > x => tape[y].at > t
      /\ PriceAt(c, t) = p.seen.rate * tape[x].close
  BY <1>1, <1>2, CoveredPrice
<1>4. x \in Nat /\ tape[x].at \in Nat
  BY <1>1, <1>3, TapeFacts
<1> HIDE DEF x
<1>5. x = b
  <2>1. ~(b > x)
    BY <1>1, <1>2, <1>3
  <2>2. ~(x > b)
    BY <1>1, <1>2, <1>3, <1>4 DEF TapeIsOrdered
  <2>3. QED
    BY <1>2, <1>4, <2>1, <2>2
<1>6. t \in Walk(p)
  BY <1>1, <1>2 DEF Walk
<1>7. QED
  BY <1>2, <1>3, <1>5, <1>6 DEF x

(* Hence the first minute of the walk that reaches a level is that of the  *)
(* first bar of the window that does.                                      *)
LEMMA TouchIsFirstBar ==
  ASSUME OutcomesInv, Scored, Covered
  PROVE  outcome.touch = MarketTouch(prediction)
<1> DEFINE p == prediction
           S == outcome.seen
           px(b) == p.seen.rate * tape[b].close
           stops == {b \in Window(p) : AtStop(p, px(b))}
           targets == {b \in Window(p) : AtTarget(p, px(b))}
<1>1. /\ p.at \in Nat /\ TapeIsOrdered /\ Longest \in Nat /\ \A c \in S : IsCache(c)
      /\ outcome.touch \in {"none", "stop", "target"} /\ p.entry \in Int
      /\ outcome.touch = "none" => FreeUntil(p, S, p.at + Longest)
      /\ outcome.touch # "none" => Touched(p, S, outcome.touch)
  BY ScoredFacts, HorizonFacts DEF OutcomesInv
<1>2. \A b \in Window(p) : /\ tape[b].at \in Walk(p) /\ tape[b].at \in Nat /\ b \in Nat
                            /\ b \in DOMAIN tape
  <2>1. \A b \in Window(p) : b \in DOMAIN tape /\ p.at < tape[b].at /\ tape[b].at <= p.at + Longest
    BY DEF Window
  <2>2. QED
    BY <1>1, <2>1, TapeFacts DEF Walk
<1>3. ASSUME NEW b \in stops \cup targets, NEW m \in Nat, FreeUntil(p, S, m)
      PROVE  ~(tape[b].at <= m)
  <2> SUFFICES ASSUME tape[b].at <= m PROVE FALSE
    OBVIOUS
  <2>1. b \in Window(p) /\ (AtStop(p, px(b)) \/ AtTarget(p, px(b)))
    OBVIOUS
  <2>2. tape[b].at \in (p.at + 1)..m
    BY <1>1, <1>2, <1>3, <2>1 DEF Walk
  <2>3. PICK c \in S : Free(p, c, tape[b].at)
    BY <1>3, <2>2 DEF FreeUntil
  <2>4. PriceAt(c, tape[b].at) = px(b)
    BY <2>1, CoveredBar
  <2>5. QED
    BY <2>1, <2>3, <2>4 DEF Free
<1>4. stops \in SUBSET Nat /\ targets \in SUBSET Nat
  BY <1>2
<1>5. MarketTouch(p) =
        CASE stops = {} /\ targets = {} -> "none"
          [] stops # {} /\ \A b \in targets : Min(stops) < b -> "stop"
          [] targets # {} /\ \A b \in stops : Min(targets) < b -> "target"
  BY DEF MarketTouch
<1>0. \A b \in stops \cup targets : b \in Window(p)
  OBVIOUS
<1> HIDE DEF stops, targets
<1>6. CASE outcome.touch = "none"
  <2>1. FreeUntil(p, S, p.at + Longest) /\ p.at + Longest \in Nat
    BY <1>1, <1>6
  <2>2. \A b \in stops \cup targets : tape[b].at <= p.at + Longest
    BY <1>0, <1>1, <1>2 DEF Walk
  <2>3. stops = {} /\ targets = {}
    BY <1>3, <2>1, <2>2
  <2>4. QED
    BY <1>5, <1>6, <2>3
<1>7. ASSUME NEW t \in Walk(p), NEW c \in S, FreeUntil(p, S, t - 1),
             \/ outcome.touch = "stop" /\ AtStop(p, PriceAt(c, t))
             \/ /\ outcome.touch = "target"
                /\ ~AtStop(p, PriceAt(c, t)) /\ AtTarget(p, PriceAt(c, t))
      PROVE  outcome.touch = MarketTouch(p)
  <2> DEFINE first == BarAt(c, t)
  <2>1. /\ t \in Nat /\ t - 1 \in Nat /\ p.at <= t /\ t <= p.at + Longest
        /\ AtStop(p, PriceAt(c, t)) \/ AtTarget(p, PriceAt(c, t))
    BY <1>1, <1>7 DEF Walk
  <2>2. PriceAt(c, t) \in Int
    BY <1>1, <2>1, BarFacts
  <2>3. PriceAt(c, t) # p.entry
    BY <2>1, <2>2, LevelsApart
  <2>4. first \in Window(p) /\ PriceAt(c, t) = px(first)
        /\ \A x \in DOMAIN tape : x > first => tape[x].at > t
    BY <2>1, <2>3, CoveredPrice
  <2>5. first \in Nat
    BY <1>2, <2>4
  <2> HIDE DEF first
  <2>7. ASSUME NEW b \in stops \cup targets PROVE first <= b
    <3>1. b \in Window(p) /\ b \in Nat /\ b \in DOMAIN tape /\ tape[b].at \in Nat
      BY <1>0, <1>2
    <3>2. t <= tape[b].at
      <4>1. ~(tape[b].at <= t - 1)
        BY <1>3, <1>7, <2>1
      <4>2. QED
        BY <2>1, <3>1, <4>1
    <3>3. /\ first \in DOMAIN tape /\ tape[first].at <= t
      BY <2>1, CoveredPrice DEF first
    <3>4. tape[first].at \in Nat
      BY <1>2, <2>4
    <3>5. b < first => tape[b].at < tape[first].at
      BY <1>1, <3>1, <3>3 DEF TapeIsOrdered
    <3>6. QED
      BY <2>1, <2>5, <3>1, <3>2, <3>3, <3>4, <3>5
  <2>8. CASE AtStop(p, PriceAt(c, t))
    <3>1. first \in stops /\ first \notin targets
      BY <2>2, <2>4, <2>8, LevelsApart DEF stops, targets
    <3>2. Min(stops) \in stops /\ \A b \in stops : Min(stops) <= b
      BY <1>4, <3>1, SmallestOf
    <3>3. Min(stops) = first
      <4>1. Min(stops) \in Nat /\ first <= Min(stops) /\ Min(stops) <= first
        BY <1>4, <2>7, <3>1, <3>2
      <4>2. QED
        BY <4>1, <2>5
    <3>4. \A b \in targets : Min(stops) < b
      <4> TAKE b \in targets
      <4>1. b \in Nat /\ first <= b /\ b # first
        BY <1>4, <2>7, <3>1
      <4>2. QED
        BY <4>1, <3>3, <2>5
    <3>5. ~(targets # {} /\ \A b \in stops : Min(targets) < b)
      <4> SUFFICES ASSUME targets # {}, Min(targets) < first PROVE FALSE
        BY <3>1
      <4>1. Min(targets) \in targets
        BY <1>4, SmallestOf
      <4>2. Min(targets) \in Nat /\ first <= Min(targets)
        BY <1>4, <2>7, <4>1
      <4>3. QED
        BY <4>2, <2>5
    <3>6. QED
      BY <1>5, <1>7, <2>8, <3>1, <3>4, <3>5
  <2>9. CASE ~AtStop(p, PriceAt(c, t))
    <3>1. first \in targets /\ first \notin stops
      BY <2>1, <2>4, <2>9 DEF stops, targets
    <3>2. Min(targets) \in targets /\ \A b \in targets : Min(targets) <= b
      BY <1>4, <3>1, SmallestOf
    <3>3. Min(targets) = first
      <4>1. Min(targets) \in Nat /\ first <= Min(targets) /\ Min(targets) <= first
        BY <1>4, <2>7, <3>1, <3>2
      <4>2. QED
        BY <4>1, <2>5
    <3>4. \A b \in stops : Min(targets) < b
      <4> TAKE b \in stops
      <4>1. b \in Nat /\ first <= b /\ b # first
        BY <1>4, <2>7, <3>1
      <4>2. QED
        BY <4>1, <3>3, <2>5
    <3>5. ~(stops # {} /\ \A b \in targets : Min(stops) < b)
      <4> SUFFICES ASSUME stops # {}, Min(stops) < first PROVE FALSE
        BY <3>1
      <4>1. Min(stops) \in stops
        BY <1>4, SmallestOf
      <4>2. Min(stops) \in Nat /\ first <= Min(stops)
        BY <1>4, <2>7, <4>1
      <4>3. QED
        BY <4>2, <2>5
    <3>6. QED
      BY <1>5, <1>7, <2>9, <3>1, <3>4, <3>5
  <2>10. QED
    BY <2>8, <2>9
<1>8. QED
  BY <1>1, <1>6, <1>7 DEF Touched

LEMMA MarketsVerdict == OutcomesInv => VerdictIsMarkets
<1> SUFFICES ASSUME OutcomesInv, Scored, Covered
             PROVE  /\ outcome.touch = MarketTouch(prediction)
                    /\ \A h \in Horizons :
                         \E b \in DOMAIN tape :
                           /\ tape[b].at <= prediction.at + h
                           /\ \A x \in DOMAIN tape : x > b => tape[x].at > prediction.at + h
                           /\ outcome.prices[h] = prediction.seen.rate * tape[b].close
  BY DEF VerdictIsMarkets, Covered
<1>1. outcome.touch = MarketTouch(prediction)
  BY TouchIsFirstBar
<1>2. ASSUME NEW h \in Horizons
      PROVE  \E b \in DOMAIN tape :
               /\ tape[b].at <= prediction.at + h
               /\ \A x \in DOMAIN tape : x > b => tape[x].at > prediction.at + h
               /\ outcome.prices[h] = prediction.seen.rate * tape[b].close
  <2> DEFINE t == prediction.at + h
  <2>1. /\ prediction.at \in Nat /\ h \in Nat /\ h <= Longest /\ Longest \in Nat
        /\ \E c \in outcome.seen : outcome.prices[h] = PriceAt(c, t)
    BY ScoredFacts, HorizonFacts
  <2>2. t \in Nat /\ prediction.at <= t /\ t <= prediction.at + Longest
    BY <2>1
  <2>3. PICK c \in outcome.seen : outcome.prices[h] = PriceAt(c, t)
    BY <2>1
  <2> HIDE DEF t
  <2>4. /\ BarAt(c, t) \in DOMAIN tape
        /\ tape[BarAt(c, t)].at <= t
        /\ \A x \in DOMAIN tape : x > BarAt(c, t) => tape[x].at > t
        /\ outcome.prices[h] = prediction.seen.rate * tape[BarAt(c, t)].close
    BY <2>2, <2>3, CoveredPrice
  <2>5. QED
    BY <2>4 DEF t
<1>3. QED
  BY <1>1, <1>2

(* Whenever a prediction has been scored, the verdict is that of the bars  *)
(* the market made if every cache asked had them at the rate of the entry; *)
(* it rests on no bar older than the prediction, and a touch is booked at  *)
(* its level (evaluate_prediction, Observer._evaluate_predictions,         *)
(* price_at), for every tape, exchange rate, horizon, cache and delay of   *)
(* the evaluation, and any refreshes and restarts in its course.           *)
THEOREM OutcomesAreMarkets == OutcomesSpec => []OutcomeIsMarkets
<1>1. OutcomesInv => OutcomeIsMarkets
  <2> SUFFICES ASSUME OutcomesInv PROVE OutcomeIsMarkets
    OBVIOUS
  <2>1. OutcomesTypeOK
    <3>1. minute \in 0..LastMinute /\ DOMAIN tape = 1..Len(tape)
      BY TapeFacts DEF OutcomesInv, TapeIsOrdered
    <3>2. cache # NoCache =>
            cache.rate \in Rates /\ cache.first \in 1..cache.last /\ cache.last \in DOMAIN tape
      BY <3>1 DEF OutcomesInv, IsCache
    <3>3. prediction # NotYet => prediction.at \in 0..minute
      BY DEF OutcomesInv, PredictionIsRead
    <3>4. outcome # NotYet => outcome.touch \in {"none", "stop", "target"}
                              /\ outcome.correct \in {0, 1, NotYet}
      BY DEF OutcomesInv, OutcomeIsScored
    <3>5. /\ scoring.state \in {"none", "open", "over"} /\ scoring.reached \in 0..(Longest - 1)
          /\ DOMAIN scoring.prices \subseteq Horizons
      BY DEF OutcomesInv, ScoringIsRead
    <3>6. QED
      BY <3>1, <3>2, <3>3, <3>4, <3>5 DEF OutcomesTypeOK
  <2>2. QED
    BY <2>1, MarketsVerdict, LaterBars, TouchesAreBooked DEF OutcomeIsMarkets
<1>2. QED
  BY <1>1, OutcomesInductive, PTL

-----------------------------------------------------------------------------
(* The research lab.                                                       *)

(* Numbers in order: in place p is the one with p - 1 below it.            *)
LEMMA BelowFacts ==
  ASSUME NEW S \in SUBSET Nat, IsFiniteSet(S), NEW n
  PROVE  /\ IsFiniteSet({m \in S : m < n}) /\ Below(n, S) \in Nat
         /\ Below(n, S) <= Cardinality(S) /\ Cardinality(S) \in Nat
BY FS_Subset, FS_CardinalityType DEF Below

LEMMA NextInOrder ==
  ASSUME NEW S \in SUBSET Nat, IsFiniteSet(S), NEW i \in S, Below(i, S) + 1 < Cardinality(S)
  PROVE  \E j \in S : Below(j, S) = Below(i, S) + 1
<1> DEFINE A == {m \in S : m < i}
           B == A \cup {i}
<1>1. /\ IsFiniteSet(A) /\ IsFiniteSet(B)
      /\ Cardinality(A) = Below(i, S) /\ Cardinality(B) = Cardinality(A) + 1
  <2>1. i \notin A /\ IsFiniteSet(A)
    BY BelowFacts
  <2>2. QED
    BY <2>1, FS_AddElement DEF Below
<1>2. S \ B # {}
  <2>1. B # S
    BY <1>1, BelowFacts
  <2>2. B \subseteq S
    OBVIOUS
  <2>3. QED
    BY <2>1, <2>2
<1> DEFINE j == Min(S \ B)
<1>3. j \in S \ B /\ \A s \in S \ B : j <= s
  BY <1>2, SmallestOf
<1> HIDE DEF j
<1>4. {m \in S : m < j} = B
  <2>1. j \in Nat /\ i \in Nat /\ i < j
    BY <1>3
  <2>2. ASSUME NEW m \in S
        PROVE  m < j <=> m \in B
    <3>1. m \in Nat
      OBVIOUS
    <3>2. m \notin B => j <= m
      BY <1>3
    <3>3. m \in B => m <= i
      BY <2>1, <3>1
    <3>4. QED
      BY <2>1, <3>1, <3>2, <3>3
  <2> HIDE DEF B
  <2>3. B \subseteq S
    BY DEF B
  <2>4. QED
    BY <2>2, <2>3
<1>5. QED
  BY <1>1, <1>3, <1>4 DEF Below

LEMMA OrderedFacts ==
  ASSUME NEW S \in SUBSET Nat, IsFiniteSet(S)
  PROVE  /\ Cardinality(S) \in Nat /\ DOMAIN Ordered(S) = 1..Cardinality(S)
         /\ \A p \in 1..Cardinality(S) :
              Ordered(S)[p] \in S /\ Below(Ordered(S)[p], S) = p - 1
<1> DEFINE n == Cardinality(S)
           Bad == {p \in Nat : p < n /\ \A i \in S : Below(i, S) # p}
<1>1. n \in Nat
  BY FS_CardinalityType
<1>2. Bad = {}
  <2> SUFFICES ASSUME Bad # {} PROVE FALSE
    OBVIOUS
  <2>1. PICK p \in Bad : \A m \in Bad : ~(<<m, p>> \in OpToRel(<, Nat))
    BY NatLessThanWellFounded, WFMin
  <2>2. p \in Nat /\ p < n /\ \A m \in Nat : m < p => m \notin Bad
    BY <2>1 DEF OpToRel
  <2>3. CASE p = 0
    <3>1. S # {}
      BY <1>1, <2>2, <2>3, FS_EmptySet
    <3> DEFINE least == Min(S)
    <3>2. least \in S /\ \A s \in S : least <= s
      BY <3>1, SmallestOf
    <3> HIDE DEF least
    <3>3. {m \in S : m < least} = {}
      <4>1. \A m \in S : m \in Nat /\ least \in Nat /\ ~(m < least)
        BY <3>2
      <4>2. QED
        BY <4>1
    <3>4. Below(least, S) = 0
      BY <3>3, FS_EmptySet DEF Below
    <3>5. QED
      BY <2>1, <2>3, <3>2, <3>4
  <2>4. CASE p # 0
    <3>1. p - 1 \in Nat /\ p - 1 < p /\ p - 1 < n
      BY <1>1, <2>2, <2>4
    <3>2. PICK i \in S : Below(i, S) = p - 1
      BY <2>2, <3>1
    <3>3. \E j \in S : Below(j, S) = p
      BY <1>1, <2>2, <3>1, <3>2, NextInOrder
    <3>4. QED
      BY <2>1, <3>3
  <2>5. QED
    BY <2>3, <2>4
<1>3. ASSUME NEW p \in 1..n
      PROVE  \E i \in S : Below(i, S) = p - 1
  BY <1>1, <1>2
<1>4. QED
  BY <1>1, <1>3 DEF Ordered

(* They are as far apart as their places, at least.                        *)
LEMMA OrderedApart ==
  ASSUME NEW S \in SUBSET Nat, IsFiniteSet(S),
         NEW p \in 1..Cardinality(S), NEW q \in 1..Cardinality(S), p < q
  PROVE  /\ Ordered(S)[p] \in Nat /\ Ordered(S)[q] \in Nat
         /\ Ordered(S)[p] + (q - p) <= Ordered(S)[q]
<1> DEFINE a == Ordered(S)[p]
           b == Ordered(S)[q]
           A == {m \in S : m < a}
           B == {m \in S : m < b}
           I == a..(b - 1)
<1>1. /\ Cardinality(S) \in Nat /\ a \in S /\ b \in S
      /\ Below(a, S) = p - 1 /\ Below(b, S) = q - 1
  BY OrderedFacts
<1>2. IsFiniteSet(A) /\ Cardinality(A) = p - 1 /\ Cardinality(B) = q - 1
  BY <1>1, BelowFacts DEF Below
<1> HIDE DEF a, b
<1>3. IsFiniteSet(I) /\ Cardinality(I) = IF a > b - 1 THEN 0 ELSE b - a
  <2>1. a \in Int /\ b - 1 \in Int
    BY <1>1
  <2>2. IsFiniteSet(I) /\ Cardinality(I) = IF a > b - 1 THEN 0 ELSE (b - 1) - a + 1
    BY <2>1, FS_Interval
  <2>3. QED
    BY <1>1, <2>2
<1>4. B \subseteq A \cup I
  <2>1. a \in Nat /\ b \in Nat
    BY <1>1
  <2>2. ASSUME NEW m \in S, m < b, ~(m < a)
        PROVE  m \in a..(b - 1)
    <3>1. m \in Nat
      OBVIOUS
    <3>2. QED
      BY <2>1, <2>2, <3>1
  <2>3. QED
    BY <2>2
<1>5. /\ IsFiniteSet(A \cup I)
      /\ Cardinality(A \cup I) = Cardinality(A) + Cardinality(I) - Cardinality(A \cap I)
  BY <1>2, <1>3, FS_Union
<1>6. Cardinality(A \cap I) \in Nat
  BY <1>2, FS_Subset, FS_CardinalityType
<1>7. Cardinality(B) <= Cardinality(A \cup I)
  BY <1>4, <1>5, FS_Subset
<1> HIDE DEF A, B, I
<1>8. a \in Nat /\ b \in Nat /\ p \in Nat /\ q \in Nat
  BY <1>1
<1>9. a + (q - p) <= b
  BY <1>2, <1>3, <1>5, <1>6, <1>7, <1>8
<1>10. QED
  BY <1>8, <1>9 DEF a, b

-----------------------------------------------------------------------------
(* The days so far, and what the cache has of them.                        *)
Entry == [date : Nat, bar : DayShapes]
DaysAreBars == days \in Seq(DayShapes) /\ Len(days) \in Nat /\ Len(days) >= 1
CacheIsDated ==
  /\ DOMAIN covered = DOMAIN stored /\ DOMAIN stored \subseteq 1..Len(days)
  /\ \A d \in DOMAIN stored : stored[d] \in DayShapes /\ covered[d] \in 0..Len(days)
HistoryIsRead == history \in Seq(Entry)

ResearchInv ==
  /\ DaysAreBars
  /\ CacheIsDated
  /\ CacheIsRepaired
  /\ HistoryIsRead
  /\ EdgeIsEarned

LEMMA LoadType ==
  ASSUME NEW n \in Nat, NEW rows, DOMAIN rows \subseteq 1..n,
         \A d \in DOMAIN rows : rows[d] \in DayShapes
  PROVE  Load(rows) \in Seq(Entry)
<1> DEFINE D == DOMAIN rows
<1>1. D \in SUBSET Nat /\ IsFiniteSet(D)
  <2>1. IsFiniteSet(1..n)
    BY FS_Interval
  <2>2. QED
    BY <2>1, FS_Subset
<1>2. /\ Cardinality(D) \in Nat /\ DOMAIN Ordered(D) = 1..Cardinality(D)
      /\ \A p \in 1..Cardinality(D) : Ordered(D)[p] \in D
  BY <1>1, OrderedFacts
<1> DEFINE e(p) == [date |-> Ordered(D)[p], bar |-> rows[Ordered(D)[p]]]
<1>3. Load(rows) = [p \in 1..Cardinality(D) |-> e(p)]
  BY <1>2 DEF Load
<1>4. \A p \in 1..Cardinality(D) : e(p) \in Entry
  BY <1>1, <1>2 DEF Entry
<1> HIDE DEF e
<1>5. QED
  BY <1>2, <1>3, <1>4, SeqDef

LEMMA DaysOfResearch ==
  ASSUME DaysAreBars
  PROVE  Today \in Nat /\ Today >= 1 /\ DOMAIN days = 1..Today
         /\ \A d \in 1..Today : days[d] \in DayShapes
BY ElementOfSeq DEF DaysAreBars, Today

LEMMA ResearchConstants ==
  /\ LabelHorizon \in Nat /\ LabelHorizon >= 1 /\ TimeStop \in Nat /\ TimeStop >= 1
  /\ NFolds \in Nat /\ NFolds >= 1 /\ PeriodDays \in Nat
  /\ MinTrain \in Nat /\ MinTrain >= 1 /\ MinTest \in Nat /\ MinTest >= 1
  /\ TrainWindow \in Nat /\ TestWindow \in Nat /\ WarmupRows \in Nat
  /\ AtrPeriod \in Nat /\ AtrPeriod >= 2
  /\ SplitPct \in 1..99 /\ Unknown \notin {0, 1}
BY ResearchAssumption

(* Where the barriers of a row stand is read from the rows until then: in  *)
(* two histories with the same first rows, they stand at the same prices.  *)
Alike(c, d, i) == \A k \in 1..i : d[k].bar = c[k].bar

LEMMA UnitIsOfThePast ==
  ASSUME NEW c, NEW d, NEW i \in Nat, i >= 1, Alike(c, d, i)
  PROVE  StopBarrier(d, i) = StopBarrier(c, i) /\ TargetBarrier(d, i) = TargetBarrier(c, i)
<1>1. ASSUME NEW j \in 1..i
      PROVE  TrueRange(d, j) = TrueRange(c, j)
  <2>1. d[j].bar = c[j].bar
    BY DEF Alike
  <2>2. CASE j = 1
    BY <2>1, <2>2 DEF TrueRange
  <2>3. CASE j # 1
    <3>1. j - 1 \in 1..i
      BY <2>3
    <3>2. d[j - 1].bar = c[j - 1].bar
      BY <3>1 DEF Alike
    <3>3. QED
      BY <2>1, <2>3, <3>2 DEF TrueRange
  <2>4. QED
    BY <2>2, <2>3
<1>2. [j \in 1..i |-> Weight(i, j) * TrueRange(d, j)] = [j \in 1..i |-> Weight(i, j) * TrueRange(c, j)]
  BY <1>1
<1>3. AverageRange(d, i) = AverageRange(c, i)
  BY <1>2 DEF AverageRange
<1>4. d[i].bar = c[i].bar
  BY DEF Alike
<1>5. Unit(d, i) = Unit(c, i)
  BY <1>3, <1>4 DEF Unit
<1>6. QED
  BY <1>4, <1>5 DEF StopBarrier, TargetBarrier

(* The cut leaves the past as it was: a label the in-sample bars decide is *)
(* the one the whole history gives.                                        *)
LEMMA LabelOfPast ==
  ASSUME NEW c \in Seq(Entry), NEW k \in 0..Len(c), NEW i \in 1..k,
         BarrierLabel(SubSeq(c, 1, k), i) # Unknown
  PROVE  BarrierLabel(SubSeq(c, 1, k), i) = BarrierLabel(c, i)
<1> DEFINE ins == SubSeq(c, 1, k)
           Stopped(d, j) == Grained(d[j].bar.low, i) <= StopBarrier(d, i)
           Barred(d, j) == Stopped(d, j) \/ Grained(d[j].bar.high, i) >= TargetBarrier(d, i)
           begins(d) == AtrPeriod <= i /\ i < Len(d)
           touched(d) == {j \in (i + 1)..Len(d) : j <= i + TimeStop /\ Barred(d, j)}
<1>1. /\ Len(c) \in Nat /\ k \in Nat /\ i \in Nat /\ k <= Len(c)
      /\ TimeStop \in Nat /\ TimeStop >= 1 /\ Unknown # 0 /\ Unknown # 1
  BY ResearchConstants
<1>2. Len(ins) = k /\ \A j \in 1..k : ins[j] = c[j]
  <2>1. \A j \in 1..k : c[j] \in Entry
    BY <1>1, ElementOfSeq
  <2>2. /\ Len(ins) = IF 1 <= k THEN k - 1 + 1 ELSE 0
        /\ \A j \in 1..(k - 1 + 1) : ins[j] = c[1 + j - 1]
    BY <1>1, <2>1, SubSeqProperties
  <2>3. k - 1 + 1 = k /\ \A j \in 1..k : 1 + j - 1 = j
    BY <1>1, SMTT(40)
  <2>4. QED
    BY <1>1, <2>2, <2>3
<1> DEFINE Label(d) ==
             CASE ~begins(d) -> Unknown
               [] begins(d) /\ touched(d) # {} -> IF Stopped(d, Min(touched(d))) THEN 0 ELSE 1
               [] begins(d) /\ touched(d) = {} -> IF i + TimeStop <= Len(d) THEN 0 ELSE Unknown
<1>3. BarrierLabel(ins, i) = Label(ins) /\ BarrierLabel(c, i) = Label(c)
  BY DEF BarrierLabel, TimedOut
<1>4. \A j \in 1..k : (Barred(ins, j) <=> Barred(c, j)) /\ (Stopped(ins, j) <=> Stopped(c, j))
  <2>1. Alike(c, ins, i)
    BY <1>1, <1>2 DEF Alike
  <2> HIDE DEF ins
  <2>2. StopBarrier(ins, i) = StopBarrier(c, i) /\ TargetBarrier(ins, i) = TargetBarrier(c, i)
    BY <1>1, <2>1, UnitIsOfThePast
  <2>3. QED
    BY <1>2, <2>2
<1>5. i < k /\ begins(ins) /\ begins(c)
  <2> HIDE DEF ins, touched, Stopped
  <2>1. ~begins(ins) => Label(ins) = Unknown
    BY <1>1, <1>2
  <2>2. Label(ins) # Unknown
    BY <1>3 DEF ins
  <2>3. begins(ins)
    BY <2>1, <2>2
  <2>4. QED
    BY <1>1, <1>2, <2>3
<1> HIDE DEF ins, Barred, Stopped, begins
<1>6. touched(ins) = {j \in touched(c) : j <= k}
  BY <1>1, <1>2, <1>4
<1>7. touched(c) \in SUBSET Nat /\ touched(ins) \in SUBSET Nat
  BY <1>1, <1>2
<1>8. CASE touched(ins) # {}
  <2> DEFINE first == Min(touched(ins))
  <2>1. first \in touched(ins) /\ \A j \in touched(ins) : first <= j
    BY <1>7, <1>8, SmallestOf
  <2>2. touched(c) # {} /\ Min(touched(c)) \in touched(c)
        /\ \A j \in touched(c) : Min(touched(c)) <= j
    BY <1>6, <1>7, <1>8, SmallestOf
  <2> DEFINE least == Min(touched(c))
  <2> HIDE DEF first, least
  <2>3. first = least
    <3>1. first \in touched(c) /\ first <= k /\ first \in Nat
      BY <1>1, <1>6, <1>7, <2>1
    <3>2. least <= first /\ least \in Nat
      BY <1>7, <2>2, <3>1 DEF least
    <3>3. least \in touched(ins)
      BY <1>1, <1>6, <2>2, <3>1, <3>2 DEF least
    <3>4. QED
      BY <2>1, <3>1, <3>2, <3>3
  <2>4. first \in 1..k
    BY <1>1, <1>6, <2>1
  <2> HIDE DEF touched
  <2>5. Label(ins) = IF Stopped(ins, first) THEN 0 ELSE 1
    BY <1>1, <1>2, <1>5, <1>8 DEF first
  <2>6. Label(c) = IF Stopped(c, first) THEN 0 ELSE 1
    BY <1>1, <1>5, <2>2, <2>3 DEF least
  <2>7. QED
    BY <1>3, <1>4, <2>4, <2>5, <2>6 DEF ins
<1>9. CASE touched(ins) = {}
  <2>1. i + TimeStop <= k
    BY <1>1, <1>2, <1>3, <1>5, <1>9 DEF ins
  <2>2. touched(c) = {}
    BY <1>1, <1>6, <1>7, <1>9, <2>1
  <2> HIDE DEF touched
  <2>3. Label(ins) = 0
    BY <1>1, <1>2, <1>5, <1>9, <2>1
  <2>4. Label(c) = 0
    BY <1>1, <1>5, <2>1, <2>2
  <2>5. QED
    BY <1>3, <2>3, <2>4 DEF ins
<1>10. QED
  BY <1>8, <1>9

LEMMA HonestSplit == HistoryIsRead => SplitIsHonest
<1> SUFFICES ASSUME HistoryIsRead, NEW i \in MetaRows(InSample(history))
             PROVE  BarrierLabel(InSample(history), i) = BarrierLabel(history, i)
  BY DEF SplitIsHonest
<1> DEFINE k == Cut(history)
<1>1. history \in Seq(Entry) /\ Len(history) \in Nat
  BY DEF HistoryIsRead
<1>2. k \in 0..Len(history)
  <2>1. SplitPct \in Nat /\ SplitPct <= 100
    BY ResearchConstants
  <2>2. \A n, p \in Nat : p <= 100 => p * n \in Nat /\ p * n <= 100 * n
    OBVIOUS
  <2>3. \A m, n \in Nat : m <= 100 * n => m \div 100 \in 0..n
    OBVIOUS
  <2>4. QED
    BY <1>1, <2>1, <2>2, <2>3 DEF Cut
<1> HIDE DEF k
<1>3. InSample(history) = SubSeq(history, 1, k)
  BY DEF InSample, k
<1>4. DOMAIN SubSeq(history, 1, k) = 1..k
  <2>1. \A j \in 1..k : history[j] \in Entry
    BY <1>1, <1>2, ElementOfSeq
  <2>2. /\ SubSeq(history, 1, k) \in Seq(Entry)
        /\ Len(SubSeq(history, 1, k)) = IF 1 <= k THEN k - 1 + 1 ELSE 0
    BY <1>2, <2>1, SubSeqProperties
  <2>3. Len(SubSeq(history, 1, k)) = k
    BY <1>1, <1>2, <2>2
  <2>4. QED
    BY <2>2, <2>3, LenProperties
<1>5. i \in 1..k /\ BarrierLabel(SubSeq(history, 1, k), i) # Unknown
  BY <1>3, <1>4 DEF MetaRows, Rows
<1>6. QED
  BY <1>1, <1>2, <1>3, <1>5, LabelOfPast

-----------------------------------------------------------------------------
LEMMA WindowsType ==
  ASSUME NEW n \in Nat
  PROVE  Windows(n).train \in Nat /\ Windows(n).test \in Nat
<1> DEFINE needed == TrainWindow + Purge + TestWindow * NFolds
<1>1. needed \in Nat /\ TrainWindow \in Nat /\ TestWindow \in Nat
  BY ResearchConstants DEF Purge
<1>2. TrainWindow * n \in Nat /\ TestWindow * n \in Nat
  BY <1>1
<1> HIDE DEF needed
<1>3. CASE needed <= n
  BY <1>1, <1>3 DEF Windows, needed
<1>4. CASE ~(needed <= n)
  <2> DEFINE a == (TrainWindow * n) \div needed
             b == (TestWindow * n) \div needed
  <2>1. \A x \in Nat, y \in Nat \ {0} : x \div y \in Nat
    OBVIOUS
  <2>2. a \in Nat /\ b \in Nat
    <3>1. needed \in Nat \ {0}
      BY <1>1, <1>4
    <3>2. QED
      BY <1>2, <2>1, <3>1
  <2> HIDE DEF a, b
  <2>3. Max({MinTrain, a}) \in Nat /\ Max({MinTest, b}) \in Nat
    <3>1. MinTrain \in Nat /\ MinTest \in Nat
      BY ResearchConstants
    <3>2. \A x, y \in Int : Max({x, y}) \in {x, y}
      BY LargerOf
    <3>3. QED
      BY <2>2, <3>1, <3>2
  <2>4. Windows(n) = [train |-> Max({MinTrain, a}), test |-> Max({MinTest, b})]
    BY <1>4 DEF Windows, needed, a, b
  <2>5. QED
    BY <2>3, <2>4
<1>5. QED
  BY <1>3, <1>4

(* Training rows end, and test rows begin, at least a purge apart in the   *)
(* places of the dataset, and so in the history.                           *)
LEMMA PurgedFolds == HistoryIsRead => NoLookahead
<1> SUFFICES ASSUME HistoryIsRead, NEW f \in Folds(history), NEW i \in f.train, NEW j \in f.test
             PROVE  i + LabelHorizon < j
  BY DEF NoLookahead
<1> DEFINE labels == [n \in DOMAIN history |-> BreakoutLabel(history, n)]
           S == Rows(labels)
           rows == Ordered(S)
           w == Windows(Len(rows))
           start(k) == k * w.test
           testing(k) == start(k) + w.train + Purge
<1>1. LabelHorizon \in Nat /\ LabelHorizon >= 1 /\ Purge = LabelHorizon /\ NFolds \in Nat
  BY ResearchConstants DEF Purge
<1>2. S \in SUBSET Nat /\ IsFiniteSet(S)
  <2>1. Len(history) \in Nat /\ DOMAIN history = 1..Len(history)
    BY LenProperties DEF HistoryIsRead
  <2>2. S \subseteq 1..Len(history)
    BY <2>1 DEF Rows
  <2>3. IsFiniteSet(1..Len(history))
    <3>1. 1 \in Int /\ Len(history) \in Int
      BY <2>1
    <3>2. QED
      BY <3>1, FS_Interval, Zenon
  <2> HIDE DEF S
  <2>4. S \in SUBSET Nat
    BY <2>1, <2>2
  <2>5. QED
    BY <2>2, <2>3, <2>4, FS_Subset
<1>3. Dataset(history) = rows
  BY DEF Dataset
<1> HIDE DEF S
<1>4. DOMAIN rows = 1..Cardinality(S) /\ Cardinality(S) \in Nat
  BY <1>2, OrderedFacts
<1>5. Len(rows) = Cardinality(S)
  <2>1. rows = [p \in 1..Cardinality(S) |-> rows[p]]
    BY DEF Ordered
  <2> HIDE DEF rows
  <2>2. QED
    BY <1>4, <2>1
<1> HIDE DEF rows
<1>6. w.train \in Nat /\ w.test \in Nat
  BY <1>4, <1>5, WindowsType
<1> HIDE DEF w
<1>7. PICK k \in 0..(NFolds - 1) :
        /\ start(k) + w.train + Purge + w.test <= Len(rows)
        /\ f.train = {rows[p] : p \in (start(k) + 1)..(start(k) + w.train)}
        /\ f.test = {rows[p] : p \in (testing(k) + 1)..(testing(k) + w.test)}
  BY <1>3 DEF Folds, w
<1>8. start(k) \in Nat
  BY <1>1, <1>6
<1> DEFINE s == start(k)
<1> HIDE DEF start
<1>9. PICK p \in (s + 1)..(s + w.train) : i = rows[p]
  BY <1>7
<1>10. PICK q \in (s + w.train + Purge + 1)..(s + w.train + Purge + w.test) : j = rows[q]
  BY <1>7
<1> HIDE DEF s
<1>11. /\ p \in 1..Cardinality(S) /\ q \in 1..Cardinality(S) /\ p < q
       /\ q - p > LabelHorizon /\ p \in Nat /\ q \in Nat
  BY <1>1, <1>4, <1>5, <1>6, <1>7, <1>8, <1>9, <1>10, SMTT(40) DEF s
<1>12. rows[p] \in Nat /\ rows[q] \in Nat /\ rows[p] + (q - p) <= rows[q]
  BY <1>2, <1>11, OrderedApart DEF rows
<1>13. QED
  BY <1>1, <1>9, <1>10, <1>11, <1>12

-----------------------------------------------------------------------------
SymbolResult == [folds : Nat, accuracy : Nat, gap : Int, return : Int, trades : Nat]
Sincere(rs) == rs \in Seq(SymbolResult) /\ \A k \in DOMAIN rs : rs[k].folds = 0 => rs[k].accuracy = 0

LEMMA ResultFields ==
  ASSUME NEW rs \in Seq(SymbolResult), NEW k \in DOMAIN rs,
         NEW field \in {"accuracy", "gap", "return", "trades"}
  PROVE  rs[k] \in SymbolResult /\ rs[k][field] \in Int
<1>1. rs[k] \in SymbolResult
  BY LenProperties, ElementOfSeq
<1> DEFINE r == rs[k]
<1> HIDE DEF r
<1>2. r["accuracy"] \in Int /\ r["gap"] \in Int /\ r["return"] \in Int /\ r["trades"] \in Int
  BY <1>1 DEF SymbolResult, r
<1>3. r[field] \in Int
  BY <1>2
<1>4. QED
  BY <1>1, <1>3 DEF r

LEMMA TotalBounds ==
  ASSUME NEW rs \in Seq(SymbolResult), NEW on \in SUBSET DOMAIN rs, NEW hi \in Int,
         NEW field \in {"accuracy", "gap", "return", "trades"},
         \A k \in on : rs[k][field] <= hi
  PROVE  /\ Total(rs, on, field) \in Int /\ Cardinality(on) \in Nat
         /\ Total(rs, on, field) <= hi * Cardinality(on)
<1> DEFINE f == [k \in DOMAIN rs |-> rs[k][field]]
<1>1. \A k \in on : f[k] \in Int /\ f[k] <= hi
  BY ResultFields
<1>2. IsFiniteSet(on)
  <2>1. Len(rs) \in Nat /\ DOMAIN rs = 1..Len(rs)
    BY LenProperties
  <2>2. IsFiniteSet(1..Len(rs))
    BY <2>1, FS_Interval
  <2>3. QED
    BY <2>1, <2>2, FS_Subset
<1>3. Total(rs, on, field) = Sum(f, on)
  BY SumIs DEF Total
<1> HIDE DEF f
<1>4. QED
  BY <1>1, <1>2, <1>3, SumBounds

(* Where the mean is high, something is.                                   *)
LEMMA MeanReached ==
  ASSUME NEW rs \in Seq(SymbolResult), NEW on \in SUBSET DOMAIN rs, NEW least \in Int,
         NEW field \in {"accuracy", "gap", "return", "trades"},
         on # {}, Mean(rs, on, field) >= least
  PROVE  \E k \in on : rs[k][field] >= least
<1> SUFFICES ASSUME \A k \in on : ~(rs[k][field] >= least) PROVE FALSE
  OBVIOUS
<1> DEFINE n == Cardinality(on)
           t == Total(rs, on, field)
           hi == least - 1
<1>1. hi \in Int /\ \A k \in on : rs[k][field] <= hi
  BY ResultFields
<1> HIDE DEF hi
<1>2. t \in Int /\ n \in Nat /\ t <= hi * n
  BY <1>1, TotalBounds
<1>3. n # 0
  <2>1. IsFiniteSet(on)
    <3>1. Len(rs) \in Nat /\ DOMAIN rs = 1..Len(rs)
      BY LenProperties
    <3>2. IsFiniteSet(1..Len(rs))
      BY <3>1, FS_Interval
    <3>3. QED
      BY <3>1, <3>2, FS_Subset
  <2>2. QED
    BY <2>1, FS_EmptySet
<1> HIDE DEF n, t
<1>4. Max({n, 1}) = n
  <2>1. \A x \in Int : Max({x, 1}) \in {x, 1} /\ x <= Max({x, 1}) /\ 1 <= Max({x, 1})
    <3> TAKE x \in Int
    <3>1. 1 \in Int
      OBVIOUS
    <3>2. QED
      BY <3>1, LargerOf, Zenon
  <2> DEFINE m == Max({n, 1})
  <2>2. m \in {n, 1} /\ n <= m /\ 1 <= m
    BY <1>2, <2>1
  <2> HIDE DEF m
  <2>3. m = n
    BY <1>2, <1>3, <2>2
  <2>4. QED
    BY <2>3 DEF m
<1>5. Mean(rs, on, field) = t \div n
  BY <1>4 DEF Mean, n, t
<1>6. t \div n <= hi
  <2>1. \A x, y \in Int, m \in Nat \ {0} : x <= y * m => x \div m <= y
    OBVIOUS
  <2>2. QED
    BY <1>1, <1>2, <1>3, <2>1
<1>7. t \div n \in Int
  BY <1>2, <1>3
<1>8. QED
  BY <1>5, <1>6, <1>7 DEF hi

LEMMA EdgeEarned ==
  ASSUME NEW rs, Sincere(rs), Verdict(rs) = "marginal_edge"
  PROVE  /\ \E k \in DOMAIN rs : rs[k].folds > 0 /\ rs[k].accuracy >= 52
         /\ \E k \in DOMAIN rs : rs[k].return > 0
         /\ \A k \in DOMAIN rs : rs[k].accuracy < Suspicious
<1> DEFINE all == DOMAIN rs
           folded == {k \in all : rs[k].folds > 0}
           accuracy == Mean(rs, folded, "accuracy")
           total == Total(rs, all, "return")
<1>1. rs \in Seq(SymbolResult) /\ \A k \in DOMAIN rs : rs[k] \in SymbolResult
  BY LenProperties, ElementOfSeq DEF Sincere
<1>2. /\ folded # {} /\ accuracy >= 52 /\ total > 0
      /\ ~ \E k \in folded : rs[k].accuracy >= Suspicious
  BY DEF Verdict
<1>3. \E k \in folded : rs[k]["accuracy"] >= 52
  <2> HIDE DEF folded
  <2>1. folded \subseteq DOMAIN rs
    BY DEF folded
  <2>2. QED
    BY <1>1, <1>2, <2>1, MeanReached
<1>4. \E k \in all : rs[k]["return"] > 0
  <2> SUFFICES ASSUME \A k \in all : ~(rs[k]["return"] > 0) PROVE FALSE
    OBVIOUS
  <2>1. \A k \in all : rs[k]["return"] <= 0
    BY <1>1 DEF SymbolResult
  <2>2. /\ total \in Int /\ Cardinality(all) \in Nat /\ total <= 0 * Cardinality(all)
    BY <1>1, <2>1, TotalBounds
  <2>3. QED
    BY <1>2, <2>2
<1>5. ASSUME NEW k \in all
      PROVE  rs[k].accuracy < Suspicious
  <2>1. Suspicious \in Int /\ Suspicious > 0
    BY ResearchAssumption
  <2>2. rs[k].accuracy \in Nat /\ rs[k].folds \in Nat
    BY <1>1 DEF SymbolResult
  <2>3. CASE k \in folded
    BY <1>2, <2>1, <2>2, <2>3
  <2>4. CASE k \notin folded
    BY <2>1, <2>2, <2>4 DEF Sincere
  <2>5. QED
    BY <2>3, <2>4
<1>6. QED
  BY <1>3, <1>4, <1>5

LEMMA ResearchStarts == ResearchInit => ResearchInv
<1> SUFFICES ASSUME ResearchInit PROVE ResearchInv
  OBVIOUS
<1>1. PICK b \in DayShapes : days = <<b>>
  BY DEF ResearchInit
<1>2. /\ DOMAIN stored = {} /\ DOMAIN covered = {} /\ stored = <<>> /\ covered = <<>>
      /\ history = <<>> /\ report = NoReport
  <2>1. DOMAIN <<>> = {}
    OBVIOUS
  <2>2. QED
    BY <2>1 DEF ResearchInit
<1>3. DaysAreBars
  BY <1>1 DEF DaysAreBars
<1>4. CacheIsDated /\ CacheIsRepaired
  BY <1>2 DEF CacheIsDated, CacheIsRepaired
<1>5. HistoryIsRead /\ EdgeIsEarned
  BY <1>2 DEF HistoryIsRead, EdgeIsEarned
<1>6. QED
  BY <1>3, <1>4, <1>5 DEF ResearchInv

(* Only the bar of today changes.                                          *)
LEMMA DaysKeep ==
  ASSUME ResearchInv, BarForms \/ DayCloses
  PROVE  /\ DaysAreBars' /\ Len(days) <= Len(days')
         /\ \A d \in 1..(Len(days) - 1) : days'[d] = days[d]
<1>1. days \in Seq(DayShapes) /\ Len(days) \in Nat /\ Len(days) >= 1
  BY DEF ResearchInv, DaysAreBars
<1>2. \A d \in 1..Len(days) : days[d] \in DayShapes
  BY <1>1, ElementOfSeq
<1>3. CASE DayCloses
  <2>1. PICK b \in DayShapes : days' = Append(days, b)
    BY <1>3 DEF DayCloses
  <2>2. /\ days' \in Seq(DayShapes) /\ Len(days') = Len(days) + 1
        /\ \A d \in 1..Len(days) : days'[d] = days[d]
    BY <1>1, <2>1, AppendProperties
  <2>3. QED
    BY <1>1, <2>2 DEF DaysAreBars
<1>4. CASE BarForms
  <2> DEFINE n == Len(days) - 1
             front == SubSeq(days, 1, n)
  <2>1. PICK b \in DayShapes : days' = Append(front, b)
    BY <1>4 DEF BarForms, Front
  <2>2. n \in Nat /\ n <= Len(days)
    BY <1>1
  <2>3. \A d \in 1..n : days[d] \in DayShapes
    BY <1>1, <1>2, <2>2
  <2>4. /\ front \in Seq(DayShapes) /\ Len(front) = n
        /\ \A d \in 1..n : front[d] = days[d]
    <3> HIDE DEF n
    <3>1. /\ front \in Seq(DayShapes) /\ Len(front) = IF 1 <= n THEN n - 1 + 1 ELSE 0
          /\ \A d \in 1..(n - 1 + 1) : front[d] = days[1 + d - 1]
      BY <2>2, <2>3, SubSeqProperties
    <3>2. n - 1 + 1 = n /\ \A d \in 1..n : 1 + d - 1 = d
      BY <2>2
    <3>3. QED
      BY <2>2, <3>1, <3>2
  <2> HIDE DEF front, n
  <2>5. /\ days' \in Seq(DayShapes) /\ Len(days') = n + 1
        /\ \A d \in 1..n : days'[d] = front[d]
    BY <2>1, <2>4, AppendProperties
  <2>6. n + 1 = Len(days)
    BY <1>1 DEF n
  <2>7. QED
    BY <1>1, <2>4, <2>5, <2>6 DEF DaysAreBars, n
<1>5. QED
  BY <1>3, <1>4

LEMMA DaysGoOn ==
  ASSUME ResearchInv, BarForms \/ DayCloses
  PROVE  ResearchInv'
<1>1. UNCHANGED <<stored, covered, history, report>>
  BY DEF BarForms, DayCloses
<1>2. /\ DaysAreBars' /\ Len(days) <= Len(days')
      /\ \A d \in 1..(Len(days) - 1) : days'[d] = days[d]
  BY DaysKeep
<1>3. Len(days) \in Nat /\ Len(days') \in Nat /\ CacheIsDated /\ CacheIsRepaired
  BY <1>2 DEF ResearchInv, DaysAreBars
<1>4. CacheIsDated'
  BY <1>1, <1>2, <1>3 DEF CacheIsDated
<1>5. CacheIsRepaired'
  <2> SUFFICES ASSUME NEW d \in DOMAIN stored, Closed(d) PROVE stored[d] = days'[d]
    BY <1>1 DEF CacheIsRepaired, Closed
  <2>1. d \in 1..Len(days) /\ covered[d] \in 0..Len(days) /\ covered[d] > d
    BY <1>3 DEF CacheIsDated, Closed
  <2>2. d \in 1..(Len(days) - 1)
    BY <1>3, <2>1
  <2>3. QED
    BY <1>2, <1>3, <2>2 DEF CacheIsRepaired
<1>6. HistoryIsRead' /\ EdgeIsEarned'
  BY <1>1 DEF ResearchInv, HistoryIsRead, EdgeIsEarned
<1>7. QED
  BY <1>2, <1>4, <1>5, <1>6 DEF ResearchInv

LEMMA CacheRead ==
  ASSUME ResearchInv, GetCached \/ GetFails
  PROVE  ResearchInv'
<1>1. UNCHANGED <<days, stored, covered, report>> /\ history' = Load(stored)
  BY DEF GetCached, GetFails
<1>2. /\ Len(days) \in Nat /\ DOMAIN stored \subseteq 1..Len(days)
      /\ \A d \in DOMAIN stored : stored[d] \in DayShapes
  BY DEF ResearchInv, DaysAreBars, CacheIsDated
<1>3. HistoryIsRead'
  BY <1>1, <1>2, LoadType DEF HistoryIsRead
<1>4. DaysAreBars' /\ CacheIsDated' /\ CacheIsRepaired' /\ EdgeIsEarned'
  BY <1>1 DEF ResearchInv, DaysAreBars, CacheIsDated, CacheIsRepaired, Closed, EdgeIsEarned
<1>5. QED
  BY <1>3, <1>4 DEF ResearchInv

LEMMA CacheRefreshed ==
  ASSUME ResearchInv, GetDownloaded
  PROVE  ResearchInv'
<1> DEFINE D == Downloaded
<1>1. /\ UNCHANGED <<days, report>> /\ history' = Load([d \in D |-> days[d]])
      /\ stored' = [d \in DOMAIN stored \cup D |-> IF d \in D THEN days[d] ELSE stored[d]]
      /\ covered' = [d \in DOMAIN covered \cup D |-> IF d \in D THEN Today ELSE covered[d]]
  BY DEF GetDownloaded, Store
<1>2. /\ Today = Len(days) /\ Today \in Nat /\ D \subseteq 1..Today
      /\ \A d \in 1..Today : days[d] \in DayShapes
  BY DaysOfResearch DEF ResearchInv, Today, Downloaded
<1>3. CacheIsDated /\ CacheIsRepaired
  BY DEF ResearchInv
<1> HIDE DEF D
<1>4. HistoryIsRead'
  <2> DEFINE rows == [d \in D |-> days[d]]
  <2>1. DOMAIN rows \subseteq 1..Today /\ \A d \in DOMAIN rows : rows[d] \in DayShapes
    BY <1>2
  <2> HIDE DEF rows
  <2>2. Load(rows) \in Seq(Entry)
    BY <1>2, <2>1, LoadType
  <2>3. QED
    BY <1>1, <2>2 DEF HistoryIsRead, rows
<1>5. CacheIsDated'
  <2>1. DOMAIN stored' = DOMAIN stored \cup D /\ DOMAIN covered' = DOMAIN stored \cup D
    BY <1>1, <1>3 DEF CacheIsDated
  <2>2. ASSUME NEW d \in DOMAIN stored \cup D
        PROVE  stored'[d] \in DayShapes /\ covered'[d] \in 0..Today
    <3>1. CASE d \in D
      <4>1. stored'[d] = days[d] /\ covered'[d] = Today
        BY <1>1, <3>1
      <4>2. QED
        BY <1>2, <3>1, <4>1
    <3>2. CASE d \notin D
      <4>1. stored'[d] = stored[d] /\ covered'[d] = covered[d]
        BY <1>1, <1>3, <3>2 DEF CacheIsDated
      <4>2. QED
        BY <1>2, <1>3, <3>2, <4>1 DEF CacheIsDated
    <3>3. QED
      BY <3>1, <3>2
  <2>3. QED
    BY <1>1, <1>2, <1>3, <2>1, <2>2 DEF CacheIsDated
<1>6. CacheIsRepaired'
  <2> SUFFICES ASSUME NEW d \in DOMAIN stored', Closed(d)' PROVE stored'[d] = days[d]
    BY <1>1 DEF CacheIsRepaired
  <2>1. CASE d \in D
    BY <1>1, <2>1
  <2>2. CASE d \notin D
    <3>1. d \in DOMAIN stored /\ stored'[d] = stored[d] /\ covered'[d] = covered[d] /\ d \in DOMAIN covered
      BY <1>1, <1>3, <2>2 DEF CacheIsDated
    <3>2. Closed(d)
      BY <3>1 DEF Closed
    <3>3. QED
      BY <1>3, <3>1, <3>2 DEF CacheIsRepaired
  <2>3. QED
    BY <2>1, <2>2
<1>7. DaysAreBars' /\ EdgeIsEarned'
  BY <1>1 DEF ResearchInv, DaysAreBars, EdgeIsEarned
<1>8. QED
  BY <1>4, <1>5, <1>6, <1>7 DEF ResearchInv

LEMMA FoldsCounted == HistoryIsRead => Cardinality(Folds(history)) \in Nat
<1> SUFFICES ASSUME HistoryIsRead PROVE IsFiniteSet(Folds(history))
  BY FS_CardinalityType
<1> DEFINE rows == Dataset(history)
           w == Windows(Len(rows))
           Fold(k) == LET start == k * w.test
                          testing == start + w.train + Purge
                      IN  [train |-> {rows[p] : p \in (start + 1)..(start + w.train)},
                           test |-> {rows[p] : p \in (testing + 1)..(testing + w.test)}]
           all == {Fold(k) : k \in 0..(NFolds - 1)}
<1>1. IsFiniteSet(0..(NFolds - 1))
  BY ResearchConstants, FS_Interval
<1>2. Folds(history) \subseteq all
  BY DEF Folds
<1> HIDE DEF Fold
<1>3. IsFiniteSet(all)
  <2> DEFINE F == [k \in 0..(NFolds - 1) |-> Fold(k)]
  <2>1. F \in [0..(NFolds - 1) -> all] /\ \A f \in all : \E k \in 0..(NFolds - 1) : F[k] = f
    OBVIOUS
  <2> HIDE DEF F, all
  <2>2. F \in Surjection(0..(NFolds - 1), all)
    BY <2>1, Fun_IsSurj
  <2>3. QED
    BY <1>1, <2>2, FS_Surjection
<1>4. QED
  BY <1>2, <1>3, FS_Subset

LEMMA LabReports ==
  ASSUME ResearchInv, RunLab
  PROVE  ResearchInv'
<1> DEFINE folds == Cardinality(Folds(history))
           own(m) == [folds |-> folds, accuracy |-> IF folds = 0 THEN 0 ELSE m.accuracy,
                      gap |-> IF folds = 0 THEN 0 ELSE m.gap,
                      return |-> m.return, trades |-> m.trades]
<1>1. PICK m \in Measured, others \in Others :
        LET results == IF Len(history) < MinBars THEN others ELSE <<own(m)>> \o others
        IN  /\ report' = [verdict |-> Verdict(results), results |-> results]
            /\ UNCHANGED <<days, stored, covered, history>>
  BY DEF RunLab
<1> DEFINE o == own(m)
           rs == IF Len(history) < MinBars THEN others ELSE <<o>> \o others
<1>2. report' = [verdict |-> Verdict(rs), results |-> rs]
  BY <1>1
<1>3. Sincere(others)
  BY ResearchAssumption, LenProperties DEF Sincere, SymbolResult, Range
<1>4. o \in SymbolResult /\ (o.folds = 0 => o.accuracy = 0)
  <2>1. folds \in Nat
    BY FoldsCounted DEF ResearchInv
  <2>2. m.accuracy \in Nat /\ m.gap \in Int /\ m.return \in Int /\ m.trades \in Nat
    BY ResearchAssumption
  <2> HIDE DEF folds
  <2>3. QED
    BY <2>1, <2>2 DEF SymbolResult
<1> HIDE DEF o
<1>5. Sincere(<<o>> \o others)
  <2>1. <<o>> \in Seq(SymbolResult) /\ Len(<<o>>) = 1 /\ <<o>>[1] = o
    BY <1>4
  <2>2. others \in Seq(SymbolResult) /\ Len(others) \in Nat
    BY <1>3, LenProperties DEF Sincere
  <2> DEFINE both == <<o>> \o others
  <2>3. /\ both \in Seq(SymbolResult) /\ Len(both) = 1 + Len(others)
        /\ \A k \in 1..(1 + Len(others)) : both[k] = IF k <= 1 THEN <<o>>[k] ELSE others[k - 1]
    BY <2>1, <2>2, ConcatProperties
  <2>4. DOMAIN both = 1..(1 + Len(others)) /\ DOMAIN others = 1..Len(others)
    BY <2>2, <2>3, LenProperties
  <2> HIDE DEF both
  <2>5. ASSUME NEW k \in 1..(1 + Len(others))
        PROVE  both[k].folds = 0 => both[k].accuracy = 0
    <3>1. CASE k = 1
      <4>1. both[k] = o
        BY <2>1, <2>3, <3>1
      <4>2. QED
        BY <1>4, <4>1
    <3>2. CASE k # 1
      <4>1. k - 1 \in DOMAIN others /\ both[k] = others[k - 1]
        BY <2>2, <2>3, <2>4, <3>2
      <4>2. QED
        BY <1>3, <4>1 DEF Sincere
    <3>3. QED
      BY <3>1, <3>2
  <2>6. QED
    BY <2>3, <2>4, <2>5 DEF Sincere, both
<1>6. Sincere(rs)
  BY <1>3, <1>5
<1> HIDE DEF rs
<1>7. EdgeIsEarned'
  <2> SUFFICES ASSUME Verdict(rs) = "marginal_edge"
               PROVE  /\ \E r \in Range(rs) : r.folds > 0 /\ r.accuracy >= 52
                      /\ \E r \in Range(rs) : r.return > 0
                      /\ \A r \in Range(rs) : r.accuracy < Suspicious
    BY <1>2 DEF EdgeIsEarned
  <2>1. /\ \E k \in DOMAIN rs : rs[k].folds > 0 /\ rs[k].accuracy >= 52
        /\ \E k \in DOMAIN rs : rs[k].return > 0
        /\ \A k \in DOMAIN rs : rs[k].accuracy < Suspicious
    BY <1>6, EdgeEarned
  <2>2. QED
    BY <2>1 DEF Range
<1>8. DaysAreBars' /\ CacheIsDated' /\ CacheIsRepaired' /\ HistoryIsRead'
  BY <1>1 DEF ResearchInv, DaysAreBars, CacheIsDated, CacheIsRepaired, Closed, HistoryIsRead
<1>9. QED
  BY <1>7, <1>8 DEF ResearchInv

LEMMA ResearchSteps == ResearchInv /\ [ResearchNext]_researchVars => ResearchInv'
<1> SUFFICES ASSUME ResearchInv, [ResearchNext]_researchVars PROVE ResearchInv'
  OBVIOUS
<1>1. CASE BarForms \/ DayCloses
  BY <1>1, DaysGoOn
<1>2. CASE GetCached \/ GetFails
  BY <1>2, CacheRead
<1>3. CASE GetDownloaded
  BY <1>3, CacheRefreshed
<1>4. CASE RunLab
  BY <1>4, LabReports
<1>5. CASE UNCHANGED researchVars
  BY <1>5 DEF researchVars, ResearchInv, DaysAreBars, CacheIsDated, CacheIsRepaired, Closed,
              HistoryIsRead, EdgeIsEarned
<1>6. QED
  BY <1>1, <1>2, <1>3, <1>4, <1>5 DEF ResearchNext

(* The cache is repaired, no fold looks ahead, the split of the meta-model *)
(* is honest and an edge is earned, for every configuration, history and   *)
(* outcome of the estimators.                                              *)
THEOREM LabIsHonest == ResearchSpec => []ResearchIsHonest
<1>1. ResearchInv => ResearchIsHonest
  BY PurgedFolds, HonestSplit DEF ResearchInv, ResearchIsHonest
<1>2. QED
  BY <1>1, ResearchStarts, ResearchSteps, PTL DEF ResearchSpec

-----------------------------------------------------------------------------
(* Where two sets agree from a common member on, their members have the    *)
(* same distance in places.                                                *)
LEMMA BelowGrows ==
  ASSUME NEW S \in SUBSET Nat, IsFiniteSet(S), NEW a \in S, NEW b \in Nat, a < b
  PROVE  /\ Below(a, S) \in Nat /\ Below(b, S) \in Nat /\ Below(a, S) + 1 <= Below(b, S)
         /\ Below(b, S) = Below(a, S) + Cardinality(S \cap (a..(b - 1)))
         /\ Cardinality(S \cap (a..(b - 1))) \in Nat
<1> DEFINE A == {m \in S : m < a}
           B == {m \in S : m < b}
           I == S \cap (a..(b - 1))
<1>1. a \in Nat /\ a \in I /\ a \notin A
  OBVIOUS
<1>2. IsFiniteSet(A) /\ IsFiniteSet(B) /\ IsFiniteSet(I)
  BY FS_Subset
<1>3. B = A \cup I /\ A \cap I = {}
  <2>1. \A m \in S : m \in Nat /\ (m < b <=> m < a \/ m \in a..(b - 1)) /\ ~(m < a /\ m \in a..(b - 1))
    <3> TAKE m \in S
    <3>1. m \in Nat
      OBVIOUS
    <3>2. QED
      BY <1>1, <3>1
  <2>2. QED
    BY <2>1
<1>4. /\ Cardinality(A) \in Nat /\ Cardinality(B) \in Nat /\ Cardinality(I) \in Nat
      /\ Cardinality(I) # 0
  BY <1>1, <1>2, FS_CardinalityType, FS_EmptySet
<1> HIDE DEF A, B, I
<1>5. Cardinality(B) = Cardinality(A) + Cardinality(I)
  <2>1. Cardinality(B) = Cardinality(A) + Cardinality(I) - Cardinality(A \cap I)
    BY <1>2, <1>3, FS_Union
  <2>2. Cardinality(A \cap I) = 0
    BY <1>3, FS_EmptySet
  <2>3. QED
    BY <1>4, <2>1, <2>2
<1>6. QED
  BY <1>4, <1>5 DEF Below, A, B, I

LEMMA PlaceOf ==
  ASSUME NEW S \in SUBSET Nat, IsFiniteSet(S), NEW y \in S
  PROVE  /\ Below(y, S) + 1 \in 1..Cardinality(S)
         /\ Ordered(S)[Below(y, S) + 1] = y
<1>1. y \in Nat /\ Cardinality(S) \in Nat /\ Below(y, S) \in Nat
  BY BelowFacts
<1>2. Below(y, S) + 1 <= Cardinality(S)
  <2> DEFINE B == {m \in S : m < y}
  <2>1. IsFiniteSet(B) /\ Cardinality(B) = Below(y, S) /\ y \notin B
    BY <1>1, BelowFacts DEF Below
  <2>2. B \subseteq S
    OBVIOUS
  <2> HIDE DEF B
  <2>3. Cardinality(B) <= Cardinality(S) /\ (Cardinality(S) = Cardinality(B) => S = B)
    BY <2>2, FS_Subset
  <2>4. QED
    BY <1>1, <2>1, <2>3
<1> DEFINE p == Below(y, S) + 1
           z == Ordered(S)[p]
<1>3. p \in 1..Cardinality(S)
  BY <1>1, <1>2
<1> HIDE DEF z, p
<1>4. z \in S /\ z \in Nat /\ Below(z, S) = Below(y, S)
  <2>1. z \in S /\ Below(z, S) = p - 1
    BY <1>3, OrderedFacts DEF z
  <2>2. p - 1 = Below(y, S)
    BY <1>1 DEF p
  <2>3. QED
    BY <2>1, <2>2
<1>5. z = y
  <2>1. CASE z < y
    <3>1. Below(z, S) \in Nat /\ Below(z, S) + 1 <= Below(y, S)
      BY <1>1, <1>4, <2>1, BelowGrows
    <3>2. QED
      BY <1>1, <1>4, <3>1
  <2>2. CASE y < z
    <3>1. Below(z, S) \in Nat /\ Below(y, S) + 1 <= Below(z, S)
      BY <1>1, <1>4, <2>2, BelowGrows
    <3>2. QED
      BY <1>1, <1>4, <3>1
  <2>3. QED
    BY <1>1, <1>4, <2>1, <2>2
<1>6. QED
  BY <1>3, <1>5 DEF z, p

LEMMA SamePlaces ==
  ASSUME NEW A \in SUBSET Nat, IsFiniteSet(A), NEW B \in SUBSET Nat, IsFiniteSet(B),
         NEW i \in 1..Cardinality(A), NEW j \in 1..Cardinality(B),
         Ordered(A)[i] = Ordered(B)[j],
         NEW k \in Nat, i + k <= Cardinality(A),
         Ordered(A)[i + k] \in B,
         A \cap (Ordered(A)[i]..Ordered(A)[i + k]) = B \cap (Ordered(A)[i]..Ordered(A)[i + k])
  PROVE  j + k \in 1..Cardinality(B) /\ Ordered(B)[j + k] = Ordered(A)[i + k]
<1> DEFINE x == Ordered(A)[i]
           y == Ordered(A)[i + k]
<1>1. /\ Cardinality(A) \in Nat /\ Cardinality(B) \in Nat
      /\ x \in A /\ x \in B /\ x \in Nat /\ Below(x, A) = i - 1 /\ Below(x, B) = j - 1
  <2>1. /\ Cardinality(A) \in Nat /\ Cardinality(B) \in Nat
        /\ x \in A /\ Below(x, A) = i - 1
    BY OrderedFacts
  <2>2. Ordered(B)[j] \in B /\ Below(Ordered(B)[j], B) = j - 1
    BY OrderedFacts
  <2>3. QED
    BY <2>1, <2>2
<1>2. i + k \in 1..Cardinality(A)
  BY <1>1
<1>3. y \in A /\ y \in B /\ y \in Nat /\ Below(y, A) = i + k - 1
  <2>1. Ordered(A)[i + k] \in A /\ Below(Ordered(A)[i + k], A) = (i + k) - 1
    BY <1>2, OrderedFacts
  <2> HIDE DEF y
  <2>2. y \in A /\ y \in B /\ Below(y, A) = (i + k) - 1
    BY <2>1 DEF y
  <2>3. QED
    BY <2>2
<1>4. CASE k = 0
  <2>1. i + k = i /\ j + k = j
    BY <1>1, <1>4
  <2>2. QED
    BY <1>1, <2>1
<1>5. CASE k > 0
  <2>1. x < y
    <3>1. i < i + k /\ (i + k) - i = k
      BY <1>1, <1>5
    <3>2. x + ((i + k) - i) <= y
      BY <1>2, <3>1, OrderedApart
    <3>3. QED
      BY <1>1, <1>3, <1>5, <3>1, <3>2
  <2>2. A \cap (x..(y - 1)) = B \cap (x..(y - 1))
    <3>1. x..(y - 1) \subseteq x..y
      BY <1>1, <1>3
    <3>2. A \cap (x..y) = B \cap (x..y)
      OBVIOUS
    <3> HIDE DEF x, y
    <3>3. QED
      BY <3>1, <3>2
  <2> HIDE DEF x, y
  <2>3. Below(y, A) = Below(x, A) + Cardinality(A \cap (x..(y - 1)))
    BY <1>1, <1>3, <2>1, BelowGrows
  <2>4. /\ Below(y, B) = Below(x, B) + Cardinality(B \cap (x..(y - 1)))
        /\ Cardinality(B \cap (x..(y - 1))) \in Nat
    BY <1>1, <1>3, <2>1, BelowGrows
  <2>5. Below(y, B) + 1 = j + k
    <3> DEFINE between == Cardinality(B \cap (x..(y - 1)))
    <3>1. Below(y, A) = Below(x, A) + between
      BY <2>2, <2>3
    <3>2. Below(y, B) = Below(x, B) + between /\ between \in Nat
      BY <2>4
    <3> HIDE DEF between
    <3>3. i \in Nat /\ j \in Nat
      BY <1>1
    <3>4. i + k - 1 = i - 1 + between
      BY <1>1, <1>3, <3>1
    <3>5. Below(y, B) = j - 1 + between
      BY <1>1, <3>2
    <3>6. QED
      BY <3>2, <3>3, <3>4, <3>5
  <2>6. Below(y, B) + 1 \in 1..Cardinality(B) /\ Ordered(B)[Below(y, B) + 1] = y
    BY <1>3, PlaceOf
  <2>7. QED
    BY <2>5, <2>6 DEF y
<1>6. QED
  BY <1>4, <1>5

-----------------------------------------------------------------------------
(* A label reads the bars that decide it and no others.                    *)
SameBars(c, i, d, j, n) ==
  \A k \in 0..n : i + k <= Len(c) =>
    j + k <= Len(d) /\ d[j + k].bar = c[i + k].bar /\ d[j + k].date = c[i + k].date

LEMMA BreakoutKept ==
  ASSUME NEW c \in Seq(Entry), NEW d \in Seq(Entry), NEW i \in DOMAIN c, NEW j \in DOMAIN d,
         SameBars(c, i, d, j, LabelHorizon), BreakoutLabel(c, i) # Unknown
  PROVE  BreakoutLabel(d, j) = BreakoutLabel(c, i)
<1> DEFINE h == LabelHorizon
           Moved(e, m) == 100 * (e[m + h].bar.close - e[m].bar.close)
           Up(e, m) == Moved(e, m) > Threshold * e[m].bar.close
           Down(e, m) == Moved(e, m) < -Threshold * e[m].bar.close
           Label(e, m) == CASE m + h > Len(e) -> Unknown
                            [] m + h <= Len(e) /\ Up(e, m) -> 1
                            [] m + h <= Len(e) /\ Down(e, m) -> 0
                            [] OTHER -> Unknown
<1>1. BreakoutLabel(c, i) = Label(c, i) /\ BreakoutLabel(d, j) = Label(d, j)
  BY DEF BreakoutLabel
<1>2. Len(c) \in Nat /\ Len(d) \in Nat /\ i \in Nat /\ j \in Nat /\ h \in Nat
      /\ i <= Len(c) /\ j <= Len(d)
  BY LenProperties, ResearchConstants
<1>3. i + h <= Len(c)
  <2> HIDE DEF Up, Down, h
  <2>1. i + h > Len(c) => Label(c, i) = Unknown
    BY <1>2
  <2>2. QED
    BY <1>1, <1>2, <2>1
<1>4. j + h <= Len(d) /\ d[j + h].bar = c[i + h].bar
  BY <1>2, <1>3 DEF SameBars
<1>5. d[j].bar = c[i].bar
  <2>1. i + 0 <= Len(c) => j + 0 <= Len(d) /\ d[j + 0].bar = c[i + 0].bar
    BY <1>2 DEF SameBars
  <2>2. i + 0 = i /\ j + 0 = j
    BY <1>2
  <2>3. QED
    BY <1>2, <2>1, <2>2
<1>6. (Up(d, j) <=> Up(c, i)) /\ (Down(d, j) <=> Down(c, i))
  BY <1>4, <1>5
<1> HIDE DEF Up, Down, h
<1>7. Label(d, j) = Label(c, i)
  BY <1>2, <1>3, <1>4, <1>6, SMTT(40)
<1>8. QED
  BY <1>1, <1>7

(* The unit of a row reads every row before it: both histories begin with  *)
(* the same bars.                                                          *)
LEMMA BarrierKept ==
  ASSUME NEW c \in Seq(Entry), NEW d \in Seq(Entry), NEW i \in DOMAIN c,
         \A k \in 1..(i + TimeStop) : k <= Len(c) => k <= Len(d) /\ d[k].bar = c[k].bar,
         BarrierLabel(c, i) # Unknown
  PROVE  BarrierLabel(d, i) = BarrierLabel(c, i)
<1> DEFINE Stopped(e, m) == Grained(e[m].bar.low, i) <= StopBarrier(e, i)
           Barred(e, m) == Stopped(e, m) \/ Grained(e[m].bar.high, i) >= TargetBarrier(e, i)
           begins(e) == AtrPeriod <= i /\ i < Len(e)
           touched(e) == {m \in (i + 1)..Len(e) : m <= i + TimeStop /\ Barred(e, m)}
           Label(e) ==
             CASE ~begins(e) -> Unknown
               [] begins(e) /\ touched(e) # {} -> IF Stopped(e, Min(touched(e))) THEN 0 ELSE 1
               [] begins(e) /\ touched(e) = {} -> IF i + TimeStop <= Len(e) THEN 0 ELSE Unknown
<1>1. BarrierLabel(c, i) = Label(c) /\ BarrierLabel(d, i) = Label(d)
  BY DEF BarrierLabel, TimedOut
<1>2. /\ Len(c) \in Nat /\ Len(d) \in Nat /\ i \in Nat /\ i >= 1 /\ i <= Len(c)
      /\ TimeStop \in Nat /\ TimeStop >= 1
  BY LenProperties, ResearchConstants
<1>3. Alike(c, d, i)
  BY <1>2 DEF Alike
<1>4. StopBarrier(d, i) = StopBarrier(c, i) /\ TargetBarrier(d, i) = TargetBarrier(c, i)
  BY <1>2, <1>3, UnitIsOfThePast
<1>5. \A m \in 1..(i + TimeStop) : m <= Len(c) =>
        m <= Len(d) /\ (Barred(d, m) <=> Barred(c, m)) /\ (Stopped(d, m) <=> Stopped(c, m))
  BY <1>4
<1> HIDE DEF Barred, Stopped
<1>6. begins(c)
  <2> HIDE DEF begins, touched
  <2>1. ~begins(c) => Label(c) = Unknown
    OBVIOUS
  <2>2. QED
    BY <1>1, <2>1
<1>7. begins(d)
  <2>1. i + 1 \in 1..(i + TimeStop) /\ i + 1 <= Len(c)
    BY <1>2, <1>6
  <2>2. i + 1 <= Len(d)
    BY <1>5, <2>1
  <2>3. QED
    BY <1>2, <1>6, <2>2
<1> HIDE DEF begins
<1>8. touched(c) \in SUBSET Nat /\ touched(d) \in SUBSET Nat
  BY <1>2
<1>9. touched(c) = {m \in touched(d) : m <= Len(c)}
  <2>1. \A m : m \in touched(c) <=> m \in touched(d) /\ m <= Len(c)
    BY <1>2, <1>5
  <2>2. QED
    BY <2>1
<1>10. CASE touched(c) # {}
  <2> DEFINE first == Min(touched(c))
             least == Min(touched(d))
  <2>1. first \in touched(c) /\ \A m \in touched(c) : first <= m
    BY <1>8, <1>10, SmallestOf
  <2>2. touched(d) # {}
    BY <1>9, <1>10
  <2>3. least \in touched(d) /\ \A m \in touched(d) : least <= m
    BY <1>8, <2>2, SmallestOf
  <2> HIDE DEF first, least
  <2>4. least = first
    <3>1. first \in touched(d) /\ first <= Len(c) /\ first \in Nat
      BY <1>8, <1>9, <2>1
    <3>2. least <= first /\ least \in Nat
      BY <1>8, <2>3, <3>1
    <3>3. least \in touched(c)
      BY <1>2, <1>9, <2>3, <3>1, <3>2
    <3>4. QED
      BY <2>1, <3>1, <3>2, <3>3
  <2>5. first \in 1..(i + TimeStop) /\ first <= Len(c)
    BY <1>2, <2>1
  <2>6. Stopped(d, least) <=> Stopped(c, first)
    BY <1>5, <2>4, <2>5
  <2> HIDE DEF touched
  <2>7. Label(c) = IF Stopped(c, first) THEN 0 ELSE 1
    BY <1>6, <1>10 DEF first
  <2>8. Label(d) = IF Stopped(d, least) THEN 0 ELSE 1
    BY <1>7, <2>2 DEF least
  <2>9. QED
    BY <1>1, <2>6, <2>7, <2>8
<1>11. CASE touched(c) = {}
  <2>1. i + TimeStop <= Len(c)
    <3> HIDE DEF touched
    <3>1. ~(i + TimeStop <= Len(c)) => Label(c) = Unknown
      BY <1>6, <1>11
    <3>2. QED
      BY <1>1, <3>1
  <2>2. i + TimeStop \in 1..(i + TimeStop)
    BY <1>2
  <2>3. i + TimeStop <= Len(d)
    BY <2>1, <2>2
  <2>4. touched(d) = {}
    <3>1. \A m \in touched(d) : m <= Len(c)
      BY <1>2, <2>1
    <3>2. QED
      BY <1>9, <1>11, <3>1
  <2> HIDE DEF touched
  <2>5. Label(c) = 0
    BY <1>6, <1>11, <2>1
  <2>6. Label(d) = 0
    BY <1>7, <2>3, <2>4
  <2>7. QED
    BY <1>1, <2>5, <2>6
<1>12. QED
  BY <1>10, <1>11

-----------------------------------------------------------------------------
(* The last history is a stretch of the rows in the table, as they are; a  *)
(* day missing between rows is too old to be downloaded.                   *)
IsStretch(rows) ==
  LET A == DOMAIN rows
  IN  /\ A \subseteq DOMAIN stored
      /\ \A d \in A : rows[d] = stored[d]
      /\ \A x, y \in A : \A e \in DOMAIN stored : x <= e /\ e <= y => e \in A
      /\ history = Load(rows)
HistoryIsStored == \E rows : IsStretch(rows)
GapsAreOld ==
  \A d \in DOMAIN stored : \A e \in 1..d : e \notin DOMAIN stored => e <= Len(days) - PeriodDays

LabelsInv == ResearchInv /\ HistoryIsStored /\ GapsAreOld

LEMMA LoadFacts ==
  ASSUME NEW n \in Nat, NEW rows, DOMAIN rows \subseteq 1..n
  PROVE  LET D == DOMAIN rows
             c == Load(rows)
         IN  /\ D \in SUBSET Nat /\ IsFiniteSet(D) /\ Cardinality(D) \in Nat
             /\ DOMAIN c = 1..Cardinality(D)
             /\ \A p \in 1..Cardinality(D) :
                  /\ Ordered(D)[p] \in D
                  /\ c[p].date = Ordered(D)[p] /\ c[p].bar = rows[Ordered(D)[p]]
<1> DEFINE D == DOMAIN rows
<1>1. D \in SUBSET Nat /\ IsFiniteSet(D)
  <2>1. IsFiniteSet(1..n)
    BY FS_Interval
  <2>2. QED
    BY <2>1, FS_Subset
<1>2. /\ Cardinality(D) \in Nat /\ DOMAIN Ordered(D) = 1..Cardinality(D)
      /\ \A p \in 1..Cardinality(D) : Ordered(D)[p] \in D
  BY <1>1, OrderedFacts
<1>3. Load(rows) = [p \in 1..Cardinality(D) |->
                      [date |-> Ordered(D)[p], bar |-> rows[Ordered(D)[p]]]]
  BY <1>2 DEF Load
<1>4. QED
  BY <1>1, <1>2, <1>3

(* What the next history is read from: the bars of the finished days, and  *)
(* every day between two it shares with the last.                          *)
LEMMA NextHistory ==
  ASSUME LabelsInv, NEW was, IsStretch(was), GetCached \/ GetFails \/ GetDownloaded
  PROVE  \E rows :
           /\ DOMAIN rows \subseteq 1..Today /\ history' = Load(rows)
           /\ \A d \in DOMAIN rows : Closed(d) => rows[d] = days[d]
           /\ \A x, y \in DOMAIN was : x \in DOMAIN rows /\ x <= y =>
                y \in DOMAIN rows /\ DOMAIN was \cap (x..y) = DOMAIN rows \cap (x..y)
<1> DEFINE A == DOMAIN was
<1>1. /\ Today = Len(days) /\ Today \in Nat /\ DOMAIN stored \subseteq 1..Today
      /\ CacheIsRepaired /\ A \subseteq DOMAIN stored /\ PeriodDays \in Nat
      /\ \A x, y \in A : \A e \in DOMAIN stored : x <= e /\ e <= y => e \in A
  BY DaysOfResearch, ResearchConstants
     DEF LabelsInv, ResearchInv, CacheIsDated, Today, IsStretch
<1>2. CASE GetCached \/ GetFails
  <2>1. history' = Load(stored)
    BY <1>2 DEF GetCached, GetFails
  <2>2. ASSUME NEW x \in A, NEW y \in A, x <= y
        PROVE  y \in DOMAIN stored /\ A \cap (x..y) = DOMAIN stored \cap (x..y)
    <3>1. \A e \in DOMAIN stored : e \in x..y => e \in A
      BY <1>1
    <3>2. QED
      BY <1>1, <3>1
  <2>3. QED
    BY <1>1, <2>1, <2>2 DEF CacheIsRepaired
<1>3. CASE GetDownloaded
  <2> DEFINE D == Downloaded
             rows == [d \in D |-> days[d]]
  <2>1. history' = Load(rows)
    BY <1>3 DEF GetDownloaded
  <2>2. ASSUME NEW x \in A, NEW y \in A, x \in D, x <= y
        PROVE  y \in D /\ A \cap (x..y) = D \cap (x..y)
    <3>1. /\ x \in 1..Today /\ y \in 1..Today /\ y \in DOMAIN stored /\ Today - PeriodDays < x
      BY <1>1, <2>2 DEF Downloaded
    <3>2. ASSUME NEW e \in x..y
          PROVE  e \in A /\ e \in D
      <4>1. e \in 1..y /\ e \in 1..Today /\ Today - PeriodDays < e
        BY <1>1, <3>1
      <4>2. e \in DOMAIN stored
        BY <1>1, <3>1, <4>1 DEF LabelsInv, GapsAreOld
      <4>3. QED
        BY <1>1, <4>1, <4>2 DEF Downloaded
    <3>3. y \in D
      <4>1. y \in x..y
        BY <2>2, <3>1
      <4>2. QED
        BY <3>2, <4>1
    <3>4. QED
      BY <3>2, <3>3
  <2>3. DOMAIN rows = D /\ D \subseteq 1..Today /\ \A d \in D : rows[d] = days[d]
    BY DEF Downloaded
  <2> HIDE DEF rows, D
  <2>4. QED
    BY <2>1, <2>2, <2>3
<1>4. QED
  BY <1>2, <1>3

LEMMA BarsOfFinishedDays ==
  ASSUME LabelsInv, GetCached \/ GetFails \/ GetDownloaded,
         NEW n \in Nat, NEW i \in DOMAIN history, NEW j \in DOMAIN history',
         history[i].date = history'[j].date, Finished(history, i, i + n)
  PROVE  SameBars(history, i, history', j, n)
<1>1. PICK was : IsStretch(was)
  BY DEF LabelsInv, HistoryIsStored
<1>2. PICK rows :
        /\ DOMAIN rows \subseteq 1..Today /\ history' = Load(rows)
        /\ \A d \in DOMAIN rows : Closed(d) => rows[d] = days[d]
        /\ \A x, y \in DOMAIN was : x \in DOMAIN rows /\ x <= y =>
             y \in DOMAIN rows /\ DOMAIN was \cap (x..y) = DOMAIN rows \cap (x..y)
  BY <1>1, NextHistory
<1> DEFINE B == DOMAIN rows
           A == DOMAIN was
           d == history'
           c == history
<1>3. /\ Today \in Nat /\ A \subseteq 1..Today /\ c = Load(was)
      /\ CacheIsRepaired /\ A \subseteq DOMAIN stored /\ c \in Seq(Entry)
      /\ \A x \in A : was[x] = stored[x]
  BY <1>1, DaysOfResearch
     DEF LabelsInv, ResearchInv, CacheIsDated, Today, IsStretch, HistoryIsRead
<1>4. /\ A \in SUBSET Nat /\ IsFiniteSet(A) /\ Cardinality(A) \in Nat
      /\ DOMAIN c = 1..Cardinality(A)
      /\ \A p \in 1..Cardinality(A) :
           /\ Ordered(A)[p] \in A
           /\ c[p].date = Ordered(A)[p] /\ c[p].bar = was[Ordered(A)[p]]
  <2>1. DOMAIN was \subseteq 1..Today
    BY <1>3
  <2>2. QED
    BY <1>3, <2>1, LoadFacts
<1>5. /\ B \in SUBSET Nat /\ IsFiniteSet(B) /\ Cardinality(B) \in Nat
      /\ DOMAIN d = 1..Cardinality(B)
      /\ \A p \in 1..Cardinality(B) :
           /\ Ordered(B)[p] \in B
           /\ d[p].date = Ordered(B)[p] /\ d[p].bar = rows[Ordered(B)[p]]
  BY <1>2, <1>3, LoadFacts
<1>6. Len(c) = Cardinality(A) /\ Len(d) = Cardinality(B)
  <2>1. Len(c) = Cardinality(A)
    BY <1>3, <1>4, LenProperties
  <2>2. d = [p \in 1..Cardinality(B) |-> d[p]]
    <3>1. DOMAIN Ordered(B) = 1..Cardinality(B)
      BY <1>5, OrderedFacts
    <3>2. QED
      BY <1>2, <3>1 DEF Load
  <2> HIDE DEF d, B
  <2>3. Len(d) = Cardinality(B)
    BY <1>5, <2>2
  <2>4. QED
    BY <2>1, <2>3
<1> SUFFICES ASSUME NEW k \in 0..n, i + k <= Len(c)
             PROVE  /\ j + k <= Len(d) /\ d[j + k].bar = c[i + k].bar
                    /\ d[j + k].date = c[i + k].date
  BY DEF SameBars
<1> HIDE DEF A, B, c, d
<1>7. /\ i \in 1..Cardinality(A) /\ j \in 1..Cardinality(B)
      /\ i + k \in 1..Cardinality(A) /\ k \in Nat
      /\ Ordered(A)[i] = Ordered(B)[j]
  BY <1>4, <1>5, <1>6 DEF c, d
<1> DEFINE x == Ordered(A)[i]
           y == Ordered(A)[i + k]
<1>8. x \in A /\ y \in A /\ x \in B /\ x <= y
  <2>1. x \in A /\ y \in A /\ x \in B
    BY <1>4, <1>5, <1>7
  <2>2. x <= y
    <3>1. CASE k = 0
      <4>1. i + k = i /\ x \in Nat
        <5>1. x \in Nat
          BY <1>4, <2>1
        <5>2. QED
          BY <1>7, <3>1, <5>1
      <4>2. QED
        BY <4>1
    <3>2. CASE k # 0
      <4>1. i < i + k
        BY <1>7, <3>2
      <4>2. x \in Nat /\ y \in Nat /\ x + ((i + k) - i) <= y
        BY <1>4, <1>7, <4>1, OrderedApart
      <4>3. (i + k) - i = k
        BY <1>7
      <4>4. QED
        BY <1>7, <4>2, <4>3
    <3>3. QED
      BY <3>1, <3>2
  <2>3. QED
    BY <2>1, <2>2
<1>9. y \in B /\ A \cap (x..y) = B \cap (x..y)
  BY <1>2, <1>8 DEF A, B
<1>10. j + k \in 1..Cardinality(B) /\ Ordered(B)[j + k] = y
  <2>1. i + k <= Cardinality(A)
    BY <1>4, <1>7
  <2>2. Ordered(A)[i + k] \in B /\ A \cap (Ordered(A)[i]..Ordered(A)[i + k])
                                   = B \cap (Ordered(A)[i]..Ordered(A)[i + k])
    BY <1>9
  <2>3. A \in SUBSET Nat /\ IsFiniteSet(A) /\ B \in SUBSET Nat /\ IsFiniteSet(B)
    BY <1>4, <1>5
  <2> HIDE DEF x, y
  <2>4. j + k \in 1..Cardinality(B) /\ Ordered(B)[j + k] = Ordered(A)[i + k]
    BY <1>7, <2>1, <2>2, <2>3, SamePlaces
  <2>5. QED
    BY <2>4 DEF y
<1>11. Closed(y)
  <2>1. i + k \in i..Min({i + n, Len(c)})
    <3> DEFINE last == Min({i + n, Len(c)})
    <3>1. /\ i \in Nat /\ i + n \in Nat /\ Len(c) \in Nat
          /\ {i + n, Len(c)} \in SUBSET Nat /\ {i + n, Len(c)} # {}
      BY <1>4, <1>6, <1>7
    <3>2. last \in {i + n, Len(c)}
      BY <3>1, SmallestOf
    <3> HIDE DEF last
    <3>3. last \in Nat /\ i + k <= last
      BY <3>1, <3>2
    <3>4. QED
      BY <1>7, <3>1, <3>3 DEF last
  <2>2. Closed(c[i + k].date)
    BY <2>1 DEF Finished, c
  <2>3. QED
    BY <1>4, <1>7, <2>2
<1>12. c[i + k].bar = days[y] /\ c[i + k].date = y
  BY <1>3, <1>4, <1>7, <1>8, <1>11 DEF CacheIsRepaired
<1>13. d[j + k].bar = days[y] /\ d[j + k].date = y
  BY <1>2, <1>5, <1>9, <1>10, <1>11 DEF B
<1>14. j + k <= Len(d)
  BY <1>5, <1>6, <1>10
<1>15. QED
  BY <1>12, <1>13, <1>14

-----------------------------------------------------------------------------
LEMMA LabelsStart == ResearchInit => LabelsInv
<1> SUFFICES ASSUME ResearchInit PROVE LabelsInv
  OBVIOUS
<1>1. DOMAIN stored = {} /\ history = <<>>
  BY DEF ResearchInit
<1>2. \E rows : IsStretch(rows)
  <2> DEFINE none == [d \in {} |-> stored[d]]
  <2>1. DOMAIN none = {}
    OBVIOUS
  <2>2. 0 \in Nat /\ DOMAIN none \subseteq 1..0
    BY <2>1
  <2> HIDE DEF none
  <2>3. Load(none) \in Seq(Entry)
    BY <2>1, <2>2, LoadType
  <2>4. DOMAIN Load(none) = 1..0
    <3>1. DOMAIN Load(none) = 1..Cardinality({})
      BY <2>1, <2>2, LoadFacts
    <3>2. QED
      BY <3>1, FS_EmptySet
  <2>5. Load(none) = <<>>
    BY <2>3, <2>4, LenProperties
  <2>6. QED
    BY <1>1, <2>1, <2>5 DEF IsStretch
<1>3. GapsAreOld
  BY <1>1 DEF GapsAreOld
<1>4. QED
  BY <1>2, <1>3, ResearchStarts DEF LabelsInv, HistoryIsStored

LEMMA LabelsSteps == LabelsInv /\ [ResearchNext]_researchVars => LabelsInv'
<1> SUFFICES ASSUME LabelsInv, [ResearchNext]_researchVars PROVE LabelsInv'
  OBVIOUS
<1>1. ResearchInv'
  BY ResearchSteps DEF LabelsInv
<1>2. Len(days) \in Nat /\ Len(days') \in Nat /\ PeriodDays \in Nat
  BY <1>1, ResearchConstants DEF LabelsInv, ResearchInv, DaysAreBars
<1>3. CASE BarForms \/ DayCloses
  <2>1. UNCHANGED <<stored, history>>
    BY <1>3 DEF BarForms, DayCloses
  <2>2. Len(days) <= Len(days')
    BY <1>3, DaysKeep DEF LabelsInv
  <2>3. HistoryIsStored'
    BY <2>1 DEF LabelsInv, HistoryIsStored, IsStretch
  <2>4. GapsAreOld'
    BY <1>2, <2>1, <2>2 DEF LabelsInv, GapsAreOld
  <2>5. QED
    BY <1>1, <2>3, <2>4 DEF LabelsInv
<1>4. CASE GetCached \/ GetFails
  <2>1. UNCHANGED <<days, stored>> /\ history' = Load(stored)
    BY <1>4 DEF GetCached, GetFails
  <2>2. HistoryIsStored'
    BY <2>1 DEF HistoryIsStored, IsStretch
  <2>3. GapsAreOld'
    BY <2>1 DEF LabelsInv, GapsAreOld
  <2>4. QED
    BY <1>1, <2>2, <2>3 DEF LabelsInv
<1>5. CASE GetDownloaded
  <2> DEFINE D == Downloaded
  <2>1. /\ UNCHANGED days /\ history' = Load([d \in D |-> days[d]])
        /\ stored' = [d \in DOMAIN stored \cup D |-> IF d \in D THEN days[d] ELSE stored[d]]
    BY <1>5 DEF GetDownloaded, Store
  <2>2. \A d \in 1..Len(days) : Len(days) - PeriodDays < d <=> d \in D
    BY DEF Downloaded, Today
  <2>3. DOMAIN stored \subseteq 1..Len(days) /\ D \subseteq 1..Len(days)
    BY DEF LabelsInv, ResearchInv, CacheIsDated, Downloaded, Today
  <2> HIDE DEF D
  <2>4. DOMAIN stored' = DOMAIN stored \cup D
    BY <2>1
  <2>5. HistoryIsStored'
    <3> DEFINE rows == [d \in D |-> days[d]]
    <3>1. ASSUME NEW x \in D, NEW y \in D, NEW e \in DOMAIN stored', x <= e, e <= y
          PROVE  e \in D
      <4>1. x \in 1..Len(days) /\ y \in 1..Len(days) /\ e \in 1..Len(days)
        BY <2>3, <2>4
      <4>2. Len(days) - PeriodDays < e
        BY <1>2, <2>2, <3>1, <4>1
      <4>3. QED
        BY <2>2, <4>1, <4>2
    <3>2. DOMAIN rows = D /\ \A d \in D : rows[d] = stored'[d]
      BY <2>1
    <3> HIDE DEF rows
    <3>3. /\ DOMAIN rows \subseteq DOMAIN stored' /\ history' = Load(rows)
          /\ \A d \in DOMAIN rows : rows[d] = stored'[d]
          /\ \A x, y \in DOMAIN rows : \A e \in DOMAIN stored' :
               x <= e /\ e <= y => e \in DOMAIN rows
      BY <2>1, <2>4, <3>1, <3>2 DEF rows
    <3>4. QED
      BY <3>3 DEF HistoryIsStored, IsStretch
  <2>6. GapsAreOld'
    <3> SUFFICES ASSUME NEW d \in DOMAIN stored', NEW e \in 1..d, e \notin DOMAIN stored'
                 PROVE  e <= Len(days) - PeriodDays
      BY <2>1 DEF GapsAreOld
    <3>1. e \in 1..Len(days)
      <4>1. d \in 1..Len(days)
        BY <2>3, <2>4
      <4>2. QED
        BY <1>2, <4>1
    <3>2. e \notin D
      BY <2>4
    <3>3. QED
      BY <1>2, <2>2, <3>1, <3>2
  <2>7. QED
    BY <1>1, <2>5, <2>6 DEF LabelsInv
<1>6. CASE RunLab \/ UNCHANGED researchVars
  <2>1. UNCHANGED <<days, stored, history>>
    BY <1>6 DEF RunLab, researchVars
  <2>2. HistoryIsStored' /\ GapsAreOld'
    BY <2>1 DEF LabelsInv, HistoryIsStored, IsStretch, GapsAreOld
  <2>3. QED
    BY <1>1, <2>2 DEF LabelsInv
<1>7. QED
  BY <1>3, <1>4, <1>5, <1>6 DEF ResearchNext

(* A known label that finished days decided is the same in the next        *)
(* history with its bar, whatever is refreshed, missing or read from the   *)
(* cache; that of the meta-model, whose barriers stand on every bar since  *)
(* the first, if the history begins on the same day.                       *)
THEOREM LabelsStand == ResearchSpec => LabelsNeverRevised
<1>1. ASSUME LabelsInv, LabelsInv', [ResearchNext]_researchVars, history' # history
      PROVE  BreakoutsKept(history, history') /\ BarriersKept(history, history')
  <2>1. GetCached \/ GetFails \/ GetDownloaded
    BY <1>1 DEF ResearchNext, BarForms, DayCloses, RunLab, researchVars
  <2>2. history \in Seq(Entry) /\ history' \in Seq(Entry) /\ LabelHorizon \in Nat /\ TimeStop \in Nat
    BY <1>1, ResearchConstants DEF LabelsInv, ResearchInv, HistoryIsRead
  <2>3. \A n \in Nat, i \in DOMAIN history, j \in DOMAIN history' :
          history[i].date = history'[j].date /\ Finished(history, i, i + n)
            => SameBars(history, i, history', j, n)
    BY <1>1, <2>1, BarsOfFinishedDays
  <2>4. BreakoutsKept(history, history')
    BY <2>2, <2>3, BreakoutKept DEF BreakoutsKept
  <2>5. ASSUME 1 \in DOMAIN history, 1 \in DOMAIN history', history[1].date = history'[1].date,
               NEW i \in DOMAIN history, BarrierLabel(history, i) # Unknown,
               Finished(history, 1, i + TimeStop)
        PROVE  /\ i \in DOMAIN history' /\ history'[i].date = history[i].date
               /\ BarrierLabel(history', i) = BarrierLabel(history, i)
    <3> DEFINE n == i + TimeStop - 1
    <3>1. /\ i \in Nat /\ i >= 1 /\ i <= Len(history) /\ n \in Nat /\ 1 + n = i + TimeStop
          /\ i - 1 \in 0..n /\ 1 + (i - 1) = i
      BY <2>2, LenProperties
    <3> HIDE DEF n
    <3>2. SameBars(history, 1, history', 1, n)
      BY <2>3, <2>5, <3>1
    <3>3. \A k \in 0..n : 1 + k <= Len(history) =>
            /\ 1 + k <= Len(history') /\ history'[1 + k].bar = history[1 + k].bar
            /\ history'[1 + k].date = history[1 + k].date
      BY <3>2 DEF SameBars
    <3>4. \A k \in 1..(i + TimeStop) : k - 1 \in 0..n /\ 1 + (k - 1) = k
      BY <3>1
    <3>5. \A k \in 1..(i + TimeStop) : k <= Len(history) =>
            k <= Len(history') /\ history'[k].bar = history[k].bar
      BY <3>3, <3>4
    <3>6. i \in DOMAIN history' /\ history'[i].date = history[i].date
      <4>1. i <= Len(history') /\ history'[i].date = history[i].date
        BY <3>1, <3>3
      <4>2. QED
        BY <2>2, <3>1, <4>1, LenProperties
    <3>7. BarrierLabel(history', i) = BarrierLabel(history, i)
      BY <2>2, <2>5, <3>5, BarrierKept
    <3>8. QED
      BY <3>6, <3>7
  <2>6. BarriersKept(history, history')
    BY <2>5 DEF BarriersKept
  <2>7. QED
    BY <2>4, <2>6
<1>2. LabelsInv /\ LabelsInv' /\ [ResearchNext]_researchVars
        => [BreakoutsKept(history, history') /\ BarriersKept(history, history')]_history
  BY <1>1
<1>3. QED
  BY <1>2, LabelsStart, LabelsSteps, PTL DEF ResearchSpec, LabelsNeverRevised
=============================================================================
