----------------------------- MODULE PaperBroker -----------------------------
(***************************************************************************)
(* The simulated broker (paper/broker.py) and its fills                    *)
(* (risk/execution.py), for one symbol.  Money, prices and quantities are  *)
(* whole numbers of some small unit.  The average price of a lot appears   *)
(* as its cost, and a sale releases its share of it; divisions round down, *)
(* where the code rounds floats.  Variants are used by no definition.      *)
(***************************************************************************)
EXTENDS Integers

CONSTANTS
  StartingCash,       \* starting_cash
  FeeBps,             \* fee_bps
  BaseSlippageBps,    \* base_slippage_bps
  ImpactSlippageBps   \* impact_slippage_bps

ASSUME PaperBrokerAssumption ==
  /\ StartingCash \in Nat \ {0}
  /\ {FeeBps, BaseSlippageBps, ImpactSlippageBps} \subseteq Nat
  /\ BaseSlippageBps + ImpactSlippageBps < 10000

Least(a, b) == IF a < b THEN a ELSE b

Lot == [quantity : Nat, cost : Nat, fees : Nat]
Fill == [side : {"none", "buy", "sell"}, quantity : Nat, price : Nat, fee : Nat]
Account == [cash : Int, realized : Int, lot : Lot, fill : Fill, fees : Nat,
            trades : Nat, net : Int, last : Int]

NoLot == [quantity |-> 0, cost |-> 0, fees |-> 0]
NoFill == [side |-> "none", quantity |-> 0, price |-> 0, fee |-> 0]

(* The account: the lot held, the last fill, the fees of all fills, and of *)
(* the trades closed their number, the sum of their results and the last.  *)
NewBroker == [cash |-> StartingCash, realized |-> 0, lot |-> NoLot,
              fill |-> NoFill, fees |-> 0,
              trades |-> 0, net |-> 0, last |-> 0]

(* Slippage grows with the share of what may be filled, and always hurts.  *)
Adverse(reference, filled, fillable) ==
  (reference * (BaseSlippageBps * fillable + ImpactSlippageBps * filled))
    \div (10000 * fillable)

SimulateFill(side, quantity, reference, fillable) ==
  LET filled == Least(quantity, fillable)
      adverse == Adverse(reference, filled, fillable)
      price == IF side = "buy" THEN reference + adverse ELSE reference - adverse
  IN  [side |-> side, quantity |-> filled, price |-> price,
       fee |-> (price * filled * FeeBps) \div 10000]

Buy(b, fill) ==
  [b EXCEPT !.cash = @ - (fill.price * fill.quantity + fill.fee),
            !.lot = [quantity |-> @.quantity + fill.quantity,
                     cost |-> @.cost + fill.price * fill.quantity,
                     fees |-> @.fees + fill.fee],
            !.fees = @ + fill.fee,
            !.fill = fill]

(* The share of the lot's cost that a sale releases, and a variant that    *)
(* releases the price of the sale.                                         *)
ReleasedAtPrice(lot, fill, sold) == fill.price * sold
Released(lot, fill, sold) == (lot.cost * sold) \div lot.quantity

(* What a round trip has earned, net of the fees of both sides.            *)
Result(lot, fill, gain) == gain - (lot.fees + fill.fee)

(* A sale that leaves nothing closes the trade and records it.             *)
Sell(b, fill) ==
  LET sold == Least(fill.quantity, b.lot.quantity)
      released == Released(b.lot, fill, sold)
      gain == fill.price * sold - released
      reduced == [b EXCEPT !.cash = @ + fill.price * sold - fill.fee,
                           !.realized = @ + gain,
                           !.fees = @ + fill.fee,
                           !.fill = fill]
  IN  IF sold = b.lot.quantity
      THEN [reduced EXCEPT !.lot = NoLot,
                           !.trades = @ + 1,
                           !.net = @ + Result(b.lot, fill, gain),
                           !.last = Result(b.lot, fill, gain)]
      ELSE [reduced EXCEPT !.lot = [quantity |-> @.quantity - sold,
                                    cost |-> @.cost - released,
                                    fees |-> @.fees + fill.fee]]

(* submit_market_order; a sale is of at most what is held, and of nothing  *)
(* held it raises.                                                         *)
MarketBuy(b, quantity, reference, fillable) ==
  Buy(b, SimulateFill("buy", quantity, reference, fillable))
MarketSell(b, quantity, reference, fillable) ==
  Sell(b, SimulateFill("sell", Least(quantity, b.lot.quantity), reference, fillable))

Equity(b, mark) == b.cash + b.lot.quantity * mark
=============================================================================
