------------------------------ MODULE SafetyScore ------------------------------
(***************************************************************************)
(* The safety score of a symbol, the condition read from it, the screening *)
(* of the watchlist, the label the dashboard shows, and the score of the   *)
(* whole market.  Scores are in tenths of a point, as they are stored.     *)
(***************************************************************************)
EXTENDS Signals

Points(x) == Within(x, 0, One)

(* From the best value down to the worst, in a straight line.              *)
Falling(x, best, worst) ==
  CASE x <= best -> One
    [] x >= worst -> 0
    [] OTHER -> Points(Quot(One * (worst - x), worst - best))

(* The measures: trend in thousandths, volatility in basis points, the     *)
(* book in thousands of dollars, spread and slippage in tenths of a basis  *)
(* point, accuracies in percent or None, drawdown in thousandths.          *)
Breakdown(m) ==
  << Points(m.notional),
     Falling(m.volatility, 40, 200),
     Falling(m.spread, 30, 250),
     Falling(m.slippage, 30, 400),
     Points(One - Quot(14 * Abs(m.trend - 500), 10)),
     Points(One - Quot(11 * Abs(m.imbalance), 10)),
     Points(One - 4 * m.drawdown) >>
  \o (IF m.accuracy = None THEN <<>> ELSE << Points(20 * m.accuracy - 500) >>)
  \o (IF m.reliability = None THEN <<>> ELSE << Points(10 * m.reliability) >>)

Illiquid(m) == m.notional < 150 \/ m.spread > 200
LowAccuracy(m) == m.accuracy # None /\ m.accuracy < 45

(* A hazard caps the score, however good the rest.                         *)
Ceiling(m) == Min({One} \cup (IF m.panic THEN {180} ELSE {})
                        \cup (IF Illiquid(m) THEN {380} ELSE {})
                        \cup (IF m.chop THEN {560} ELSE {})
                        \cup (IF LowAccuracy(m) THEN {480} ELSE {}))

Score(m) ==
  LET b == Breakdown(m) IN Min({Ceiling(m), SumFunction(b) \div Len(b)})

StatusForScore(score) ==
  CASE score <= 200 -> "UNSAFE"
    [] 200 < score /\ score <= 400 -> "HIGH_RISK"
    [] 400 < score /\ score <= 600 -> "WAIT"
    [] score > 600 -> "SAFE_TO_OBSERVE"

(* The first that applies.                                                 *)
Condition(m, score) ==
  CASE m.panic -> "PANIC"
    [] ~m.panic /\ Illiquid(m) -> "ILLIQUID"
    [] ~m.panic /\ ~Illiquid(m) ->
         IF m.volatility > 160 /\ m.trend > 800 THEN "OVEREXTENDED"
         ELSE IF m.chop THEN "CHOPPY"
         ELSE IF score >= 650 /\ m.trend >= 350 /\ m.volatility <= 100
              THEN "OPPORTUNISTIC"
         ELSE IF score >= 600 /\ m.volatility <= 60 THEN "CALM"
         ELSE "MIXED"

-----------------------------------------------------------------------------
(* The watchlist filters: the kinds of rejection.                          *)
PopulatedLevels == 5
Rejections(tape) ==
     (IF tape.volume24h < Config.minVolume THEN {"low_volume"} ELSE {})
  \cup (IF Or(tape.spread, 0) > Config.watchSpread THEN {"wide_spread"} ELSE {})
  \cup (IF tape.notional < Config.minNotional THEN {"thin_liquidity"} ELSE {})
  \cup (IF tape.levels < PopulatedLevels THEN {"thin_orderbook"} ELSE {})
  \cup (IF Abs(tape.hourMove) > Config.pumpMove THEN {"pump_or_dump"} ELSE {})

Approved(tape) == Rejections(tape) = {}

SymbolStatus(tape, condition, score, killed) ==
  CASE ~Approved(tape) ->
         IF Rejections(tape) \cap {"thin_liquidity", "thin_orderbook"} # {}
         THEN "TOO_ILLIQUID" ELSE "WATCH_ONLY"
    [] Approved(tape) /\ condition = "PANIC" -> "PANIC"
    [] Approved(tape) /\ condition = "ILLIQUID" -> "TOO_ILLIQUID"
    [] Approved(tape) /\ condition = "CHOPPY" -> "TOO_CHOPPY"
    [] Approved(tape) /\ condition \notin {"PANIC", "ILLIQUID", "CHOPPY"} ->
         IF ~killed /\ score >= 650 THEN "GOOD_PAPER_CONDITIONS" ELSE "WATCH_ONLY"

-----------------------------------------------------------------------------
(* The whole market: the mean pulled towards the worst symbol, and the     *)
(* most severe condition present.                                          *)
Severity == <<"PANIC", "ILLIQUID", "OVEREXTENDED", "CHOPPY", "MIXED", "CALM",
              "OPPORTUNISTIC">>
AggregateMean(scores) ==
  IF scores = <<>> THEN 500 ELSE Points(SumFunction(scores) \div Len(scores))
AggregateScore(scores) ==
  IF scores = <<>> THEN 500
  ELSE Points(Quot(6 * SumFunction(scores) + 4 * Len(scores) * Min(Range(scores)),
                   10 * Len(scores)))

AggregateCondition(present) ==
  IF present = {} THEN "MIXED"
  ELSE Severity[Min({i \in DOMAIN Severity : Severity[i] \in present})]
=============================================================================
