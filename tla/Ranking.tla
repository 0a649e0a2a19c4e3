------------------------------- MODULE Ranking -------------------------------
(* The cross-section (cross_section/ranker.py, factors.py and the           *)
(* observer's _rank_cross_section): the factors of a cycle are collected    *)
(* symbol by symbol, each is put on the scale of the whole universe, the    *)
(* blend orders the universe, and its ends are the baskets.                 *)
(*                                                                          *)
(* Abstractions.  How a factor is computed from candles is left out: a      *)
(* symbol shows one of Looks, or too short a history.  Factors are small    *)
(* integers, used in tenths; z-scores are in thousandths; the blend is      *)
(* not divided by the sum of its weights, which changes no order.  argsort  *)
(* is stable, as numpy's is on short arrays, and its result is reversed.    *)
(* An array is a function on the places of the stocks it is about.          *)
EXTENDS Integers, Sequences, FiniteSets, FiniteSetsExt, Functions

CONSTANTS
  Watched,            \* the watchlist, in its order
  Looks,              \* factor vectors: records of the factors, ml and dollars
  NoScore,            \* no model, no ml score
  FactorWeights,      \* weight of each factor, in percent
  WinsorizePct,       \* share clipped from each tail, in percent
  LongPct, ShortPct,  \* shares of the two baskets, in percent
  MinDollars,         \* the liquidity gate
  MinRanked,          \* fewer factors than this are not ranked: 5 in the code
  LastRanked,         \* bound: the last cycle
  NoRanking           \* the table is empty

BaseFactors == {"momentum", "trend", "reversion", "low_vol"}

ASSUME RankingAssumption ==
  /\ WinsorizePct \in 0..49 /\ LongPct \in 1..50 /\ ShortPct \in 0..50
  /\ MinRanked \in Nat \ {0} /\ LastRanked \in Nat /\ MinDollars \in Int
  /\ \A f \in BaseFactors \cup {"ml"} : FactorWeights[f] \in Nat
  /\ NoScore \notin Int
  /\ \A v \in Looks :
       /\ v.dollars \in Int /\ v.ml \in Int \cup {NoScore}
       /\ \A f \in BaseFactors : v[f] \in Int
  /\ Watched \in Seq(Range(Watched)) /\ Len(Watched) \in Nat

VARIABLES
  round,     \* the cycle under way
  next,      \* place in the watchlist of the symbol to observe next
  factors,   \* _cycle_factors: what was collected, <<symbol, look>> each
  ranking    \* the newest row of the rankings table

rankingVars == <<round, next, factors, ranking>>

-----------------------------------------------------------------------------
(* The stocks that clear the liquidity gate, by their place.               *)
Cleared(looks) == {k \in DOMAIN looks : looks[k].dollars >= MinDollars}
Gated(looks) == [k \in Cleared(looks) |-> looks[k]]
Size(values) == Cardinality(DOMAIN values)

(* The model's score counts only when every stock has one; the variant     *)
(* takes it when any has.                                                  *)
InPlayIfAny(kept) ==
  BaseFactors \cup (IF \E k \in DOMAIN kept : kept[k].ml # NoScore THEN {"ml"} ELSE {})
InPlay(kept) ==
  BaseFactors \cup (IF \A k \in DOMAIN kept : kept[k].ml # NoScore THEN {"ml"} ELSE {})

Raw(look, f) == IF look[f] = NoScore THEN 0 ELSE 10 * look[f]
RootOf(n) == CHOOSE r \in 0..n : r * r <= n /\ n < (r + 1) * (r + 1)

(* numpy's linear quantile, between neighbours in the order of the values. *)
Smallest(values, k) ==
  Min({v \in Range(values) : Cardinality({i \in DOMAIN values : values[i] <= v}) >= k})
QuantileOf(values, pct) ==
  LET at == pct * (Size(values) - 1)
      low == 1 + at \div 100
      below == Smallest(values, low)
      above == Smallest(values, Min({low + 1, Size(values)}))
  IN  below + ((above - below) * (at % 100)) \div 100

Winsorized(values) ==
  LET lo == QuantileOf(values, WinsorizePct)
      hi == QuantileOf(values, 100 - WinsorizePct)
  IN  IF WinsorizePct = 0 \/ Size(values) < 3 THEN values
      ELSE [k \in DOMAIN values |-> Max({lo, Min({hi, values[k]})})]

(* How far a value is from the mean, times their number.                   *)
OffMean(values) ==
  [k \in DOMAIN values |-> Size(values) * values[k] - SumFunction(values)]
ZScored(values) ==
  LET off == OffMean(values)
      deviation == RootOf(SumFunction([k \in DOMAIN values |-> off[k] * off[k]]) \div Size(values))
  IN  [k \in DOMAIN values |-> IF deviation = 0 THEN 0 ELSE (1000 * off[k]) \div deviation]

ValuesOf(kept, f) == [k \in DOMAIN kept |-> Raw(kept[k], f)]
Composite(kept, k) ==
  SumFunction([f \in InPlay(kept) |->
                 FactorWeights[f] * ZScored(Winsorized(ValuesOf(kept, f)))[k]])

(* argsort, from the highest down; of equals the later comes first.        *)
Outranks(blend, j, k) == blend[j] > blend[k] \/ (blend[j] = blend[k] /\ j > k)
PlaceOf(blend, position) ==
  CHOOSE k \in DOMAIN blend :
    Cardinality({j \in DOMAIN blend : Outranks(blend, j, k)}) = position - 1
Ordered(kept) ==
  LET blend == [k \in DOMAIN kept |-> Composite(kept, k)]
      stock(k) == [place |-> k, look |-> kept[k], composite |-> blend[k]]
  IN  [position \in 1..Size(kept) |-> stock(PlaceOf(blend, position))]

(* Python's round, of a percentage: a half goes to the even neighbour.     *)
Rounded(hundredths) ==
  LET whole == hundredths \div 100
      rest == hundredths % 100
  IN  IF rest > 50 \/ (rest = 50 /\ whole % 2 = 1) THEN whole + 1 ELSE whole

LongCount(n) == Max({1, Rounded(n * LongPct)})
ShortCount(n) == Min({Rounded(n * ShortPct), Max({0, n - LongCount(n)})})

Baskets(n) ==
  [position \in 1..n |->
     CASE position <= LongCount(n) -> "LONG"
       [] position > n - ShortCount(n) /\ position > LongCount(n) -> "SHORT"
       [] OTHER -> "NEUTRAL"]

(* rank_universe, of looks in the order in which they were collected; no   *)
(* stock that clears the gate is a ValueError.                             *)
RankUniverse(looks) ==
  LET kept == Gated(looks)
  IN  IF Cleared(looks) = {} THEN NoRanking
      ELSE [stocks |-> Ordered(kept), baskets |-> Baskets(Size(kept)),
            excluded |-> Len(looks) - Size(kept)]

(* The graph of rank_universe, computed once.                              *)
Universes == UNION {[1..n -> Looks] : n \in MinRanked..Len(Watched)}
Rankings == {<<looks, RankUniverse(looks)>> : looks \in Universes}
RankingOf(looks) == (CHOOSE r \in Rankings : r[1] = looks)[2]

-----------------------------------------------------------------------------
RankingInit ==
  round = 1 /\ next = 1 /\ factors = <<>> /\ ranking = NoRanking

(* compute_factors of the next symbol, in _observe_symbol.                 *)
CollectFactors(look) ==
  /\ next <= Len(Watched)
  /\ next' = next + 1
  /\ factors' = Append(factors, <<Watched[next], look>>)
  /\ UNCHANGED <<round, ranking>>

(* The symbol's data is missing, observing it fails, or its history is too *)
(* short for compute_factors.                                              *)
SkipSymbol ==
  /\ next <= Len(Watched)
  /\ next' = next + 1
  /\ UNCHANGED <<round, factors, ranking>>

(* _rank_cross_section, and the start of the next cycle.                   *)
RankCrossSection ==
  /\ next = Len(Watched) + 1 /\ round <= LastRanked
  /\ ranking' =
       LET ranked == RankingOf([k \in DOMAIN factors |-> factors[k][2]])
       IN  IF Len(factors) < MinRanked \/ ranked = NoRanking THEN ranking
           ELSE [round |-> round, total |-> Len(factors), of |-> ranked,
                 names |-> [p \in DOMAIN ranked.stocks |-> factors[ranked.stocks[p].place][1]]]
  /\ round' = round + 1 /\ next' = 1 /\ factors' = <<>>

RankingNext ==
  \/ \E v \in Looks : CollectFactors(v)
  \/ SkipSymbol
  \/ RankCrossSection

RankingSpec == RankingInit /\ [][RankingNext]_rankingVars

-----------------------------------------------------------------------------
(* A row ranks each stock once, and together with what the gate excluded   *)
(* they are what one cycle collected.                                      *)
RanksOneCycle ==
  ranking # NoRanking =>
    /\ Cardinality({ranking.names[p] : p \in DOMAIN ranking.names}) = Len(ranking.names)
    /\ Len(ranking.names) + ranking.of.excluded = ranking.total
    /\ ranking.total <= Len(Watched) /\ ranking.round < round

(* The long basket is the top, is never empty and never overlaps the short *)
(* one, which is the bottom.                                               *)
BasketsAreEnds ==
  ranking # NoRanking =>
    LET at(b) == {p \in DOMAIN ranking.names : ranking.of.baskets[p] = b}
    IN  /\ 1 \in at("LONG")
        /\ \A p \in at("LONG"), q \in at("NEUTRAL") \cup at("SHORT") : p < q
        /\ \A p \in at("NEUTRAL"), q \in at("SHORT") : p < q
        /\ Cardinality(at("SHORT")) <= ShortCount(Len(ranking.names))

(* A stock at least as good as another in every factor both have is not    *)
(* ranked below it: neither clipping, nor scaling, nor a missing score of  *)
(* the model turns them round.                                             *)
Dominates(a, b) ==
  /\ \A f \in BaseFactors : a[f] >= b[f]
  /\ \E f \in BaseFactors : a[f] > b[f] /\ FactorWeights[f] > 0
  /\ a.ml # NoScore /\ b.ml # NoScore => a.ml >= b.ml
BetterIsNotBelow ==
  ranking # NoRanking =>
    \A p, q \in DOMAIN ranking.of.stocks :
      LET a == ranking.of.stocks[p]
          b == ranking.of.stocks[q]
      IN  Dominates(a.look, b.look) => a.composite >= b.composite /\ (p < q \/ a.composite = b.composite)

(* The stored ranking of the universe is one of its last cycle's stocks,   *)
(* and fair to each.                                                       *)
RankingIsFair == RanksOneCycle /\ BasketsAreEnds /\ BetterIsNotBelow
=============================================================================
