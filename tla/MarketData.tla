------------------------------ MODULE MarketData ------------------------------
(***************************************************************************)
(* A consensus price: every source is asked in turn, while the market goes *)
(* on moving; a source that fails is recorded as down; outliers among the  *)
(* others are rejected by their distance from the median in median         *)
(* absolute deviations, and the rest are averaged.                         *)
(*                                                                         *)
(* Prices are whole.  A median of an even number is a mean of two, so      *)
(* medians are doubled, and the deviations from them again.                *)
(***************************************************************************)
EXTENDS Integers, Sequences, FiniteSetsExt, SequencesExt

CONSTANTS
  Sources,        \* the names of the clients, in order
  Retrying,       \* those that repeat a failed request
  MaxRetries,     \* exchanges.max_retries
  ZThreshold,     \* consensus.outlier_z_threshold
  MinSources,     \* consensus.min_sources
  MaxDispersion,  \* consensus.max_dispersion, in percent
  OpeningPrice,   \* where the market begins
  MarketSteps,    \* how it moves
  BadPrints,      \* prices a broken source may print
  LastMove,       \* bound: moves during a reading
  NoReading

ASSUME MarketDataAssumption ==
  /\ Sources \in Seq(Range(Sources)) /\ Retrying \subseteq Range(Sources)
  /\ MaxRetries \in Nat /\ ZThreshold \in Nat /\ MinSources \in Nat \ {0}
  /\ MaxDispersion \in Nat /\ OpeningPrice \in Nat \ {0} /\ LastMove \in Nat
  /\ MarketSteps \subseteq Int /\ BadPrints \subseteq Nat

VARIABLES
  market,   \* the true prices since the reading began
  tries,    \* requests to the source whose turn it is
  ticks,    \* the answers so far
  reading   \* the last ConsensusPrice

marketVars == <<market, tries, ticks, reading>>

-----------------------------------------------------------------------------
(* The k-th smallest value of a function, and twice its median.            *)
Ranked(f, k) ==
  CHOOSE v \in Range(f) :
    /\ Cardinality({i \in DOMAIN f : f[i] < v}) < k
    /\ k <= Cardinality({i \in DOMAIN f : f[i] <= v})
DoubledMedian(f) ==
  LET n == Cardinality(DOMAIN f)
  IN  Ranked(f, (n + 1) \div 2) + Ranked(f, n \div 2 + 1)
Apart(a, b) == IF a >= b THEN a - b ELSE b - a

(* _mad_outlier_mask: 1.4826 |p - median| / mad <= z, or, when most are    *)
(* equal, equality.  Nothing is rejected of two.  The variant measures by  *)
(* the mean deviation, which a bad print inflates.                         *)
InliersByMean(prices) ==
  LET n == Cardinality(DOMAIN prices)
      dev == [i \in DOMAIN prices |-> Apart(n * prices[i], SumFunction(prices))]
  IN  {i \in DOMAIN prices : n * dev[i] <= ZThreshold * SumFunction(dev)}
Inliers(prices) ==
  LET n == Cardinality(DOMAIN prices)
      dev == [i \in DOMAIN prices |-> Apart(2 * prices[i], DoubledMedian(prices))]
      mad == DoubledMedian(dev)
  IN  CASE n <= 2 -> DOMAIN prices
        [] n > 2 /\ mad = 0 -> {i \in DOMAIN prices : dev[i] = 0}
        [] n > 2 /\ mad > 0 ->
             {i \in DOMAIN prices : 29652 * dev[i] <= 10000 * ZThreshold * mad}

(* compute_consensus; the mean is kept as a sum and a count.               *)
Consensus(answers) ==
  LET healthy == {i \in DOMAIN answers : ~answers[i].down}
      prices == [i \in healthy |-> answers[i].price]
      kept == IF Inliers(prices) = {} THEN healthy ELSE Inliers(prices)
      accepted == [i \in kept |-> prices[i]]
      spread == Max(Range(accepted)) - Min(Range(accepted))
  IN  IF healthy = {} THEN NoReading
      ELSE [sum |-> SumFunction(accepted), count |-> Cardinality(kept),
            degraded |-> \/ Cardinality(kept) < MinSources
                         \/ 200 * spread > MaxDispersion * DoubledMedian(accepted)
                         \/ healthy # DOMAIN answers,
            healthy |-> Cardinality(healthy),
            bad |-> Cardinality({i \in healthy : ~answers[i].true}),
            lo |-> Min(Range(market)), hi |-> Max(Range(market))]

-----------------------------------------------------------------------------
MarketDataInit ==
  /\ market = <<OpeningPrice>>
  /\ tries = 0
  /\ ticks = <<>>
  /\ reading = NoReading

MarketTicks ==
  /\ Len(market) <= LastMove
  /\ \E step \in MarketSteps :
       /\ market[Len(market)] + step > 0
       /\ market' = Append(market, market[Len(market)] + step)
  /\ UNCHANGED <<tries, ticks, reading>>

Asked == Sources[Len(ticks) + 1]
Answered(a) == ticks' = Append(ticks, a) /\ tries' = 0

(* get_ticker answers, with the market's price or with a bad print.        *)
SourceAnswers ==
  /\ Len(ticks) < Len(Sources)
  /\ \/ Answered([price |-> market[Len(market)], down |-> FALSE, true |-> TRUE])
     \/ \E p \in BadPrints : Answered([price |-> p, down |-> FALSE, true |-> FALSE])
  /\ UNCHANGED <<market, reading>>

(* A transport error is retried, max(1, max_retries) requests in all, by   *)
(* the clients that do.                                                    *)
SourceRetries ==
  /\ Len(ticks) < Len(Sources)
  /\ Asked \in Retrying /\ tries + 1 < Max({1, MaxRetries})
  /\ tries' = tries + 1
  /\ UNCHANGED <<market, ticks, reading>>

(* Otherwise, as for any other error, the source is down: a placeholder    *)
(* price of one.                                                           *)
DownTick == [price |-> 1, down |-> TRUE, true |-> FALSE]
SourceFails ==
  /\ Len(ticks) < Len(Sources)
  /\ Answered(DownTick)
  /\ UNCHANGED <<market, reading>>

(* All were asked: the reading, or an exception when all were down.  The   *)
(* next begins where the market is now.                                    *)
FinishReading ==
  /\ Len(ticks) = Len(Sources)
  /\ reading' = Consensus(ticks)
  /\ ticks' = <<>> /\ tries' = 0
  /\ market' = <<OpeningPrice>>

MarketDataNext ==
  MarketTicks \/ SourceAnswers \/ SourceRetries \/ SourceFails \/ FinishReading

MarketDataSpec == MarketDataInit /\ [][MarketDataNext]_marketVars

-----------------------------------------------------------------------------
(* With honest sources the consensus is a price the market had while it    *)
(* was read, whichever sources were down or slow.                          *)
HonestConsensus ==
  reading # NoReading /\ reading.bad = 0 =>
    /\ reading.lo * reading.count <= reading.sum
    /\ reading.sum <= reading.hi * reading.count

(* The docstring's promise, and its extent: a single bad print among three *)
(* or more moves the consensus out of the market's range by no more than   *)
(* the width of that range ...                                             *)
BadPrintIsRejected ==
  reading # NoReading /\ reading.bad = 1 /\ reading.healthy >= 3 =>
    LET width == reading.hi - reading.lo
    IN  /\ (reading.lo - width) * reading.count <= reading.sum
        /\ reading.sum <= (reading.hi + width) * reading.count

(* ... and of two, which are both believed, it either degrades the reading *)
(* or is within the dispersion allowed.                                    *)
BadPrintIsFlagged ==
  reading # NoReading /\ reading.bad = 1 /\ reading.healthy = 2 /\ ~reading.degraded =>
    /\ 100 * reading.sum <= reading.count * reading.hi * (100 + MaxDispersion)
    /\ 100 * reading.sum >= reading.count * reading.lo * (100 - MaxDispersion)

ConsensusIsRobust == HonestConsensus /\ BadPrintIsRejected /\ BadPrintIsFlagged
=============================================================================
