------------------------------- MODULE Outcomes -------------------------------
(***************************************************************************)
(* What a prediction is scored against: the bars the live feed has in its  *)
(* cache while the prediction is evaluated, converted with the exchange    *)
(* rate of the download that put them there.  An evaluation asks the feed  *)
(* for many prices, one by one, and each question may replace the cache.   *)
(*                                                                         *)
(* One symbol and one prediction.  A minute without trading (the market is *)
(* closed, or nobody traded) has no bar.  Market prices are in dollars, a  *)
(* rate multiplies them; what the code sees is the product.                *)
(***************************************************************************)
EXTENDS Integers, Sequences, FiniteSetsExt

CONSTANTS
  Horizons,    \* HORIZONS: minutes ahead
  CacheCap,    \* _MAX_CACHED_BARS_PER_SYMBOL
  Rates,       \* what _fetch_eur_per_usd may return, 1.0 after a failure among them
  FirstPrice,  \* where the market begins
  Moves,       \* how far a bar's close may be from the one before
  StopGap,     \* distance of the stop from the entry
  TargetGap,   \* distance of the target from the entry
  LastMinute,  \* bound: the last minute modelled
  NoCache,     \* the symbol has not been downloaded
  NotYet       \* no prediction, no outcome

ASSUME OutcomesAssumption ==
  /\ Horizons \subseteq Nat \ {0}
  /\ \E longest \in Horizons : \A h \in Horizons : h <= longest
  /\ Rates # {} /\ Rates \subseteq Nat \ {0}
  /\ CacheCap \in Nat \ {0}
  /\ FirstPrice \in Int /\ Moves \subseteq Int
  /\ StopGap \in Nat \ {0} /\ TargetGap \in Nat \ {0}
  /\ LastMinute \in Nat

VARIABLES
  minute,      \* the clock
  tape,        \* the market's bars so far: when each closed, and where
  cache,       \* which of them the feed holds, and the rate they were taken at
  prediction,  \* the row of predictions
  scoring,     \* the evaluation under way: its answers, and the caches they came from
  outcome      \* the row of prediction_outcomes

outcomesVars == <<minute, tape, cache, prediction, scoring, outcome>>

-----------------------------------------------------------------------------
Longest == Max(Horizons)

(* The close of the last bar in the cache c that is not after t; a time    *)
(* before the first cached bar is answered with that bar.                  *)
BarAt(c, t) == Max({c.first} \cup {b \in c.first..c.last : tape[b].at <= t})
PriceAt(c, t) == c.rate * tape[BarAt(c, t)].close

Side(direction) == IF direction = "buy" THEN 1 ELSE -1

AtStop(p, px) == Side(p.direction) * (px - p.stop) <= 0
AtTarget(p, px) == Side(p.direction) * (px - p.target) >= 0

(* The walk goes on to the last horizon; the variant stops short of it.    *)
WalksShort == Longest - 1
WalksFor == Longest

NotScoring == [state |-> "none", prices |-> <<>>, reached |-> 0, seen |-> {}]
Evaluated == [NotScoring EXCEPT !.state = "over"]
Priced == DOMAIN scoring.prices = Horizons

(* What is booked of a touch, or of the last price.                        *)
Booked(p, prices, how, caches) ==
  LET exit == CASE how = "none" -> prices[Longest] [] how = "stop" -> p.stop [] how = "target" -> p.target
      hold == p.direction = "hold"
  IN  [prices  |-> prices,
       touch   |-> how,
       pnl     |-> IF hold THEN 0 ELSE Side(p.direction) * (exit - p.entry),
       correct |-> IF hold THEN NotYet
                   ELSE IF Side(p.direction) * (prices[Longest] - p.entry) > 0 THEN 1 ELSE 0,
       seen    |-> caches]

-----------------------------------------------------------------------------
OutcomesInit ==
  /\ minute = 0
  /\ tape = << [at |-> 0, close |-> FirstPrice] >>
  /\ cache = NoCache
  /\ prediction = NotYet
  /\ scoring = NotScoring
  /\ outcome = NotYet

(* A minute passes, with a bar or without one.                             *)
MarketMoves ==
  /\ minute < LastMinute
  /\ minute' = minute + 1
  /\ \/ tape' = tape
     \/ \E move \in Moves :
          tape' = Append(tape, [at |-> minute + 1, close |-> tape[Len(tape)].close + move])
  /\ UNCHANGED <<cache, prediction, scoring, outcome>>

(* A refresh keeps the newest CacheCap bars; one that returns nothing      *)
(* leaves everything as it was.                                            *)
CachedFrom(cap) == Max({1, Len(tape) - cap + 1})
RefreshCache ==
  /\ \E rate \in Rates :
       cache' = [first |-> CachedFrom(CacheCap), last |-> Len(tape), rate |-> rate]
  /\ UNCHANGED <<minute, tape, prediction, scoring, outcome>>

(* A refresh that comes back without this symbol.                          *)
DropCache ==
  /\ cache # NoCache
  /\ cache' = NoCache
  /\ UNCHANGED <<minute, tape, prediction, scoring, outcome>>

(* _fetch_one, for a symbol asked for that is not cached: no cap.          *)
FetchOneSymbol ==
  /\ cache = NoCache
  /\ \E rate \in Rates : cache' = [first |-> 1, last |-> Len(tape), rate |-> rate]
  /\ UNCHANGED <<minute, tape, prediction, scoring, outcome>>

(* The process ends; the next one evaluates from the beginning whatever    *)
(* was not marked.                                                         *)
EndProcess ==
  /\ cache # NoCache \/ scoring.state = "open"
  /\ cache' = NoCache
  /\ scoring' = IF scoring.state = "open" THEN NotScoring ELSE scoring
  /\ UNCHANGED <<minute, tape, prediction, outcome>>

(* A directional prediction enters at the last price, a hold has no levels.*)
Predict(direction) ==
  LET entry == PriceAt(cache, minute)
  IN  /\ prediction = NotYet
      /\ cache # NoCache
      /\ prediction' = [at |-> minute, direction |-> direction, entry |-> entry,
                        stop |-> entry - Side(direction) * StopGap,
                        target |-> entry + Side(direction) * TargetGap,
                        seen |-> cache]
      /\ UNCHANGED <<minute, tape, cache, scoring, outcome>>

(* Only once the longest horizon is over.                                  *)
FullyMatured(p) == minute >= p.at + Longest

BeginScoring ==
  /\ prediction # NotYet /\ scoring.state = "none"
  /\ FullyMatured(prediction)
  /\ scoring' = [NotScoring EXCEPT !.state = "open"]
  /\ UNCHANGED <<minute, tape, cache, prediction, outcome>>

Book(prices, how) ==
  /\ outcome' = Booked(prediction, prices, how, scoring.seen \cup {cache})
  /\ scoring' = Evaluated

LookingUp ==
  /\ scoring.state = "open" /\ cache # NoCache
  /\ UNCHANGED <<minute, tape, cache, prediction>>

(* First the price at each horizon, the nearest first.  A prediction to    *)
(* hold is done with them.                                                 *)
PriceHorizon ==
  /\ ~Priced
  /\ LookingUp
  /\ LET next == Min(Horizons \ DOMAIN scoring.prices)
         prices == [h \in DOMAIN scoring.prices \cup {next} |->
                      IF h = next THEN PriceAt(cache, prediction.at + next) ELSE scoring.prices[h]]
     IN  IF DOMAIN prices = Horizons /\ prediction.direction = "hold"
         THEN Book(prices, "none")
         ELSE /\ scoring' = [scoring EXCEPT !.prices = prices, !.seen = @ \cup {cache}]
              /\ UNCHANGED outcome

(* Then the walk: the first minute that reaches a level decides, the stop  *)
(* asked first.                                                            *)
WalkMinute ==
  /\ Priced
  /\ LookingUp
  /\ LET p == prediction
         px == PriceAt(cache, p.at + scoring.reached + 1)
     IN  \/ AtStop(p, px) /\ Book(scoring.prices, "stop")
         \/ ~AtStop(p, px) /\ AtTarget(p, px) /\ Book(scoring.prices, "target")
         \/ /\ ~AtStop(p, px) /\ ~AtTarget(p, px)
            /\ scoring.reached + 1 = WalksFor
            /\ Book(scoring.prices, "none")
         \/ /\ ~AtStop(p, px) /\ ~AtTarget(p, px)
            /\ scoring.reached + 1 # WalksFor
            /\ scoring' = [scoring EXCEPT !.reached = @ + 1, !.seen = @ \cup {cache}]
            /\ UNCHANGED outcome

(* A symbol the feed cannot price any more: the prediction is marked and   *)
(* has no outcome.                                                         *)
ScoreGivenUp ==
  /\ scoring.state = "open" /\ cache = NoCache
  /\ scoring' = Evaluated
  /\ UNCHANGED <<minute, tape, cache, prediction, outcome>>

OutcomesNext ==
  \/ MarketMoves \/ RefreshCache \/ DropCache \/ FetchOneSymbol \/ EndProcess
  \/ \E direction \in {"buy", "sell", "hold"} : Predict(direction)
  \/ BeginScoring \/ PriceHorizon \/ WalkMinute \/ ScoreGivenUp

OutcomesSpec == OutcomesInit /\ [][OutcomesNext]_outcomesVars

-----------------------------------------------------------------------------
Scored == prediction # NotYet /\ outcome # NotYet /\ prediction.direction # "hold"

(* A cache is a stretch of the tape, and an evaluation walks to its end.   *)
OutcomesTypeOK ==
  /\ minute \in 0..LastMinute
  /\ cache # NoCache =>
       cache.rate \in Rates /\ cache.first \in 1..cache.last /\ cache.last \in DOMAIN tape
  /\ prediction # NotYet => prediction.at \in 0..minute
  /\ scoring.state \in {"none", "open", "over"} /\ scoring.reached \in 0..(Longest - 1)
  /\ DOMAIN scoring.prices \subseteq Horizons
  /\ outcome # NotYet =>
       outcome.touch \in {"none", "stop", "target"} /\ outcome.correct \in {0, 1, NotYet}

(* What the market did to the prediction: the bars of its window, and, of  *)
(* those that reach a level, the first.                                    *)
Window(p) == {b \in DOMAIN tape : p.at < tape[b].at /\ tape[b].at <= p.at + Longest}
MarketTouch(p) ==
  LET px(b) == p.seen.rate * tape[b].close
      stops == {b \in Window(p) : AtStop(p, px(b))}
      targets == {b \in Window(p) : AtTarget(p, px(b))}
  IN  CASE stops = {} /\ targets = {} -> "none"
        [] stops # {} /\ \A b \in targets : Min(stops) < b -> "stop"
        [] targets # {} /\ \A b \in stops : Min(targets) < b -> "target"

(* What a cache has of a prediction: it reaches from the bar the entry was *)
(* read from to the end of the window, at the rate of the entry.           *)
Covers(c, p) ==
  /\ c.rate = p.seen.rate /\ c.first <= p.seen.last
  /\ \A b \in Window(p) : b <= c.last

(* The verdict is the market's if every cache it was made of covers the    *)
(* prediction, even if the evaluation went from one to another.  A false   *)
(* touch needs a lost bar or a rate that changed under the prediction.     *)
VerdictIsMarkets ==
  Scored /\ (\A c \in outcome.seen : Covers(c, prediction))
         /\ (\A b \in DOMAIN tape : b > prediction.seen.last => tape[b].at > prediction.at)
    => /\ outcome.touch = MarketTouch(prediction)
       /\ \A h \in Horizons :
            \E b \in DOMAIN tape :
              /\ tape[b].at <= prediction.at + h
              /\ \A c \in DOMAIN tape : c > b => tape[c].at > prediction.at + h
              /\ outcome.prices[h] = prediction.seen.rate * tape[b].close

(* However late the evaluation comes, however short the caches are by then *)
(* and however often they are replaced in its course, no prediction is     *)
(* scored on a bar older than the one it was made on.                      *)
ScoredOnLaterBars ==
  Scored => \A h \in Horizons :
    \E c \in outcome.seen, b \in DOMAIN tape :
      b >= prediction.seen.last /\ outcome.prices[h] = c.rate * tape[b].close

(* A stop always loses its distance and a target always wins its own; an   *)
(* outcome without a touch is right exactly if it won.  That it lies       *)
(* between the levels takes an evaluation from one cache: a refresh in its *)
(* course can put the last price beyond a level the walk never saw.        *)
TouchIsBooked ==
  Scored => /\ outcome.touch = "stop" => outcome.pnl = -StopGap
            /\ outcome.touch = "target" => outcome.pnl = TargetGap
            /\ outcome.touch = "none" =>
                 /\ (outcome.correct = 1) = (outcome.pnl > 0)
                 /\ (\A c, d \in outcome.seen : c = d) =>
                      -StopGap < outcome.pnl /\ outcome.pnl < TargetGap

(* An outcome is what the market did, as far as the feed can know it.      *)
OutcomeIsMarkets ==
  OutcomesTypeOK /\ VerdictIsMarkets /\ ScoredOnLaterBars /\ TouchIsBooked
=============================================================================
