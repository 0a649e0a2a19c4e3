------------------------------ MODULE Monitoring ------------------------------
(***************************************************************************)
(* What the observer tells about itself: the market-wide row of each       *)
(* cycle, the alerts, the readiness of the strategy, and, when the date    *)
(* changes, the metrics and the report of the day that is over.            *)
(*                                                                         *)
(* One tick is one interval; at most one cycle runs in it.  The learning   *)
(* window begins at tick 0.  Scores are in tenths, rates in percent.       *)
(***************************************************************************)
EXTENDS SafetyScore

CONSTANTS
  Markets,          \* what the symbols may look like: sequences of rows
  Evidence,         \* what the strategy may have shown so far
  DayTicks,         \* ticks of a day
  WindowDays,       \* target_days
  Cooldown,         \* _COOLDOWN_SECONDS, in ticks
  PerCycle,         \* predictions recorded in a cycle
  RowLimit,         \* the limit of the queries of roll_up_day
  MaxDrawdown,      \* risk.max_daily_loss_pct
  LastTick,         \* bound: the last tick modelled
  MaxErrors,        \* bound: rows of the errors table
  MaxRestarts       \* bound: restarts of the observer

ASSUME MonitoringAssumption ==
  /\ {DayTicks, WindowDays} \subseteq Nat \ {0}
  /\ {Cooldown, PerCycle, RowLimit, LastTick, MaxErrors, MaxRestarts} \subseteq Nat
  /\ None \notin Nat
  /\ \A market \in Markets :
       /\ market \in Seq([score : 0..One, condition : Range(Severity)])
       /\ Len(market) \in Nat
  /\ \A e \in Evidence :
       {e.evaluated, e.drawdown, e.accuracy, e.fake, e.regimes, e.spread, e.failures} \subseteq Nat

VARIABLES
  tick,      \* the clock
  life,      \* how often the observer was restarted
  counter,   \* _cycle
  predicted, \* predictions: the ticks in which a cycle recorded some
  safety,    \* safety_scores: the row of each tick in which a cycle got to it
  errors,    \* the ticks of the errors rows
  emitted,   \* AlertManager._last_emitted: of each kind
  told,      \* history: the alerts delivered
  wanted,    \* history: the kinds of alert the last cycle called for, and when
  lastDate,   \* _last_day
  metric,    \* the last row of daily_metrics, with the day's report
  verdict    \* the last row of readiness_scores

monitoringVars == <<tick, life, counter, predicted, safety, errors, emitted, told, wanted,
                    lastDate, metric, verdict>>

-----------------------------------------------------------------------------
DayOf(t) == t \div DayTicks
CyclesOn(day) == {t \in DOMAIN safety : DayOf(t) = day}
PredictedOn(day) == {t \in predicted : DayOf(t) = day}

(* The market-wide row.                                                    *)
GlobalRow(market) ==
  LET score == AggregateScore([i \in DOMAIN market |-> market[i].score])
  IN  [score |-> score, status |-> StatusForScore(score),
       condition |-> AggregateCondition({market[i].condition : i \in DOMAIN market})]

Kinds == {"panic", "illiquid", "drawdown", "accuracy", "crash"}

(* build_condition_alerts: the kinds.  The alerts of a cycle have one      *)
(* time, so neither their order nor a second one of a kind matters.        *)
AlertsOf(market, e) ==
  {k \in Kinds :
     \/ k = "panic" /\ GlobalRow(market).condition = "PANIC"
     \/ k = "illiquid" /\ \E i \in DOMAIN market : market[i].condition = "ILLIQUID"
     \/ k = "drawdown" /\ e.drawdown > MaxDrawdown
     \/ k = "accuracy" /\ e.recent # None /\ e.recent < 40}

(* emit: nothing within the cooldown of a kind, measured from the last one *)
(* delivered.  The variant waits for a quiet cooldown.                     *)
Cooling(last, t) == last # None /\ t - last < Cooldown
Delivered(kinds) == {k \in kinds : ~Cooling(emitted[k], tick)}

RememberAlways(kinds) == kinds
Remembered(kinds) == Delivered(kinds)

-----------------------------------------------------------------------------
(* The readiness score.                                                    *)
AccuracyPoints(e) == Points(Quot((e.accuracy - 50) * One, 15))

RawReadiness(e, uptime) ==
  ( 20 * Points((10 * e.evaluated) \div 6)
  + 12 * Points(10 * uptime)
  + 15 * Points(One - 50 * (e.drawdown - 5))
  + 22 * AccuracyPoints(e)
  + 13 * Points(One - 250 * e.fake)
  + 13 * Points(200 * Min({5, e.regimes}) - 12 * e.spread)
  + 5 * Points(One - 80 * e.failures)) \div 100

PreCompletionCap == 600
Readiness(e, uptime, day) ==
  Points(IF day >= WindowDays THEN RawReadiness(e, uptime)
         ELSE Min({RawReadiness(e, uptime), PreCompletionCap}))

(* 1-based, and clamped; the variant counts from the end.                  *)
DayNumberFromNext(t) == Max({1, Min({WindowDays, DayOf(t) + 2})})
DayNumberAt(t) == Max({1, Min({WindowDays, DayOf(t) + 1})})

(* uptime_pct: of the cycles the wall clock had room for, those counted.   *)
(* What is counted is _cycle, the cycles this process has begun.           *)
CyclesCompleted == counter + 1
Uptime == Min({100, (100 * CyclesCompleted) \div Max({1, tick})})

-----------------------------------------------------------------------------
(* roll_up_day reads the newest rows and keeps those of the day.  It runs  *)
(* in a cycle of a later day, whose rows are there already.  The variant   *)
(* takes the oldest rows.                                                  *)
RowsAfter(day) == PerCycle * Cardinality({t \in predicted \cup {tick} : DayOf(t) > day})
RowsBefore(day) == PerCycle * Cardinality({t \in predicted : DayOf(t) < day})
RowsOn(day) == PerCycle * Cardinality(PredictedOn(day))
OldestRowsOf(day) == Within(RowLimit - RowsBefore(day), 0, RowsOn(day))
NewestRowsOf(day) == Within(RowLimit - RowsAfter(day), 0, RowsOn(day))

DayStatus(day) ==
  LET uptime == Min({100, (100 * Cardinality(CyclesOn(day))) \div DayTicks})
  IN  IF (\E t \in errors : DayOf(t) = day) \/ uptime < 50 THEN "red"
      ELSE IF uptime < 85 THEN "yellow"
      ELSE "green"

(* The daily report's recommendation, from the mean score of the day.      *)
Mean(S) ==
  IF S = {} THEN 500
  ELSE SumFunction([t \in S |-> safety[t].score]) \div Cardinality(S)
MeanOfDay(day) == Mean(CyclesOn(day))

Recommendation(score) ==
  CASE score >= 610 -> "acceptable"
    [] 410 <= score /\ score < 610 -> "mixed"
    [] 210 <= score /\ score < 410 -> "unfavourable"
    [] score < 210 -> "hazardous"

(* _day_rollover, and when it ran.                                         *)
RolledUp(day) ==
  [day |-> day, at |-> tick, cycles |-> Cardinality(CyclesOn(day)), predictions |-> NewestRowsOf(day),
   status |-> DayStatus(day), advice |-> Recommendation(MeanOfDay(day))]

-----------------------------------------------------------------------------
NothingSent == [k \in Kinds |-> None]

MonitoringInit ==
  /\ tick = 0 /\ life = 0 /\ counter = 0
  /\ predicted = {}
  /\ safety = <<>>
  /\ errors = {}
  /\ emitted = NothingSent
  /\ told = {}
  /\ wanted = [kinds |-> {}, at |-> 0]
  /\ lastDate = None /\ metric = None /\ verdict = None

(* The rows of the symbols, and then the market-wide one.                  *)
Observed(market) ==
  /\ predicted' = predicted \cup {tick}
  /\ safety' = [t \in DOMAIN safety \cup {tick} |->
                  IF t = tick THEN GlobalRow(market) ELSE safety[t]]

Tell(kinds) ==
  /\ emitted' = [k \in Kinds |-> IF k \in Remembered(kinds) THEN tick ELSE emitted[k]]
  /\ told' = told \cup {[kind |-> k, at |-> tick, life |-> life] : k \in Delivered(kinds)}
  /\ wanted' = [kinds |-> kinds, at |-> tick]

Judge(e) ==
  verdict' = [score |-> Readiness(e, Uptime, DayNumberAt(tick)),
              uptime |-> Uptime, at |-> tick, evidence |-> e]

(* The roll-over at the end of _learning_cycle.                            *)
DayOver == lastDate # None /\ lastDate # DayOf(tick)
DayRolls ==
  /\ metric' = IF DayOver THEN RolledUp(lastDate) ELSE metric
  /\ lastDate' = DayOf(tick)

(* run_once counts the cycle before anything else.                         *)
CycleCounts ==
  /\ tick < LastTick
  /\ tick' = tick + 1
  /\ counter' = counter + 1
  /\ UNCHANGED life

ErrorRow ==
  /\ errors' = errors \cup {tick}
  /\ Cardinality(errors') <= MaxErrors

(* A cycle of a learning session.  A symbol, or the roll-over, may fail in *)
(* it and leave an error.                                                  *)
MonitorCycle ==
  /\ CycleCounts
  /\ \E market \in Markets, e \in Evidence :
       /\ Observed(market)
       /\ Tell(AlertsOf(market, e))
       /\ Judge(e)
  /\ \/ DayRolls /\ (UNCHANGED errors \/ ErrorRow)
     \/ DayOver /\ lastDate' = DayOf(tick) /\ UNCHANGED metric /\ ErrorRow

(* A cycle that raises: before its market-wide row, with its predictions   *)
(* recorded or not; among its alerts; with its readiness recorded; or      *)
(* after all of it.  The loop records an error and tells of the crash.     *)
MonitorFails ==
  /\ CycleCounts
  /\ ErrorRow
  /\ \/ /\ predicted' \in {predicted, predicted \cup {tick}}
        /\ Tell({"crash"})
        /\ UNCHANGED <<safety, verdict, lastDate, metric>>
     \/ \E market \in Markets, e \in Evidence :
          /\ Observed(market)
          /\ \/ /\ \E some \in SUBSET AlertsOf(market, e) : Tell(some \cup {"crash"})
                /\ UNCHANGED <<verdict, lastDate, metric>>
             \/ /\ Tell(AlertsOf(market, e) \cup {"crash"})
                /\ Judge(e)
                /\ UNCHANGED <<lastDate, metric>> \/ DayRolls

(* An interval without a cycle: a closed market, a sleep, a cycle that     *)
(* takes longer.                                                           *)
IdleTick ==
  /\ tick < LastTick
  /\ tick' = tick + 1
  /\ UNCHANGED <<life, counter, predicted, safety, errors, emitted, told, wanted,
                 lastDate, metric, verdict>>

(* A new process remembers no alert, no date and no cycle.                 *)
RestartMonitor ==
  /\ life < MaxRestarts
  /\ life' = life + 1
  /\ counter' = 0 /\ emitted' = NothingSent /\ lastDate' = None
  /\ wanted' = [wanted EXCEPT !.kinds = {}]
  /\ UNCHANGED <<tick, predicted, safety, errors, told, metric, verdict>>

MonitoringNext == MonitorCycle \/ MonitorFails \/ IdleTick \/ RestartMonitor

MonitoringSpec == MonitoringInit /\ [][MonitoringNext]_monitoringVars

-----------------------------------------------------------------------------
(* Nobody is told the same kind of thing twice within the cooldown, unless *)
(* the observer was restarted in between.                                  *)
AlertsAreSpaced ==
  \A a, b \in told :
    a.kind = b.kind /\ a.life = b.life /\ a.at < b.at => b.at - a.at >= Cooldown

(* A condition that lasts is told of again: whenever a cycle calls for an  *)
(* alert, one of its kind was delivered less than a cooldown ago.          *)
LastingConditionIsTold ==
  \A k \in wanted.kinds :
    \E a \in told : a.kind = k /\ a.life = life /\ wanted.at - a.at < Max({1, Cooldown})

(* The cap of readiness is lifted by time alone, not before the last day   *)
(* of the window has begun, whatever restarts and gaps there were.         *)
CapHolds ==
  verdict # None /\ verdict.score > PreCompletionCap
    => verdict.at >= (WindowDays - 1) * DayTicks

(* The highest level needs evidence of every kind that weighs: no surplus  *)
(* elsewhere makes up for a coin flip or for a handful of predictions.     *)
StrongNeedsEvidence ==
  verdict # None /\ verdict.score > 850 =>
    /\ verdict.evidence.accuracy >= 54
    /\ verdict.evidence.evaluated >= 150
    /\ verdict.evidence.drawdown < 25

UptimeOf(cycles) ==
  Min({100, (100 * Cardinality({t \in cycles : t <= verdict.at})) \div Max({1, verdict.at})})

(* Of every cycle that uptime counts there is a trace, its market-wide row *)
(* or an error, whatever failed and however often the process restarted:   *)
(* none is counted twice, or only begun in the head of a new process.      *)
UptimeIsTraced ==
  verdict # None => verdict.uptime <= UptimeOf(DOMAIN safety \cup errors)

(* A session tracks how many cycles it has completed versus expected       *)
(* (learning.py, its first paragraph): uptime counts no cycle that failed  *)
(* before its market-wide row.  The code counts it.                        *)
UptimeIsOfCompleted ==
  verdict # None => verdict.uptime <= UptimeOf(DOMAIN safety)

(* The row of a day is of that whole day, as long as the rows made since   *)
(* its beginning fit the query, whatever cycles failed before the day was  *)
(* rolled up; and it is green only if the observer ran through it.         *)
DayIsCounted ==
  metric # None =>
    LET cycles == CyclesOn(metric.day)
        since == {t \in predicted : DayOf(t) >= metric.day /\ t <= metric.at}
        later == {t \in DOMAIN safety : DayOf(t) > metric.day}
    IN  /\ metric.cycles = Cardinality(cycles)
        /\ PerCycle * Cardinality(since) <= RowLimit
             => metric.predictions = PerCycle * Cardinality(PredictedOn(metric.day))
        /\ later # {}
        /\ metric.status = "green" =>
             /\ 100 * Cardinality(cycles) >= 85 * DayTicks
             /\ \A t \in errors : DayOf(t) # metric.day

(* The report and the rows of its day speak the same language: a day is    *)
(* called acceptable only if some cycle of it was safe to observe, and     *)
(* hazardous only if some cycle of it was at least of high risk.           *)
AdviceIsOfTheDay ==
  metric # None =>
    LET statuses == {safety[t].status : t \in CyclesOn(metric.day)}
    IN  /\ metric.advice = "acceptable" => "SAFE_TO_OBSERVE" \in statuses
        /\ metric.advice = "hazardous" => statuses \cap {"UNSAFE", "HIGH_RISK"} # {}
        /\ statuses = {"UNSAFE"} => metric.advice = "hazardous"

(* Alerts are neither repeated nor lost.                                   *)
AlertsAreHeard == AlertsAreSpaced /\ LastingConditionIsTold

(* The readiness shown is earned, by time, by evidence and by cycles.      *)
ReadinessIsEarned == CapHolds /\ StrongNeedsEvidence /\ UptimeIsTraced

(* The record and the report of a day are about that day.                  *)
DayIsReported == DayIsCounted /\ AdviceIsOfTheDay
=============================================================================
