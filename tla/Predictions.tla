----------------------------- MODULE Predictions -----------------------------
(***************************************************************************)
(* The life of a prediction: recorded in the batch of a cycle, left to     *)
(* mature for the longest horizon, then scored against the market exactly  *)
(* once, in one transaction with the mark that takes it off the backlog.   *)
(*                                                                         *)
(* The cycle is that of run_once, reduced to the writes that matter to     *)
(* predictions.  One unit of time is the interval between two cycles.      *)
(* Variants are used by no action.                                         *)
(***************************************************************************)
EXTENDS ObservatoryDB, Integers

CONSTANTS
  WatchlistSize,   \* symbols observed in a cycle
  Horizon,         \* _MAX_HORIZON_MINUTES, in intervals
  Refusable,       \* the writes the database may refuse: "activity", "row"
  MaxPredictions,  \* bound: predictions that may ever be recorded
  MaxMishaps       \* bound: refused writes, exceptions, kills and signals

ASSUME PredictionsAssumption ==
  /\ WatchlistSize \in Nat
  /\ Horizon \in Nat
  /\ Refusable \subseteq {"activity", "row"}
  /\ MaxPredictions \in Nat
  /\ MaxMishaps \in Nat

VARIABLES
  pc,       \* "down" while no observer process runs
  db,       \* the connection: predictions and prediction_outcomes
  age,      \* how long ago each prediction was made, up to Horizon
  left,     \* symbols the watchlist loop has not visited
  backlog,  \* what the evaluation under way has still to look at
  mishaps   \* how many of MaxMishaps have happened

vars == <<pc, db, age, left, backlog, mishaps>>

-----------------------------------------------------------------------------
Ids == 1..MaxPredictions

(* `mark' is the evaluated column; `scored' counts how often the row of    *)
(* prediction_outcomes was written, which an upsert does not tell.         *)
Log == [mark   : [Ids -> {"absent", "waiting", "done"}],
        scored : [Ids -> 0..2],
        seq    : 0..MaxPredictions]

EmptyLog == [mark   |-> [id \in Ids |-> "absent"],
             scored |-> [id \in Ids |-> 0],
             seq    |-> 0]

(* insert_prediction, evaluated 0.                                         *)
NextId(log) == log.seq + 1

InsertPrediction(log) ==
  [log EXCEPT !.mark[NextId(log)] = "waiting", !.seq = NextId(log)]

(* mark_prediction_evaluated.                                              *)
Marked(log, id) == [log EXCEPT !.mark[id] = "done"]

(* The upsert of prediction_outcomes.                                      *)
Upserted(log, id) ==
  [log EXCEPT !.scored[id] = IF @ < 2 THEN @ + 1 ELSE @]

(* unevaluated_predictions, and the maturity test of the loop; the variant *)
(* asks for more than the longest horizon.                                 *)
PastHorizon(log) == {id \in Ids : log.mark[id] = "waiting" /\ age[id] > Horizon}
Matured(log) == {id \in Ids : log.mark[id] = "waiting" /\ age[id] = Horizon}

-----------------------------------------------------------------------------
(* The results of a write of some kind, when only Refusable may fail.      *)
Allowed(kind, results) == {r \in results : r.ok \/ kind \in Refusable}

(* _activity: a refusal is swallowed; what it leaves open stays open.      *)
Activity(d) == Allowed("activity", Write(d, d.work))

(* A bare write to another table.                                          *)
OtherRow(d) == Allowed("row", Write(d, d.work))

(* Variant: two writers, each with its own commit.                         *)
ScoreThenMark(d, id) ==
  LET upserts == Allowed("row", Write(d, Upserted(d.work, id)))
  IN  {r \in upserts : ~r.ok}
        \cup UNION {Allowed("row", Write(r.db, Marked(r.db.work, id))) :
                      r \in {u \in upserts : u.ok}}

(* upsert_outcome_and_mark_evaluated.  Its BEGIN fails by itself inside a  *)
(* transaction that a swallowed refusal left open.                         *)
ScoreAndMark(d, id) ==
  LET content == Marked(Upserted(d.work, id), id)
  IN  IF d.txn THEN RecordOutcome(d, content)
               ELSE Allowed("row", RecordOutcome(d, content))

(* Variant: the mark is executed and left to a later commit.               *)
MarkLater(d, id) == {Returned(Execute(d, Marked(d.work, id)))}

(* A prediction that the feed cannot price is marked without an outcome.   *)
MarkOnly(d, id) == Allowed("row", Write(d, Marked(d.work, id)))

Charge(cost) ==
  /\ mishaps + cost <= MaxMishaps
  /\ mishaps' = mishaps + cost

CostOf(result) == IF result.ok THEN 0 ELSE 1

-----------------------------------------------------------------------------
Init ==
  /\ pc = "down"
  /\ db = Connect(EmptyLog)
  /\ age = [id \in Ids |-> 0]
  /\ left = 0
  /\ backlog = {}
  /\ mishaps = 0

Start ==
  /\ pc = "down"
  /\ pc' = "idle"
  /\ UNCHANGED <<db, age, left, backlog, mishaps>>

(* The head of run_once.                                                   *)
BeginCycle ==
  /\ pc = "idle"
  /\ \E activity \in Activity(db) :
       /\ Charge(CostOf(activity))
       /\ db' = EnterBatch(activity.db)
  /\ pc' = "observing"
  /\ left' = WatchlistSize
  /\ UNCHANGED <<age, backlog>>

(* _observe_symbol without a prediction: no data, a closed market, or an   *)
(* exception before the INSERT.                                            *)
SkipSymbol ==
  /\ pc = "observing"
  /\ left > 0
  /\ left' = left - 1
  /\ db' \in {db, Execute(db, db.work)}
  /\ UNCHANGED <<pc, age, backlog, mishaps>>

(* _observe_symbol in an open market; whatever it does next, or whatever   *)
(* exception insert_error records, the prediction is pending.              *)
PredictSymbol ==
  /\ pc = "observing"
  /\ left > 0
  /\ db.work.seq < MaxPredictions
  /\ left' = left - 1
  /\ db' = Execute(db, InsertPrediction(db.work))
  /\ age' = [age EXCEPT ![NextId(db.work)] = 0]
  /\ UNCHANGED <<pc, backlog, mishaps>>

(* The insert_error of the loop is refused and the exception leaves the    *)
(* batch.                                                                  *)
FailBatch ==
  /\ pc = "observing"
  /\ "row" \in Refusable
  /\ "statement" \in DBFaults
  /\ Charge(1)
  /\ db' = AbortBatch(db)
  /\ pc' = "failed"
  /\ left' = 0
  /\ UNCHANGED <<age, backlog>>

EndBatch ==
  /\ pc = "observing"
  /\ left = 0
  /\ \E exit \in Allowed("row", LeaveBatch(db)) :
       /\ Charge(CostOf(exit))
       /\ db' = exit.db
       /\ pc' = IF exit.ok THEN "ranking" ELSE "failed"
  /\ UNCHANGED <<age, left, backlog>>

(* The ranking row, when there is one, is written bare; the activity rows  *)
(* of the ranking and of the idle training are the last writes before the  *)
(* predictions are evaluated.                                              *)
RankUniverse ==
  /\ pc = "ranking"
  /\ \E row \in {Returned(db)} \cup OtherRow(db) :
       \/ /\ row.ok
          /\ \E activity \in {row} \cup Activity(row.db) :
               /\ Charge(CostOf(activity))
               /\ db' = activity.db
               /\ backlog' = Matured(activity.db.work)
          /\ pc' = "evaluating"
       \/ /\ ~row.ok
          /\ Charge(1)
          /\ db' = row.db
          /\ pc' = "failed"
          /\ UNCHANGED backlog
  /\ UNCHANGED <<age, left>>

(* One turn of the loop of _evaluate_predictions, in the order of the ids. *)
(* An exception of a write leaves the method and the cycle.                *)
EvaluateNext(id) ==
  /\ pc = "evaluating"
  /\ id \in backlog
  /\ \A other \in backlog : id <= other
  /\ \E result \in ScoreAndMark(db, id) \cup MarkOnly(db, id) :
       /\ Charge(IF db.txn /\ ~result.db.txn THEN 0 ELSE CostOf(result))
       /\ db' = result.db
       /\ pc' = IF result.ok THEN pc ELSE "failed"
       /\ backlog' = IF result.ok THEN backlog \ {id} ELSE {}
  /\ UNCHANGED <<age, left>>

(* Positions, safety score, regime, alerts, heartbeat.                     *)
FinishCycle ==
  /\ pc = "evaluating"
  /\ backlog = {}
  /\ \E row \in OtherRow(db) :
       /\ Charge(CostOf(row))
       /\ db' = row.db
       /\ pc' = IF row.ok THEN "resting" ELSE "failed"
  /\ UNCHANGED <<age, left, backlog>>

(* An exception where run_once has no handler and nothing is written.      *)
CycleRaises ==
  /\ pc \in {"idle", "ranking", "evaluating"}
  /\ backlog = {}
  /\ "row" \in Refusable
  /\ Charge(1)
  /\ pc' = "failed"
  /\ UNCHANGED <<db, age, left, backlog>>

-----------------------------------------------------------------------------
(* One interval passes.                                                    *)
Elapse ==
  age' = [id \in Ids |-> IF db.disk.mark[id] = "waiting" /\ age[id] < Horizon
                         THEN age[id] + 1 ELSE age[id]]

Rest ==
  /\ pc = "resting"
  /\ pc' = "idle"
  /\ Elapse
  /\ UNCHANGED <<db, left, backlog, mishaps>>

(* The service may be down for any time.                                   *)
TimePasses ==
  /\ pc = "down"
  /\ Elapse
  /\ UNCHANGED <<pc, db, left, backlog, mishaps>>

Exit(d) ==
  /\ pc' = "down"
  /\ db' = Connect(d.disk)
  /\ left' = 0
  /\ backlog' = {}
  /\ UNCHANGED age

(* The except branch of run_forever; if its insert_error is refused, the   *)
(* loop ends in the finally block.                                         *)
RecoverCycle ==
  /\ pc = "failed"
  /\ \E report \in OtherRow(db) :
       /\ Charge(CostOf(report))
       /\ IF report.ok
          THEN /\ pc' = "resting"
               /\ db' = report.db
               /\ UNCHANGED <<age, left, backlog>>
          ELSE \E last \in OtherRow(report.db) : Exit(last.db)

(* The memory rotation, and the end of a learning window.                  *)
Rotate ==
  /\ pc = "idle"
  /\ \E last \in OtherRow(db) : Exit(last.db)
  /\ UNCHANGED mishaps

Interrupt ==
  /\ pc \in {"idle", "resting"}
  /\ Charge(1)
  /\ \E last \in OtherRow(db) : Exit(last.db)

Crash ==
  /\ pc # "down"
  /\ Charge(1)
  /\ Exit(db)

-----------------------------------------------------------------------------
ProcessStep ==
  \/ Start
  \/ BeginCycle
  \/ SkipSymbol
  \/ PredictSymbol
  \/ FailBatch
  \/ EndBatch
  \/ RankUniverse
  \/ \E id \in Ids : EvaluateNext(id)
  \/ FinishCycle
  \/ CycleRaises
  \/ Rest
  \/ RecoverCycle

Next == ProcessStep \/ TimePasses \/ Rotate \/ Interrupt \/ Crash

Spec == Init /\ [][Next]_vars

(* One thread that waits for nothing but the clock, restarted by launchd.  *)
(* A rotation comes after sixty cycles: no step of the process is owed to  *)
(* it, and it does not come before the cycle is through again and again.   *)
Fairness == WF_vars(ProcessStep) /\ SF_vars(BeginCycle)

FairSpec == Spec /\ Fairness

-----------------------------------------------------------------------------
Phases == {"down", "idle", "observing", "ranking", "evaluating", "resting",
           "failed"}

(* Every variable keeps the shape the actions assume.                      *)
TypeOK ==
  /\ pc \in Phases
  /\ db \in Connection(Log)
  /\ age \in [Ids -> 0..Horizon]
  /\ left \in 0..WatchlistSize
  /\ backlog \subseteq Ids
  /\ mishaps \in 0..MaxMishaps

(* What has been evaluated is safe: outside the batch and the recovery     *)
(* from a failed cycle nothing is pending, so that a crash between two     *)
(* predictions, or a cycle that fails later, repeats no work.              *)
NothingPending ==
  pc \notin {"observing", "failed"} => db.work = db.disk

(* The committed tables, as one status per prediction.                     *)
Status(log, id) ==
  IF log.scored[id] = 0
  THEN IF log.mark[id] = "done" THEN "unscored" ELSE log.mark[id]
  ELSE IF log.mark[id] = "done" /\ log.scored[id] = 1 THEN "scored" ELSE "torn"

Abstract == INSTANCE PredictionLog
              WITH log <- [id \in Ids |-> Status(db.disk, id)]

(* "Each one exactly once": the committed tables implement the prediction  *)
(* log.  No refusal, rollback, crash or restart shows an outcome without   *)
(* its mark, scores a prediction twice, or takes a settled one back.       *)
LogSpec == Abstract!LogSpec

(* A recorded prediction is settled in the end: nothing a cycle fails on,  *)
(* and no restart, leaves it in the backlog for ever.                      *)
PredictionsSettle ==
  \A id \in Ids : db.disk.mark[id] = "waiting" ~> db.disk.mark[id] = "done"

(* "Activity logging must never crash": as long as the database refuses    *)
(* nothing but activity rows, no cycle fails.                              *)
ActivityIsHarmless == pc # "failed"

(* The rows keep their ranges, and none waits for a commit when it should  *)
(* not.                                                                    *)
RowsAreSafe == TypeOK /\ NothingPending
=============================================================================
