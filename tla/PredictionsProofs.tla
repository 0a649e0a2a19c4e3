------------------------- MODULE PredictionsProofs -------------------------
(***************************************************************************)
(* Theorems about the life of a prediction: its types, that nothing is     *)
(* pending where work would be lost, and that the committed tables         *)
(* implement the abstract prediction log, for every watchlist, horizon and *)
(* pattern of refused writes, crashes and restarts.                        *)
(***************************************************************************)
EXTENDS Predictions, ObservatoryDBProofs

(* No prediction is torn, and the ids beyond the sequence are unused.      *)
Whole(log) ==
  \A id \in Ids : /\ Status(log, id) # "torn"
                  /\ id > log.seq => Status(log, id) = "absent"

(* `new' has what `old' has, and predictions recorded since.               *)
Grown(old, new) ==
  \A id \in Ids : \/ Status(new, id) = Status(old, id)
                  \/ Status(old, id) = "absent" /\ Status(new, id) = "waiting"

(* `new' has settled at most one prediction of `old'.                      *)
Settled(old, new) ==
  \/ \A id \in Ids : Status(new, id) = Status(old, id)
  \/ \E id \in Ids :
       /\ Status(old, id) = "waiting"
       /\ Status(new, id) \in {"scored", "unscored"}
       /\ \A other \in Ids : other # id => Status(new, other) = Status(old, other)

BatchDepth == db.depth = IF pc = "observing" THEN 1 ELSE 0

(* Only the evaluation has a backlog, and only of what it has not settled. *)
BacklogWaits ==
  /\ pc # "evaluating" => backlog = {}
  /\ \A id \in backlog : db.work.mark[id] = "waiting"

(* What is pending: new predictions in the batch, at most one settlement   *)
(* after a failure, nothing elsewhere.                                     *)
Pending ==
  /\ pc = "observing" => /\ Grown(db.disk, db.work)
                         /\ db.txn \/ db.work = db.disk
  /\ pc = "failed" => Settled(db.disk, db.work)
  /\ NothingPending

IInv ==
  /\ TypeOK
  /\ Whole(db.disk)
  /\ Whole(db.work)
  /\ Pending
  /\ BatchDepth
  /\ BacklogWaits

-----------------------------------------------------------------------------
LEMMA StatusOf ==
  ASSUME NEW log \in Log, NEW id \in Ids
  PROVE  /\ Status(log, id) = "absent" <=> log.mark[id] = "absent" /\ log.scored[id] = 0
         /\ Status(log, id) = "waiting" <=> log.mark[id] = "waiting" /\ log.scored[id] = 0
         /\ Status(log, id) = "unscored" <=> log.mark[id] = "done" /\ log.scored[id] = 0
         /\ Status(log, id) = "scored" <=> log.mark[id] = "done" /\ log.scored[id] = 1
BY DEF Status, Log

LEMMA SameStatus ==
  ASSUME NEW a, NEW b, NEW id, a.mark[id] = b.mark[id], a.scored[id] = b.scored[id]
  PROVE  Status(a, id) = Status(b, id)
BY DEF Status

(* A new prediction gets an id nobody has.                                 *)
LEMMA InsertGrows ==
  ASSUME NEW old \in Log, NEW log \in Log, log.seq < MaxPredictions,
         Whole(log), Grown(old, log)
  PROVE  /\ InsertPrediction(log) \in Log
         /\ Whole(InsertPrediction(log))
         /\ Grown(old, InsertPrediction(log))
<1> DEFINE new == InsertPrediction(log)
           n == NextId(log)
<1>1. n \in Ids /\ n > log.seq /\ log.seq \in Nat /\ n = log.seq + 1
  BY PredictionsAssumption DEF Ids, Log, NextId
<1>2. /\ new.mark = [log.mark EXCEPT ![n] = "waiting"]
      /\ new.scored = log.scored
      /\ new.seq = n
      /\ new \in Log
  <2>1. [log.mark EXCEPT ![n] = "waiting"] \in [Ids -> {"absent", "waiting", "done"}]
    BY DEF Log
  <2>2. n \in 0..MaxPredictions
    BY <1>1, PredictionsAssumption DEF Ids
  <2>3. \A l \in Log, f \in [Ids -> {"absent", "waiting", "done"}] :
          /\ [l EXCEPT !.mark = f] \in Log
          /\ [l EXCEPT !.mark = f].mark = f
          /\ [l EXCEPT !.mark = f].scored = l.scored
    BY DEF Log
  <2>4. \A l \in Log : /\ [l EXCEPT !.seq = n] \in Log
                       /\ [l EXCEPT !.seq = n].mark = l.mark
                       /\ [l EXCEPT !.seq = n].scored = l.scored
                       /\ [l EXCEPT !.seq = n].seq = n
    BY <2>2 DEF Log
  <2>5. new = [[log EXCEPT !.mark = [log.mark EXCEPT ![n] = "waiting"]] EXCEPT !.seq = n]
    BY DEF InsertPrediction
  <2> HIDE DEF new, n
  <2>6. QED
    BY <2>1, <2>3, <2>4, <2>5, ZenonT(60)
<1> HIDE DEF new, n
<1>3. Status(log, n) = "absent" /\ Status(new, n) = "waiting"
  <2>1. Status(log, n) = "absent"
    BY <1>1 DEF Whole
  <2>2. log.scored[n] = 0
    BY <1>1, <2>1, StatusOf
  <2>3. new.mark[n] = "waiting" /\ new.scored[n] = 0
    BY <1>1, <1>2, <2>2 DEF Log
  <2>4. QED
    BY <1>1, <1>2, <2>1, <2>3, StatusOf
<1>4. \A id \in Ids : id # n => Status(new, id) = Status(log, id)
  <2>1. ASSUME NEW id \in Ids, id # n
        PROVE  Status(new, id) = Status(log, id)
    <3>1. new.mark[id] = log.mark[id] /\ new.scored[id] = log.scored[id]
      BY <1>2, <2>1 DEF Log
    <3>2. QED
      BY <3>1, SameStatus
  <2>2. QED
    BY <2>1
<1>5. Whole(new)
  <2>1. ASSUME NEW id \in Ids
        PROVE  /\ Status(new, id) # "torn"
               /\ id > new.seq => Status(new, id) = "absent"
    <3>1. CASE id = n
      BY <1>1, <1>2, <1>3, <3>1
    <3>2. CASE id # n
      BY <1>1, <1>2, <1>4, <3>2 DEF Whole, Ids
    <3>3. QED
      BY <3>1, <3>2
  <2>2. QED
    BY <2>1 DEF Whole
<1>6. Grown(old, new)
  <2>1. ASSUME NEW id \in Ids
        PROVE  \/ Status(new, id) = Status(old, id)
               \/ Status(old, id) = "absent" /\ Status(new, id) = "waiting"
    <3>1. CASE id = n
      BY <1>3, <3>1 DEF Grown
    <3>2. CASE id # n
      BY <1>4, <3>2 DEF Grown
    <3>3. QED
      BY <3>1, <3>2
  <2>2. QED
    BY <2>1 DEF Grown
<1>7. QED
  BY <1>2, <1>5, <1>6 DEF new

(* Either way of settling a prediction that waits.                         *)
LEMMA SettleOne ==
  ASSUME NEW log \in Log, NEW id \in Ids, Whole(log), log.mark[id] = "waiting",
         NEW new \in {Marked(log, id), Marked(Upserted(log, id), id)}
  PROVE  /\ new \in Log
         /\ Whole(new)
         /\ Settled(log, new)
         /\ \A other \in Ids : other # id => new.mark[other] = log.mark[other]
<1>1. /\ Upserted(log, id) \in Log
      /\ Upserted(log, id).mark = log.mark
      /\ Upserted(log, id).seq = log.seq
      /\ Upserted(log, id).scored =
           [log.scored EXCEPT ![id] = IF @ < 2 THEN @ + 1 ELSE @]
  BY DEF Upserted, Log
<1>2. \A l \in Log : /\ Marked(l, id) \in Log
                     /\ Marked(l, id).mark = [l.mark EXCEPT ![id] = "done"]
                     /\ Marked(l, id).scored = l.scored
                     /\ Marked(l, id).seq = l.seq
  BY DEF Marked, Log
<1>3. Status(log, id) = "waiting" /\ log.scored[id] = 0
  <2>1. log.scored[id] \in 0..2
    BY DEF Log
  <2>2. QED
    BY <2>1 DEF Whole, Status
<1>4. /\ new \in Log /\ new.seq = log.seq
      /\ new.mark = [log.mark EXCEPT ![id] = "done"]
      /\ new.scored[id] \in {0, 1}
      /\ \A other \in Ids : other # id => new.scored[other] = log.scored[other]
  <2>1. CASE new = Marked(log, id)
    BY <1>2, <1>3, <2>1
  <2>2. CASE new = Marked(Upserted(log, id), id)
    <3>1. /\ new \in Log /\ new.seq = log.seq
          /\ new.mark = [log.mark EXCEPT ![id] = "done"]
          /\ new.scored = [log.scored EXCEPT ![id] = IF @ < 2 THEN @ + 1 ELSE @]
      BY <1>1, <1>2, <2>2
    <3>2. QED
      BY <1>3, <3>1 DEF Log
  <2>3. QED
    BY <2>1, <2>2
<1>5. new.mark[id] = "done" /\ \A other \in Ids : other # id => new.mark[other] = log.mark[other]
  BY <1>4 DEF Log
<1>6. Status(new, id) \in {"scored", "unscored"}
  BY <1>4, <1>5, StatusOf
<1>7. \A other \in Ids : other # id => Status(new, other) = Status(log, other)
  <2>1. ASSUME NEW other \in Ids, other # id
        PROVE  Status(new, other) = Status(log, other)
    <3>1. new.mark[other] = log.mark[other] /\ new.scored[other] = log.scored[other]
      BY <1>4, <1>5, <2>1
    <3>2. QED
      BY <3>1, SameStatus
  <2>2. QED
    BY <2>1
<1>8. Settled(log, new)
  BY <1>3, <1>6, <1>7 DEF Settled
<1>9. Whole(new)
  <2>1. ~(id > log.seq)
    BY <1>3 DEF Whole
  <2>2. QED
    BY <1>4, <1>6, <1>7, <2>1 DEF Whole
<1>10. QED
  BY <1>4, <1>5, <1>8, <1>9

(* A write to another table: what was pending is committed or still        *)
(* pending, or rolled back.                                                *)
LEMMA QuietWrite ==
  ASSUME NEW d \in Connection(Log), NEW r \in Activity(d) \cup OtherRow(d)
  PROVE  /\ r.db \in Connection(Log)
         /\ r.db.depth = d.depth
         /\ \/ r.ok /\ r.db.work = d.work /\ r.db.disk \in {d.disk, d.work}
            \/ ~r.ok /\ r.db.disk = d.disk /\ r.db.work \in {d.disk, d.work}
         /\ r.ok /\ d.depth = 0 => r.db.disk = d.work
<1>1. d.work \in Log /\ r \in Write(d, d.work)
  BY DEF Connection, Activity, OtherRow, Allowed
<1>2. QED
  BY <1>1, WriteResult

LEMMA ChargeBound ==
  ASSUME TypeOK, NEW cost \in Nat, Charge(cost)
  PROVE  mishaps' \in 0..MaxMishaps
BY PredictionsAssumption DEF TypeOK, Charge

LEMMA CostIsNat == ASSUME NEW r PROVE CostOf(r) \in Nat
BY DEF CostOf

LEMMA Reflexive ==
  ASSUME NEW log PROVE Grown(log, log) /\ Settled(log, log)
BY DEF Grown, Settled

(* What a step may do to the committed tables.                             *)
DiskStep ==
  \/ db'.disk = db.disk
  \/ Grown(db.disk, db'.disk)
  \/ Settled(db.disk, db'.disk)

(* A process that ends with nothing but one settlement pending.            *)
LEMMA ExitStep ==
  ASSUME IInv, pc # "observing", NEW d \in Connection(Log),
         d.disk \in {db.disk, db.work}, Exit(d), mishaps' \in 0..MaxMishaps
  PROVE  IInv' /\ DiskStep
<1>1. /\ db' \in Connection(Log) /\ db'.disk = d.disk /\ db'.work = d.disk
      /\ db'.depth = 0
  BY DEF Exit, Connect, Connection
<1>2. Settled(db.disk, db.work)
  BY Reflexive DEF IInv, Pending, NothingPending
<1>3. TypeOK'
  BY <1>1, PredictionsAssumption DEF IInv, TypeOK, Exit, Phases
<1>4. Whole(db'.disk) /\ Whole(db'.work)
  BY <1>1 DEF IInv
<1>5. Pending' /\ BatchDepth' /\ BacklogWaits'
  BY <1>1 DEF Exit, Pending, NothingPending, BatchDepth, BacklogWaits
<1>6. IInv'
  BY <1>3, <1>4, <1>5 DEF IInv, Whole, Status
<1>7. DiskStep
  BY <1>1, <1>2 DEF DiskStep
<1>8. QED
  BY <1>6, <1>7

(* The frame of the cases below.                                           *)
LEMMA Assemble ==
  ASSUME TypeOK', Whole(db'.disk), Whole(db'.work), Pending', BatchDepth',
         BacklogWaits'
  PROVE  IInv'
BY DEF IInv, Whole, Status

(* A step at depth 0 that ends with nothing pending, the tables as they    *)
(* were.                                                                   *)
LEMMA QuietStep ==
  ASSUME IInv, TypeOK', db'.disk = db.disk, db'.work = db.disk, BatchDepth',
         pc' # "observing", backlog' = {}
  PROVE  IInv' /\ DiskStep
<1>1. Whole(db'.disk) /\ Whole(db'.work)
  BY DEF IInv
<1>2. Settled(db'.disk, db'.work)
  <2>1. Settled(db.disk, db.disk)
    BY Reflexive
  <2>2. QED
    BY <2>1
<1>3. Pending'
  BY <1>2 DEF Pending, NothingPending, Settled, Status
<1>4. BacklogWaits'
  BY DEF BacklogWaits
<1>5. QED
  BY <1>1, <1>3, <1>4, Assemble DEF DiskStep

LEMMA StepInvariant == IInv /\ [Next]_vars => IInv' /\ DiskStep
<1> SUFFICES ASSUME IInv, [Next]_vars PROVE IInv' /\ DiskStep
  OBVIOUS
<1>1. /\ TypeOK /\ Whole(db.disk) /\ Whole(db.work) /\ Pending /\ BatchDepth
      /\ BacklogWaits
      /\ db \in Connection(Log) /\ db.disk \in Log /\ db.work \in Log
  BY DEF IInv, TypeOK, Connection
<1>2. pc \notin {"observing", "failed"} => db.work = db.disk
  BY <1>1 DEF Pending, NothingPending
<1>3. CASE Start
  <2>1. TypeOK' /\ BatchDepth'
    BY <1>1, <1>3 DEF Start, TypeOK, Phases, BatchDepth
  <2>2. backlog' = {}
    BY <1>1, <1>3 DEF Start, BacklogWaits
  <2>3. QED
    BY <1>2, <1>3, <2>1, <2>2, QuietStep DEF Start
<1>4. CASE BeginCycle
  <2>1. PICK activity \in Activity(db) :
          Charge(CostOf(activity)) /\ db' = EnterBatch(activity.db)
    BY <1>4 DEF BeginCycle
  <2>2. /\ activity.db \in Connection(Log) /\ activity.db.depth = 0
        /\ activity.db.disk = db.disk /\ activity.db.work = db.disk
    BY <1>1, <1>2, <1>4, QuietWrite DEF BeginCycle, BatchDepth
  <2>3. /\ db' \in Connection(Log) /\ db'.depth = 1
        /\ db'.disk = db.disk /\ db'.work = db.disk
    BY <2>1, <2>2, BatchEntry
  <2>4. mishaps' \in 0..MaxMishaps
    BY <1>1, <2>1, ChargeBound, CostIsNat
  <2>5. TypeOK' /\ BatchDepth'
    BY <1>1, <1>4, <2>3, <2>4, PredictionsAssumption
       DEF BeginCycle, TypeOK, Phases, BatchDepth
  <2>6. Grown(db'.disk, db'.work)
    <3>1. Grown(db.disk, db.disk)
      BY Reflexive
    <3>2. QED
      BY <2>3, <3>1
  <2>7. Pending'
    BY <1>4, <2>3, <2>6 DEF BeginCycle, Pending, NothingPending, Grown, Status
  <2>8. BacklogWaits'
    BY <1>1, <1>4 DEF BeginCycle, BacklogWaits
  <2>9. Whole(db'.disk) /\ Whole(db'.work)
    BY <1>1, <2>3
  <2>10. QED
    BY <2>3, <2>5, <2>7, <2>8, <2>9, Assemble DEF DiskStep
<1>5. CASE SkipSymbol
  <2>1. /\ db' \in Connection(Log) /\ db'.depth = db.depth
        /\ db'.disk = db.disk /\ db'.work = db.work
        /\ db'.txn \/ db'.work = db'.disk
    <3>1. db.txn \/ db.work = db.disk
      BY <1>1, <1>5 DEF SkipSymbol, Pending
    <3>2. Execute(db, db.work).txn = TRUE
      BY <1>1 DEF Execute, Connection
    <3>3. QED
      BY <1>1, <1>5, <3>1, <3>2, PendingStatement DEF SkipSymbol
  <2>2. TypeOK' /\ BatchDepth'
    BY <1>1, <1>5, <2>1, PredictionsAssumption DEF SkipSymbol, TypeOK, BatchDepth
  <2>3. Grown(db'.disk, db'.work)
    <3>1. Grown(db.disk, db.work)
      BY <1>1, <1>5 DEF SkipSymbol, Pending
    <3>2. QED
      BY <2>1, <3>1
  <2>4. Pending'
    BY <1>5, <2>1, <2>3 DEF SkipSymbol, Pending, NothingPending, Grown, Status
  <2>5. BacklogWaits'
    BY <1>1, <1>5 DEF SkipSymbol, BacklogWaits
  <2>6. Whole(db'.disk) /\ Whole(db'.work)
    BY <1>1, <2>1
  <2>7. QED
    BY <2>1, <2>2, <2>4, <2>5, <2>6, Assemble DEF DiskStep
<1>6. CASE PredictSymbol
  <2> DEFINE content == InsertPrediction(db.work)
  <2>1. db.work.seq < MaxPredictions /\ pc = "observing" /\ Grown(db.disk, db.work)
    BY <1>1, <1>6 DEF PredictSymbol, Pending
  <2>2. content \in Log /\ Whole(content) /\ Grown(db.disk, content)
    BY <1>1, <2>1, InsertGrows
  <2>3. /\ db' \in Connection(Log) /\ db'.depth = db.depth
        /\ db'.disk = db.disk /\ db'.work = content /\ db'.txn
    <3>1. db' = Execute(db, content)
      BY <1>6 DEF PredictSymbol
    <3> HIDE DEF content
    <3>2. Execute(db, content).txn = TRUE
      BY <1>1 DEF Execute, Connection
    <3>3. QED
      BY <1>1, <2>2, <3>1, <3>2, PendingStatement
  <2> HIDE DEF content
  <2>5. age' \in [Ids -> 0..Horizon]
    <3>1. age \in [Ids -> 0..Horizon] /\ 0 \in 0..Horizon
      BY <1>1, PredictionsAssumption DEF TypeOK
    <3>2. age' = [age EXCEPT ![NextId(db.work)] = 0]
      BY <1>6 DEF PredictSymbol
    <3>3. \A n : [age EXCEPT ![n] = 0] \in [Ids -> 0..Horizon]
      BY <3>1
    <3>4. QED
      BY <3>2, <3>3
  <2>6. TypeOK' /\ BatchDepth'
    BY <1>1, <1>6, <2>3, <2>5, PredictionsAssumption
       DEF PredictSymbol, TypeOK, BatchDepth
  <2>7. Grown(db'.disk, db'.work) /\ Whole(db'.disk) /\ Whole(db'.work)
    BY <1>1, <2>2, <2>3
  <2>8. Pending'
    BY <1>6, <2>3, <2>7 DEF PredictSymbol, Pending, NothingPending, Grown, Status
  <2>9. BacklogWaits'
    BY <1>1, <1>6 DEF PredictSymbol, BacklogWaits
  <2>10. QED
    BY <2>3, <2>6, <2>7, <2>8, <2>9, Assemble DEF DiskStep
<1>7. CASE FailBatch
  <2>1. /\ db' \in Connection(Log) /\ db'.depth = 0
        /\ db'.disk = db.disk /\ db'.work = db.disk
    BY <1>1, <1>7, BatchExit DEF FailBatch, BatchDepth
  <2>2. mishaps' \in 0..MaxMishaps
    BY <1>1, <1>7, ChargeBound DEF FailBatch
  <2>3. TypeOK' /\ BatchDepth'
    BY <1>1, <1>7, <2>1, <2>2, PredictionsAssumption
       DEF FailBatch, TypeOK, Phases, BatchDepth
  <2>4. Whole(db'.disk) /\ Whole(db'.work) /\ Settled(db'.disk, db'.work)
    <3>1. Settled(db.disk, db.disk)
      BY Reflexive
    <3>2. QED
      BY <1>1, <2>1, <3>1
  <2>5. Pending'
    BY <1>7, <2>4 DEF FailBatch, Pending, NothingPending, Settled, Status
  <2>6. BacklogWaits'
    BY <1>1, <1>7 DEF FailBatch, BacklogWaits
  <2>7. QED
    BY <2>1, <2>3, <2>4, <2>5, <2>6, Assemble DEF DiskStep
<1>8. CASE EndBatch
  <2>1. PICK exit \in LeaveBatch(db) :
          /\ Charge(CostOf(exit)) /\ db' = exit.db
          /\ pc' = IF exit.ok THEN "ranking" ELSE "failed"
    BY <1>8 DEF EndBatch, Allowed
  <2>2. /\ exit.db \in Connection(Log) /\ exit.db.depth = 0
        /\ exit.db.work = exit.db.disk /\ exit.db.disk \in {db.disk, db.work}
    <3>1. db.txn \/ db.work = db.disk
      BY <1>1, <1>8 DEF EndBatch, Pending
    <3>2. QED
      BY <1>1, <1>8, <2>1, <3>1, BatchOutcome DEF EndBatch, BatchDepth
  <2>3. mishaps' \in 0..MaxMishaps
    BY <1>1, <2>1, ChargeBound, CostIsNat
  <2>4. pc' \in {"ranking", "failed"}
    BY <2>1
  <2>5. TypeOK' /\ BatchDepth'
    BY <1>1, <1>8, <2>1, <2>2, <2>3, <2>4 DEF EndBatch, TypeOK, Phases, BatchDepth
  <2>6. Settled(db'.disk, db'.work)
    <3>1. Settled(exit.db.disk, exit.db.disk)
      BY Reflexive
    <3>2. QED
      BY <2>1, <2>2, <3>1
  <2>7. Pending'
    BY <2>1, <2>2, <2>4, <2>6 DEF Pending, NothingPending, Settled, Status
  <2>8. BacklogWaits'
    BY <1>1, <1>8 DEF EndBatch, BacklogWaits
  <2>9. Whole(db'.disk) /\ Whole(db'.work)
    BY <1>1, <2>1, <2>2
  <2>10. DiskStep
    <3>1. Grown(db.disk, db.work)
      BY <1>1, <1>8 DEF EndBatch, Pending
    <3>2. QED
      BY <2>1, <2>2, <3>1 DEF DiskStep
  <2>11. QED
    BY <2>5, <2>7, <2>8, <2>9, <2>10, Assemble
<1>9. CASE RankUniverse
  <2>1. db.depth = 0 /\ db.work = db.disk /\ pc = "ranking"
    BY <1>1, <1>2, <1>9 DEF RankUniverse, BatchDepth
  <2>2. PICK row \in {Returned(db)} \cup OtherRow(db) :
          \/ /\ row.ok
             /\ \E activity \in {row} \cup Activity(row.db) :
                  /\ Charge(CostOf(activity))
                  /\ db' = activity.db
                  /\ backlog' = Matured(activity.db.work)
             /\ pc' = "evaluating"
          \/ /\ ~row.ok
             /\ Charge(1)
             /\ db' = row.db
             /\ pc' = "failed"
             /\ UNCHANGED backlog
    BY <1>9 DEF RankUniverse
  <2>3. /\ row.db \in Connection(Log) /\ row.db.depth = 0
        /\ row.db.disk = db.disk /\ row.db.work = db.disk
    BY <1>1, <2>1, QuietWrite DEF Returned
  <2>4. CASE row.ok
    <3>1. PICK activity \in {row} \cup Activity(row.db) :
            /\ Charge(CostOf(activity))
            /\ db' = activity.db
            /\ backlog' = Matured(activity.db.work)
      BY <2>2, <2>4
    <3>2. /\ db' \in Connection(Log) /\ db'.depth = 0
          /\ db'.disk = db.disk /\ db'.work = db.disk
      BY <2>3, <3>1, QuietWrite
    <3>3. mishaps' \in 0..MaxMishaps
      BY <1>1, <3>1, ChargeBound, CostIsNat
    <3>4. pc' = "evaluating"
      BY <2>2, <2>4
    <3>5. backlog' \subseteq Ids /\ \A id \in backlog' : db'.work.mark[id] = "waiting"
      BY <3>1 DEF Matured
    <3>6. TypeOK' /\ BatchDepth'
      BY <1>1, <1>9, <3>2, <3>3, <3>4, <3>5
         DEF RankUniverse, TypeOK, Phases, BatchDepth
    <3>7. BacklogWaits'
      BY <3>4, <3>5 DEF BacklogWaits
    <3>8. Pending'
      BY <3>2, <3>4 DEF Pending, NothingPending
    <3>9. Whole(db'.disk) /\ Whole(db'.work)
      BY <1>1, <3>2
    <3>10. QED
      BY <3>2, <3>6, <3>7, <3>8, <3>9, Assemble DEF DiskStep
  <2>5. CASE ~row.ok
    <3>1. mishaps' \in 0..MaxMishaps
      BY <1>1, <2>2, <2>5, ChargeBound
    <3>2. backlog' = {} /\ pc' = "failed" /\ db' = row.db
      BY <1>1, <2>1, <2>2, <2>5 DEF BacklogWaits
    <3>3. TypeOK' /\ BatchDepth'
      BY <1>1, <1>9, <2>3, <3>1, <3>2 DEF RankUniverse, TypeOK, Phases, BatchDepth
    <3>4. QED
      BY <2>3, <3>2, <3>3, QuietStep
  <2>6. QED
    BY <2>4, <2>5
<1>10. CASE \E id \in Ids : EvaluateNext(id)
  <2>1. PICK id \in Ids : EvaluateNext(id)
    BY <1>10
  <2>2. PICK result \in ScoreAndMark(db, id) \cup MarkOnly(db, id) :
          /\ Charge(IF db.txn /\ ~result.db.txn THEN 0 ELSE CostOf(result))
          /\ db' = result.db
          /\ pc' = IF result.ok THEN pc ELSE "failed"
          /\ backlog' = IF result.ok THEN backlog \ {id} ELSE {}
    BY <2>1 DEF EvaluateNext
  <2>3. /\ pc = "evaluating" /\ db.depth = 0 /\ db.work = db.disk
        /\ id \in backlog /\ db.work.mark[id] = "waiting"
    BY <1>1, <1>2, <2>1 DEF EvaluateNext, BatchDepth, BacklogWaits
  <2>4. PICK content \in {Marked(db.work, id), Marked(Upserted(db.work, id), id)} :
          result \in RecordOutcome(db, content) \cup Write(db, content)
    BY <2>2 DEF ScoreAndMark, MarkOnly, Allowed
  <2>5. /\ content \in Log /\ Whole(content) /\ Settled(db.disk, content)
        /\ \A other \in Ids : other # id => content.mark[other] = db.work.mark[other]
    BY <1>1, <2>3, <2>4, SettleOne
  <2>6. /\ db' \in Connection(Log) /\ db'.depth = 0
        /\ \/ result.ok /\ db'.disk = content /\ db'.work = content
           \/ ~result.ok /\ db'.disk = db.disk /\ db'.work \in {db.disk, content}
    <3>1. CASE result \in RecordOutcome(db, content)
      BY <1>1, <2>2, <2>3, <2>5, <3>1, OutcomeResult
    <3>2. CASE result \in Write(db, content)
      BY <1>1, <2>2, <2>3, <2>5, <3>2, WriteResult
    <3>3. QED
      BY <2>4, <3>1, <3>2
  <2>7. mishaps' \in 0..MaxMishaps
    BY <1>1, <2>2, ChargeBound, CostIsNat
  <2>8. TypeOK' /\ BatchDepth'
    BY <1>1, <2>1, <2>2, <2>3, <2>6, <2>7
       DEF EvaluateNext, TypeOK, Phases, BatchDepth
  <2>9. Whole(db'.disk) /\ Whole(db'.work) /\ Settled(db'.disk, db'.work)
    <3>1. Settled(content, content) /\ Settled(db.disk, db.disk)
      BY Reflexive, SMTT(40)
    <3>2. QED
      BY <1>1, <2>5, <2>6, <3>1
  <2>10. Pending'
    BY <2>2, <2>3, <2>6, <2>9 DEF Pending, NothingPending, Settled, Status
  <2>11. BacklogWaits'
    <3>1. CASE result.ok
      <4>1. backlog' = backlog \ {id} /\ pc' = "evaluating" /\ db'.work = content
        BY <2>2, <2>3, <2>6, <3>1
      <4>2. backlog \subseteq Ids
        BY <1>1 DEF TypeOK
      <4>3. QED
        BY <1>1, <2>5, <4>1, <4>2 DEF BacklogWaits
    <3>2. CASE ~result.ok
      BY <2>2, <3>2 DEF BacklogWaits
    <3>3. QED
      BY <3>1, <3>2
  <2>12. DiskStep
    BY <2>5, <2>6 DEF DiskStep
  <2>13. QED
    BY <2>8, <2>9, <2>10, <2>11, <2>12, Assemble
<1>11. CASE FinishCycle
  <2>1. PICK row \in OtherRow(db) :
          /\ Charge(CostOf(row)) /\ db' = row.db
          /\ pc' = IF row.ok THEN "resting" ELSE "failed"
    BY <1>11 DEF FinishCycle
  <2>2. /\ db' \in Connection(Log) /\ db'.depth = 0
        /\ db'.disk = db.disk /\ db'.work = db.disk
    BY <1>1, <1>2, <1>11, <2>1, QuietWrite DEF FinishCycle, BatchDepth
  <2>3. mishaps' \in 0..MaxMishaps
    BY <1>1, <2>1, ChargeBound, CostIsNat
  <2>4. pc' \in {"resting", "failed"} /\ backlog' = {}
    BY <1>11, <2>1 DEF FinishCycle
  <2>5. TypeOK' /\ BatchDepth'
    BY <1>1, <1>11, <2>2, <2>3, <2>4 DEF FinishCycle, TypeOK, Phases, BatchDepth
  <2>6. QED
    BY <2>2, <2>4, <2>5, QuietStep
<1>12. CASE CycleRaises
  <2>1. mishaps' \in 0..MaxMishaps
    BY <1>1, <1>12, ChargeBound DEF CycleRaises
  <2>2. TypeOK' /\ BatchDepth'
    BY <1>1, <1>12, <2>1 DEF CycleRaises, TypeOK, Phases, BatchDepth
  <2>3. db'.disk = db.disk /\ db'.work = db.disk
    BY <1>2, <1>12 DEF CycleRaises
  <2>4. QED
    BY <1>12, <2>2, <2>3, QuietStep DEF CycleRaises
<1>13. ASSUME Elapse, TypeOK
       PROVE  age' \in [Ids -> 0..Horizon]
  BY <1>13, PredictionsAssumption DEF Elapse, TypeOK
<1>14. CASE Rest \/ TimePasses
  <2>1. age' \in [Ids -> 0..Horizon]
    BY <1>1, <1>13, <1>14 DEF Rest, TimePasses
  <2>2. TypeOK' /\ BatchDepth'
    BY <1>1, <1>14, <2>1 DEF Rest, TimePasses, TypeOK, Phases, BatchDepth
  <2>3. backlog' = {} /\ pc' # "observing"
    BY <1>1, <1>14 DEF Rest, TimePasses, BacklogWaits
  <2>4. db'.disk = db.disk /\ db'.work = db.disk
    BY <1>2, <1>14 DEF Rest, TimePasses
  <2>5. QED
    BY <2>2, <2>3, <2>4, QuietStep
<1>15. CASE RecoverCycle
  <2>1. PICK report \in OtherRow(db) :
          /\ Charge(CostOf(report))
          /\ IF report.ok
             THEN /\ pc' = "resting"
                  /\ db' = report.db
                  /\ UNCHANGED <<age, left, backlog>>
             ELSE \E last \in OtherRow(report.db) : Exit(last.db)
    BY <1>15 DEF RecoverCycle
  <2>2. pc = "failed" /\ db.depth = 0 /\ Settled(db.disk, db.work) /\ backlog = {}
    BY <1>1, <1>15 DEF RecoverCycle, BatchDepth, Pending, BacklogWaits
  <2>3. /\ report.db \in Connection(Log) /\ report.db.depth = 0
        /\ {report.db.disk, report.db.work} \subseteq {db.disk, db.work}
        /\ report.ok => report.db.disk = db.work /\ report.db.work = db.work
    BY <1>1, <2>2, QuietWrite
  <2>4. mishaps' \in 0..MaxMishaps
    BY <1>1, <2>1, ChargeBound, CostIsNat
  <2>5. CASE report.ok
    <3>1. TypeOK' /\ BatchDepth'
      BY <1>1, <2>1, <2>3, <2>4, <2>5 DEF TypeOK, Phases, BatchDepth
    <3>2. Pending' /\ BacklogWaits'
      BY <2>1, <2>2, <2>3, <2>5 DEF Pending, NothingPending, BacklogWaits
    <3>3. Whole(db'.disk) /\ Whole(db'.work)
      BY <1>1, <2>1, <2>3, <2>5
    <3>4. DiskStep
      BY <2>1, <2>2, <2>3, <2>5 DEF DiskStep
    <3>5. QED
      BY <3>1, <3>2, <3>3, <3>4, Assemble
  <2>6. CASE ~report.ok
    <3>1. PICK last \in OtherRow(report.db) : Exit(last.db)
      BY <2>1, <2>6
    <3>2. last.db \in Connection(Log) /\ last.db.disk \in {db.disk, db.work}
      BY <2>3, QuietWrite
    <3>3. QED
      BY <2>2, <2>4, <3>1, <3>2, ExitStep
  <2>7. QED
    BY <2>5, <2>6
<1>16. ASSUME NEW last \in OtherRow(db), Exit(last.db), pc # "observing",
              mishaps' \in 0..MaxMishaps
       PROVE  IInv' /\ DiskStep
  <2>1. last.db \in Connection(Log) /\ last.db.disk \in {db.disk, db.work}
    BY <1>1, QuietWrite
  <2>2. QED
    BY <1>16, <2>1, ExitStep
<1>17. CASE Rotate
  BY <1>1, <1>16, <1>17 DEF Rotate, TypeOK
<1>18. CASE Interrupt
  BY <1>1, <1>16, <1>18, ChargeBound DEF Interrupt
<1>19. CASE Crash
  <2>1. mishaps' \in 0..MaxMishaps
    BY <1>1, <1>19, ChargeBound DEF Crash
  <2>2. CASE pc # "observing"
    BY <1>1, <1>19, <2>1, <2>2, ExitStep DEF Crash
  <2>3. CASE pc = "observing"
    <3>1. /\ db' \in Connection(Log) /\ db'.disk = db.disk /\ db'.work = db.disk
          /\ db'.depth = 0 /\ pc' = "down" /\ backlog' = {} /\ age' = age /\ left' = 0
      BY <1>1, <1>19 DEF Crash, Exit, Connect, Connection
    <3>2. TypeOK' /\ BatchDepth'
      BY <1>1, <2>1, <3>1, PredictionsAssumption DEF TypeOK, Phases, BatchDepth
    <3>3. QED
      BY <3>1, <3>2, QuietStep
  <2>4. QED
    BY <2>2, <2>3
<1>20. CASE UNCHANGED vars
  <2>1. /\ db' = db /\ pc' = pc /\ age' = age /\ left' = left
        /\ backlog' = backlog /\ mishaps' = mishaps
    BY <1>20 DEF vars
  <2>2. TypeOK' /\ Pending' /\ BatchDepth' /\ BacklogWaits'
    BY <1>1, <2>1
       DEF TypeOK, Pending, NothingPending, Grown, Settled, Status, BatchDepth,
           BacklogWaits
  <2>3. QED
    BY <1>1, <2>1, <2>2, Assemble DEF DiskStep
<1>21. QED
  BY <1>3, <1>4, <1>5, <1>6, <1>7, <1>8, <1>9, <1>10, <1>11, <1>12, <1>14, <1>15,
     <1>17, <1>18, <1>19, <1>20 DEF Next, ProcessStep

LEMMA InitInvariant == Init => IInv
<1> SUFFICES ASSUME Init PROVE IInv
  OBVIOUS
<1>1. EmptyLog \in Log
  BY PredictionsAssumption DEF EmptyLog, Log
<1>2. /\ db \in Connection(Log) /\ db.disk = EmptyLog /\ db.work = EmptyLog
      /\ db.depth = 0
  BY <1>1 DEF Init, Connect, Connection
<1>3. TypeOK
  BY <1>2, PredictionsAssumption DEF Init, TypeOK, Phases
<1>4. \A id \in Ids : Status(EmptyLog, id) = "absent"
  BY DEF EmptyLog, Status
<1>5. Whole(EmptyLog)
  BY <1>4 DEF Whole
<1>6. Pending /\ BatchDepth /\ BacklogWaits
  BY <1>2 DEF Init, Pending, NothingPending, BatchDepth, BacklogWaits
<1>7. QED
  BY <1>2, <1>3, <1>5, <1>6 DEF IInv

LEMMA Invariance == Spec => []IInv
<1>1. IInv /\ [Next]_vars => IInv'
  BY StepInvariant
<1>2. QED
  BY InitInvariant, <1>1, PTL DEF Spec

-----------------------------------------------------------------------------
(* Every behaviour keeps the shapes of the variables: ids stay within the  *)
(* sequence, the connection is a connection, budgets are respected.        *)
THEOREM TypeCorrect == Spec => []TypeOK
<1>1. IInv => TypeOK
  BY DEF IInv
<1>2. QED
  BY Invariance, <1>1, PTL

(* Whatever the database refuses and wherever the process dies, an         *)
(* evaluated prediction is safe: between two predictions, and through the  *)
(* rest of the cycle, nothing of it waits for a commit.                    *)
THEOREM NoWorkPending == Spec => []NothingPending
<1>1. IInv => NothingPending
  BY DEF IInv, Pending
<1>2. QED
  BY Invariance, <1>1, PTL

(* The initial tables are those of the empty log.                          *)
LEMMA InitRefined == Init => Abstract!LogInit
<1> SUFFICES ASSUME Init PROVE Abstract!LogInit
  OBVIOUS
<1>1. db.disk = EmptyLog
  BY DEF Init, Connect
<1>2. \A id \in Ids : Status(EmptyLog, id) = "absent"
  BY DEF EmptyLog, Status
<1>3. QED
  BY <1>1, <1>2 DEF Abstract!LogInit

(* Predictions of a batch that becomes visible are recorded; a prediction  *)
(* whose mark becomes visible is settled; everything else is a stutter.    *)
LEMMA StepRefined ==
  ASSUME DiskStep
  PROVE  [Abstract!LogNext]_([id \in Ids |-> Status(db.disk, id)])
<1> DEFINE old == [id \in Ids |-> Status(db.disk, id)]
           now == [id \in Ids |-> Status(db'.disk, id)]
<1>1. CASE \A id \in Ids : Status(db'.disk, id) = Status(db.disk, id)
  BY <1>1 DEF Status
<1>2. CASE Grown(db.disk, db'.disk)
  <2> DEFINE new == {id \in Ids : old[id] = "absent" /\ now[id] = "waiting"}
  <2>1. \A id \in new : old[id] = "absent"
    OBVIOUS
  <2>2. now = [id \in Ids |-> IF id \in new THEN "waiting" ELSE old[id]]
    BY <1>2 DEF Grown
  <2>3. Abstract!Record(new)
    BY <2>1, <2>2 DEF Abstract!Record, Status
  <2>4. QED
    BY <2>3 DEF Abstract!LogNext
<1>3. ASSUME NEW id \in Ids, Status(db.disk, id) = "waiting",
             Status(db'.disk, id) \in {"scored", "unscored"},
             \A other \in Ids : other # id => Status(db'.disk, other) = Status(db.disk, other)
      PROVE  Abstract!LogNext
  <2>1. old[id] = "waiting"
    BY <1>3
  <2>2. now = [old EXCEPT ![id] = Status(db'.disk, id)]
    BY <1>3
  <2>3. Abstract!Settle(id)
    BY <1>3, <2>1, <2>2 DEF Abstract!Settle, Status
  <2>4. QED
    BY <2>3 DEF Abstract!LogNext
<1>4. QED
  BY <1>1, <1>2, <1>3 DEF DiskStep, Settled

(* "Each one exactly once": the committed tables of every behaviour are a  *)
(* behaviour of the prediction log.                                        *)
THEOREM LogRefined == Spec => LogSpec
<1>1. IInv /\ [Next]_vars => [Abstract!LogNext]_([id \in Ids |-> Status(db.disk, id)])
  BY StepInvariant, StepRefined
<1>2. QED
  BY InitRefined, Invariance, <1>1, PTL DEF Spec, LogSpec, Abstract!LogSpec

(* The rows of predictions are safe, whatever the database refuses.        *)
THEOREM RowsStaySafe == Spec => []RowsAreSafe
<1>1. TypeOK /\ NothingPending => RowsAreSafe
  BY DEF RowsAreSafe
<1>2. QED
  BY <1>1, TypeCorrect, NoWorkPending, PTL
=============================================================================
