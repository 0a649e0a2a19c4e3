------------------------ MODULE ObservatoryDBProofs ------------------------
(***************************************************************************)
(* What the writers of ObservatoryDB may leave behind, for every content   *)
(* and every pattern of refusals: the lemmas the proofs about its users    *)
(* rest on.                                                                *)
(***************************************************************************)
EXTENDS ObservatoryDB, TLAPS

(* The primitive steps of a connection keep its type; `disk' moves only on *)
(* a commit, `depth' never.                                                *)
LEMMA PrimitiveSteps ==
  ASSUME NEW C, NEW d \in Connection(C), NEW content \in C
  PROVE  /\ Execute(d, content) \in Connection(C)
         /\ Execute(d, content).disk = d.disk
         /\ Execute(d, content).work = content
         /\ Execute(d, content).depth = d.depth
         /\ Refuse(d) \in Connection(C)
         /\ Refuse(d).disk = d.disk
         /\ Refuse(d).work = d.work
         /\ Refuse(d).depth = d.depth
         /\ Commit(d) \in Connection(C)
         /\ Commit(d).disk = d.work
         /\ Commit(d).work = d.work
         /\ Commit(d).depth = d.depth
         /\ Rollback(d) \in Connection(C)
         /\ Rollback(d).disk = d.disk
         /\ Rollback(d).work = d.disk
         /\ Rollback(d).depth = d.depth
BY DEF Connection, Execute, Refuse, Commit, Rollback

(* What a statement leaves pending, on its own for the cases below.        *)
LEMMA PendingStatement ==
  ASSUME NEW C, NEW d \in Connection(C), NEW content \in C
  PROVE  /\ Execute(d, content) \in Connection(C)
         /\ Execute(d, content).disk = d.disk
         /\ Execute(d, content).work = content
         /\ Execute(d, content).depth = d.depth
BY DEF Connection, Execute

(* Every result of a writer: the new content committed or, in a batch,     *)
(* pending; or a refusal, after which the new content is pending, or       *)
(* rolled back, or was never there.                                        *)
LEMMA WriteResult ==
  ASSUME NEW C, NEW d \in Connection(C), NEW content \in C,
         NEW r \in Write(d, content)
  PROVE  /\ r.db \in Connection(C)
         /\ r.db.depth = d.depth
         /\ \/ r.ok /\ r.db.work = content /\ r.db.disk \in {d.disk, content}
            \/ ~r.ok /\ r.db.disk = d.disk /\ r.db.work \in {d.disk, d.work, content}
         /\ r.ok /\ d.depth = 0 => r.db.disk = content
<1> DEFINE e == Execute(d, content)
<1>1. e \in Connection(C) /\ e.disk = d.disk /\ e.work = content /\ e.depth = d.depth
  BY PrimitiveSteps
<1>2. r \in {Returned(e), Returned(Commit(e)), Raised(e), Raised(Rollback(e)),
            Raised(Refuse(d))}
  BY DEF Write, CommitOrDefer, CommitNow, Refused
<1>3. /\ Commit(e) \in Connection(C) /\ Commit(e).disk = e.work
      /\ Commit(e).work = e.work /\ Commit(e).depth = e.depth
      /\ Rollback(e) \in Connection(C) /\ Rollback(e).disk = e.disk
      /\ Rollback(e).work = e.disk /\ Rollback(e).depth = e.depth
  BY <1>1, PrimitiveSteps
<1>4. /\ Refuse(d) \in Connection(C) /\ Refuse(d).disk = d.disk
      /\ Refuse(d).work = d.work /\ Refuse(d).depth = d.depth
  BY PrimitiveSteps
<1> HIDE DEF e
<1>5. CASE r.ok
  <2>1. r = Returned(e) \/ r = Returned(Commit(e))
    BY <1>2, <1>5 DEF Returned, Raised
  <2>2. r.db = e \/ r.db = Commit(e)
    BY <2>1 DEF Returned
  <2>3. d.depth = 0 => r = Returned(Commit(e))
    <3>1. ~(e.depth > 0) => r \in CommitNow(e) \/ r = Raised(Refuse(d))
      BY DEF Write, CommitOrDefer, Refused, e
    <3>2. CommitNow(e) \subseteq {Returned(Commit(e)), Raised(e), Raised(Rollback(e))}
      <4>1. e.txn = TRUE
        BY DEF e, Execute, Connection
      <4>2. QED
        BY <4>1 DEF CommitNow, Refused
    <3>3. \A c : ~Raised(c).ok
      BY DEF Raised
    <3>4. QED
      BY <1>1, <1>5, <3>1, <3>2, <3>3
  <2>4. d.depth = 0 => r.db = Commit(e)
    BY <2>3 DEF Returned
  <2>5. QED
    BY <1>1, <1>3, <1>5, <2>2, <2>4
<1>6. CASE ~r.ok
  <2>1. r = Raised(e) \/ r = Raised(Rollback(e)) \/ r = Raised(Refuse(d))
    BY <1>2, <1>6 DEF Returned, Raised
  <2>2. r.db = e \/ r.db = Rollback(e) \/ r.db = Refuse(d)
    BY <2>1 DEF Raised
  <2>3. /\ r.db \in Connection(C)
        /\ r.db.depth = d.depth
        /\ r.db.disk = d.disk
        /\ r.db.work \in {d.disk, d.work, content}
    BY <1>1, <1>3, <1>4, <2>2
  <2>4. QED
    BY <1>6, <2>3
<1>7. QED
  BY <1>5, <1>6

(* Entering a batch changes nothing but the depth.                         *)
LEMMA BatchEntry ==
  ASSUME NEW C, NEW d \in Connection(C), d.depth = 0
  PROVE  /\ EnterBatch(d) \in Connection(C)
         /\ EnterBatch(d).depth = 1
         /\ EnterBatch(d).disk = d.disk
         /\ EnterBatch(d).work = d.work
BY DEF EnterBatch, Connection

(* Leaving the outermost batch commits what is pending or rolls it back.   *)
LEMMA BatchExit ==
  ASSUME NEW C, NEW d \in Connection(C), d.depth = 1
  PROVE  /\ AbortBatch(d) \in Connection(C)
         /\ AbortBatch(d).depth = 0
         /\ AbortBatch(d).disk = d.disk
         /\ AbortBatch(d).work = d.disk
         /\ \A r \in LeaveBatch(d) :
              /\ r.db \in Connection(C)
              /\ r.db.depth = 0
              /\ {r.db.disk, r.db.work} \subseteq {d.disk, d.work}
<1>1. ASSUME NEW e \in Connection(C), e.depth = 1
      PROVE  /\ AbortBatch(e) \in Connection(C)
             /\ AbortBatch(e).depth = 0
             /\ AbortBatch(e).disk = e.disk
             /\ AbortBatch(e).work = e.disk
  <2>1. AbortBatch(e) = [Rollback(e) EXCEPT !.depth = @ - 1]
    BY <1>1 DEF AbortBatch
  <2>2. /\ Rollback(e) \in Connection(C) /\ Rollback(e).depth = 1
        /\ Rollback(e).disk = e.disk /\ Rollback(e).work = e.disk
    BY <1>1, PrimitiveSteps DEF Connection
  <2>3. QED
    BY <2>1, <2>2 DEF Connection
<1>2. ASSUME NEW r \in LeaveBatch(d)
      PROVE  /\ r.db \in Connection(C)
             /\ r.db.depth = 0
             /\ {r.db.disk, r.db.work} \subseteq {d.disk, d.work}
  <2>1. /\ Commit(d) \in Connection(C) /\ Commit(d).depth = 1
        /\ Commit(d).disk = d.work /\ Commit(d).work = d.work
        /\ Rollback(d) \in Connection(C) /\ Rollback(d).depth = 1
        /\ Rollback(d).disk = d.disk /\ Rollback(d).work = d.disk
    BY PrimitiveSteps DEF Connection
  <2>2. \/ r.db = [Commit(d) EXCEPT !.depth = 0]
        \/ r.db = [d EXCEPT !.depth = 0]
        \/ r.db = AbortBatch(d)
        \/ r.db = AbortBatch(Rollback(d))
    <3>1. PICK q \in CommitNow(d) :
            r = [q EXCEPT !.db = IF q.ok THEN [@ EXCEPT !.depth = 0]
                                         ELSE AbortBatch(@)]
      BY DEF LeaveBatch
    <3>2. \/ q = Returned(Commit(d))
          \/ q = Returned(d)
          \/ q = Raised(d)
          \/ q = Raised(Rollback(d))
      BY DEF CommitNow, Refused
    <3>3. CASE q = Returned(Commit(d))
      BY <3>1, <3>3 DEF Returned
    <3>4. CASE q = Raised(d)
      BY <3>1, <3>4 DEF Raised
    <3>5. CASE q = Raised(Rollback(d))
      BY <3>1, <3>5 DEF Raised
    <3>6. CASE q = Returned(d)
      BY <3>1, <3>6 DEF Returned
    <3>7. QED
      BY <3>2, <3>3, <3>4, <3>5, <3>6
  <2>3. CASE r.db = [Commit(d) EXCEPT !.depth = 0]
    BY <2>1, <2>3 DEF Connection
  <2>4. CASE r.db = AbortBatch(d)
    BY <1>1, <2>4
  <2>5. CASE r.db = AbortBatch(Rollback(d))
    BY <1>1, <2>1, <2>5
  <2>6. CASE r.db = [d EXCEPT !.depth = 0]
    BY <2>6 DEF Connection
  <2>7. QED
    BY <2>2, <2>3, <2>4, <2>5, <2>6
<1>3. QED
  BY <1>1, <1>2

(* Outside a batch an outcome is committed with its mark, or nothing of it *)
(* is left.                                                                *)
LEMMA OutcomeResult ==
  ASSUME NEW C, NEW d \in Connection(C), NEW content \in C, d.depth = 0,
         NEW r \in RecordOutcome(d, content)
  PROVE  /\ r.db \in Connection(C)
         /\ r.db.depth = 0
         /\ \/ r.ok /\ r.db.disk = content /\ r.db.work = content
            \/ ~r.ok /\ r.db.disk = d.disk /\ r.db.work = d.disk
<1>1. ASSUME NEW e \in Connection(C)
      PROVE  /\ Raised(Rollback(e)).db \in Connection(C)
             /\ Raised(Rollback(e)).db.depth = e.depth
             /\ ~Raised(Rollback(e)).ok
             /\ Raised(Rollback(e)).db.disk = e.disk
             /\ Raised(Rollback(e)).db.work = e.disk
  BY DEF Raised, Rollback, Connection
<1>2. CASE r = Raised(Rollback(d))
  BY <1>1, <1>2
<1>3. ASSUME NEW w \in Write(d, content), r = IF w.ok THEN w ELSE Raised(Rollback(w.db))
      PROVE  /\ r.db \in Connection(C)
             /\ r.db.depth = 0
             /\ \/ r.ok /\ r.db.disk = content /\ r.db.work = content
                \/ ~r.ok /\ r.db.disk = d.disk /\ r.db.work = d.disk
  <2>1. /\ w.db \in Connection(C)
        /\ w.db.depth = 0
        /\ \/ w.ok /\ w.db.work = content /\ w.db.disk \in {d.disk, content}
           \/ ~w.ok /\ w.db.disk = d.disk /\ w.db.work \in {d.disk, d.work, content}
        /\ w.ok => w.db.disk = content
    BY WriteResult
  <2>2. CASE w.ok
    BY <1>3, <2>1, <2>2
  <2>3. CASE ~w.ok
    <3>1. r = Raised(Rollback(w.db))
      BY <1>3, <2>3
    <3>2. QED
      BY <1>1, <2>1, <2>3, <3>1
  <2>4. QED
    BY <2>2, <2>3
<1>4. QED
  BY <1>2, <1>3 DEF RecordOutcome

(* The outermost batch leaves nothing pending when it ends: all of it is   *)
(* committed, or all of it is rolled back.                                 *)
LEMMA BatchOutcome ==
  ASSUME NEW C, NEW d \in Connection(C), d.depth = 1, d.txn \/ d.work = d.disk,
         NEW r \in LeaveBatch(d)
  PROVE  /\ r.db \in Connection(C)
         /\ r.db.depth = 0
         /\ r.db.work = r.db.disk
         /\ r.db.disk \in {d.disk, d.work}
<1>1. PICK q \in CommitNow(d) :
        r = [q EXCEPT !.db = IF q.ok THEN [@ EXCEPT !.depth = 0]
                                     ELSE AbortBatch(@)]
  BY DEF LeaveBatch
<1>2. /\ Commit(d) \in Connection(C) /\ Commit(d).depth = 1
      /\ Commit(d).disk = d.work /\ Commit(d).work = d.work
      /\ Rollback(d) \in Connection(C) /\ Rollback(d).depth = 1
      /\ Rollback(d).disk = d.disk
  BY PrimitiveSteps DEF Connection
<1>3. \/ q = Returned(Commit(d))
      \/ q = Returned(d) /\ ~d.txn
      \/ q = Raised(d)
      \/ q = Raised(Rollback(d))
  BY DEF CommitNow, Refused
<1>4. CASE q = Returned(Commit(d))
  <2>1. r.db = [Commit(d) EXCEPT !.depth = 0]
    BY <1>1, <1>4 DEF Returned
  <2>2. QED
    BY <1>2, <2>1 DEF Connection
<1>5. CASE q = Returned(d) /\ ~d.txn
  <2>1. r.db = [d EXCEPT !.depth = 0]
    BY <1>1, <1>5 DEF Returned
  <2>2. QED
    BY <1>5, <2>1 DEF Connection
<1>6. CASE q = Raised(d)
  <2>1. r.db = AbortBatch(d)
    BY <1>1, <1>6 DEF Raised
  <2>2. QED
    BY <2>1, BatchExit
<1>7. CASE q = Raised(Rollback(d))
  <2>1. r.db = AbortBatch(Rollback(d))
    BY <1>1, <1>7 DEF Raised
  <2>2. QED
    BY <1>2, <2>1, BatchExit
<1>8. QED
  BY <1>3, <1>4, <1>5, <1>6, <1>7

(* A database that refuses nothing.  Every write returns and, outside a    *)
(* batch, is committed; the batch commits what it did.                     *)
LEMMA WriteReturns ==
  ASSUME DBFaults = {}, NEW C, NEW d \in Connection(C), NEW content \in C,
         NEW r \in Write(d, content)
  PROVE  /\ r.ok /\ r.db \in Connection(C) /\ r.db.depth = d.depth /\ r.db.work = content
         /\ d.depth = 0 => r.db.disk = content /\ ~r.db.txn
<1> DEFINE e == Execute(d, content)
<1>1. e \in Connection(C) /\ e.depth = d.depth /\ e.txn = TRUE
  BY DEF Execute, Connection
<1> HIDE DEF e
<1>2. r \in CommitOrDefer(e)
  BY DEF Write, Refused, e
<1>3. CommitNow(e) = {Returned(Commit(e))}
  BY <1>1 DEF CommitNow, Refused
<1>4. r \in {Returned(e), Returned(Commit(e))} /\ (~(e.depth > 0) => r = Returned(Commit(e)))
  BY <1>2, <1>3 DEF CommitOrDefer
<1>5. r.ok /\ (~(e.depth > 0) => r.db = Commit(e))
  BY <1>4 DEF Returned
<1>6. Commit(e).txn = FALSE
  BY <1>1 DEF Commit, Connection
<1>7. d.depth = 0 => ~r.db.txn
  BY <1>1, <1>5, <1>6
<1>8. QED
  BY <1>5, <1>7, WriteResult

LEMMA OutcomeReturns ==
  ASSUME DBFaults = {}, NEW C, NEW d \in Connection(C), NEW content \in C,
         ~d.txn, NEW r \in RecordOutcome(d, content)
  PROVE  r \in Write(d, content)
<1>1. \A w \in Write(d, content) : w.ok
  BY WriteReturns
<1>2. QED
  BY <1>1 DEF RecordOutcome

LEMMA BatchReturns ==
  ASSUME DBFaults = {}, NEW C, NEW d \in Connection(C), d.depth = 1, d.txn \/ d.work = d.disk,
         NEW r \in LeaveBatch(d)
  PROVE  /\ r.ok /\ r.db \in Connection(C) /\ r.db.depth = 0 /\ ~r.db.txn
         /\ r.db.disk = d.work /\ r.db.work = d.work
<1>1. PICK q \in CommitNow(d) :
        r = [q EXCEPT !.db = IF q.ok THEN [@ EXCEPT !.depth = 0] ELSE AbortBatch(@)]
  BY DEF LeaveBatch
<1>2. \/ q = Returned(Commit(d))
      \/ q = Returned(d) /\ ~d.txn
  BY DEF CommitNow, Refused
<1>3. CASE q = Returned(Commit(d))
  <2>1. Commit(d) \in Connection(C) /\ Commit(d).disk = d.work /\ Commit(d).work = d.work
        /\ Commit(d).txn = FALSE
    BY DEF Commit, Connection
  <2>2. r = Returned([Commit(d) EXCEPT !.depth = 0])
    BY <1>1, <1>3 DEF Returned
  <2>3. QED
    BY <2>1, <2>2 DEF Connection, Returned
<1>4. CASE q = Returned(d) /\ ~d.txn
  <2>1. r = Returned([d EXCEPT !.depth = 0])
    BY <1>1, <1>4 DEF Returned
  <2>2. QED
    BY <1>4, <2>1 DEF Connection, Returned
<1>5. QED
  BY <1>2, <1>3, <1>4
=============================================================================
