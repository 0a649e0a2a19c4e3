---------------------------- MODULE ObservatoryDB ----------------------------
(***************************************************************************)
(* The transaction discipline of ObservatoryDB: one sqlite3 connection in  *)
(* Python's legacy transaction mode, the re-entrant batch() wrapper that   *)
(* defers commits, and the writers that commit on their own.               *)
(*                                                                         *)
(* A connection is a record: `disk' is what every other connection and     *)
(* every later process sees, `work' is what this connection sees, `txn'    *)
(* says whether a transaction is open (the driver opens one before the     *)
(* first INSERT, UPDATE or DELETE and it stays open when that statement is *)
(* refused), and `depth' is _batch_depth.                                  *)
(*                                                                         *)
(* The operators are generic in the content of the tables.  A writer       *)
(* yields the set of its possible results: what is left of the connection, *)
(* and whether the method returned or raised.                              *)
(***************************************************************************)
EXTENDS Naturals

CONSTANT
  DBFaults  \* what the database may refuse once the retries are used up

FaultKinds == {"statement", "commit"}

ASSUME DBFaultsAssumption == DBFaults \subseteq FaultKinds

-----------------------------------------------------------------------------
Connection(Content) ==
  [disk : Content, work : Content, txn : BOOLEAN, depth : Nat]

Connect(content) ==
  [disk |-> content, work |-> content, txn |-> FALSE, depth |-> 0]

(* One DML statement: the driver's implicit BEGIN, then its effect.        *)
Execute(d, content) == [d EXCEPT !.work = content, !.txn = TRUE]

(* The implicit BEGIN went through and the statement itself was refused.   *)
Refuse(d) == [d EXCEPT !.txn = TRUE]

Commit(d) == [d EXCEPT !.disk = d.work, !.txn = FALSE]

Rollback(d) == [d EXCEPT !.work = d.disk, !.txn = FALSE]

-----------------------------------------------------------------------------
Returned(d) == [ok |-> TRUE, db |-> d]
Raised(d) == [ok |-> FALSE, db |-> d]

(* The connection proxy retries a locked or busy call six times, then lets *)
(* the error through; any other error it lets through at once.             *)
Refused(kind, outcomes) == IF kind \in DBFaults THEN outcomes ELSE {}

(* Without a transaction commit() does nothing.  A COMMIT refused as busy  *)
(* leaves the transaction open; one that failed on a full or broken disk   *)
(* may have rolled it back.                                                *)
CommitNow(d) ==
  IF d.txn
  THEN {Returned(Commit(d))}
         \cup Refused("commit", {Raised(d), Raised(Rollback(d))})
  ELSE {Returned(d)}

CommitOrDefer(d) == IF d.depth > 0 THEN {Returned(d)} ELSE CommitNow(d)

(* Any per-row writer: one statement, then _commit_or_defer.               *)
Write(d, content) ==
  CommitOrDefer(Execute(d, content)) \cup Refused("statement", {Raised(Refuse(d))})

(* upsert_outcome_and_mark_evaluated: an explicit BEGIN, which sqlite      *)
(* refuses inside an open transaction, two statements, _commit_or_defer;   *)
(* any exception rolls the connection back.                                *)
RecordOutcome(d, content) ==
  IF d.txn THEN {Raised(Rollback(d))}
  ELSE {IF r.ok THEN r ELSE Raised(Rollback(r.db)) : r \in Write(d, content)}

-----------------------------------------------------------------------------
(* batch(): only the outermost block commits, on a normal exit, or rolls   *)
(* back, on an exception of its body or of that commit.                    *)
EnterBatch(d) == [d EXCEPT !.depth = @ + 1]

AbortBatch(d) ==
  [(IF d.depth = 1 THEN Rollback(d) ELSE d) EXCEPT !.depth = @ - 1]

LeaveBatch(d) ==
  IF d.depth = 1
  THEN {[r EXCEPT !.db = IF r.ok THEN [@ EXCEPT !.depth = 0]
                                 ELSE AbortBatch(@)] : r \in CommitNow(d)}
  ELSE {Returned([d EXCEPT !.depth = @ - 1])}
=============================================================================
