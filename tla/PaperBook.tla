------------------------------ MODULE PaperBook ------------------------------
(***************************************************************************)
(* The observer's paper book: the positions it holds in memory (_open) and *)
(* the paper_trades table they are supposed to mirror, through the cycle   *)
(* of run_once, the crash recovery of run_forever, restarts by launchd,    *)
(* and a database that may refuse a statement or a commit.                 *)
(*                                                                         *)
(* `pc' is where the single thread is.  One step is the code between two   *)
(* points where another outcome (a refused write, a crash) leaves a        *)
(* different state.  The cooldown is kept as the number of cycles it still *)
(* has to run, so the cycle counter itself is not needed.                  *)
(***************************************************************************)
EXTENDS ObservatoryDB, Integers, FiniteSets

CONSTANTS
  Symbols,            \* the watchlist
  NoSymbol,           \* marks a trade that belongs to nobody
  MaxOpenPositions,   \* RiskConfig.max_open_positions
  LossCooldownBars,   \* RiskConfig.loss_cooldown_bars
  MaxTrades,          \* bound: trades that may ever be inserted
  MaxMishaps          \* bound: refused writes, crashes and operator stops

ASSUME PaperBookAssumption ==
  /\ IsFiniteSet(Symbols)
  /\ NoSymbol \notin Symbols
  /\ MaxOpenPositions \in Nat
  /\ LossCooldownBars \in Nat
  /\ MaxTrades \in Nat
  /\ MaxMishaps \in Nat

VARIABLES
  pc,        \* "down" while no observer process runs
  db,        \* the connection, its content being the paper_trades table
  open,      \* _open: the trade each symbol is held under, or NoTrade
  todo,      \* symbols the loop under way has not visited
  cooldown,  \* cycles before the post-loss cooldown ends
  mishaps    \* how many of MaxMishaps have happened

vars == <<pc, db, open, todo, cooldown, mishaps>>

-----------------------------------------------------------------------------
NoTrade == 0
TradeIds == 1..MaxTrades
Exits == {"stop", "target"}

Row == [status : {"absent", "open", "closed"},
        symbol : Symbols \cup {NoSymbol},
        closer : Symbols \cup {NoSymbol},
        exit   : Exits \cup {"none"}]

Absent == [status |-> "absent", symbol |-> NoSymbol,
           closer |-> NoSymbol, exit |-> "none"]

(* `seq' is the AUTOINCREMENT sequence; it is part of the transaction.     *)
Table == [rows : [TradeIds -> Row], seq : 0..MaxTrades]

EmptyTable == [rows |-> [id \in TradeIds |-> Absent], seq |-> 0]

IsOpen(table, id) == table.rows[id].status = "open"

OpenIds(table) == {id \in TradeIds : IsOpen(table, id)}

(* INSERT INTO paper_trades, status 'open'.                                *)
NextId(table) == table.seq + 1

InsertTrade(table, s) ==
  [rows |-> [table.rows EXCEPT ![NextId(table)] =
               [Absent EXCEPT !.status = "open", !.symbol = s]],
   seq  |-> NextId(table)]

(* UPDATE paper_trades ... WHERE id=?: whatever row has that id, if any,   *)
(* in whatever status, gets the exit the position s computed.  The variant *)
(* closes the last inserted row instead; like every definition below that  *)
(* is called a variant it is used by no action.                            *)
CloseLatestTrade(table, id, s, x) ==
  [table EXCEPT !.rows[table.seq] =
     [@ EXCEPT !.status = "closed", !.closer = s, !.exit = x]]

CloseTrade(table, id, s, x) ==
  [table EXCEPT !.rows[id] =
     IF @.status = "absent" THEN @
     ELSE [@ EXCEPT !.status = "closed", !.closer = s, !.exit = x]]

-----------------------------------------------------------------------------
Held == {s \in Symbols : open[s] # NoTrade}

NothingHeld == [s \in Symbols |-> NoTrade]

(* Variant of Reloaded: a restart that starts from an empty book.          *)
NothingReloaded(table) == NothingHeld

(* _reload_open_positions: a dict filled in the order of the ids, so the   *)
(* last open row of a symbol is the one kept.                              *)
Reloaded(table) ==
  [s \in Symbols |->
     LET ids == {id \in OpenIds(table) : table.rows[id].symbol = s}
     IN  IF ids = {} THEN NoTrade
         ELSE CHOOSE id \in ids : \A other \in ids : other <= id]

(* Variant of MayEnter: the cap lets one position too many in.             *)
MayEnterAtCap(s) ==
  open[s] = NoTrade /\ Cardinality(Held) <= MaxOpenPositions /\ cooldown = 0

(* The guards of _maybe_open_position and of RiskEngine.evaluate_entry.    *)
(* The signal, the gates, the screening, the sizing and the loss limits    *)
(* may block any entry as well: SkipSymbol is always possible.             *)
MayEnter(s) ==
  /\ open[s] = NoTrade
  /\ Cardinality(Held) < MaxOpenPositions
  /\ cooldown = 0

(* One more cycle has begun.                                               *)
OneBarLess(n) == IF n > 0 THEN n - 1 ELSE 0

(* del self._open[symbol], and the variant that forgets it.                *)
StillHeld(s) == open
Released(s) == [open EXCEPT ![s] = NoTrade]

(* A stop lies under the entry, so it loses; a target may lose to fees.    *)
Losses(x) == IF x = "stop" THEN {TRUE} ELSE BOOLEAN

Charge(cost) ==
  /\ mishaps + cost <= MaxMishaps
  /\ mishaps' = mishaps + cost

CostOf(result) == IF result.ok THEN 0 ELSE 1

(* A write of the cycle to a table other than paper_trades.                *)
OtherWrite(d) == Write(d, d.work)

-----------------------------------------------------------------------------
Init ==
  /\ pc = "down"
  /\ db = Connect(EmptyTable)
  /\ open = NothingHeld
  /\ todo = {}
  /\ cooldown = 0
  /\ mishaps = 0

(* A new process: Observer(), then start().  A start whose writes are      *)
(* refused dies before the loop and launchd tries again: no step.          *)
Start ==
  /\ pc = "down"
  /\ pc' = "started"
  /\ open' = Reloaded(db.disk)
  /\ cooldown' = 0
  /\ UNCHANGED <<db, todo, mishaps>>

(* The head of run_once up to the watchlist loop.  The activity rows are   *)
(* written through _activity, which swallows a refusal.                    *)
BeginCycle ==
  /\ pc \in {"started", "idle"}
  /\ \E activity \in OtherWrite(db) :
       /\ Charge(CostOf(activity))
       /\ db' = EnterBatch(activity.db)
  /\ pc' = "observing"
  /\ todo' = Symbols
  /\ cooldown' = OneBarLess(cooldown)
  /\ UNCHANGED open

(* _observe_symbol without an entry: no data (and then nothing is          *)
(* written), no signal, a gate, a guard, or an exception that insert_error *)
(* recorded.                                                               *)
SkipSymbol(s) ==
  /\ pc = "observing"
  /\ s \in todo
  /\ todo' = todo \ {s}
  /\ db' \in {db, Execute(db, db.work)}
  /\ UNCHANGED <<pc, open, cooldown, mishaps>>

(* _observe_symbol with an entry: the row is pending, the book has it.     *)
OpenPosition(s) ==
  /\ pc = "observing"
  /\ s \in todo
  /\ MayEnter(s)
  /\ db.work.seq < MaxTrades
  /\ todo' = todo \ {s}
  /\ db' = Execute(db, InsertTrade(db.work, s))
  /\ open' = [open EXCEPT ![s] = NextId(db.work)]
  /\ UNCHANGED <<pc, cooldown, mishaps>>

(* The insert_error of the loop's own handler is refused: the exception    *)
(* leaves the batch.                                                       *)
FailBatch ==
  /\ pc = "observing"
  /\ "statement" \in DBFaults
  /\ Charge(1)
  /\ db' = AbortBatch(db)
  /\ pc' = "failed"
  /\ todo' = {}
  /\ UNCHANGED <<open, cooldown>>

EndBatch ==
  /\ pc = "observing"
  /\ todo = {}
  /\ \E exit \in LeaveBatch(db) :
       /\ Charge(CostOf(exit))
       /\ db' = exit.db
       /\ pc' = IF exit.ok THEN "ranking" ELSE "failed"
  /\ UNCHANGED <<open, todo, cooldown>>

(* The ranking row is written bare, the activity rows of the ranking and   *)
(* of the idle training through _activity.                                 *)
RankUniverse ==
  /\ pc = "ranking"
  /\ \E row \in OtherWrite(db), swallowed \in BOOLEAN :
       /\ Charge(CostOf(row))
       /\ db' = row.db
       /\ pc' = IF row.ok \/ swallowed THEN "evaluating" ELSE "failed"
  /\ UNCHANGED <<open, todo, cooldown>>

(* _evaluate_predictions: nothing matured, a prediction is only marked, or *)
(* its outcome is recorded.  The BEGIN of an outcome fails by itself, and  *)
(* rolls back, when a swallowed refusal left a transaction open: no        *)
(* further mishap.                                                         *)
EvaluatePredictions ==
  /\ pc = "evaluating"
  /\ \E result \in {Returned(db)} \cup OtherWrite(db)
                     \cup RecordOutcome(db, db.work) :
       /\ Charge(IF db.txn /\ ~result.db.txn THEN 0 ELSE CostOf(result))
       /\ db' = result.db
       /\ pc' = IF result.ok THEN "managing" ELSE "failed"
       /\ todo' = IF result.ok THEN Held ELSE {}
  /\ UNCHANGED <<open, cooldown>>

(* _manage_positions, a position that stays: no price, or a price between  *)
(* its stop and its target.                                                *)
KeepPosition(s) ==
  /\ pc = "managing"
  /\ s \in todo
  /\ todo' = todo \ {s}
  /\ UNCHANGED <<pc, db, open, cooldown, mishaps>>

(* _manage_positions, a position whose stop or target is reached: the row, *)
(* then the risk engine, then the book; a refused write leaves the method  *)
(* and the cycle.                                                          *)
ClosePosition(s, x) ==
  /\ pc = "managing"
  /\ s \in todo
  /\ \E result \in Write(db, CloseTrade(db.work, open[s], s, x)) :
       /\ Charge(CostOf(result))
       /\ db' = result.db
       /\ IF result.ok
          THEN /\ open' = Released(s)
               /\ \E loss \in Losses(x) :
                    cooldown' = IF loss THEN LossCooldownBars ELSE cooldown
               /\ todo' = todo \ {s}
               /\ UNCHANGED pc
          ELSE /\ pc' = "failed"
               /\ todo' = {}
               /\ UNCHANGED <<open, cooldown>>

(* The tail of run_once: safety score, regime, alerts, heartbeat.          *)
FinishCycle ==
  /\ pc = "managing"
  /\ todo = {}
  /\ \E row \in OtherWrite(db) :
       /\ Charge(CostOf(row))
       /\ db' = row.db
       /\ pc' = IF row.ok THEN "idle" ELSE "failed"
  /\ UNCHANGED <<open, todo, cooldown>>

(* An exception where run_once has no handler and nothing is written: a    *)
(* query or a fit in its head (the cycle is counted already), the ranking, *)
(* the learning bookkeeping.                                               *)
CycleRaises ==
  /\ pc \in {"started", "idle", "ranking", "managing"}
  /\ todo = {}
  /\ Charge(1)
  /\ pc' = "failed"
  /\ cooldown' = IF pc \in {"started", "idle"} THEN OneBarLess(cooldown)
                                              ELSE cooldown
  /\ UNCHANGED <<db, open, todo>>

-----------------------------------------------------------------------------
(* The process is gone: its memory with it, the disk as it was.            *)
Exit(d) ==
  /\ pc' = "down"
  /\ db' = Connect(d.disk)
  /\ open' = NothingHeld
  /\ todo' = {}
  /\ cooldown' = 0

(* The except branch of run_forever: insert_error commits what the failed  *)
(* cycle left pending.  If it is refused too, the loop ends in its finally *)
(* block, whose own write may or may not go through.                       *)
RecoverCycle ==
  /\ pc = "failed"
  /\ \E report \in OtherWrite(db) :
       /\ Charge(CostOf(report))
       /\ IF report.ok
          THEN /\ pc' = "idle"
               /\ db' = report.db
               /\ UNCHANGED <<open, todo, cooldown>>
          ELSE \E last \in OtherWrite(report.db) : Exit(last.db)

(* The loop ends by itself after a cycle: memory rotation, the end of the  *)
(* learning window, the abort after too many failures.                     *)
Rotate ==
  /\ pc = "idle"
  /\ \E last \in OtherWrite(db) : Exit(last.db)
  /\ UNCHANGED mishaps

(* SIGINT or SIGTERM, honoured between two cycles.                         *)
Interrupt ==
  /\ pc \in {"started", "idle"}
  /\ Charge(1)
  /\ \E last \in OtherWrite(db) : Exit(last.db)

(* SIGKILL (the watchdog's kickstart -k) or an out-of-memory: what was     *)
(* committed stays.                                                        *)
Crash ==
  /\ pc # "down"
  /\ Charge(1)
  /\ Exit(db)

-----------------------------------------------------------------------------
ProcessStep ==
  \/ Start
  \/ BeginCycle
  \/ \E s \in Symbols : SkipSymbol(s) \/ OpenPosition(s)
  \/ FailBatch
  \/ EndBatch
  \/ RankUniverse
  \/ EvaluatePredictions
  \/ \E s \in Symbols : KeepPosition(s)
  \/ \E s \in Symbols, x \in Exits : ClosePosition(s, x)
  \/ FinishCycle
  \/ CycleRaises
  \/ RecoverCycle
  \/ Rotate

Next == ProcessStep \/ Interrupt \/ Crash

Spec == Init /\ [][Next]_vars

(* The loop is one thread that only ever waits for the clock, and launchd  *)
(* starts a process that ended (KeepAlive): the process always takes its   *)
(* next step.  A price beyond the stop or the target is not the code's to  *)
(* promise, so that the feed shows one again and again is assumed.         *)
Fairness ==
  /\ WF_vars(ProcessStep)
  /\ \A s \in Symbols : SF_vars(\E x \in Exits : ClosePosition(s, x))

FairSpec == Spec /\ Fairness

-----------------------------------------------------------------------------
Phases == {"down", "started", "idle", "observing", "ranking", "evaluating",
           "managing", "failed"}

(* Every variable keeps the shape the actions assume.                      *)
TypeOK ==
  /\ pc \in Phases
  /\ db \in Connection(Table)
  /\ open \in [Symbols -> 0..MaxTrades]
  /\ todo \subseteq Symbols
  /\ cooldown \in 0..LossCooldownBars
  /\ mishaps \in 0..MaxMishaps

Covers(book, table) ==
  \A id \in OpenIds(table) : book[table.rows[id].symbol] = id

(* No trade is orphaned: while an observer runs, every open row, committed *)
(* or pending, is the row of a position in _open, the only thing whose     *)
(* stop and target _manage_positions enforces.  It must survive every      *)
(* refusal, rollback, crash and restart.                                   *)
NoOrphanedTrade ==
  pc # "down" => Covers(open, db.disk) /\ Covers(open, db.work)

OneOpenPerSymbol(table) ==
  \A i, j \in OpenIds(table) :
    table.rows[i].symbol = table.rows[j].symbol => i = j

(* A symbol never has two open rows: _reload_open_positions, whose dict    *)
(* keeps one row per symbol, would drop the other one for good.            *)
OneOpenTradePerSymbol ==
  OneOpenPerSymbol(db.disk) /\ OneOpenPerSymbol(db.work)

(* The recorded exposure stays under max_open_positions across restarts    *)
(* and rollbacks, although evaluate_entry counts _open and not the rows.   *)
ExposureCap == Cardinality(OpenIds(db.disk)) <= MaxOpenPositions

(* All state lives in the database: outside a batch each held position is  *)
(* an open, committed row of its own symbol, so that a restart would find  *)
(* exactly the book the process has.                                       *)
BookIsInDatabase ==
  pc # "down" /\ db.depth = 0 =>
    \A s \in Held :
      /\ IsOpen(db.disk, open[s])
      /\ db.disk.rows[open[s]].symbol = s

(* The committed table is a ledger: a trade is recorded once, settled once *)
(* and by its own position, and never changes afterwards.                  *)
Ledger == INSTANCE PaperLedger WITH ledger <- db.disk.rows

LedgerSpec == Ledger!LedgerSpec

(* A recorded trade is eventually settled: neither a failed cycle nor a    *)
(* crash or restart ends the watch over its stop and target.               *)
TradesSettle ==
  \A id \in TradeIds : IsOpen(db.disk, id) ~> ~IsOpen(db.disk, id)

(* What is open is watched: every open row is the row of a position held,  *)
(* and no symbol has two.                                                  *)
OpenTradesAreWatched == TypeOK /\ NoOrphanedTrade /\ OneOpenTradePerSymbol
=============================================================================
