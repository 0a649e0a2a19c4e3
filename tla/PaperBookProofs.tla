--------------------------- MODULE PaperBookProofs ---------------------------
(***************************************************************************)
(* What holds of the paper book for every watchlist, every risk            *)
(* configuration and every pattern of refused writes, crashes and          *)
(* restarts: the types, that no open trade is ever orphaned and that the   *)
(* exposure stays capped; and on a database that refuses nothing, that the *)
(* book is in the database and the committed table a ledger.               *)
(***************************************************************************)
EXTENDS PaperBook, ObservatoryDBProofs, FiniteSetTheorems

-----------------------------------------------------------------------------
Owned(table) == \A id \in OpenIds(table) : table.rows[id].symbol \in Symbols

Sound(table) == Owned(table) /\ OneOpenPerSymbol(table)

(* A new trade of a symbol the book does not hold gets a row of its own,   *)
(* and the book that records it still covers the table.                    *)
LEMMA InsertSound ==
  ASSUME NEW t \in Table, t.seq < MaxTrades, NEW s \in Symbols,
         NEW book \in [Symbols -> 0..MaxTrades], book[s] = NoTrade,
         Sound(t), Covers(book, t)
  PROVE  /\ InsertTrade(t, s) \in Table
         /\ Sound(InsertTrade(t, s))
         /\ Covers([book EXCEPT ![s] = NextId(t)], InsertTrade(t, s))
         /\ [book EXCEPT ![s] = NextId(t)] \in [Symbols -> 0..MaxTrades]
<1> DEFINE u == InsertTrade(t, s)
           b == [book EXCEPT ![s] = NextId(t)]
           new == [Absent EXCEPT !.status = "open", !.symbol = s]
<1>1. NextId(t) \in TradeIds /\ t.rows \in [TradeIds -> Row]
  BY PaperBookAssumption DEF NextId, TradeIds, Table
<1>2. /\ new \in Row /\ new.status = "open" /\ new.symbol = s
  BY DEF Absent, Row
<1> HIDE DEF new
<1>3. /\ u.rows = [t.rows EXCEPT ![NextId(t)] = new]
      /\ u \in Table
  BY <1>1, <1>2, PaperBookAssumption DEF InsertTrade, Table, NextId, new, TradeIds
<1> HIDE DEF u
<1>4. ASSUME NEW id \in OpenIds(u)
      PROVE  u.rows[id].symbol \in Symbols /\ b[u.rows[id].symbol] = id
  <2>1. CASE id = NextId(t)
    BY <1>1, <1>2, <1>3, <2>1
  <2>2. CASE id # NextId(t)
    <3>1. id \in OpenIds(t) /\ u.rows[id] = t.rows[id]
      BY <1>1, <1>3, <2>2 DEF OpenIds, IsOpen
    <3>2. t.rows[id].symbol \in Symbols /\ book[t.rows[id].symbol] = id
      BY <3>1 DEF Sound, Owned, Covers
    <3>3. id # NoTrade
      BY <3>1, PaperBookAssumption DEF OpenIds, TradeIds, NoTrade
    <3>4. QED
      BY <3>1, <3>2, <3>3
  <2>3. QED
    BY <2>1, <2>2
<1>5. Owned(u) /\ Covers(b, u) /\ OneOpenPerSymbol(u)
  BY <1>4 DEF Owned, Covers, OneOpenPerSymbol
<1>6. b \in [Symbols -> 0..MaxTrades]
  BY <1>1, PaperBookAssumption DEF TradeIds
<1>7. QED
  BY <1>3, <1>5, <1>6 DEF Sound, u

(* The other copy of the table has no open row of that symbol to lose.     *)
LEMMA EntryKeepsCover ==
  ASSUME NEW t \in Table, NEW s \in Symbols, NEW id,
         NEW book \in [Symbols -> 0..MaxTrades], book[s] = NoTrade,
         Sound(t), Covers(book, t)
  PROVE  Covers([book EXCEPT ![s] = id], t)
BY PaperBookAssumption
   DEF Covers, Sound, Owned, OpenIds, IsOpen, TradeIds, NoTrade, Table

(* Closing the row a position names leaves the table covered with or       *)
(* without the position, whosever row it is by then.                       *)
LEMMA CloseSound ==
  ASSUME NEW t \in Table, NEW s \in Symbols, NEW x \in Exits,
         NEW book \in [Symbols -> 0..MaxTrades],
         Sound(t), Covers(book, t)
  PROVE  /\ CloseTrade(t, book[s], s, x) \in Table
         /\ Sound(CloseTrade(t, book[s], s, x))
         /\ Covers(book, CloseTrade(t, book[s], s, x))
         /\ Covers([book EXCEPT ![s] = NoTrade], CloseTrade(t, book[s], s, x))
<1> DEFINE u == CloseTrade(t, book[s], s, x)
           old == t.rows[book[s]]
           new == IF old.status = "absent" THEN old
                  ELSE [old EXCEPT !.status = "closed", !.closer = s, !.exit = x]
<1>1. t.rows \in [TradeIds -> Row] /\ t.seq \in 0..MaxTrades
  BY DEF Table
<1>2. u = [t EXCEPT !.rows = [t.rows EXCEPT ![book[s]] = new]]
  BY DEF CloseTrade
<1>3. book[s] \in TradeIds => new \in Row /\ new.status # "open"
  <2>1. SUFFICES ASSUME old \in Row
                 PROVE  new \in Row /\ new.status # "open"
    BY <1>1
  <2> HIDE DEF old
  <2>2. CASE old.status = "absent"
    BY <2>1, <2>2
  <2>3. CASE old.status # "absent"
    BY <2>1, <2>3 DEF Row
  <2>4. QED
    BY <2>2, <2>3
<1> HIDE DEF new
<1>4. u.rows = [t.rows EXCEPT ![book[s]] = new] /\ u.seq = t.seq /\ u \in Table
  BY <1>1, <1>2, <1>3 DEF Table
<1> HIDE DEF u
<1>5. ASSUME NEW id \in OpenIds(u)
      PROVE  id \in OpenIds(t) /\ u.rows[id] = t.rows[id] /\ id # book[s]
  BY <1>1, <1>3, <1>4 DEF OpenIds, IsOpen
<1>6. ASSUME NEW id \in OpenIds(u)
      PROVE  /\ u.rows[id].symbol \in Symbols
             /\ book[u.rows[id].symbol] = id
             /\ u.rows[id].symbol # s
  BY <1>5 DEF Sound, Owned, Covers
<1>7. Owned(u) /\ OneOpenPerSymbol(u)
  BY <1>6 DEF Owned, OneOpenPerSymbol
<1>8. Covers(book, u) /\ Covers([book EXCEPT ![s] = NoTrade], u)
  BY <1>6 DEF Covers
<1>9. QED
  BY <1>4, <1>7, <1>8 DEF Sound, u

(* A restarted observer adopts every open row.                             *)
LEMMA ReloadCovers ==
  ASSUME NEW t \in Table, Sound(t)
  PROVE  /\ Reloaded(t) \in [Symbols -> 0..MaxTrades]
         /\ Covers(Reloaded(t), t)
<1> DEFINE ids(s) == {id \in OpenIds(t) : t.rows[id].symbol = s}
           last(s) == CHOOSE id \in ids(s) : \A other \in ids(s) : other <= id
<1>1. ASSUME NEW s \in Symbols, NEW id \in ids(s)
      PROVE  ids(s) = {id} /\ last(s) = id
  <2>1. ids(s) = {id}
    BY <1>1 DEF Sound, OneOpenPerSymbol
  <2>2. id <= id
    BY PaperBookAssumption DEF OpenIds, TradeIds
  <2>3. QED
    BY <2>1, <2>2
<1>2. Reloaded(t) = [s \in Symbols |-> IF ids(s) = {} THEN NoTrade ELSE last(s)]
  BY DEF Reloaded
<1>3. \A s \in Symbols : \A id \in ids(s) : id \in OpenIds(t)
  OBVIOUS
<1>4. \A id \in OpenIds(t) : id \in ids(t.rows[id].symbol)
  OBVIOUS
<1> HIDE DEF ids, last
<1>5. ASSUME NEW s \in Symbols
      PROVE  (IF ids(s) = {} THEN NoTrade ELSE last(s)) \in 0..MaxTrades
  <2>1. CASE ids(s) = {}
    BY <2>1, PaperBookAssumption DEF NoTrade
  <2>2. CASE ids(s) # {}
    <3>1. PICK id : id \in ids(s)
      BY <2>2
    <3>2. last(s) = id /\ id \in TradeIds
      BY <1>1, <1>3, <3>1 DEF OpenIds
    <3>3. QED
      BY <2>2, <3>2, PaperBookAssumption DEF TradeIds
  <2>3. QED
    BY <2>1, <2>2
<1>6. ASSUME NEW id \in OpenIds(t)
      PROVE  Reloaded(t)[t.rows[id].symbol] = id
  <2>1. t.rows[id].symbol \in Symbols /\ id \in ids(t.rows[id].symbol)
    BY <1>4 DEF Sound, Owned
  <2>2. QED
    BY <1>1, <1>2, <2>1
<1>7. QED
  BY <1>2, <1>5, <1>6 DEF Covers

-----------------------------------------------------------------------------
(* The inductive invariant.  Both copies of the table have one open row    *)
(* per symbol, of a symbol of the watchlist; while a process runs, its     *)
(* book covers both; without one, nothing is pending; and the batch is     *)
(* open exactly while the watchlist is observed.                           *)
Covered ==
  pc # "down" => Covers(open, db.disk) /\ Covers(open, db.work)

BatchDepth == db.depth = IF pc = "observing" THEN 1 ELSE 0

IInv ==
  /\ TypeOK
  /\ Sound(db.disk)
  /\ Sound(db.work)
  /\ Covered
  /\ pc = "down" => db.work = db.disk
  /\ BatchDepth

(* A step that leaves the book alone and only moves rows between the two   *)
(* copies of the table keeps them sound and covered.                       *)
LEMMA StoreMoves ==
  ASSUME IInv, pc # "down", db' \in Connection(Table), open' = open,
         {db'.disk, db'.work} \subseteq {db.disk, db.work}
  PROVE  Sound(db.disk)' /\ Sound(db.work)' /\ Covered'
<1>1. Sound(db.disk) /\ Sound(db.work) /\ Covers(open, db.disk) /\ Covers(open, db.work)
  BY DEF IInv, Covered
<1>2. Sound(db'.disk) /\ Sound(db'.work) /\ Covers(open, db'.disk) /\ Covers(open, db'.work)
  BY <1>1
<1>3. QED
  BY <1>2 DEF Covered, Sound, Owned, OneOpenPerSymbol, Covers, OpenIds, IsOpen

(* Whatever a process leaves behind, the next one starts from the disk.    *)
LEMMA ExitSound ==
  ASSUME IInv, NEW d \in Connection(Table), d.disk \in {db.disk, db.work}, Exit(d),
         mishaps' \in 0..MaxMishaps
  PROVE  IInv'
<1>1. db' \in Connection(Table) /\ db'.disk = d.disk /\ db'.work = d.disk /\ db'.depth = 0
  BY DEF Exit, Connect, Connection
<1>2. TypeOK'
  BY <1>1, PaperBookAssumption
     DEF IInv, TypeOK, Exit, NothingHeld, NoTrade, Phases
<1>3. Sound(d.disk)
  BY DEF IInv
<1>4. Sound(db.disk)' /\ Sound(db.work)'
  BY <1>1, <1>3 DEF Sound, Owned, OneOpenPerSymbol, OpenIds, IsOpen
<1>5. QED
  BY <1>1, <1>2, <1>4 DEF IInv, Covered, BatchDepth, Exit

(* A write to another table changes nothing here but what is committed.    *)
LEMMA OtherWriteMoves ==
  ASSUME NEW d \in Connection(Table), NEW r \in OtherWrite(d)
  PROVE  /\ r.db \in Connection(Table)
         /\ r.db.depth = d.depth
         /\ {r.db.disk, r.db.work} \subseteq {d.disk, d.work}
<1>1. d.work \in Table
  BY DEF Connection
<1>2. QED
  BY <1>1, WriteResult DEF OtherWrite

LEMMA InitInvariant == Init => IInv
<1> SUFFICES ASSUME Init PROVE IInv
  OBVIOUS
<1>1. EmptyTable \in Table
  BY PaperBookAssumption DEF EmptyTable, Table, Absent, Row, TradeIds
<1>2. db \in Connection(Table) /\ db.disk = EmptyTable /\ db.work = EmptyTable /\ db.depth = 0
  BY <1>1 DEF Init, Connect, Connection
<1>3. TypeOK
  BY <1>2, PaperBookAssumption DEF Init, TypeOK, NothingHeld, NoTrade, Phases
<1>4. OpenIds(EmptyTable) = {}
  BY DEF OpenIds, IsOpen, EmptyTable, Absent
<1>5. Sound(EmptyTable)
  BY <1>4 DEF Sound, Owned, OneOpenPerSymbol
<1>6. QED
  BY <1>2, <1>3, <1>5 DEF IInv, Covered, BatchDepth, Init

LEMMA ChargeBound ==
  ASSUME TypeOK, NEW cost \in Nat, Charge(cost)
  PROVE  mishaps' \in 0..MaxMishaps
BY PaperBookAssumption DEF TypeOK, Charge

LEMMA CostIsNat == ASSUME NEW r PROVE CostOf(r) \in Nat
BY DEF CostOf

LEMMA NextInvariant == IInv /\ [Next]_vars => IInv'
<1> SUFFICES ASSUME IInv, [Next]_vars PROVE IInv'
  OBVIOUS
<1>1. /\ TypeOK /\ Sound(db.disk) /\ Sound(db.work) /\ Covered /\ BatchDepth
      /\ db \in Connection(Table) /\ db.disk \in Table /\ db.work \in Table
  BY DEF IInv, TypeOK, Connection
<1>2. CASE Start
  <2>1. Reloaded(db.disk) \in [Symbols -> 0..MaxTrades] /\ Covers(Reloaded(db.disk), db.disk)
    BY <1>1, ReloadCovers
  <2>2. db.work = db.disk
    BY <1>2 DEF IInv, Start
  <2>3. TypeOK' /\ BatchDepth'
    BY <1>1, <1>2, <2>1, PaperBookAssumption DEF Start, TypeOK, Phases, BatchDepth
  <2>4. Covered'
    BY <1>2, <2>1, <2>2 DEF Start, Covered, Covers, OpenIds, IsOpen
  <2>5. QED
    BY <1>1, <1>2, <2>3, <2>4
       DEF Start, IInv, Sound, Owned, OneOpenPerSymbol, OpenIds, IsOpen
<1>3. CASE BeginCycle
  <2>1. PICK activity \in OtherWrite(db) :
          Charge(CostOf(activity)) /\ db' = EnterBatch(activity.db)
    BY <1>3 DEF BeginCycle
  <2>2. /\ activity.db \in Connection(Table) /\ activity.db.depth = 0
        /\ {activity.db.disk, activity.db.work} \subseteq {db.disk, db.work}
    BY <1>1, <1>3, OtherWriteMoves DEF BeginCycle, BatchDepth
  <2>3. /\ db' \in Connection(Table) /\ db'.depth = 1
        /\ {db'.disk, db'.work} \subseteq {db.disk, db.work}
    BY <2>1, <2>2, BatchEntry
  <2>4. mishaps' \in 0..MaxMishaps
    BY <1>1, <2>1, ChargeBound, CostIsNat
  <2>5. cooldown' \in 0..LossCooldownBars
    BY <1>1, <1>3, PaperBookAssumption DEF BeginCycle, OneBarLess, TypeOK
  <2>6. TypeOK' /\ BatchDepth'
    BY <1>1, <1>3, <2>3, <2>4, <2>5 DEF BeginCycle, TypeOK, Phases, BatchDepth
  <2>7. QED
    BY <1>3, <2>3, <2>6, StoreMoves DEF BeginCycle, IInv
<1>4. CASE \E s \in Symbols : SkipSymbol(s)
  <2>1. PICK s \in Symbols : SkipSymbol(s)
    BY <1>4
  <2>2. /\ db' \in Connection(Table) /\ db'.depth = db.depth
        /\ db'.disk = db.disk /\ db'.work = db.work
    <3>1. db' \in {db, Execute(db, db.work)} /\ db.work \in Table
      BY <1>1, <2>1 DEF SkipSymbol, Connection
    <3>2. QED
      BY <1>1, <3>1, PendingStatement
  <2>3. TypeOK' /\ BatchDepth'
    BY <1>1, <2>1, <2>2 DEF SkipSymbol, TypeOK, BatchDepth
  <2>4. QED
    BY <2>1, <2>2, <2>3, StoreMoves DEF SkipSymbol, IInv
<1>5. CASE \E s \in Symbols : OpenPosition(s)
  <2>1. PICK s \in Symbols : OpenPosition(s)
    BY <1>5
  <2>2. /\ open \in [Symbols -> 0..MaxTrades] /\ open[s] = NoTrade
        /\ db.work.seq < MaxTrades /\ pc = "observing"
    BY <1>1, <2>1 DEF OpenPosition, MayEnter, TypeOK
  <2>3. Covers(open, db.disk) /\ Covers(open, db.work)
    BY <1>1, <2>2 DEF Covered
  <2>4. /\ InsertTrade(db.work, s) \in Table
        /\ Sound(InsertTrade(db.work, s))
        /\ Covers(open', InsertTrade(db.work, s))
        /\ open' \in [Symbols -> 0..MaxTrades]
    BY <1>1, <2>1, <2>2, <2>3, InsertSound DEF OpenPosition
  <2>5. Covers(open', db.disk)
    BY <1>1, <2>1, <2>2, <2>3, EntryKeepsCover DEF OpenPosition
  <2>6. /\ db' \in Connection(Table) /\ db'.depth = db.depth
        /\ db'.disk = db.disk /\ db'.work = InsertTrade(db.work, s)
    <3>1. db' = Execute(db, InsertTrade(db.work, s))
      BY <2>1 DEF OpenPosition
    <3>2. QED
      BY <1>1, <2>4, <3>1, PendingStatement
  <2>7. TypeOK' /\ BatchDepth'
    BY <1>1, <2>1, <2>4, <2>6 DEF OpenPosition, TypeOK, BatchDepth
  <2>8. Covered' /\ Sound(db.disk)' /\ Sound(db.work)'
    BY <1>1, <2>4, <2>5, <2>6
       DEF Covered, Sound, Owned, OneOpenPerSymbol, Covers, OpenIds, IsOpen
  <2>9. QED
    BY <2>1, <2>2, <2>7, <2>8 DEF OpenPosition, IInv
<1>6. CASE FailBatch
  <2>1. /\ db' \in Connection(Table) /\ db'.depth = 0
        /\ {db'.disk, db'.work} \subseteq {db.disk, db.work}
    BY <1>1, <1>6, BatchExit DEF FailBatch, BatchDepth
  <2>2. mishaps' \in 0..MaxMishaps
    BY <1>1, <1>6, ChargeBound DEF FailBatch
  <2>3. TypeOK' /\ BatchDepth'
    BY <1>1, <1>6, <2>1, <2>2 DEF FailBatch, TypeOK, Phases, BatchDepth
  <2>4. QED
    BY <1>6, <2>1, <2>3, StoreMoves DEF FailBatch, IInv
<1>7. CASE EndBatch
  <2>1. PICK exit \in LeaveBatch(db) :
          /\ Charge(CostOf(exit)) /\ db' = exit.db
          /\ pc' = IF exit.ok THEN "ranking" ELSE "failed"
    BY <1>7 DEF EndBatch
  <2>2. /\ db' \in Connection(Table) /\ db'.depth = 0
        /\ {db'.disk, db'.work} \subseteq {db.disk, db.work}
    BY <1>1, <1>7, <2>1, BatchExit DEF EndBatch, BatchDepth
  <2>3. mishaps' \in 0..MaxMishaps
    BY <1>1, <2>1, ChargeBound, CostIsNat
  <2>4. pc' \in {"ranking", "failed"}
    BY <2>1
  <2>5. TypeOK' /\ BatchDepth'
    BY <1>1, <1>7, <2>2, <2>3, <2>4 DEF EndBatch, TypeOK, Phases, BatchDepth
  <2>6. QED
    BY <1>7, <2>2, <2>4, <2>5, StoreMoves DEF EndBatch, IInv
<1>8. CASE RankUniverse
  <2>1. PICK row \in OtherWrite(db), swallowed \in BOOLEAN :
          /\ Charge(CostOf(row)) /\ db' = row.db
          /\ pc' = IF row.ok \/ swallowed THEN "evaluating" ELSE "failed"
    BY <1>8 DEF RankUniverse
  <2>2. /\ db' \in Connection(Table) /\ db'.depth = 0
        /\ {db'.disk, db'.work} \subseteq {db.disk, db.work}
    BY <1>1, <1>8, <2>1, OtherWriteMoves DEF RankUniverse, BatchDepth
  <2>3. mishaps' \in 0..MaxMishaps
    BY <1>1, <2>1, ChargeBound, CostIsNat
  <2>4. pc' \in {"evaluating", "failed"}
    BY <2>1
  <2>5. TypeOK' /\ BatchDepth'
    BY <1>1, <1>8, <2>2, <2>3, <2>4 DEF RankUniverse, TypeOK, Phases, BatchDepth
  <2>6. QED
    BY <1>8, <2>2, <2>4, <2>5, StoreMoves DEF RankUniverse, IInv
<1>9. CASE EvaluatePredictions
  <2>1. PICK result \in {Returned(db)} \cup OtherWrite(db)
                          \cup RecordOutcome(db, db.work) :
          /\ Charge(IF db.txn /\ ~result.db.txn THEN 0 ELSE CostOf(result))
          /\ db' = result.db
          /\ pc' = IF result.ok THEN "managing" ELSE "failed"
          /\ todo' = IF result.ok THEN Held ELSE {}
    BY <1>9 DEF EvaluatePredictions
  <2>2. /\ db' \in Connection(Table) /\ db'.depth = 0
        /\ {db'.disk, db'.work} \subseteq {db.disk, db.work}
    <3>1. db.depth = 0
      BY <1>1, <1>9 DEF EvaluatePredictions, BatchDepth
    <3>2. CASE result = Returned(db)
      BY <1>1, <2>1, <3>1, <3>2 DEF Returned
    <3>3. CASE result = Raised(Rollback(db))
      BY <1>1, <2>1, <3>1, <3>3, PrimitiveSteps DEF Raised
    <3>4. ASSUME NEW w \in Write(db, db.work), result = w \/ result = Raised(Rollback(w.db))
          PROVE  /\ db' \in Connection(Table) /\ db'.depth = 0
                 /\ {db'.disk, db'.work} \subseteq {db.disk, db.work}
      <4>1. /\ w.db \in Connection(Table) /\ w.db.depth = 0
            /\ {w.db.disk, w.db.work} \subseteq {db.disk, db.work}
        BY <1>1, <3>1, OtherWriteMoves DEF OtherWrite
      <4>2. /\ Rollback(w.db) \in Connection(Table) /\ Rollback(w.db).depth = 0
            /\ Rollback(w.db).disk = w.db.disk /\ Rollback(w.db).work = w.db.disk
        BY <1>1, <4>1, PrimitiveSteps
      <4>3. db' = w.db \/ db' = Rollback(w.db)
        BY <2>1, <3>4 DEF Raised
      <4>4. QED
        BY <4>1, <4>2, <4>3
    <3>5. QED
      BY <2>1, <3>2, <3>3, <3>4 DEF RecordOutcome, OtherWrite
  <2>3. mishaps' \in 0..MaxMishaps
    BY <1>1, <2>1, ChargeBound, CostIsNat
  <2>4. pc' \in {"managing", "failed"} /\ todo' \subseteq Symbols
    BY <2>1 DEF Held
  <2>5. TypeOK' /\ BatchDepth'
    BY <1>1, <1>9, <2>2, <2>3, <2>4 DEF EvaluatePredictions, TypeOK, Phases, BatchDepth
  <2>6. QED
    BY <1>9, <2>2, <2>4, <2>5, StoreMoves DEF EvaluatePredictions, IInv
<1>10. CASE \E s \in Symbols : KeepPosition(s)
  <2>1. PICK s \in Symbols : KeepPosition(s)
    BY <1>10
  <2>2. TypeOK' /\ BatchDepth'
    BY <1>1, <2>1 DEF KeepPosition, TypeOK, BatchDepth
  <2>3. QED
    BY <1>1, <2>1, <2>2, StoreMoves DEF KeepPosition, IInv
<1>11. CASE \E s \in Symbols, x \in Exits : ClosePosition(s, x)
  <2>1. PICK s \in Symbols, x \in Exits : ClosePosition(s, x)
    BY <1>11
  <2> DEFINE content == CloseTrade(db.work, open[s], s, x)
  <2>2. PICK result \in Write(db, content) :
          /\ Charge(CostOf(result))
          /\ db' = result.db
          /\ IF result.ok
             THEN /\ open' = Released(s)
                  /\ \E loss \in Losses(x) :
                       cooldown' = IF loss THEN LossCooldownBars ELSE cooldown
                  /\ todo' = todo \ {s}
                  /\ UNCHANGED pc
             ELSE /\ pc' = "failed"
                  /\ todo' = {}
                  /\ UNCHANGED <<open, cooldown>>
    BY <2>1 DEF ClosePosition
  <2>3. /\ open \in [Symbols -> 0..MaxTrades] /\ pc = "managing" /\ db.depth = 0
        /\ Covers(open, db.disk) /\ Covers(open, db.work)
    BY <1>1, <2>1 DEF ClosePosition, TypeOK, BatchDepth, Covered
  <2>4. /\ content \in Table /\ Sound(content)
        /\ Covers(open, content) /\ Covers([open EXCEPT ![s] = NoTrade], content)
    BY <1>1, <2>3, CloseSound
  <2> HIDE DEF content
  <2>5. /\ db' \in Connection(Table) /\ db'.depth = 0
        /\ \/ result.ok /\ db'.work = content /\ db'.disk \in {db.disk, content}
           \/ ~result.ok /\ db'.disk = db.disk /\ db'.work \in {db.disk, db.work, content}
    BY <1>1, <2>2, <2>3, <2>4, WriteResult
  <2>6. mishaps' \in 0..MaxMishaps
    BY <1>1, <2>2, ChargeBound, CostIsNat
  <2>7. Sound(db'.disk) /\ Sound(db'.work)
    BY <1>1, <2>4, <2>5
  <2>8. CASE result.ok
    <3>1. db'.disk = content
      BY <1>1, <2>2, <2>3, <2>4, <2>8, WriteResult
    <3>2. open' = [open EXCEPT ![s] = NoTrade]
      BY <2>2, <2>8 DEF Released
    <3>3. Covers(open', db'.disk) /\ Covers(open', db'.work)
      BY <2>4, <2>5, <2>8, <3>1, <3>2
    <3>4. cooldown' \in 0..LossCooldownBars
      BY <1>1, <2>2, <2>8, PaperBookAssumption DEF TypeOK
    <3>5. open' \in [Symbols -> 0..MaxTrades]
      BY <2>3, <3>2, PaperBookAssumption DEF NoTrade
    <3>6. TypeOK' /\ BatchDepth'
      BY <1>1, <2>2, <2>3, <2>5, <2>6, <2>8, <3>4, <3>5 DEF TypeOK, Phases, BatchDepth
    <3>7. QED
      BY <2>2, <2>3, <2>7, <2>8, <3>3, <3>6
         DEF IInv, Covered, Covers, Sound, Owned, OneOpenPerSymbol, OpenIds, IsOpen
  <2>9. CASE ~result.ok
    <3>1. Covers(open', db'.disk) /\ Covers(open', db'.work)
      BY <2>2, <2>3, <2>4, <2>5, <2>9
    <3>2. TypeOK' /\ BatchDepth'
      BY <1>1, <2>2, <2>5, <2>6, <2>9 DEF TypeOK, Phases, BatchDepth
    <3>3. QED
      BY <2>2, <2>7, <2>9, <3>1, <3>2
         DEF IInv, Covered, Covers, Sound, Owned, OneOpenPerSymbol, OpenIds, IsOpen
  <2>10. QED
    BY <2>8, <2>9
<1>12. CASE FinishCycle
  <2>1. PICK row \in OtherWrite(db) :
          /\ Charge(CostOf(row)) /\ db' = row.db
          /\ pc' = IF row.ok THEN "idle" ELSE "failed"
    BY <1>12 DEF FinishCycle
  <2>2. /\ db' \in Connection(Table) /\ db'.depth = 0
        /\ {db'.disk, db'.work} \subseteq {db.disk, db.work}
    BY <1>1, <1>12, <2>1, OtherWriteMoves DEF FinishCycle, BatchDepth
  <2>3. mishaps' \in 0..MaxMishaps
    BY <1>1, <2>1, ChargeBound, CostIsNat
  <2>4. pc' \in {"idle", "failed"}
    BY <2>1
  <2>5. TypeOK' /\ BatchDepth'
    BY <1>1, <1>12, <2>2, <2>3, <2>4 DEF FinishCycle, TypeOK, Phases, BatchDepth
  <2>6. QED
    BY <1>12, <2>2, <2>4, <2>5, StoreMoves DEF FinishCycle, IInv
<1>13. CASE CycleRaises
  <2>1. mishaps' \in 0..MaxMishaps
    BY <1>1, <1>13, ChargeBound DEF CycleRaises
  <2>2. TypeOK' /\ BatchDepth'
    BY <1>1, <1>13, <2>1, PaperBookAssumption
       DEF CycleRaises, OneBarLess, TypeOK, Phases, BatchDepth
  <2>3. QED
    BY <1>1, <1>13, <2>2, StoreMoves DEF CycleRaises, IInv
<1>14. CASE RecoverCycle
  <2>1. PICK report \in OtherWrite(db) :
          /\ Charge(CostOf(report))
          /\ IF report.ok
             THEN /\ pc' = "idle"
                  /\ db' = report.db
                  /\ UNCHANGED <<open, todo, cooldown>>
             ELSE \E last \in OtherWrite(report.db) : Exit(last.db)
    BY <1>14 DEF RecoverCycle
  <2>2. /\ report.db \in Connection(Table) /\ report.db.depth = 0
        /\ {report.db.disk, report.db.work} \subseteq {db.disk, db.work}
    BY <1>1, <1>14, OtherWriteMoves DEF RecoverCycle, BatchDepth
  <2>3. mishaps' \in 0..MaxMishaps
    BY <1>1, <2>1, ChargeBound, CostIsNat
  <2>4. CASE report.ok
    <3>1. TypeOK' /\ BatchDepth'
      BY <1>1, <2>1, <2>2, <2>3, <2>4 DEF TypeOK, Phases, BatchDepth
    <3>2. QED
      BY <1>14, <2>1, <2>2, <2>4, <3>1, StoreMoves DEF RecoverCycle, IInv
  <2>5. CASE ~report.ok
    <3>1. PICK last \in OtherWrite(report.db) : Exit(last.db)
      BY <2>1, <2>5
    <3>2. last.db \in Connection(Table) /\ last.db.disk \in {db.disk, db.work}
      BY <2>2, OtherWriteMoves
    <3>3. QED
      BY <2>3, <3>1, <3>2, ExitSound
  <2>6. QED
    BY <2>4, <2>5
<1>15. ASSUME NEW last \in OtherWrite(db), Exit(last.db), mishaps' \in 0..MaxMishaps
       PROVE  IInv'
  BY <1>1, <1>15, OtherWriteMoves, ExitSound
<1>16. CASE Rotate
  BY <1>1, <1>15, <1>16 DEF Rotate, TypeOK
<1>17. CASE Interrupt
  BY <1>1, <1>15, <1>17, ChargeBound DEF Interrupt
<1>18. CASE Crash
  BY <1>1, <1>18, ChargeBound, ExitSound DEF Crash
<1>19. CASE UNCHANGED vars
  <2>1. db' = db /\ pc' = pc /\ open' = open /\ todo' = todo
        /\ cooldown' = cooldown /\ mishaps' = mishaps
    BY <1>19 DEF vars
  <2>2. TypeOK' /\ BatchDepth'
    BY <1>1, <2>1 DEF TypeOK, BatchDepth
  <2>3. QED
    BY <1>1, <2>1, <2>2
       DEF IInv, Covered, Covers, Sound, Owned, OneOpenPerSymbol, OpenIds, IsOpen
<1>20. QED
  BY <1>2, <1>3, <1>4, <1>5, <1>6, <1>7, <1>8, <1>9, <1>10, <1>11, <1>12, <1>13,
     <1>14, <1>16, <1>17, <1>18, <1>19 DEF Next, ProcessStep

LEMMA Invariance == Spec => []IInv
BY InitInvariant, NextInvariant, PTL DEF Spec

(* The types hold for every watchlist, configuration and fault pattern.    *)
THEOREM TypeCorrect == Spec => []TypeOK
<1>1. IInv => TypeOK
  BY DEF IInv
<1>2. QED
  BY <1>1, Invariance, PTL

(* No open trade is ever orphaned, whatever the database refuses and       *)
(* however often the process dies: each open row is that of a position     *)
(* whose stop and target the running observer checks.                      *)
THEOREM NoTradeIsOrphaned == Spec => []NoOrphanedTrade
<1>1. IInv => NoOrphanedTrade
  BY DEF IInv, Covered, NoOrphanedTrade
<1>2. QED
  BY <1>1, Invariance, PTL

(* A symbol never has two open rows, so a restart never drops one.         *)
THEOREM OneOpenTrade == Spec => []OneOpenTradePerSymbol
<1>1. IInv => OneOpenTradePerSymbol
  BY DEF IInv, Sound, OneOpenTradePerSymbol
<1>2. QED
  BY <1>1, Invariance, PTL

-----------------------------------------------------------------------------
(* The cap.  The guard of an entry counts the book; the promise is about   *)
(* the rows.  An open row is covered by the book and no symbol has two, so *)
(* there are never more of them than positions held.                       *)
Capped(table) == Cardinality(OpenIds(table)) <= MaxOpenPositions

CapInv == Capped(db.disk) /\ Capped(db.work)

LEMMA OpenIdsFinite ==
  ASSUME NEW t
  PROVE  IsFiniteSet(OpenIds(t)) /\ Cardinality(OpenIds(t)) \in Nat
<1>1. IsFiniteSet(TradeIds)
  BY FS_Interval, PaperBookAssumption DEF TradeIds
<1>2. OpenIds(t) \in SUBSET TradeIds
  BY DEF OpenIds
<1>3. IsFiniteSet(OpenIds(t))
  BY <1>1, <1>2, FS_Subset
<1>4. QED
  BY <1>3, FS_CardinalityType

LEMMA FewerRowsThanPositions ==
  ASSUME NEW t, Sound(t), Covers(open, t)
  PROVE  /\ Cardinality(OpenIds(t)) <= Cardinality(Held)
         /\ Cardinality(Held) \in Nat
<1> DEFINE f == [id \in OpenIds(t) |-> t.rows[id].symbol]
<1>1. IsFiniteSet(Held)
  <2>1. Held \in SUBSET Symbols
    BY DEF Held
  <2>2. QED
    BY <2>1, FS_Subset, PaperBookAssumption
<1>2. \A id \in OpenIds(t) : t.rows[id].symbol \in Held
  BY PaperBookAssumption
     DEF Sound, Owned, Covers, Held, OpenIds, TradeIds, NoTrade
<1>3. \A i, j \in OpenIds(t) : f[i] = f[j] => i = j
  BY DEF Sound, OneOpenPerSymbol
<1>4. f \in [OpenIds(t) -> Held]
  BY <1>2
<1> HIDE DEF f
<1>5. f \in Injection(OpenIds(t), Held)
  BY <1>3, <1>4, Zenon DEF Injection, IsInjective
<1>6. Cardinality(OpenIds(t)) <= Cardinality(Held)
  BY <1>1, <1>5, FS_Injection
<1>7. QED
  BY <1>1, <1>6, FS_CardinalityType

(* Room in the book is room in the table.                                  *)
LEMMA EntryWithinCap ==
  ASSUME NEW t \in Table, t.seq < MaxTrades, NEW s \in Symbols,
         Sound(t), Covers(open, t), Cardinality(Held) < MaxOpenPositions
  PROVE  Capped(InsertTrade(t, s))
<1> DEFINE u == InsertTrade(t, s)
<1>1. OpenIds(u) \in SUBSET (OpenIds(t) \cup {NextId(t)})
  <2>1. t.rows \in [TradeIds -> Row]
    BY DEF Table
  <2>2. u.rows = [t.rows EXCEPT ![NextId(t)] =
                    [Absent EXCEPT !.status = "open", !.symbol = s]]
    BY DEF InsertTrade
  <2> HIDE DEF u
  <2>3. QED
    BY <2>1, <2>2 DEF OpenIds, IsOpen
<1> HIDE DEF u
<1>2. /\ IsFiniteSet(OpenIds(t) \cup {NextId(t)})
      /\ Cardinality(OpenIds(t) \cup {NextId(t)}) \in
           {Cardinality(OpenIds(t)), Cardinality(OpenIds(t)) + 1}
  BY OpenIdsFinite, FS_AddElement
<1>3. Cardinality(OpenIds(u)) <= Cardinality(OpenIds(t) \cup {NextId(t)})
  BY <1>1, <1>2, FS_Subset
<1>4. Cardinality(OpenIds(t)) <= Cardinality(Held) /\ Cardinality(Held) \in Nat
  BY FewerRowsThanPositions
<1>5. Cardinality(OpenIds(u)) \in Nat /\ Cardinality(OpenIds(t)) \in Nat
  BY OpenIdsFinite
<1>6. Cardinality(OpenIds(u)) <= MaxOpenPositions
  BY <1>2, <1>3, <1>4, <1>5, PaperBookAssumption
<1>7. QED
  BY <1>6 DEF Capped, u

(* Closing a row opens none.                                               *)
LEMMA CloseWithinCap ==
  ASSUME NEW t \in Table, NEW id, NEW s, NEW x, Capped(t)
  PROVE  Capped(CloseTrade(t, id, s, x))
<1> DEFINE u == CloseTrade(t, id, s, x)
           old == t.rows[id]
           new == IF old.status = "absent" THEN old
                  ELSE [old EXCEPT !.status = "closed", !.closer = s, !.exit = x]
<1>1. t.rows \in [TradeIds -> Row]
  BY DEF Table
<1>2. u.rows = [t.rows EXCEPT ![id] = new]
  BY DEF CloseTrade, Table
<1>3. id \in TradeIds => new.status # "open"
  <2>1. SUFFICES ASSUME old \in Row PROVE new.status # "open"
    BY <1>1
  <2> HIDE DEF old
  <2>2. QED
    BY <2>1 DEF Row
<1> HIDE DEF u, new
<1>4. OpenIds(u) \in SUBSET OpenIds(t)
  BY <1>1, <1>2, <1>3 DEF OpenIds, IsOpen
<1>5. Cardinality(OpenIds(u)) <= Cardinality(OpenIds(t))
  BY <1>4, OpenIdsFinite, FS_Subset
<1>6. Cardinality(OpenIds(u)) \in Nat /\ Cardinality(OpenIds(t)) \in Nat
  BY OpenIdsFinite
<1>7. QED
  BY <1>5, <1>6, PaperBookAssumption DEF Capped, u

(* Steps that write no trade only move what is there: no copy of the table *)
(* appears that was not one of the two before.                             *)
TablesKept == {db'.disk, db'.work} \subseteq {db.disk, db.work}

LEMMA ExitKeeps ==
  ASSUME NEW d, d.disk \in {db.disk, db.work}, Exit(d)
  PROVE  TablesKept
BY DEF Exit, Connect, TablesKept

LEMMA OutcomeKeeps ==
  ASSUME NEW d \in Connection(Table), d.depth = 0,
         NEW r \in RecordOutcome(d, d.work)
  PROVE  {r.db.disk, r.db.work} \subseteq {d.disk, d.work}
<1>1. CASE r = Raised(Rollback(d))
  BY <1>1 DEF Raised, Rollback, Connection
<1>2. ASSUME NEW w \in Write(d, d.work), r = w \/ r = Raised(Rollback(w.db))
      PROVE  {r.db.disk, r.db.work} \subseteq {d.disk, d.work}
  <2>1. /\ w.db \in Connection(Table)
        /\ {w.db.disk, w.db.work} \subseteq {d.disk, d.work}
    BY OtherWriteMoves DEF OtherWrite
  <2>2. Rollback(w.db).disk = w.db.disk /\ Rollback(w.db).work = w.db.disk
    BY <2>1 DEF Rollback, Connection
  <2>3. r.db = w.db \/ r.db = Rollback(w.db)
    BY <1>2 DEF Raised
  <2>4. QED
    BY <2>1, <2>2, <2>3
<1>3. QED
  BY <1>1, <1>2 DEF RecordOutcome

LEMMA OtherStepsKeep ==
  ASSUME IInv, [Next]_vars,
         ~ \E s \in Symbols : OpenPosition(s),
         ~ \E s \in Symbols, x \in Exits : ClosePosition(s, x)
  PROVE  TablesKept
<1>1. /\ db \in Connection(Table) /\ db.work \in Table
      /\ BatchDepth
  BY DEF IInv, TypeOK, Connection
<1>2. CASE \/ Start \/ CycleRaises \/ UNCHANGED vars
           \/ \E s \in Symbols : KeepPosition(s)
  BY <1>2 DEF Start, CycleRaises, KeepPosition, vars, TablesKept
<1>3. CASE BeginCycle
  <2>1. PICK activity \in OtherWrite(db) : db' = EnterBatch(activity.db)
    BY <1>3 DEF BeginCycle
  <2>2. /\ activity.db \in Connection(Table) /\ activity.db.depth = 0
        /\ {activity.db.disk, activity.db.work} \subseteq {db.disk, db.work}
    BY <1>1, <1>3, OtherWriteMoves DEF BeginCycle, BatchDepth
  <2>3. QED
    BY <2>1, <2>2, BatchEntry DEF TablesKept
<1>4. CASE \E s \in Symbols : SkipSymbol(s)
  <2>1. db' \in {db, Execute(db, db.work)}
    BY <1>4 DEF SkipSymbol
  <2>2. QED
    BY <1>1, <2>1, PendingStatement DEF TablesKept
<1>5. CASE FailBatch
  BY <1>1, <1>5, BatchExit DEF FailBatch, BatchDepth, TablesKept
<1>6. CASE EndBatch
  <2>1. PICK exit \in LeaveBatch(db) : db' = exit.db
    BY <1>6 DEF EndBatch
  <2>2. QED
    BY <1>1, <1>6, <2>1, BatchExit DEF EndBatch, BatchDepth, TablesKept
<1>7. CASE RankUniverse \/ FinishCycle
  <2>1. PICK row \in OtherWrite(db) : db' = row.db
    BY <1>7 DEF RankUniverse, FinishCycle
  <2>2. QED
    BY <1>1, <2>1, OtherWriteMoves DEF TablesKept
<1>8. CASE EvaluatePredictions
  <2>1. PICK result \in {Returned(db)} \cup OtherWrite(db)
                          \cup RecordOutcome(db, db.work) : db' = result.db
    BY <1>8 DEF EvaluatePredictions
  <2>2. db.depth = 0
    BY <1>1, <1>8 DEF EvaluatePredictions, BatchDepth
  <2>3. CASE result = Returned(db)
    BY <2>1, <2>3 DEF Returned, TablesKept
  <2>4. CASE result \in OtherWrite(db)
    BY <1>1, <2>1, <2>4, OtherWriteMoves DEF TablesKept
  <2>5. CASE result \in RecordOutcome(db, db.work)
    BY <1>1, <2>1, <2>2, <2>5, OutcomeKeeps DEF TablesKept
  <2>6. QED
    BY <2>1, <2>3, <2>4, <2>5
<1>9. CASE RecoverCycle
  <2>1. PICK report \in OtherWrite(db) :
          \/ db' = report.db
          \/ \E last \in OtherWrite(report.db) : Exit(last.db)
    BY <1>9 DEF RecoverCycle
  <2>2. /\ report.db \in Connection(Table)
        /\ {report.db.disk, report.db.work} \subseteq {db.disk, db.work}
    BY <1>1, OtherWriteMoves
  <2>3. CASE db' = report.db
    BY <2>2, <2>3 DEF TablesKept
  <2>4. ASSUME NEW last \in OtherWrite(report.db), Exit(last.db)
        PROVE  TablesKept
    BY <2>2, <2>4, OtherWriteMoves, ExitKeeps
  <2>5. QED
    BY <2>1, <2>3, <2>4
<1>10. CASE Rotate \/ Interrupt
  <2>1. PICK last \in OtherWrite(db) : Exit(last.db)
    BY <1>10 DEF Rotate, Interrupt
  <2>2. QED
    BY <1>1, <2>1, OtherWriteMoves, ExitKeeps
<1>11. CASE Crash
  BY <1>11, ExitKeeps DEF Crash
<1>12. QED
  BY <1>2, <1>3, <1>4, <1>5, <1>6, <1>7, <1>8, <1>9, <1>10, <1>11
     DEF Next, ProcessStep

LEMMA CapStep == IInv /\ CapInv /\ [Next]_vars => CapInv'
<1> SUFFICES ASSUME IInv, CapInv, [Next]_vars PROVE CapInv'
  OBVIOUS
<1>1. /\ Capped(db.disk) /\ Capped(db.work)
      /\ db \in Connection(Table) /\ db.work \in Table
  BY DEF IInv, TypeOK, Connection, CapInv
<1>2. ASSUME NEW s \in Symbols, OpenPosition(s)
      PROVE  CapInv'
  <2>1. /\ db.work.seq < MaxTrades /\ Cardinality(Held) < MaxOpenPositions
        /\ pc # "down"
        /\ db' = Execute(db, InsertTrade(db.work, s))
    BY <1>2 DEF OpenPosition, MayEnter
  <2>2. Sound(db.work) /\ Covers(open, db.work)
    BY <2>1 DEF IInv, Covered
  <2>3. Capped(InsertTrade(db.work, s))
    BY <1>1, <2>1, <2>2, EntryWithinCap
  <2>4. db'.disk = db.disk /\ db'.work = InsertTrade(db.work, s)
    BY <2>1 DEF Execute, IInv, TypeOK, Connection
  <2>5. Capped(db'.disk) /\ Capped(db'.work)
    BY <1>1, <2>3, <2>4
  <2>6. QED
    BY <2>5 DEF CapInv, Capped, OpenIds, IsOpen
<1>3. ASSUME NEW s \in Symbols, NEW x \in Exits, ClosePosition(s, x)
      PROVE  CapInv'
  <2> DEFINE content == CloseTrade(db.work, open[s], s, x)
  <2>1. PICK result \in Write(db, content) : db' = result.db
    BY <1>3 DEF ClosePosition
  <2>2. content \in Table
    <3>1. Covers(open, db.work) /\ Sound(db.work) /\ open \in [Symbols -> 0..MaxTrades]
      BY <1>3 DEF IInv, Covered, ClosePosition, TypeOK
    <3>2. QED
      BY <1>1, <3>1, CloseSound
  <2>3. Capped(content)
    BY <1>1, CloseWithinCap
  <2> HIDE DEF content
  <2>4. {db'.disk, db'.work} \subseteq {db.disk, db.work, content}
    BY <1>1, <2>1, <2>2, WriteResult
  <2>5. Capped(db'.disk) /\ Capped(db'.work)
    BY <1>1, <2>3, <2>4
  <2>6. QED
    BY <2>5 DEF CapInv, Capped, OpenIds, IsOpen
<1>4. CASE TablesKept
  <2>1. Capped(db'.disk) /\ Capped(db'.work)
    BY <1>1, <1>4 DEF TablesKept
  <2>2. QED
    BY <2>1 DEF CapInv, Capped, OpenIds, IsOpen
<1>5. QED
  BY <1>2, <1>3, <1>4, OtherStepsKeep

LEMMA CapInitially == Init => CapInv
<1> SUFFICES ASSUME Init PROVE CapInv
  OBVIOUS
<1>1. db.disk = EmptyTable /\ db.work = EmptyTable
  BY DEF Init, Connect
<1>2. OpenIds(EmptyTable) = {}
  BY DEF OpenIds, IsOpen, EmptyTable, Absent
<1>3. Capped(EmptyTable)
  BY <1>2, FS_EmptySet, PaperBookAssumption DEF Capped
<1>4. QED
  BY <1>1, <1>3 DEF CapInv

(* The recorded exposure stays within the cap of the risk engine, which    *)
(* counts the book, whatever is refused, rolled back or restarted.         *)
THEOREM ExposureStaysCapped == Spec => []ExposureCap
<1>1. CapInv => ExposureCap
  BY DEF CapInv, Capped, ExposureCap
<1>2. QED
  BY <1>1, CapInitially, CapStep, Invariance, PTL DEF Spec

(* Whatever is refused and whenever the process dies, what is open is      *)
(* watched, and by one position alone.                                     *)
THEOREM OpenTradesWatched == Spec => []OpenTradesAreWatched
<1>1. TypeOK /\ NoOrphanedTrade /\ OneOpenTradePerSymbol => OpenTradesAreWatched
  BY DEF OpenTradesAreWatched
<1>2. QED
  BY <1>1, TypeCorrect, NoTradeIsOrphaned, OneOpenTrade, PTL

-----------------------------------------------------------------------------
(* The book and the ledger, on such a database.                            *)

OpenRow(s) == [Absent EXCEPT !.status = "open", !.symbol = s]

(* Each position held is the open row of its symbol.                       *)
Backed(book, table) ==
  \A s \in Symbols : book[s] # NoTrade =>
    /\ book[s] \in TradeIds
    /\ IsOpen(table, book[s]) /\ table.rows[book[s]].symbol = s

(* What a batch adds to the table are open rows, where there was none.     *)
Adds(table, base) ==
  \A id \in TradeIds :
    \/ table.rows[id] = base.rows[id]
    \/ base.rows[id] = Absent /\ \E s \in Symbols : table.rows[id] = OpenRow(s)

UnusedAbsent(table) == \A id \in TradeIds : id > table.seq => table.rows[id] = Absent

(* Nothing is pending outside the batch, inside it open rows alone, and    *)
(* the book is that of the table.                                          *)
FaultlessInv ==
  /\ db.depth = 0 => ~db.txn
  /\ ~db.txn => db.work = db.disk
  /\ pc # "down" => Backed(open, db.work)
  /\ Adds(db.work, db.disk)
  /\ UnusedAbsent(db.work) /\ UnusedAbsent(db.disk)
  /\ pc = "managing" => \A s \in todo : open[s] # NoTrade

LEMMA ReloadBacked ==
  ASSUME NEW t \in Table, Sound(t) PROVE Backed(Reloaded(t), t)
<1> DEFINE ids(s) == {id \in OpenIds(t) : t.rows[id].symbol = s}
<1>1. SUFFICES ASSUME NEW s \in Symbols, Reloaded(t)[s] # NoTrade
               PROVE  Reloaded(t)[s] \in ids(s)
  BY DEF Backed, OpenIds
<1>2. Reloaded(t)[s] = IF ids(s) = {} THEN NoTrade
                       ELSE CHOOSE id \in ids(s) : \A other \in ids(s) : other <= id
  BY DEF Reloaded
<1>3. PICK id \in ids(s) : TRUE
  BY <1>1, <1>2
<1>4. ids(s) = {id} /\ id <= id
  BY PaperBookAssumption DEF Sound, OneOpenPerSymbol, OpenIds, TradeIds
<1>5. QED
  BY <1>2, <1>3, <1>4

(* Steps that neither open nor close a trade nor end the batch leave what  *)
(* is committed as it is, and what is pending unless the process is gone.  *)
Calm ==
  /\ db' \in Connection(Table)
  /\ db'.disk = db.disk
  /\ db'.work = db.work \/ db'.work = db.disk
  /\ db'.depth = 0 => ~db'.txn
  /\ ~db'.txn => db'.work = db'.disk
  /\ pc' # "down" => \/ open' = open /\ db'.work = db.work /\ pc # "down"
                     \/ open' = Reloaded(db.disk) /\ db'.work = db.disk
  /\ pc' = "managing" => \A s \in todo' : open'[s] # NoTrade

LEMMA CalmWrite ==
  ASSUME DBFaults = {}, NEW d \in Connection(Table), d.depth = 0, ~d.txn, d.work = d.disk,
         NEW r \in {Returned(d)} \cup OtherWrite(d) \cup RecordOutcome(d, d.work)
  PROVE  /\ r.ok /\ r.db \in Connection(Table) /\ r.db.depth = 0 /\ ~r.db.txn
         /\ r.db.disk = d.disk /\ r.db.work = d.disk
<1>1. d.work \in Table
  BY DEF Connection
<1>2. CASE r = Returned(d)
  BY <1>2 DEF Returned
<1>3. CASE r \in OtherWrite(d)
  BY <1>1, <1>3, WriteReturns DEF OtherWrite
<1>4. CASE r \in RecordOutcome(d, d.work)
  BY <1>1, <1>4, OutcomeReturns, WriteReturns
<1>5. QED
  BY <1>2, <1>3, <1>4

LEMMA CalmExit ==
  ASSUME NEW d \in Connection(Table), d.disk = db.disk, Exit(d)
  PROVE  Calm
<1>1. d.disk \in Table
  BY DEF Connection
<1>2. db' = [disk |-> d.disk, work |-> d.disk, txn |-> FALSE, depth |-> 0] /\ pc' = "down"
  BY DEF Exit, Connect
<1>3. QED
  BY <1>1, <1>2 DEF Calm, Connection

LEMMA CalmSteps ==
  ASSUME DBFaults = {}, IInv, FaultlessInv, [Next]_vars,
         ~ \E s \in Symbols : OpenPosition(s),
         ~ \E s \in Symbols, x \in Exits : ClosePosition(s, x),
         ~ EndBatch
  PROVE  Calm
<1>1. /\ db \in Connection(Table) /\ db.work \in Table /\ db.disk \in Table
      /\ db.depth = (IF pc = "observing" THEN 1 ELSE 0)
      /\ db.depth = 0 => ~db.txn
      /\ ~db.txn => db.work = db.disk
  BY DEF IInv, TypeOK, Connection, BatchDepth, FaultlessInv
<1>2. CASE Start
  BY <1>1, <1>2 DEF Start, Calm
<1>3. CASE \/ CycleRaises \/ UNCHANGED vars
           \/ \E s \in Symbols : KeepPosition(s)
  <2>1. /\ db' = db /\ open' = open /\ (pc' # "down" => pc # "down")
        /\ pc' = "managing" => pc = "managing" /\ todo' \subseteq todo
    BY <1>3 DEF CycleRaises, KeepPosition, vars
  <2>2. QED
    BY <1>1, <2>1 DEF Calm, FaultlessInv
<1>4. CASE BeginCycle
  <2>1. PICK activity \in OtherWrite(db) : db' = EnterBatch(activity.db)
    BY <1>4 DEF BeginCycle
  <2>2. pc # "down" /\ pc' = "observing" /\ open' = open /\ db.depth = 0
    BY <1>1, <1>4 DEF BeginCycle
  <2>3. /\ activity.db \in Connection(Table) /\ activity.db.depth = 0 /\ ~activity.db.txn
        /\ activity.db.disk = db.disk /\ activity.db.work = db.disk
    BY <1>1, <2>2, CalmWrite
  <2>4. db' \in Connection(Table) /\ db'.depth = 1 /\ db'.disk = db.disk /\ db'.work = db.disk
    BY <2>1, <2>3, BatchEntry
  <2>5. QED
    BY <1>1, <2>2, <2>4 DEF Calm
<1>5. CASE \E s \in Symbols : SkipSymbol(s)
  <2>1. /\ db' \in {db, Execute(db, db.work)} /\ pc = "observing" /\ pc' = pc /\ open' = open
    BY <1>5 DEF SkipSymbol
  <2>2. CASE db' = db
    BY <1>1, <2>1, <2>2 DEF Calm
  <2>3. CASE db' = Execute(db, db.work)
    <3>1. db' \in Connection(Table) /\ db'.disk = db.disk /\ db'.work = db.work /\ db'.depth = 1
      BY <1>1, <2>1, <2>3, PendingStatement
    <3>2. db'.txn = TRUE
      BY <1>1, <2>3 DEF Execute, Connection
    <3>3. QED
      BY <2>1, <3>1, <3>2 DEF Calm
  <2>4. QED
    BY <2>1, <2>2, <2>3
<1>6. CASE FailBatch
  BY <1>6 DEF FailBatch
<1>7. CASE RankUniverse \/ FinishCycle
  <2>1. PICK row \in OtherWrite(db) : db' = row.db
    BY <1>7 DEF RankUniverse, FinishCycle
  <2>2. db.depth = 0 /\ open' = open /\ pc # "down" /\ pc' # "managing"
    BY <1>1, <1>7 DEF RankUniverse, FinishCycle
  <2>3. QED
    BY <1>1, <2>1, <2>2, CalmWrite DEF Calm
<1>8. CASE EvaluatePredictions
  <2>1. PICK result \in {Returned(db)} \cup OtherWrite(db)
                          \cup RecordOutcome(db, db.work) :
          db' = result.db /\ todo' = IF result.ok THEN Held ELSE {}
    BY <1>8 DEF EvaluatePredictions
  <2>2. /\ db.depth = 0 /\ open' = open /\ pc # "down"
        /\ \A s \in todo' : open'[s] # NoTrade
    BY <1>1, <1>8, <2>1 DEF EvaluatePredictions, Held
  <2>3. QED
    BY <1>1, <2>1, <2>2, CalmWrite DEF Calm
<1>9. CASE RecoverCycle
  <2>1. PICK report \in OtherWrite(db) :
          IF report.ok
          THEN /\ pc' = "idle"
               /\ db' = report.db
               /\ UNCHANGED <<open, todo, cooldown>>
          ELSE \E last \in OtherWrite(report.db) : Exit(last.db)
    BY <1>9 DEF RecoverCycle
  <2>2. db.depth = 0 /\ pc # "down"
    BY <1>1, <1>9 DEF RecoverCycle
  <2>3. report.ok /\ report.db \in Connection(Table) /\ report.db.depth = 0 /\ ~report.db.txn
        /\ report.db.disk = db.disk /\ report.db.work = db.disk
    BY <1>1, <2>2, CalmWrite
  <2>4. QED
    BY <1>1, <2>1, <2>2, <2>3 DEF Calm
<1>10. CASE Rotate \/ Interrupt
  <2>1. PICK last \in OtherWrite(db) : Exit(last.db)
    BY <1>10 DEF Rotate, Interrupt
  <2>2. db.depth = 0
    BY <1>1, <1>10 DEF Rotate, Interrupt
  <2>3. last.db \in Connection(Table) /\ last.db.disk = db.disk
    BY <1>1, <2>2, CalmWrite
  <2>4. QED
    BY <2>1, <2>3, CalmExit
<1>11. CASE Crash
  BY <1>1, <1>11, CalmExit DEF Crash
<1>12. QED
  BY <1>2, <1>3, <1>4, <1>5, <1>6, <1>7, <1>8, <1>9, <1>10, <1>11
     DEF Next, ProcessStep

LEMMA SelfAdds == ASSUME NEW t PROVE Adds(t, t)
BY DEF Adds

LEMMA CalmKeeps ==
  ASSUME IInv, FaultlessInv, Calm
  PROVE  FaultlessInv'
<1>1. db.disk \in Table
  BY DEF IInv, TypeOK, Connection
<1>2. Adds(db'.work, db'.disk)
  <2>1. CASE db'.work = db.work
    BY <2>1 DEF Calm, FaultlessInv
  <2>2. CASE db'.work = db.disk
    BY <2>2, SelfAdds DEF Calm
  <2>3. QED
    BY <2>1, <2>2 DEF Calm
<1>3. UnusedAbsent(db'.work) /\ UnusedAbsent(db'.disk)
  BY DEF Calm, FaultlessInv
<1>4. pc' # "down" => Backed(open', db'.work)
  BY <1>1, ReloadBacked DEF Calm, FaultlessInv, IInv
<1>5. QED
  BY <1>2, <1>3, <1>4 DEF Calm, FaultlessInv, Adds, UnusedAbsent, Backed, IsOpen

(* An entry is one more open row, where there was none.                    *)
LEMMA EntryKeeps ==
  ASSUME IInv, FaultlessInv, NEW s \in Symbols, OpenPosition(s)
  PROVE  FaultlessInv' /\ db'.disk = db.disk
<1> DEFINE t == db.work
           u == InsertTrade(t, s)
           new == NextId(t)
<1>1. /\ db \in Connection(Table) /\ t \in Table /\ db.disk \in Table /\ t.seq < MaxTrades
      /\ db' = Execute(db, u) /\ open' = [open EXCEPT ![s] = new]
      /\ open \in [Symbols -> 0..MaxTrades] /\ open[s] = NoTrade
      /\ pc = "observing" /\ pc' = pc
      /\ Sound(t) /\ Covers(open, t)
  BY DEF IInv, TypeOK, Connection, OpenPosition, MayEnter, Covered
<1>2. u \in Table
  BY <1>1, InsertSound
<1>3. db' \in Connection(Table) /\ db'.disk = db.disk /\ db'.work = u /\ db'.depth = db.depth
      /\ db'.txn = TRUE
  <2> HIDE DEF u
  <2>1. QED
    BY <1>1, <1>2, PendingStatement DEF Execute, Connection
<1>4. new \in TradeIds /\ new = t.seq + 1 /\ t.seq \in Nat /\ u.seq = new
      /\ t.rows \in [TradeIds -> Row] /\ u.rows = [t.rows EXCEPT ![new] = OpenRow(s)]
  BY <1>1, PaperBookAssumption DEF NextId, TradeIds, Table, InsertTrade, OpenRow
<1>5. OpenRow(s).status = "open" /\ OpenRow(s).symbol = s
  BY DEF OpenRow, Absent
<1>6. t.rows[new] = Absent /\ db.disk.rows[new] = Absent
  <2>1. t.rows[new] = Absent
    BY <1>4, PaperBookAssumption DEF FaultlessInv, UnusedAbsent, TradeIds
  <2>2. OpenRow(s).status # Absent.status /\ \A q \in Symbols : OpenRow(q) # Absent
    BY DEF OpenRow, Absent
  <2>3. QED
    BY <1>4, <2>1, <2>2 DEF FaultlessInv, Adds
<1>7. db.depth = 1
  BY <1>1 DEF IInv, BatchDepth
<1> HIDE DEF u, new
<1>8. Backed(open', u)
  <2>1. ASSUME NEW q \in Symbols, open'[q] # NoTrade
        PROVE  open'[q] \in TradeIds /\ IsOpen(u, open'[q]) /\ u.rows[open'[q]].symbol = q
    <3>1. CASE q = s
      BY <1>1, <1>4, <1>5, <3>1 DEF IsOpen
    <3>2. CASE q # s
      <4>1. open'[q] = open[q] /\ open[q] \in TradeIds /\ IsOpen(t, open[q])
            /\ t.rows[open[q]].symbol = q
        BY <1>1, <2>1, <3>2 DEF FaultlessInv, Backed
      <4>2. open[q] # new
        BY <1>6, <4>1 DEF IsOpen, Absent
      <4>3. u.rows[open[q]] = t.rows[open[q]]
        BY <1>4, <4>1, <4>2
      <4>4. QED
        BY <4>1, <4>3 DEF IsOpen
    <3>3. QED
      BY <3>1, <3>2
  <2>2. QED
    BY <2>1 DEF Backed
<1>9. Adds(u, db.disk)
  <2>1. ASSUME NEW id \in TradeIds
        PROVE  \/ u.rows[id] = db.disk.rows[id]
               \/ db.disk.rows[id] = Absent /\ \E q \in Symbols : u.rows[id] = OpenRow(q)
    BY <1>4, <1>6 DEF FaultlessInv, Adds
  <2>2. QED
    BY <2>1 DEF Adds
<1>10. UnusedAbsent(u)
  <2>1. ASSUME NEW id \in TradeIds, id > u.seq PROVE u.rows[id] = Absent
    <3>1. id \in Nat
      BY PaperBookAssumption DEF TradeIds
    <3>2. id > t.seq /\ id # new
      BY <1>4, <2>1, <3>1
    <3>3. QED
      BY <1>4, <3>2 DEF FaultlessInv, UnusedAbsent
  <2>2. QED
    BY <2>1 DEF UnusedAbsent
<1>11. QED
  BY <1>1, <1>3, <1>7, <1>8, <1>9, <1>10 DEF FaultlessInv, Backed, Adds, UnusedAbsent, IsOpen

(* An exit settles the open row of its own symbol.                         *)
LEMMA ExitSettles ==
  ASSUME DBFaults = {}, IInv, FaultlessInv, NEW s \in Symbols, NEW x \in Exits, ClosePosition(s, x)
  PROVE  /\ FaultlessInv'
         /\ open[s] \in TradeIds /\ IsOpen(db.disk, open[s]) /\ db.disk.rows[open[s]].symbol = s
         /\ db'.disk = CloseTrade(db.disk, open[s], s, x)
<1> DEFINE t == db.disk
           u == CloseTrade(t, open[s], s, x)
           old == t.rows[open[s]]
           settled == [old EXCEPT !.status = "closed", !.closer = s, !.exit = x]
<1>1. /\ db \in Connection(Table) /\ t \in Table /\ open \in [Symbols -> 0..MaxTrades]
      /\ pc = "managing" /\ s \in todo
      /\ db.depth = 0 /\ db.work = t
      /\ Sound(t) /\ Covers(open, t) /\ Backed(open, t)
  BY DEF IInv, TypeOK, Connection, ClosePosition, Covered, BatchDepth, FaultlessInv
<1>2. PICK r \in Write(db, u) :
        /\ db' = r.db
        /\ r.ok => open' = Released(s) /\ pc' = pc /\ todo' = todo \ {s}
  BY <1>1 DEF ClosePosition
<1>3. u \in Table
  BY <1>1, CloseSound
<1>4. r.ok /\ db' \in Connection(Table) /\ db'.depth = 0 /\ ~db'.txn /\ db'.disk = u /\ db'.work = u
  <2> HIDE DEF u
  <2>1. QED
    BY <1>1, <1>2, <1>3, WriteReturns
<1>5. open' = [open EXCEPT ![s] = NoTrade] /\ pc' = pc
  BY <1>2, <1>4 DEF Released
<1>6. open[s] # NoTrade /\ open[s] \in TradeIds /\ old.status = "open" /\ old.symbol = s
  BY <1>1 DEF FaultlessInv, Backed, IsOpen
<1>7. t.rows \in [TradeIds -> Row] /\ old \in Row /\ t.seq \in 0..MaxTrades
  BY <1>1, <1>6 DEF Table
<1>8. settled.status = "closed"
  <2> HIDE DEF old
  <2>1. QED
    BY <1>7 DEF Row
<1>9. u.rows = [t.rows EXCEPT ![open[s]] = settled] /\ u.seq = t.seq
  <2>1. u = [t EXCEPT !.rows = [t.rows EXCEPT ![open[s]] = settled]]
    BY <1>6 DEF CloseTrade
  <2> HIDE DEF settled
  <2>2. QED
    BY <1>1, <2>1 DEF Table
<1> HIDE DEF u, settled
<1>10. Backed(open', u)
  <2>1. ASSUME NEW q \in Symbols, open'[q] # NoTrade
        PROVE  open'[q] \in TradeIds /\ IsOpen(u, open'[q]) /\ u.rows[open'[q]].symbol = q
    <3>1. q # s /\ open'[q] = open[q] /\ open[q] \in TradeIds
          /\ IsOpen(t, open[q]) /\ t.rows[open[q]].symbol = q
      BY <1>1, <1>5, <2>1 DEF Backed
    <3>2. open[q] # open[s]
      BY <1>6, <3>1
    <3>3. u.rows[open[q]] = t.rows[open[q]]
      BY <1>7, <1>9, <3>1, <3>2
    <3>4. QED
      BY <3>1, <3>3 DEF IsOpen
  <2>2. QED
    BY <2>1 DEF Backed
<1>11. UnusedAbsent(u)
  <2>1. ASSUME NEW id \in TradeIds, id > u.seq PROVE u.rows[id] = Absent
    <3>1. t.rows[id] = Absent
      BY <1>9, <2>1 DEF FaultlessInv, UnusedAbsent
    <3>2. id # open[s]
      BY <1>6, <3>1 DEF Absent
    <3>3. QED
      BY <1>7, <1>9, <3>1, <3>2
  <2>2. QED
    BY <2>1 DEF UnusedAbsent
<1>12. \A q \in todo' : open'[q] # NoTrade
  BY <1>1, <1>2, <1>4, <1>5 DEF FaultlessInv, ClosePosition, IInv, TypeOK
<1>13. FaultlessInv'
  BY <1>4, <1>10, <1>11, <1>12, SelfAdds
     DEF FaultlessInv, Backed, Adds, UnusedAbsent, IsOpen
<1>14. QED
  BY <1>4, <1>6, <1>13 DEF IsOpen, u

(* The end of the batch commits what it added.                             *)
LEMMA BatchCommits ==
  ASSUME DBFaults = {}, IInv, FaultlessInv, EndBatch
  PROVE  FaultlessInv' /\ db'.disk = db.work
<1>1. PICK exit \in LeaveBatch(db) :
        db' = exit.db /\ pc' = IF exit.ok THEN "ranking" ELSE "failed"
  BY DEF EndBatch
<1>2. /\ db \in Connection(Table) /\ db.depth = 1 /\ (~db.txn => db.work = db.disk)
      /\ pc = "observing" /\ open' = open
  BY DEF IInv, TypeOK, BatchDepth, EndBatch, FaultlessInv
<1>3. /\ db'.depth = 0 /\ ~db'.txn /\ db'.disk = db.work /\ db'.work = db.work
      /\ pc' = "ranking"
  BY <1>1, <1>2, BatchReturns
<1>4. QED
  BY <1>2, <1>3, SelfAdds DEF FaultlessInv, Backed, Adds, UnusedAbsent, IsOpen

LEMMA FaultlessInit == Init => FaultlessInv
<1> SUFFICES ASSUME Init PROVE FaultlessInv
  OBVIOUS
<1>1. db.disk = EmptyTable /\ db.work = EmptyTable /\ ~db.txn /\ pc = "down"
  BY DEF Init, Connect
<1>2. UnusedAbsent(EmptyTable)
  BY DEF UnusedAbsent, EmptyTable
<1>3. QED
  BY <1>1, <1>2, SelfAdds DEF FaultlessInv

LEMMA FaultlessStep ==
  ASSUME DBFaults = {}
  PROVE  IInv /\ FaultlessInv /\ [Next]_vars => FaultlessInv'
BY CalmSteps, CalmKeeps, EntryKeeps, ExitSettles, BatchCommits

LEMMA FaultlessInductive ==
  ASSUME DBFaults = {}
  PROVE  Spec => [](IInv /\ FaultlessInv)
BY FaultlessInit, FaultlessStep, InitInvariant, NextInvariant, PTL DEF Spec

(* While the database refuses nothing, a restart would find the very book  *)
(* the process has, whenever no batch is open; with refusals the run       *)
(* PaperBookGhost shows that it need not.                                  *)
THEOREM BookStaysInDatabase ==
  ASSUME DBFaults = {}
  PROVE  Spec => []BookIsInDatabase
<1>1. IInv /\ FaultlessInv => BookIsInDatabase
  BY DEF FaultlessInv, Backed, BookIsInDatabase, Held
<1>2. QED
  BY <1>1, FaultlessInductive, PTL

-----------------------------------------------------------------------------
(* The refinement of the ledger.                                           *)

LEMMA SameCardinality == ASSUME NEW S PROVE Ledger!Cardinality(S) = Cardinality(S)
BY Zenon DEF Ledger!Cardinality, Cardinality

(* A batch becomes visible at once: what it added is recorded.             *)
LEMMA CommitRecords ==
  ASSUME IInv, FaultlessInv, CapInv, db'.disk = db.work
  PROVE  Ledger!LedgerNext
<1>1. /\ db.work \in Table /\ db.disk \in Table /\ OneOpenPerSymbol(db.work)
      /\ Adds(db.work, db.disk) /\ Capped(db.work)
  BY DEF IInv, TypeOK, Connection, FaultlessInv, CapInv, Sound
<1> DEFINE base == db.disk.rows
           rows == db.work.rows
           ids == {id \in TradeIds : rows[id] # base[id]}
           new == [id \in ids |-> rows[id].symbol]
<1>2. db'.disk.rows = rows /\ rows \in [TradeIds -> Row] /\ base \in [TradeIds -> Row]
  BY <1>1 DEF Table
<1>3. \A s \in Symbols : OpenRow(s).symbol = s /\ OpenRow(s) = Ledger!OpenTrade(s)
  BY DEF OpenRow, Absent, Ledger!OpenTrade, Ledger!Unrecorded
<1>4. ASSUME NEW id \in ids
      PROVE  /\ base[id] = Ledger!Unrecorded /\ new[id] \in Symbols
             /\ rows[id] = Ledger!OpenTrade(new[id])
  <2>1. PICK s \in Symbols : base[id] = Absent /\ rows[id] = OpenRow(s)
    BY <1>1 DEF Adds
  <2>2. new[id] = s
    BY <1>3, <2>1
  <2>3. Absent = Ledger!Unrecorded
    BY DEF Absent, Ledger!Unrecorded
  <2>4. QED
    BY <1>3, <2>1, <2>2, <2>3
<1>5. new \in [ids -> Symbols] /\ DOMAIN new = ids /\ ids \in SUBSET TradeIds
  BY <1>4
<1> HIDE DEF new
<1>6. rows = [id \in TradeIds |-> IF id \in ids THEN Ledger!OpenTrade(new[id]) ELSE base[id]]
  BY <1>2, <1>4
<1>7. \A i, j \in Ledger!OpenIds(rows) : rows[i].symbol = rows[j].symbol => i = j
  BY <1>1 DEF OneOpenPerSymbol, OpenIds, IsOpen, Ledger!OpenIds
<1>8. Cardinality(Ledger!OpenIds(rows)) <= MaxOpenPositions
  <2>1. Ledger!OpenIds(rows) = OpenIds(db.work)
    BY DEF OpenIds, IsOpen, Ledger!OpenIds
  <2>2. QED
    BY <1>1, <2>1 DEF Capped
<1>9. Ledger!Record(new)
  <2>1. \A id \in DOMAIN new : base[id] = Ledger!Unrecorded
    BY <1>4, <1>5, SMTT(40)
  <2>2. db'.disk.rows = [id \in TradeIds |->
                           IF id \in DOMAIN new THEN Ledger!OpenTrade(new[id]) ELSE base[id]]
    BY <1>2, <1>5, <1>6
  <2>3. /\ \A i, j \in Ledger!OpenIds(db'.disk.rows) :
             db'.disk.rows[i].symbol = db'.disk.rows[j].symbol => i = j
        /\ Cardinality(Ledger!OpenIds(db'.disk.rows)) <= MaxOpenPositions
    BY <1>2, <1>7, <1>8
  <2> HIDE DEF ids
  <2>4. QED
    BY <2>1, <2>2, <2>3, SameCardinality DEF Ledger!Record, Ledger!OpenIds
<1>10. QED
  BY <1>5, <1>9 DEF Ledger!LedgerNext

LEMMA SettleStep ==
  ASSUME IInv, NEW s \in Symbols, NEW x \in Exits, NEW id \in TradeIds,
         IsOpen(db.disk, id), db.disk.rows[id].symbol = s,
         db'.disk = CloseTrade(db.disk, id, s, x)
  PROVE  Ledger!LedgerNext
<1> DEFINE old == db.disk.rows[id]
           settled == [old EXCEPT !.status = "closed", !.closer = s, !.exit = x]
<1>1. db.disk \in Table /\ old.status = "open" /\ old.symbol = s
  BY DEF IInv, TypeOK, Connection, IsOpen
<1>2. db'.disk.rows = [db.disk.rows EXCEPT ![id] = settled]
  <2>1. db'.disk = [db.disk EXCEPT !.rows = [db.disk.rows EXCEPT ![id] = settled]]
    BY <1>1 DEF CloseTrade
  <2> HIDE DEF settled
  <2>2. QED
    BY <1>1, <2>1 DEF Table
<1>3. settled = Ledger!Settled(old, x)
  BY <1>1 DEF Ledger!Settled
<1> HIDE DEF settled
<1>4. Ledger!Settle(id, x)
  BY <1>1, <1>2, <1>3 DEF Ledger!Settle
<1>5. QED
  BY <1>4 DEF Ledger!LedgerNext, Exits, Ledger!Exits

LEMMA LedgerStep ==
  ASSUME DBFaults = {}
  PROVE  IInv /\ FaultlessInv /\ CapInv /\ [Next]_vars => [Ledger!LedgerNext]_(db.disk.rows)
<1> SUFFICES ASSUME IInv, FaultlessInv, CapInv, [Next]_vars
             PROVE  Ledger!LedgerNext \/ UNCHANGED db.disk.rows
  OBVIOUS
<1>1. ASSUME db'.disk = db.disk PROVE UNCHANGED db.disk.rows
  BY <1>1
<1>2. ASSUME NEW s \in Symbols, OpenPosition(s) PROVE UNCHANGED db.disk.rows
  BY <1>1, <1>2, EntryKeeps
<1>3. ASSUME NEW s \in Symbols, NEW x \in Exits, ClosePosition(s, x) PROVE Ledger!LedgerNext
  BY <1>3, ExitSettles, SettleStep
<1>4. ASSUME EndBatch PROVE Ledger!LedgerNext
  BY <1>4, BatchCommits, CommitRecords
<1>5. QED
  BY <1>1, <1>2, <1>3, <1>4, CalmSteps DEF Calm

(* On such a database the committed table is the ledger: a trade is        *)
(* recorded once and open, with the cap and one per symbol, settled once   *)
(* by its own position and never changed after that.                       *)
THEOREM LedgerRefined ==
  ASSUME DBFaults = {}
  PROVE  Spec => LedgerSpec
<1>1. Init => Ledger!LedgerInit
  BY DEF Init, Connect, EmptyTable, Absent, Ledger!LedgerInit, Ledger!Unrecorded
<1>2. Spec => [](IInv /\ FaultlessInv)
  BY FaultlessInductive
<1>3. Spec => []CapInv
  BY CapInitially, CapStep, Invariance, PTL DEF Spec
<1>4. IInv /\ FaultlessInv /\ CapInv /\ [Next]_vars => [Ledger!LedgerNext]_(db.disk.rows)
  BY LedgerStep
<1>5. Spec => Ledger!LedgerSpec
  BY <1>1, <1>2, <1>3, <1>4, PTL DEF Spec, Ledger!LedgerSpec
<1>6. QED
  BY <1>5 DEF LedgerSpec
=============================================================================
