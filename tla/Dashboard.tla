------------------------------ MODULE Dashboard ------------------------------
(* The dashboard (dashboard/data.py, app.py): another process that reads    *)
(* the observer's database while the observer writes it.  A page is built   *)
(* from several queries, each of which sees what is committed when it runs; *)
(* nothing holds the database still between two of them.  latest.json is    *)
(* rewritten in place by the observer, so a reader may find it empty.       *)
(*                                                                          *)
(* Abstractions.  A trade is its id, its state and its result.  The mark-   *)
(* to-market part of the reported equity is one of Marks while a trade is   *)
(* open.  The columns of a page that come from one query are left out, and  *)
(* so are peak and drawdown of _drawdown, for which it sorts the trades.    *)
EXTENDS Integers, Sequences, FiniteSets, FiniteSetsExt, Functions

CONSTANTS
  PaperCash,       \* paper.starting_cash
  Results,         \* what a trade may earn
  Marks,           \* what open trades may be worth above their entries
  RowsShown,       \* rows a page asks for: 5000 in the code
  MaxTrades,       \* bound: trades ever opened
  MaxPages,        \* bound: pages ever asked for
  Nothing,         \* no file, no number
  Torn             \* a file emptied and not yet written

ASSUME DashboardAssumption ==
  /\ PaperCash \in Nat /\ Results \subseteq Int /\ Marks \subseteq Int
  /\ RowsShown \in Nat \ {0} /\ MaxTrades \in Nat /\ MaxPages \in Nat

VARIABLES
  table,     \* committed paper_trades: [state, pnl, closed] by id
  inserted,  \* rows the open batch has inserted and not committed
  writer,    \* the step of the observer's cycle
  report,    \* latest.json: Nothing, Torn or the equity in it
  page,      \* the page under way, or the last one shown
  begun      \* committed paper_trades when the page's first query ran

dashboardVars == <<table, inserted, writer, report, page, begun>>

-----------------------------------------------------------------------------
OpenRows(t) == {i \in DOMAIN t : t[i].state = "open"}
ClosedRows(t) == {i \in DOMAIN t : t[i].state = "closed"}
(* ORDER BY id DESC LIMIT ?                                                *)
NewestClosed(t) ==
  {i \in ClosedRows(t) : Cardinality({j \in ClosedRows(t) : j >= i}) <= RowsShown}

(* What rows have earned: total_realised_pnl of all closed ones, without a *)
(* limit, and the equity _drawdown of the dashboard ends with.             *)
Earned(t, rows) == SumFunctionOnSet([i \in rows |-> t[i].pnl], rows)
Realised(t) == Earned(t, ClosedRows(t))
EquityCurve(t, rows) == PaperCash + Earned(t, rows)

-----------------------------------------------------------------------------
NoPage == [name |-> "none", step |-> "shown", closed |-> {}, open |-> {},
           equity |-> Nothing, asked |-> 0]

DashboardInit ==
  /\ table = <<>> /\ inserted = 0 /\ writer = "observing"
  /\ report = Nothing
  /\ page = NoPage /\ begun = <<>>

(* _maybe_open_position, inside the batch of the per-symbol loop.          *)
InsertTrade ==
  /\ writer = "observing"
  /\ Len(table) + inserted < MaxTrades
  /\ inserted' = inserted + 1
  /\ UNCHANGED <<table, writer, report, page, begun>>

(* The batch ends: all of its rows at once.                                *)
CommitBatch ==
  /\ writer = "observing"
  /\ table' = table \o [k \in 1..inserted |-> [state |-> "open", pnl |-> 0, closed |-> 0]]
  /\ inserted' = 0 /\ writer' = "managing"
  /\ UNCHANGED <<report, page, begun>>

(* _manage_positions: close_paper_trade, committed by itself.              *)
CloseRow ==
  /\ writer = "managing"
  /\ \E i \in OpenRows(table), r \in Results :
       table' = [table EXCEPT ![i] = [state |-> "closed", pnl |-> r,
                                      closed |-> Cardinality(ClosedRows(table)) + 1]]
  /\ UNCHANGED <<inserted, writer, report, page, begun>>

(* _write_cycle_report: write_text empties the file ...                    *)
EmptyReport ==
  /\ writer = "managing" /\ writer' = "reporting"
  /\ report' = Torn
  /\ UNCHANGED <<table, inserted, page, begun>>

(* ... and writes the summary, with the equity of the cycle.               *)
WriteReport ==
  /\ writer = "reporting" /\ writer' = "observing"
  /\ \E m \in IF OpenRows(table) = {} THEN {0} ELSE Marks :
       report' = PaperCash + Realised(table) + m
  /\ UNCHANGED <<table, inserted, page, begun>>

(* The observer dies; a new one begins with a cycle.  What was not         *)
(* committed is gone, and the file is left as it was.                      *)
RestartObserver ==
  /\ writer # "observing" \/ inserted > 0
  /\ inserted' = 0 /\ writer' = "observing"
  /\ UNCHANGED <<table, report, page, begun>>

-----------------------------------------------------------------------------
(* Which list a page's first query asks for: paper and symbol_detail ask   *)
(* for the closed trades before the open ones, investments the other way;  *)
(* the variant asks for the open ones first for every page.                *)
OpenFirstAlways(name) == name # "overview"
OpenFirst(name) == name = "investments"

AskPage(name) ==
  /\ page.step = "shown" /\ page.asked < MaxPages
  /\ begun' = table
  /\ page' = [page EXCEPT !.name = name, !.step = "second", !.asked = @ + 1, !.equity = Nothing,
                          !.open = IF OpenFirst(name) THEN OpenRows(table) ELSE {},
                          !.closed = IF OpenFirst(name) THEN {} ELSE NewestClosed(table)]
  /\ UNCHANGED <<table, inserted, writer, report>>

(* The other query of paper, symbol_detail and investments.                *)
FinishTradePage ==
  /\ page.step = "second" /\ page.name # "overview"
  /\ page' = IF OpenFirst(page.name)
             THEN [page EXCEPT !.step = "shown", !.closed = NewestClosed(table)]
             ELSE [page EXCEPT !.step = "shown", !.open = OpenRows(table),
                               !.equity = EquityCurve(begun, page.closed)]
  /\ UNCHANGED <<table, inserted, writer, report, begun>>

(* overview reads latest.json last; one it cannot read counts as no file.  *)
FinishOverview ==
  /\ page.step = "second" /\ page.name = "overview"
  /\ page' = [page EXCEPT !.step = "shown",
                          !.equity = IF report \in {Nothing, Torn}
                                     THEN EquityCurve(begun, page.closed) ELSE report]
  /\ UNCHANGED <<table, inserted, writer, report, begun>>

DashboardNext ==
  \/ InsertTrade \/ CommitBatch \/ CloseRow \/ EmptyReport \/ WriteReport
  \/ RestartObserver
  \/ \E name \in {"paper", "investments", "overview"} : AskPage(name)
  \/ FinishTradePage \/ FinishOverview

DashboardSpec == DashboardInit /\ [][DashboardNext]_dashboardVars

-----------------------------------------------------------------------------
Shows(name) == page.step = "shown" /\ page.name = name

(* The paper page never counts a trade among the open and the closed ones, *)
(* whatever closes while it is built; what it leaves out closed meanwhile, *)
(* or has as many newer closed rows as a page shows.  With no more closed  *)
(* rows than that, its equity is what was realised when it was asked for.  *)
Newer(i) == Cardinality({j \in page.closed : j > i})
PaperCountsOnce ==
  Shows("paper") =>
    /\ page.open \cap page.closed = {}
    /\ \A i \in DOMAIN begun \ (page.open \cup page.closed) :
         table[i].state = "closed" /\ (begun[i].state = "open" \/ Newer(i) = RowsShown)
    /\ Cardinality(ClosedRows(begun)) <= RowsShown
         => page.equity = PaperCash + Realised(begun)

(* The investments page loses no trade that was there when it was asked    *)
(* for, unless newer closed ones push it out, and lists one twice only     *)
(* when it closed meanwhile.                                               *)
InvestmentsLoseNothing ==
  Shows("investments") =>
    /\ OpenRows(begun) = page.open
    /\ \A i \in DOMAIN begun \ (page.open \cup page.closed) : Newer(i) = RowsShown
    /\ page.open \cap page.closed \subseteq ClosedRows(table)

(* A page asked for while latest.json is rewritten has an equity all the   *)
(* same.                                                                   *)
OverviewHasEquity ==
  Shows("overview") => page.equity \in Int

(* What a page shows is true of the book it was read from, although the    *)
(* book changes between its queries.                                       *)
PagesAreTrue == PaperCountsOnce /\ InvestmentsLoseNothing /\ OverviewHasEquity
=============================================================================
