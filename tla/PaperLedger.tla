----------------------------- MODULE PaperLedger -----------------------------
(***************************************************************************)
(* What the paper-trading history promises a reader of the database (the   *)
(* dashboard, a restarted observer): a trade is recorded once, open, for   *)
(* one symbol; a symbol has at most one open trade and the book at most    *)
(* MaxOpenPositions; an open trade is settled once, at one exit, by the    *)
(* position it was opened for; a settled trade never changes.              *)
(***************************************************************************)
EXTENDS Naturals, FiniteSets

CONSTANTS Symbols, NoSymbol, TradeIds, MaxOpenPositions

VARIABLE ledger

Exits == {"stop", "target"}

Unrecorded == [status |-> "absent", symbol |-> NoSymbol,
               closer |-> NoSymbol, exit |-> "none"]

OpenTrade(s) == [Unrecorded EXCEPT !.status = "open", !.symbol = s]

Settled(trade, x) ==
  [trade EXCEPT !.status = "closed", !.closer = trade.symbol, !.exit = x]

OpenIds(rows) == {id \in TradeIds : rows[id].status = "open"}

LedgerInit == ledger = [id \in TradeIds |-> Unrecorded]

(* A batch of new open trades becomes visible at once.                     *)
Record(new) ==
  /\ \A id \in DOMAIN new : ledger[id] = Unrecorded
  /\ ledger' = [id \in TradeIds |->
                  IF id \in DOMAIN new THEN OpenTrade(new[id]) ELSE ledger[id]]
  /\ \A i, j \in OpenIds(ledger') :
       ledger'[i].symbol = ledger'[j].symbol => i = j
  /\ Cardinality(OpenIds(ledger')) <= MaxOpenPositions

Settle(id, x) ==
  /\ ledger[id].status = "open"
  /\ ledger' = [ledger EXCEPT ![id] = Settled(@, x)]

LedgerNext ==
  \/ \E ids \in SUBSET TradeIds : \E new \in [ids -> Symbols] : Record(new)
  \/ \E id \in TradeIds, x \in Exits : Settle(id, x)

LedgerSpec == LedgerInit /\ [][LedgerNext]_ledger
=============================================================================
