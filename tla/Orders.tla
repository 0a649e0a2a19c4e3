-------------------------------- MODULE Orders --------------------------------
(***************************************************************************)
(* From a proposal to a booked fill: the operator's approval, the order    *)
(* identifier and the registry that refuses it a second time, and the      *)
(* broker that mirrors a fill onto a paper account when a verified key     *)
(* allows it, and simulates it otherwise.                                  *)
(*                                                                         *)
(* The desk that calls these in turn is the caller their docstrings        *)
(* describe; the commands of the CLI are instances of it without a client. *)
(***************************************************************************)
EXTENDS Integers, Sequences, FiniteSets

CONSTANTS
  Intents,        \* side and intent of an order; one symbol
  Sells,          \* those that sell
  OrderSize,      \* the quantity of a proposal
  BucketSeconds,  \* the width of a moment
  LastSecond,     \* bound: the last second modelled
  Lives,          \* bound: process lives
  MaxOrders       \* bound: orders that reach the broker, and fills simulated

ASSUME OrdersAssumption ==
  /\ Sells \subseteq Intents
  /\ BucketSeconds \in Nat \ {0} /\ OrderSize \in Nat \ {0}
  /\ LastSecond \in Nat /\ Lives \in Nat /\ MaxOrders \in Nat

VARIABLES
  setup,     \* what the configuration and the environment hold
  account,   \* the state of the paper account, at the broker
  second,    \* the clock
  life,      \* how often the process was started
  client,    \* the sandbox client of this life, with the scopes of its key
  seen,      \* OrderIDRegistry._seen
  desk,      \* the proposal under way
  orders,    \* what reached the broker
  fills,     \* what was booked into the paper portfolio
  held,      \* the quantity in it
  unheard    \* orders whose answer was lost on the way back

ordersVars ==
  <<setup, account, second, life, client, seen, desk, orders, fills, held, unheard>>

-----------------------------------------------------------------------------
(* SandboxConfig cannot hold reject_live_keys FALSE: it does not validate. *)
Setups ==
  [enabled : BOOLEAN, network : BOOLEAN, keys : {"none", "half", "pair"},
   readOnly : BOOLEAN, manual : BOOLEAN]

(* Barred: its status is another than ACTIVE, or it is blocked.            *)
Accounts == {"active", "barred", "unreachable"}

(* generate_client_order_id: the same intent in the same bucket has the    *)
(* same id; the variant uses the very second.                              *)
OrderIdBySecond(intent, t) == <<intent, t>>
OrderId(intent, t) == <<intent, t \div BucketSeconds>>

(* _read_permissions: order scope, or reading only.                        *)
CanTrade(a) == a = "active"

(* enforce_key_safety.  The paper endpoint reports neither a funding scope *)
(* nor a live account, so what is left of it is the read-only policy.      *)
KeyIsSafe(a) == setup.readOnly => ~CanTrade(a)

SandboxWanted == setup.enabled /\ setup.network

(* build_sandbox_client: nothing, or a client, or an exception, after      *)
(* which there is no client either.                                        *)
Built(a) ==
  IF SandboxWanted /\ setup.keys = "pair" /\ a # "unreachable" /\ KeyIsSafe(a)
  THEN IF CanTrade(a) THEN "trade" ELSE "read"
  ELSE "none"

ExecutionMode == IF client = "trade" THEN "broker_paper" ELSE "simulated"

(* place_paper_order's own conditions.                                     *)
MayPlace == client = "trade" /\ ~setup.readOnly

(* request_approval: the kill switch and a hold are rejected before any    *)
(* prompt.                                                                 *)
Approved(p, reply) ==
  /\ ~p.killed
  /\ ~p.hold
  /\ setup.manual => reply = "phrase"

-----------------------------------------------------------------------------
Idle == [at |-> "idle"]

OrdersInit ==
  /\ setup \in Setups
  /\ account \in Accounts
  /\ second = 0 /\ life = 1
  /\ client = "unbuilt"
  /\ seen = {}
  /\ desk = Idle
  /\ orders = <<>> /\ fills = <<>> /\ held = 0 /\ unheard = 0

BuildClient ==
  /\ client = "unbuilt"
  /\ client' = Built(account)
  /\ UNCHANGED <<setup, account, second, life, seen, desk, orders, fills, held, unheard>>

(* A decision becomes a proposal with an id of the moment.                 *)
Propose(intent) ==
  /\ client # "unbuilt"
  /\ desk = Idle
  /\ \E killed, hold \in BOOLEAN :
       desk' = [at |-> "proposed", id |-> OrderId(intent, second), intent |-> intent,
                made |-> second, killed |-> killed, hold |-> hold, reply |-> "none"]
  /\ UNCHANGED <<setup, account, second, life, client, seen, orders, fills, held, unheard>>

(* Where there is a prompt, the operator types the phrase, something else, *)
(* or ends the input.                                                      *)
Prompted(p) == setup.manual /\ ~p.killed /\ ~p.hold
RequestApproval(reply) ==
  /\ desk.at = "proposed"
  /\ reply = "none" <=> ~Prompted(desk)
  /\ desk' = IF Approved(desk, reply)
             THEN [desk EXCEPT !.at = "approved", !.reply = reply] ELSE Idle
  /\ UNCHANGED <<setup, account, second, life, client, seen, orders, fills, held, unheard>>

(* An id that was seen is refused.                                         *)
Register(id) == id \notin seen

RegisterOrder ==
  /\ desk.at = "approved"
  /\ desk' = IF Register(desk.id) THEN [desk EXCEPT !.at = "registered"] ELSE Idle
  /\ seen' = seen \cup {desk.id}
  /\ UNCHANGED <<setup, account, second, life, client, orders, fills, held, unheard>>

Finished ==
  /\ desk' = Idle
  /\ UNCHANGED <<setup, account, second, life, client, seen>>

(* apply_fill: a sale reduces what is held and never more than that.       *)
Selling == desk.intent \in Sells
BookFill(how, price, quantity) ==
  /\ fills' = Append(fills, [proposal |-> desk, how |-> how, price |-> price, quantity |-> quantity])
  /\ held' = IF ~Selling THEN held + quantity
             ELSE IF quantity < held THEN held - quantity ELSE 0

(* submit_market_order, simulated and booked at once: all of it or what    *)
(* the liquidity allows, and of a sale no more than is held.               *)
SubmitSimulated ==
  /\ desk.at = "registered"
  /\ ExecutionMode = "simulated"
  /\ Len(fills) < MaxOrders
  /\ \E quantity \in 1..OrderSize :
       /\ Selling => quantity <= held
       /\ BookFill("simulated", "market", quantity)
  /\ Finished
  /\ UNCHANGED <<orders, unheard>>

(* Without liquidity nothing is filled, and nothing is sold that is not    *)
(* held: the order ends in an exception.                                   *)
SimulationRaises ==
  /\ desk.at = "registered"
  /\ ExecutionMode = "simulated"
  /\ Finished
  /\ UNCHANGED <<orders, fills, held, unheard>>

(* ... or placed on the paper account.  The order does not carry the id.   *)
Posted == Append(orders, [proposal |-> desk, life |-> life])

(* The broker takes the order and answers with what is filled of it so far *)
(* and at what price.  Of an order not filled yet all is booked, at 1.0.   *)
PlaceOrder ==
  /\ desk.at = "registered"
  /\ ExecutionMode = "broker_paper" /\ MayPlace
  /\ Len(orders) < MaxOrders
  /\ account = "active"
  /\ orders' = Posted
  /\ \/ \E filled \in 1..OrderSize : BookFill("broker", "market", filled)
     \/ BookFill("broker", "one", OrderSize)
  /\ Finished
  /\ UNCHANGED unheard

(* It takes the order, and the answer is lost: the exception leaves the    *)
(* book alone; the variant books the order as it was asked for.            *)
BookedAsAsked == BookFill("broker", "one", OrderSize)
AfterException == UNCHANGED <<fills, held>>

PlaceUnheard ==
  /\ desk.at = "registered"
  /\ ExecutionMode = "broker_paper" /\ MayPlace
  /\ Len(orders) < MaxOrders
  /\ account = "active"
  /\ orders' = Posted
  /\ unheard' = unheard + 1
  /\ AfterException
  /\ Finished

(* It refuses the order, or cannot be reached, or the client itself raises:*)
(* nothing is placed and nothing booked.                                   *)
PlaceRefused ==
  /\ desk.at = "registered"
  /\ ExecutionMode = "broker_paper"
  /\ Finished
  /\ UNCHANGED <<orders, fills, held, unheard>>

(* The account is blocked, or freed, by the broker.                        *)
AccountChanges(a) ==
  /\ account' = a /\ a # account
  /\ UNCHANGED <<setup, second, life, client, seen, desk, orders, fills, held, unheard>>

(* The process ends and is started again: its registry is empty, and so is *)
(* its portfolio.                                                          *)
RestartDesk ==
  /\ life < Lives
  /\ life' = life + 1
  /\ client' = "unbuilt" /\ seen' = {} /\ desk' = Idle /\ held' = 0
  /\ UNCHANGED <<setup, account, second, orders, fills, unheard>>

SecondPasses ==
  /\ second < LastSecond
  /\ second' = second + 1
  /\ UNCHANGED <<setup, account, life, client, seen, desk, orders, fills, held, unheard>>

OrdersNext ==
  \/ BuildClient
  \/ \E intent \in Intents : Propose(intent)
  \/ \E reply \in {"none", "phrase", "other", "eof"} : RequestApproval(reply)
  \/ RegisterOrder
  \/ SubmitSimulated \/ SimulationRaises
  \/ PlaceOrder \/ PlaceUnheard \/ PlaceRefused
  \/ \E a \in Accounts : AccountChanges(a)
  \/ RestartDesk
  \/ SecondPasses

OrdersSpec == OrdersInit /\ [][OrdersNext]_ordersVars

-----------------------------------------------------------------------------
(* The docstring's promise, and its extent: a retry within a moment does   *)
(* not create a second order, as long as the process that made the first   *)
(* is the one that retries.                                                *)
Moment(p) == <<p.intent, p.made \div BucketSeconds>>
OneOrderPerMoment ==
  \A i, j \in DOMAIN orders :
    i # j /\ Moment(orders[i].proposal) = Moment(orders[j].proposal)
      => orders[i].life # orders[j].life

(* Nothing is placed or booked that the kill switch or a hold forbade, nor,*)
(* unless the configuration waives it, without the operator's phrase.      *)
NothingUnapproved ==
  \A p \in {orders[i].proposal : i \in DOMAIN orders}
             \cup {fills[i].proposal : i \in DOMAIN fills} :
    ~p.killed /\ ~p.hold /\ (setup.manual => p.reply = "phrase")

(* A client that says `broker_paper' places what it is given: its own      *)
(* conditions were settled when it was built, for as long as it lives.     *)
ModeIsHonest == ExecutionMode = "broker_paper" => MayPlace

(* An order at the broker needs every switch to have been set, and with    *)
(* the network off or read-only keys required there is never any.          *)
OrdersNeedEverySwitch ==
  orders # <<>> => /\ setup.enabled /\ setup.network /\ setup.keys = "pair"
                   /\ ~setup.readOnly

(* The paper book has as many orders as the account, but for lost answers: *)
(* an order whose answer was heard is booked exactly once, as a fill, as   *)
(* the part of one that was filled until then, or unfilled.                *)
BookedOrUnheard ==
  Len(orders) = unheard + Cardinality({i \in DOMAIN fills : fills[i].how = "broker"})

(* Whatever reaches the broker or the book was allowed to, and once.  What *)
(* an order is booked at is another matter: BookedAtReference.             *)
OrdersAreSanctioned ==
  OneOrderPerMoment /\ NothingUnapproved /\ ModeIsHonest /\ OrdersNeedEverySwitch /\ BookedOrUnheard

(* sandbox.py, _fill_from_alpaca: `a just-submitted market order may not   *)
(* have a fill price yet; the caller marks it at the reference price'.     *)
(* This is not so: its caller, submit_market_order of the SandboxBroker,   *)
(* has the reference price and books the fill as it came.                  *)
BookedAtReference == \A i \in DOMAIN fills : fills[i].price # "one"
=============================================================================
