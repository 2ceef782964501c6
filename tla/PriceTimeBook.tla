--------------------------- MODULE PriceTimeBook ---------------------------
(***************************************************************************)
(* What one market of the matching engine promises, with no levels, queues *)
(* or index: a set of open orders, the order being matched, and the tape   *)
(* of trades.  An open order with a better price goes first and, among     *)
(* equal prices, the older one.                                            *)
(*                                                                         *)
(* docs/architecture.md calls this price-time priority ("best price gets   *)
(* filled first; ties broken by time").  MatchingEngineRefinement maps the *)
(* engine's levels, queues and index to it.                                *)
(***************************************************************************)
EXTENDS Integers, Sequences

CONSTANTS
  Id,       \* order ids
  Price,    \* prices
  MaxQty,   \* an order asks for at most MaxQty lots
  Nobody    \* no order is being matched

VARIABLES
  open,     \* orders that wait for a counterparty
  taker,    \* the order being matched, or Nobody
  tape      \* the trades, in order

bookVars == <<open, taker, tape>>

Order == [id : Id, side : {"BUY", "SELL"}, price : Price, qty : Nat, stamp : Nat]

\* The orders of the other side whose price the taker accepts.
Counterparties ==
  {o \in open : /\ o.side # taker.side
                /\ IF taker.side = "BUY" THEN o.price <= taker.price
                                         ELSE o.price >= taker.price}

\* o is served before n, an order of the same side.
Before(o, n) ==
  \/ o.price # n.price /\ (IF o.side = "BUY" THEN o.price > n.price
                                             ELSE o.price < n.price)
  \/ o.price = n.price /\ o.stamp < n.stamp

Without(id) == {o \in open : o.id # id}

\* An order arrives, after every order that is open; with the id of an open
\* order, it takes that order's place.
Arrive ==
  /\ taker = Nobody
  /\ taker' \in Order
  /\ taker'.qty \in 1..MaxQty
  /\ \A o \in open : o.stamp < taker'.stamp
  /\ open' = Without(taker'.id)
  /\ tape' = tape

Withdraw ==
  /\ taker = Nobody
  /\ \E id \in Id : open' = Without(id)
  /\ UNCHANGED <<taker, tape>>

\* The taker trades with the counterparty that is served first, at its price.
Fill ==
  /\ taker # Nobody
  /\ taker.qty > 0
  /\ \E maker \in Counterparties :
       LET qty  == IF taker.qty <= maker.qty THEN taker.qty ELSE maker.qty
           left == [maker EXCEPT !.qty = @ - qty]
       IN  /\ \A o \in Counterparties : o = maker \/ Before(maker, o)
           /\ open' = (open \ {maker}) \cup {o \in {left} : o.qty > 0}
           /\ taker' = [taker EXCEPT !.qty = @ - qty]
           /\ tape' = Append(tape,
                [buy_order  |-> IF taker.side = "BUY" THEN taker.id ELSE maker.id,
                 sell_order |-> IF taker.side = "BUY" THEN maker.id ELSE taker.id,
                 price |-> maker.price, quantity |-> qty,
                 sequence |-> Len(tape) + 1])

\* The taker is filled, or joins the open orders: nobody open accepts it.
Settle ==
  /\ taker # Nobody
  /\ taker.qty = 0 \/ Counterparties = {}
  /\ open' = open \cup {o \in {taker} : o.qty > 0}
  /\ taker' = Nobody
  /\ tape' = tape

\* The taker is dropped half-way; its trades stand.
Abort ==
  /\ taker # Nobody
  /\ taker' = Nobody
  /\ UNCHANGED <<open, tape>>

BookInit == open = {} /\ taker = Nobody /\ tape = <<>>
BookNext == Arrive \/ Withdraw \/ Fill \/ Settle \/ Abort
BookSpec == BookInit /\ [][BookNext]_bookVars
=============================================================================
