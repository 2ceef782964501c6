--------------------------- MODULE MatchingEngine ---------------------------
(***************************************************************************)
(* One market of the matching engine: the order book                       *)
(* (engine/orderbook.rs), the matching loop (engine/matching.rs), the      *)
(* registry entry that holds it (engine/market.rs) and the gRPC handlers   *)
(* that run under the registry's mutex (api/grpc.rs).                      *)
(*                                                                         *)
(* A handler keeps the mutex from lock().await to its return, so at most   *)
(* one order is being matched: it is `active`, and `active = NoOrder` says *)
(* that the mutex is free.  Every iteration of the matching loop is a step *)
(* of its own, because the loop can stop half-way: pop_front().unwrap() on *)
(* an empty level panics, the task dies, the mutex is released (a tokio    *)
(* mutex is not poisoned) and what the loop has done so far stays.         *)
(***************************************************************************)
EXTENDS Integers, Sequences

CONSTANTS
  Id,           \* order ids; the gateway draws a fresh UUID for every order
  Price,        \* prices in ticks
  MaxQty,       \* bound: an order asks for at most MaxQty lots
  MaxRequests,  \* bound: submissions and replacements in one behaviour
  NoPlace,      \* an id the book's index does not hold
  NoOrder       \* no handler holds the mutex

Side  == {"BUY", "SELL"}
Place == [side : Side, price : Price]
Trade == [buy_order : Id, sell_order : Id, price : Price,
          quantity : Nat, sequence : Nat]
\* An order in a price level.  Its side and price are those of the level;
\* `stamp` numbers the arrivals, so that time priority can be stated.
Entry == [id : Id, qty : 1..MaxQty, stamp : Nat]
Taker == [id : Id, side : Side, price : Price, qty : 0..MaxQty,
          stamp : Nat, trades : Seq(Trade)]

ASSUME PriceAssumption   == Price \subseteq Nat
ASSUME BoundAssumption   == MaxQty \in Nat /\ MaxRequests \in Nat
ASSUME NoPlaceAssumption == NoPlace \notin Place
ASSUME NoOrderAssumption == NoOrder \notin Taker

VARIABLES
  queue,      \* queue[side][price]: the VecDeque of that price level
  levels,     \* levels[side]: the keys of the BTreeMap bids or asks
  index,      \* index[id]: where OrderBook.index says the order rests
  sequence,   \* MatchingEngine.sequence
  created,    \* the registry has an engine for this market
  active,     \* the order being matched under the mutex, or NoOrder
  \* History, read by the properties only:
  log,        \* every trade executed
  submitted,  \* submitted[id]: lots asked for by the last submission of id
  filled,     \* filled[id]: lots traded since then
  gone,       \* ids cancelled, or lost by a panic, since then
  clock       \* number of submissions and replacements so far

book    == <<queue, levels, index>>
history == <<log, submitted, filled, gone, clock>>
vars    == <<book, sequence, created, active, history>>

-----------------------------------------------------------------------------
(* Slips: what some operators below would be after a plausible mistake in  *)
(* the code.  No specification uses them; each shows that a property tells *)
(* the code from the mistake.                                              *)

\* cancel forgets the queue and only clears the index.
AfterCancelIndexOnly(id) == queue
\* The loop's price check is strict.
CrossesStrictly(order, p) ==
  IF order.side = "BUY" THEN order.price > p ELSE order.price < p
\* Both loops take the first key of the map.
FirstKey(side, p) == p \in levels[side] /\ \A q \in levels[side] : p <= q
\* The part-filled front order goes back with push_back.
RequeueLast(rest, front) == IF front.qty > 0 THEN Append(rest, front) ELSE rest
\* The front order goes back without the check of its remainder.
RequeueEmpty(rest, front) == <<front>> \o rest
\* The front order is popped and never put back.
RequeueNever(rest, front) == rest
\* The loop skips an empty level and looks for the best one again.
SpinOnEmpty == UNCHANGED <<active, gone>>
\* A trade takes the sequence number before the increment.
TradeBefore(order, resting, p, qty) ==
  [buy_order  |-> IF order.side = "BUY" THEN order.id ELSE resting.id,
   sell_order |-> IF order.side = "BUY" THEN resting.id ELSE order.id,
   price |-> p, quantity |-> qty, sequence |-> sequence]
\* A trade tells of the lots the resting order had.
MakersLots(order, resting, p, qty) ==
  [buy_order  |-> IF order.side = "BUY" THEN order.id ELSE resting.id,
   sell_order |-> IF order.side = "BUY" THEN resting.id ELSE order.id,
   price |-> p, quantity |-> resting.qty, sequence |-> sequence + 1]
\* The taker trades all it asks for, whatever the resting order offers.
TakersLots(a, b) == a

-----------------------------------------------------------------------------
(* The order book.                                                         *)

Opposite(side) == IF side = "BUY" THEN "SELL" ELSE "BUY"

\* best_bid takes the last key of the map, best_ask the first.
Better(side, p, q) == IF side = "BUY" THEN p > q ELSE p < q
Best(side, p) ==
  p \in levels[side] /\ \A q \in levels[side] : q = p \/ Better(side, p, q)

\* The loop breaks on order.price < best ask (on order.price > best bid).
Crosses(order, p) ==
  IF order.side = "BUY" THEN order.price >= p ELSE order.price <= p

\* queue.retain(|o| o.id != id): no two orders of a queue have the same id
\* (IndexTracksBook), so at most one position goes.
Holds(q, id) == \E i \in DOMAIN q : q[i].id = id
Retain(q, id) ==
  IF Holds(q, id)
  THEN LET k == CHOOSE i \in DOMAIN q : q[i].id = id
       IN  [i \in 1..(Len(q) - 1) |-> IF i < k THEN q[i] ELSE q[i + 1]]
  ELSE q

\* MatchingEngine::cancel.  The level stays in the map, even when its queue
\* is now empty; nothing removes an id from the index when its order fills.
AfterCancel(id) ==
  IF index[id] = NoPlace
  THEN queue
  ELSE [queue EXCEPT ![index[id].side][index[id].price] = Retain(@, id)]

\* What OrderBook::add stores of an order that was not filled: its lots are
\* all there, since an order that empties a level and has lots left panics.
Resting(order) == [id |-> order.id, qty |-> order.qty, stamp |-> order.stamp]

\* The front order after a fill: pushed back in front while it has lots left.
Requeue(rest, front) == IF front.qty > 0 THEN <<front>> \o rest ELSE rest

\* OrderBook::cleanup, on the keys of one map.
NonEmpty(side) == {p \in levels[side] : queue[side][p] # <<>>}

\* order.quantity.min(resting.quantity)
Least(a, b) == IF a <= b THEN a ELSE b

-----------------------------------------------------------------------------
(* Requests.  risk::validate refuses quantity 0 before the mutex is taken. *)

Validate(qty) == qty > 0

\* The start of MatchingEngine::submit, with the mutex held.
Begin(id, side, price, qty) ==
  /\ clock < MaxRequests
  /\ clock' = clock + 1
  /\ active' = [id |-> id, side |-> side, price |-> price, qty |-> qty,
                stamp |-> clock + 1, trades |-> <<>>]
  /\ submitted' = [submitted EXCEPT ![id] = qty]
  /\ filled' = [filled EXCEPT ![id] = 0]
  /\ gone' = gone \ {id}

\* submit_order: the id is fresh, the market is created when it is missing.
SubmitOrder(id, side, price, qty) ==
  /\ active = NoOrder
  /\ submitted[id] = 0
  /\ Validate(qty)
  /\ Begin(id, side, price, qty)
  /\ created' = TRUE
  /\ UNCHANGED <<book, sequence, log>>

\* cancel_order: NotFound, with no effect, when the market does not exist.
CancelOrder(id) ==
  /\ active = NoOrder
  /\ created
  /\ queue' = AfterCancel(id)
  /\ index' = [index EXCEPT ![id] = NoPlace]
  /\ gone' = gone \cup {id}
  /\ UNCHANGED <<levels, sequence, created, active,
                 log, submitted, filled, clock>>

\* replace_order: cancel, then submit under the same id.
ReplaceOrder(id, side, price, qty) ==
  /\ active = NoOrder
  /\ created
  /\ Validate(qty)
  /\ queue' = AfterCancel(id)
  /\ index' = [index EXCEPT ![id] = NoPlace]
  /\ Begin(id, side, price, qty)
  /\ UNCHANGED <<levels, sequence, created, log>>

-----------------------------------------------------------------------------
(* The matching loop of MatchingEngine::submit.                            *)

TradeOf(order, resting, p, qty) ==
  [buy_order  |-> IF order.side = "BUY" THEN order.id ELSE resting.id,
   sell_order |-> IF order.side = "BUY" THEN resting.id ELSE order.id,
   price |-> p, quantity |-> qty, sequence |-> sequence + 1]

\* The loop's test and the price check: level p is to be matched next.
Matchable(p) ==
  /\ active # NoOrder
  /\ active.qty > 0
  /\ Best(Opposite(active.side), p)
  /\ Crosses(active, p)

\* One iteration, against the front order of the best level.
Match(p) ==
  /\ Matchable(p)
  /\ queue[Opposite(active.side)][p] # <<>>
  /\ LET side    == Opposite(active.side)
         resting == Head(queue[side][p])
         fill    == Least(active.qty, resting.qty)
         trade   == TradeOf(active, resting, p, fill)
     IN  /\ queue' = [queue EXCEPT ![side][p] =
                        Requeue(Tail(@), [resting EXCEPT !.qty = @ - fill])]
         /\ active' = [active EXCEPT !.qty = @ - fill,
                                     !.trades = Append(@, trade)]
         /\ log' = Append(log, trade)
         /\ filled' = [filled EXCEPT ![active.id] = @ + fill,
                                     ![resting.id] = @ + fill]
  /\ sequence' = sequence + 1
  /\ UNCHANGED <<levels, index, created, submitted, gone, clock>>

\* pop_front().unwrap() panics: the order and its trades are dropped, the
\* caller gets an error, the mutex is free again.
Drop ==
  /\ active' = NoOrder
  /\ gone' = gone \cup {active.id}

\* The level the loop chose holds no order: a cancellation emptied it, or this
\* very order did, since its key stays in the map until cleanup, which a panic
\* skips.
Panic(p) ==
  /\ Matchable(p)
  /\ queue[Opposite(active.side)][p] = <<>>
  /\ Drop
  /\ UNCHANGED <<book, sequence, created, log, submitted, filled, clock>>

\* The loop is left: the order is filled, or no level crosses it any more.
LoopDone ==
  /\ active # NoOrder
  /\ active.qty = 0 \/ \A p \in levels[Opposite(active.side)] : ~Crosses(active, p)

\* cleanup, then OrderBook::add for what is left; the trades are returned.
Finish ==
  LET rests(side) == active.qty > 0 /\ side = active.side
  IN
  /\ LoopDone
  /\ levels' = [s \in Side |-> NonEmpty(s) \cup
                  (IF rests(s) THEN {active.price} ELSE {})]
  /\ queue' = IF active.qty = 0 THEN queue
              ELSE [queue EXCEPT ![active.side][active.price] =
                      Append(@, Resting(active))]
  /\ index' = IF active.qty = 0 THEN index
              ELSE [index EXCEPT ![active.id] =
                      [side |-> active.side, price |-> active.price]]
  /\ active' = NoOrder
  /\ UNCHANGED <<sequence, created, log, submitted, filled, gone, clock>>

-----------------------------------------------------------------------------
Init ==
  /\ queue = [s \in Side |-> [p \in Price |-> <<>>]]
  /\ levels = [s \in Side |-> {}]
  /\ index = [i \in Id |-> NoPlace]
  /\ sequence = 0
  /\ created = FALSE
  /\ active = NoOrder
  /\ log = <<>>
  /\ submitted = [i \in Id |-> 0]
  /\ filled = [i \in Id |-> 0]
  /\ gone = {}
  /\ clock = 0

Request ==
  \E id \in Id :
    \/ CancelOrder(id)
    \/ \E side \in Side, price \in Price, qty \in 0..MaxQty :
         SubmitOrder(id, side, price, qty) \/ ReplaceOrder(id, side, price, qty)

\* What the handler that holds the mutex does next.
Work == Finish \/ \E p \in Price : Match(p) \/ Panic(p)

Next == Request \/ Work

Spec == Init /\ [][Next]_vars

\* The handler is a running task, never suspended while it holds the mutex.
FairSpec == Spec /\ WF_vars(Work)
-----------------------------------------------------------------------------
(* Properties.                                                             *)

Queued(id) ==
  \E s \in Side, p \in Price : \E i \in DOMAIN queue[s][p] : queue[s][p][i].id = id
Matching(id) == active # NoOrder /\ active.id = id

\* Types of every variable; an order that rests has at least one lot.
TypeOK ==
  /\ queue \in [Side -> [Price -> Seq(Entry)]]
  /\ levels \in [Side -> SUBSET Price]
  /\ index \in [Id -> Place \cup {NoPlace}]
  /\ sequence \in Nat
  /\ created \in BOOLEAN
  /\ active \in Taker \cup {NoOrder}
  /\ log \in Seq(Trade)
  /\ submitted \in [Id -> 0..MaxQty]
  /\ filled \in [Id -> Nat]
  /\ gone \subseteq Id
  /\ clock \in 0..MaxRequests

\* cancel and replace find an order only through the index: every order in a
\* queue is indexed at that very place, no id is queued twice, the order being
\* matched is not queued, and a queue that holds orders is a level of its map.
\* (The converse fails by design: a filled order keeps its index entry.)
IndexTracksBook ==
  /\ \A s \in Side, p \in Price : \A i \in DOMAIN queue[s][p] :
       /\ index[queue[s][p][i].id] = [side |-> s, price |-> p]
       /\ \A j \in DOMAIN queue[s][p] :
            queue[s][p][i].id = queue[s][p][j].id => i = j
       /\ p \in levels[s]
       /\ ~Matching(queue[s][p][i].id)

\* The book is never crossed, not even between two iterations of the loop:
\* every bid level is below every ask level, also the levels that a cancel or
\* a panic left behind empty.
Uncrossed ==
  \A bid \in levels["BUY"], ask \in levels["SELL"] : bid < ask

\* Time priority: the orders of a level are queued in the order in which the
\* engine accepted them, a part-filled order keeps its place, a replaced one
\* loses it, and the order being matched is younger than all of them.
TimePriority ==
  /\ \A s \in Side, p \in Price : \A i \in DOMAIN queue[s][p] :
       /\ queue[s][p][i].stamp <= clock
       /\ \A j \in DOMAIN queue[s][p] :
            i < j => queue[s][p][i].stamp < queue[s][p][j].stamp
       /\ active # NoOrder => queue[s][p][i].stamp < active.stamp
  /\ active # NoOrder => active.stamp <= clock

\* No lot is created or lost by matching: what an order still offers and what
\* its trades took make up what it asked for, also after a panic or a replace.
Conservation ==
  /\ \A s \in Side, p \in Price : \A i \in DOMAIN queue[s][p] :
       LET order == queue[s][p][i]
       IN  order.qty + filled[order.id] = submitted[order.id]
  /\ active # NoOrder => active.qty + filled[active.id] = submitted[active.id]
  /\ \A id \in Id : filled[id] <= submitted[id]

\* An accepted order is filled, or rests in the book, or is being matched, or
\* was cancelled (or dropped by a panic); one that was cancelled or dropped is
\* neither in the book nor being matched, so that it never trades again.
Whereabouts ==
  /\ \A id \in Id : submitted[id] > 0 =>
       filled[id] = submitted[id] \/ Queued(id) \/ Matching(id) \/ id \in gone
  /\ \A id \in gone : ~Queued(id) /\ ~Matching(id)

\* Price-time priority of a trade: of all the orders on the other side of the
\* book, the one that trades has the best price and, at that price, is the
\* oldest; the price of the trade is its price, and the taker accepts it.
NoTradeThroughStep ==
  log' # log =>
    \E p \in Price :
      LET side  == Opposite(active.side)
          trade == log'[Len(log')]
          maker == Head(queue[side][p])
      IN  /\ queue[side][p] # <<>>
          /\ trade.price = p
          /\ maker.id = IF side = "BUY" THEN trade.buy_order ELSE trade.sell_order
          /\ IF side = "SELL" THEN p <= active.price ELSE p >= active.price
          /\ \A q \in Price : \A i \in DOMAIN queue[side][q] :
               \/ IF side = "BUY" THEN q < p ELSE q > p
               \/ q = p /\ maker.stamp <= queue[side][q][i].stamp
NoTradeThrough == [][NoTradeThroughStep]_vars

\* The trades that a reply will return are the last of the tape, in its order,
\* and tell of every lot that the order has traded (`total[i]` are those of its
\* first i trades): the gateway learns of trades from replies only.
ReplyComplete ==
  active # NoOrder =>
    LET reply == active.trades
        lots  == filled[active.id]
    IN  /\ \E k \in 0..Len(log) : reply = SubSeq(log, k + 1, Len(log))
        /\ \E total \in [0..Len(reply) -> 0..lots] :
             /\ total[0] = 0 /\ total[Len(reply)] = lots
             /\ \A i \in DOMAIN reply : total[i] = total[i - 1] + reply[i].quantity

\* The handler always gives the mutex back: the loop ends, by its test, by the
\* price check or by a panic, and does not starve the other requests.
LockReleased == active # NoOrder ~> active = NoOrder

\* The level the loop chose holds an order, which pop_front().unwrap() assumes.
LevelHoldsOrder ==
  \A p \in Price : Matchable(p) => queue[Opposite(active.side)][p] # <<>>
=============================================================================
