---------------------------- MODULE OrderGateway ----------------------------
(***************************************************************************)
(* The order routes of the API gateway (routes/orders.ts), between the     *)
(* matching engine they call over gRPC and the database they write.        *)
(*                                                                         *)
(* A handler is one HTTP request.  It awaits the engine and then every     *)
(* query, so handlers interleave at each await, in the gateway process and *)
(* across several of them; nothing undoes the steps of a handler that      *)
(* fails half-way.  The engine is taken as what it promises, PriceTimeBook *)
(* (MatchingEngineRefinement), and it restarts with an empty registry:     *)
(* main.rs loads a snapshot that no code ever saves.                       *)
(*                                                                         *)
(* One market and one wallet: every other request is refused before it has *)
(* any effect.  Writes of one statement are atomic, as in the database.    *)
(***************************************************************************)
EXTENDS Integers, Sequences

CONSTANTS
  Handler,      \* the HTTP requests of a behaviour
  Body,         \* the prices and quantities that requests ask for
  HalfWord,     \* uint64 goes to 2 * HalfWord - 1, BIGINT to HalfWord - 1
  Misread,      \* what a text that is no plain decimal number may be sent as
  MaxRestarts,  \* bound: restarts of the engine
  Nobody,       \* the engine's mutex is free
  NoRow,        \* the table orders has no row for the id
  NoRequest     \* the request has not been received

MaxWord == 2 * HalfWord - 1
Words   == 0..MaxWord

\* A body has two texts.  `price' and `qty' are the numbers that BigInt() and
\* PostgreSQL read from them, of either sign and any size; `plain' says that
\* both are written in decimal digits, with a sign at most.
ASSUME BodyAssumption ==
  /\ Body \subseteq [price : Int, qty : Int, plain : BOOLEAN]
  /\ Misread \subseteq Words

ASSUME BoundsAssumption == HalfWord \in Nat \ {0} /\ MaxRestarts \in Nat

VARIABLES
  \* The engine:
  open, taker, tape,  \* as in PriceTimeBook
  market,             \* the registry has an engine for the market
  holder,             \* the handler that taker is matched for, or Nobody
  arrivals,           \* orders and replacements accepted so far
  \* The handlers:
  pc,                 \* pc[h]: the await at which h is
  req,                \* req[h]: what the client asked for
  executed,           \* executed[h]: the trades of the engine's reply to h
  written,            \* written[h]: how many of them h has inserted
  \* The database:
  orders,             \* orders[id]: its row, or NoRow
  trades,             \* rows of trades, UNIQUE(market, sequence)
  \* History:
  restarts            \* restarts of the engine

engine   == <<open, taker, tape, market, holder, arrivals>>
handlers == <<pc, req, executed, written>>
database == <<orders, trades>>
vars     == <<engine, handlers, database, restarts>>

\* The id of an order is a UUID that its POST draws: the POST itself, here.
Id == Handler

Engine == INSTANCE PriceTimeBook WITH Price <- Words, MaxQty <- MaxWord

Side    == {"BUY", "SELL"}
Trade   == [buy_order : Id, sell_order : Id, price : Words,
            quantity : Nat, sequence : Nat]
Row     == [side : Side, price : Int, qty : Int, status : {"OPEN", "CANCELLED"}]
Request == [op : {"POST", "PUT", "DELETE"}, id : Id, side : Side,
            price : Int, qty : Int, plain : BOOLEAN]

ASSUME NullAssumption ==
  /\ NoRow \notin Row /\ NoRequest \notin Request
  /\ Nobody \notin Engine!Order /\ Nobody \notin Handler

\* What a handler awaits: the engine's mutex, the engine's reply, the insert
\* of its order or of a trade, the update of its order.
Awaits == {"mutex", "engine", "order", "trade", "update"}
InFlight(h) == pc[h] \in Awaits

-----------------------------------------------------------------------------
(* Numbers.  A handler passes the texts of its body on: to proto-loader,   *)
(* which makes a uint64 of them, and to a BIGINT column.                   *)

\* proto-loader keeps the lowest 64 bits of a decimal number, also of a
\* negative one.
Wire(n) == n % (2 * HalfWord)

\* What the engine may get for n, a number of the request r.
Sent(n, r) == IF r.plain THEN {Wire(n)} ELSE {Wire(n)} \cup Misread

\* A BIGINT column takes the number; otherwise the query fails.
Storable(n) == -HalfWord <= n /\ n < HalfWord

-----------------------------------------------------------------------------
(* Slips, as in MatchingEngine: plausible mistakes, used by no action.     *)

\* POST takes a reply without trades for one with trades.
AlwaysTrades(h) == "trade"
\* POST skips the trades of an order once its row is in.
NeverTrades(h) == "done"
\* POST answers from the engine's reply and stores nothing.
AnswerFirst(h) == IF req[h].op = "POST" THEN "done" ELSE "update"
\* PUT does not store the new price.
ReplacedQtyOnly(row, r) == [row EXCEPT !.qty = r.qty]
\* The engine's cancel keeps the order.
KeepOrder(id) == open

-----------------------------------------------------------------------------
(* Receiving a request.                                                    *)

\* SELECT ... WHERE id = $1 AND wallet = $2 AND status = 'OPEN' has a row.
Found(id) == orders[id] # NoRow /\ orders[id].status = "OPEN"

Receive(h, r, step) ==
  /\ pc[h] = "idle"
  /\ pc' = [pc EXCEPT ![h] = step]
  /\ req' = [req EXCEPT ![h] = r]
  /\ UNCHANGED <<engine, executed, written, database, restarts>>

\* POST: the numbers must be positive, the id is a new UUID.
Post(h, side, body) ==
  /\ body.price > 0 /\ body.qty > 0
  /\ Receive(h, [op |-> "POST", id |-> h, side |-> side, price |-> body.price,
                 qty |-> body.qty, plain |-> body.plain], "mutex")

\* DELETE: 404 when there is no open row.
Delete(h, id) ==
  /\ Found(id)
  /\ Receive(h, [op |-> "DELETE", id |-> id, side |-> orders[id].side,
                 price |-> orders[id].price, qty |-> 0, plain |-> TRUE], "mutex")

\* PUT: 404 when there is no open row; neither sign nor size of the new price
\* and quantity is checked.
Put(h, id, body) ==
  /\ Found(id)
  /\ Receive(h, [op |-> "PUT", id |-> id, side |-> orders[id].side, price |-> body.price,
                 qty |-> body.qty, plain |-> body.plain], "mutex")

-----------------------------------------------------------------------------
(* The calls of the engine.  A call runs under the mutex; risk::validate   *)
(* refuses quantity 0 before that, and cancel and replace refuse a market  *)
(* the registry does not know.                                             *)

Called(h) == pc[h] = "mutex" /\ taker = Nobody

\* submit_order and replace_order, up to the start of the matching loop.
StartMatching(h) ==
  /\ Called(h)
  /\ req[h].op \in {"POST", "PUT"}
  /\ market \/ req[h].op = "POST"
  /\ \E price \in Sent(req[h].price, req[h]), qty \in Sent(req[h].qty, req[h]) \ {0} :
       taker' = [id |-> req[h].id, side |-> req[h].side, price |-> price,
                 qty |-> qty, stamp |-> arrivals + 1]
  /\ Engine!Arrive
  /\ arrivals' = arrivals + 1
  /\ market' = TRUE
  /\ holder' = h
  /\ pc' = [pc EXCEPT ![h] = "engine"]
  /\ UNCHANGED <<req, executed, written, database, restarts>>

AfterCancel(id) == Engine!Without(id)

\* cancel_order, which succeeds also when the id is nowhere in the book.
EngineCancel(h) ==
  /\ Called(h)
  /\ req[h].op = "DELETE"
  /\ market
  /\ open' = AfterCancel(req[h].id)
  /\ pc' = [pc EXCEPT ![h] = "update"]
  /\ UNCHANGED <<taker, tape, market, holder, arrivals,
                 req, executed, written, database, restarts>>

EngineRefuse(h) ==
  /\ pc[h] = "mutex"
  /\ \/ req[h].op # "DELETE" /\ 0 \in Sent(req[h].qty, req[h])
     \/ req[h].op # "POST" /\ ~market /\ taker = Nobody
  /\ pc' = [pc EXCEPT ![h] = "failed"]
  /\ UNCHANGED <<engine, req, executed, written, database, restarts>>

\* A fill, for a handler that still waits or for one that is gone.
EngineFill ==
  /\ Engine!Fill
  /\ executed' = [executed EXCEPT ![holder] = Append(@, tape'[Len(tape')])]
  /\ UNCHANGED <<market, holder, arrivals, pc, req, written, database, restarts>>

\* The handler that waits for the call goes on at step.
Answer(step) ==
  pc' = IF pc[holder] = "engine" THEN [pc EXCEPT ![holder] = step] ELSE pc

\* After the engine's reply: POST inserts, PUT updates.
AfterReply(h) == IF req[h].op = "POST" THEN "order" ELSE "update"

EngineReturn ==
  /\ Engine!Settle
  /\ Answer(AfterReply(holder))
  /\ holder' = Nobody
  /\ UNCHANGED <<market, arrivals, req, executed, written, database, restarts>>

\* What a handler sees of a call that panicked: an error.
Failure == Answer("failed")

\* The loop can panic on an empty level (MatchingEngine): the error reaches
\* the caller, the trades do not.
EnginePanic ==
  /\ Engine!Abort
  /\ Failure
  /\ holder' = Nobody
  /\ UNCHANGED <<market, arrivals, req, executed, written, database, restarts>>

\* The engine's process dies and starts again, with no market.
EngineRestart ==
  /\ restarts < MaxRestarts
  /\ restarts' = restarts + 1
  /\ open' = {} /\ taker' = Nobody /\ tape' = <<>>
  /\ market' = FALSE
  /\ holder' = Nobody
  /\ pc' = [h \in Handler |-> IF pc[h] = "engine" THEN "failed" ELSE pc[h]]
  /\ UNCHANGED <<arrivals, req, executed, written, database>>

-----------------------------------------------------------------------------
(* The queries.  One whose numbers do not fit their columns fails (Fail).  *)

\* After the row of the order: the trades, or the answer.
AfterOrder(h) == IF executed[h] = <<>> THEN "done" ELSE "trade"

InsertOrder(h) ==
  /\ pc[h] = "order"
  /\ Storable(req[h].price) /\ Storable(req[h].qty)
  /\ orders' = [orders EXCEPT ![req[h].id] =
       [side |-> req[h].side, price |-> req[h].price,
        qty |-> req[h].qty, status |-> "OPEN"]]
  /\ pc' = [pc EXCEPT ![h] = AfterOrder(h)]
  /\ UNCHANGED <<engine, req, executed, written, trades, restarts>>

\* INSERT ... ON CONFLICT (market, sequence) DO NOTHING.
InsertTrade(h) ==
  LET n   == written[h] + 1
      row == executed[h][n]
  IN
  /\ pc[h] = "trade"
  /\ Storable(row.price) /\ Storable(row.quantity)
  /\ trades' = IF \E r \in trades : r.sequence = row.sequence
               THEN trades ELSE trades \cup {row}
  /\ written' = [written EXCEPT ![h] = n]
  /\ pc' = [pc EXCEPT ![h] = IF n = Len(executed[h]) THEN "done" ELSE @]
  /\ UNCHANGED <<engine, req, executed, orders, restarts>>

\* UPDATE orders SET price, quantity: not the status, and no trade.
Replaced(row, r) == [row EXCEPT !.price = r.price, !.qty = r.qty]

\* The last query of PUT and of DELETE; neither looks at the status again.
UpdateOrder(h) ==
  /\ pc[h] = "update"
  /\ req[h].op = "PUT" => Storable(req[h].price) /\ Storable(req[h].qty)
  /\ orders' = [orders EXCEPT ![req[h].id] =
       IF req[h].op = "PUT" THEN Replaced(@, req[h])
       ELSE [@ EXCEPT !.status = "CANCELLED"]]
  /\ pc' = [pc EXCEPT ![h] = "done"]
  /\ UNCHANGED <<engine, req, executed, written, trades, restarts>>

\* The call or the query of a handler fails, or its process dies: 500 or no
\* answer.  A call that fails at "mutex" never reached the engine; one that
\* fails at "engine" goes on without its caller.
Fail(h) ==
  /\ InFlight(h)
  /\ pc' = [pc EXCEPT ![h] = "failed"]
  /\ UNCHANGED <<engine, req, executed, written, database, restarts>>

-----------------------------------------------------------------------------
Init ==
  /\ Engine!BookInit
  /\ market = FALSE
  /\ holder = Nobody
  /\ arrivals = 0
  /\ pc = [h \in Handler |-> "idle"]
  /\ req = [h \in Handler |-> NoRequest]
  /\ executed = [h \in Handler |-> <<>>]
  /\ written = [h \in Handler |-> 0]
  /\ orders = [i \in Id |-> NoRow]
  /\ trades = {}
  /\ restarts = 0

Receipt(h) ==
  \/ \E id \in Id : Delete(h, id)
  \/ \E body \in Body :
       \/ \E id \in Id : Put(h, id, body)
       \/ \E side \in Side : Post(h, side, body)

Call(h)  == StartMatching(h) \/ EngineCancel(h) \/ EngineRefuse(h)
Query(h) == InsertOrder(h) \/ InsertTrade(h) \/ UpdateOrder(h)
Matching == EngineFill \/ EngineReturn \/ EnginePanic

Next ==
  \/ \E h \in Handler : Receipt(h) \/ Call(h) \/ Query(h) \/ Fail(h)
  \/ Matching
  \/ EngineRestart

Spec == Init /\ [][Next]_vars

-----------------------------------------------------------------------------
(* Properties.                                                             *)

\* Types of every variable; a handler at "trade" has a trade left to insert.
TypeOK ==
  /\ open \subseteq Engine!Order
  /\ taker \in Engine!Order \cup {Nobody}
  /\ tape \in Seq(Trade)
  /\ market \in BOOLEAN
  /\ IF taker = Nobody THEN holder = Nobody ELSE holder \in Handler
  /\ arrivals \in Nat
  /\ pc \in [Handler -> Awaits \cup {"idle", "done", "failed"}]
  /\ req \in [Handler -> Request \cup {NoRequest}]
  /\ \A h \in Handler : (req[h] = NoRequest) = (pc[h] = "idle")
  /\ executed \in [Handler -> Seq(Trade)]
  /\ written \in [Handler -> Nat]
  /\ \A h \in Handler : pc[h] = "trade" => written[h] < Len(executed[h])
  /\ orders \in [Id -> Row \cup {NoRow}]
  /\ trades \subseteq Trade
  /\ restarts \in 0..MaxRestarts

For(h, id, ops) == req[h] # NoRequest /\ req[h].id = id /\ req[h].op \in ops
Executed(h) == {executed[h][i] : i \in DOMAIN executed[h]}

\* Until the engine restarts, the rows of trades are trades of its tape, and
\* what the tape has more is accounted for: its POST is in flight, or failed,
\* or the trade belongs to a PUT, which stores none.
TapeRecorded ==
  restarts = 0 =>
    /\ \A t \in trades : t.sequence <= Len(tape) /\ tape[t.sequence] = t
    /\ \A i \in DOMAIN tape :
         \/ tape[i] \in trades
         \/ \E h \in Handler :
              /\ tape[i] \in Executed(h)
              /\ pc[h] # "done" \/ req[h].op = "PUT"

\* The engine never matches an order that the database does not know, unless
\* the POST of that order is still in flight or has failed.
OrdersRecorded ==
  \A o \in open \cup ({taker} \ {Nobody}) :
    orders[o.id] = NoRow =>
      \E h \in Handler : For(h, o.id, {"POST"}) /\ (InFlight(h) \/ pc[h] = "failed")

\* A cancelled order that nobody asked to replace is out of the engine for
\* good, whatever else happens to the handlers and to the engine.
CancelStands ==
  \A id \in Id :
    /\ orders[id] # NoRow /\ orders[id].status = "CANCELLED"
    /\ \A h \in Handler : ~For(h, id, {"PUT"})
    => \A o \in open \cup ({taker} \ {Nobody}) : o.id # id

\* Every request on id was answered, none failed, each wrote its numbers in
\* plain decimal digits, and the engine did not restart.
Calm(id) ==
  /\ restarts = 0
  /\ \A h \in Handler : For(h, id, {"POST", "PUT", "DELETE"}) =>
       pc[h] = "done" /\ req[h].plain

\* o is what the row of its id says.  A row that PUT made negative stands for
\* the 64-bit number that the engine got: for -5, 2^64 - 5 lots.
AsRecorded(o) ==
  /\ orders[o.id] # NoRow
  /\ orders[o.id].status = "OPEN"
  /\ orders[o.id].side = o.side /\ o.price = Wire(orders[o.id].price)
  /\ o.qty <= Wire(orders[o.id].qty)

\* Changed at most once by its owner, an order rests in the engine as its row
\* says it does: exactly so when the row is not negative, and modulo 2^64 when
\* it is.
RowsMatchBook ==
  \A o \in open :
    /\ Calm(o.id)
    /\ \A g, h \in Handler :
         For(g, o.id, {"PUT", "DELETE"}) /\ For(h, o.id, {"PUT", "DELETE"}) => g = h
    => AsRecorded(o)

\* "Replace an existing order (cancel + new order atomically)" (orders.ts):
\* however many replacements and cancellations of an order were answered, the
\* engine and its row agree.
ReplaceAtomic == \A o \in open : Calm(o.id) => AsRecorded(o)

\* "Trades persisted to DB before acknowledgment" (docs/failure-modes.md).
DurableTrades ==
  \A h \in Handler : pc[h] = "done" => Executed(h) \subseteq trades

=============================================================================
