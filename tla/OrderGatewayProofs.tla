------------------------- MODULE OrderGatewayProofs -------------------------
(***************************************************************************)
(* Proofs about OrderGateway, for any requests, prices and quantities of   *)
(* either sign and any size, any width of a word and any number of         *)
(* restarts: types, and the four invariants that relate the rows of        *)
(* orders and trades to the engine over every interleaving and failure.    *)
(***************************************************************************)
EXTENDS OrderGateway, TLAPS

-----------------------------------------------------------------------------
(* Numbers.                                                                *)

LEMMA WireIsWord ==
  ASSUME NEW n \in Int
  PROVE  Wire(n) \in Words /\ Wire(n) \in Nat
<1> DEFINE w == 2 * HalfWord
<1>1. w \in Nat /\ w > 0 /\ MaxWord = w - 1
  BY BoundsAssumption DEF MaxWord
<1> HIDE DEF w
<1>2. n % w \in 0..(w - 1)
  BY <1>1
<1> QED  BY <1>1, <1>2 DEF Wire, Words, w

\* Whatever it makes of a text, proto-loader sends a word: the book takes every
\* order that StartMatching gives it.
LEMMA SentIsWord ==
  ASSUME NEW r \in Request
  PROVE  Sent(r.price, r) \subseteq Words /\ Sent(r.qty, r) \subseteq Words
BY WireIsWord, BodyAssumption DEF Sent, Request

-----------------------------------------------------------------------------
(* The control of the handlers.                                            *)

\* Where a handler can be for what it was asked, and what it has by then.
Flow ==
  \A h \in Handler :
    /\ pc[h] \in {"idle", "mutex", "engine", "order", "update"} => written[h] = 0
    /\ pc[h] \in {"idle", "mutex"} => executed[h] = <<>>
    /\ pc[h] # "idle" =>
         /\ req[h].op = "POST" => req[h].id = h
         /\ req[h].op # "POST" => orders[req[h].id] # NoRow
         /\ req[h].op = "DELETE" => pc[h] # "engine" /\ executed[h] = <<>>
    /\ pc[h] = "order" => req[h].op = "POST"
    /\ pc[h] = "update" => req[h].op # "POST"

\* The handler that the engine works for waits for it, or is gone.
Held ==
  taker # Nobody => /\ pc[holder] \in {"engine", "failed"}
                    /\ req[holder].op # "DELETE"

Control == TypeOK /\ Flow /\ Held

\* n is o, or what fills have left of it.
LeftOf(n, o) ==
  n.id = o.id /\ n.side = o.side /\ n.price = o.price /\ n.qty <= o.qty

\* A fill keeps the taker's id, opens no other order, takes lots away from two,
\* and puts one trade on tape.
LEMMA FillEffect ==
  ASSUME TypeOK, Engine!Fill
  PROVE  /\ taker # Nobody /\ taker' # Nobody
         /\ taker' \in Engine!Order /\ taker'.id = taker.id
         /\ open' \subseteq Engine!Order
         /\ \A o \in open' : \E m \in open : m.id = o.id
         /\ \A n \in open' : \E o \in open : LeftOf(n, o)
         /\ LeftOf(taker', taker)
         /\ \E t \in Trade : tape' = Append(tape, t) /\ t.sequence = Len(tape) + 1
<1>1. taker # Nobody /\ taker \in Engine!Order /\ taker.qty > 0
  BY DEF Engine!Fill, TypeOK
<1> DEFINE Least(maker) == IF taker.qty <= maker.qty THEN taker.qty ELSE maker.qty
           Left(maker) == [maker EXCEPT !.qty = @ - Least(maker)]
           Row1(maker) ==
             [buy_order  |-> IF taker.side = "BUY" THEN taker.id ELSE maker.id,
              sell_order |-> IF taker.side = "BUY" THEN maker.id ELSE taker.id,
              price |-> maker.price, quantity |-> Least(maker),
              sequence |-> Len(tape) + 1]
<1>2. PICK maker \in Engine!Counterparties :
        /\ open' = (open \ {maker}) \cup {o \in {Left(maker)} : o.qty > 0}
        /\ taker' = [taker EXCEPT !.qty = @ - Least(maker)]
        /\ tape' = Append(tape, Row1(maker))
  BY DEF Engine!Fill
<1>3. maker \in open /\ maker \in Engine!Order
  BY DEF Engine!Counterparties, TypeOK
<1>4. Least(maker) \in Nat /\ Least(maker) <= taker.qty /\ Least(maker) <= maker.qty
  BY <1>1, <1>3 DEF Engine!Order
<1>5. taker' \in Engine!Order /\ taker'.id = taker.id
  BY <1>1, <1>2, <1>4 DEF Engine!Order
<1>6. Left(maker) \in Engine!Order /\ Left(maker).id = maker.id
  BY <1>3, <1>4 DEF Engine!Order
<1>7. open' \subseteq Engine!Order /\ \A o \in open' : \E m \in open : m.id = o.id
  BY <1>2, <1>3, <1>6 DEF TypeOK
<1>8. Row1(maker) \in Trade /\ Row1(maker).sequence = Len(tape) + 1
  BY <1>1, <1>3, <1>4 DEF Engine!Order, Trade, TypeOK
<1>9. LeftOf(Left(maker), maker) /\ LeftOf(taker', taker)
  BY <1>1, <1>2, <1>3, <1>4 DEF LeftOf, Engine!Order
<1>10. \A n \in open' : \E o \in open : LeftOf(n, o)
  <2>1. \A o \in open : LeftOf(o, o)
    BY DEF LeftOf, TypeOK, Engine!Order
  <2> HIDE DEF Left
  <2> QED  BY <1>2, <1>3, <1>9, <2>1
<1> HIDE DEF Row1, Left, Least
<1> QED
  BY <1>1, <1>2, <1>5, <1>7, <1>8, <1>9, <1>10, NullAssumption

LEMMA InitControl == Init => Control
<1> SUFFICES ASSUME Init PROVE Control
  OBVIOUS
<1>1. TypeOK
  <2>1. /\ open = {} /\ taker = Nobody /\ tape = <<>> /\ holder = Nobody
        /\ arrivals = 0 /\ restarts = 0 /\ trades = {}
        /\ pc = [h \in Handler |-> "idle"] /\ req = [h \in Handler |-> NoRequest]
        /\ executed = [h \in Handler |-> <<>>] /\ written = [h \in Handler |-> 0]
        /\ orders = [i \in Id |-> NoRow]
    BY DEF Init, Engine!BookInit
  <2>2. market \in BOOLEAN
    BY DEF Init
  <2>3. tape \in Seq(Trade) /\ executed \in [Handler -> Seq(Trade)]
    BY <2>1
  <2>4. restarts \in 0..MaxRestarts /\ arrivals \in Nat
    BY <2>1, BoundsAssumption
  <2> QED  BY <2>1, <2>2, <2>3, <2>4 DEF TypeOK
<1>2. Flow /\ Held
  BY DEF Init, Engine!BookInit, Flow, Held
<1> QED  BY <1>1, <1>2 DEF Control

\* Whatever a client may ask, a request is recorded as one of its kind.
LEMMA ReceiptEffect ==
  ASSUME Control, NEW h \in Handler, Receipt(h)
  PROVE  \E r \in Request :
           /\ r.op = "POST" => r.id = h
           /\ r.op # "POST" => orders[r.id] # NoRow
           /\ r.op # "POST" => orders[r.id].status = "OPEN" /\ orders[r.id].side = r.side
           /\ pc[h] = "idle" /\ pc' = [pc EXCEPT ![h] = "mutex"]
           /\ req' = [req EXCEPT ![h] = r]
           /\ UNCHANGED <<open, taker, tape, market, holder, arrivals, executed, written,
                          orders, trades, restarts>>
<1> USE DEF Control
<1>1. PICK r \in Request :
        /\ Receive(h, r, "mutex")
        /\ r.op = "POST" => r.id = h
        /\ r.op # "POST" => orders[r.id] # NoRow
        /\ r.op # "POST" => orders[r.id].status = "OPEN" /\ orders[r.id].side = r.side
  <2>1. CASE \E id \in Id : Delete(h, id)
    <3>1. PICK id \in Id : Delete(h, id)
      BY <2>1
    <3>2. orders[id] \in Row
      BY <3>1 DEF Delete, Found, TypeOK
    <3>3. [op |-> "DELETE", id |-> id, side |-> orders[id].side,
           price |-> orders[id].price, qty |-> 0, plain |-> TRUE] \in Request
      BY <3>2 DEF Row, Side, Request
    <3> QED  BY <3>1, <3>3 DEF Delete, Found
  <2>2. CASE \E body \in Body, id \in Id : Put(h, id, body)
    <3>1. PICK body \in Body, id \in Id : Put(h, id, body)
      BY <2>2
    <3>2. orders[id] \in Row
      BY <3>1 DEF Put, Found, TypeOK
    <3>3. [op |-> "PUT", id |-> id, side |-> orders[id].side,
           price |-> body.price, qty |-> body.qty, plain |-> body.plain] \in Request
      BY <3>2, BodyAssumption DEF Row, Side, Request
    <3> QED  BY <3>1, <3>3 DEF Put, Found
  <2>3. CASE \E body \in Body, side \in Side : Post(h, side, body)
    <3>1. PICK body \in Body, side \in Side : Post(h, side, body)
      BY <2>3
    <3>2. [op |-> "POST", id |-> h, side |-> side,
           price |-> body.price, qty |-> body.qty, plain |-> body.plain] \in Request
      BY BodyAssumption DEF Request, Id
    <3> QED  BY <3>1, <3>2 DEF Post
  <2> QED  BY <2>1, <2>2, <2>3 DEF Receipt
<1>2. /\ pc[h] = "idle" /\ pc' = [pc EXCEPT ![h] = "mutex"]
      /\ req' = [req EXCEPT ![h] = r]
      /\ UNCHANGED <<open, taker, tape, market, holder, arrivals, executed, written,
                     orders, trades, restarts>>
  BY <1>1 DEF Receive, engine, database
<1> QED  BY <1>1, <1>2

LEMMA ReceiptControl ==
  ASSUME Control, NEW h \in Handler, Receipt(h)
  PROVE  Control'
<1> USE DEF Control
<1>1. PICK r \in Request :
        /\ r.op = "POST" => r.id = h
        /\ r.op # "POST" => orders[r.id] # NoRow
        /\ pc[h] = "idle" /\ pc' = [pc EXCEPT ![h] = "mutex"]
        /\ req' = [req EXCEPT ![h] = r]
        /\ UNCHANGED <<open, taker, tape, market, holder, arrivals, executed, written,
                       orders, trades, restarts>>
  BY ReceiptEffect
<1>2. TypeOK'
  BY <1>1, NullAssumption DEF TypeOK, Awaits
<1>3. Flow'
  BY <1>1 DEF TypeOK, Flow
<1>4. Held'
  BY <1>1 DEF TypeOK, Held
<1> QED  BY <1>2, <1>3, <1>4

LEMMA CallControl ==
  ASSUME Control, NEW h \in Handler, Call(h)
  PROVE  Control'
<1> USE DEF Control
<1>1. CASE StartMatching(h)
  <2>1. /\ taker = Nobody /\ holder' = h /\ taker' \in Engine!Order
        /\ pc[h] = "mutex" /\ pc' = [pc EXCEPT ![h] = "engine"]
        /\ req[h].op \in {"POST", "PUT"} /\ req[h] \in Request
        /\ open' = {o \in open : o.id # taker'.id} /\ tape' = tape
        /\ arrivals' = arrivals + 1 /\ market' = TRUE
        /\ UNCHANGED <<req, executed, written, orders, trades, restarts>>
    BY <1>1 DEF StartMatching, Called, Engine!Arrive, Engine!Without, TypeOK, database
  <2>2. TypeOK'
    BY <2>1, NullAssumption DEF TypeOK, Awaits
  <2>3. Flow'
    BY <2>1 DEF TypeOK, Flow
  <2>4. Held'
    BY <2>1 DEF TypeOK, Held
  <2> QED  BY <2>2, <2>3, <2>4
<1>2. CASE EngineCancel(h)
  <2>1. /\ taker = Nobody /\ pc[h] = "mutex" /\ pc' = [pc EXCEPT ![h] = "update"]
        /\ req[h].op = "DELETE" /\ open' \subseteq open
        /\ UNCHANGED <<taker, tape, market, holder, arrivals, req, executed, written,
                       orders, trades, restarts>>
    BY <1>2 DEF EngineCancel, Called, AfterCancel, Engine!Without, database
  <2>2. TypeOK'
    BY <2>1 DEF TypeOK, Awaits
  <2>3. Flow'
    BY <2>1 DEF TypeOK, Flow
  <2> QED  BY <2>1, <2>2, <2>3 DEF Held
<1>3. CASE EngineRefuse(h)
  <2>1. /\ pc[h] = "mutex" /\ pc' = [pc EXCEPT ![h] = "failed"]
        /\ UNCHANGED <<open, taker, tape, market, holder, arrivals, req, executed,
                       written, orders, trades, restarts>>
    BY <1>3 DEF EngineRefuse, engine, database
  <2>2. TypeOK'
    BY <2>1 DEF TypeOK, Awaits
  <2>3. Flow'
    BY <2>1 DEF TypeOK, Flow
  <2>4. Held'
    BY <2>1 DEF TypeOK, Held
  <2> QED  BY <2>2, <2>3, <2>4
<1> QED  BY <1>1, <1>2, <1>3 DEF Call

\* A fill appends to the reply of the holder, which has not had it yet.
LEMMA FillControl ==
  ASSUME Control, EngineFill
  PROVE  Control'
<1> USE DEF Control
<1>1. PICK t \in Trade : tape' = Append(tape, t)
  BY FillEffect DEF EngineFill
<1>2. /\ executed' = [executed EXCEPT ![holder] = Append(@, t)]
      /\ UNCHANGED <<market, holder, arrivals, pc, req, written, orders, trades, restarts>>
  <2>1. tape'[Len(tape')] = t
    BY <1>1 DEF TypeOK
  <2> QED  BY <2>1 DEF EngineFill, database
<1>3. /\ taker # Nobody /\ taker' # Nobody /\ holder \in Handler
      /\ taker' \in Engine!Order /\ open' \subseteq Engine!Order
  BY FillEffect DEF EngineFill, TypeOK
<1>4. pc[holder] \in {"engine", "failed"} /\ req[holder].op # "DELETE"
  BY <1>3 DEF Held
<1>5. /\ executed' \in [Handler -> Seq(Trade)]
      /\ \A h \in Handler : Len(executed'[h]) >= Len(executed[h])
      /\ \A h \in Handler \ {holder} : executed'[h] = executed[h]
  BY <1>2, <1>3 DEF TypeOK
<1>6. TypeOK'
  <2>1. \A h \in Handler : pc'[h] = "trade" => written'[h] < Len(executed'[h])
    BY <1>2, <1>5 DEF TypeOK
  <2>2. tape' \in Seq(Trade)
    BY <1>1 DEF TypeOK
  <2> QED  BY <1>2, <1>3, <1>5, <2>1, <2>2 DEF TypeOK
<1>7. Flow'
  BY <1>2, <1>3, <1>4, <1>5 DEF Flow
<1>8. Held'
  BY <1>2, <1>3, <1>4 DEF Held
<1> QED  BY <1>6, <1>7, <1>8

\* The engine is free again: the taker settled, panicked, or the engine died.
LEMMA FreeEffect ==
  ASSUME Control, EngineReturn \/ EnginePanic \/ EngineRestart
  PROVE  /\ taker' = Nobody /\ holder' = Nobody /\ open' \subseteq Engine!Order
         /\ tape' \in Seq(Trade) /\ market' \in BOOLEAN
         /\ UNCHANGED <<arrivals, req, executed, written, orders, trades>>
         /\ restarts' \in 0..MaxRestarts
         /\ open' \subseteq open \cup ({taker} \ {Nobody})
         /\ restarts' = 0 => restarts = 0 /\ tape' = tape
         /\ pc' \in [Handler -> Awaits \cup {"idle", "done", "failed"}]
         /\ \A h \in Handler :
              \/ pc'[h] = pc[h]
              \/ pc[h] = "engine" /\ pc'[h] = "failed"
              \/ pc[h] = "engine" /\ req[h].op = "POST" /\ pc'[h] = "order"
              \/ pc[h] = "engine" /\ req[h].op # "POST" /\ pc'[h] = "update"
<1> USE DEF Control
<1>1. /\ taker' = Nobody /\ holder' = Nobody /\ open' \subseteq Engine!Order
      /\ tape' \in Seq(Trade) /\ market' \in BOOLEAN
      /\ UNCHANGED <<arrivals, req, executed, written, orders, trades>>
      /\ restarts' \in 0..MaxRestarts
  <2>1. CASE EngineReturn
    BY <2>1 DEF EngineReturn, Engine!Settle, TypeOK, database
  <2>2. CASE EnginePanic
    BY <2>2 DEF EnginePanic, Engine!Abort, TypeOK, database
  <2>3. CASE EngineRestart
    <3>1. restarts' \in 0..MaxRestarts
      BY <2>3, BoundsAssumption DEF EngineRestart, TypeOK
    <3>2. tape' \in Seq(Trade)
      <4>1. tape' = <<>>
        BY <2>3 DEF EngineRestart
      <4> QED  BY <4>1
    <3>3. market' \in BOOLEAN
      BY <2>3 DEF EngineRestart
    <3> QED  BY <2>3, <3>1, <3>2, <3>3 DEF EngineRestart, database
  <2> QED  BY <2>1, <2>2, <2>3
<1>2. /\ pc' \in [Handler -> Awaits \cup {"idle", "done", "failed"}]
      /\ \A h \in Handler :
           \/ pc'[h] = pc[h]
           \/ pc[h] = "engine" /\ pc'[h] = "failed"
           \/ pc[h] = "engine" /\ req[h].op = "POST" /\ pc'[h] = "order"
           \/ pc[h] = "engine" /\ req[h].op # "POST" /\ pc'[h] = "update"
  <2>1. CASE EngineReturn
    <3>1. taker # Nobody /\ holder \in Handler
      BY <2>1 DEF EngineReturn, Engine!Settle, TypeOK
    <3> QED  BY <2>1, <3>1 DEF EngineReturn, Answer, AfterReply, TypeOK, Awaits
  <2>2. CASE EnginePanic
    <3>1. taker # Nobody /\ holder \in Handler
      BY <2>2 DEF EnginePanic, Engine!Abort, TypeOK
    <3> QED  BY <2>2, <3>1 DEF EnginePanic, Failure, Answer, TypeOK, Awaits
  <2>3. CASE EngineRestart
    BY <2>3 DEF EngineRestart, TypeOK, Awaits
  <2> QED  BY <2>1, <2>2, <2>3
<1>3. open' \subseteq open \cup ({taker} \ {Nobody})
  BY DEF EngineReturn, EnginePanic, EngineRestart, Engine!Settle, Engine!Abort
<1>4. restarts' = 0 => restarts = 0 /\ tape' = tape
  BY DEF EngineReturn, EnginePanic, EngineRestart, Engine!Settle, Engine!Abort, TypeOK
<1> QED  BY <1>1, <1>2, <1>3, <1>4

LEMMA FreeControl ==
  ASSUME Control, EngineReturn \/ EnginePanic \/ EngineRestart
  PROVE  Control'
<1> USE DEF Control
<1>1. TypeOK'
  BY FreeEffect DEF TypeOK
<1>2. Flow'
  BY FreeEffect DEF Flow
<1>3. Held'
  BY FreeEffect DEF Held
<1> QED  BY <1>1, <1>2, <1>3

LEMMA QueryControl ==
  ASSUME Control, NEW h \in Handler, Query(h) \/ Fail(h)
  PROVE  Control'
<1> USE DEF Control
<1>1. CASE InsertOrder(h)
  <2> DEFINE row == [side |-> req[h].side, price |-> req[h].price,
                     qty |-> req[h].qty, status |-> "OPEN"]
  <2>1. /\ pc[h] = "order" /\ pc' = [pc EXCEPT ![h] = AfterOrder(h)]
        /\ orders' = [orders EXCEPT ![req[h].id] = row]
        /\ UNCHANGED <<open, taker, tape, market, holder, arrivals, req, executed,
                       written, trades, restarts>>
    BY <1>1 DEF InsertOrder, engine
  <2>2. req[h] \in Request /\ row \in Row
    BY <2>1 DEF TypeOK, Request, Row
  <2>3. orders' \in [Id -> Row \cup {NoRow}]
        /\ \A id \in Id : orders[id] # NoRow => orders'[id] # NoRow
    BY <2>1, <2>2, NullAssumption DEF TypeOK, Request
  <2>4. /\ AfterOrder(h) \in {"done", "trade"}
        /\ AfterOrder(h) = "trade" => written[h] < Len(executed[h])
    <3>1. written[h] = 0 /\ executed[h] \in Seq(Trade)
      BY <2>1 DEF Flow, TypeOK
    <3> QED  BY <3>1 DEF AfterOrder
  <2>5. TypeOK'
    BY <2>1, <2>3, <2>4 DEF TypeOK, Awaits
  <2>6. Flow'
    BY <2>1, <2>3, <2>4 DEF TypeOK, Flow, Request
  <2>7. Held'
    BY <2>1, <2>4 DEF TypeOK, Held
  <2> QED  BY <2>5, <2>6, <2>7
<1>2. CASE InsertTrade(h)
  <2> DEFINE n == written[h] + 1
  <2>1. /\ pc[h] = "trade"
        /\ written' = [written EXCEPT ![h] = n]
        /\ pc' = [pc EXCEPT ![h] = IF n = Len(executed[h]) THEN "done" ELSE @]
        /\ trades' \subseteq trades \cup {executed[h][n]}
        /\ UNCHANGED <<open, taker, tape, market, holder, arrivals, req, executed,
                       orders, restarts>>
    BY <1>2 DEF InsertTrade, engine
  <2>2. executed[h] \in Seq(Trade) /\ n \in 1..Len(executed[h])
    BY <2>1 DEF TypeOK
  <2>3. executed[h][n] \in Trade
    BY <2>2
  <2>4. TypeOK'
    <3>1. \A g \in Handler : pc'[g] = "trade" => written'[g] < Len(executed'[g])
      BY <2>1, <2>2 DEF TypeOK
    <3>2. written' \in [Handler -> Nat]
      BY <2>1 DEF TypeOK
    <3> HIDE DEF n
    <3> QED  BY <2>1, <2>3, <3>1, <3>2 DEF TypeOK, Awaits
  <2>5. Flow'
    BY <2>1 DEF TypeOK, Flow
  <2>6. Held'
    BY <2>1 DEF TypeOK, Held
  <2> QED  BY <2>4, <2>5, <2>6
<1>3. CASE UpdateOrder(h)
  <2>1. /\ pc[h] = "update" /\ pc' = [pc EXCEPT ![h] = "done"]
        /\ orders' = [orders EXCEPT ![req[h].id] =
             IF req[h].op = "PUT" THEN Replaced(orders[req[h].id], req[h])
             ELSE [orders[req[h].id] EXCEPT !.status = "CANCELLED"]]
        /\ UNCHANGED <<open, taker, tape, market, holder, arrivals, req, executed,
                       written, trades, restarts>>
    BY <1>3 DEF UpdateOrder, engine, TypeOK
  <2>2. req[h] \in Request /\ orders[req[h].id] \in Row
    BY <2>1 DEF TypeOK, Flow, Request
  <2>3. /\ Replaced(orders[req[h].id], req[h]) \in Row
        /\ [orders[req[h].id] EXCEPT !.status = "CANCELLED"] \in Row
    BY <2>2 DEF Replaced, Row, Request
  <2>4. orders' \in [Id -> Row \cup {NoRow}]
        /\ \A id \in Id : orders[id] # NoRow => orders'[id] # NoRow
    BY <2>1, <2>2, <2>3, NullAssumption DEF TypeOK, Request
  <2>5. TypeOK'
    BY <2>1, <2>4 DEF TypeOK, Awaits
  <2>6. Flow'
    BY <2>1, <2>4 DEF TypeOK, Flow, Request
  <2>7. Held'
    BY <2>1 DEF TypeOK, Held
  <2> QED  BY <2>5, <2>6, <2>7
<1>4. CASE Fail(h)
  <2>1. /\ pc[h] \in Awaits /\ pc' = [pc EXCEPT ![h] = "failed"]
        /\ UNCHANGED <<open, taker, tape, market, holder, arrivals, req, executed,
                       written, orders, trades, restarts>>
    BY <1>4 DEF Fail, InFlight, engine, database
  <2>2. TypeOK'
    BY <2>1 DEF TypeOK, Awaits
  <2>3. Flow'
    BY <2>1 DEF TypeOK, Flow, Awaits
  <2>4. Held'
    BY <2>1 DEF TypeOK, Held
  <2> QED  BY <2>2, <2>3, <2>4
<1> QED  BY <1>1, <1>2, <1>3, <1>4 DEF Query

LEMMA NextControl == Control /\ [Next]_vars => Control'
<1> SUFFICES ASSUME Control, [Next]_vars PROVE Control'
  OBVIOUS
<1>1. CASE UNCHANGED vars
  BY <1>1 DEF vars, engine, handlers, database, Control, TypeOK, Flow, Held
<1>2. CASE \E h \in Handler : Receipt(h) \/ Call(h) \/ Query(h) \/ Fail(h)
  BY <1>2, ReceiptControl, CallControl, QueryControl
<1>3. CASE Matching \/ EngineRestart
  BY <1>3, FillControl, FreeControl DEF Matching
<1> QED  BY <1>1, <1>2, <1>3 DEF Next

\* Types, and where a handler can be: for every request, whatever fails.
LEMMA ControlHolds == Spec => []Control
  BY InitControl, NextControl, PTL DEF Spec

\* Every variable of the gateway keeps its type; a handler that inserts trades
\* (orders.ts:64-73) has one left.
THEOREM GatewayTypeCorrect == Spec => []TypeOK
<1>1. Control => TypeOK
  BY DEF Control
<1> QED  BY <1>1, ControlHolds, PTL

-----------------------------------------------------------------------------
(* Every order of the engine has a row, or a POST that will bring it.      *)

\* The ids that the engine may match.
Live == {o.id : o \in open \cup ({taker} \ {Nobody})}

\* A row is there from the insert of its POST on.
Rows ==
  \A h \in Handler :
    /\ orders[h] # NoRow => pc[h] \in {"trade", "done", "failed"}
    /\ pc[h] \in {"trade", "done"} /\ req[h].op = "POST" => orders[h] # NoRow

Sourced ==
  \A id \in Live :
    orders[id] # NoRow \/ (pc[id] # "idle" /\ req[id].op = "POST" /\ req[id].id = id)

\* The engine takes up an id only when it starts to match an order of that id.
LEMMA LiveStep ==
  ASSUME Control, [Next]_vars
  PROVE  /\ Live' \subseteq Id
         /\ \A id \in Live' : id \in Live \/ \E h \in Handler : StartMatching(h) /\ req[h].id = id
<1> USE DEF Control
<1>1. Live' \subseteq Id
  BY NextControl DEF TypeOK, Live, Engine!Order
<1>2. CASE \E h \in Handler : StartMatching(h)
  <2>1. PICK h \in Handler : StartMatching(h)
    BY <1>2
  <2>2. /\ open' = {o \in open : o.id # taker'.id} /\ taker'.id = req[h].id
    BY <2>1 DEF StartMatching, Engine!Arrive, Engine!Without
  <2> QED  BY <1>1, <2>1, <2>2 DEF Live
<1>3. CASE \E h \in Handler : EngineCancel(h)
  BY <1>1, <1>3 DEF EngineCancel, AfterCancel, Engine!Without, Live
<1>4. CASE EngineFill
  <2>1. /\ taker # Nobody /\ taker'.id = taker.id
        /\ \A o \in open' : \E m \in open : m.id = o.id
    BY <1>4, FillEffect DEF EngineFill
  <2>2. ASSUME NEW id \in Live' PROVE id \in Live
    <3>1. PICK o \in open' \cup ({taker'} \ {Nobody}) : id = o.id
      BY <2>2 DEF Live
    <3>2. \E m \in open \cup ({taker} \ {Nobody}) : m.id = id
      BY <2>1, <3>1
    <3> QED  BY <3>2 DEF Live
  <2> QED  BY <1>1, <2>2
<1>5. CASE EngineReturn \/ EnginePanic \/ EngineRestart
  BY <1>1, <1>5, FreeEffect DEF Live
<1>6. CASE UNCHANGED <<open, taker>>
  BY <1>1, <1>6 DEF Live
<1>7. CASE \E h \in Handler : Receipt(h) \/ EngineRefuse(h) \/ Query(h) \/ Fail(h)
  <2>1. UNCHANGED <<open, taker>>
    BY <1>7 DEF Receipt, Post, Put, Delete, Receive, EngineRefuse, Query, InsertOrder,
                InsertTrade, UpdateOrder, Fail, engine
  <2> QED  BY <1>6, <2>1
<1>8. CASE UNCHANGED vars
  BY <1>6, <1>8 DEF vars, engine
<1> QED
  BY <1>2, <1>3, <1>4, <1>5, <1>7, <1>8 DEF Next, Call, Matching

\* What was asked for is never changed, and no row is removed.
LEMMA Lasting ==
  ASSUME Control, [Next]_vars
  PROVE  /\ \A h \in Handler : pc[h] # "idle" => pc'[h] # "idle" /\ req'[h] = req[h]
         /\ \A id \in Id : orders[id] # NoRow => orders'[id] # NoRow
<1> USE DEF Control
<1>1. CASE \E h \in Handler : Receipt(h)
  BY <1>1, ReceiptEffect DEF TypeOK
<1>2. CASE \E h \in Handler : Call(h)
  BY <1>2 DEF Call, StartMatching, EngineCancel, EngineRefuse, TypeOK, database
<1>3. CASE EngineFill
  BY <1>3 DEF EngineFill, database
<1>4. CASE EngineReturn \/ EnginePanic \/ EngineRestart
  BY <1>4, FreeEffect
<1>5. ASSUME NEW h \in Handler, InsertOrder(h)
      PROVE  /\ \A g \in Handler : pc[g] # "idle" => pc'[g] # "idle" /\ req'[g] = req[g]
             /\ \A id \in Id : orders[id] # NoRow => orders'[id] # NoRow
  <2>1. [side |-> req[h].side, price |-> req[h].price,
         qty |-> req[h].qty, status |-> "OPEN"] \in Row
    BY <1>5 DEF InsertOrder, TypeOK, Request, Row
  <2> QED  BY <1>5, <2>1, NullAssumption DEF InsertOrder, AfterOrder, TypeOK
<1>6. ASSUME NEW h \in Handler, UpdateOrder(h)
      PROVE  /\ \A g \in Handler : pc[g] # "idle" => pc'[g] # "idle" /\ req'[g] = req[g]
             /\ \A id \in Id : orders[id] # NoRow => orders'[id] # NoRow
  <2>1. req[h] \in Request /\ orders[req[h].id] \in Row
    BY <1>6 DEF UpdateOrder, TypeOK, Flow, Request
  <2>2. /\ Replaced(orders[req[h].id], req[h]) \in Row
        /\ [orders[req[h].id] EXCEPT !.status = "CANCELLED"] \in Row
    BY <2>1 DEF Replaced, Row, Request
  <2> QED  BY <1>6, <2>2, NullAssumption DEF UpdateOrder, TypeOK
<1>7. CASE \E h \in Handler : InsertTrade(h) \/ Fail(h)
  BY <1>7 DEF InsertTrade, Fail, InFlight, Awaits, TypeOK, database
<1>8. CASE UNCHANGED vars
  BY <1>8 DEF vars, handlers, database
<1> QED
  BY <1>1, <1>2, <1>3, <1>4, <1>5, <1>6, <1>7, <1>8 DEF Next, Query, Matching

LEMMA NextRows ==
  ASSUME Control, Rows, [Next]_vars
  PROVE  Rows'
<1> USE DEF Control
<1>1. CASE \E h \in Handler : Receipt(h)
  <2>1. PICK h \in Handler : Receipt(h)
    BY <1>1
  <2>2. PICK r \in Request :
          /\ pc[h] = "idle" /\ pc' = [pc EXCEPT ![h] = "mutex"]
          /\ req' = [req EXCEPT ![h] = r]
          /\ UNCHANGED <<executed, written, orders>>
    BY <2>1, ReceiptEffect
  <2> QED  BY <2>2 DEF TypeOK, Rows
<1>2. CASE \E h \in Handler : Call(h)
  BY <1>2 DEF Call, Called, StartMatching, EngineCancel, EngineRefuse, TypeOK, Rows, database
<1>3. CASE EngineFill
  BY <1>3 DEF EngineFill, Rows, database
<1>4. CASE EngineReturn \/ EnginePanic \/ EngineRestart
  BY <1>4, FreeEffect DEF Rows
<1>5. ASSUME NEW h \in Handler, InsertOrder(h) PROVE Rows'
  <2>1. /\ pc[h] = "order" /\ req[h].op = "POST" /\ req[h].id = h
    BY <1>5 DEF InsertOrder, Flow
  <2>2. [side |-> req[h].side, price |-> req[h].price,
         qty |-> req[h].qty, status |-> "OPEN"] \in Row
    BY <2>1 DEF TypeOK, Request, Row
  <2>3. /\ orders'[h] # NoRow /\ \A g \in Handler \ {h} : orders'[g] = orders[g]
        /\ pc'[h] \in {"trade", "done"} /\ \A g \in Handler \ {h} : pc'[g] = pc[g]
        /\ req' = req
    BY <1>5, <2>1, <2>2, NullAssumption DEF InsertOrder, AfterOrder, TypeOK, Id
  <2> QED  BY <2>3 DEF Rows
<1>6. ASSUME NEW h \in Handler, UpdateOrder(h) PROVE Rows'
  <2>1. /\ pc[h] = "update" /\ req[h].op # "POST" /\ orders[req[h].id] # NoRow
        /\ pc' = [pc EXCEPT ![h] = "done"] /\ req' = req
    BY <1>6 DEF UpdateOrder, Flow
  <2>2. \A g \in Handler : (orders'[g] # NoRow) => (orders[g] # NoRow)
    BY <1>6, <2>1 DEF UpdateOrder, TypeOK, Id
  <2>3. \A g \in Handler : (orders[g] # NoRow) => (orders'[g] # NoRow)
    BY Lasting DEF Id
  <2> QED  BY <2>1, <2>2, <2>3 DEF Rows, TypeOK
<1>7. CASE \E h \in Handler : InsertTrade(h) \/ Fail(h)
  BY <1>7 DEF InsertTrade, Fail, InFlight, Awaits, TypeOK, Rows, database
<1>8. CASE UNCHANGED vars
  BY <1>8 DEF vars, handlers, database, Rows
<1> QED
  BY <1>1, <1>2, <1>3, <1>4, <1>5, <1>6, <1>7, <1>8 DEF Next, Query, Matching

LEMMA NextSourced ==
  ASSUME Control, Sourced, [Next]_vars
  PROVE  Sourced'
<1> USE DEF Control
<1> SUFFICES ASSUME NEW id \in Live', orders'[id] = NoRow
             PROVE  pc'[id] # "idle" /\ req'[id].op = "POST" /\ req'[id].id = id
  BY DEF Sourced
<1>1. id \in Handler /\ orders[id] = NoRow
  BY LiveStep, Lasting DEF Id
<1>2. CASE id \in Live
  BY <1>1, <1>2, Lasting DEF Sourced
<1>3. CASE \E h \in Handler : StartMatching(h) /\ req[h].id = id
  <2>1. PICK h \in Handler : StartMatching(h) /\ req[h].id = id
    BY <1>3
  <2>2. pc[h] # "idle" /\ req[h].op = "POST"
    BY <1>1, <2>1 DEF StartMatching, Called, Flow
  <2>3. h = id
    BY <2>1, <2>2 DEF Flow
  <2> QED  BY <2>1, <2>2, <2>3, Lasting
<1> QED  BY <1>2, <1>3, LiveStep

\* The engine never matches an order that the database does not know, unless the
\* POST of that order is in flight or has failed (orders.ts:52-61).
THEOREM OrdersHaveRows == Spec => []OrdersRecorded
<1>1. Init => Rows /\ Sourced
  BY DEF Init, Engine!BookInit, Rows, Sourced, Live, Id
<1>2. Control /\ Rows /\ Sourced /\ [Next]_vars => Rows' /\ Sourced'
  BY NextRows, NextSourced
<1>3. Control /\ Rows /\ Sourced => OrdersRecorded
  <2> SUFFICES ASSUME Control, Rows, Sourced,
                      NEW o \in open \cup ({taker} \ {Nobody}), orders[o.id] = NoRow
               PROVE  \E h \in Handler : /\ For(h, o.id, {"POST"})
                                         /\ InFlight(h) \/ pc[h] = "failed"
    BY DEF OrdersRecorded
  <2>1. o.id \in Live /\ o.id \in Handler
    BY DEF Live, Control, TypeOK, Engine!Order, Id
  <2>2. pc[o.id] # "idle" /\ req[o.id].op = "POST" /\ req[o.id].id = o.id
    BY <2>1 DEF Sourced
  <2>3. pc[o.id] \notin {"trade", "done"} /\ req[o.id] # NoRequest
    BY <2>1, <2>2 DEF Rows, Control, TypeOK
  <2> QED  BY <2>1, <2>2, <2>3 DEF For, InFlight, Control, TypeOK
<1> QED  BY <1>1, <1>2, <1>3, ControlHolds, PTL DEF Spec

-----------------------------------------------------------------------------
(* A cancelled order does not come back.                                   *)

\* The cancellation of id took effect in the engine: its row says so, or the
\* DELETE is about to write it.
Cancelled(id) ==
  \/ orders[id] # NoRow /\ orders[id].status = "CANCELLED"
  \/ \E h \in Handler : pc[h] = "update" /\ req[h].op = "DELETE" /\ req[h].id = id

Replacing(id) == \E h \in Handler : For(h, id, {"PUT"})

Out == \A id \in Id : Cancelled(id) /\ ~Replacing(id) => id \notin Live

\* A handler reaches the update of a DELETE through the engine's cancel only.
LEMMA UpdateStep ==
  ASSUME Control, [Next]_vars, NEW h \in Handler,
         pc'[h] = "update", req'[h].op = "DELETE"
  PROVE  /\ req'[h] = req[h]
         /\ pc[h] = "update" \/ EngineCancel(h)
<1> USE DEF Control
<1>1. CASE \E g \in Handler : Receipt(g)
  BY <1>1, ReceiptEffect DEF TypeOK
<1>2. CASE \E g \in Handler : Call(g)
  BY <1>2 DEF Call, StartMatching, EngineCancel, EngineRefuse, TypeOK
<1>3. CASE EngineFill
  BY <1>3 DEF EngineFill
<1>4. CASE EngineReturn \/ EnginePanic \/ EngineRestart
  BY <1>4, FreeEffect DEF Flow
<1>5. CASE \E g \in Handler : Query(g) \/ Fail(g)
  BY <1>5 DEF Query, InsertOrder, AfterOrder, InsertTrade, UpdateOrder, Fail, TypeOK
<1>6. CASE UNCHANGED vars
  BY <1>6 DEF vars, handlers
<1> QED
  BY <1>1, <1>2, <1>3, <1>4, <1>5, <1>6 DEF Next, Matching

\* A row becomes CANCELLED by the last query of a DELETE only.
LEMMA StatusStep ==
  ASSUME Control, [Next]_vars, NEW id \in Id,
         orders'[id] # NoRow, orders'[id].status = "CANCELLED"
  PROVE  Cancelled(id)
<1> USE DEF Control
<1>1. CASE orders' = orders
  BY <1>1 DEF Cancelled
<1>2. ASSUME NEW h \in Handler, InsertOrder(h) PROVE Cancelled(id)
  BY <1>2 DEF InsertOrder, Cancelled, TypeOK
<1>3. ASSUME NEW h \in Handler, UpdateOrder(h) PROVE Cancelled(id)
  <2>1. /\ pc[h] = "update" /\ req[h].op # "POST" /\ req[h].op \in {"POST", "PUT", "DELETE"}
        /\ orders[req[h].id] \in Row
    BY <1>3 DEF UpdateOrder, Flow, TypeOK, Request
  <2>2. CASE req[h].op = "PUT"
    BY <1>3, <2>1, <2>2, NullAssumption DEF UpdateOrder, Replaced, Cancelled, TypeOK, Row
  <2>3. CASE req[h].op = "DELETE"
    BY <1>3, <2>1, <2>3 DEF UpdateOrder, Cancelled, TypeOK
  <2> QED  BY <2>1, <2>2, <2>3
<1>4. CASE \E h \in Handler : Receipt(h)
  BY <1>1, <1>4, ReceiptEffect
<1>5. CASE EngineReturn \/ EnginePanic \/ EngineRestart
  BY <1>1, <1>5, FreeEffect
<1>6. CASE \E h \in Handler : Call(h) \/ InsertTrade(h) \/ Fail(h)
  BY <1>1, <1>6 DEF Call, StartMatching, EngineCancel, EngineRefuse, InsertTrade, Fail, database
<1>7. CASE EngineFill \/ UNCHANGED vars
  BY <1>1, <1>7 DEF EngineFill, vars, database
<1> QED
  BY <1>2, <1>3, <1>4, <1>5, <1>6, <1>7 DEF Next, Query, Matching

LEMMA NextOut ==
  ASSUME Control, Rows, Out, [Next]_vars
  PROVE  Out'
<1> USE DEF Control
<1> SUFFICES ASSUME NEW id \in Id, Cancelled(id)', ~Replacing(id)', id \in Live'
             PROVE  FALSE
  BY DEF Out
<1>1. ~Replacing(id)
  BY Lasting DEF Replacing, For, TypeOK
<1>2. CASE Cancelled(id)
  <2>1. PICK h \in Handler : StartMatching(h) /\ req[h].id = id
    BY <1>1, <1>2, LiveStep DEF Out
  <2>2. pc[h] = "mutex" /\ req[h].op = "POST"
    BY <1>1, <2>1, NullAssumption DEF StartMatching, Called, Replacing, For, TypeOK
  <2>3. h = id /\ orders[id] # NoRow
    BY <1>2, <2>1, <2>2 DEF Flow, Cancelled
  <2> QED  BY <2>2, <2>3 DEF Rows
<1>3. CASE ~Cancelled(id)
  <2>1. PICK h \in Handler : pc'[h] = "update" /\ req'[h].op = "DELETE" /\ req'[h].id = id
    BY <1>3, StatusStep DEF Cancelled
  <2>2. EngineCancel(h) /\ req[h].id = id
    BY <1>3, <2>1, UpdateStep DEF Cancelled
  <2>3. taker' = Nobody /\ \A o \in open' : o.id # id
    BY <2>2 DEF EngineCancel, Called, AfterCancel, Engine!Without
  <2> QED  BY <2>3 DEF Live
<1> QED  BY <1>2, <1>3

\* A cancelled order that nobody asked to replace is out of the engine for good
\* (orders.ts:123-158): no interleaving, failure or restart brings it back.
THEOREM CancelledStaysOut == Spec => []CancelStands
<1>1. Init => Rows /\ Out
  BY DEF Init, Engine!BookInit, Rows, Out, Live, Id
<1>2. Control /\ Rows /\ Out /\ [Next]_vars => Rows' /\ Out'
  BY NextRows, NextOut
<1>3. Out => CancelStands
  BY DEF Out, Cancelled, Replacing, Live, CancelStands
<1> QED  BY <1>1, <1>2, <1>3, ControlHolds, PTL DEF Spec

-----------------------------------------------------------------------------
(* The trades of the tape and their rows.                                  *)

OnTape(t) == t.sequence \in DOMAIN tape /\ tape[t.sequence] = t

\* Rows are inserted in the order of the reply, and to its end by a POST.
Stored ==
  \A h \in Handler :
    /\ written[h] <= Len(executed[h])
    /\ pc[h] = "done" /\ req[h].op = "POST" => written[h] = Len(executed[h])

\* Rows, replies and tape tell of the same trades, until the engine restarts.
Reported ==
  restarts = 0 =>
    /\ \A i \in DOMAIN tape : tape[i].sequence = i /\ \E h \in Handler : tape[i] \in Executed(h)
    /\ \A t \in trades : OnTape(t)
    /\ \A h \in Handler : \A i \in DOMAIN executed[h] : OnTape(executed[h][i])
    /\ \A h \in Handler : \A i \in 1..written[h] : executed[h][i] \in trades

\* A fill goes on the tape and to the reply of the holder, whose request is not
\* answered yet.
LEMMA FillReply ==
  ASSUME Control, EngineFill
  PROVE  /\ holder \in Handler /\ pc[holder] # "done"
         /\ UNCHANGED <<pc, req, written, trades, restarts>>
         /\ \E t \in Trade :
              /\ tape' = Append(tape, t) /\ t.sequence = Len(tape) + 1
              /\ executed' = [executed EXCEPT ![holder] = Append(executed[holder], t)]
<1> USE DEF Control
<1>1. PICK t \in Trade : tape' = Append(tape, t) /\ t.sequence = Len(tape) + 1
  BY FillEffect DEF EngineFill
<1>2. tape'[Len(tape')] = t
  BY <1>1 DEF TypeOK
<1>3. holder \in Handler /\ pc[holder] # "done"
  BY FillEffect DEF EngineFill, TypeOK, Held
<1>4. executed' = [executed EXCEPT ![holder] = Append(executed[holder], t)]
  BY <1>2, <1>3 DEF EngineFill, TypeOK
<1>5. UNCHANGED <<pc, req, written, trades, restarts>>
  BY DEF EngineFill, database
<1> QED  BY <1>1, <1>3, <1>4, <1>5

LEMMA NextStored ==
  ASSUME Control, Stored, [Next]_vars
  PROVE  Stored'
<1> USE DEF Control
<1>1. CASE \E h \in Handler : Receipt(h)
  <2>1. PICK h \in Handler : Receipt(h)
    BY <1>1
  <2>2. PICK r \in Request :
          /\ pc[h] = "idle" /\ pc' = [pc EXCEPT ![h] = "mutex"]
          /\ req' = [req EXCEPT ![h] = r]
          /\ UNCHANGED <<executed, written, orders>>
    BY <2>1, ReceiptEffect
  <2> QED  BY <2>2 DEF TypeOK, Stored
<1>2. CASE \E h \in Handler : Call(h)
  BY <1>2 DEF Call, StartMatching, EngineCancel, EngineRefuse, TypeOK, Stored
<1>3. CASE EngineFill
  <2>1. PICK t \in Trade :
          executed' = [executed EXCEPT ![holder] = Append(executed[holder], t)]
    BY <1>3, FillReply
  <2>2. holder \in Handler /\ pc[holder] # "done" /\ UNCHANGED <<pc, req, written>>
    BY <1>3, FillReply
  <2>3. \A h \in Handler : \/ executed'[h] = executed[h]
                           \/ h = holder /\ Len(executed'[h]) = Len(executed[h]) + 1
    BY <2>1, <2>2 DEF TypeOK
  <2>4. \A h \in Handler : executed[h] \in Seq(Trade) /\ written[h] \in Nat
    BY DEF TypeOK
  <2>5. \A h \in Handler : Len(executed[h]) \in Nat
    BY <2>4
  <2> QED  BY <2>2, <2>3, <2>4, <2>5 DEF Stored
<1>4. CASE EngineReturn \/ EnginePanic \/ EngineRestart
  BY <1>4, FreeEffect DEF Stored
<1>5. ASSUME NEW h \in Handler, InsertOrder(h) PROVE Stored'
  <2>1. written[h] = 0 /\ executed[h] \in Seq(Trade)
    BY <1>5 DEF InsertOrder, Flow, TypeOK
  <2> QED  BY <1>5, <2>1 DEF InsertOrder, AfterOrder, TypeOK, Stored
<1>6. ASSUME NEW h \in Handler, InsertTrade(h) PROVE Stored'
  BY <1>6 DEF InsertTrade, TypeOK, Stored
<1>7. ASSUME NEW h \in Handler, UpdateOrder(h) PROVE Stored'
  BY <1>7 DEF UpdateOrder, Flow, TypeOK, Stored
<1>8. CASE \E h \in Handler : Fail(h)
  BY <1>8 DEF Fail, TypeOK, Stored
<1>9. CASE UNCHANGED vars
  BY <1>9 DEF vars, handlers, Stored
<1> QED
  BY <1>1, <1>2, <1>3, <1>4, <1>5, <1>6, <1>7, <1>8, <1>9 DEF Next, Query, Matching

\* A fill is on the tape and in the reply of its holder.
LEMMA FillReported ==
  ASSUME Control, Stored, Reported, EngineFill
  PROVE  Reported'
<1> USE DEF Control
<1> SUFFICES ASSUME restarts = 0 PROVE Reported'
  BY DEF Reported, EngineFill
<1>1. PICK t \in Trade :
        /\ tape' = Append(tape, t) /\ t.sequence = Len(tape) + 1
        /\ executed' = [executed EXCEPT ![holder] = Append(executed[holder], t)]
  BY FillReply
<1>2. /\ holder \in Handler /\ written' = written /\ trades' = trades
      /\ \A h \in Handler : executed[h] \in Seq(Trade)
  BY FillReply DEF TypeOK
<1>3. /\ DOMAIN tape' = DOMAIN tape \cup {t.sequence} /\ tape'[t.sequence] = t
      /\ \A i \in DOMAIN tape : tape'[i] = tape[i]
  BY <1>1 DEF TypeOK
<1>4. OnTape(t)' /\ \A s : OnTape(s) => OnTape(s)'
  BY <1>3 DEF OnTape
<1>5. \A h \in Handler : /\ \A i \in DOMAIN executed[h] : executed'[h][i] = executed[h][i]
                         /\ DOMAIN executed[h] \subseteq DOMAIN executed'[h]
                         /\ \A i \in DOMAIN executed'[h] :
                              i \in DOMAIN executed[h] \/ executed'[h][i] = t
  BY <1>1, <1>2 DEF TypeOK
<1>6. \E i \in DOMAIN executed'[holder] : executed'[holder][i] = t
  <2>1. executed'[holder] = Append(executed[holder], t)
    BY <1>1, <1>2 DEF TypeOK
  <2>2. /\ Len(executed[holder]) + 1 \in DOMAIN executed'[holder]
        /\ executed'[holder][Len(executed[holder]) + 1] = t
    BY <1>2, <2>1
  <2> QED  BY <2>2
<1>7. \A i \in DOMAIN tape' : tape'[i].sequence = i /\ \E h \in Handler : tape'[i] \in Executed(h)'
  <2>1. \A h \in Handler : Executed(h) \subseteq Executed(h)'
    BY <1>1, <1>5 DEF Executed
  <2>2. \E h \in Handler : t \in Executed(h)'
    BY <1>2, <1>6 DEF Executed
  <2> QED  BY <1>2, <1>3, <2>1, <2>2 DEF Reported
<1>8. \A h \in Handler : \A i \in DOMAIN executed'[h] : OnTape(executed[h][i])'
  BY <1>1, <1>2, <1>4, <1>5 DEF Reported
<1>9. \A h \in Handler : \A i \in 1..written'[h] : executed'[h][i] \in trades'
  <2>1. \A h \in Handler : 1..written[h] \subseteq DOMAIN executed[h]
    <3>1. \A h \in Handler : written[h] \in Nat /\ written[h] <= Len(executed[h])
      BY DEF Stored, TypeOK
    <3> QED  BY <1>2, <3>1
  <2> QED  BY <1>2, <1>5, <2>1 DEF Reported
<1>10. \A s \in trades' : OnTape(s)'
  BY <1>2, <1>4 DEF Reported
<1> QED  BY <1>7, <1>8, <1>9, <1>10 DEF Reported

\* A conflict on the sequence is with the row of the very trade.
LEMMA InsertReported ==
  ASSUME Control, Stored, Reported, NEW h \in Handler, InsertTrade(h)
  PROVE  Reported'
<1> USE DEF Control
<1> SUFFICES ASSUME restarts = 0 PROVE Reported'
  BY DEF Reported, InsertTrade
<1> DEFINE n == written[h] + 1
           row == executed[h][n]
<1>1. /\ pc[h] = "trade"
      /\ trades' = IF \E r \in trades : r.sequence = row.sequence
                   THEN trades ELSE trades \cup {row}
      /\ written' = [written EXCEPT ![h] = n]
      /\ tape' = tape /\ executed' = executed
  BY DEF InsertTrade, engine
<1>2. n \in DOMAIN executed[h]
  BY <1>1 DEF TypeOK
<1>3. OnTape(row)
  BY <1>2 DEF Reported
<1>4. row \in trades' /\ trades \subseteq trades' /\ trades' \subseteq trades \cup {row}
  BY <1>1, <1>3 DEF Reported, OnTape
<1>5. \A g \in Handler : \A i \in 1..written'[g] : executed'[g][i] \in trades'
  <2>1. \A g \in Handler : written[g] \in Nat /\ (g # h => written'[g] = written[g])
    BY <1>1 DEF TypeOK
  <2>2. \A i \in 1..n : i = n \/ i \in 1..written[h]
    BY <2>1
  <2>3. \A i \in 1..n : executed[h][i] \in trades'
    BY <1>4, <2>2 DEF Reported
  <2>4. written'[h] = n
    BY <1>1 DEF TypeOK
  <2> QED  BY <1>1, <1>4, <2>1, <2>3, <2>4 DEF Reported
<1>6. \A t \in trades' : OnTape(t)'
  BY <1>1, <1>3, <1>4 DEF Reported, OnTape
<1> QED  BY <1>1, <1>5, <1>6 DEF Reported, OnTape, Executed

LEMMA NextReported ==
  ASSUME Control, Stored, Reported, [Next]_vars
  PROVE  Reported'
<1> USE DEF Control
<1>1. CASE UNCHANGED <<tape, executed, written, trades, restarts>>
  BY <1>1 DEF Reported, OnTape, Executed
<1>2. CASE \E h \in Handler : Receipt(h)
  BY <1>1, <1>2, ReceiptEffect
<1>3. CASE \E h \in Handler : Call(h)
  BY <1>1, <1>3 DEF Call, StartMatching, Engine!Arrive, EngineCancel, EngineRefuse,
                    engine, database
<1>4. CASE EngineReturn \/ EnginePanic \/ EngineRestart
  <2>1. /\ UNCHANGED <<executed, written, trades>>
        /\ restarts' = 0 => restarts = 0 /\ tape' = tape
    BY <1>4, FreeEffect
  <2> QED  BY <2>1 DEF Reported, OnTape, Executed
<1>5. CASE \E h \in Handler : InsertOrder(h) \/ UpdateOrder(h) \/ Fail(h)
  BY <1>1, <1>5 DEF InsertOrder, UpdateOrder, Fail, engine, database
<1>6. CASE UNCHANGED vars
  BY <1>1, <1>6 DEF vars, engine, handlers, database
<1> QED
  BY <1>2, <1>3, <1>4, <1>5, <1>6, FillReported, InsertReported DEF Next, Query, Matching

\* Until the engine restarts, the table trades and the engine's tape agree but
\* for the trades of a POST in flight or failed, and for those of a PUT
\* (orders.ts:64-73, 188-200).
THEOREM TradesRecorded == Spec => []TapeRecorded
<1>1. Init => Stored /\ Reported
  BY DEF Init, Engine!BookInit, Stored, Reported
<1>2. Control /\ Stored /\ Reported /\ [Next]_vars => Stored' /\ Reported'
  BY NextStored, NextReported
<1>3. Control /\ Stored /\ Reported => TapeRecorded
  <2> SUFFICES ASSUME Control, Stored, Reported, restarts = 0 PROVE TapeRecorded
    BY DEF TapeRecorded
  <2> USE DEF Control
  <2>1. \A t \in trades : t.sequence <= Len(tape) /\ tape[t.sequence] = t
    BY DEF Reported, OnTape, TypeOK
  <2>2. ASSUME NEW i \in DOMAIN tape, tape[i] \notin trades
        PROVE  \E h \in Handler : /\ tape[i] \in Executed(h)
                                  /\ pc[h] # "done" \/ req[h].op = "PUT"
    <3>1. PICK h \in Handler : tape[i] \in Executed(h)
      BY DEF Reported
    <3>2. PICK k \in DOMAIN executed[h] : tape[i] = executed[h][k]
      BY <3>1 DEF Executed
    <3>3. ASSUME pc[h] = "done", req[h].op # "PUT" PROVE FALSE
      <4>1. req[h].op = "POST"
        <5>1. req[h] \in Request
          BY <3>3 DEF TypeOK
        <5> QED  BY <3>2, <3>3, <5>1 DEF Flow, Request
      <4>2. k \in 1..written[h]
        BY <3>2, <3>3, <4>1 DEF Stored, TypeOK
      <4> QED  BY <2>2, <3>2, <4>2 DEF Reported
    <3> QED  BY <3>1, <3>3
  <2> QED  BY <2>1, <2>2 DEF TapeRecorded
<1> QED  BY <1>1, <1>2, <1>3, ControlHolds, PTL DEF Spec

-----------------------------------------------------------------------------
(* The engine and the rows of orders agree.                                *)
(*                                                                         *)
(* RowsMatchBook speaks of an order whose requests are all answered.  To   *)
(* reach it, every resting order is followed from the request that made it *)
(* to its row: it fits the POST that has not inserted it yet, or the PUT   *)
(* that has not updated its row yet, or else the row itself.               *)

Resting == open \cup ({taker} \ {Nobody})

Alters(h, id) == For(h, id, {"PUT", "DELETE"})

\* The engine ran on, no request on id failed, each wrote plain numbers, and at
\* most one alters it.
Undisturbed(id) ==
  /\ restarts = 0
  /\ \A h \in Handler : For(h, id, {"POST", "PUT", "DELETE"}) =>
       pc[h] # "failed" /\ req[h].plain
  /\ \A g, h \in Handler : Alters(g, id) /\ Alters(h, id) => g = h

Fits(o, r) ==
  o.side = r.side /\ o.price = Wire(r.price) /\ o.qty <= Wire(r.qty)

Posted(o) ==
  For(o.id, o.id, {"POST"}) /\ pc[o.id] \in {"engine", "order"} /\ Fits(o, req[o.id])
Replaces(h, o) ==
  For(h, o.id, {"PUT"}) /\ pc[h] \in {"engine", "update"} /\ Fits(o, req[h])
Agrees(o) ==
  /\ AsRecorded(o)
  /\ \A h \in Handler : Alters(h, o.id) => pc[h] \notin {"engine", "update"}

Tracks(o) == Posted(o) \/ (\E h \in Handler : Replaces(h, o)) \/ Agrees(o)
Tracked == \A o \in Resting : Undisturbed(o.id) => Tracks(o)

\* The row that a PUT will update is still the one it found.
Asked ==
  \A h \in Handler :
    /\ pc[h] \in {"mutex", "engine", "update"}
    /\ req[h].op = "PUT" /\ Undisturbed(req[h].id)
    => orders[req[h].id].status = "OPEN" /\ orders[req[h].id].side = req[h].side

\* A handler does not come back to the engine, nor from a failure.
LEMMA Onwards ==
  ASSUME Control, [Next]_vars, NEW h \in Handler, pc[h] # "idle"
  PROVE  /\ pc[h] = "failed" => pc'[h] = "failed"
         /\ pc'[h] \in {"mutex", "engine", "update"} =>
              pc[h] \in {"mutex", "engine", "update"}
<1> USE DEF Control
<1>1. CASE \E g \in Handler : Receipt(g)
  BY <1>1, ReceiptEffect DEF TypeOK
<1>2. CASE \E g \in Handler : Call(g)
  BY <1>2 DEF Call, Called, StartMatching, EngineCancel, EngineRefuse, TypeOK
<1>3. CASE EngineFill
  BY <1>3 DEF EngineFill
<1>4. CASE EngineReturn \/ EnginePanic \/ EngineRestart
  BY <1>4, FreeEffect
<1>5. CASE \E g \in Handler : Query(g) \/ Fail(g)
  BY <1>5 DEF Query, InsertOrder, AfterOrder, InsertTrade, UpdateOrder, Fail,
              InFlight, Awaits, TypeOK
<1>6. CASE UNCHANGED vars
  BY <1>6 DEF vars, handlers
<1> QED
  BY <1>1, <1>2, <1>3, <1>4, <1>5, <1>6 DEF Next, Matching

LEMMA RestartsStay ==
  ASSUME Control, [Next]_vars, restarts' = 0
  PROVE  restarts = 0
<1>1. CASE EngineReturn \/ EnginePanic \/ EngineRestart
  BY <1>1, FreeEffect
<1>2. CASE \E h \in Handler : Receipt(h)
  BY <1>2, ReceiptEffect
<1>3. CASE \E h \in Handler : Call(h) \/ Query(h) \/ Fail(h)
  BY <1>3 DEF Call, StartMatching, EngineCancel, EngineRefuse, Query, InsertOrder,
              InsertTrade, UpdateOrder, Fail
<1>4. CASE EngineFill \/ UNCHANGED vars
  BY <1>4 DEF EngineFill, vars
<1> QED  BY <1>1, <1>2, <1>3, <1>4 DEF Next, Matching

LEMMA ForStays ==
  ASSUME Control, [Next]_vars, NEW h \in Handler, NEW id, NEW ops, For(h, id, ops)
  PROVE  For(h, id, ops)'
<1>1. pc[h] # "idle"
  BY DEF For, Control, TypeOK
<1>2. req'[h] = req[h]
  BY <1>1, Lasting
<1> QED  BY <1>2 DEF For

LEMMA UndisturbedBefore ==
  ASSUME Control, [Next]_vars, NEW id, Undisturbed(id)'
  PROVE  Undisturbed(id)
<1>1. restarts = 0
  BY RestartsStay DEF Undisturbed
<1>2. ASSUME NEW h \in Handler, For(h, id, {"POST", "PUT", "DELETE"})
      PROVE  pc[h] # "failed" /\ req[h].plain
  <2>1. pc[h] # "idle"
    BY <1>2 DEF For, Control, TypeOK
  <2>2. For(h, id, {"POST", "PUT", "DELETE"})' /\ req'[h] = req[h]
    BY <1>2, <2>1, ForStays, Lasting
  <2>3. pc'[h] # "failed" /\ req'[h].plain
    BY <2>2 DEF Undisturbed
  <2> QED  BY <2>1, <2>2, <2>3, Onwards
<1>3. ASSUME NEW g \in Handler, NEW h \in Handler, Alters(g, id), Alters(h, id)
      PROVE  g = h
  <2>1. Alters(g, id)' /\ Alters(h, id)'
    BY <1>3, ForStays DEF Alters
  <2> QED  BY <2>1 DEF Undisturbed
<1> QED  BY <1>1, <1>2, <1>3 DEF Undisturbed

\* Which queries write the row of id.
LEMMA OrdersStep ==
  ASSUME Control, [Next]_vars, NEW id \in Id
  PROVE  \/ orders'[id] = orders[id]
         \/ InsertOrder(id) /\ req[id].op = "POST" /\ req[id].id = id
         \/ \E h \in Handler : UpdateOrder(h) /\ req[h].id = id
<1> USE DEF Control
<1>1. CASE \E h \in Handler : InsertOrder(h)
  <2>1. PICK h \in Handler : InsertOrder(h)
    BY <1>1
  <2>2. req[h].op = "POST" /\ req[h].id = h
    BY <2>1 DEF InsertOrder, Flow
  <2> QED  BY <2>1, <2>2 DEF InsertOrder, TypeOK, Id
<1>2. CASE \E h \in Handler : UpdateOrder(h)
  BY <1>2 DEF UpdateOrder, TypeOK
<1>3. CASE \E h \in Handler : Receipt(h)
  BY <1>3, ReceiptEffect
<1>4. CASE EngineReturn \/ EnginePanic \/ EngineRestart
  BY <1>4, FreeEffect
<1>5. CASE \E h \in Handler : Call(h) \/ InsertTrade(h) \/ Fail(h)
  BY <1>5 DEF Call, StartMatching, EngineCancel, EngineRefuse, InsertTrade, Fail, database
<1>6. CASE EngineFill \/ UNCHANGED vars
  BY <1>6 DEF EngineFill, vars, database
<1> QED
  BY <1>1, <1>2, <1>3, <1>4, <1>5, <1>6 DEF Next, Query, Matching

LEMMA NextAsked ==
  ASSUME Control, Rows, Asked, [Next]_vars
  PROVE  Asked'
<1> USE DEF Control
<1> SUFFICES ASSUME NEW h \in Handler, NEW id,
                    pc'[h] \in {"mutex", "engine", "update"},
                    req'[h].op = "PUT", req'[h].id = id, Undisturbed(id)'
             PROVE  orders'[id].status = "OPEN" /\ orders'[id].side = req'[h].side
  BY DEF Asked
<1>1. Undisturbed(id)
  BY UndisturbedBefore
<1>2. CASE pc[h] = "idle"
  <2>1. Receipt(h)
    <3>1. CASE \E g \in Handler : Receipt(g)
      <4>1. PICK g \in Handler : Receipt(g)
        BY <3>1
      <4>2. g # h => pc'[h] = pc[h]
        BY <4>1, ReceiptEffect DEF TypeOK
      <4> QED  BY <1>2, <4>1, <4>2
    <3>2. CASE \E g \in Handler : Call(g)
      BY <1>2, <3>2 DEF Call, Called, StartMatching, EngineCancel, EngineRefuse, TypeOK
    <3>3. CASE EngineReturn \/ EnginePanic \/ EngineRestart
      BY <1>2, <3>3, FreeEffect
    <3>4. CASE \E g \in Handler : Query(g) \/ Fail(g)
      BY <1>2, <3>4 DEF Query, InsertOrder, AfterOrder, InsertTrade, UpdateOrder, Fail,
                        InFlight, Awaits, TypeOK
    <3>5. CASE EngineFill \/ UNCHANGED vars
      BY <1>2, <3>5 DEF EngineFill, vars, handlers
    <3> QED  BY <3>1, <3>2, <3>3, <3>4, <3>5 DEF Next, Matching
  <2> QED  BY <2>1, ReceiptEffect DEF TypeOK
<1>3. CASE pc[h] # "idle"
  <2>1. req'[h] = req[h] /\ pc[h] \in {"mutex", "engine", "update"}
    BY <1>3, Lasting, Onwards
  <2>2. id \in Id /\ orders[id] # NoRow /\ Alters(h, id)
    BY <1>3, <2>1, NullAssumption DEF Flow, TypeOK, Request, Alters, For
  <2>3. orders'[id] = orders[id]
    <3>1. ~InsertOrder(id)
      BY <2>2 DEF InsertOrder, Rows, Id
    <3>2. ASSUME NEW g \in Handler, UpdateOrder(g), req[g].id = id  PROVE FALSE
      <4>1. Alters(g, id)
        BY <3>2, NullAssumption DEF UpdateOrder, Flow, TypeOK, Request, Alters, For
      <4>2. g = h
        BY <1>1, <2>2, <4>1 DEF Undisturbed
      <4> QED  BY <3>2, <4>2 DEF UpdateOrder, TypeOK
    <3> QED  BY <2>2, <3>1, <3>2, OrdersStep
  <2> QED  BY <1>1, <2>1, <2>3 DEF Asked
<1> QED  BY <1>2, <1>3

\* A resting order stays tracked while its row and the handlers that made it or
\* alter it stay where they are.
LEMMA TracksOn ==
  ASSUME Control, [Next]_vars, Tracked,
         NEW o \in Resting, NEW n, LeftOf(n, o), n.qty \in Nat,
         Undisturbed(n.id)', orders'[o.id] = orders[o.id],
         \A h \in Handler : pc[h] \in {"engine", "order"} /\ For(h, o.id, {"POST"}) =>
                              pc'[h] \in {"engine", "order"},
         \A h \in Handler : Alters(h, o.id)' =>
           (pc'[h] \in {"engine", "update"} <=> pc[h] \in {"engine", "update"})
  PROVE  Tracks(n)'
<1> USE DEF Control
<1>1. n.id = o.id /\ Undisturbed(o.id) /\ o \in Engine!Order
  BY UndisturbedBefore DEF LeftOf, Resting, TypeOK
<1>2. o.id \in Handler
  BY <1>1 DEF Engine!Order, Id
<1>3. \A r \in Request : Fits(o, r) => Fits(n, r)
  <2>1. \A r \in Request : Wire(r.qty) \in Nat
    BY WireIsWord DEF Request
  <2> QED  BY <1>1, <2>1 DEF Fits, LeftOf, Engine!Order
<1>4. CASE Posted(o)
  <2>1. For(o.id, o.id, {"POST"})' /\ req'[o.id] = req[o.id] /\ req[o.id] \in Request
    <3>1. For(o.id, o.id, {"POST"})
      BY <1>4 DEF Posted
    <3>2. pc[o.id] # "idle" /\ req[o.id] \in Request
      BY <1>2, <3>1 DEF For, TypeOK
    <3>3. For(o.id, o.id, {"POST"})'
      BY <1>2, <3>1, ForStays
    <3> QED  BY <1>2, <3>2, <3>3, Lasting
  <2>2. pc'[o.id] \in {"engine", "order"} /\ Fits(n, req[o.id])
    BY <1>2, <1>3, <1>4, <2>1 DEF Posted
  <2>3. Fits(n, req'[o.id])
    BY <2>1, <2>2
  <2> QED  BY <1>1, <2>1, <2>2, <2>3 DEF Tracks, Posted, Fits
<1>5. ASSUME NEW h \in Handler, Replaces(h, o)  PROVE Tracks(n)'
  <2>1. For(h, o.id, {"PUT"})' /\ req'[h] = req[h] /\ req[h] \in Request
    BY <1>5, ForStays, Lasting DEF Replaces, For, TypeOK
  <2>2. pc'[h] \in {"engine", "update"}
    BY <1>5, <2>1 DEF Replaces, For, Alters
  <2>3. Fits(n, req'[h])
    BY <1>3, <1>5, <2>1 DEF Replaces
  <2> QED  BY <1>1, <2>1, <2>2, <2>3 DEF Tracks, Replaces, Fits
<1>6. CASE Agrees(o)
  <2>1. orders[o.id] \in Row
    BY <1>2, <1>6 DEF Agrees, AsRecorded, TypeOK, Id
  <2>2. AsRecorded(n)'
    <3>1. Wire(orders[o.id].qty) \in Nat
      BY <2>1, WireIsWord DEF Row
    <3>2. n.qty <= Wire(orders[o.id].qty)
      BY <1>1, <1>6, <3>1 DEF Agrees, AsRecorded, LeftOf, Engine!Order
    <3> QED  BY <1>1, <1>6, <3>2 DEF Agrees, AsRecorded, LeftOf
  <2>3. ASSUME NEW h \in Handler, Alters(h, n.id)', pc'[h] \in {"engine", "update"}
        PROVE  FALSE
    <3>1. pc[h] \in {"engine", "update"}
      BY <1>1, <2>3
    <3>2. req'[h] = req[h]
      BY <3>1, Lasting
    <3>3. Alters(h, o.id)
      BY <1>1, <2>3, <3>2 DEF Alters, For
    <3> QED  BY <1>6, <3>1, <3>3 DEF Agrees
  <2> QED  BY <2>2, <2>3 DEF Tracks, Agrees
<1> QED  BY <1>1, <1>4, <1>5, <1>6 DEF Tracked, Tracks

\* Nothing is left to fill of an order but the order.
LEMMA LeftOfItself ==
  ASSUME TypeOK, NEW o \in Resting
  PROVE  LeftOf(o, o) /\ o.qty \in Nat /\ o.id \in Id
BY DEF LeftOf, Resting, TypeOK, Engine!Order

\* A step of one handler that touches the row of no other order.
LEMMA OthersTrack ==
  ASSUME Control, [Next]_vars, Tracked, NEW h \in Handler,
         NEW o \in Resting, Undisturbed(o.id)', req'[h] # NoRequest, req'[h].id # o.id,
         orders'[o.id] = orders[o.id],
         \A g \in Handler : g # h => pc'[g] = pc[g]
  PROVE  Tracks(o)'
<1>1. LeftOf(o, o) /\ o.qty \in Nat
  BY LeftOfItself DEF Control
<1>2. ~For(h, o.id, {"POST"}) /\ ~Alters(h, o.id)'
  <2>1. ~For(h, o.id, {"POST"})'
    BY DEF For
  <2> QED  BY <2>1, ForStays DEF Alters, For
<1> QED  BY <1>1, <1>2, TracksOn

LEMMA CallTracks ==
  ASSUME Control, [Next]_vars, Tracked, NEW h \in Handler, Call(h)
  PROVE  Tracked'
<1> USE DEF Control
<1> SUFFICES ASSUME NEW o \in Resting', Undisturbed(o.id)'  PROVE Tracks(o)'
  BY DEF Tracked
<1>1. /\ UNCHANGED <<req, orders>> /\ pc[h] = "mutex" /\ req[h] # NoRequest
      /\ \A g \in Handler : g # h => pc'[g] = pc[g]
  BY DEF Call, Called, StartMatching, EngineCancel, EngineRefuse, database, TypeOK
<1>2. CASE StartMatching(h)
  <2>1. PICK price \in Sent(req[h].price, req[h]), qty \in Sent(req[h].qty, req[h]) :
          taker' = [id |-> req[h].id, side |-> req[h].side, price |-> price,
                    qty |-> qty, stamp |-> arrivals + 1]
    BY <1>2 DEF StartMatching
  <2>2. /\ taker = Nobody /\ open' = {q \in open : q.id # taker'.id}
        /\ taker'.id = req[h].id
        /\ req[h].op \in {"POST", "PUT"} /\ pc'[h] = "engine"
    BY <1>2, <2>1 DEF StartMatching, Called, Engine!Arrive, Engine!Without, TypeOK
  <2>3. CASE o = taker'
    <3>1. req[h] \in Request
      BY <1>1 DEF TypeOK
    <3>2. Fits(o, req[h]) /\ o.id = req[h].id
      <4>1. o.id = req[h].id /\ o.side = req[h].side /\ o.price = price /\ o.qty = qty
        BY <2>1, <2>3
      <4>2. req[h].plain
        BY <1>1, <2>2, <4>1 DEF Undisturbed, For
      <4>3. price = Wire(req[h].price) /\ qty = Wire(req[h].qty)
        BY <4>2 DEF Sent
      <4>4. Wire(req[h].qty) \in Nat
        BY <3>1, WireIsWord DEF Request
      <4> QED  BY <4>1, <4>3, <4>4 DEF Fits
    <3>3. req[h].op = "POST" => Posted(o)'
      BY <1>1, <2>2, <3>2 DEF Flow, Posted, For, Fits
    <3>4. req[h].op = "PUT" => Replaces(h, o)'
      BY <1>1, <2>2, <3>2 DEF Replaces, For, Fits
    <3> QED  BY <2>2, <3>3, <3>4 DEF Tracks
  <2>4. CASE o # taker'
    <3>1. o \in Resting /\ o.id # req[h].id
      BY <2>2, <2>4 DEF Resting
    <3> QED  BY <1>1, <3>1, OthersTrack
  <2> QED  BY <2>3, <2>4
<1>3. CASE EngineCancel(h)
  <2>1. o \in Resting /\ o.id # req[h].id
    BY <1>3 DEF EngineCancel, Called, AfterCancel, Engine!Without, Resting
  <2> QED  BY <1>1, <2>1, OthersTrack
<1>4. CASE EngineRefuse(h)
  <2>1. o \in Resting /\ pc'[h] = "failed"
    BY <1>4 DEF EngineRefuse, engine, Resting, TypeOK
  <2>2. o.id # req[h].id
    BY <1>1, <2>1 DEF Undisturbed, For, TypeOK, Request
  <2> QED  BY <1>1, <2>1, <2>2, OthersTrack
<1> QED  BY <1>2, <1>3, <1>4 DEF Call

\* A fill leaves less of what was there, for the same requests.
LEMMA FillTracks ==
  ASSUME Control, [Next]_vars, Tracked, EngineFill
  PROVE  Tracked'
<1> USE DEF Control
<1> SUFFICES ASSUME NEW n \in Resting', Undisturbed(n.id)'  PROVE Tracks(n)'
  BY DEF Tracked
<1>1. UNCHANGED <<pc, req, orders>>
  BY DEF EngineFill, database
<1>2. PICK o \in Resting : LeftOf(n, o)
  BY FillEffect DEF EngineFill, Resting
<1>3. n.qty \in Nat
  BY FillEffect DEF EngineFill, Resting, Engine!Order
<1> QED  BY <1>1, <1>2, <1>3, TracksOn

\* The engine is free again: its caller goes on, or an order is disturbed.
LEMMA FreeTracks ==
  ASSUME Control, [Next]_vars, Tracked, EngineReturn \/ EnginePanic \/ EngineRestart
  PROVE  Tracked'
<1> USE DEF Control
<1> SUFFICES ASSUME NEW o \in Resting', Undisturbed(o.id)'  PROVE Tracks(o)'
  BY DEF Tracked
<1>1. o \in Resting /\ req' = req /\ orders' = orders
  BY FreeEffect DEF Resting
<1>2. \A h \in Handler : For(h, o.id, {"POST", "PUT", "DELETE"}) => pc'[h] # "failed"
  BY <1>1 DEF Undisturbed, For
<1>3. ASSUME NEW h \in Handler, pc[h] \in {"engine", "order"}, For(h, o.id, {"POST"})
      PROVE  pc'[h] \in {"engine", "order"}
  BY <1>2, <1>3, FreeEffect DEF For
<1>4. ASSUME NEW h \in Handler, Alters(h, o.id)'
      PROVE  pc'[h] \in {"engine", "update"} <=> pc[h] \in {"engine", "update"}
  <2>1. For(h, o.id, {"PUT", "DELETE"})
    BY <1>1, <1>4 DEF Alters, For
  <2>2. pc'[h] # "failed" /\ req[h].op # "POST"
    BY <1>2, <2>1 DEF For
  <2> QED  BY <2>2, FreeEffect
<1>5. LeftOf(o, o) /\ o.qty \in Nat
  BY <1>1, LeftOfItself
<1> QED  BY <1>1, <1>3, <1>4, <1>5, TracksOn

\* The insert of a POST writes what the engine was given.
LEMMA InsertTracks ==
  ASSUME Control, Rows, [Next]_vars, Tracked, NEW h \in Handler, InsertOrder(h)
  PROVE  Tracked'
<1> USE DEF Control
<1> SUFFICES ASSUME NEW o \in Resting', Undisturbed(o.id)'  PROVE Tracks(o)'
  BY DEF Tracked
<1> DEFINE new == [side |-> req[h].side, price |-> req[h].price,
                   qty |-> req[h].qty, status |-> "OPEN"]
<1>1. /\ pc[h] = "order" /\ req[h].op = "POST" /\ req[h].id = h
      /\ o \in Resting /\ req' = req
      /\ orders' = [orders EXCEPT ![h] = new]
      /\ pc'[h] \in {"done", "trade"} /\ \A g \in Handler : g # h => pc'[g] = pc[g]
  BY DEF InsertOrder, Flow, engine, Resting, AfterOrder, TypeOK
<1>2. req[h] \in Request /\ new \in Row
  BY <1>1 DEF TypeOK, Request, Row
<1>3. orders[h] = NoRow
  BY <1>1 DEF Rows
<1>4. \A g \in Handler : ~Alters(g, h)
  BY <1>3 DEF Alters, For, Flow, TypeOK
<1>5. CASE o.id = h
  <2>1. Posted(o)
    <3>1. Undisturbed(h) /\ Tracks(o)
      BY <1>1, <1>5, UndisturbedBefore DEF Tracked
    <3>2. ~Agrees(o)
      BY <1>3, <1>5 DEF Agrees, AsRecorded
    <3>3. \A g \in Handler : ~Replaces(g, o)
      BY <1>4, <1>5 DEF Replaces, Alters, For
    <3> QED  BY <3>1, <3>2, <3>3 DEF Tracks
  <2>2. orders'[h] = new /\ new # NoRow
    BY <1>1, <1>2, NullAssumption DEF TypeOK, Id
  <2>3. AsRecorded(o)'
    BY <1>5, <2>1, <2>2 DEF Posted, Fits, AsRecorded
  <2>4. \A g \in Handler : ~Alters(g, o.id)'
    BY <1>1, <1>4, <1>5 DEF Alters, For
  <2> QED  BY <2>3, <2>4 DEF Tracks, Agrees
<1>6. CASE o.id # h
  <2>1. req'[h] # NoRequest /\ req'[h].id # o.id
    BY <1>1, <1>2, <1>6, NullAssumption
  <2>2. orders'[o.id] = orders[o.id]
    <3> HIDE DEF new
    <3> QED  BY <1>1, <1>6, LeftOfItself DEF TypeOK
  <2> QED  BY <1>1, <2>1, <2>2, OthersTrack
<1> QED  BY <1>5, <1>6

\* The update of a PUT writes what the engine was given; after that of a
\* DELETE nothing rests.
LEMMA UpdateTracks ==
  ASSUME Control, Rows, Asked, [Next]_vars, Tracked, NEW h \in Handler, UpdateOrder(h)
  PROVE  Tracked'
<1> USE DEF Control
<1> SUFFICES ASSUME NEW o \in Resting', Undisturbed(o.id)'  PROVE Tracks(o)'
  BY DEF Tracked
<1>1. /\ pc[h] = "update" /\ pc'[h] = "done" /\ req' = req /\ o \in Resting
      /\ \A g \in Handler : g # h => pc'[g] = pc[g]
      /\ orders' = [orders EXCEPT ![req[h].id] =
           IF req[h].op = "PUT" THEN Replaced(orders[req[h].id], req[h])
           ELSE [orders[req[h].id] EXCEPT !.status = "CANCELLED"]]
  BY DEF UpdateOrder, engine, Resting, TypeOK
<1>2. /\ req[h] \in Request /\ req[h].op \in {"PUT", "DELETE"}
      /\ orders[req[h].id] \in Row /\ orders[req[h].id] # NoRow /\ req[h].id \in Id
  BY <1>1, NullAssumption DEF Flow, TypeOK, Request
<1>3. req[h] # NoRequest
  BY <1>2, NullAssumption
<1>4. CASE o.id = req[h].id
  <2>1. Undisturbed(o.id) /\ Tracks(o)
    BY <1>1, UndisturbedBefore DEF Tracked
  <2>2. Alters(h, o.id)
    BY <1>2, <1>3, <1>4 DEF Alters, For
  <2>3. ~Posted(o)
    BY <1>2, <1>4 DEF Posted, Rows, Id
  <2>4. ~Agrees(o)
    BY <1>1, <2>2 DEF Agrees
  <2>5. PICK g \in Handler : Replaces(g, o)
    BY <2>1, <2>3, <2>4 DEF Tracks
  <2>6. g = h /\ req[h].op = "PUT" /\ Fits(o, req[h])
    BY <2>1, <2>2, <2>5 DEF Replaces, Alters, For, Undisturbed
  <2>7. orders[req[h].id].status = "OPEN" /\ orders[req[h].id].side = req[h].side
    BY <1>1, <1>4, <2>1, <2>6 DEF Asked
  <2>8. /\ orders'[o.id] = Replaced(orders[req[h].id], req[h])
        /\ Replaced(orders[req[h].id], req[h]) \in Row
    BY <1>1, <1>2, <1>4, <2>6 DEF Replaced, Row, Request, TypeOK
  <2>9. orders'[o.id] # NoRow
    BY <2>8, NullAssumption
  <2>10. AsRecorded(o)'
    BY <1>2, <2>6, <2>7, <2>8, <2>9 DEF AsRecorded, Fits, Replaced, Row
  <2>11. ASSUME NEW f \in Handler, Alters(f, o.id)'  PROVE pc'[f] = "done"
    BY <1>1, <2>1, <2>2, <2>11 DEF Undisturbed, Alters, For
  <2> QED  BY <2>10, <2>11 DEF Tracks, Agrees
<1>5. CASE o.id # req[h].id
  <2>1. orders'[o.id] = orders[o.id]
    BY <1>1, <1>5, LeftOfItself DEF TypeOK
  <2> QED  BY <1>1, <1>3, <1>5, <2>1, OthersTrack
<1> QED  BY <1>4, <1>5

\* A request comes in, a trade is inserted, a handler fails.
LEMMA OtherTracks ==
  ASSUME Control, [Next]_vars, Tracked, NEW h \in Handler,
         Receipt(h) \/ InsertTrade(h) \/ Fail(h)
  PROVE  Tracked'
<1> USE DEF Control
<1> SUFFICES ASSUME NEW o \in Resting', Undisturbed(o.id)'  PROVE Tracks(o)'
  BY DEF Tracked
<1>1. CASE Receipt(h)
  <2>1. /\ pc[h] = "idle" /\ pc'[h] = "mutex" /\ orders' = orders /\ o \in Resting
        /\ \A g \in Handler : g # h => pc'[g] = pc[g]
    BY <1>1, ReceiptEffect DEF Resting, TypeOK
  <2>2. LeftOf(o, o) /\ o.qty \in Nat
    BY <2>1, LeftOfItself
  <2> QED  BY <2>1, <2>2, TracksOn
<1>2. CASE InsertTrade(h)
  <2>1. /\ pc[h] = "trade" /\ pc'[h] \in {"trade", "done"} /\ orders' = orders
        /\ o \in Resting /\ \A g \in Handler : g # h => pc'[g] = pc[g]
    BY <1>2 DEF InsertTrade, engine, Resting, TypeOK
  <2>2. LeftOf(o, o) /\ o.qty \in Nat
    BY <2>1, LeftOfItself
  <2> QED  BY <2>1, <2>2, TracksOn
<1>3. CASE Fail(h)
  <2>1. /\ pc[h] # "idle" /\ pc'[h] = "failed" /\ orders' = orders /\ req' = req
        /\ o \in Resting /\ \A g \in Handler : g # h => pc'[g] = pc[g]
    BY <1>3 DEF Fail, InFlight, Awaits, engine, database, Resting, TypeOK
  <2>2. req[h] # NoRequest /\ req[h] \in Request
    BY <2>1 DEF TypeOK
  <2>3. o.id # req[h].id
    BY <2>1, <2>2 DEF Undisturbed, For, Request
  <2> QED  BY <2>1, <2>2, <2>3, OthersTrack
<1> QED  BY <1>1, <1>2, <1>3

LEMMA NextTracked ==
  ASSUME Control, Rows, Asked, Tracked, [Next]_vars
  PROVE  Tracked'
<1>1. CASE UNCHANGED vars
  BY <1>1 DEF vars, engine, handlers, database, Tracked, Resting, Undisturbed, Tracks,
              Posted, Replaces, Agrees, Alters, AsRecorded, For, Fits
<1> QED
  BY <1>1, CallTracks, FillTracks, FreeTracks, InsertTracks, UpdateTracks, OtherTracks
  DEF Next, Query, Matching

\* An order that its owner changes at most once rests in the engine as its row
\* says (orders.ts:52-61, 146-149, 197-200), whatever other requests do in
\* between, as soon as all requests on it are answered.
THEOREM RowsFollowTheBook == Spec => []RowsMatchBook
<1>1. Init => Rows /\ Asked /\ Tracked
  BY DEF Init, Engine!BookInit, Rows, Asked, Tracked, Resting, Id
<1>2. Control /\ Rows /\ Asked /\ Tracked /\ [Next]_vars => Rows' /\ Asked' /\ Tracked'
  BY NextRows, NextAsked, NextTracked
<1>3. Control /\ Tracked => RowsMatchBook
  <2> SUFFICES ASSUME Control, Tracked, NEW o \in open, Calm(o.id),
                      \A g, h \in Handler : Alters(g, o.id) /\ Alters(h, o.id) => g = h
               PROVE  AsRecorded(o)
    BY DEF RowsMatchBook, Alters
  <2>1. o \in Resting /\ o.id \in Handler
    BY DEF Resting, Control, TypeOK, Engine!Order, Id
  <2>2. Undisturbed(o.id)
    BY DEF Undisturbed, Calm
  <2>3. \A h \in Handler : ~Replaces(h, o)
    BY DEF Replaces, For, Calm
  <2>4. ~Posted(o)
    BY <2>1 DEF Posted, For, Calm
  <2> QED  BY <2>1, <2>2, <2>3, <2>4 DEF Tracked, Tracks, Agrees
<1> QED  BY <1>1, <1>2, <1>3, ControlHolds, PTL DEF Spec

=============================================================================
