-------------------------- MODULE MarketFeedsProofs --------------------------
(***************************************************************************)
(* Proofs about MarketFeeds, for any connections, sequence numbers below   *)
(* 100, any number of queries at once and any LIMIT: TypeOK and            *)
(* NoneSkipped.                                                            *)
(***************************************************************************)
EXTENDS MarketFeeds, TLAPS

-----------------------------------------------------------------------------
(* The inductive invariant.                                                *)

\* Row n was sent to c, or may be missed by it.
Explained(c, n) == n \in sent[c] \cup late \cup older[c]

\* A position of the stream: every row up to it is explained.
Passed(c, p) == \A n \in trades : n <= p => Explained(c, n)

\* A result of c: every row up to one of its rows is in it, or explained.
Covered(c, rows) ==
  \A m \in rows : \A n \in trades : n <= m => n \in rows \/ Explained(c, n)

\* lastSequence and what the queries were asked and answered with.
StreamOf(c) ==
  /\ Passed(c, lastSequence[c])
  /\ \A q \in Slot : ~query[c][q].answered => Passed(c, query[c][q].from)
  /\ \A q \in Slot : query[c][q].answered => Covered(c, query[c][q].rows)
Streams == \A c \in Connection :
  endpoint[c] = "trades" /\ socket[c] = "open" => StreamOf(c)

\* Positions are rows, and so are results.
Positions == \A c \in Connection : \A q \in Slot :
  /\ query[c][q].from \in {0} \cup trades
  /\ endpoint[c] = "trades" => query[c][q].rows \subseteq trades

\* What has not connected has not begun.
Unconnected == \A c \in Connection : endpoint[c] = "none" =>
  /\ socket[c] = "none" /\ lastSequence[c] = 0 /\ timers[c] = {}
  /\ \A q \in Slot : query[c][q] = Free

IInv == TypeOK /\ Streams /\ Positions /\ Unconnected

-----------------------------------------------------------------------------
LEMMA RowsAreIntegers ==
  ASSUME TypeOK
  PROVE  \A n \in trades : n \in Int
<1>1. \A n \in trades : n \in 1..99
  BY SequenceAssumption DEF TypeOK
<1> QED  BY <1>1

LEMMA InitInv == Init => IInv
<1> SUFFICES ASSUME Init PROVE IInv
  OBVIOUS
<1>1. TypeOK
  BY BoundsAssumption DEF Init, TypeOK
<1>2. Positions /\ Unconnected
  BY DEF Init, Positions, Unconnected, Free
<1>3. Streams
  BY DEF Init, Streams
<1> QED  BY <1>1, <1>2, <1>3 DEF IInv

\* The streams of the connections that a step does not touch.
LEMMA StreamKept ==
  ASSUME NEW c \in Connection, StreamOf(c),
         UNCHANGED <<trades, late>>,
         lastSequence'[c] = lastSequence[c], query'[c] = query[c],
         sent'[c] = sent[c], older'[c] = older[c]
  PROVE  StreamOf(c)'
BY DEF StreamOf, Passed, Covered, Explained

\* A row inserted below a position, or below a row of a result, is late.
LEMMA InsertStep ==
  ASSUME IInv, NEW n \in Sequence, InsertTrade(n)
  PROVE  IInv'
<1> USE DEF IInv
<1>1. /\ n \notin trades /\ trades' = trades \cup {n} /\ trades \subseteq Sequence
      /\ UNCHANGED <<book, endpoint, socket, isAlive, lastSequence, sent, older,
                     interval, timers, query, subscribed, failures>>
  BY DEF InsertTrade, connection, stream, timing, TypeOK
<1>2. late \subseteq late' /\ late' \subseteq trades'
  BY <1>1 DEF InsertTrade, TypeOK
<1>3. \A m \in {0} \cup trades : n <= m => n \in late'
  BY <1>1, SequenceAssumption DEF InsertTrade
<1>4. TypeOK'
  BY <1>1, <1>2 DEF TypeOK
<1>5. Positions' /\ Unconnected'
  BY <1>1 DEF Positions, Unconnected
<1>6. ASSUME NEW c \in Connection, endpoint[c] = "trades", socket[c] = "open"
      PROVE  StreamOf(c)'
  <2>1. \A m : Explained(c, m) => Explained(c, m)'
    BY <1>1, <1>2 DEF Explained
  <2>2. \A p \in {0} \cup trades : Passed(c, p) => Passed(c, p)'
    BY <1>1, <1>3, <2>1 DEF Passed, Explained
  <2>3. ASSUME NEW q \in Slot, query[c][q].answered
        PROVE  Covered(c, query[c][q].rows)'
    <3>1. query[c][q].rows \subseteq trades
      BY <1>6 DEF Positions
    <3>2. Covered(c, query[c][q].rows)
      BY <1>6, <2>3 DEF Streams, StreamOf
    <3> QED  BY <1>1, <1>3, <2>1, <3>1, <3>2 DEF Covered, Explained
  <2>4. lastSequence[c] \in {0} \cup trades
    BY DEF TypeOK
  <2>5. Passed(c, lastSequence[c])'
    BY <1>1, <1>6, <2>2, <2>4 DEF Streams, StreamOf
  <2>6. ASSUME NEW q \in Slot, ~query[c][q].answered
        PROVE  Passed(c, query[c][q].from)'
    BY <1>1, <1>6, <2>2, <2>6 DEF Streams, StreamOf, Positions
  <2> QED  BY <1>1, <2>3, <2>5, <2>6 DEF StreamOf
<1>7. Streams'
  BY <1>1, <1>6 DEF Streams
<1> QED  BY <1>4, <1>5, <1>7

\* What Ask makes of the queries of c: one more, from 0 or from lastSequence.
LEMMA AskStep ==
  ASSUME IInv, NEW c \in Connection, NEW of \in {"subscribe", "poll"}, Ask(c, of),
         endpoint[c] # "none"
  PROVE  /\ query' \in [Connection -> [Slot -> Awaited \cup {Free}]]
         /\ \A d \in Connection : d # c => query'[d] = query[d]
         /\ \A q \in Slot :
              \/ query'[c][q] = query[c][q]
              \/ /\ query'[c][q].from \in {0, lastSequence[c]}
                 /\ ~query'[c][q].answered /\ query'[c][q].rows = {}
<1> PICK q \in Slot : query' = [query EXCEPT ![c][q] =
      [of |-> of, from |-> IF of = "poll" THEN lastSequence[c] ELSE 0,
       answered |-> FALSE, rows |-> {}]]
  BY DEF Ask
<1> DEFINE asked == [of |-> of, from |-> IF of = "poll" THEN lastSequence[c] ELSE 0,
                     answered |-> FALSE, rows |-> {}]
<1>1. query \in [Connection -> [Slot -> Awaited \cup {Free}]]
  BY DEF IInv, TypeOK
<1>2. lastSequence[c] \in {0} \cup Sequence
  BY DEF IInv, TypeOK
<1>3. asked \in Awaited
  BY <1>2 DEF Awaited
<1>4. asked.from \in {0, lastSequence[c]} /\ ~asked.answered /\ asked.rows = {}
  OBVIOUS
<1> QED  BY <1>1, <1>3, <1>4

\* A step that only asks a query, and what else does not concern the streams.
LEMMA AskedStep ==
  ASSUME IInv, NEW c \in Connection, NEW of \in {"subscribe", "poll"}, Ask(c, of),
         endpoint[c] # "none",
         UNCHANGED <<trades, late, endpoint, socket, lastSequence, sent, older>>
  PROVE  Streams' /\ Positions'
<1> USE DEF IInv
<1>1. Positions'
  BY AskStep DEF Positions, TypeOK
<1>2. ASSUME NEW d \in Connection, endpoint[d] = "trades", socket[d] = "open"
      PROVE  StreamOf(d)'
  <2>1. StreamOf(d)
    BY <1>2 DEF Streams
  <2>2. CASE d # c
    BY <2>1, <2>2, AskStep, StreamKept
  <2>3. CASE d = c
    <3>1. Passed(c, 0)
      BY SequenceAssumption DEF Passed, TypeOK
    <3>2. \A p : Passed(c, p) => Passed(c, p)'
      BY DEF Passed, Explained
    <3>3. \A rows : Covered(c, rows) => Covered(c, rows)'
      BY DEF Covered, Explained
    <3>4. ASSUME NEW q \in Slot
          PROVE  /\ ~query'[c][q].answered => Passed(c, query'[c][q].from)
                 /\ query'[c][q].answered => Covered(c, query'[c][q].rows)
      BY <2>1, <2>3, <3>1, AskStep DEF StreamOf
    <3> QED  BY <2>1, <2>3, <3>2, <3>3, <3>4 DEF StreamOf
  <2> QED  BY <2>2, <2>3
<1> QED  BY <1>1, <1>2 DEF Streams

LEMMA ConnectStep ==
  ASSUME IInv, NEW c \in Connection, NEW e \in {"trades", "orderbook"}, Connect(c, e)
  PROVE  IInv'
<1> USE DEF IInv
<1>1. /\ endpoint[c] = "none"
      /\ endpoint' = [endpoint EXCEPT ![c] = e]
      /\ socket' = [socket EXCEPT ![c] = "open"]
      /\ isAlive' = [isAlive EXCEPT ![c] = TRUE]
      /\ UNCHANGED <<trades, late, book, lastSequence, sent, older, interval, timers,
                     query, subscribed, failures>>
  BY DEF Connect, database, stream, timing
<1>2. lastSequence[c] = 0 /\ \A q \in Slot : query[c][q] = Free
  BY <1>1 DEF Unconnected
<1>3. TypeOK'
  BY <1>1 DEF TypeOK
<1>4. Positions'
  <2>1. \A d \in Connection : d # c => endpoint'[d] = endpoint[d]
    BY <1>1 DEF TypeOK
  <2> QED  BY <1>1, <1>2, <2>1 DEF Positions, Free
<1>5. Unconnected'
  BY <1>1 DEF Unconnected, TypeOK
<1>6. ASSUME NEW d \in Connection, endpoint'[d] = "trades", socket'[d] = "open"
      PROVE  StreamOf(d)'
  <2>1. CASE d # c
    <3>1. endpoint[d] = "trades" /\ socket[d] = "open"
      BY <1>1, <1>6, <2>1 DEF TypeOK
    <3>2. StreamOf(d)
      BY <3>1 DEF Streams
    <3> QED  BY <1>1, <3>2, StreamKept
  <2>2. CASE d = c
    <3>1. Passed(c, 0)'
      BY <1>1, SequenceAssumption DEF Passed, TypeOK
    <3> QED  BY <1>1, <1>2, <2>2, <3>1 DEF StreamOf, Free, Passed
  <2> QED  BY <2>1, <2>2
<1>7. Streams'
  BY <1>6 DEF Streams
<1> QED  BY <1>3, <1>4, <1>5, <1>7

LEMMA SubscribeStep ==
  ASSUME IInv, NEW c \in Connection, Subscribe(c)
  PROVE  IInv'
<1> USE DEF IInv
<1>1. /\ socket[c] = "open" /\ subscribed[c] < MaxTimers
      /\ Ask(c, "subscribe")
      /\ subscribed' = [subscribed EXCEPT ![c] = @ + 1]
      /\ UNCHANGED <<trades, late, book, endpoint, socket, isAlive, lastSequence,
                     sent, older, interval, timers, failures>>
  BY DEF Subscribe, database, connection, stream, timing
<1>2. endpoint[c] # "none"
  BY <1>1 DEF Unconnected
<1>3. Streams' /\ Positions'
  BY <1>1, <1>2, AskedStep
<1>4. /\ query' \in [Connection -> [Slot -> Awaited \cup {Free}]]
      /\ \A d \in Connection : d # c => query'[d] = query[d]
  BY <1>1, <1>2, AskStep
<1>5. subscribed' \in [Connection -> 0..MaxTimers]
  BY <1>1, BoundsAssumption DEF TypeOK
<1>6. TypeOK'
  BY <1>1, <1>4, <1>5 DEF TypeOK
<1>7. Unconnected'
  BY <1>1, <1>2, <1>4 DEF Unconnected
<1> QED  BY <1>3, <1>6, <1>7

LEMMA TickStep ==
  ASSUME IInv, NEW c \in Connection, NEW t \in 1..MaxTimers, Tick(c, t)
  PROVE  IInv'
<1> USE DEF IInv
<1>1. /\ t \in timers[c]
      /\ UNCHANGED <<trades, late, book, endpoint, socket, isAlive, lastSequence,
                     sent, older, interval, subscribed, failures>>
  BY DEF Tick, database, connection, stream
<1>2. endpoint[c] # "none"
  BY <1>1 DEF Unconnected
<1>3. CASE Ended(c) /\ query' = query /\ timers' = [timers EXCEPT ![c] = @ \ {interval[c]}]
  <2>1. /\ timers' \in [Connection -> SUBSET Nat]
        /\ \A d \in Connection : timers'[d] \subseteq timers[d]
    BY <1>3 DEF TypeOK
  <2>2. TypeOK' /\ Unconnected'
    BY <1>1, <1>3, <2>1 DEF TypeOK, Unconnected
  <2>3. Positions'
    BY <1>1, <1>3 DEF Positions
  <2>4. Streams'
    BY <1>1, <1>3 DEF Streams, StreamOf, Passed, Covered, Explained
  <2> QED  BY <2>2, <2>3, <2>4
<1>4. CASE Ask(c, "poll") /\ timers' = timers
  <2>1. Streams' /\ Positions'
    BY <1>1, <1>2, <1>4, AskedStep
  <2>2. /\ query' \in [Connection -> [Slot -> Awaited \cup {Free}]]
        /\ \A d \in Connection : d # c => query'[d] = query[d]
    BY <1>2, <1>4, AskStep
  <2>3. TypeOK'
    BY <1>1, <1>4, <2>2 DEF TypeOK
  <2>4. Unconnected'
    BY <1>1, <1>2, <1>4, <2>2 DEF Unconnected
  <2> QED  BY <2>1, <2>3, <2>4
<1> QED  BY <1>3, <1>4 DEF Tick

\* The rows of a poll follow a position that was passed; the first query
\* leaves out what older records.
LEMMA AnswerStep ==
  ASSUME IInv, NEW c \in Connection, NEW q \in Slot, Answer(c, q)
  PROVE  IInv'
<1> USE DEF IInv
<1> PICK asked : asked = query[c][q]
  OBVIOUS
<1> PICK rows :
      rows = CASE endpoint[c] = "orderbook" -> OpenOrders
               [] endpoint[c] = "trades" /\ asked.of = "poll" -> Newer(asked.from)
               [] OTHER -> MostRecent
  OBVIOUS
<1>1. /\ asked.of # "free" /\ ~asked.answered
      /\ query' = [query EXCEPT ![c][q].answered = TRUE, ![c][q].rows = rows]
      /\ older' = IF endpoint[c] = "trades" /\ asked.of = "subscribe"
                  THEN [older EXCEPT ![c] = @ \cup (trades \ rows)] ELSE older
      /\ UNCHANGED <<trades, late, book, endpoint, socket, isAlive, lastSequence,
                     sent, interval, timers, subscribed, failures>>
  BY DEF Answer, database, connection, timing
<1>2. asked \in Awaited /\ asked.of \in {"subscribe", "poll"}
  BY <1>1 DEF TypeOK, Free, Awaited
<1>3. endpoint[c] # "none"
  BY <1>1 DEF Unconnected, Free
<1>4. /\ rows \subseteq Sequence \cup (0..MaxBook)
      /\ endpoint[c] = "trades" => rows \subseteq trades
  BY <1>3 DEF TypeOK, OpenOrders, Newer, MostRecent
<1>5. /\ \A d \in Connection : d # c => query'[d] = query[d]
      /\ \A r \in Slot : r # q => query'[c][r] = query[c][r]
      /\ query'[c][q] = [asked EXCEPT !.answered = TRUE, !.rows = rows]
      /\ query' \in [Connection -> [Slot -> Awaited \cup {Free}]]
  <2>1. [asked EXCEPT !.answered = TRUE, !.rows = rows] \in Awaited
    BY <1>2, <1>4 DEF Awaited
  <2>2. query \in [Connection -> [Slot -> Awaited \cup {Free}]]
    BY DEF TypeOK
  <2>3. query' = [query EXCEPT ![c] =
          [query[c] EXCEPT ![q] = [asked EXCEPT !.answered = TRUE, !.rows = rows]]]
    BY <1>1, <2>2
  <2> QED  BY <2>1, <2>2, <2>3
<1>6. query'[c][q].answered /\ query'[c][q].rows = rows /\ query'[c][q].from = asked.from
  BY <1>2, <1>5 DEF Awaited
<1>7. /\ older' \in [Connection -> SUBSET Sequence]
      /\ \A d \in Connection : older[d] \subseteq older'[d]
      /\ \A d \in Connection : d # c => older'[d] = older[d]
  BY <1>1 DEF TypeOK
<1>8. TypeOK'
  BY <1>1, <1>5, <1>7 DEF TypeOK
<1>9. Unconnected'
  BY <1>1, <1>3, <1>5 DEF Unconnected
<1>10. Positions'
  BY <1>1, <1>4, <1>5, <1>6 DEF Positions
<1>11. ASSUME NEW d \in Connection, endpoint[d] = "trades", socket[d] = "open"
       PROVE  StreamOf(d)'
  <2>1. StreamOf(d)
    BY <1>11 DEF Streams
  <2>2. CASE d # c
    BY <1>1, <1>5, <1>7, <2>1, <2>2, StreamKept
  <2>3. CASE d = c
    <3>1. \A m : Explained(c, m) => Explained(c, m)'
      BY <1>1, <1>7 DEF Explained
    <3>2. \A p : Passed(c, p) => Passed(c, p)'
      BY <1>1, <3>1 DEF Passed
    <3>3. \A s : Covered(c, s) => Covered(c, s)'
      BY <1>1, <3>1 DEF Covered
    <3>4. Covered(c, rows)'
      <4>1. CASE asked.of = "poll"
        <5>1. rows = Newer(asked.from)
          BY <1>11, <2>3, <4>1
        <5>2. Passed(c, asked.from)
          BY <1>1, <2>1, <2>3 DEF StreamOf
        <5>3. asked.from \in Int
          BY <1>2, SequenceAssumption DEF Awaited
        <5>4. \A n \in trades : n \in Int
          BY RowsAreIntegers
        <5>5. \A n \in trades : n \in rows \/ Explained(c, n)
          BY <5>1, <5>2, <5>3, <5>4 DEF Passed, Newer
        <5> QED  BY <1>1, <3>1, <5>5 DEF Covered
      <4>2. CASE asked.of = "subscribe"
        <5>1. older'[c] = older[c] \cup (trades \ rows)
          BY <1>1, <1>11, <2>3, <4>2 DEF TypeOK
        <5>2. \A n \in trades : n \in rows \/ Explained(c, n)'
          BY <5>1 DEF Explained
        <5> QED  BY <1>1, <5>2 DEF Covered
      <4> QED  BY <1>2, <4>1, <4>2
    <3> QED
      BY <1>1, <1>5, <1>6, <2>1, <2>3, <3>2, <3>3, <3>4 DEF StreamOf
  <2> QED  BY <2>2, <2>3
<1>12. Streams'
  BY <1>1, <1>11 DEF Streams
<1> QED  BY <1>8, <1>9, <1>10, <1>12

\* What a handler takes for the new position is a row of its result, or the
\* position there was.
LEMMA MoveStep ==
  ASSUME NEW c \in Connection, NEW of, NEW rows, Move(c, of, rows),
         lastSequence \in [Connection -> {0} \cup trades],
         endpoint[c] = "trades" => rows \subseteq trades
  PROVE  /\ lastSequence' \in [Connection -> {0} \cup trades]
         /\ \A d \in Connection : d # c => lastSequence'[d] = lastSequence[d]
         /\ endpoint[c] = "none" => rows = {} /\ lastSequence' = lastSequence
         /\ lastSequence'[c] \in rows \cup {lastSequence[c]}
<1>1. CASE lastSequence' = lastSequence /\ (endpoint[c] = "orderbook" \/ rows = {})
  BY <1>1
<1>2. CASE endpoint[c] = "trades" /\
           \E n \in (IF of = "poll" THEN LastPolled(c, rows) ELSE LastRecent(c, rows)) :
             lastSequence' = [lastSequence EXCEPT ![c] = n]
  <2>1. PICK n \in rows \cup {lastSequence[c]} :
          lastSequence' = [lastSequence EXCEPT ![c] = n]
    BY <1>2 DEF LastPolled, LastRecent
  <2> QED  BY <1>2, <2>1
<1> QED  BY <1>1, <1>2 DEF Move

\* The rows of a result are sent, so its last row has been passed.
LEMMA HandleStep ==
  ASSUME IInv, NEW c \in Connection, NEW q \in Slot, Handle(c, q)
  PROVE  IInv'
<1> USE DEF IInv
<1> PICK of, rows : of = query[c][q].of /\ rows = query[c][q].rows
  OBVIOUS
<1>1. /\ query[c][q].answered
      /\ Send(c, rows)
      /\ Move(c, of, rows)
      /\ SetTimer(c) \/ UNCHANGED <<interval, timers>>
      /\ query' = [query EXCEPT ![c][q] = Free]
      /\ UNCHANGED <<trades, late, book, endpoint, socket, isAlive, older,
                     subscribed, failures>>
  BY DEF Handle, database, connection, timing
<1>2. /\ rows \subseteq Sequence \cup (0..MaxBook)
      /\ endpoint[c] = "trades" => rows \subseteq trades
      /\ endpoint[c] # "none"
  BY <1>1 DEF TypeOK, Positions, Unconnected, Awaited, Free
<1>3. /\ lastSequence' \in [Connection -> {0} \cup trades]
      /\ \A d \in Connection : d # c => lastSequence'[d] = lastSequence[d]
      /\ lastSequence'[c] \in rows \cup {lastSequence[c]}
  BY <1>1, <1>2, MoveStep DEF TypeOK
<1>4. /\ sent' \in [Connection -> SUBSET (Sequence \cup (0..MaxBook))]
      /\ \A d \in Connection : d # c => sent'[d] = sent[d]
      /\ endpoint[c] = "trades" /\ socket[c] = "open" => sent'[c] = sent[c] \cup rows
  BY <1>1, <1>2 DEF Send, TypeOK
<1>5. /\ query' \in [Connection -> [Slot -> Awaited \cup {Free}]]
      /\ query'[c][q] = Free
      /\ \A d \in Connection : d # c => query'[d] = query[d]
      /\ \A r \in Slot : r # q => query'[c][r] = query[c][r]
  BY <1>1 DEF TypeOK
<1>6. /\ interval' \in [Connection -> Nat] /\ timers' \in [Connection -> SUBSET Nat]
      /\ \A d \in Connection : timers'[d] \subseteq 1..interval'[d]
      /\ \A d \in Connection : d # c => timers'[d] = timers[d]
  <2>1. CASE UNCHANGED <<interval, timers>>
    BY <2>1 DEF TypeOK
  <2>2. CASE SetTimer(c)
    <3>1. interval[c] \in Nat /\ timers[c] \subseteq 1..interval[c]
      BY DEF TypeOK
    <3>2. timers[c] \cup {interval[c] + 1} \subseteq 1..(interval[c] + 1)
      BY <3>1
    <3>3. interval' \in [Connection -> Nat] /\ interval'[c] = interval[c] + 1
      BY <2>2, <3>1 DEF SetTimer, TypeOK
    <3>4. timers' = [timers EXCEPT ![c] = @ \cup {interval[c] + 1}]
      BY <2>2 DEF SetTimer
    <3>5. timers' \in [Connection -> SUBSET Nat]
      BY <3>1, <3>4 DEF TypeOK
    <3>6. timers'[c] \subseteq 1..interval'[c]
      BY <3>2, <3>3, <3>4 DEF TypeOK
    <3>7. \A d \in Connection : d # c => timers'[d] = timers[d] /\ interval'[d] = interval[d]
      BY <2>2 DEF SetTimer, TypeOK
    <3> QED  BY <3>3, <3>5, <3>6, <3>7 DEF TypeOK
  <2> QED  BY <1>1, <2>1, <2>2
<1>7. TypeOK'
  BY <1>1, <1>3, <1>4, <1>5, <1>6 DEF TypeOK
<1>8. Unconnected'
  BY <1>1, <1>2, <1>3, <1>5, <1>6 DEF Unconnected
<1>9. Positions'
  BY <1>1, <1>5 DEF Positions, Free
<1>10. ASSUME NEW d \in Connection, endpoint[d] = "trades", socket[d] = "open"
       PROVE  StreamOf(d)'
  <2>1. StreamOf(d)
    BY <1>10 DEF Streams
  <2>2. CASE d # c
    BY <1>1, <1>3, <1>4, <1>5, <2>1, <2>2, StreamKept
  <2>3. CASE d = c
    <3>1. \A m : Explained(c, m) => Explained(c, m)'
      BY <1>1, <1>4, <1>10, <2>3 DEF Explained
    <3>2. \A p : Passed(c, p) => Passed(c, p)'
      BY <1>1, <3>1 DEF Passed
    <3>3. \A s : Covered(c, s) => Covered(c, s)'
      BY <1>1, <3>1 DEF Covered
    <3>4. \A n \in rows : Explained(c, n)'
      BY <1>4, <1>10, <2>3 DEF Explained
    <3>5. Covered(c, rows)
      BY <1>1, <2>1, <2>3 DEF StreamOf
    <3>6. \A m \in rows : Passed(c, m)'
      BY <1>1, <3>1, <3>4, <3>5 DEF Passed, Covered
    <3>7. Passed(c, lastSequence[c])'
      <4>1. ASSUME NEW p, p = lastSequence'[c]
            PROVE  Passed(c, p)'
        BY <1>3, <2>1, <2>3, <3>2, <3>6, <4>1 DEF StreamOf
      <4> QED  BY <4>1 DEF Passed
    <3>8. Passed(c, 0)'
      BY <1>1, SequenceAssumption DEF Passed, TypeOK
    <3>9. ASSUME NEW r \in Slot
          PROVE  /\ ~query'[c][r].answered => Passed(c, query[c][r].from)'
                 /\ query'[c][r].answered => Covered(c, query[c][r].rows)'
      <4>1. CASE r = q
        BY <1>5, <3>8, <4>1 DEF Free, Passed
      <4>2. CASE r # q
        BY <1>5, <2>1, <2>3, <3>2, <3>3, <4>2 DEF StreamOf
      <4> QED  BY <4>1, <4>2
    <3> QED  BY <2>3, <3>7, <3>9 DEF StreamOf
  <2> QED  BY <2>2, <2>3
<1>11. Streams'
  BY <1>1, <1>10 DEF Streams
<1> QED  BY <1>7, <1>8, <1>9, <1>11

LEMMA FailQueryStep ==
  ASSUME IInv, NEW c \in Connection, NEW q \in Slot, FailQuery(c, q)
  PROVE  IInv'
<1> USE DEF IInv
<1>1. /\ failures < MaxFailures /\ failures' = failures + 1
      /\ query' = [query EXCEPT ![c][q] = Free]
      /\ UNCHANGED <<trades, late, book, endpoint, socket, isAlive, lastSequence,
                     sent, older, interval, timers, subscribed>>
  BY DEF FailQuery, database, connection, stream, timing
<1>2. /\ query' \in [Connection -> [Slot -> Awaited \cup {Free}]]
      /\ \A d \in Connection : \A r \in Slot :
           query'[d][r] = query[d][r] \/ query'[d][r] = Free
  BY <1>1 DEF TypeOK
<1>3. failures' \in 0..MaxFailures
  BY <1>1, BoundsAssumption DEF TypeOK
<1>4. TypeOK'
  BY <1>1, <1>2, <1>3 DEF TypeOK
<1>5. Positions' /\ Unconnected'
  BY <1>1, <1>2 DEF Positions, Unconnected, Free
<1>6. ASSUME NEW d \in Connection, endpoint[d] = "trades", socket[d] = "open"
      PROVE  StreamOf(d)'
  <2>1. StreamOf(d)
    BY <1>6 DEF Streams
  <2>2. Passed(d, 0)
    BY SequenceAssumption DEF Passed, TypeOK
  <2>3. \A p : Passed(d, p) => Passed(d, p)'
    BY <1>1 DEF Passed, Explained
  <2>4. \A s : Covered(d, s) => Covered(d, s)'
    BY <1>1 DEF Covered, Explained
  <2>5. \A r \in Slot :
          /\ ~query'[d][r].answered => Passed(d, query'[d][r].from)
          /\ query'[d][r].answered => Covered(d, query'[d][r].rows)
    BY <1>2, <2>1, <2>2 DEF StreamOf, Free
  <2> QED  BY <1>1, <2>1, <2>3, <2>4, <2>5 DEF StreamOf
<1>7. Streams'
  BY <1>1, <1>6 DEF Streams
<1> QED  BY <1>4, <1>5, <1>7

\* Steps that leave the streams alone and open none.
LEMMA StreamsAlone ==
  ASSUME IInv, UNCHANGED <<trades, late, endpoint, lastSequence, sent, older, query>>,
         \A c \in Connection : socket'[c] = "open" => socket[c] = "open"
  PROVE  Streams' /\ Positions'
<1>1. Positions'
  BY DEF IInv, Positions
<1>2. Streams'
  BY StreamKept DEF IInv, Streams
<1> QED  BY <1>1, <1>2

LEMMA CloseStep ==
  ASSUME IInv, NEW c \in Connection, Close(c)
  PROVE  IInv'
<1> USE DEF IInv
<1>1. /\ socket[c] = "open"
      /\ socket' = [socket EXCEPT ![c] = "closed"]
      /\ isAlive' = [isAlive EXCEPT ![c] = FALSE]
      /\ timers' = [timers EXCEPT ![c] = @ \ {interval[c]}]
      /\ UNCHANGED <<trades, late, book, endpoint, lastSequence, sent, older,
                     interval, query, subscribed, failures>>
  BY DEF Close, database, stream
<1>2. /\ timers' \in [Connection -> SUBSET Nat]
      /\ \A d \in Connection : timers'[d] \subseteq timers[d]
  BY <1>1 DEF TypeOK
<1>3. TypeOK'
  BY <1>1, <1>2 DEF TypeOK
<1>4. Streams' /\ Positions'
  BY <1>1, StreamsAlone DEF TypeOK
<1>5. Unconnected'
  BY <1>1, <1>2 DEF Unconnected, TypeOK
<1> QED  BY <1>3, <1>4, <1>5

LEMMA ErrorStep ==
  ASSUME IInv, NEW c \in Connection, Error(c)
  PROVE  IInv'
<1> USE DEF IInv
<1>1. /\ isAlive' = [isAlive EXCEPT ![c] = FALSE]
      /\ UNCHANGED <<trades, late, book, endpoint, socket, lastSequence, sent, older,
                     interval, timers, query, subscribed, failures>>
  BY DEF Error, database, stream, timing
<1>2. TypeOK'
  BY <1>1 DEF TypeOK
<1>3. Streams' /\ Positions'
  BY <1>1, StreamsAlone
<1>4. Unconnected'
  BY <1>1 DEF Unconnected
<1> QED  BY <1>2, <1>3, <1>4

LEMMA ChangeBookStep ==
  ASSUME IInv, ChangeBook
  PROVE  IInv'
<1> USE DEF IInv
<1>1. /\ book' \in 0..MaxBook
      /\ UNCHANGED <<trades, late, endpoint, socket, isAlive, lastSequence, sent, older,
                     interval, timers, query, subscribed, failures>>
  BY BoundsAssumption DEF ChangeBook, TypeOK, connection, stream, timing
<1>2. TypeOK'
  BY <1>1 DEF TypeOK
<1>3. Streams' /\ Positions'
  BY <1>1, StreamsAlone
<1>4. Unconnected'
  BY <1>1 DEF Unconnected
<1> QED  BY <1>2, <1>3, <1>4

LEMMA NextInv == IInv /\ [Next]_vars => IInv'
<1> SUFFICES ASSUME IInv, [Next]_vars PROVE IInv'
  OBVIOUS
<1>1. CASE Routes
  BY <1>1, ChangeBookStep, InsertStep DEF Routes
<1>2. CASE \E c \in Connection : Peer(c)
  BY <1>2, ConnectStep, SubscribeStep, CloseStep, ErrorStep DEF Peer
<1>3. CASE \E c \in Connection : \E t \in 1..MaxTimers : Tick(c, t)
  BY <1>3, TickStep
<1>4. CASE \E c \in Connection : \E q \in Slot : Answer(c, q) \/ Handle(c, q) \/ FailQuery(c, q)
  BY <1>4, AnswerStep, HandleStep, FailQueryStep
<1>5. CASE UNCHANGED vars
  <2>1. UNCHANGED <<trades, late, book, endpoint, socket, isAlive, lastSequence, sent,
                    older, interval, timers, query, subscribed, failures>>
    BY <1>5 DEF vars, database, connection, stream, timing
  <2>2. TypeOK'
    BY <2>1 DEF IInv, TypeOK
  <2>3. Streams' /\ Positions'
    BY <2>1, StreamsAlone
  <2>4. Unconnected'
    BY <2>1 DEF IInv, Unconnected
  <2> QED  BY <2>2, <2>3, <2>4 DEF IInv
<1> QED  BY <1>1, <1>2, <1>3, <1>4, <1>5 DEF Next

-----------------------------------------------------------------------------
(* The theorems.                                                           *)

\* IInv holds in every state of both endpoints (ws/trades.ts, ws/orderbook.ts).
THEOREM FeedsInvariance == Spec => []IInv
<1> QED  BY InitInv, NextInv, PTL DEF Spec

\* The variables of both endpoints keep their types: lastSequence is always a
\* row of trades, or 0, whatever the order in which results are handled.
THEOREM FeedsTypeCorrect == Spec => []TypeOK
<1>1. IInv => TypeOK
  BY DEF IInv
<1> QED  BY <1>1, FeedsInvariance, PTL

\* ws/trades.ts never moves an open stream past a row that it has not sent, but
\* for rows inserted late and rows older than the first query: for any number of
\* connections, of overlapping polls and of repeated subscriptions.
THEOREM FeedsSkipNothing == Spec => []NoneSkipped
<1>1. IInv => NoneSkipped
  BY DEF IInv, Streams, StreamOf, Passed, Explained, NoneSkipped
<1> QED  BY <1>1, FeedsInvariance, PTL

=============================================================================
