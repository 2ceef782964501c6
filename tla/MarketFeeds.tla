----------------------------- MODULE MarketFeeds -----------------------------
(***************************************************************************)
(* The two WebSocket endpoints of the API gateway: ws/trades.ts streams    *)
(* the rows of trades, ws/orderbook.ts the sums over the open orders.      *)
(* Both answer a subscription from the database and set a timer that polls *)
(* from then on.  Handlers await their query and nothing else: a timer     *)
(* fires again whether or not the last poll has come back, and messages,   *)
(* polls, the end of the connection and the order routes interleave.       *)
(*                                                                         *)
(* A trade row is its sequence number; the orderbook is the number of      *)
(* changes made to it.  Node runs a continuation to its end, so handling a *)
(* result is one step; messages to an open socket arrive in order.         *)
(***************************************************************************)
EXTENDS Integers, FiniteSets

CONSTANTS
  Connection,   \* WebSocket connections
  Sequence,     \* the sequence numbers of one market
  Recent,       \* the LIMIT of the first query on trades
  Slot,         \* bound: queries that a connection may await at once
  MaxTimers,    \* bound: subscriptions of one connection that are answered
  MaxBook,      \* bound: changes of the orderbook
  MaxFailures   \* bound: queries that fail

ASSUME SequenceAssumption == Sequence \subseteq 1..99
ASSUME BoundsAssumption ==
  /\ Recent \in Nat \ {0} /\ MaxTimers \in Nat
  /\ MaxBook \in Nat /\ MaxFailures \in Nat

VARIABLES
  \* The database, written by the order routes:
  trades,       \* the rows of trades
  book,         \* the state of the orderbook
  \* The connections:
  endpoint,     \* endpoint[c]: the route that c called, or "none"
  socket,       \* socket[c]: open or closed
  isAlive,
  lastSequence, \* of /trades; stays 0 on /orderbook
  interval,     \* interval[c]: pollInterval or updateInterval, 0 when unset
  timers,       \* timers[c]: the timers that fire
  query,        \* query[c][q]: the queries under way
  \* History:
  subscribed,   \* subscribed[c]: subscribe messages so far
  sent,         \* sent[c]: the trades sent, or the orderbook sent last
  late,         \* rows inserted when a row of a higher sequence was there
  older,        \* older[c]: rows left out by the LIMIT of the first query
  failures      \* queries that failed so far

database   == <<trades, book, late>>
connection == <<endpoint, socket, isAlive>>
stream     == <<lastSequence, sent, older>>
timing     == <<interval, timers>>
vars == <<database, connection, stream, timing, query, subscribed, failures>>

Free == [of |-> "free", from |-> 0, answered |-> FALSE, rows |-> {}]
Awaited == [of : {"subscribe", "poll"}, from : {0} \cup Sequence,
            answered : BOOLEAN, rows : SUBSET (Sequence \cup (0..MaxBook))]

\* BIGINT columns come back as strings: of two numbers below 100, the string a
\* is greater than b.
Lead(n) == IF n < 10 THEN 10 * n ELSE n
After(a, b) == Lead(a) > Lead(b) \/ (Lead(a) = Lead(b) /\ a > b)

-----------------------------------------------------------------------------
(* Slips: plausible mistakes, used by no action.                           *)

\* The poll is limited as the first query is.
NewestOnly(from) ==
  LET rows == {n \in trades : n > from}
  IN  {n \in rows : Cardinality({m \in rows : m > n}) < Recent}
\* The query compares the column as text.
TextNewer(from) == {n \in trades : from = 0 \/ After(n, from)}
\* lastSequence counts the rows sent.
RowsSent(c, rows) == {Cardinality(sent[c] \cup rows)}
\* The orderbook of the first query is cached.
CachedBook == {0}
\* The timer does not look at isAlive.
NeverEnded(c) == FALSE

-----------------------------------------------------------------------------
(* The order routes.                                                       *)

\* The rows of concurrent handlers are inserted in any order.
InsertTrade(n) ==
  /\ n \notin trades
  /\ trades' = trades \cup {n}
  /\ late' = IF \E m \in trades : m > n THEN late \cup {n} ELSE late
  /\ UNCHANGED <<book, connection, stream, timing, query, subscribed, failures>>

ChangeBook ==
  /\ book < MaxBook
  /\ book' = book + 1
  /\ UNCHANGED <<trades, late, connection, stream, timing, query, subscribed, failures>>

-----------------------------------------------------------------------------
(* The connections.                                                        *)

Connect(c, e) ==
  /\ endpoint[c] = "none"
  /\ endpoint' = [endpoint EXCEPT ![c] = e]
  /\ socket' = [socket EXCEPT ![c] = "open"]
  /\ isAlive' = [isAlive EXCEPT ![c] = TRUE]
  /\ UNCHANGED <<database, stream, timing, query, subscribed, failures>>

\* A handler of c starts to await a query.
Ask(c, of) ==
  \E q \in Slot :
    /\ query[c][q] = Free
    /\ query' = [query EXCEPT ![c][q] =
         [of |-> of, from |-> IF of = "poll" THEN lastSequence[c] ELSE 0,
          answered |-> FALSE, rows |-> {}]]

\* The message subscribe; it may come again.
Subscribe(c) ==
  /\ socket[c] = "open"
  /\ subscribed[c] < MaxTimers
  /\ Ask(c, "subscribe")
  /\ subscribed' = [subscribed EXCEPT ![c] = @ + 1]
  /\ UNCHANGED <<database, connection, stream, timing, failures>>

\* A timer fires.  When the connection has ended it clears not itself but the
\* timer that was set last.
Ended(c) == ~isAlive[c]

Tick(c, t) ==
  /\ t \in timers[c]
  /\ \/ /\ Ended(c)
        /\ timers' = [timers EXCEPT ![c] = @ \ {interval[c]}]
        /\ query' = query
     \/ /\ ~Ended(c)
        /\ Ask(c, "poll")
        /\ timers' = timers
  /\ UNCHANGED <<database, connection, stream, interval, subscribed, failures>>

\* ORDER BY sequence DESC LIMIT 50
MostRecent == {n \in trades : Cardinality({m \in trades : m > n}) < Recent}
\* sequence > lastSequence
Newer(from) == {n \in trades : n > from}

\* The sums over the open orders.
OpenOrders == {book}

\* The database evaluates a query.
Answer(c, q) ==
  /\ query[c][q].of # "free"
  /\ ~query[c][q].answered
  /\ LET asked == query[c][q]
         rows  == CASE endpoint[c] = "orderbook" -> OpenOrders
                    [] endpoint[c] = "trades" /\ asked.of = "poll" -> Newer(asked.from)
                    [] OTHER -> MostRecent
     IN  /\ query' = [query EXCEPT ![c][q].answered = TRUE, ![c][q].rows = rows]
         /\ older' = IF endpoint[c] = "trades" /\ asked.of = "subscribe"
                     THEN [older EXCEPT ![c] = @ \cup (trades \ rows)] ELSE older
  /\ UNCHANGED <<database, connection, lastSequence, sent, timing, subscribed, failures>>

\* What the rows of a result, in ascending order, make of lastSequence: a poll
\* takes each in turn, the first query each that is greater, as a string.
LastPolled(c, rows) == {n \in rows : \A m \in rows : m <= n}
LastRecent(c, rows) ==
  LET all == rows \cup {lastSequence[c]}
  IN  {n \in all : \A m \in all : ~After(m, n)}

\* Messages to a socket that is not open are dropped.
Send(c, rows) ==
  sent' = [sent EXCEPT ![c] =
    IF socket[c] # "open" THEN @
    ELSE IF endpoint[c] = "orderbook" THEN rows ELSE @ \cup rows]

Move(c, of, rows) ==
  \/ /\ endpoint[c] = "orderbook" \/ rows = {}
     /\ lastSequence' = lastSequence
  \/ /\ endpoint[c] = "trades"
     /\ \E n \in (IF of = "poll" THEN LastPolled(c, rows) ELSE LastRecent(c, rows)) :
          lastSequence' = [lastSequence EXCEPT ![c] = n]

\* A subscription sets a new timer, and leaves an earlier one running.
SetTimer(c) ==
  LET t == interval[c] + 1 IN
  /\ interval' = [interval EXCEPT ![c] = t]
  /\ timers' = [timers EXCEPT ![c] = @ \cup {t}]

\* The continuation of a handler: to the end of the loop over the rows.
Handle(c, q) ==
  LET got == query[c][q] IN
  /\ got.answered
  /\ Send(c, got.rows)
  /\ Move(c, got.of, got.rows)
  /\ IF got.of = "subscribe" THEN SetTimer(c) ELSE UNCHANGED timing
  /\ query' = [query EXCEPT ![c][q] = Free]
  /\ UNCHANGED <<database, connection, older, subscribed, failures>>

\* A query fails.  A subscription then sets no timer.
FailQuery(c, q) ==
  /\ failures < MaxFailures
  /\ query[c][q].of # "free"
  /\ query' = [query EXCEPT ![c][q] = Free]
  /\ failures' = failures + 1
  /\ UNCHANGED <<database, connection, stream, timing, subscribed>>

\* The event close, on either side's initiative.
Close(c) ==
  /\ socket[c] = "open"
  /\ socket' = [socket EXCEPT ![c] = "closed"]
  /\ isAlive' = [isAlive EXCEPT ![c] = FALSE]
  /\ timers' = [timers EXCEPT ![c] = @ \ {interval[c]}]
  /\ UNCHANGED <<database, endpoint, stream, interval, query, subscribed, failures>>

\* The event error; close follows.
Error(c) ==
  /\ socket[c] = "open" /\ isAlive[c]
  /\ isAlive' = [isAlive EXCEPT ![c] = FALSE]
  /\ UNCHANGED <<database, endpoint, socket, stream, timing, query, subscribed, failures>>

-----------------------------------------------------------------------------
Init ==
  /\ trades = {} /\ late = {}
  /\ book = 0
  /\ endpoint = [c \in Connection |-> "none"]
  /\ socket = [c \in Connection |-> "none"]
  /\ isAlive = [c \in Connection |-> FALSE]
  /\ lastSequence = [c \in Connection |-> 0]
  /\ interval = [c \in Connection |-> 0]
  /\ timers = [c \in Connection |-> {}]
  /\ query = [c \in Connection |-> [q \in Slot |-> Free]]
  /\ subscribed = [c \in Connection |-> 0]
  /\ sent = [c \in Connection |-> {}]
  /\ older = [c \in Connection |-> {}]
  /\ failures = 0

Routes == ChangeBook \/ \E n \in Sequence : InsertTrade(n)

Peer(c) ==
  \/ \E e \in {"trades", "orderbook"} : Connect(c, e)
  \/ Subscribe(c) \/ Close(c) \/ Error(c)

Next ==
  \/ Routes
  \/ \E c \in Connection :
       \/ Peer(c)
       \/ \E t \in 1..MaxTimers : Tick(c, t)
       \/ \E q \in Slot : Answer(c, q) \/ Handle(c, q) \/ FailQuery(c, q)

Spec == Init /\ [][Next]_vars

\* Timers fire, and queries end; nothing is assumed of clients and traders.
Fairness ==
  \A c \in Connection :
    /\ \A t \in 1..MaxTimers : WF_vars(Tick(c, t))
    /\ \A q \in Slot : WF_vars(Answer(c, q) \/ Handle(c, q))
FairSpec == Spec /\ Fairness

-----------------------------------------------------------------------------
(* Properties.                                                             *)

TypeOK ==
  /\ trades \subseteq Sequence /\ late \subseteq trades
  /\ book \in 0..MaxBook
  /\ endpoint \in [Connection -> {"none", "trades", "orderbook"}]
  /\ socket \in [Connection -> {"none", "open", "closed"}]
  /\ isAlive \in [Connection -> BOOLEAN]
  /\ lastSequence \in [Connection -> {0} \cup trades]
  /\ interval \in [Connection -> Nat]
  /\ subscribed \in [Connection -> 0..MaxTimers]
  /\ timers \in [Connection -> SUBSET Nat]
  /\ query \in [Connection -> [Slot -> Awaited \cup {Free}]]
  /\ \A c \in Connection : timers[c] \subseteq 1..interval[c]
  /\ \A c \in Connection : isAlive[c] => socket[c] = "open"
  /\ sent \in [Connection -> SUBSET (Sequence \cup (0..MaxBook))]
  /\ older \in [Connection -> SUBSET Sequence]
  /\ failures \in 0..MaxFailures

\* "Clients receive trades as they are executed" (ws/trades.ts:6): the stream
\* never moves past a row it has not sent, however polls overlap, come back in
\* another order, or a second subscription sets lastSequence back, except for
\* rows inserted late and rows older than the first 50.
NoneSkipped ==
  \A c \in Connection : endpoint[c] = "trades" /\ socket[c] = "open" =>
    \A n \in trades : n <= lastSequence[c] => n \in sent[c] \cup late \cup older[c]

\* A polling connection is sent every row in the end, but for those.
Streamed ==
  \A c \in Connection : \A n \in Sequence :
    (/\ endpoint[c] = "trades" /\ isAlive[c] /\ timers[c] # {}
     /\ n \in trades \ late)
      ~> (n \in sent[c] \cup older[c] \/ ~isAlive[c])

\* When orders stop changing the last orderbook sent is the one there is: an
\* update that overlaps with a newer one and comes after it does not last.
BookConverges ==
  \A c \in Connection :
    <>[](endpoint[c] = "orderbook" /\ isAlive[c] /\ timers[c] # {} => sent[c] = {book})

\* No timer outlives a connection that subscribed once, also when it ends
\* before its subscription is answered.
TimersStop ==
  \A c \in Connection :
    <>[](socket[c] = "closed" /\ subscribed[c] <= 1 => timers[c] = {})

=============================================================================
