----------------------------- MODULE MarketMaker -----------------------------
(***************************************************************************)
(* The market maker (scripts/market-maker.ts): a timer starts updateQuotes *)
(* again and again, which cancels the orders the bot knows and places new  *)
(* ones, request by request; a signal starts shutdown, which cancels them  *)
(* and exits.  Nothing keeps a tick from starting while the last update    *)
(* still awaits an answer, nor a signal, so the calls interleave at every  *)
(* request.  The bot signs in once, before its first update; the token     *)
(* expires after a day and nothing renews it.  The prices and sizes of the *)
(* quotes are left out.                                                    *)
(*                                                                         *)
(* this.activeOrders is replaced by a new array at the end of              *)
(* cancelAllOrders, while other calls may still iterate over the old one.  *)
(* lists holds all of these arrays; the last is this.activeOrders.  The    *)
(* second reset, in updateQuotes, follows the first without an await that  *)
(* waits for anything, and is the same step.                               *)
(***************************************************************************)
EXTENDS Integers, Sequences, FiniteSets

CONSTANTS
  Updates,      \* bound: calls of updateQuotes, one for each tick
  Shutdown,     \* calls of shutdown, one for each signal
  Quotes,       \* orders that an update places: twice LEVELS
  MaxFailures   \* bound: requests that fail or whose answer is lost

Update == 1..Updates

ASSUME CallsAssumption == Updates \in Nat /\ Update \cap Shutdown = {}
ASSUME QuotesAssumption == Quotes \in Nat \ {0} /\ MaxFailures \in Nat

VARIABLES
  lists,        \* the arrays this.activeOrders has been, the last one it is
  pc,           \* pc[c]: the loop of call c that awaits a request
  list,         \* list[c]: the array that the loop of c cancels
  next,         \* next[c]: its position there, or the quote being placed
  exited,       \* process.exit was called
  session,      \* the request of authenticate it awaits, then its token
  request,      \* request[c]: what became of the request c awaits
  open,         \* the bot's orders that are open at the gateway
  failures,     \* requests that failed so far
  contended     \* history: a cancelAllOrders began while another ran

bot  == <<lists, pc, list, next, exited>>
vars == <<bot, session, request, open, failures, contended>>

Call  == Update \cup Shutdown
Order == Update \X (1..Quotes)
Running(c) == pc[c] \in {"cancel", "place"}

activeOrders == lists[Len(lists)]

-----------------------------------------------------------------------------
(* Slips: plausible mistakes, used by no action.                           *)

\* One quote too many: <= for < in the loop over LEVELS.
OneQuoteMore(i) == i <= Quotes + 1
\* The id that comes back is not pushed.
NeverTracked(u) == activeOrders
\* The loop removes what it cancelled from the array it iterates over, so that
\* it skips every second order.
EverySecond(c) == next[c] + 2
\* The loop takes the first order, as long as there is one.
FirstAgain(c) == 1

-----------------------------------------------------------------------------
(* The bot.  Each step runs to its next await.                             *)

\* There is a quote i to place.
Quoted(i) == i <= Quotes

\* The loops of updateQuotes over them: quote i goes out, or the update ends.
PlaceFrom(u, i) ==
  /\ next' = [next EXCEPT ![u] = i]
  /\ \/ /\ Quoted(i)
        /\ pc' = [pc EXCEPT ![u] = "place"]
        /\ request' = [request EXCEPT ![u] = "sent"]
     \/ /\ ~Quoted(i)
        /\ pc' = [pc EXCEPT ![u] = "done"]
        /\ request' = [request EXCEPT ![u] = "none"]

\* The loop of cancelAllOrders over array l, which may have grown since; at
\* its end the orders are forgotten.
CancelFrom(c, l, i) ==
  /\ list' = [list EXCEPT ![c] = l]
  /\ \/ /\ i <= Len(lists[l])
        /\ next' = [next EXCEPT ![c] = i]
        /\ pc' = [pc EXCEPT ![c] = "cancel"]
        /\ request' = [request EXCEPT ![c] = "sent"]
        /\ UNCHANGED <<lists, exited>>
     \/ /\ i > Len(lists[l])
        /\ lists' = Append(lists, <<>>)
        /\ \/ /\ c \in Update
              /\ PlaceFrom(c, 1)
              /\ exited' = exited
           \/ /\ c \in Shutdown
              /\ pc' = [pc EXCEPT ![c] = "done"]
              /\ request' = [request EXCEPT ![c] = "none"]
              /\ exited' = TRUE
              /\ next' = next

\* authenticate, request by request; run goes on when both are answered.
SignIn ==
  /\ ~exited
  /\ \/ session = "nonce" /\ session' = "login"
     \/ session = "login" /\ session' = "valid"
  /\ UNCHANGED <<bot, request, open, failures, contended>>

\* One of them fails: initialize throws, and the bot exits.
SignInFails ==
  /\ ~exited
  /\ session \in {"nonce", "login"}
  /\ exited' = TRUE
  /\ UNCHANGED <<lists, pc, list, next, session, request, open, failures, contended>>

\* A call begins: the loop takes the array that activeOrders is now.
Begin(c) ==
  /\ ~exited
  /\ pc[c] = "idle"
  /\ CancelFrom(c, Len(lists), 1)
  /\ contended' = (contended \/ \E d \in Call : pc[d] = "cancel")
  /\ UNCHANGED <<session, open, failures>>

\* run signs in, and awaits the first update before it sets the timer.
Tick(u) ==
  /\ session \in {"valid", "expired"}
  /\ \A v \in 1..(u - 1) : pc[v] # "idle"
  /\ u = 1 \/ pc[1] = "done"
  /\ Begin(u)

Signal(s) == Begin(s)

\* placeOrder returns an id to push, or null.
Tracked(u) == IF request[u] = "ok" THEN Append(activeOrders, <<u, next[u]>>)
                                   ELSE activeOrders

Placed(u) ==
  /\ ~exited
  /\ pc[u] = "place"
  /\ request[u] # "sent"
  /\ lists' = [lists EXCEPT ![Len(lists)] = Tracked(u)]
  /\ PlaceFrom(u, next[u] + 1)
  /\ UNCHANGED <<list, exited, session, open, failures, contended>>

\* A DELETE that failed is like one that succeeded.
Following(c) == next[c] + 1

Cancelled(c) ==
  /\ ~exited
  /\ pc[c] = "cancel"
  /\ request[c] # "sent"
  /\ CancelFrom(c, list[c], Following(c))
  /\ UNCHANGED <<session, open, failures, contended>>

-----------------------------------------------------------------------------
(* The gateway, as the bot sees it; it goes on when the bot has exited.    *)

\* What a request asks for: a POST opens its order, a DELETE closes one.
Effect(c) == IF pc[c] = "place" THEN open \cup {<<c, next[c]>>}
                                ELSE open \ {lists[list[c]][next[c]]}

Accepts == session = "valid"

Serve(c) ==
  /\ request[c] = "sent"
  /\ Accepts
  /\ open' = Effect(c)
  /\ request' = [request EXCEPT ![c] = "ok"]
  /\ UNCHANGED <<bot, session, failures, contended>>

\* 401, for every request from then on; to the bot it is an error like others.
Refuse(c) ==
  /\ request[c] = "sent"
  /\ ~Accepts
  /\ request' = [request EXCEPT ![c] = "failed"]
  /\ UNCHANGED <<bot, session, open, failures, contended>>

Expire ==
  /\ session = "valid"
  /\ session' = "expired"
  /\ UNCHANGED <<bot, request, open, failures, contended>>

\* The request is refused or lost, or its answer is: the bot catches an error.
\* (Without a valid token that is no more than Refuse.)
Fail(c) ==
  /\ Accepts
  /\ failures < MaxFailures
  /\ request[c] = "sent"
  /\ open' \in {open, Effect(c)}
  /\ request' = [request EXCEPT ![c] = "failed"]
  /\ failures' = failures + 1
  /\ UNCHANGED <<bot, session, contended>>

\* An order trades to its last lot.
Fill(o) ==
  /\ o \in open
  /\ open' = open \ {o}
  /\ UNCHANGED <<bot, session, request, failures, contended>>

-----------------------------------------------------------------------------
Init ==
  /\ lists = <<<<>>>>
  /\ pc = [c \in Call |-> "idle"]
  /\ list = [c \in Call |-> 1]
  /\ next = [c \in Call |-> 1]
  /\ exited = FALSE
  /\ session = "nonce"
  /\ request = [c \in Call |-> "none"]
  /\ open = {}
  /\ failures = 0
  /\ contended = FALSE

Work(c) == (c \in Update /\ Placed(c)) \/ Cancelled(c)

Next ==
  \/ \E u \in Update : Tick(u) \/ Placed(u)
  \/ \E s \in Shutdown : Signal(s)
  \/ \E c \in Call : Cancelled(c) \/ Serve(c) \/ Refuse(c) \/ Fail(c)
  \/ SignIn \/ SignInFails \/ Expire
  \/ \E o \in Order : Fill(o)

Spec == Init /\ [][Next]_vars

\* Requests are answered, with a result or an error, and the bot goes on then.
Fairness == \A c \in Call : WF_vars(Work(c)) /\ WF_vars(Serve(c) \/ Refuse(c))
FairSpec == Spec /\ Fairness

-----------------------------------------------------------------------------
(* Properties.                                                             *)

TypeOK ==
  /\ lists \in Seq(Seq(Order)) /\ lists # <<>>
  /\ pc \in [Call -> {"idle", "cancel", "place", "done"}]
  /\ list \in [Call -> 1..Len(lists)]
  /\ next \in [Call -> Nat \ {0}]
  /\ exited \in BOOLEAN /\ contended \in BOOLEAN
  /\ session \in {"nonce", "login", "valid", "expired"}
  /\ request \in [Call -> {"none", "sent", "ok", "failed"}]
  /\ open \subseteq Order
  /\ failures \in 0..MaxFailures
  /\ \A s \in Shutdown : pc[s] # "place"
  /\ \A c \in Call : /\ (request[c] # "none") = Running(c)
                     /\ pc[c] = "cancel" => next[c] <= Len(lists[list[c]])
                     /\ pc[c] = "place" => next[c] <= Quotes

\* The orders some loop will come to, or activeOrders has, or a POST brings.
Known ==
  {activeOrders[i] : i \in DOMAIN activeOrders}
    \cup (UNION {{lists[list[c]][i] : i \in next[c]..Len(lists[list[c]])} :
                   c \in {d \in Call : pc[d] = "cancel"}})
    \cup {<<u, next[u]>> : u \in {v \in Update : pc[v] = "place"}}

\* While its token is valid, the bot loses track of an open order by a failed
\* request only, one for each, as long as no two cancelAllOrders run at once: a
\* tick may interrupt an update that still places orders, and the pushes that
\* follow, to an array another call iterates over or to its successor, are not
\* lost.  (An expired token makes the next update forget all of them.)
LossesExplained ==
  ~contended /\ session # "expired" => Cardinality(open \ Known) <= failures

\* "All orders cancelled. Goodbye!" (market-maker.ts:255), when no two
\* cancelAllOrders ran at once and the token is valid: also with updates under
\* way, the bot leaves nothing open but what a failed request left, and what
\* the POST that each update awaits opens.
GoodbyeTrue ==
  ~contended /\ exited /\ session # "expired" =>
    Cardinality(open)
      <= failures + Cardinality({u \in Update : pc[u] = "place"})

\* A signal ends the bot, whatever the updates do to the array that shutdown
\* iterates over.
ShutsDown == (\E s \in Shutdown : Running(s)) ~> exited

=============================================================================
