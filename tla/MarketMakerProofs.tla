-------------------------- MODULE MarketMakerProofs --------------------------
(***************************************************************************)
(* Proofs about MarketMaker, for any number of ticks, signals, quotes and  *)
(* failed requests: its types, what it loses track of, and what it leaves  *)
(* open when it exits.                                                     *)
(*                                                                         *)
(* The argument counts.  Lost is what is open and no call will come to,    *)
(* with what a failed request is about whose call has not heard of it yet. *)
(* A failure adds one order to it; every other step only takes away: a     *)
(* loop passes an order when its DELETE closed it (Closed, Listed: nobody  *)
(* places it again) or failed, an answered POST is pushed to the array the *)
(* one running loop still goes through (Alone), and without a token there  *)
(* is nothing to lose (Unborn).                                            *)
(***************************************************************************)
EXTENDS MarketMaker, FiniteSetTheorems, SequenceTheorems, TLAPS

-----------------------------------------------------------------------------
(* The inductive invariant.                                                *)

Cancels(c) == pc[c] = "cancel"

\* The order that a request of c places or cancels.
Target(c) == IF pc[c] = "place" THEN <<c, next[c]>> ELSE lists[list[c]][next[c]]

\* Until the token is issued there is no order, and no update.
Unborn ==
  session \in {"nonce", "login"} =>
    /\ open = {}
    /\ \A u \in Update : pc[u] = "idle"
    /\ \A k \in DOMAIN lists : lists[k] = <<>>

\* An order that came back is never placed again.
Listed ==
  \A k \in DOMAIN lists : \A i \in DOMAIN lists[k] :
    LET u == lists[k][i][1] IN
      /\ pc[u] \in {"place", "done"}
      /\ pc[u] = "place" => lists[k][i][2] < next[u]

\* A DELETE that was answered closed its order for good.
Closed == \A c \in Call : Cancels(c) /\ request[c] = "ok" => Target(c) \notin open

\* One cancelAllOrders at a time works on activeOrders itself.
Alone ==
  ~contended =>
    \A c \in Call : Cancels(c) =>
      /\ list[c] = Len(lists)
      /\ \A d \in Call : Cancels(d) => d = c

\* What activeOrders has that no loop has passed, and what a POST brings.
Placing == {<<u, next[u]>> : u \in {v \in Update : pc[v] = "place"}}
Kept ==
  {activeOrders[i] : i \in {j \in DOMAIN activeOrders :
                              \A c \in Call : Cancels(c) => j >= next[c]}}
    \cup Placing

\* What is lost, or will be when the bot hears of the failure.
Doomed == {Target(c) : c \in {d \in Call : request[d] = "failed"}}
Lost == (open \ Kept) \cup Doomed

\* Each loss is a failed request.
Counted ==
  ~contended /\ session # "expired" =>
    IsFiniteSet(Lost) /\ Cardinality(Lost) <= failures

\* The bot exits with nothing left to cancel.
Left ==
  ~contended /\ exited =>
    activeOrders = <<>> /\ \A c \in Call : ~Cancels(c)

IInv == TypeOK /\ Unborn /\ Listed /\ Closed /\ Alone /\ Counted /\ Left
-----------------------------------------------------------------------------
(* The steps, and the arrays they leave.                                   *)

\* What a loop of cancelAllOrders does next: it goes on to order i of array l,
\* it ends and its update places the first quote, or it ends and its shutdown
\* exits.
GoesOn(c, l, i) ==
  /\ i <= Len(lists[l])
  /\ list' = [list EXCEPT ![c] = l]
  /\ next' = [next EXCEPT ![c] = i]
  /\ pc' = [pc EXCEPT ![c] = "cancel"]
  /\ request' = [request EXCEPT ![c] = "sent"]
  /\ UNCHANGED <<lists, exited>>

Requotes(c, l, i) ==
  /\ c \in Update
  /\ i > Len(lists[l])
  /\ lists' = Append(lists, <<>>)
  /\ list' = [list EXCEPT ![c] = l]
  /\ next' = [next EXCEPT ![c] = 1]
  /\ pc' = [pc EXCEPT ![c] = "place"]
  /\ request' = [request EXCEPT ![c] = "sent"]
  /\ UNCHANGED exited

Quits(c, l, i) ==
  /\ c \in Shutdown
  /\ i > Len(lists[l])
  /\ lists' = Append(lists, <<>>)
  /\ list' = [list EXCEPT ![c] = l]
  /\ pc' = [pc EXCEPT ![c] = "done"]
  /\ request' = [request EXCEPT ![c] = "none"]
  /\ exited' = TRUE
  /\ UNCHANGED next

LEMMA CancelCases ==
  ASSUME NEW c, NEW l, NEW i, CancelFrom(c, l, i)
  PROVE  GoesOn(c, l, i) \/ Requotes(c, l, i) \/ Quits(c, l, i)
BY QuotesAssumption DEF CancelFrom, PlaceFrom, Quoted, GoesOn, Requotes, Quits

LEMMA ListsType ==
  ASSUME TypeOK
  PROVE  /\ Len(lists) \in Nat \ {0} /\ DOMAIN lists = 1..Len(lists)
         /\ Len(lists) \in 1..Len(lists)
         /\ \A k \in 1..Len(lists) :
              /\ lists[k] \in Seq(Order)
              /\ Len(lists[k]) \in Nat /\ DOMAIN lists[k] = 1..Len(lists[k])
BY DEF TypeOK

\* A new array replaces activeOrders.
LEMMA ListsReset ==
  ASSUME TypeOK, lists' = Append(lists, <<>>)
  PROVE  /\ lists' \in Seq(Seq(Order)) /\ lists' # <<>>
         /\ Len(lists') = Len(lists) + 1
         /\ \A k \in 1..Len(lists) : lists'[k] = lists[k]
         /\ lists'[Len(lists')] = <<>>
<1>1. lists \in Seq(Seq(Order)) /\ <<>> \in Seq(Order)
  BY DEF TypeOK
<1> DEFINE S == Seq(Order)
<1> HIDE DEF S
<1>2. lists \in Seq(S) /\ <<>> \in S
  BY <1>1 DEF S
<1>3. /\ lists' \in Seq(S) /\ Len(lists') = Len(lists) + 1
      /\ \A k \in 1..Len(lists) : lists'[k] = lists[k]
      /\ lists'[Len(lists) + 1] = <<>>
  BY <1>2
<1>4. lists' # <<>>
  BY <1>2, <1>3
<1> QED  BY <1>3, <1>4 DEF S

\* The answer of a POST is pushed to activeOrders, or not.
LEMMA ListsPush ==
  ASSUME TypeOK, NEW u \in Update, pc[u] = "place",
         lists' = [lists EXCEPT ![Len(lists)] = Tracked(u)]
  PROVE  /\ lists' \in Seq(Seq(Order)) /\ lists' # <<>>
         /\ Len(lists') = Len(lists)
         /\ \A k \in 1..Len(lists) : k # Len(lists) => lists'[k] = lists[k]
         /\ lists'[Len(lists)] = Tracked(u)
         /\ Tracked(u) \in Seq(Order)
         /\ request[u] # "ok" => Tracked(u) = activeOrders
         /\ request[u] = "ok" =>
              /\ Len(Tracked(u)) = Len(activeOrders) + 1
              /\ \A i \in 1..Len(activeOrders) : Tracked(u)[i] = activeOrders[i]
              /\ Tracked(u)[Len(activeOrders) + 1] = <<u, next[u]>>
         /\ \A k \in 1..Len(lists) :
              /\ Len(lists'[k]) >= Len(lists[k])
              /\ \A i \in 1..Len(lists[k]) : lists'[k][i] = lists[k][i]
<1>1. activeOrders \in Seq(Order) /\ Len(lists) \in 1..Len(lists) /\ Len(lists) \in Nat
  BY ListsType DEF activeOrders
<1>2. <<u, next[u]>> \in Order
  <2>1. u \in Call /\ next[u] \in Nat \ {0} /\ next[u] <= Quotes
    BY DEF TypeOK, Call
  <2> QED  BY <2>1, QuotesAssumption DEF Order
<1>3. /\ Tracked(u) \in Seq(Order)
      /\ request[u] # "ok" => Tracked(u) = activeOrders
      /\ request[u] = "ok" =>
           /\ Len(Tracked(u)) = Len(activeOrders) + 1
           /\ \A i \in 1..Len(activeOrders) : Tracked(u)[i] = activeOrders[i]
           /\ Tracked(u)[Len(activeOrders) + 1] = <<u, next[u]>>
  <2> DEFINE e == <<u, next[u]>>
  <2>1. Tracked(u) = IF request[u] = "ok" THEN Append(activeOrders, e) ELSE activeOrders
    BY DEF Tracked
  <2>2. e \in Order
    BY <1>2
  <2> HIDE DEF e
  <2>3. /\ Tracked(u) \in Seq(Order)
        /\ request[u] # "ok" => Tracked(u) = activeOrders
        /\ request[u] = "ok" =>
             /\ Len(Tracked(u)) = Len(activeOrders) + 1
             /\ \A i \in 1..Len(activeOrders) : Tracked(u)[i] = activeOrders[i]
             /\ Tracked(u)[Len(activeOrders) + 1] = e
    BY <1>1, <2>1, <2>2
  <2> QED  BY <2>3 DEF e
<1> DEFINE S == Seq(Order)
           n == Len(lists)
           t == Tracked(u)
<1>4. lists \in Seq(S) /\ t \in S /\ n \in 1..Len(lists)
  BY <1>1, <1>3 DEF TypeOK
<1>5. lists' = [lists EXCEPT ![n] = t]
  OBVIOUS
<1> HIDE DEF S, n, t
<1>6. lists' \in Seq(S) /\ Len(lists') = Len(lists)
      /\ (\A k \in 1..Len(lists) : k # n => lists'[k] = lists[k]) /\ lists'[n] = t
  BY <1>4, <1>5
<1>7. lists' # <<>>
  <2>1. Len(lists') = Len(lists) /\ Len(lists) \in Nat \ {0}
    BY <1>6, ListsType
  <2>2. Len(<<>>) = 0
    OBVIOUS
  <2> QED  BY <2>1, <2>2
<1>8. ASSUME NEW k \in 1..Len(lists)
      PROVE  /\ Len(lists'[k]) >= Len(lists[k])
             /\ \A i \in 1..Len(lists[k]) : lists'[k][i] = lists[k][i]
  <2>1. CASE k = n
    <3>1. lists[k] = activeOrders /\ lists'[k] = Tracked(u)
      BY <1>6, <2>1 DEF activeOrders, n, t
    <3>2. Len(activeOrders) \in Nat
      BY <1>1
    <3> QED  BY <1>3, <3>1, <3>2
  <2>2. CASE k # n
    <3>1. Len(lists[k]) \in Nat
      BY ListsType
    <3>2. lists'[k] = lists[k]
      BY <1>6, <2>2
    <3> QED  BY <3>1, <3>2
  <2> QED  BY <2>1, <2>2
<1> QED  BY <1>3, <1>6, <1>7, <1>8 DEF S, n, t

-----------------------------------------------------------------------------
(* Types.                                                                  *)

LEMMA CancelType ==
  ASSUME TypeOK, NEW c \in Call, NEW l \in 1..Len(lists), NEW i \in Nat \ {0},
         CancelFrom(c, l, i), contended' \in BOOLEAN, UNCHANGED <<session, open, failures>>
  PROVE  TypeOK'
<1>1. Len(lists) \in Nat \ {0}
  BY ListsType
<1>2. CASE GoesOn(c, l, i)
  BY <1>2 DEF TypeOK, GoesOn, Running
<1>3. CASE Requotes(c, l, i)
  <2> USE <1>3 DEF Requotes
  <2>1. /\ lists' \in Seq(Seq(Order)) /\ lists' # <<>>
        /\ Len(lists') = Len(lists) + 1
        /\ \A k \in 1..Len(lists) : lists'[k] = lists[k]
    BY ListsReset
  <2>2. list' \in [Call -> 1..Len(lists')]
    BY <1>1, <2>1 DEF TypeOK
  <2>3. /\ pc' \in [Call -> {"idle", "cancel", "place", "done"}]
        /\ next' \in [Call -> Nat \ {0}]
        /\ request' \in [Call -> {"none", "sent", "ok", "failed"}]
        /\ \A s \in Shutdown : pc'[s] # "place"
    BY CallsAssumption DEF TypeOK, Call
  <2>4. ASSUME NEW d \in Call
        PROVE  /\ (request'[d] # "none") = (pc'[d] \in {"cancel", "place"})
               /\ pc'[d] = "cancel" => next'[d] <= Len(lists'[list'[d]])
               /\ pc'[d] = "place" => next'[d] <= Quotes
    <3>1. CASE d = c
      BY <3>1, QuotesAssumption DEF TypeOK
    <3>2. CASE d # c
      BY <2>1, <3>2 DEF TypeOK, Running
    <3> QED  BY <3>1, <3>2
  <2> QED  BY <2>1, <2>2, <2>3, <2>4 DEF TypeOK, Running
<1>4. CASE Quits(c, l, i)
  <2> USE <1>4 DEF Quits
  <2>1. /\ lists' \in Seq(Seq(Order)) /\ lists' # <<>>
        /\ Len(lists') = Len(lists) + 1
        /\ \A k \in 1..Len(lists) : lists'[k] = lists[k]
    BY ListsReset
  <2>2. list' \in [Call -> 1..Len(lists')]
    BY <1>1, <2>1 DEF TypeOK
  <2>3. /\ pc' \in [Call -> {"idle", "cancel", "place", "done"}]
        /\ request' \in [Call -> {"none", "sent", "ok", "failed"}]
        /\ \A s \in Shutdown : pc'[s] # "place"
    BY DEF TypeOK, Call
  <2>4. ASSUME NEW d \in Call
        PROVE  /\ (request'[d] # "none") = (pc'[d] \in {"cancel", "place"})
               /\ pc'[d] = "cancel" => next'[d] <= Len(lists'[list'[d]])
               /\ pc'[d] = "place" => next'[d] <= Quotes
    <3>1. CASE d = c
      BY <3>1 DEF TypeOK
    <3>2. CASE d # c
      BY <2>1, <3>2 DEF TypeOK, Running
    <3> QED  BY <3>1, <3>2
  <2> QED  BY <2>1, <2>2, <2>3, <2>4 DEF TypeOK, Running
<1> QED  BY <1>2, <1>3, <1>4, CancelCases

LEMMA PlacedType ==
  ASSUME TypeOK, NEW u \in Update, Placed(u)
  PROVE  TypeOK'
<1>1. pc[u] = "place" /\ lists' = [lists EXCEPT ![Len(lists)] = Tracked(u)]
  BY DEF Placed
<1>2. /\ lists' \in Seq(Seq(Order)) /\ lists' # <<>>
      /\ Len(lists') = Len(lists)
      /\ \A k \in 1..Len(lists) : Len(lists'[k]) >= Len(lists[k])
  BY <1>1, ListsPush
<1>3. u \in Call /\ next[u] \in Nat /\ next[u] + 1 \in Nat \ {0}
  BY DEF Call, TypeOK
<1>4. /\ next' = [next EXCEPT ![u] = next[u] + 1]
      /\ UNCHANGED <<list, exited, session, open, failures, contended>>
      /\ \/ /\ next[u] + 1 <= Quotes
            /\ pc' = [pc EXCEPT ![u] = "place"]
            /\ request' = [request EXCEPT ![u] = "sent"]
         \/ /\ pc' = [pc EXCEPT ![u] = "done"]
            /\ request' = [request EXCEPT ![u] = "none"]
  BY DEF Placed, PlaceFrom, Quoted
<1>5. \A s \in Shutdown : s # u
  BY CallsAssumption
<1>6. ASSUME NEW d \in Call, pc'[d] = "cancel"
      PROVE  next'[d] <= Len(lists'[list'[d]])
  <2>1. d # u /\ pc[d] = "cancel" /\ next'[d] = next[d] /\ list'[d] = list[d]
    BY <1>1, <1>3, <1>4, <1>6 DEF TypeOK
  <2>2. next[d] <= Len(lists[list[d]]) /\ list[d] \in 1..Len(lists) /\ next[d] \in Nat
    BY <2>1 DEF TypeOK
  <2>3. Len(lists[list[d]]) \in Nat /\ Len(lists'[list[d]]) >= Len(lists[list[d]])
    BY <1>2, <2>2, ListsType
  <2>4. Len(lists'[list[d]]) \in Nat
    <3>1. lists'[list[d]] \in Seq(Order)
      BY <1>2, <2>2
    <3> QED  BY <3>1
  <2> QED  BY <2>1, <2>2, <2>3, <2>4
<1>7. /\ pc' \in [Call -> {"idle", "cancel", "place", "done"}]
      /\ next' \in [Call -> Nat \ {0}]
      /\ request' \in [Call -> {"none", "sent", "ok", "failed"}]
      /\ list' \in [Call -> 1..Len(lists')]
      /\ \A s \in Shutdown : pc'[s] # "place"
  BY <1>2, <1>3, <1>4, <1>5 DEF TypeOK, Call
<1>8. \A d \in Call : /\ (request'[d] # "none") = (pc'[d] \in {"cancel", "place"})
                      /\ pc'[d] = "place" => next'[d] <= Quotes
  BY <1>3, <1>4 DEF TypeOK, Running
<1> QED  BY <1>2, <1>4, <1>6, <1>7, <1>8 DEF TypeOK, Running

\* What a served request leaves open are orders.
LEMMA EffectType ==
  ASSUME TypeOK, NEW c \in Call, request[c] = "sent"
  PROVE  Effect(c) \subseteq Order
<1>1. CASE pc[c] = "place"
  <2>1. c \in Update /\ next[c] \in Nat \ {0} /\ next[c] <= Quotes
    BY <1>1 DEF TypeOK, Call
  <2>2. <<c, next[c]>> \in Order
    BY <2>1, QuotesAssumption DEF Order
  <2> QED  BY <1>1, <2>2 DEF TypeOK, Effect
<1>2. CASE pc[c] # "place"
  BY <1>2 DEF TypeOK, Effect
<1> QED  BY <1>1, <1>2

\* The gateway and the session: everything of the bot but request stays.
LEMMA GatewayType ==
  ASSUME TypeOK, NEW c \in Call, Serve(c) \/ Refuse(c) \/ Fail(c)
  PROVE  TypeOK'
<1>1. /\ UNCHANGED <<bot, session, contended>>
      /\ request[c] = "sent"
      /\ \E a \in {"ok", "failed"} : request' = [request EXCEPT ![c] = a]
  BY DEF Serve, Refuse, Fail
<1>2. open' \subseteq Order
  BY EffectType DEF Serve, Refuse, Fail, TypeOK
<1>3. failures' \in 0..MaxFailures
  BY QuotesAssumption DEF Serve, Refuse, Fail, TypeOK
<1> QED  BY <1>1, <1>2, <1>3 DEF TypeOK, Running, bot

LEMMA NextType == TypeOK /\ [Next]_vars => TypeOK'
<1> SUFFICES ASSUME TypeOK, [Next]_vars PROVE TypeOK'
  OBVIOUS
<1>1. ASSUME NEW c \in Call, Begin(c) PROVE TypeOK'
  <2>1. Len(lists) \in 1..Len(lists) /\ 1 \in Nat \ {0}
    BY ListsType
  <2>2. CancelFrom(c, Len(lists), 1) /\ contended' \in BOOLEAN /\ UNCHANGED <<session, open, failures>>
    BY <1>1 DEF Begin, TypeOK
  <2> QED  BY <2>1, <2>2, CancelType
<1>2. ASSUME NEW c \in Call, Cancelled(c) PROVE TypeOK'
  <2>1. list[c] \in 1..Len(lists) /\ next[c] + 1 \in Nat \ {0}
    BY DEF TypeOK
  <2>2. CancelFrom(c, list[c], next[c] + 1) /\ contended' \in BOOLEAN /\ UNCHANGED <<session, open, failures>>
    BY <1>2 DEF Cancelled, Following, TypeOK
  <2> QED  BY <2>1, <2>2, CancelType
<1>3. CASE SignIn \/ SignInFails \/ Expire
  BY <1>3 DEF SignIn, SignInFails, Expire, TypeOK, bot, Running
<1>4. CASE \E o \in Order : Fill(o)
  BY <1>4 DEF Fill, TypeOK, bot, Running
<1>5. CASE UNCHANGED vars
  BY <1>5 DEF vars, TypeOK, bot, Running
<1> QED
  BY <1>1, <1>2, <1>3, <1>4, <1>5, PlacedType, GatewayType DEF Next, Tick, Signal, Call

LEMMA InitType == Init => TypeOK
<1> SUFFICES ASSUME Init PROVE TypeOK
  OBVIOUS
<1>1. <<>> \in Seq(Order) /\ lists = << <<>> >>
  BY DEF Init
<1>2. lists \in Seq(Seq(Order)) /\ lists # <<>> /\ Len(lists) = 1
  BY <1>1
<1>3. /\ list \in [Call -> 1..Len(lists)]
      /\ next \in [Call -> Nat \ {0}]
      /\ pc = [c \in Call |-> "idle"] /\ request = [c \in Call |-> "none"]
  BY <1>2 DEF Init
<1>4. 0 \in 0..MaxFailures
  BY QuotesAssumption
<1>5. \A s \in Shutdown : pc[s] # "place"
  BY <1>3 DEF Call
<1>6. \A c \in Call : pc[c] = "idle" /\ request[c] = "none"
  BY <1>3
<1>7. /\ pc \in [Call -> {"idle", "cancel", "place", "done"}]
      /\ request \in [Call -> {"none", "sent", "ok", "failed"}]
  BY <1>3
<1>8. \A c \in Call : /\ (request[c] # "none") = Running(c)
                      /\ pc[c] = "cancel" => next[c] <= Len(lists[list[c]])
                      /\ pc[c] = "place" => next[c] <= Quotes
  BY <1>6 DEF Running
<1>9. /\ exited = FALSE /\ session = "nonce" /\ open = {}
      /\ failures = 0 /\ contended = FALSE
  BY DEF Init
<1> QED  BY <1>2, <1>3, <1>4, <1>5, <1>7, <1>8, <1>9 DEF TypeOK

\* Every variable keeps its type: a loop never runs past the end of its array,
\* which other calls push to, and only calls that run await a request.
THEOREM BotTypeCorrect == Spec => []TypeOK
<1> QED  BY InitType, NextType, PTL DEF Spec

-----------------------------------------------------------------------------
(* Orders and requests.                                                    *)

\* A loop of cancelAllOrders starts or goes on.
LEMMA LoopCases ==
  ASSUME TypeOK, NEW c \in Call, Begin(c) \/ Cancelled(c)
  PROVE  \E l \in 1..Len(lists), i \in Nat \ {0} :
           /\ GoesOn(c, l, i) \/ Requotes(c, l, i) \/ Quits(c, l, i)
           /\ ~exited /\ UNCHANGED <<session, open, failures>>
           /\ \/ /\ pc[c] = "idle" /\ l = Len(lists) /\ i = 1
                 /\ contended' = (contended \/ \E d \in Call : Cancels(d))
              \/ /\ Cancels(c) /\ request[c] \in {"ok", "failed"}
                 /\ l = list[c] /\ i = next[c] + 1 /\ contended' = contended
<1>1. CASE Begin(c)
  <2>1. Len(lists) \in 1..Len(lists) /\ 1 \in Nat \ {0}
    BY ListsType
  <2> QED  BY <1>1, <2>1, CancelCases DEF Begin, Cancels
<1>2. CASE Cancelled(c)
  <2>1. list[c] \in 1..Len(lists) /\ next[c] + 1 \in Nat \ {0}
    BY DEF TypeOK
  <2>2. pc[c] = "cancel" /\ request[c] \in {"ok", "failed"}
    BY <1>2 DEF Cancelled, TypeOK, Running
  <2>3. CancelFrom(c, list[c], next[c] + 1)
        /\ ~exited /\ UNCHANGED <<session, open, failures, contended>>
    BY <1>2 DEF Cancelled, Following
  <2> QED  BY <2>1, <2>2, <2>3, CancelCases DEF Cancels
<1> QED  BY <1>1, <1>2

\* Who places or cancels has a request under way, and cancels an order that is
\* there.
LEMMA RunningIs ==
  ASSUME TypeOK, NEW c \in Call
  PROVE  /\ request[c] # "none" <=> pc[c] \in {"cancel", "place"}
         /\ pc[c] = "place" => c \in Update /\ next[c] \in 1..Quotes
         /\ Cancels(c) => /\ list[c] \in 1..Len(lists)
                          /\ next[c] \in 1..Len(lists[list[c]])
                          /\ Target(c) = lists[list[c]][next[c]]
<1>1. request[c] # "none" <=> pc[c] \in {"cancel", "place"}
  BY DEF TypeOK, Running
<1>2. pc[c] = "place" => c \in Update /\ next[c] \in 1..Quotes
  BY QuotesAssumption DEF TypeOK, Call
<1>3. Cancels(c) => /\ list[c] \in 1..Len(lists)
                    /\ next[c] \in 1..Len(lists[list[c]])
                    /\ Target(c) = lists[list[c]][next[c]]
  <2>1. list[c] \in 1..Len(lists) /\ next[c] \in Nat \ {0}
    BY DEF TypeOK
  <2>2. Len(lists[list[c]]) \in Nat
    BY <2>1, ListsType
  <2> QED  BY <2>1, <2>2 DEF TypeOK, Cancels, Target
<1> QED  BY <1>1, <1>2, <1>3

\* Nobody works until the token is issued.
LEMMA UnbornQuiet ==
  ASSUME TypeOK, Unborn, session \in {"nonce", "login"}, NEW c \in Call
  PROVE  pc[c] \notin {"cancel", "place"} /\ request[c] = "none"
<1>1. ~Cancels(c)
  <2>1. \A k \in 1..Len(lists) : Len(lists[k]) = 0
    BY ListsType DEF Unborn
  <2> QED  BY <2>1, RunningIs
<1>2. pc[c] # "place"
  BY RunningIs DEF Unborn
<1> QED  BY <1>1, <1>2, RunningIs DEF Cancels

LEMMA NextUnborn == IInv /\ [Next]_vars => Unborn'
<1> SUFFICES ASSUME IInv, [Next]_vars, session' \in {"nonce", "login"}
             PROVE  /\ open' = {}
                    /\ \A u \in Update : pc'[u] = "idle"
                    /\ \A k \in DOMAIN lists' : lists'[k] = <<>>
  BY DEF Unborn
<1> USE DEF IInv
<1>1. session \in {"nonce", "login"}
  BY DEF Next, vars, bot, Tick, Signal, Begin, Placed, Cancelled, Serve, Refuse, Fail,
         SignIn, SignInFails, Expire, Fill
<1>2. /\ open = {} /\ (\A u \in Update : pc[u] = "idle")
      /\ \A k \in DOMAIN lists : lists[k] = <<>>
  BY <1>1 DEF Unborn
<1>3. \A c \in Call : pc[c] \notin {"cancel", "place"} /\ request[c] = "none"
  BY <1>1, UnbornQuiet
<1>4. ASSUME NEW s \in Shutdown, Signal(s)
      PROVE  /\ open' = {} /\ (\A u \in Update : pc'[u] = "idle")
             /\ \A k \in DOMAIN lists' : lists'[k] = <<>>
  <2>1. s \in Call /\ Begin(s)
    BY <1>4 DEF Call, Signal
  <2>2. PICK l \in 1..Len(lists), i \in Nat \ {0} :
          /\ GoesOn(s, l, i) \/ Requotes(s, l, i) \/ Quits(s, l, i)
          /\ UNCHANGED open
    BY <2>1, LoopCases
  <2>3. Len(lists[l]) = 0
    BY <1>2, ListsType
  <2>4. ~GoesOn(s, l, i)
    BY <2>3 DEF GoesOn
  <2>5. s \notin Update
    BY CallsAssumption
  <2>6. Quits(s, l, i)
    BY <2>2, <2>4, <2>5 DEF Requotes
  <2>7. \A u \in Update : pc'[u] = "idle"
    BY <1>2, <2>5, <2>6 DEF Quits, TypeOK, Call
  <2>8. /\ lists' \in Seq(Seq(Order)) /\ Len(lists') = Len(lists) + 1
        /\ \A k \in 1..Len(lists) : lists'[k] = lists[k]
        /\ lists'[Len(lists')] = <<>>
    BY <2>6, ListsReset DEF Quits
  <2>9. ASSUME NEW k \in DOMAIN lists' PROVE lists'[k] = <<>>
    <3>1. k \in 1..Len(lists) \/ k = Len(lists')
      BY <2>8, ListsType
    <3> QED  BY <1>2, <2>8, <3>1, ListsType
  <2> QED  BY <1>2, <2>2, <2>7, <2>9
<1>5. CASE SignIn \/ SignInFails \/ UNCHANGED vars
  BY <1>2, <1>5 DEF SignIn, SignInFails, vars, bot
<1>6. ~Expire /\ \A o \in Order : ~Fill(o)
  BY <1>1, <1>2 DEF Expire, Fill
<1>7. \A u \in Update : ~Tick(u) /\ ~Placed(u)
  BY <1>1, <1>2 DEF Tick, Placed
<1>8. \A c \in Call : ~Cancelled(c) /\ ~Serve(c) /\ ~Refuse(c) /\ ~Fail(c)
  BY <1>3 DEF Cancelled, Serve, Refuse, Fail
<1> QED  BY <1>4, <1>5, <1>6, <1>7, <1>8 DEF Next

LEMMA ListedOrder ==
  ASSUME TypeOK, NEW k \in 1..Len(lists), NEW i \in DOMAIN lists[k]
  PROVE  /\ lists[k][i] \in Order /\ lists[k][i][1] \in Call
         /\ lists[k][i][1] \in Update /\ lists[k][i][2] \in Nat
<1>1. lists[k] \in Seq(Order)
  BY ListsType
<1>2. lists[k][i] \in Order
  BY <1>1
<1> QED  BY <1>2, QuotesAssumption DEF Order, Call

\* What a listed order says of its update.
Settled(o) == pc[o[1]] \in {"place", "done"} /\ (pc[o[1]] = "place" => o[2] < next[o[1]])

LEMMA ListedIs ==
  /\ Listed <=> \A k \in DOMAIN lists : \A i \in DOMAIN lists[k] : Settled(lists[k][i])
  /\ Listed' <=> \A k \in DOMAIN lists' : \A i \in DOMAIN lists'[k] :
                   pc'[lists'[k][i][1]] \in {"place", "done"}
                   /\ (pc'[lists'[k][i][1]] = "place" => lists'[k][i][2] < next'[lists'[k][i][1]])
BY DEF Listed, Settled

LEMMA NextListed == IInv /\ [Next]_vars => Listed'
<1> SUFFICES ASSUME IInv, [Next]_vars PROVE Listed'
  OBVIOUS
<1> USE DEF IInv
<1>0. TypeOK /\ TypeOK'
  BY NextType
<1>1. ASSUME NEW c \in Call, Begin(c) \/ Cancelled(c) PROVE Listed'
  <2>1. PICK l \in 1..Len(lists), i \in Nat \ {0} :
          /\ GoesOn(c, l, i) \/ Requotes(c, l, i) \/ Quits(c, l, i)
          /\ pc[c] = "idle" \/ Cancels(c)
    BY <1>1, LoopCases
  <2>2. \A d \in Call : d # c => pc'[d] = pc[d] /\ next'[d] = next[d]
    <3>1. pc \in [Call -> {"idle", "cancel", "place", "done"}] /\ next \in [Call -> Nat \ {0}]
      BY DEF TypeOK
    <3>2. /\ \E v : pc' = [pc EXCEPT ![c] = v]
          /\ next' = next \/ \E v : next' = [next EXCEPT ![c] = v]
      BY <2>1 DEF GoesOn, Requotes, Quits
    <3> QED  BY <3>1, <3>2
  <2>3. \A k \in 1..Len(lists') :
          \/ k \in 1..Len(lists) /\ lists'[k] = lists[k]
          \/ lists'[k] = <<>>
    <3>1. CASE GoesOn(c, l, i)
      BY <3>1 DEF GoesOn
    <3>2. CASE lists' = Append(lists, <<>>)
      <4>1. /\ Len(lists') = Len(lists) + 1
            /\ \A k \in 1..Len(lists) : lists'[k] = lists[k]
            /\ lists'[Len(lists')] = <<>>
        BY <3>2, ListsReset
      <4>2. \A k \in 1..Len(lists') : k \in 1..Len(lists) \/ k = Len(lists')
        BY <4>1, ListsType
      <4> QED  BY <4>1, <4>2
    <3> QED  BY <2>1, <3>1, <3>2 DEF Requotes, Quits
  <2>4. ASSUME NEW k \in DOMAIN lists', NEW j \in DOMAIN lists'[k]
        PROVE  /\ pc'[lists'[k][j][1]] \in {"place", "done"}
               /\ pc'[lists'[k][j][1]] = "place" => lists'[k][j][2] < next'[lists'[k][j][1]]
    <3>1. DOMAIN lists' = 1..Len(lists') /\ DOMAIN <<>> = {}
      BY <1>0 DEF TypeOK
    <3>2. k \in 1..Len(lists) /\ lists'[k] = lists[k]
      BY <2>3, <3>1
    <3>3. Settled(lists[k][j])
      BY <3>2, ListsType, ListedIs
    <3>4. lists[k][j][1] # c
      BY <2>1, <3>3 DEF Settled, Cancels
    <3>5. lists[k][j][1] \in Call
      BY <3>2, ListedOrder
    <3> QED  BY <2>2, <3>2, <3>3, <3>4, <3>5 DEF Settled
  <2> QED  BY <2>4, ListedIs
<1>2. ASSUME NEW u \in Update, Placed(u) PROVE Listed'
  <2>1. pc[u] = "place" /\ lists' = [lists EXCEPT ![Len(lists)] = Tracked(u)]
    BY <1>2 DEF Placed
  <2>2. /\ Len(lists') = Len(lists)
        /\ \A k \in 1..Len(lists) : k # Len(lists) => lists'[k] = lists[k]
        /\ lists'[Len(lists)] = Tracked(u)
        /\ Tracked(u) \in Seq(Order)
        /\ request[u] # "ok" => Tracked(u) = activeOrders
        /\ request[u] = "ok" =>
             /\ Len(Tracked(u)) = Len(activeOrders) + 1
             /\ \A i \in 1..Len(activeOrders) : Tracked(u)[i] = activeOrders[i]
             /\ Tracked(u)[Len(activeOrders) + 1] = <<u, next[u]>>
    BY <2>1, ListsPush
  <2>3. /\ \A d \in Call : d # u => pc'[d] = pc[d] /\ next'[d] = next[d]
        /\ next'[u] = next[u] + 1 /\ pc'[u] \in {"place", "done"}
        /\ next[u] \in Nat
    <3>1. u \in Call /\ pc \in [Call -> {"idle", "cancel", "place", "done"}]
          /\ next \in [Call -> Nat \ {0}]
      BY DEF TypeOK, Call
    <3>2. /\ \E v \in {"place", "done"} : pc' = [pc EXCEPT ![u] = v]
          /\ next' = [next EXCEPT ![u] = next[u] + 1]
      BY <1>2 DEF Placed, PlaceFrom
    <3> QED  BY <3>1, <3>2
  <2>4. \A k \in 1..Len(lists') : \A j \in DOMAIN lists'[k] :
          \/ lists'[k][j] = <<u, next[u]>>
          \/ k \in 1..Len(lists) /\ j \in DOMAIN lists[k] /\ lists'[k][j] = lists[k][j]
    <3>1. ASSUME NEW j \in DOMAIN Tracked(u)
          PROVE  \/ Tracked(u)[j] = <<u, next[u]>>
                 \/ j \in DOMAIN activeOrders /\ Tracked(u)[j] = activeOrders[j]
      <4>1. /\ Len(lists) \in 1..Len(lists) /\ DOMAIN activeOrders = 1..Len(activeOrders)
            /\ Len(activeOrders) \in Nat
        BY ListsType DEF activeOrders
      <4>2. DOMAIN Tracked(u) = 1..Len(Tracked(u))
        BY <2>2
      <4>3. CASE request[u] = "ok"
        <5>1. j \in 1..Len(activeOrders) \/ j = Len(activeOrders) + 1
          BY <2>2, <4>1, <4>2, <4>3
        <5>2. /\ \A i \in 1..Len(activeOrders) : Tracked(u)[i] = activeOrders[i]
              /\ Tracked(u)[Len(activeOrders) + 1] = <<u, next[u]>>
          BY <2>2, <4>3
        <5>3. CASE j \in 1..Len(activeOrders)
          BY <4>1, <5>2, <5>3
        <5>4. CASE j = Len(activeOrders) + 1
          BY <5>2, <5>4
        <5> QED  BY <5>1, <5>3, <5>4
      <4>4. CASE request[u] # "ok"
        <5>1. Tracked(u) = activeOrders
          BY <2>2, <4>4
        <5> QED  BY <5>1
      <4> QED  BY <4>3, <4>4
    <3>2. Len(lists) \in 1..Len(lists) /\ activeOrders = lists[Len(lists)]
      BY ListsType DEF activeOrders
    <3> QED  BY <2>2, <3>1, <3>2
  <2>5. ASSUME NEW k \in DOMAIN lists', NEW j \in DOMAIN lists'[k]
        PROVE  /\ pc'[lists'[k][j][1]] \in {"place", "done"}
               /\ pc'[lists'[k][j][1]] = "place" => lists'[k][j][2] < next'[lists'[k][j][1]]
    <3>1. k \in 1..Len(lists')
      BY <1>0 DEF TypeOK
    <3>2. CASE lists'[k][j] = <<u, next[u]>>
      BY <2>3, <3>2
    <3>3. CASE k \in 1..Len(lists) /\ j \in DOMAIN lists[k] /\ lists'[k][j] = lists[k][j]
      <4> DEFINE o == lists[k][j]
      <4>1. Settled(o) /\ o \in Order
        <5>1. lists[k] \in Seq(Order) /\ k \in DOMAIN lists
          BY <3>3, ListsType
        <5> QED  BY <3>3, <5>1, ListedIs
      <4>2. o[2] \in Nat /\ o[1] \in Call
        BY <3>3, ListedOrder
      <4>3. lists'[k][j] = o
        BY <3>3
      <4> HIDE DEF o
      <4>4. CASE o[1] = u
        BY <2>1, <2>3, <4>1, <4>2, <4>3, <4>4 DEF Settled
      <4>5. CASE o[1] # u
        BY <2>3, <4>1, <4>2, <4>3, <4>5 DEF Settled
      <4> QED  BY <4>4, <4>5
    <3> QED  BY <2>4, <3>1, <3>2, <3>3
  <2> QED  BY <2>5, ListedIs
<1>3. CASE UNCHANGED <<lists, pc, next>>
  BY <1>3, ListedIs DEF Settled
<1>4. ASSUME NEW c \in Call, Serve(c) \/ Refuse(c) \/ Fail(c) PROVE Listed'
  BY <1>3, <1>4 DEF Serve, Refuse, Fail, bot
<1>5. CASE SignIn \/ SignInFails \/ Expire \/ UNCHANGED vars \/ \E o \in Order : Fill(o)
  BY <1>3, <1>5 DEF SignIn, SignInFails, Expire, Fill, vars, bot
<1> QED
  BY <1>1, <1>2, <1>4, <1>5 DEF Next, Tick, Signal, Call

\* A step of a loop touches no request but its own, and no order in a list.
LEMMA LoopKeeps ==
  ASSUME TypeOK, NEW c \in Call, NEW l \in 1..Len(lists), NEW i \in Nat \ {0},
         GoesOn(c, l, i) \/ Requotes(c, l, i) \/ Quits(c, l, i)
  PROVE  /\ request'[c] \in {"sent", "none"}
         /\ \A d \in Call : d # c =>
              /\ request'[d] = request[d] /\ pc'[d] = pc[d]
              /\ next'[d] = next[d] /\ list'[d] = list[d]
         /\ \A k \in 1..Len(lists) : lists'[k] = lists[k]
<1>1. /\ \E v : pc' = [pc EXCEPT ![c] = v]
      /\ list' = [list EXCEPT ![c] = l]
      /\ \E v \in {"sent", "none"} : request' = [request EXCEPT ![c] = v]
      /\ next' = next \/ \E v : next' = [next EXCEPT ![c] = v]
  BY DEF GoesOn, Requotes, Quits
<1>2. /\ request'[c] \in {"sent", "none"}
      /\ \A d \in Call : d # c =>
           /\ request'[d] = request[d] /\ pc'[d] = pc[d]
           /\ next'[d] = next[d] /\ list'[d] = list[d]
  BY <1>1 DEF TypeOK
<1>3. \A k \in 1..Len(lists) : lists'[k] = lists[k]
  <2>1. CASE GoesOn(c, l, i)
    BY <2>1 DEF GoesOn
  <2>2. CASE lists' = Append(lists, <<>>)
    BY <2>2, ListsReset
  <2> QED  BY <2>1, <2>2 DEF Requotes, Quits
<1> QED  BY <1>2, <1>3

\* Nor does an answer to a POST.
LEMMA PlacedKeeps ==
  ASSUME TypeOK, NEW u \in Update, Placed(u)
  PROVE  /\ pc[u] = "place" /\ request[u] \in {"ok", "failed"}
         /\ pc'[u] \in {"place", "done"} /\ request'[u] \in {"sent", "none"}
         /\ UNCHANGED <<list, exited, session, open, failures, contended>>
         /\ \A d \in Call : d # u =>
              request'[d] = request[d] /\ pc'[d] = pc[d] /\ next'[d] = next[d]
         /\ Len(lists') = Len(lists)
         /\ \A k \in 1..Len(lists) :
              /\ Len(lists'[k]) >= Len(lists[k])
              /\ \A i \in 1..Len(lists[k]) : lists'[k][i] = lists[k][i]
         /\ lists'[Len(lists)] = Tracked(u)
<1>1. u \in Call
  BY DEF Call
<1>2. /\ pc[u] = "place" /\ lists' = [lists EXCEPT ![Len(lists)] = Tracked(u)]
      /\ request[u] # "sent"
      /\ UNCHANGED <<list, exited, session, open, failures, contended>>
      /\ \E v \in {"place", "done"} : pc' = [pc EXCEPT ![u] = v]
      /\ \E v \in {"sent", "none"} : request' = [request EXCEPT ![u] = v]
      /\ next' = [next EXCEPT ![u] = next[u] + 1]
  BY DEF Placed, PlaceFrom
<1>3. request[u] \in {"ok", "failed"}
  BY <1>1, <1>2 DEF TypeOK, Running
<1>4. /\ pc'[u] \in {"place", "done"} /\ request'[u] \in {"sent", "none"}
      /\ \A d \in Call : d # u =>
           request'[d] = request[d] /\ pc'[d] = pc[d] /\ next'[d] = next[d]
  BY <1>1, <1>2 DEF TypeOK
<1>5. /\ Len(lists') = Len(lists)
      /\ \A k \in 1..Len(lists) :
           /\ Len(lists'[k]) >= Len(lists[k])
           /\ \A i \in 1..Len(lists[k]) : lists'[k][i] = lists[k][i]
      /\ lists'[Len(lists)] = Tracked(u)
  BY <1>2, ListsPush
<1> QED  BY <1>2, <1>3, <1>4, <1>5

\* The target of a running request stays the same until its loop goes on.
LEMMA TargetStays ==
  ASSUME TypeOK, NEW d \in Call, request[d] # "none",
         pc'[d] = pc[d], next'[d] = next[d], list'[d] = list[d],
         \A k \in 1..Len(lists) : \A i \in 1..Len(lists[k]) : lists'[k][i] = lists[k][i]
  PROVE  Target(d)' = Target(d)
<1>1. pc[d] = "place" \/ Cancels(d)
  BY RunningIs DEF Cancels
<1>2. CASE pc[d] = "place"
  BY <1>2 DEF Target
<1>3. CASE Cancels(d)
  <2>1. list[d] \in 1..Len(lists) /\ next[d] \in 1..Len(lists[list[d]])
    BY <1>3, RunningIs
  <2> QED  BY <1>3, <2>1 DEF Target, Cancels
<1> QED  BY <1>1, <1>2, <1>3

\* The gateway answers one request.
LEMMA AnswerKeeps ==
  ASSUME TypeOK, NEW c \in Call, Serve(c) \/ Refuse(c) \/ Fail(c)
  PROVE  /\ request[c] = "sent" /\ UNCHANGED <<bot, session, contended>>
         /\ \A d \in Call : d # c => request'[d] = request[d]
         /\ request'[c] = IF Serve(c) THEN "ok" ELSE "failed"
         /\ \A d \in Call : Target(d)' = Target(d)
<1>1. /\ request[c] = "sent" /\ UNCHANGED <<bot, session, contended>>
      /\ request' = [request EXCEPT ![c] = IF Serve(c) THEN "ok" ELSE "failed"]
  BY DEF Serve, Refuse, Fail
<1>2. \A d \in Call : Target(d)' = Target(d)
  BY <1>1 DEF Target, bot
<1> QED  BY <1>1, <1>2 DEF TypeOK

\* An order that a loop cancels is being placed by nobody.
LEMMA TargetNotPlaced ==
  ASSUME TypeOK, Listed, NEW c \in Call, Cancels(c), NEW u \in Update, pc[u] = "place"
  PROVE  Target(c) # <<u, next[u]>>
<1>1. /\ list[c] \in 1..Len(lists) /\ next[c] \in DOMAIN lists[list[c]]
      /\ Target(c) = lists[list[c]][next[c]]
  BY RunningIs, ListsType
<1>2. Settled(Target(c)) /\ Target(c)[2] \in Nat
  BY <1>1, ListsType, ListedIs, ListedOrder
<1> QED  BY <1>2 DEF Settled

LEMMA NextClosed == IInv /\ [Next]_vars => Closed'
<1> SUFFICES ASSUME IInv, [Next]_vars,
                    NEW d \in Call, pc'[d] = "cancel", request'[d] = "ok"
             PROVE  Target(d)' \notin open'
  BY DEF Closed, Cancels
<1> USE DEF IInv
<1>1. ASSUME Cancels(d), request[d] = "ok", Target(d)' = Target(d), open' \subseteq open
      PROVE  Target(d)' \notin open'
  BY <1>1 DEF Closed
<1>2. ASSUME NEW c \in Call, Begin(c) \/ Cancelled(c) PROVE Target(d)' \notin open'
  <2>1. PICK l \in 1..Len(lists), i \in Nat \ {0} :
          /\ GoesOn(c, l, i) \/ Requotes(c, l, i) \/ Quits(c, l, i)
          /\ open' = open
    BY <1>2, LoopCases
  <2>2. /\ request'[c] \in {"sent", "none"}
        /\ d # c => /\ request'[d] = request[d] /\ pc'[d] = pc[d]
                    /\ next'[d] = next[d] /\ list'[d] = list[d]
        /\ \A k \in 1..Len(lists) : lists'[k] = lists[k]
    BY <2>1, LoopKeeps
  <2>3. d # c
    BY <2>2
  <2>4. Target(d)' = Target(d)
    BY <2>2, <2>3, TargetStays
  <2> QED  BY <1>1, <2>1, <2>2, <2>3, <2>4 DEF Cancels
<1>3. ASSUME NEW u \in Update, Placed(u) PROVE Target(d)' \notin open'
  <2>1. d # u
    BY <1>3, PlacedKeeps
  <2>2. /\ request'[d] = request[d] /\ pc'[d] = pc[d] /\ next'[d] = next[d]
        /\ list'[d] = list[d] /\ open' = open
    BY <1>3, <2>1, PlacedKeeps
  <2>3. Target(d)' = Target(d)
    BY <1>3, <2>2, PlacedKeeps, TargetStays
  <2> QED  BY <1>1, <2>2, <2>3 DEF Cancels
<1>4. ASSUME NEW c \in Call, Serve(c) \/ Refuse(c) \/ Fail(c)
      PROVE  Target(d)' \notin open'
  <2>1. /\ pc' = pc /\ Target(d)' = Target(d) /\ Cancels(d)
        /\ d # c => request[d] = "ok"
        /\ d = c => Serve(c)
    BY <1>4, AnswerKeeps DEF bot, Cancels
  <2>2. CASE d = c
    BY <2>1, <2>2 DEF Serve, Effect, Target, Cancels
  <2>3. CASE d # c
    <3>1. Target(d) \notin open
      BY <2>1, <2>3 DEF Closed
    <3>2. CASE pc[c] = "place"
      <4>1. c \in Update
        BY <3>2, RunningIs
      <4>2. Target(d) # <<c, next[c]>>
        BY <2>1, <3>2, <4>1, TargetNotPlaced
      <4>3. open' \subseteq open \cup {<<c, next[c]>>}
        BY <1>4, <3>2 DEF Serve, Refuse, Fail, Effect
      <4> QED  BY <2>1, <3>1, <4>2, <4>3
    <3>3. CASE pc[c] # "place"
      <4>1. open' \subseteq open
        BY <1>4, <3>3 DEF Serve, Refuse, Fail, Effect
      <4> QED  BY <2>1, <3>1, <4>1
    <3> QED  BY <3>2, <3>3
  <2> QED  BY <2>2, <2>3
<1>5. CASE SignIn \/ SignInFails \/ Expire \/ UNCHANGED vars \/ \E o \in Order : Fill(o)
  <2>1. UNCHANGED <<lists, pc, list, next, request>> /\ open' \subseteq open
    BY <1>5 DEF SignIn, SignInFails, Expire, Fill, vars, bot
  <2> QED  BY <1>1, <2>1 DEF Target, Cancels
<1> QED
  BY <1>2, <1>3, <1>4, <1>5 DEF Next, Tick, Signal, Call

-----------------------------------------------------------------------------
(* One cancelAllOrders at a time.                                          *)

LEMMA NextAlone == IInv /\ [Next]_vars => Alone'
<1> SUFFICES ASSUME IInv, [Next]_vars, ~contended',
                    NEW d \in Call, pc'[d] = "cancel"
             PROVE  /\ list'[d] = Len(lists')
                    /\ \A e \in Call : pc'[e] = "cancel" => e = d
  BY DEF Alone, Cancels
<1> USE DEF IInv
<1>1. ASSUME ~contended, Cancels(d), list'[d] = list[d], Len(lists') = Len(lists),
             \A e \in Call : pc'[e] = "cancel" => Cancels(e)
      PROVE  /\ list'[d] = Len(lists')
             /\ \A e \in Call : pc'[e] = "cancel" => e = d
  BY <1>1 DEF Alone
<1>2. ASSUME NEW c \in Call, Begin(c) \/ Cancelled(c)
      PROVE  /\ list'[d] = Len(lists')
             /\ \A e \in Call : pc'[e] = "cancel" => e = d
  <2>1. PICK l \in 1..Len(lists), i \in Nat \ {0} :
          /\ GoesOn(c, l, i) \/ Requotes(c, l, i) \/ Quits(c, l, i)
          /\ \/ /\ pc[c] = "idle" /\ l = Len(lists)
                /\ contended' = (contended \/ \E e \in Call : Cancels(e))
             \/ Cancels(c) /\ l = list[c] /\ contended' = contended
    BY <1>2, LoopCases
  <2>2. \A e \in Call : e # c => ~Cancels(e) /\ pc'[e] = pc[e]
    <3>1. CASE contended' = (contended \/ \E e \in Call : Cancels(e))
      <4>1. \A e \in Call : ~Cancels(e)
        BY <3>1
      <4> QED  BY <2>1, <4>1, LoopKeeps
    <3>2. CASE Cancels(c) /\ contended' = contended
      <4>1. \A e \in Call : e # c => ~Cancels(e)
        BY <3>2 DEF Alone
      <4> QED  BY <2>1, <4>1, LoopKeeps
    <3> QED  BY <2>1, <3>1, <3>2
  <2>3. d = c /\ \A e \in Call : pc'[e] = "cancel" => e = c
    BY <2>2 DEF Cancels
  <2>4. GoesOn(c, l, i)
    <3>1. pc \in [Call -> {"idle", "cancel", "place", "done"}]
      BY DEF TypeOK
    <3> QED  BY <2>1, <2>3, <3>1 DEF Requotes, Quits
  <2>5. l = Len(lists)
    BY <2>1 DEF Alone
  <2>6. list'[c] = l /\ lists' = lists
    BY <2>4 DEF GoesOn, TypeOK
  <2> QED  BY <2>3, <2>5, <2>6
<1>3. ASSUME NEW u \in Update, Placed(u)
      PROVE  /\ list'[d] = Len(lists')
             /\ \A e \in Call : pc'[e] = "cancel" => e = d
  <2>1. \A e \in Call : pc'[e] = "cancel" => Cancels(e)
    BY <1>3, PlacedKeeps DEF Cancels
  <2> QED  BY <1>1, <1>3, <2>1, PlacedKeeps
<1>4. CASE UNCHANGED <<lists, pc, list, contended>>
  BY <1>1, <1>4 DEF Cancels
<1>5. CASE \E c \in Call : Serve(c) \/ Refuse(c) \/ Fail(c)
  BY <1>4, <1>5 DEF Serve, Refuse, Fail, bot
<1>6. CASE SignIn \/ SignInFails \/ Expire \/ UNCHANGED vars \/ \E o \in Order : Fill(o)
  BY <1>4, <1>6 DEF SignIn, SignInFails, Expire, Fill, vars, bot
<1> QED
  BY <1>2, <1>3, <1>5, <1>6 DEF Next, Tick, Signal, Call

\* The bot exits when shutdown has emptied activeOrders, or before it had any.
LEMMA NextLeft == IInv /\ [Next]_vars => Left'
<1> SUFFICES ASSUME IInv, [Next]_vars, ~contended', exited'
             PROVE  lists'[Len(lists')] = <<>> /\ \A d \in Call : pc'[d] # "cancel"
  BY DEF Left, Cancels, activeOrders
<1> USE DEF IInv
<1>1. CASE UNCHANGED <<lists, pc, contended, exited>>
  BY <1>1 DEF Left, Cancels, activeOrders
<1>2. ASSUME NEW c \in Call, Begin(c) \/ Cancelled(c)
      PROVE  lists'[Len(lists')] = <<>> /\ \A d \in Call : pc'[d] # "cancel"
  <2>1. PICK l \in 1..Len(lists), i \in Nat \ {0} :
          /\ GoesOn(c, l, i) \/ Requotes(c, l, i) \/ Quits(c, l, i)
          /\ ~exited
          /\ \/ /\ pc[c] = "idle"
                /\ contended' = (contended \/ \E e \in Call : Cancels(e))
             \/ Cancels(c) /\ contended' = contended
    BY <1>2, LoopCases
  <2>2. \A e \in Call : e # c => ~Cancels(e) /\ pc'[e] = pc[e]
    <3>1. CASE contended' = (contended \/ \E e \in Call : Cancels(e))
      <4>1. \A e \in Call : ~Cancels(e)
        BY <3>1
      <4> QED  BY <2>1, <4>1, LoopKeeps
    <3>2. CASE Cancels(c) /\ contended' = contended
      <4>1. \A e \in Call : e # c => ~Cancels(e)
        BY <3>2 DEF Alone
      <4> QED  BY <2>1, <4>1, LoopKeeps
    <3> QED  BY <2>1, <3>1, <3>2
  <2>3. Quits(c, l, i)
    BY <2>1 DEF GoesOn, Requotes
  <2>4. pc'[c] = "done"
    BY <2>3 DEF Quits, TypeOK
  <2> QED  BY <2>2, <2>3, <2>4, ListsReset DEF Quits, Cancels
<1>3. CASE SignInFails
  <2>1. session \in {"nonce", "login"} /\ UNCHANGED <<lists, pc>>
    BY <1>3 DEF SignInFails
  <2>2. \A d \in Call : pc[d] # "cancel"
    BY <2>1, UnbornQuiet
  <2>3. lists[Len(lists)] = <<>>
    BY <2>1, ListsType DEF Unborn
  <2> QED  BY <2>1, <2>2, <2>3
<1>4. CASE \E c \in Call : Serve(c) \/ Refuse(c) \/ Fail(c)
  BY <1>1, <1>4 DEF Serve, Refuse, Fail, bot
<1>5. CASE SignIn \/ Expire \/ UNCHANGED vars \/ \E o \in Order : Fill(o)
  BY <1>1, <1>5 DEF SignIn, Expire, Fill, vars, bot
<1>6. \A u \in Update : ~Placed(u)
  BY DEF Placed
<1> QED
  BY <1>2, <1>3, <1>4, <1>5, <1>6 DEF Next, Tick, Signal, Call

-----------------------------------------------------------------------------
(* Losses.                                                                 *)

\* No cancelAllOrders that runs has passed place i of activeOrders.
Ahead(i) == \A c \in Call : Cancels(c) => i >= next[c]

LEMMA KeptIs ==
  ASSUME NEW o
  PROVE  /\ o \in Kept <=>
              \/ \E i \in DOMAIN activeOrders : o = activeOrders[i] /\ Ahead(i)
              \/ \E u \in Update : pc[u] = "place" /\ o = <<u, next[u]>>
         /\ o \in Kept' <=>
              \/ \E i \in DOMAIN activeOrders' : o = activeOrders'[i] /\ Ahead(i)'
              \/ \E u \in Update : pc'[u] = "place" /\ o = <<u, next'[u]>>
<1>1. /\ o \in Placing <=> \E u \in Update : pc[u] = "place" /\ o = <<u, next[u]>>
      /\ o \in Placing' <=> \E u \in Update : pc'[u] = "place" /\ o = <<u, next'[u]>>
  BY DEF Placing
<1> QED  BY <1>1 DEF Kept, Ahead

LEMMA LostIs ==
  ASSUME NEW o
  PROVE  /\ o \in Lost <=>
              \/ o \in open /\ o \notin Kept
              \/ \E c \in Call : request[c] = "failed" /\ o = Target(c)
         /\ o \in Lost' <=>
              \/ o \in open' /\ o \notin Kept'
              \/ \E c \in Call : request'[c] = "failed" /\ o = Target(c)'
BY DEF Lost, Doomed

\* The set of losses shrinks, or grows by one as failures does.
LEMMA CountedKept ==
  ASSUME TypeOK, Counted, ~contended, session # "expired",
         Lost' \subseteq Lost, failures' = failures
  PROVE  Counted'
BY FS_Subset, FS_CardinalityType DEF Counted, TypeOK

LEMMA CountedOneMore ==
  ASSUME TypeOK, Counted, ~contended, session # "expired",
         NEW o, Lost' \subseteq Lost \cup {o}, failures' = failures + 1
  PROVE  Counted'
<1> DEFINE S == Lost \cup {o}
<1>1. IsFiniteSet(Lost) /\ Cardinality(Lost) <= failures /\ failures \in Nat
  BY QuotesAssumption DEF Counted, TypeOK
<1>2. Cardinality(Lost) \in Nat
  BY <1>1, FS_CardinalityType
<1>3. IsFiniteSet(S) /\ Cardinality(S) <= Cardinality(Lost) + 1
  BY <1>1, <1>2, FS_AddElement
<1>4. Cardinality(S) \in Nat
  BY <1>3, FS_CardinalityType
<1> HIDE DEF S
<1>5. Lost' \in SUBSET S
  BY DEF S
<1>6. IsFiniteSet(Lost') /\ Cardinality(Lost') <= Cardinality(S)
  BY <1>3, <1>5, FS_Subset
<1>7. Cardinality(Lost') \in Nat
  BY <1>6, FS_CardinalityType
<1> QED  BY <1>1, <1>2, <1>3, <1>4, <1>6, <1>7 DEF Counted

\* A loop passes an order that its DELETE closed, or whose DELETE failed.
LEMMA LoopCounted ==
  ASSUME IInv, NEW c \in Call, Begin(c) \/ Cancelled(c), ~contended', session # "expired"
  PROVE  Counted'
<1> USE DEF IInv
<1>1. PICK l \in 1..Len(lists), i \in Nat \ {0} :
        /\ GoesOn(c, l, i) \/ Requotes(c, l, i) \/ Quits(c, l, i)
        /\ UNCHANGED <<session, open, failures>>
        /\ \/ /\ pc[c] = "idle" /\ l = Len(lists) /\ i = 1
              /\ contended' = (contended \/ \E d \in Call : Cancels(d))
           \/ /\ Cancels(c) /\ request[c] \in {"ok", "failed"}
              /\ l = list[c] /\ i = next[c] + 1 /\ contended' = contended
  BY LoopCases
<1>2. ~contended
  BY <1>1 DEF TypeOK
<1>3. /\ request'[c] \in {"sent", "none"}
      /\ \A d \in Call : d # c =>
           /\ request'[d] = request[d] /\ pc'[d] = pc[d]
           /\ next'[d] = next[d] /\ list'[d] = list[d]
      /\ \A k \in 1..Len(lists) : lists'[k] = lists[k]
  BY <1>1, LoopKeeps
<1>4. \A d \in Call : d # c => ~Cancels(d)
  <2>1. CASE contended' = (contended \/ \E d \in Call : Cancels(d))
    BY <2>1
  <2>2. CASE Cancels(c)
    BY <1>2, <2>2 DEF Alone
  <2> QED  BY <1>1, <2>1, <2>2
<1>5. l = Len(lists)
  BY <1>1, <1>2 DEF Alone
<1>6. /\ activeOrders = lists[Len(lists)] /\ DOMAIN activeOrders = 1..Len(activeOrders)
      /\ Len(activeOrders) \in Nat
  BY ListsType DEF activeOrders
\* Places from i on, and what is being placed, stay kept.
<1>7. ASSUME NEW j \in 1..Len(activeOrders), j >= i
      PROVE  activeOrders[j] \in Kept'
  <2>1. GoesOn(c, l, i)
    BY <1>1, <1>5, <1>6, <1>7 DEF Requotes, Quits
  <2>2. lists' = lists /\ next'[c] = i
    BY <2>1 DEF GoesOn, TypeOK
  <2>3. Ahead(j)'
    BY <1>3, <1>4, <1>7, <2>2 DEF Ahead, Cancels
  <2>4. activeOrders' = activeOrders
    BY <2>2 DEF activeOrders
  <2>5. j \in DOMAIN activeOrders' /\ activeOrders[j] = activeOrders'[j]
    BY <1>6, <2>4
  <2> QED  BY <2>3, <2>5, KeptIs
<1>8. ASSUME NEW u \in Update, pc[u] = "place"
      PROVE  <<u, next[u]>> \in Kept'
  <2>1. u \in Call /\ u # c
    BY <1>1, <1>8 DEF Call, Cancels
  <2>2. pc'[u] = "place" /\ next'[u] = next[u]
    BY <1>3, <1>8, <2>1
  <2> QED  BY <2>2, KeptIs
<1>9. ASSUME NEW o \in open, o \notin Kept', o \in Kept
      PROVE  o \in Lost
  <2>1. PICK j \in 1..Len(activeOrders) : o = activeOrders[j] /\ Ahead(j)
    BY <1>6, <1>8, <1>9, KeptIs
  <2>2. ~(j >= i)
    BY <1>7, <1>9, <2>1
  <2>3. Cancels(c) /\ request[c] \in {"ok", "failed"} /\ l = list[c] /\ i = next[c] + 1
    BY <1>1, <2>2
  <2>4. j >= next[c] /\ next[c] \in Nat
    BY <2>1, <2>3 DEF Ahead, TypeOK
  <2>5. j = next[c]
    BY <2>2, <2>3, <2>4
  <2>6. Target(c) = o
    BY <1>5, <1>6, <2>1, <2>3, <2>5, RunningIs
  <2>7. request[c] # "ok"
    BY <2>3, <2>6 DEF Closed
  <2>8. request[c] = "failed"
    BY <2>3, <2>7
  <2> QED  BY <2>6, <2>8, LostIs
<1>10. ASSUME NEW d \in Call, request'[d] = "failed"
       PROVE  Target(d)' \in Lost
  <2>1. d # c /\ request[d] = "failed"
    BY <1>3, <1>10
  <2>2. Target(d)' = Target(d)
    BY <1>3, <2>1, TargetStays
  <2> QED  BY <2>1, <2>2, LostIs
<1>11. Lost' \subseteq Lost
  BY <1>1, <1>9, <1>10, LostIs
<1> QED  BY <1>1, <1>2, <1>11, CountedKept

\* An answer is pushed, or it was a failure.
LEMMA PlacedCounted ==
  ASSUME IInv, NEW u \in Update, Placed(u), ~contended', session # "expired"
  PROVE  Counted'
<1> USE DEF IInv
<1>1. /\ pc[u] = "place" /\ request[u] \in {"ok", "failed"}
      /\ pc'[u] \in {"place", "done"} /\ request'[u] \in {"sent", "none"}
      /\ UNCHANGED <<list, exited, session, open, failures, contended>>
      /\ \A d \in Call : d # u =>
           request'[d] = request[d] /\ pc'[d] = pc[d] /\ next'[d] = next[d]
      /\ Len(lists') = Len(lists)
      /\ \A k \in 1..Len(lists) :
           /\ Len(lists'[k]) >= Len(lists[k])
           /\ \A i \in 1..Len(lists[k]) : lists'[k][i] = lists[k][i]
      /\ lists'[Len(lists)] = Tracked(u)
  BY PlacedKeeps
<1>2. /\ activeOrders' = Tracked(u) /\ u \in Call
      /\ activeOrders \in Seq(Order) /\ DOMAIN activeOrders = 1..Len(activeOrders)
      /\ Len(activeOrders) \in Nat /\ Len(lists) \in 1..Len(lists)
      /\ activeOrders = lists[Len(lists)]
  BY <1>1, ListsType DEF activeOrders, Call
<1>3. /\ Tracked(u) \in Seq(Order)
      /\ request[u] # "ok" => Tracked(u) = activeOrders
      /\ request[u] = "ok" =>
           /\ Len(Tracked(u)) = Len(activeOrders) + 1
           /\ \A i \in 1..Len(activeOrders) : Tracked(u)[i] = activeOrders[i]
           /\ Tracked(u)[Len(activeOrders) + 1] = <<u, next[u]>>
  BY <1>1, ListsPush DEF Placed
<1>4. \A c \in Call : pc'[c] = "cancel" => Cancels(c) /\ next'[c] = next[c]
  BY <1>1 DEF Cancels
<1>5. ASSUME NEW j, Ahead(j) PROVE Ahead(j)'
  BY <1>4, <1>5 DEF Ahead, Cancels
<1>6. ASSUME NEW j \in 1..Len(activeOrders), Ahead(j)
      PROVE  activeOrders[j] \in Kept'
  <2>1. j \in DOMAIN Tracked(u) /\ Tracked(u)[j] = activeOrders[j]
    <3>1. CASE request[u] = "ok"
      <4>1. DOMAIN Tracked(u) = 1..(Len(activeOrders) + 1)
        BY <1>3, <3>1
      <4> QED  BY <1>2, <1>3, <3>1, <4>1
    <3>2. CASE request[u] # "ok"
      BY <1>2, <1>3, <3>2
    <3> QED  BY <3>1, <3>2
  <2> QED  BY <1>2, <1>5, <1>6, <2>1, KeptIs
<1>7. ASSUME NEW v \in Update, pc[v] = "place", v # u
      PROVE  <<v, next[v]>> \in Kept'
  <2>1. pc'[v] = "place" /\ next'[v] = next[v]
    BY <1>1, <1>7 DEF Call
  <2> QED  BY <2>1, KeptIs
<1>8. request[u] = "ok" => <<u, next[u]>> \in Kept'
  <2> SUFFICES ASSUME request[u] = "ok" PROVE <<u, next[u]>> \in Kept'
    OBVIOUS
  <2>0. PICK n \in Nat : n = Len(activeOrders) + 1
    BY <1>2
  <2>1. n \in DOMAIN Tracked(u) /\ Tracked(u)[n] = <<u, next[u]>>
    <3>1. DOMAIN Tracked(u) = 1..(Len(activeOrders) + 1)
      BY <1>3
    <3> QED  BY <1>2, <1>3, <2>0, <3>1
  <2>2. ASSUME NEW c \in Call, Cancels(c) PROVE n >= next[c]
    <3>1. list[c] = Len(lists) /\ next[c] \in 1..Len(lists[list[c]])
      BY <1>1, <2>2, RunningIs DEF Alone
    <3> QED  BY <1>2, <2>0, <3>1
  <2>3. Ahead(n)
    BY <2>2 DEF Ahead
  <2>4. Ahead(n)'
    BY <1>5, <2>3
  <2> QED  BY <1>2, <2>1, <2>4, KeptIs
<1>9. ASSUME NEW o \in open, o \notin Kept', o \in Kept
      PROVE  o \in Lost
  <2>1. o = <<u, next[u]>>
    BY <1>2, <1>6, <1>7, <1>9, KeptIs
  <2>2. request[u] = "failed"
    BY <1>1, <1>8, <1>9, <2>1
  <2>3. Target(u) = o
    BY <1>1, <2>1 DEF Target
  <2> QED  BY <1>2, <2>2, <2>3, LostIs
<1>10. ASSUME NEW d \in Call, request'[d] = "failed"
       PROVE  Target(d)' \in Lost
  <2>1. d # u /\ request[d] = "failed"
    BY <1>1, <1>10
  <2>2. Target(d)' = Target(d)
    BY <1>1, <2>1, TargetStays
  <2> QED  BY <2>1, <2>2, LostIs
<1>11. Lost' \subseteq Lost
  BY <1>1, <1>9, <1>10, LostIs
<1> QED  BY <1>1, <1>11, CountedKept

\* A request that fails may cost the order it is about.
LEMMA AnswerCounted ==
  ASSUME IInv, NEW c \in Call, Serve(c) \/ Refuse(c) \/ Fail(c),
         ~contended', session # "expired"
  PROVE  Counted'
<1> USE DEF IInv
<1>1. /\ request[c] = "sent" /\ UNCHANGED <<bot, session, contended>>
      /\ \A d \in Call : d # c => request'[d] = request[d]
      /\ request'[c] = IF Serve(c) THEN "ok" ELSE "failed"
      /\ \A d \in Call : Target(d)' = Target(d)
  BY AnswerKeeps
<1>2. Kept' = Kept
  BY <1>1 DEF Kept, Placing, Cancels, activeOrders, bot
<1>3. ~Refuse(c)
  <2>1. session \in {"nonce", "login", "valid"}
    BY DEF TypeOK
  <2>2. session \notin {"nonce", "login"}
    BY <1>1, UnbornQuiet
  <2> QED  BY <2>1, <2>2 DEF Refuse, Accepts
<1>4. \A o \in open' : o \in open \/ o \in Kept \/ o = Target(c)
  <2>1. CASE pc[c] = "place"
    <3>1. open' \subseteq open \cup {<<c, next[c]>>}
      BY <2>1 DEF Serve, Refuse, Fail, Effect
    <3>2. Target(c) = <<c, next[c]>>
      BY <2>1 DEF Target
    <3> QED  BY <3>1, <3>2
  <2>2. CASE pc[c] # "place"
    BY <2>2 DEF Serve, Refuse, Fail, Effect
  <2> QED  BY <2>1, <2>2
<1>5. CASE Serve(c)
  <2>1. \A o \in open' : o \in open \/ o \in Kept
    <3>1. CASE pc[c] = "place"
      <4>1. c \in Update
        BY <3>1, RunningIs
      <4>2. <<c, next[c]>> \in Kept
        BY <3>1, <4>1, KeptIs
      <4> QED  BY <1>5, <3>1, <4>2 DEF Serve, Effect
    <3>2. CASE pc[c] # "place"
      BY <1>5, <3>2 DEF Serve, Effect
    <3> QED  BY <3>1, <3>2
  <2>2. \A d \in Call : request'[d] = "failed" => request[d] = "failed"
    BY <1>1, <1>5
  <2>3. Lost' \subseteq Lost
    BY <1>1, <1>2, <2>1, <2>2, LostIs
  <2> QED  BY <1>1, <1>5, <2>3, CountedKept DEF Serve
<1>6. CASE Fail(c)
  <2>1. \A d \in Call : request'[d] = "failed" => request[d] = "failed" \/ d = c
    BY <1>1
  <2>2. Lost' \subseteq Lost \cup {Target(c)}
    BY <1>1, <1>2, <1>4, <2>1, LostIs
  <2> QED  BY <1>1, <1>6, <2>2, CountedOneMore DEF Fail
<1> QED  BY <1>3, <1>5, <1>6

LEMMA NextCounted == IInv /\ [Next]_vars => Counted'
<1> SUFFICES ASSUME IInv, [Next]_vars, ~contended', session' # "expired" PROVE Counted'
  BY DEF Counted
<1> USE DEF IInv
<1>1. ASSUME session # "expired", ~contended,
             UNCHANGED <<lists, pc, list, next, request, failures>>, open' \subseteq open
      PROVE  Counted'
  <2>1. Kept' = Kept /\ Doomed' = Doomed
    BY <1>1 DEF Kept, Placing, Cancels, activeOrders, Doomed, Target
  <2>2. Lost' \subseteq Lost
    BY <1>1, <2>1 DEF Lost
  <2> QED  BY <1>1, <2>2, CountedKept
<1>2. CASE \E c \in Call : Begin(c) \/ Cancelled(c)
  BY <1>2, LoopCounted DEF Begin, Cancelled
<1>3. CASE \E u \in Update : Placed(u)
  BY <1>3, PlacedCounted DEF Placed
<1>4. CASE \E c \in Call : Serve(c) \/ Refuse(c) \/ Fail(c)
  BY <1>4, AnswerCounted DEF Serve, Refuse, Fail
<1>5. CASE SignIn \/ SignInFails \/ UNCHANGED vars \/ \E o \in Order : Fill(o)
  <2>1. /\ UNCHANGED <<lists, pc, list, next, request, failures, contended>>
        /\ open' \subseteq open /\ session # "expired"
    BY <1>5 DEF SignIn, SignInFails, Fill, vars, bot
  <2> QED  BY <1>1, <2>1
<1>6. ~Expire
  BY DEF Expire
<1> QED
  BY <1>2, <1>3, <1>4, <1>5, <1>6 DEF Next, Tick, Signal, Call

LEMMA NextInv == IInv /\ [Next]_vars => IInv'
<1> SUFFICES ASSUME IInv, [Next]_vars PROVE IInv'
  OBVIOUS
<1>1. TypeOK'
  BY NextType DEF IInv
<1> QED
  BY <1>1, NextUnborn, NextListed, NextClosed, NextAlone, NextCounted, NextLeft DEF IInv

LEMMA InitInv == Init => IInv
<1> SUFFICES ASSUME Init PROVE IInv
  OBVIOUS
<1>1. TypeOK
  BY InitType
<1>2. /\ lists = << <<>> >> /\ open = {} /\ session = "nonce" /\ exited = FALSE
      /\ \A c \in Call : pc[c] = "idle" /\ request[c] = "none"
  BY DEF Init
<1>3. Len(lists) = 1 /\ DOMAIN lists = {1} /\ lists[1] = <<>> /\ DOMAIN <<>> = {}
  BY <1>2
<1>4. Unborn /\ Listed
  BY <1>2, <1>3 DEF Unborn, Listed, Call
<1>5. Closed /\ Alone /\ Left
  BY <1>2 DEF Closed, Alone, Left, Cancels
<1>6. Counted
  <2>1. Lost = {}
    BY <1>2 DEF Lost, Doomed
  <2>2. failures = 0
    BY DEF Init
  <2> QED  BY <2>1, <2>2, FS_EmptySet DEF Counted
<1> QED  BY <1>1, <1>4, <1>5, <1>6 DEF IInv

-----------------------------------------------------------------------------
(* The theorems.                                                           *)

\* What the bot knows of, whatever its calls are doing (market-maker.ts).
THEOREM BotInvariance == Spec => []IInv
<1> QED  BY InitInv, NextInv, PTL DEF Spec

\* The orders that are kept are known.
LEMMA KeptIsKnown == Kept \subseteq Known
<1>1. \A i \in DOMAIN activeOrders : activeOrders[i] \in Known
  BY DEF Known
<1>2. Placing \subseteq Known
  BY DEF Known, Placing
<1> QED  BY <1>1, <1>2 DEF Kept

\* Every order that an unexpired bot loses track of was lost by a failed
\* request of its own, however ticks and signals interrupt the loops of
\* updateQuotes, as long as no two cancelAllOrders run at once.
THEOREM LossesAreFailures == Spec => []LossesExplained
<1>1. IInv => LossesExplained
  <2> SUFFICES ASSUME IInv, ~contended, session # "expired"
               PROVE  Cardinality(open \ Known) <= failures
    BY DEF LossesExplained
  <2>1. open \ Known \in SUBSET Lost
    BY KeptIsKnown DEF Lost
  <2>2. IsFiniteSet(Lost) /\ Cardinality(Lost) <= failures /\ failures \in Nat
    BY QuotesAssumption DEF IInv, Counted, TypeOK
  <2>3. Cardinality(open \ Known) <= Cardinality(Lost) /\ IsFiniteSet(open \ Known)
    BY <2>1, <2>2, FS_Subset
  <2>4. Cardinality(Lost) \in Nat /\ Cardinality(open \ Known) \in Nat
    BY <2>2, <2>3, FS_CardinalityType
  <2> QED  BY <2>2, <2>3, <2>4
<1> QED  BY <1>1, BotInvariance, PTL

\* "All orders cancelled. Goodbye!" (market-maker.ts:255): what is open after
\* the exit of a bot with a valid token is no more than its failed requests
\* and the orders it was placing.
THEOREM GoodbyeIsTrue == Spec => []GoodbyeTrue
<1>1. IInv => GoodbyeTrue
  <2> DEFINE P == {u \in Update : pc[u] = "place"}
             f == [u \in P |-> <<u, next[u]>>]
  <2> SUFFICES ASSUME IInv, ~contended, exited, session # "expired"
               PROVE  Cardinality(open) <= failures + Cardinality(P)
    BY DEF GoodbyeTrue
  <2>1. activeOrders = <<>>
    BY DEF IInv, Left
  <2>2. open \ Placing \subseteq Lost
    <3>1. Kept \subseteq Placing
      BY <2>1 DEF Kept
    <3> QED  BY <3>1 DEF Lost
  <2>3. IsFiniteSet(P)
    <3>1. IsFiniteSet(1..Updates)
      BY CallsAssumption, FS_Interval
    <3> QED  BY <3>1, FS_Subset DEF Update
  <2>4. f \in Surjection(P, Placing)
    BY DEF Surjection, Placing
  <2> HIDE DEF P, f
  <2>5. IsFiniteSet(Placing) /\ Cardinality(Placing) <= Cardinality(P)
    BY <2>3, <2>4, FS_Surjection
  <2>6. IsFiniteSet(Lost) /\ Cardinality(Lost) <= failures /\ failures \in Nat
    BY QuotesAssumption DEF IInv, Counted, TypeOK
  <2>7. /\ IsFiniteSet(Lost \cup Placing)
        /\ Cardinality(Lost \cup Placing)
             = Cardinality(Lost) + Cardinality(Placing) - Cardinality(Lost \cap Placing)
    BY <2>5, <2>6, FS_Union
  <2>8. open \in SUBSET (Lost \cup Placing)
    BY <2>2
  <2>9. IsFiniteSet(open) /\ Cardinality(open) <= Cardinality(Lost \cup Placing)
    BY <2>7, <2>8, FS_Subset
  <2>10. IsFiniteSet(Lost \cap Placing)
    BY <2>6, FS_Subset
  <2>11. /\ Cardinality(open) \in Nat /\ Cardinality(Lost) \in Nat
         /\ Cardinality(Placing) \in Nat /\ Cardinality(P) \in Nat
         /\ Cardinality(Lost \cap Placing) \in Nat
         /\ Cardinality(Lost \cup Placing) \in Nat
    BY <2>3, <2>5, <2>6, <2>7, <2>9, <2>10, FS_CardinalityType
  <2> QED  BY <2>5, <2>6, <2>7, <2>9, <2>11
<1> QED  BY <1>1, BotInvariance, PTL
=============================================================================
