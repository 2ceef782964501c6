---------------------- MODULE MatchingEngineRefinement ----------------------
(***************************************************************************)
(* MatchingEngine implements PriceTimeBook.  An order of a queue is open,  *)
(* at the place of its queue; the order under the mutex is the taker; the  *)
(* log is the tape.  Match maps to Fill, Finish to Settle, Panic to Abort, *)
(* SubmitOrder and ReplaceOrder to Arrive; CancelOrder maps to Withdraw,   *)
(* which is a stutter when nothing is queued under the id.                 *)
(***************************************************************************)
EXTENDS MatchingEngine

OpenAt(s, p) ==
  {[id |-> queue[s][p][i].id, side |-> s, price |-> p,
    qty |-> queue[s][p][i].qty, stamp |-> queue[s][p][i].stamp]
     : i \in DOMAIN queue[s][p]}

OpenOrders == UNION {OpenAt(s, p) : s \in Side, p \in Price}

BookTaker ==
  IF active = NoOrder THEN NoOrder
  ELSE [id |-> active.id, side |-> active.side, price |-> active.price,
        qty |-> active.qty, stamp |-> active.stamp]

Book == INSTANCE PriceTimeBook
          WITH open <- OpenOrders, taker <- BookTaker, tape <- log,
               Nobody <- NoOrder

ASSUME NoTakerAssumption == NoOrder \notin Book!Order

\* The engine behaves like the price-time book: whatever the levels, queues
\* and index do, its trades are those of a set of orders served by price, then
\* by time, each trade numbered by its place on the tape.
ImplementsBook == Book!BookSpec
=============================================================================
