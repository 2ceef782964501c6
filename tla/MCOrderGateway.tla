--------------------------- MODULE MCOrderGateway ---------------------------
(* A small instance of OrderGateway for TLC. *)
EXTENDS OrderGateway, TLC

CONSTANTS h1, h2, h3

MCHandler == {h1, h2, h3}

\* Words of 0..5, columns of -3..2.  The last five bodies: a price no column
\* takes, two negative numbers, a quantity the engine refuses, and a price
\* that it reads as 1.
Plain(price, qty) == [price |-> price, qty |-> qty, plain |-> TRUE]
MCHalfWord == 3
MCMisread  == {1}
MCBody ==
  {Plain(1, 1), Plain(1, 2), Plain(2, 1), Plain(3, 1),
   Plain(-1, 1), Plain(1, -1), Plain(1, 0), [price |-> 2, qty |-> 1, plain |-> FALSE]}

\* Requests are interchangeable (no run checks liveness).
HandlerSymmetry == Permutations(MCHandler)
=============================================================================
