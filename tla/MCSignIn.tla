------------------------------ MODULE MCSignIn ------------------------------
(* Two pages, two accounts and three flows: two that overlap on one page, or *)
(* on two, and one more after either.                                        *)
EXTENDS SignIn, TLC

CONSTANTS p, q, a, b, f1, f2, f3

\* Every set is symmetric: all actions treat its members alike.
Symmetry == Permutations(Tab) \cup Permutations(Wallet) \cup Permutations(Flow)
=============================================================================
