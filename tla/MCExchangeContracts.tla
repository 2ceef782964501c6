------------------------ MODULE MCExchangeContracts ------------------------
(* A small instance of ExchangeContracts for TLC. *)
EXTENDS ExchangeContracts, TLC

CONSTANTS u1, u2, g, q, t1, t2, o1, o2

MCUser    == {u1, u2}
MCToken   == {g, q}
MCTradeId == {t1, t2}
MCOperator == {o1, o2}

\* Users, tokens, trade ids and operators are interchangeable.
ChainSymmetry ==
  Permutations(MCUser) \cup Permutations(MCToken) \cup Permutations(MCTradeId)
    \cup Permutations(MCOperator)
=============================================================================
