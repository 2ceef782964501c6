---------------------------- MODULE MCMarketFeeds ----------------------------
(* One connection to either endpoint.  As strings, "10" and "11" come       *)
(* before "9".                                                              *)
EXTENDS MarketFeeds

CONSTANTS c1, q1, q2

MCConnection == {c1}
MCSequence == {9, 10, 11}
MCSlot == {q1, q2}

=============================================================================
