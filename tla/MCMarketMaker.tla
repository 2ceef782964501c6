---------------------------- MODULE MCMarketMaker ----------------------------
(* Three updates and a signal, two quotes to an update.                    *)
EXTENDS MarketMaker

CONSTANT s1

MCShutdown == {s1}

=============================================================================
