------------------------ MODULE MCSettlementService ------------------------
(* Three trades, one of them without a wallet, two batches and a sweep.    *)
EXTENDS SettlementService, TLC

CONSTANTS t1, t2, t3, b1, b2, s1

MCTrade == {t1, t2, t3}
MCUnowned == {t3}
MCBatch == {b1, b2}
MCSweep == {s1}

\* Nothing tells t1 from t2, nor b1 from b2.
MCSymmetry == Permutations({t1, t2}) \cup Permutations({b1, b2})

=============================================================================
