--------------------------- MODULE MCGobizSession ---------------------------
(* Two cycles and a request of the owner overlap; two merchants.           *)
EXTENDS GobizSession, TLC

CONSTANTS m1, m2, d1, d2, r1

MCMerchants == {m1, m2}
MCCycles == {d1, d2}
MCRequests == {r1}

Symm == Permutations(MCMerchants) \cup Permutations(MCCycles)
=============================================================================
