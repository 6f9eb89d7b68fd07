------------------------------ MODULE MCWallet ------------------------------
(* Two purchases and a top-up that cannot pay for both of them; three hold *)
(* rows, so that one reference can be reserved again after a release; two  *)
(* concurrent settles.                                                     *)
EXTENDS Wallet, TLC

CONSTANTS p1, p2, t1, h1, h2, h3, w1, w2

MCRefs == {p1, p2, t1}
MCHoldIds == {h1, h2, h3}
MCWorkers == {w1, w2}
MCCreditTypes == {"TOPUP"}
MCAmount == (p1 :> 2) @@ (p2 :> 1) @@ (t1 :> 2)

Sum[S \in SUBSET MCRefs] ==
  IF S = {} THEN 0 ELSE LET r == CHOOSE r \in S : TRUE IN MCAmount[r] + Sum[S \ {r}]
MCTotal == Sum

Symm == Permutations(MCHoldIds) \cup Permutations(MCWorkers)
=============================================================================
