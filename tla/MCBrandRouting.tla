--------------------------- MODULE MCBrandRouting ---------------------------
(* Two brands, an outlet, two QRIS accounts in all and two requests at a   *)
(* time; a save makes the account a default or takes its payload away.     *)
EXTENDS BrandRouting, TLC

CONSTANTS b1, b2, o1, w1, w2

MCBrands == {b1, b2}
MCOutlets == {o1}
Both == {w1, w2}
MCPatches == {[topup |-> TRUE], [text |-> FALSE]}

(* Once a brand has two accounts, or an outlet another brand's, the states *)
(* that follow are not visited.                                            *)
UntilBroken == OneBrandOneQris /\ OnlyOwnBrand

Symm == Permutations(MCBrands) \cup Permutations(Both)
=============================================================================
