--------------------------- MODULE MCAgentScope ---------------------------
(* An owner with two brands, another owner, the operator; two outlets.    *)
EXTENDS AgentScope, TLC

CONSTANTS a1, a2, b1, b2, b3, o1, o2, g1

MCAdmins == {a1, a2}
MCOperators == {}
MCBrands == {b1, b2, b3}
MCBrandOwner == (b1 :> a1) @@ (b2 :> a1) @@ (b3 :> a2)
MCOutlets == {o1, o2}
MCAgents == {g1}
MCFirstBrands == {b1}

Symm == Permutations(MCOutlets)
=============================================================================
