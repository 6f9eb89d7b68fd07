--------------------------- MODULE MCProvisioning ---------------------------
(* Two orders for different outlets and a third for the first outlet, two  *)
(* codes: the codes may collide on one router and across routers; two      *)
(* calls at once.                                                          *)
EXTENDS Provisioning, TLC

CONSTANTS o1, o2, o3, c1, c2, r1, r2, p1, p2

MCOrders == {o1, o2, o3}
MCCodes == {c1, c2}
MCRouters == {r1, r2}
MCProcs == {p1, p2}
MCRouterOf == (o1 :> r1) @@ (o2 :> r2) @@ (o3 :> r1)

Symm == Permutations(MCProcs) \cup Permutations(MCCodes)
=============================================================================
