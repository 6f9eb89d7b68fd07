------------------------------- MODULE MCShop -------------------------------
(* One package, one customer, two owners, of whom one has the outlet; two  *)
(* requests and two reports of logins at a time.                           *)
EXTENDS Shop, TLC

CONSTANTS a1, a2, p1, c1, w1, w2, l1, l2

MCAdmins == {a1, a2}
MCPackages == {p1}
MCCustomers == {c1}
MCOwnerOf == p1 :> a1
MCPrices == {1, 2}
MCDiscounts == {0, 50}
MCWorkers == {w1, w2}
MCLogins == {l1, l2}

Symm == Permutations(MCWorkers) \cup Permutations(MCLogins)
=============================================================================
