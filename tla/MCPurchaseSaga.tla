--------------------------- MODULE MCPurchaseSaga ---------------------------
(* Three purchases of which the two top-ups pay for two, so that one has   *)
(* to be refused or to use money another one gave back; two outlets.       *)
EXTENDS PurchaseSaga, TLC

CONSTANTS o1, o2, o3, t1, t2, c1, c2, r1, r2

TwoOrders == {o1, o2}
ThreeOrders == {o1, o2, o3}
MCTopUps == {t1, t2}
MCCodes == {c1, c2}
MCRouters == {r1, r2}
MCRouterOf == [o \in Orders |-> IF o = o2 THEN r2 ELSE r1]
MCAmount == [r \in Refs |-> IF r \in {o1, t1} THEN 2 ELSE 1]

Sum[S \in SUBSET Refs] ==
  IF S = {} THEN 0 ELSE LET r == CHOOSE r \in S : TRUE IN MCAmount[r] + Sum[S \ {r}]
MCTotal == Sum

(* Any code for any order.                                                 *)
AnyCode == [o \in Orders |-> {c1, c2}]
Nobody == {}
=============================================================================
