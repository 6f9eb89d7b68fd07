---------------------------- MODULE MCFulfilment ----------------------------
(* A sale, a top-up, and an earlier sale of another outlet that may have   *)
(* drawn the same username; a webhook and the reconciler.                  *)
EXTENDS Fulfilment, TLC

CONSTANTS s1, s2, t1, w1, c1, c2, r1, r2

MCSales == {s1, s2}
MCTopUps == {t1}
MCWebhooks == {w1}
MCCodes == {c1, c2}
MCRouters == {r1, r2}
MCRouterOf == [o \in Orders |-> IF o = s2 THEN r2 ELSE r1]
MCCodeChoices == [o \in Orders |-> IF o = s2 THEN {c1, c2} ELSE {c1}]
MCAmount == t1 :> 2
MCTotal == [S \in SUBSET MCTopUps |-> 2 * Cardinality(S)]

(* The sales of the runs that need no collision; merchants with GoBiz have *)
(* no webhook.                                                             *)
OneSale == {s1}
NoSale == {}
EarlierSale == {s2}
NoWebhooks == {}
NoRouters == {}
OnlyReconciler == {Reconciler}
=============================================================================
