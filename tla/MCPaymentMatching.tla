------------------------- MODULE MCPaymentMatching --------------------------
(* Two payments and one or two totals.  Time is coarse: the lock, the grace *)
(* time and the window last one unit each, and the clock runs long enough   *)
(* for a total to be reused, expire and be paid too late.                   *)
EXTENDS PaymentMatching, TLC

CONSTANTS p1, p2, a1, a2, k1

TwoPayments == {p1, p2}
OneTotal == {a1}
TwoTotals == {a1, a2}
FirstPayment == {p1}
NoPayment == {}
OneHook == {k1}
NoHook == {}

(* No step reads orphans, and rec.pending is read for orphans only: a run   *)
(* whose properties do not mention orphans leaves both out of the           *)
(* fingerprint.                                                             *)
WithoutOrphans == <<now, lock, pay, settled, refunded, [rec EXCEPT !.pending = {}], conf>>

(* The settlement of p1 is listed without a time where Untimed is not empty. *)
TotalSymm == Permutations(Totals)
Symm == Permutations(Payments) \cup TotalSymm
=============================================================================
