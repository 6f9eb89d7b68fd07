-------------------------- MODULE PurchasePromise ---------------------------
(***************************************************************************)
(* What buying vouchers from a wallet promises, without orders, holds,     *)
(* ledger entries or routers: a purchase sets money aside, and then either *)
(* becomes a sale and keeps it or is void and gives it back - never both,  *)
(* never twice, and never with money that another purchase counts on.      *)
(***************************************************************************)
EXTENDS Naturals

CONSTANTS Orders, TopUps, Amount

VARIABLES
  spendable,  \* what the owner can still spend
  paidIn,     \* the top-ups that have arrived
  phase       \* of each purchase

vars == <<spendable, paidIn, phase>>

Init ==
  /\ spendable = 0
  /\ paidIn = {}
  /\ phase = [o \in Orders |-> "none"]

TopUp(r) ==
  /\ r \notin paidIn
  /\ paidIn' = paidIn \cup {r}
  /\ spendable' = spendable + Amount[r]
  /\ UNCHANGED phase

Become(o, from, to) == phase[o] = from /\ phase' = [phase EXCEPT ![o] = to]

SetAside(o) ==
  /\ Become(o, "none", "set_aside")
  /\ spendable >= Amount[o]
  /\ spendable' = spendable - Amount[o]
  /\ UNCHANGED paidIn

Sell(o) == Become(o, "set_aside", "sold") /\ UNCHANGED <<spendable, paidIn>>

Refund(o) ==
  /\ Become(o, "set_aside", "void")
  /\ spendable' = spendable + Amount[o]
  /\ UNCHANGED paidIn

Next ==
  \/ \E r \in TopUps : TopUp(r)
  \/ \E o \in Orders : SetAside(o) \/ Sell(o) \/ Refund(o)

Spec == Init /\ [][Next]_vars
=============================================================================
