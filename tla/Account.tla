------------------------------ MODULE Account -------------------------------
(***************************************************************************)
(* What the ledger of a wallet promises, without rows, holds, locks or     *)
(* retries: money comes in once per top-up, goes out once per purchase,    *)
(* and never more goes out than is there.  Wallet implements it.           *)
(***************************************************************************)
EXTENDS Naturals

CONSTANTS Refs, CreditTypes, Amount

VARIABLES
  funds,     \* the money of the owner
  credited,  \* the <<type, reference>> pairs that brought money in
  charged    \* the references paid for

vars == <<funds, credited, charged>>

Init == funds = 0 /\ credited = {} /\ charged = {}

PayIn(t, r) ==
  /\ <<t, r>> \notin credited
  /\ credited' = credited \cup {<<t, r>>}
  /\ funds' = funds + Amount[r]
  /\ UNCHANGED charged

Charge(r) ==
  /\ r \notin charged
  /\ funds >= Amount[r]
  /\ charged' = charged \cup {r}
  /\ funds' = funds - Amount[r]
  /\ UNCHANGED credited

Next ==
  \/ \E t \in CreditTypes, r \in Refs : PayIn(t, r)
  \/ \E r \in Refs : Charge(r)

Spec == Init /\ [][Next]_vars
=============================================================================
