---------------------------- MODULE PurchaseSaga ----------------------------
(***************************************************************************)
(* Buying vouchers from a wallet (ordering.service.ts: agentWalletPurchase,*)
(* customerWalletPurchase and agentSellToCustomer are the same saga):      *)
(*                                                                         *)
(*   create the order - reserve - mark PAID - provision -                  *)
(*       settle and deliver, or release and mark FAILED                    *)
(*                                                                         *)
(* Each order is one HTTP request; requests of one owner run concurrently  *)
(* and every await lets the others run.  A sale of several vouchers        *)
(* (agentSellBatch) is such requests one after the other.  The module      *)
(* composes Wallet and Provisioning: the request of order o is the worker  *)
(* of its wallet transactions and the caller of its provisioning, and its  *)
(* hold row is named after it.                                             *)
(***************************************************************************)
EXTENDS Naturals, Sequences

CONSTANTS
  Orders, TopUps,                \* purchases, and credits of the wallet
  Amount, Total,                 \* see Wallet
  Routers, Codes, RouterOf, Unreadable,  \* see Provisioning
  CodeChoices,                   \* the codes generateCode may draw for an order
  MayDie,                        \* the requests that may be cut off half-way
  NoOrder

Refs == Orders \cup TopUps

ASSUME SagaAssumption ==
  /\ Orders \cap TopUps = {} /\ NoOrder \notin Orders
  /\ Amount \in [Refs -> Nat \ {0}]
  /\ Total \in [SUBSET Refs -> Nat] /\ Total[{}] = 0
  /\ \A S \in SUBSET Refs : \A r \in Refs \ S : Total[S \cup {r}] = Total[S] + Amount[r]
  /\ RouterOf \in [Orders -> Routers]
  /\ Unreadable \subseteq Routers
  /\ Codes # {}
  /\ CodeChoices \in [Orders -> SUBSET Codes]
  /\ MayDie \subseteq Orders

VARIABLES balance, ledger, hold, txn          \* the wallet
VARIABLES order, voucher, users, job          \* orders, vouchers and the routers
VARIABLE at                                   \* the next step of each request

walletVars == <<balance, ledger, hold, txn>>
provisioningVars == <<order, voucher, users, job>>
vars == <<balance, ledger, hold, txn, order, voucher, users, job, at>>

W == INSTANCE Wallet WITH
       HoldIds <- Orders, Workers <- Orders, CreditTypes <- {"TOPUP"}, NoHold <- NoOrder

P == INSTANCE Provisioning WITH Procs <- Orders

Ended == {"done", "failed", "refused", "threw"}
Running == {"reserve", "pay", "provision", "provisioning", "settle", "deliver",
            "release", "mark_failed"}

TypeOK ==
  /\ W!TypeOK
  /\ P!TypeOK
  /\ at \in [Orders -> {"start"} \cup Running \cup Ended]

-----------------------------------------------------------------------------
Init ==
  /\ W!Init
  /\ P!InitWith("NONE", {CHOOSE c \in Codes : TRUE})
  /\ at = [o \in Orders |-> "start"]

Step(o, from, to) == at[o] = from /\ at' = [at EXCEPT ![o] = to]

SetStatus(o, s) ==
  /\ order' = [order EXCEPT ![o].status = s]
  /\ UNCHANGED <<voucher, users, job>>

TopUp(r) ==
  /\ W!Credit("TOPUP", r)
  /\ UNCHANGED <<provisioningVars, at>>

(* Price, scope and PIN checks have passed: the order row is created with  *)
(* its credentials.                                                        *)
Create(o) ==
  /\ Step(o, "start", "reserve")
  /\ \E c \in CodeChoices[o] : order' = [order EXCEPT ![o] = P!Row("UNPAID", c)]
  /\ UNCHANGED <<walletVars, voucher, users, job>>

Reserve(o) ==
  /\ Step(o, "reserve", "pay")
  /\ W!Reserve(o, o)
  /\ UNCHANGED provisioningVars

(* 'Insufficient balance': the order is left UNPAID.                       *)
Refuse(o) ==
  /\ Step(o, "reserve", "refused")
  /\ ~W!Covers(o)
  /\ UNCHANGED <<walletVars, provisioningVars>>

MarkPaid(o) ==
  /\ Step(o, "pay", "provision")
  /\ SetStatus(o, "PAID")
  /\ UNCHANGED walletVars

(* The row is read again and handed to provisionOrder ...                  *)
Provision(o) ==
  /\ Step(o, "provision", "provisioning")
  /\ P!Call(o, o, order[o])
  /\ UNCHANGED walletVars

Provisioning(o) ==
  /\ P!Work(o)
  /\ UNCHANGED <<walletVars, at>>

(* ... whose result decides: settle, release, or an exception that skips   *)
(* both.                                                                   *)
DecideTo(o, failed) ==
  /\ at[o] = "provisioning"
  /\ at' = [at EXCEPT ![o] = CASE job[o].at \in {"created", "already_done"} -> "settle"
                               [] job[o].at \in {"failed", "not_paid"} -> failed
                               [] OTHER -> "threw"]
  /\ P!Return(o)
  /\ UNCHANGED walletVars

(* Slips: any result settles, or a failed one skips the release.           *)
DecideSettlesAll(o) == DecideTo(o, "settle")
DecideSkipsRelease(o) == DecideTo(o, "mark_failed")

Decide(o) == DecideTo(o, "release")

SettleRead(o) ==
  /\ at[o] = "settle"
  /\ W!SettleRead(o, o)
  /\ UNCHANGED <<provisioningVars, at>>

SettleCommit(o) ==
  /\ Step(o, "settle", "deliver")
  /\ W!SettleCommit(o)
  /\ UNCHANGED provisioningVars

(* sendVoucher and the waSent mark; nothing depends on the outcome.        *)
Deliver(o) ==
  /\ Step(o, "deliver", "done")
  /\ UNCHANGED <<walletVars, provisioningVars>>

Release(o) ==
  /\ Step(o, "release", "mark_failed")
  /\ W!Release(o)
  /\ UNCHANGED provisioningVars

MarkFailed(o) ==
  /\ Step(o, "mark_failed", "failed")
  /\ SetStatus(o, "FAILED")
  /\ UNCHANGED walletVars

(* Slip: a catch around the whole request that releases the hold.          *)
DieReleasing(o) ==
  /\ o \in MayDie
  /\ at[o] \in Running
  /\ hold[o].status = "ACTIVE"
  /\ at' = [at EXCEPT ![o] = "release"]
  /\ IF txn[o] # NoOrder THEN W!SettleRollback(o) ELSE UNCHANGED walletVars
  /\ IF job[o].at \in P!Steps THEN P!Die(o)
     ELSE IF job[o].at \in P!Results THEN P!Return(o) ELSE UNCHANGED provisioningVars

(* The process ends, or an await of the request throws: what is committed  *)
(* stays, an open transaction rolls back, nothing resumes the request.     *)
Die(o) ==
  /\ o \in MayDie
  /\ at[o] \in Running
  /\ at' = [at EXCEPT ![o] = "threw"]
  /\ IF txn[o] # NoOrder THEN W!SettleRollback(o) ELSE UNCHANGED walletVars
  /\ IF job[o].at \in P!Steps THEN P!Die(o)
     ELSE IF job[o].at \in P!Results THEN P!Return(o) ELSE UNCHANGED provisioningVars

Advance(o) ==
  \/ Reserve(o) \/ Refuse(o) \/ MarkPaid(o)
  \/ Provision(o) \/ Provisioning(o) \/ Decide(o)
  \/ SettleRead(o) \/ SettleCommit(o) \/ Deliver(o)
  \/ Release(o) \/ MarkFailed(o)

Next ==
  \/ \E r \in TopUps : TopUp(r)
  \/ \E o \in Orders : Create(o) \/ Advance(o) \/ Die(o)

(* A request that runs keeps running: the event loop is fair, database     *)
(* calls return and every router call ends with its timeout.               *)
Spec == Init /\ [][Next]_vars /\ \A o \in Orders : WF_vars(Advance(o))

-----------------------------------------------------------------------------
Charged(o) == W!HasEntry("PURCHASE", o)

(* The money on hold is there: concurrent purchases and top-ups never let  *)
(* the ACTIVE holds exceed the balance, so no settle can find too little   *)
(* once its voucher exists.                                                *)
HoldsAreCovered == balance >= Total[W!HeldRefs]

(* Whoever got a voucher has paid for it or still has the money on hold,   *)
(* wherever the request was cut off.                                       *)
VoucherIsSecured == \A o \in Orders : voucher[o] # {} => Charged(o) \/ hold[o].status = "ACTIVE"

(* Nobody pays without a voucher: README "release+refund on failure".      *)
ChargeHasVoucher == \A o \in Orders : Charged(o) => voucher[o] # {}

(* A refund excludes the sale for good: a released hold or an order marked *)
(* FAILED is never charged and has no voucher.                             *)
RefundedMeansVoid ==
  \A o \in Orders :
     hold[o].status = "RELEASED" \/ order[o].status = "FAILED" =>
        hold[o].status = "RELEASED" /\ ~Charged(o) /\ voucher[o] = {}

(* Every purchase that reserved money eventually settles or releases it.   *)
HoldsAreResolved ==
  \A o \in Orders : hold[o].status = "ACTIVE" ~> hold[o].status \in {"SETTLED", "RELEASED"}

(* A request that is not cut off resolves its hold whatever the others do, *)
(* also those that end half-way; only an exception of provisionOrder (the  *)
(* router's credentials, the voucher insert) can stop it, by passing the   *)
(* release.                                                                *)
ResolvedUnlessCut ==
  \A o \in Orders \ MayDie :
     hold[o].status = "ACTIVE" ~> hold[o].status \in {"SETTLED", "RELEASED"} \/ at[o] = "threw"

(* The saga implements the promise: a purchase is a sale from the moment   *)
(* its voucher exists, and settling it afterwards spends nothing more.     *)
Promise == INSTANCE PurchasePromise WITH
  spendable <- balance - Total[W!HeldRefs],
  paidIn <- {r \in TopUps : W!HasEntry("TOPUP", r)},
  phase <- [o \in Orders |->
             IF hold[o].status = "RELEASED" THEN "void"
             ELSE IF hold[o].status = "NONE" THEN "none"
             ELSE IF voucher[o] # {} THEN "sold" ELSE "set_aside"]

ImplementsPromise == Promise!Spec
=============================================================================
