----------------------------- MODULE Fulfilment -----------------------------
(***************************************************************************)
(* What confirmPayment (ordering.service.ts) does with money that came: a  *)
(* QRIS sale gets its voucher, a top-up its credit.                        *)
(*                                                                         *)
(* Webhooks (redelivered, out of order) and the reconciler call it for one *)
(* order at the same time.  Each call is a confirmation; it reads the      *)
(* order row once and works on that copy across its awaits, while a cycle  *)
(* of the reconciler may expire the payment it found no money for.  The    *)
(* module composes Provisioning and the ledger of Wallet; how money is     *)
(* matched to payments, and which payments are due, is PaymentMatching.    *)
(***************************************************************************)
EXTENDS Naturals, Sequences, FiniteSets

CONSTANTS
  Sales, TopUps,              \* QRIS orders for a voucher, and for a wallet
  Webhooks, Reconciler,       \* the callers of confirmPayment
  Amount, Total,              \* see Wallet
  Routers, Codes, RouterOf, Unreadable,   \* see Provisioning
  CodeChoices,                \* the codes generateCode may draw for an order
  Delivered,                  \* sales that were fulfilled before
  MayStop,                    \* the callers that may be cut off half-way
  NoOrder

Orders == Sales \cup TopUps
Callers == Webhooks \cup {Reconciler}

ASSUME FulfilmentAssumption ==
  /\ Sales \cap TopUps = {} /\ NoOrder \notin Orders
  /\ RouterOf \in [Orders -> Routers]
  /\ Unreadable \subseteq Routers
  /\ Amount \in [TopUps -> Nat \ {0}]
  /\ Total \in [SUBSET TopUps -> Nat] /\ Total[{}] = 0
  /\ \A S \in SUBSET TopUps : \A t \in TopUps \ S : Total[S \cup {t}] = Total[S] + Amount[t]
  /\ Reconciler \notin Webhooks
  /\ CodeChoices \in [Orders -> SUBSET Codes]
  /\ Delivered \subseteq Sales
  /\ MayStop \subseteq Callers

VARIABLES balance, ledger                \* the wallet the top-ups go to
VARIABLES order, voucher, users, job     \* orders, vouchers and the routers
VARIABLES
  money,    \* the orders whose money has arrived
  payment,  \* the status of each order's payment
  listed,   \* the reconciler's list of matched payments still to confirm
  doomed,   \* its list of overdue payments without money, still to expire
  expiring, \* the order whose payment it has just expired
  owned,    \* the agent or customer of the top-ups exists
  conf,     \* the confirmation each caller is busy with
  waSent,   \* orders.wa_sent
  told      \* how often the customer got the voucher: 0, 1, or 2 for more

walletVars == <<balance, ledger>>
provisioningVars == <<order, voucher, users, job>>
cycleVars == <<listed, doomed, expiring>>
messageVars == <<waSent, told>>
vars == <<balance, ledger, order, voucher, users, job, money, payment, listed, doomed,
          expiring, owned, conf, waSent, told>>

W == INSTANCE Wallet WITH
       Refs <- TopUps, HoldIds <- {}, Workers <- {}, CreditTypes <- {"TOPUP"},
       NoHold <- NoOrder, hold <- <<>>, txn <- <<>>

P == INSTANCE Provisioning WITH Procs <- Callers

Steps == {"mark", "load", "pay", "credit", "call", "provisioning", "notify", "mark_sent"}
Idle == [at |-> "idle", order |-> NoOrder]

TypeOK ==
  /\ W!TypeOK
  /\ P!TypeOK
  /\ money \subseteq Orders
  /\ payment \in [Orders -> {"PENDING", "PAID", "EXPIRED"}]
  /\ listed \subseteq Orders /\ doomed \subseteq Orders /\ expiring \subseteq Orders
  /\ owned \in BOOLEAN
  /\ conf \in [Callers -> {Idle} \cup
                [at: Steps, order: Orders, copy: P!OrderRow, sent: BOOLEAN,
                 owned: BOOLEAN]]
  /\ waSent \in [Orders -> BOOLEAN]
  /\ told \in [Orders -> 0..2]

-----------------------------------------------------------------------------
(* The orders have been created, some have been delivered.                 *)
Init ==
  /\ W!Init
  /\ \E c \in [Orders -> Codes] :
        /\ \A o \in Orders : c[o] \in CodeChoices[o]
        /\ order = [o \in Orders |->
                     IF o \in Delivered THEN [P!Row("PAID", c[o]) EXCEPT !.fulfill = "CREATED"]
                     ELSE P!Row("UNPAID", c[o])]
        /\ voucher = [o \in Orders |-> IF o \in Delivered THEN {c[o]} ELSE {}]
        /\ users = {<<RouterOf[o], c[o], o>> : o \in Delivered}
  /\ payment = [o \in Orders |-> IF o \in Delivered THEN "PAID" ELSE "PENDING"]
  /\ job = [c \in Callers |-> P!Idle]
  /\ money = Delivered
  /\ listed = {} /\ doomed = {} /\ expiring = {} /\ owned = TRUE
  /\ conf = [c \in Callers |-> Idle]
  /\ waSent = [o \in Orders |-> o \in Delivered]
  /\ told = [o \in Orders |-> IF o \in Delivered THEN 1 ELSE 0]

Pay(o) ==
  /\ o \notin money
  /\ money' = money \cup {o}
  /\ UNCHANGED <<walletVars, provisioningVars, payment, cycleVars, owned, conf, messageVars>>

(* deleteCustomer, or the agent's remove: the wallet goes with its ledger, *)
(* and the orders are left without an owner.                               *)
DeleteOwner ==
  /\ owned /\ owned' = FALSE
  /\ balance' = 0 /\ ledger' = <<>>
  /\ UNCHANGED <<provisioningVars, money, payment, cycleVars, conf, messageVars>>

(* A confirmation begins; the copy is not read yet.                        *)
Begin(c, o) ==
  /\ conf[c] = Idle
  /\ conf' = [conf EXCEPT ![c] = [at |-> "mark", order |-> o, copy |-> P!Row("UNPAID", order[o].code),
                                 sent |-> FALSE, owned |-> FALSE]]
  /\ UNCHANGED <<walletVars, provisioningVars, money, payment, owned, messageVars>>

(* A webhook reports money, any number of times and at any moment.         *)
Deliver(c, o) == o \in money /\ Begin(c, o) /\ UNCHANGED cycleVars

-----------------------------------------------------------------------------
(* The reconciler.                                                         *)
Pending == {o \in Orders : payment[o] = "PENDING"}
BetweenCycles == listed = {} /\ doomed = {} /\ expiring = {} /\ conf[Reconciler] = Idle

(* Slip: the cycle confirms every pending payment, matched or not.         *)
ListUnmatched ==
  /\ BetweenCycles
  /\ listed' = Pending /\ listed' # {}
  /\ UNCHANGED <<walletVars, provisioningVars, money, payment, doomed, expiring, owned, conf,
                 messageVars>>

(* The cycle lists the PENDING payments with a settlement, and those of    *)
(* the others that are overdue.  It confirms the ones and expires the      *)
(* others one by one, whatever they have become meanwhile.                 *)
List ==
  /\ BetweenCycles
  /\ listed' = Pending \cap money
  /\ doomed' \in SUBSET (Pending \ money)
  /\ listed' \cup doomed' # {}
  /\ UNCHANGED <<walletVars, provisioningVars, money, payment, expiring, owned, conf, messageVars>>

Confirm(o) ==
  /\ o \in listed /\ expiring = {}
  /\ Begin(Reconciler, o)
  /\ listed' = listed \ {o}
  /\ UNCHANGED <<doomed, expiring>>

(* The expiry writes: the payment by its id, whatever its status is by     *)
(* now; then the order, if it is still UNPAID.                             *)
ExpirePayment(o) ==
  /\ o \in doomed /\ expiring = {} /\ conf[Reconciler] = Idle
  /\ payment' = [payment EXCEPT ![o] = "EXPIRED"]
  /\ doomed' = doomed \ {o} /\ expiring' = {o}
  /\ UNCHANGED <<walletVars, provisioningVars, money, listed, owned, conf, messageVars>>

ExpireOrder(o) ==
  /\ o \in expiring
  /\ order' = [order EXCEPT ![o].status = IF @ = "UNPAID" THEN "EXPIRED" ELSE @]
  /\ expiring' = {}
  /\ UNCHANGED <<walletVars, voucher, users, job, money, payment, listed, doomed, owned, conf,
                 messageVars>>

-----------------------------------------------------------------------------
At(c, step) == conf[c].at = step
GoTo(c, step) == conf' = [conf EXCEPT ![c].at = step]
End(c) == conf' = [conf EXCEPT ![c] = Idle]

(* markPaidByReference.                                                    *)
MarkPaid(c) ==
  /\ At(c, "mark")
  /\ payment' = [payment EXCEPT ![conf[c].order] = "PAID"]
  /\ GoTo(c, "load")
  /\ UNCHANGED <<walletVars, provisioningVars, money, cycleVars, owned, messageVars>>

(* The order row as the rest of the confirmation knows it.                 *)
Load(c) ==
  /\ At(c, "load")
  /\ LET o == conf[c].order
     IN conf' = [conf EXCEPT ![c].at = "pay", ![c].copy = order[o],
                              ![c].sent = waSent[o],
                              ![c].owned = o \in TopUps /\ owned]
  /\ UNCHANGED <<walletVars, provisioningVars, money, payment, cycleVars, owned, messageVars>>

(* Slip: the copy keeps the status it was read with.                       *)
PayOrderStaleCopy(c) ==
  /\ At(c, "pay")
  /\ LET o == conf[c].order
     IN /\ order' = [order EXCEPT ![o].status = "PAID"]
        /\ GoTo(c, IF o \in TopUps THEN "credit" ELSE "call")
  /\ UNCHANGED <<walletVars, voucher, users, job, money, payment, cycleVars, owned, messageVars>>

(* The order becomes PAID, in the database and in the copy; then the       *)
(* dispatch by purpose.                                                    *)
PayOrder(c) ==
  /\ At(c, "pay")
  /\ LET o == conf[c].order
     IN /\ order' = IF conf[c].copy.status = "PAID" THEN order
                    ELSE [order EXCEPT ![o].status = "PAID"]
        /\ conf' = [conf EXCEPT ![c].at = IF o \in TopUps THEN "credit" ELSE "call",
                                ![c].copy.status = "PAID"]
  /\ UNCHANGED <<walletVars, voucher, users, job, money, payment, cycleVars, owned, messageVars>>

(* topup_no_owner, or the credit of the owner's account; ensureAccount     *)
(* makes one for an owner that was deleted after the order was read.       *)
Credit(c) ==
  /\ At(c, "credit")
  /\ IF conf[c].owned THEN W!Credit("TOPUP", conf[c].order) ELSE UNCHANGED walletVars
  /\ End(c)
  /\ UNCHANGED <<provisioningVars, money, payment, cycleVars, owned, messageVars>>

Provision(c) ==
  /\ At(c, "call")
  /\ P!Call(c, conf[c].order, conf[c].copy)
  /\ GoTo(c, "provisioning")
  /\ UNCHANGED <<walletVars, money, payment, cycleVars, owned, messageVars>>

Provisioning(c) ==
  /\ P!Work(c)
  /\ UNCHANGED <<walletVars, money, payment, cycleVars, owned, conf, messageVars>>

AbandonCycle == listed' = {} /\ doomed' = {} /\ expiring' = {}

(* A voucher that the copy says was not sent yet is sent; an exception     *)
(* ends the call, and the cycle of the reconciler with it.                 *)
Fulfilled(c) ==
  /\ At(c, "provisioning")
  /\ P!Return(c)
  /\ IF job[c].at \in {"created", "already_done"} /\ ~conf[c].sent
       THEN GoTo(c, "notify") ELSE End(c)
  /\ IF c = Reconciler /\ job[c].at = "threw"
       THEN AbandonCycle ELSE UNCHANGED cycleVars
  /\ UNCHANGED <<walletVars, money, payment, owned, messageVars>>

(* Slip: the answer of the gateway is not looked at.                       *)
NotifyUnheard(c) ==
  /\ At(c, "notify")
  /\ \/ told' = [told EXCEPT ![conf[c].order] = IF @ = 0 THEN 1 ELSE 2]
     \/ UNCHANGED told
  /\ GoTo(c, "mark_sent")
  /\ UNCHANGED <<walletVars, provisioningVars, money, payment, cycleVars, owned, waSent>>

(* sendVoucher answers whether the gateway took the message.               *)
Notify(c) ==
  /\ At(c, "notify")
  /\ LET o == conf[c].order
     IN \/ /\ voucher[o] # {}
           /\ told' = [told EXCEPT ![o] = IF @ = 0 THEN 1 ELSE 2]
           /\ GoTo(c, "mark_sent")
        \/ End(c) /\ UNCHANGED told
  /\ UNCHANGED <<walletVars, provisioningVars, money, payment, cycleVars, owned, waSent>>

MarkSent(c) ==
  /\ At(c, "mark_sent")
  /\ waSent' = [waSent EXCEPT ![conf[c].order] = TRUE]
  /\ End(c)
  /\ UNCHANGED <<walletVars, provisioningVars, money, payment, cycleVars, owned, told>>

(* An await throws, or the process ends (which stops every call): nothing  *)
(* is undone and nothing is resumed.                                       *)
Stop(c) ==
  /\ c \in MayStop
  /\ conf[c] # Idle \/ (c = Reconciler /\ ~BetweenCycles)
  /\ End(c)
  /\ IF c = Reconciler THEN AbandonCycle ELSE UNCHANGED cycleVars
  /\ IF job[c] = P!Idle THEN UNCHANGED provisioningVars
     ELSE IF job[c].at \in P!Steps THEN P!Die(c) ELSE P!Return(c)
  /\ UNCHANGED <<walletVars, money, payment, owned, messageVars>>

Work(c) ==
  \/ MarkPaid(c) \/ Load(c) \/ PayOrder(c) \/ Credit(c)
  \/ Provision(c) \/ Provisioning(c) \/ Fulfilled(c)
  \/ Notify(c) \/ MarkSent(c)

Cycle ==
  List \/ \E o \in Orders : Confirm(o) \/ ExpirePayment(o) \/ ExpireOrder(o)

Next ==
  \/ \E o \in Orders : Pay(o)
  \/ DeleteOwner
  \/ \E c \in Webhooks, o \in Orders : Deliver(c, o)
  \/ Cycle
  \/ \E c \in Callers : Work(c) \/ Stop(c)

(* Calls that run keep running, and the timer keeps starting cycles; no    *)
(* webhook is owed to anyone.                                              *)
Spec == Init /\ [][Next]_vars /\ WF_vars(Cycle) /\ \A c \in Callers : WF_vars(Work(c))

-----------------------------------------------------------------------------
Credited(o) == W!HasEntry("TOPUP", o)

(* BR-16, BR-26: however often an order is confirmed, by whom and however  *)
(* the calls overlap, it gets one voucher, or its amount once: the balance *)
(* is exactly the sum of the top-ups that were credited.                   *)
FulfilledOnce ==
  /\ P!OneVoucherPerOrder
  /\ balance = Total[{t \in TopUps : Credited(t)}]

(* Nothing is handed out before the money came and the order is PAID, or   *)
(* for a payment that a later cycle still finds PENDING.  The payment of a *)
(* voucher may say EXPIRED: the expiry writes by id.                       *)
NothingForFree ==
  \A o \in Orders :
     voucher[o] # {} \/ (o \in TopUps /\ Credited(o)) =>
        o \in money /\ order[o].status = "PAID" /\ payment[o] # "PENDING"

(* What the statuses suggest, and the expiry by id breaks.                 *)
VoucherSaysPaid == \A o \in Orders : voucher[o] # {} => payment[o] = "PAID"

(* wa_sent suppresses every later message, so it may only be set once the  *)
(* customer did get a voucher, and one that opens the outlet's router.     *)
SentMeansTold ==
  \A o \in Orders :
     waSent[o] => told[o] > 0 /\ \E u \in voucher[o] : <<RouterOf[o], u, o>> \in users

(* README: "pay -> idempotent fulfillment -> voucher", "QRIS -> credit".    *)
(* A confirmation that is not cut off ends in a credit or a voucher, or in *)
(* an order that says fulfilment FAILED, whatever other confirmations of   *)
(* the order do and wherever they stop; the exceptions are a provisionOrder *)
(* that threw in this very call and a top-up whose owner was deleted.      *)
Handled(o) ==
  IF o \in TopUps THEN Credited(o) \/ ~owned ELSE voucher[o] # {} \/ order[o].fulfill = "FAILED"

ConfirmedIsHandled ==
  \A c \in Callers \ MayStop : \A o \in Orders :
     conf[c].order = o ~> Handled(o) \/ (job[c].at = "threw" /\ job[c].order = o)

(* The same of money that the reconciler can match: the confirmation that  *)
(* was cut off is made up for.                                             *)
MoneyIsHandled ==
  \A o \in Orders :
     o \in money \ (doomed \cup expiring) /\ payment[o] = "PENDING" ~> Handled(o)

(* bri-notify.controller.ts: "Idempotent (confirmPayment is)".  A repeated *)
(* confirmation takes nothing back: an order that is CREATED stays so.     *)
CreatedStaysCreated ==
  [][\A o \in Orders : order[o].fulfill = "CREATED" => order'[o].fulfill = "CREATED"]_vars
=============================================================================
