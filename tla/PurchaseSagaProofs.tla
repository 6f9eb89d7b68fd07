------------------------- MODULE PurchaseSagaProofs -------------------------
(***************************************************************************)
(* Theorems about PurchaseSaga, for any finite sets of purchases and       *)
(* top-ups, any amounts, routers and codes, and whichever requests are cut *)
(* off: money on hold is there, a charge comes with a voucher, a refund is *)
(* final, and the saga implements PurchasePromise.                         *)
(*                                                                         *)
(* A request changes the rows of its own order only; what it shares with   *)
(* the others is the balance, the ledger and the routers.                  *)
(***************************************************************************)
EXTENDS PurchaseSaga, TLAPS

-----------------------------------------------------------------------------
(* What is true of a purchase at each step of its request.  Where the      *)
(* request was cut off ("threw") only the last lines of each part remain.  *)
HoldFits(o) ==
  /\ at[o] \in {"start", "reserve", "refused"} => hold[o].status = "NONE"
  /\ at[o] \in {"pay", "provision", "provisioning", "settle", "release"}
       => hold[o].status = "ACTIVE"
  /\ at[o] \in {"deliver", "done"} => hold[o].status = "SETTLED"
  /\ at[o] \in {"mark_failed", "failed"} => hold[o].status = "RELEASED"
  /\ hold[o].status # "NONE" => hold[o].ref = o
  /\ Charged(o) <=> hold[o].status = "SETTLED"
  /\ txn[o] # NoOrder => txn[o] = o /\ at[o] = "settle"

VoucherFits(o) ==
  /\ at[o] \in {"start", "reserve", "refused", "pay", "provision", "release", "mark_failed",
                "failed"} => voucher[o] = {}
  /\ at[o] \in {"settle", "deliver", "done"} => voucher[o] # {}
  /\ at[o] = "provisioning" => (voucher[o] # {} <=> job[o].at = "created")
  /\ voucher[o] # {} => hold[o].status \in {"ACTIVE", "SETTLED"}
  /\ hold[o].status = "SETTLED" => voucher[o] # {}

(* The row is fresh when provisionOrder gets it, so the early returns for  *)
(* an order that is not paid, or has its voucher, are not taken.           *)
JobFits(o) ==
  /\ at[o] \in {"start", "reserve", "pay", "provision"} => order[o].fulfill = "PENDING"
  /\ at[o] = "provision" => order[o].status = "PAID"
  /\ job[o] # P!Idle <=> at[o] = "provisioning"
  /\ at[o] = "provisioning" =>
       /\ job[o].order = o
       /\ job[o].copy.status = "PAID" /\ job[o].copy.fulfill = "PENDING"
       /\ job[o].at \in {"check", "router", "fail", "store", "created", "failed", "threw"}
  /\ order[o].status = "FAILED" => hold[o].status = "RELEASED"

Sound(o) == HoldFits(o) /\ VoucherFits(o) /\ JobFits(o)

IInv == TypeOK /\ (\A o \in Orders : Sound(o)) /\ HoldsAreCovered

(* The rows of an order that no step of another request changes.           *)
Untouched(o) ==
  /\ hold'[o] = hold[o] /\ txn'[o] = txn[o] /\ (Charged(o)' <=> Charged(o))
  /\ order'[o] = order[o] /\ voucher'[o] = voucher[o]
  /\ job'[o] = job[o] /\ at'[o] = at[o]

Active == {o \in Orders : hold[o].status = "ACTIVE"}
OwnHolds == \A o \in Orders : hold[o].status # "NONE" => hold[o].ref = o

-----------------------------------------------------------------------------
LEMMA InitIsGood == Init => IInv
<1> SUFFICES ASSUME Init PROVE IInv
  OBVIOUS
<1>1. /\ balance = 0 /\ ledger = <<>> /\ txn = [o \in Orders |-> NoOrder]
      /\ hold = [o \in Orders |-> [status |-> "NONE", ref |-> CHOOSE r \in Refs : TRUE]]
      /\ voucher = [o \in Orders |-> {}] /\ users = {} /\ job = [o \in Orders |-> P!Idle]
      /\ at = [o \in Orders |-> "start"]
  BY DEF Init, W!Init, P!InitWith
<1>2. PICK k \in [Orders -> {CHOOSE c \in Codes : TRUE}] :
        order = [o \in Orders |-> P!Row("NONE", k[o])]
  BY DEF Init, P!InitWith
<1>3. (CHOOSE c \in Codes : TRUE) \in Codes
  BY SagaAssumption
<1>4. W!TypeOK
  <2>1. ASSUME NEW o \in Orders PROVE (CHOOSE r \in Refs : TRUE) \in Refs
    BY DEF Refs
  <2>2. hold \in [Orders -> [status: W!HoldStatus, ref: Refs]]
    BY <1>1, <2>1 DEF W!HoldStatus
  <2>3. txn \in [Orders -> Orders \cup {NoOrder}] /\ ledger \in Seq(W!Entry)
    BY <1>1
  <2> QED BY <1>1, <2>2, <2>3 DEF W!TypeOK
<1>5. P!TypeOK
  <2>1. order \in [Orders -> P!OrderRow]
    BY <1>2, <1>3 DEF P!Row, P!OrderRow, P!Status, P!FulfillStatus
  <2> QED BY <1>1, <2>1 DEF P!TypeOK
<1>6. ASSUME NEW o \in Orders PROVE Sound(o)
  <2>1. ~Charged(o)
    BY <1>1 DEF Charged, W!HasEntry
  <2>2. order[o].status = "NONE" /\ order[o].fulfill = "PENDING"
    BY <1>2 DEF P!Row
  <2> QED BY <1>1, <2>1, <2>2 DEF Sound, HoldFits, VoucherFits, JobFits
<1>7. HoldsAreCovered
  <2>1. W!HeldRefs = {}
    BY <1>1 DEF W!HeldRefs, W!HoldsIn
  <2> QED BY <1>1, <2>1, SagaAssumption DEF HoldsAreCovered
<1> QED BY <1>1, <1>4, <1>5, <1>6, <1>7 DEF IInv, TypeOK

(* The money on hold is that of the orders whose hold is ACTIVE.           *)
LEMMA HeldAreActive == OwnHolds => W!HeldRefs = Active
BY DEF OwnHolds, W!HeldRefs, W!HoldsIn, Active, Refs

LEMMA HeldNext == OwnHolds' => W!HeldRefs' = Active'
BY DEF OwnHolds, W!HeldRefs, W!HoldsIn, Active, Refs

LEMMA HoldsAreOwn == IInv => OwnHolds
BY DEF IInv, Sound, HoldFits, OwnHolds

(* One more reference in a sum.                                            *)
LEMMA SumWith ==
  ASSUME NEW S \in SUBSET Orders, NEW o \in Orders, o \notin S
  PROVE  /\ Total[S] \in Nat /\ Amount[o] \in Nat /\ Total[S \cup {o}] \in Nat
         /\ Total[S \cup {o}] = Total[S] + Amount[o]
BY SagaAssumption DEF Refs

(* A step of one request: the others need not be looked at.                *)
LEMMA StepIsGood ==
  ASSUME IInv, TypeOK', NEW o \in Orders, \A q \in Orders \ {o} : Untouched(q),
         Sound(o)', HoldsAreCovered'
  PROVE  IInv'
<1>1. ASSUME NEW q \in Orders, q # o PROVE Sound(q)'
  <2>1. Sound(q) /\ Untouched(q)
    BY <1>1 DEF IInv
  <2>2. HoldFits(q)'
    BY <2>1 DEF Sound, Untouched, HoldFits
  <2>3. VoucherFits(q)'
    BY <2>1 DEF Sound, Untouched, VoucherFits
  <2>4. JobFits(q)'
    BY <2>1 DEF Sound, Untouched, JobFits
  <2> QED BY <2>2, <2>3, <2>4 DEF Sound
<1> QED BY <1>1 DEF IInv

(* A step that leaves the wallet alone.                                    *)
LEMMA QuietStepIsGood ==
  ASSUME IInv, P!TypeOK', at' \in [Orders -> {"start"} \cup Running \cup Ended],
         UNCHANGED <<balance, ledger, hold>>, txn' \in [Orders -> Orders \cup {NoOrder}],
         NEW o \in Orders,
         \A q \in Orders \ {o} : /\ txn'[q] = txn[q] /\ order'[q] = order[q]
                                 /\ voucher'[q] = voucher[q] /\ job'[q] = job[q] /\ at'[q] = at[q],
         Sound(o)'
  PROVE  IInv'
<1>1. TypeOK'
  BY DEF IInv, TypeOK, W!TypeOK
<1>2. HoldsAreCovered'
  BY DEF IInv, HoldsAreCovered, W!HeldRefs, W!HoldsIn
<1>3. \A q \in Orders \ {o} : Untouched(q)
  BY DEF Untouched, Charged, W!HasEntry
<1> QED BY <1>1, <1>2, <1>3, StepIsGood

-----------------------------------------------------------------------------
(* The order is created, marked PAID or marked FAILED.                     *)
LEMMA CreateIsGood ==
  ASSUME IInv, NEW o \in Orders, Create(o)
  PROVE  IInv'
<1>1. /\ at[o] = "start" /\ at' = [at EXCEPT ![o] = "reserve"]
      /\ UNCHANGED <<balance, ledger, hold, txn, voucher, users, job>>
  BY DEF Create, Step, walletVars
<1>2. PICK c \in CodeChoices[o] : order' = [order EXCEPT ![o] = P!Row("UNPAID", c)]
  BY DEF Create
<1>3. P!Row("UNPAID", c) \in P!OrderRow
  BY SagaAssumption DEF P!Row, P!OrderRow, P!Status, P!FulfillStatus
<1>4. P!TypeOK'
  BY <1>1, <1>2, <1>3 DEF IInv, TypeOK, P!TypeOK
<1>5. at' \in [Orders -> {"start"} \cup Running \cup Ended] /\ at'[o] = "reserve"
  BY <1>1 DEF IInv, TypeOK, Running
<1>6. order'[o].status = "UNPAID" /\ order'[o].fulfill = "PENDING"
  BY <1>2 DEF IInv, TypeOK, P!TypeOK, P!Row
<1>7. \A q \in Orders \ {o} : at'[q] = at[q] /\ order'[q] = order[q]
  BY <1>1, <1>2 DEF IInv, TypeOK, P!TypeOK
<1>8. Sound(o)'
  BY <1>1, <1>5, <1>6
     DEF IInv, Sound, HoldFits, VoucherFits, JobFits, Charged, W!HasEntry
<1>9. txn' \in [Orders -> Orders \cup {NoOrder}]
  BY <1>1 DEF IInv, TypeOK, W!TypeOK
<1> QED BY <1>1, <1>4, <1>5, <1>7, <1>8, <1>9, QuietStepIsGood

LEMMA StatusIsGood ==
  ASSUME IInv, NEW o \in Orders, NEW s \in P!Status, NEW to \in Running \cup Ended,
         at' = [at EXCEPT ![o] = to], SetStatus(o, s), UNCHANGED walletVars,
         at'[o] = to /\ order'[o] = [order[o] EXCEPT !.status = s] => Sound(o)'
  PROVE  IInv'
<1>1. UNCHANGED <<balance, ledger, hold, txn, voucher, users, job>>
  BY DEF SetStatus, walletVars
<1>2. /\ order' \in [Orders -> P!OrderRow] /\ order'[o] = [order[o] EXCEPT !.status = s]
      /\ \A q \in Orders \ {o} : order'[q] = order[q]
  BY DEF SetStatus, IInv, TypeOK, P!TypeOK, P!OrderRow
<1>3. P!TypeOK'
  BY <1>1, <1>2 DEF IInv, TypeOK, P!TypeOK
<1>4. /\ at' \in [Orders -> {"start"} \cup Running \cup Ended] /\ at'[o] = to
      /\ \A q \in Orders \ {o} : at'[q] = at[q]
  BY DEF IInv, TypeOK
<1>5. txn' \in [Orders -> Orders \cup {NoOrder}]
  BY <1>1 DEF IInv, TypeOK, W!TypeOK
<1> QED BY <1>1, <1>2, <1>3, <1>4, <1>5, QuietStepIsGood

LEMMA MarkPaidIsGood ==
  ASSUME IInv, NEW o \in Orders, MarkPaid(o)
  PROVE  IInv'
<1>1. /\ at[o] = "pay" /\ at' = [at EXCEPT ![o] = "provision"]
      /\ SetStatus(o, "PAID") /\ UNCHANGED walletVars
  BY DEF MarkPaid, Step
<1>2. UNCHANGED <<ledger, hold, txn, voucher, job>> /\ order[o] \in P!OrderRow
  BY <1>1 DEF SetStatus, walletVars, IInv, TypeOK, P!TypeOK
<1>3. at'[o] = "provision" /\ order'[o] = [order[o] EXCEPT !.status = "PAID"] => Sound(o)'
  BY <1>1, <1>2
     DEF IInv, Sound, HoldFits, VoucherFits, JobFits, Charged, W!HasEntry, P!OrderRow
<1> QED BY <1>1, <1>3, StatusIsGood DEF P!Status, Running

LEMMA MarkFailedIsGood ==
  ASSUME IInv, NEW o \in Orders, MarkFailed(o)
  PROVE  IInv'
<1>1. /\ at[o] = "mark_failed" /\ at' = [at EXCEPT ![o] = "failed"]
      /\ SetStatus(o, "FAILED") /\ UNCHANGED walletVars
  BY DEF MarkFailed, Step
<1>2. UNCHANGED <<ledger, hold, txn, voucher, job>> /\ order[o] \in P!OrderRow
  BY <1>1 DEF SetStatus, walletVars, IInv, TypeOK, P!TypeOK
<1>3. at'[o] = "failed" /\ order'[o] = [order[o] EXCEPT !.status = "FAILED"] => Sound(o)'
  BY <1>1, <1>2
     DEF IInv, Sound, HoldFits, VoucherFits, JobFits, Charged, W!HasEntry, P!OrderRow
<1> QED BY <1>1, <1>3, StatusIsGood DEF P!Status, Ended

(* Steps that only move the request.                                       *)
LEMMA MoveIsGood ==
  ASSUME IInv, NEW o \in Orders, Refuse(o) \/ Deliver(o)
  PROVE  IInv'
<1>1. PICK to \in {"refused", "done"} :
        /\ at[o] = (IF to = "refused" THEN "reserve" ELSE "deliver")
        /\ at' = [at EXCEPT ![o] = to]
        /\ UNCHANGED <<balance, ledger, hold, txn, order, voucher, users, job>>
  BY DEF Refuse, Deliver, Step, walletVars, provisioningVars
<1>2. /\ at' \in [Orders -> {"start"} \cup Running \cup Ended] /\ at'[o] = to
      /\ \A q \in Orders \ {o} : at'[q] = at[q]
  BY <1>1 DEF IInv, TypeOK, Ended
<1>3. P!TypeOK' /\ txn' \in [Orders -> Orders \cup {NoOrder}]
  BY <1>1 DEF IInv, TypeOK, P!TypeOK, W!TypeOK
<1>4. Sound(o)'
  BY <1>1, <1>2 DEF IInv, Sound, HoldFits, VoucherFits, JobFits, Charged, W!HasEntry
<1> QED BY <1>1, <1>2, <1>3, <1>4, QuietStepIsGood

-----------------------------------------------------------------------------
(* provisionOrder gets the row as it was just read.                        *)
LEMMA ProvisionIsGood ==
  ASSUME IInv, NEW o \in Orders, Provision(o)
  PROVE  IInv'
<1> DEFINE call == [at |-> "check", order |-> o, copy |-> order[o]]
<1>1. /\ at[o] = "provision" /\ at' = [at EXCEPT ![o] = "provisioning"]
      /\ job' = [job EXCEPT ![o] = call]
      /\ UNCHANGED <<balance, ledger, hold, txn, order, voucher, users>>
  BY DEF Provision, Step, P!Call, walletVars
<1>2. call \in P!Job /\ call # P!Idle
  BY DEF IInv, TypeOK, P!TypeOK, P!Job, P!Steps, P!Idle
<1>3. P!TypeOK' /\ txn' \in [Orders -> Orders \cup {NoOrder}]
  BY <1>1, <1>2 DEF IInv, TypeOK, P!TypeOK, W!TypeOK
<1>4. /\ at' \in [Orders -> {"start"} \cup Running \cup Ended] /\ at'[o] = "provisioning"
      /\ job'[o] = call
      /\ \A q \in Orders \ {o} : at'[q] = at[q] /\ job'[q] = job[q]
  BY <1>1 DEF IInv, TypeOK, P!TypeOK, Running
<1>5. Sound(o)'
  <2>1. HoldFits(o)' /\ VoucherFits(o)'
    BY <1>1, <1>4 DEF IInv, Sound, HoldFits, VoucherFits, Charged, W!HasEntry
  <2>2. JobFits(o)'
    BY <1>1, <1>2, <1>4 DEF IInv, Sound, JobFits
  <2> QED BY <2>1, <2>2 DEF Sound
<1> QED BY <1>1, <1>3, <1>4, <1>5, QuietStepIsGood

(* Where a call may go: it is the request's own, and it stores a voucher   *)
(* when it reports one, and only then.                                     *)
LEMMA WorkIsGood ==
  ASSUME IInv, NEW o \in Orders, at[o] = "provisioning", UNCHANGED <<walletVars, at>>,
         NEW step \in {"router", "fail", "store", "created", "failed", "threw"},
         P!Goto(o, step),
         order' \in [Orders -> P!OrderRow], voucher' \in [Orders -> SUBSET Codes],
         users' \subseteq Routers \X Codes \X Orders,
         \A q \in Orders \ {o} : order'[q] = order[q] /\ voucher'[q] = voucher[q],
         order'[o].status = order[o].status,
         voucher'[o] # {} <=> step = "created"
  PROVE  IInv'
<1>1. /\ job[o] \in P!Job /\ job[o].order = o
      /\ job[o].copy.status = "PAID" /\ job[o].copy.fulfill = "PENDING"
      /\ hold[o].status = "ACTIVE"
  BY DEF IInv, TypeOK, P!TypeOK, Sound, JobFits, HoldFits
<1> DEFINE row == [job[o] EXCEPT !.at = step]
<1>2. /\ row \in P!Job /\ row # P!Idle
      /\ row.at = step /\ row.order = o /\ row.copy = job[o].copy
  BY <1>1 DEF P!Job, P!Steps, P!Results, P!Idle
<1>3. job' = [job EXCEPT ![o] = row]
  BY DEF P!Goto
<1> HIDE DEF row
<1>4. /\ job' \in [Orders -> P!Job \cup {P!Idle}] /\ job'[o] = row
      /\ \A q \in Orders \ {o} : job'[q] = job[q]
  BY <1>2, <1>3 DEF IInv, TypeOK, P!TypeOK
<1>5. P!TypeOK' /\ txn' \in [Orders -> Orders \cup {NoOrder}]
      /\ at' \in [Orders -> {"start"} \cup Running \cup Ended]
  BY <1>4 DEF IInv, TypeOK, P!TypeOK, W!TypeOK, walletVars
<1>6. UNCHANGED <<balance, ledger, hold, txn>>
  BY DEF walletVars
<1>7. Sound(o)'
  <2>1. HoldFits(o)'
    BY <1>6 DEF IInv, Sound, HoldFits, Charged, W!HasEntry
  <2>2. VoucherFits(o)'
    BY <1>1, <1>2, <1>4, <1>6 DEF VoucherFits
  <2>3. JobFits(o)'
    BY <1>1, <1>2, <1>4, <1>6 DEF IInv, Sound, JobFits
  <2> QED BY <2>1, <2>2, <2>3 DEF Sound
<1> QED BY <1>4, <1>5, <1>6, <1>7, QuietStepIsGood

LEMMA ProvisioningIsGood ==
  ASSUME IInv, NEW o \in Orders, Provisioning(o)
  PROVE  IInv'
<1>1. P!Work(o) /\ UNCHANGED <<walletVars, at>>
  BY DEF Provisioning
<1>2. at[o] = "provisioning"
  BY <1>1 DEF P!Work, P!Check, P!Fix, P!ResolveThrows, P!RouterAdds, P!RouterRefuses, P!Fail,
              P!Store, IInv, Sound, JobFits, P!Idle
<1>3. /\ job[o] \in P!Job /\ job[o].order = o /\ job[o].copy \in P!OrderRow
      /\ job[o].copy.status = "PAID" /\ job[o].copy.fulfill = "PENDING"
      /\ job[o].at # "fix" /\ (job[o].at # "created" => voucher[o] = {})
  BY <1>2 DEF IInv, TypeOK, P!TypeOK, Sound, JobFits, VoucherFits, P!Job
<1>4. /\ order \in [Orders -> P!OrderRow] /\ voucher \in [Orders -> SUBSET Codes]
      /\ users \subseteq Routers \X Codes \X Orders
  BY DEF IInv, TypeOK, P!TypeOK
<1>5. CASE P!Check(o)
  <2>1. P!Goto(o, "router") /\ UNCHANGED <<order, voucher, users>> /\ voucher[o] = {}
    BY <1>3, <1>5 DEF P!Check
  <2> QED BY <1>1, <1>2, <1>4, <2>1, WorkIsGood
<1>6. CASE P!RouterAdds(o)
  <2>1. PICK step \in {"store", "fail"} : P!Goto(o, step)
    BY <1>6 DEF P!RouterAdds
  <2>2. /\ UNCHANGED <<order, voucher>> /\ voucher[o] = {}
        /\ users' = users \cup {<<RouterOf[o], job[o].copy.code, o>>}
    BY <1>3, <1>6 DEF P!RouterAdds
  <2>3. users' \subseteq Routers \X Codes \X Orders
    BY <1>3, <1>4, <2>2, SagaAssumption DEF P!OrderRow
  <2> QED BY <1>1, <1>2, <1>4, <2>1, <2>2, <2>3, WorkIsGood
<1>7. CASE P!RouterRefuses(o)
  <2>1. P!Goto(o, "fail") /\ UNCHANGED <<order, voucher, users>> /\ voucher[o] = {}
    BY <1>3, <1>7 DEF P!RouterRefuses
  <2> QED BY <1>1, <1>2, <1>4, <2>1, WorkIsGood
<1>8. CASE P!Fail(o)
  <2>1. /\ P!Goto(o, "failed") /\ UNCHANGED <<voucher, users>> /\ voucher[o] = {}
        /\ order' = [order EXCEPT ![o].fulfill = "FAILED"]
    BY <1>3, <1>8 DEF P!Fail
  <2>2. /\ order' \in [Orders -> P!OrderRow] /\ order'[o].status = order[o].status
        /\ \A q \in Orders \ {o} : order'[q] = order[q]
    BY <1>4, <2>1 DEF P!OrderRow, P!FulfillStatus
  <2> QED BY <1>1, <1>2, <1>4, <2>1, <2>2, WorkIsGood
<1>9. CASE P!Store(o) /\ P!UsernameTaken(job[o].copy.code)
  <2>1. P!Goto(o, "threw") /\ UNCHANGED <<order, voucher, users>> /\ voucher[o] = {}
    BY <1>3, <1>9 DEF P!Store
  <2> QED BY <1>1, <1>2, <1>4, <2>1, WorkIsGood
<1>10. CASE P!Store(o) /\ ~P!UsernameTaken(job[o].copy.code)
  <2>1. /\ P!Goto(o, "created") /\ users' = users
        /\ voucher' = [voucher EXCEPT ![o] = @ \cup {job[o].copy.code}]
        /\ order' = [order EXCEPT ![o].fulfill = "CREATED"]
    BY <1>3, <1>10 DEF P!Store
  <2>2. /\ order' \in [Orders -> P!OrderRow] /\ order'[o].status = order[o].status
        /\ \A q \in Orders \ {o} : order'[q] = order[q]
    BY <1>4, <2>1 DEF P!OrderRow, P!FulfillStatus
  <2>3. /\ voucher' \in [Orders -> SUBSET Codes] /\ voucher'[o] # {}
        /\ \A q \in Orders \ {o} : voucher'[q] = voucher[q]
    BY <1>3, <1>4, <2>1 DEF P!OrderRow
  <2> QED BY <1>1, <1>2, <1>4, <2>1, <2>2, <2>3, WorkIsGood
<1>11. CASE P!ResolveThrows(o)
  <2>1. P!Goto(o, "threw") /\ UNCHANGED <<order, voucher, users>> /\ voucher[o] = {}
    BY <1>3, <1>11 DEF P!ResolveThrows
  <2> QED BY <1>1, <1>2, <1>4, <2>1, WorkIsGood
<1>12. ~P!Fix(o)
  BY <1>3 DEF P!Fix
<1> QED BY <1>1, <1>5, <1>6, <1>7, <1>8, <1>9, <1>10, <1>11, <1>12 DEF P!Work

(* The result decides: a voucher settles, a failure releases, an exception *)
(* does neither.                                                           *)
LEMMA DecideIsGood ==
  ASSUME IInv, NEW o \in Orders, Decide(o)
  PROVE  IInv'
<1>1. /\ at[o] = "provisioning" /\ job[o].at \in P!Results
      /\ job' = [job EXCEPT ![o] = P!Idle]
      /\ UNCHANGED <<balance, ledger, hold, txn, order, voucher, users>>
  BY DEF Decide, DecideTo, P!Return, walletVars
<1>2. job[o].at \in {"created", "failed", "threw"}
  BY <1>1 DEF IInv, Sound, JobFits, P!Results
<1>3. PICK to \in {"settle", "release", "threw"} :
        /\ at' = [at EXCEPT ![o] = to]
        /\ to = "settle" => job[o].at = "created"
        /\ to = "release" => job[o].at = "failed"
  BY <1>2 DEF Decide, DecideTo
<1>4. /\ at' \in [Orders -> {"start"} \cup Running \cup Ended] /\ at'[o] = to
      /\ job'[o] = P!Idle
      /\ \A q \in Orders \ {o} : at'[q] = at[q] /\ job'[q] = job[q]
  BY <1>1, <1>3 DEF IInv, TypeOK, P!TypeOK, Running, Ended
<1>5. P!TypeOK' /\ txn' \in [Orders -> Orders \cup {NoOrder}]
  BY <1>1 DEF IInv, TypeOK, P!TypeOK, W!TypeOK
<1>6. Sound(o)'
  <2>1. Sound(o)
    BY DEF IInv
  <2>2. HoldFits(o)'
    BY <1>1, <1>4, <2>1 DEF Sound, HoldFits, Charged, W!HasEntry
  <2>3. VoucherFits(o)'
    BY <1>1, <1>3, <1>4, <2>1 DEF Sound, VoucherFits
  <2>4. JobFits(o)'
    BY <1>1, <1>4, <2>1 DEF Sound, JobFits
  <2> QED BY <2>2, <2>3, <2>4 DEF Sound
<1> QED BY <1>1, <1>4, <1>5, <1>6, QuietStepIsGood

(* A request that is cut off leaves the rows as they are, and nothing of   *)
(* its own transaction or call.                                            *)
LEMMA DieIsGood ==
  ASSUME IInv, NEW o \in Orders, Die(o)
  PROVE  IInv'
<1>1. at[o] \in Running /\ at' = [at EXCEPT ![o] = "threw"]
  BY DEF Die
<1>2. /\ UNCHANGED <<balance, ledger, hold>>
      /\ txn' = [txn EXCEPT ![o] = NoOrder]
  BY DEF Die, W!SettleRollback, walletVars, IInv, TypeOK, W!TypeOK
<1>3. /\ UNCHANGED <<order, voucher, users>>
      /\ job' = [job EXCEPT ![o] = P!Idle]
  <2>1. job[o] \in P!Job \cup {P!Idle} /\ job \in [Orders -> P!Job \cup {P!Idle}]
    BY DEF IInv, TypeOK, P!TypeOK
  <2>2. CASE job[o].at \in P!Steps \cup P!Results
    BY <2>2 DEF Die, P!Die, P!Return
  <2>3. CASE job[o].at \notin P!Steps \cup P!Results
    <3>1. job[o] = P!Idle
      BY <2>1, <2>3 DEF P!Job
    <3> QED BY <2>1, <2>3, <3>1 DEF Die, provisioningVars
  <2> QED BY <2>2, <2>3
<1>4. /\ at' \in [Orders -> {"start"} \cup Running \cup Ended] /\ at'[o] = "threw"
      /\ txn' \in [Orders -> Orders \cup {NoOrder}] /\ txn'[o] = NoOrder
      /\ job'[o] = P!Idle
      /\ \A q \in Orders \ {o} : at'[q] = at[q] /\ job'[q] = job[q] /\ txn'[q] = txn[q]
  BY <1>1, <1>2, <1>3 DEF IInv, TypeOK, P!TypeOK, W!TypeOK, Ended
<1>5. P!TypeOK'
  BY <1>3 DEF IInv, TypeOK, P!TypeOK
<1>6. Sound(o)'
  BY <1>2, <1>3, <1>4
     DEF IInv, Sound, HoldFits, VoucherFits, JobFits, Charged, W!HasEntry
<1> QED BY <1>2, <1>3, <1>4, <1>5, <1>6, QuietStepIsGood

LEMMA SettleReadIsGood ==
  ASSUME IInv, NEW o \in Orders, SettleRead(o)
  PROVE  IInv'
<1>1. /\ at[o] = "settle" /\ txn' = [txn EXCEPT ![o] = o]
      /\ UNCHANGED <<balance, ledger, hold, order, voucher, users, job, at>>
  BY DEF SettleRead, W!SettleRead, provisioningVars
<1>2. /\ txn' \in [Orders -> Orders \cup {NoOrder}] /\ txn'[o] = o
      /\ \A q \in Orders \ {o} : txn'[q] = txn[q]
  BY <1>1 DEF IInv, TypeOK, W!TypeOK
<1>3. P!TypeOK' /\ at' \in [Orders -> {"start"} \cup Running \cup Ended]
  BY <1>1 DEF IInv, TypeOK, P!TypeOK
<1>4. Sound(o)'
  BY <1>1, <1>2 DEF IInv, Sound, HoldFits, VoucherFits, JobFits, Charged, W!HasEntry
<1> QED BY <1>1, <1>2, <1>3, <1>4, QuietStepIsGood

-----------------------------------------------------------------------------
(* applyEntry: nothing changes, or the entry is there afterwards and the   *)
(* balance has moved by its amount.                                        *)
LEMMA ApplyEntryEffect ==
  ASSUME TypeOK, NEW type \in {"TOPUP", "PURCHASE"}, NEW r \in Refs, W!ApplyEntry(type, r)
  PROVE  /\ balance' \in Nat /\ ledger' \in Seq(W!Entry)
         /\ \A t, s : W!HasEntry(t, s)' <=> W!HasEntry(t, s) \/ (t = type /\ s = r)
         /\ IF W!HasEntry(type, r) THEN balance' = balance
            ELSE IF type = "PURCHASE" THEN balance = balance' + Amount[r]
            ELSE balance' = balance + Amount[r]
<1>1. /\ balance \in Nat /\ ledger \in Seq(W!Entry) /\ Amount[r] \in Nat
  BY SagaAssumption DEF TypeOK, W!TypeOK
<1>2. CASE W!HasEntry(type, r)
  <2>1. balance' = balance /\ ledger' = ledger
    BY <1>2 DEF W!ApplyEntry
  <2> QED BY <1>1, <1>2, <2>1 DEF W!HasEntry
<1>3. CASE ~W!HasEntry(type, r)
  <2> DEFINE e == [type |-> type, ref |-> r, balanceAfter |-> balance']
  <2>1. ledger' = Append(ledger, e)
    BY <1>3 DEF W!ApplyEntry
  <2>2. balance' \in Nat /\ IF type = "PURCHASE" THEN balance = balance' + Amount[r]
                                                ELSE balance' = balance + Amount[r]
    BY <1>1, <1>3 DEF W!ApplyEntry, W!NewBalance
  <2>3. e \in W!Entry /\ e.type = type /\ e.ref = r
    BY <2>2 DEF W!Entry, W!EntryTypes
  <2> HIDE DEF e
  <2>4. /\ ledger' \in Seq(W!Entry) /\ Len(ledger) \in Nat /\ DOMAIN ledger = 1 .. Len(ledger)
        /\ DOMAIN ledger' = 1 .. Len(ledger) + 1
        /\ \A i \in 1 .. Len(ledger) : ledger'[i] = ledger[i]
        /\ ledger'[Len(ledger) + 1] = e
    BY <1>1, <2>1, <2>3
  <2>5. \A t, s : W!HasEntry(t, s)' <=> W!HasEntry(t, s) \/ (t = type /\ s = r)
    BY <2>3, <2>4 DEF W!HasEntry
  <2> QED BY <1>3, <2>2, <2>4, <2>5
<1> QED BY <1>2, <1>3

(* What a hold that appears, or ends, does to the money on hold.           *)
LEMMA ReserveHolds ==
  ASSUME IInv, NEW o \in Orders, Reserve(o)
  PROVE  /\ hold[o].status = "NONE" /\ hold'[o] = [status |-> "ACTIVE", ref |-> o]
         /\ hold' \in [Orders -> [status: W!HoldStatus, ref: Refs]]
         /\ \A q \in Orders \ {o} : hold'[q] = hold[q]
         /\ Total[W!HeldRefs] \in Nat /\ Amount[o] \in Nat
         /\ Total[W!HeldRefs'] = Total[W!HeldRefs] + Amount[o]
<1>1. hold[o].status = "NONE" /\ hold' = [hold EXCEPT ![o] = [status |-> "ACTIVE", ref |-> o]]
  BY DEF Reserve, W!Reserve
<1>2. /\ hold' \in [Orders -> [status: W!HoldStatus, ref: Refs]]
      /\ hold'[o] = [status |-> "ACTIVE", ref |-> o]
      /\ \A q \in Orders \ {o} : hold'[q] = hold[q]
  BY <1>1 DEF IInv, TypeOK, W!TypeOK, W!HoldStatus, Refs
<1>3. OwnHolds' /\ Active' = Active \cup {o} /\ o \notin Active
  BY <1>1, <1>2, HoldsAreOwn DEF OwnHolds, Active
<1>4. W!HeldRefs = Active /\ W!HeldRefs' = Active \cup {o} /\ Active \in SUBSET Orders
  BY <1>3, HoldsAreOwn, HeldAreActive, HeldNext DEF Active
<1>5. Total[Active] \in Nat /\ Amount[o] \in Nat /\ Total[Active \cup {o}] = Total[Active] + Amount[o]
  BY <1>3, <1>4, SumWith
<1> QED BY <1>1, <1>2, <1>4, <1>5

LEMMA EndHolds ==
  ASSUME IInv, NEW o \in Orders, NEW s \in {"SETTLED", "RELEASED"}, hold[o].status = "ACTIVE",
         hold' = [hold EXCEPT ![o].status = s]
  PROVE  /\ hold'[o] = [status |-> s, ref |-> o]
         /\ hold' \in [Orders -> [status: W!HoldStatus, ref: Refs]]
         /\ \A q \in Orders \ {o} : hold'[q] = hold[q]
         /\ Total[W!HeldRefs'] \in Nat /\ Amount[o] \in Nat
         /\ Total[W!HeldRefs] = Total[W!HeldRefs'] + Amount[o]
<1>1. hold \in [Orders -> [status: W!HoldStatus, ref: Refs]] /\ hold[o].ref = o
  BY DEF IInv, TypeOK, W!TypeOK, Sound, HoldFits
<1>2. /\ hold' \in [Orders -> [status: W!HoldStatus, ref: Refs]]
      /\ hold'[o] = [status |-> s, ref |-> o]
      /\ \A q \in Orders \ {o} : hold'[q] = hold[q]
  BY <1>1 DEF W!HoldStatus
<1>3. OwnHolds' /\ Active = Active' \cup {o} /\ o \notin Active'
  BY <1>2, HoldsAreOwn DEF OwnHolds, Active
<1>4. W!HeldRefs = Active' \cup {o} /\ W!HeldRefs' = Active' /\ Active' \in SUBSET Orders
  BY <1>3, HoldsAreOwn, HeldAreActive, HeldNext DEF Active
<1>5. /\ Total[Active'] \in Nat /\ Amount[o] \in Nat
      /\ Total[Active' \cup {o}] = Total[Active'] + Amount[o]
  BY <1>3, <1>4, SumWith
<1> QED BY <1>2, <1>4, <1>5

LEMMA TopUpIsGood ==
  ASSUME IInv, NEW r \in TopUps, TopUp(r)
  PROVE  IInv'
<1>1. W!ApplyEntry("TOPUP", r) /\ UNCHANGED <<hold, txn, order, voucher, users, job, at>>
  BY DEF TopUp, W!Credit, provisioningVars
<1>2. /\ balance' \in Nat /\ ledger' \in Seq(W!Entry)
      /\ \A q \in Orders : Charged(q)' <=> Charged(q)
      /\ balance' = balance \/ balance' = balance + Amount[r]
  BY <1>1, ApplyEntryEffect DEF IInv, Charged, Refs
<1>3. TypeOK'
  BY <1>1, <1>2 DEF IInv, TypeOK, W!TypeOK, P!TypeOK
<1>4. \A q \in Orders : Sound(q)'
  BY <1>1, <1>2 DEF IInv, Sound, HoldFits, VoucherFits, JobFits
<1>5. HoldsAreCovered'
  <2>1. W!HeldRefs' = W!HeldRefs /\ W!HeldRefs \in SUBSET Refs
    BY <1>1 DEF W!HeldRefs, W!HoldsIn
  <2>2. Total[W!HeldRefs] \in Nat /\ Amount[r] \in Nat /\ balance \in Nat
    BY <2>1, SagaAssumption DEF IInv, TypeOK, W!TypeOK, Refs
  <2> QED BY <1>2, <2>1, <2>2 DEF IInv, HoldsAreCovered
<1> QED BY <1>3, <1>4, <1>5 DEF IInv

LEMMA ReserveIsGood ==
  ASSUME IInv, NEW o \in Orders, Reserve(o)
  PROVE  IInv'
<1>1. /\ at[o] = "reserve" /\ at' = [at EXCEPT ![o] = "pay"]
      /\ UNCHANGED <<balance, ledger, txn, order, voucher, users, job>>
      /\ balance >= Total[W!HeldRefs] + Amount[o]
  BY DEF Reserve, Step, W!Reserve, W!Covers, provisioningVars
<1>2. /\ at' \in [Orders -> {"start"} \cup Running \cup Ended] /\ at'[o] = "pay"
      /\ \A q \in Orders \ {o} : at'[q] = at[q]
  BY <1>1 DEF IInv, TypeOK, Running
<1>3. TypeOK'
  BY <1>1, <1>2, ReserveHolds DEF IInv, TypeOK, W!TypeOK, P!TypeOK
<1>4. HoldsAreCovered'
  BY <1>1, ReserveHolds DEF HoldsAreCovered
<1>5. \A q \in Orders \ {o} : Untouched(q)
  BY <1>1, <1>2, ReserveHolds DEF Untouched, Charged, W!HasEntry
<1>6. Sound(o)'
  <2> hold'[o] = [status |-> "ACTIVE", ref |-> o]
    BY ReserveHolds
  <2>1. /\ Sound(o) /\ hold[o].status = "NONE"
        /\ hold'[o].status = "ACTIVE" /\ hold'[o].ref = o
    BY <1>1 DEF IInv, Sound, HoldFits
  <2>2. HoldFits(o)'
    BY <1>1, <1>2, <2>1 DEF Sound, HoldFits, Charged, W!HasEntry
  <2>3. VoucherFits(o)'
    BY <1>1, <1>2, <2>1 DEF Sound, VoucherFits
  <2>4. JobFits(o)'
    BY <1>1, <1>2, <2>1 DEF Sound, JobFits
  <2> QED BY <2>2, <2>3, <2>4 DEF Sound
<1> QED BY <1>3, <1>4, <1>5, <1>6, StepIsGood

LEMMA ReleaseIsGood ==
  ASSUME IInv, NEW o \in Orders, Release(o)
  PROVE  IInv'
<1>1. /\ at[o] = "release" /\ at' = [at EXCEPT ![o] = "mark_failed"]
      /\ hold[o].status = "ACTIVE" /\ hold' = [hold EXCEPT ![o].status = "RELEASED"]
      /\ UNCHANGED <<balance, ledger, txn, order, voucher, users, job>>
  BY DEF Release, Step, W!Release, provisioningVars
<1>2. /\ at' \in [Orders -> {"start"} \cup Running \cup Ended] /\ at'[o] = "mark_failed"
      /\ \A q \in Orders \ {o} : at'[q] = at[q]
  BY <1>1 DEF IInv, TypeOK, Running
<1>3. /\ hold'[o] = [status |-> "RELEASED", ref |-> o]
      /\ hold' \in [Orders -> [status: W!HoldStatus, ref: Refs]]
      /\ \A q \in Orders \ {o} : hold'[q] = hold[q]
      /\ Total[W!HeldRefs'] \in Nat /\ Amount[o] \in Nat
      /\ Total[W!HeldRefs] = Total[W!HeldRefs'] + Amount[o]
  BY <1>1, EndHolds
<1>4. TypeOK'
  BY <1>1, <1>2, <1>3 DEF IInv, TypeOK, W!TypeOK, P!TypeOK
<1>5. HoldsAreCovered'
  BY <1>1, <1>3 DEF IInv, HoldsAreCovered, TypeOK, W!TypeOK
<1>6. \A q \in Orders \ {o} : Untouched(q)
  BY <1>1, <1>2, <1>3 DEF Untouched, Charged, W!HasEntry
<1>7. Sound(o)'
  BY <1>1, <1>2, <1>3
     DEF IInv, Sound, HoldFits, VoucherFits, JobFits, Charged, W!HasEntry
<1> QED BY <1>4, <1>5, <1>6, <1>7, StepIsGood

(* settle's debit: the order is not charged yet, as its hold is ACTIVE,    *)
(* and so exactly the money on hold leaves the balance.                    *)
LEMMA SettleCommitMoney ==
  ASSUME IInv, NEW o \in Orders, SettleCommit(o)
  PROVE  /\ at[o] = "settle" /\ hold[o].status = "ACTIVE"
         /\ hold' = [hold EXCEPT ![o].status = "SETTLED"]
         /\ W!ApplyEntry("PURCHASE", o) /\ ~Charged(o)
         /\ balance = balance' + Amount[o] /\ balance' \in Nat
         /\ txn' = [txn EXCEPT ![o] = NoOrder]
<1>1. at[o] = "settle" /\ W!SettleCommit(o)
  BY DEF SettleCommit, Step
<1>2. txn[o] = o /\ hold[o].status = "ACTIVE" /\ hold[o].ref = o /\ ~Charged(o)
  BY <1>1 DEF W!SettleCommit, IInv, Sound, HoldFits
<1>3. /\ W!ApplyEntry("PURCHASE", o) /\ hold' = [hold EXCEPT ![o].status = "SETTLED"]
      /\ txn' = [txn EXCEPT ![o] = NoOrder]
  BY <1>1, <1>2 DEF W!SettleCommit
<1>4. balance = balance' + Amount[o] /\ balance' \in Nat
  BY <1>2, <1>3, ApplyEntryEffect DEF IInv, Charged, Refs
<1> QED BY <1>1, <1>2, <1>3, <1>4

LEMMA SettleCommitIsGood ==
  ASSUME IInv, NEW o \in Orders, SettleCommit(o)
  PROVE  IInv'
<1>1. /\ at[o] = "settle" /\ at' = [at EXCEPT ![o] = "deliver"]
      /\ UNCHANGED <<order, voucher, users, job>>
  BY DEF SettleCommit, Step, provisioningVars
<1>2. /\ at' \in [Orders -> {"start"} \cup Running \cup Ended] /\ at'[o] = "deliver"
      /\ \A q \in Orders \ {o} : at'[q] = at[q]
  BY <1>1 DEF IInv, TypeOK, Running
<1>3. /\ hold'[o] = [status |-> "SETTLED", ref |-> o]
      /\ hold' \in [Orders -> [status: W!HoldStatus, ref: Refs]]
      /\ \A q \in Orders \ {o} : hold'[q] = hold[q]
      /\ Total[W!HeldRefs'] \in Nat /\ Amount[o] \in Nat
      /\ Total[W!HeldRefs] = Total[W!HeldRefs'] + Amount[o]
  BY SettleCommitMoney, EndHolds
<1>4. /\ txn' \in [Orders -> Orders \cup {NoOrder}] /\ txn'[o] = NoOrder
      /\ \A q \in Orders \ {o} : txn'[q] = txn[q]
  BY SettleCommitMoney DEF IInv, TypeOK, W!TypeOK
<1>5. /\ ledger' \in Seq(W!Entry)
      /\ \A q \in Orders : Charged(q)' <=> Charged(q) \/ q = o
  BY SettleCommitMoney, ApplyEntryEffect DEF IInv, Charged, Refs
<1>6. TypeOK'
  BY <1>1, <1>2, <1>3, <1>4, <1>5, SettleCommitMoney DEF IInv, TypeOK, W!TypeOK, P!TypeOK
<1>7. HoldsAreCovered'
  BY <1>3, SettleCommitMoney DEF IInv, HoldsAreCovered, TypeOK, W!TypeOK
<1>8. \A q \in Orders \ {o} : Untouched(q)
  BY <1>1, <1>2, <1>3, <1>4, <1>5 DEF Untouched
<1>9. Sound(o)'
  BY <1>1, <1>2, <1>3, <1>4, <1>5 DEF IInv, Sound, HoldFits, VoucherFits, JobFits
<1> QED BY <1>6, <1>7, <1>8, <1>9, StepIsGood

-----------------------------------------------------------------------------
LEMMA StepsAreGood == IInv /\ [Next]_vars => IInv'
<1> SUFFICES ASSUME IInv, [Next]_vars PROVE IInv'
  OBVIOUS
<1>1. ASSUME NEW o \in Orders, Advance(o) PROVE IInv'
  BY <1>1, ReserveIsGood, MoveIsGood, MarkPaidIsGood, ProvisionIsGood, ProvisioningIsGood,
     DecideIsGood, SettleReadIsGood, SettleCommitIsGood, ReleaseIsGood, MarkFailedIsGood
     DEF Advance
<1>2. CASE UNCHANGED vars
  <2>1. TypeOK'
    BY <1>2 DEF vars, IInv, TypeOK, W!TypeOK, P!TypeOK
  <2>2. \A o \in Orders : Sound(o)'
    BY <1>2 DEF vars, IInv, Sound, HoldFits, VoucherFits, JobFits, Charged, W!HasEntry
  <2>3. HoldsAreCovered'
    BY <1>2 DEF vars, IInv, HoldsAreCovered, W!HeldRefs, W!HoldsIn
  <2> QED BY <2>1, <2>2, <2>3 DEF IInv
<1> QED BY <1>1, <1>2, TopUpIsGood, CreateIsGood, DieIsGood DEF Next

LEMMA AlwaysSound == Spec => []IInv
BY InitIsGood, StepsAreGood, PTL DEF Spec

-----------------------------------------------------------------------------
(* The money on hold is there, whatever the purchases and top-ups that run *)
(* at the same time: no settle finds too little after its voucher exists.  *)
THEOREM HeldMoneyIsThere == Spec => []HoldsAreCovered
<1>1. IInv => HoldsAreCovered
  BY DEF IInv
<1> QED BY AlwaysSound, <1>1, PTL

(* Whoever got a voucher has paid, or has the money on hold.               *)
THEOREM VouchersAreSecured == Spec => []VoucherIsSecured
<1>1. IInv => VoucherIsSecured
  BY DEF IInv, Sound, HoldFits, VoucherFits, VoucherIsSecured
<1> QED BY AlwaysSound, <1>1, PTL

(* Nobody is charged without a voucher, wherever a request was cut off.    *)
THEOREM NoChargeWithoutVoucher == Spec => []ChargeHasVoucher
<1>1. IInv => ChargeHasVoucher
  BY DEF IInv, Sound, HoldFits, VoucherFits, ChargeHasVoucher
<1> QED BY AlwaysSound, <1>1, PTL

(* A refund, or an order marked FAILED, excludes the sale for good.        *)
THEOREM RefundIsFinal == Spec => []RefundedMeansVoid
<1>1. IInv => RefundedMeansVoid
  BY DEF IInv, Sound, HoldFits, VoucherFits, JobFits, RefundedMeansVoid
<1> QED BY AlwaysSound, <1>1, PTL

-----------------------------------------------------------------------------
(* The saga uses the wallet as the wallet allows: each of its steps is an  *)
(* operation of Wallet or leaves its tables alone, so that what is proved  *)
(* of Wallet for free callers holds here.                                  *)
THEOREM SagaIsACallerOfWallet == Spec => W!Spec
<1>1. Init => W!Init
  BY DEF Init
<1>2. [Next]_vars => [W!Next]_(W!vars)
  <2> SUFFICES ASSUME [Next]_vars PROVE [W!Next]_(W!vars)
    OBVIOUS
  <2>1. ASSUME NEW r \in TopUps, TopUp(r) PROVE W!Next
    BY <2>1 DEF TopUp, W!Next, Refs
  <2>2. ASSUME NEW o \in Orders, Advance(o) PROVE [W!Next]_(W!vars)
    <3>1. CASE Reserve(o)
      BY <3>1 DEF Reserve, W!Next, Refs
    <3>2. CASE SettleRead(o)
      BY <3>2 DEF SettleRead, W!Next
    <3>3. CASE SettleCommit(o)
      BY <3>3 DEF SettleCommit, W!Next
    <3>4. CASE Release(o)
      BY <3>4 DEF Release, W!Next
    <3>5. CASE UNCHANGED walletVars
      BY <3>5 DEF walletVars, W!vars
    <3> QED BY <2>2, <3>1, <3>2, <3>3, <3>4, <3>5
            DEF Advance, Refuse, MarkPaid, Provision, Provisioning, Decide, DecideTo, Deliver,
                MarkFailed
  <2>3. ASSUME NEW o \in Orders, Create(o) PROVE UNCHANGED W!vars
    BY <2>3 DEF Create, walletVars, W!vars
  <2>4. ASSUME NEW o \in Orders, Die(o) PROVE [W!Next]_(W!vars)
    BY <2>4 DEF Die, walletVars, W!vars, W!Next
  <2>5. CASE UNCHANGED vars
    BY <2>5 DEF vars, W!vars
  <2> QED BY <2>1, <2>2, <2>3, <2>4, <2>5 DEF Next
<1> QED BY <1>1, <1>2, PTL DEF Spec, W!Spec

-----------------------------------------------------------------------------
(* The refinement: what each step does to the promise.                     *)
Phase(o) ==
  IF hold[o].status = "RELEASED" THEN "void"
  ELSE IF hold[o].status = "NONE" THEN "none"
  ELSE IF voucher[o] # {} THEN "sold" ELSE "set_aside"

Spendable == balance - Total[W!HeldRefs]
PaidIn == {r \in TopUps : W!HasEntry("TOPUP", r)}

LEMMA PromiseStutters ==
  ASSUME UNCHANGED <<balance, ledger, hold, voucher>>
  PROVE  UNCHANGED Promise!vars
BY DEF Promise!vars, W!HeldRefs, W!HoldsIn, W!HasEntry

(* A step that only one purchase's phase and the money can see.            *)
LEMMA PhaseMoves ==
  ASSUME NEW o \in Orders, NEW from, NEW to, Phase(o) = from, Phase(o)' = to,
         \A q \in Orders \ {o} : hold'[q] = hold[q] /\ voucher'[q] = voucher[q]
  PROVE  Promise!Become(o, from, to)
<1>1. \A q \in Orders \ {o} : Phase(q)' = Phase(q)
  BY DEF Phase
<1>2. [q \in Orders |-> Phase(q)]' = [[q \in Orders |-> Phase(q)] EXCEPT ![o] = to]
  BY <1>1
<1> QED BY <1>2 DEF Promise!Become, Phase

LEMMA PaidInStays ==
  ASSUME \A r \in TopUps : W!HasEntry("TOPUP", r)' <=> W!HasEntry("TOPUP", r)
  PROVE  PaidIn' = PaidIn
BY DEF PaidIn

LEMMA HeldIsNat == IInv => balance \in Nat /\ Total[W!HeldRefs] \in Nat /\ W!HeldRefs \subseteq Refs
<1> SUFFICES ASSUME IInv PROVE Total[W!HeldRefs] \in Nat /\ W!HeldRefs \subseteq Refs
  BY DEF IInv, TypeOK, W!TypeOK
<1>1. W!HeldRefs \in SUBSET Refs
  BY DEF W!HeldRefs
<1> QED BY <1>1, SagaAssumption

LEMMA TopUpRefines ==
  ASSUME IInv, NEW r \in TopUps, TopUp(r)
  PROVE  [Promise!Next]_(Promise!vars)
<1>1. W!ApplyEntry("TOPUP", r) /\ UNCHANGED <<hold, voucher>>
  BY DEF TopUp, W!Credit, provisioningVars
<1>2. CASE W!HasEntry("TOPUP", r)
  <2>1. UNCHANGED <<balance, ledger>>
    BY <1>1, <1>2 DEF W!ApplyEntry
  <2> QED BY <1>1, <2>1, PromiseStutters
<1>3. CASE ~W!HasEntry("TOPUP", r)
  <2>1. /\ balance' = balance + Amount[r]
        /\ \A s \in TopUps : W!HasEntry("TOPUP", s)' <=> W!HasEntry("TOPUP", s) \/ s = r
    BY <1>1, <1>3, ApplyEntryEffect DEF IInv, Refs
  <2>2. W!HeldRefs' = W!HeldRefs /\ Amount[r] \in Nat
    BY <1>1, SagaAssumption DEF W!HeldRefs, W!HoldsIn, Refs
  <2>3. Spendable' = Spendable + Amount[r]
    BY <2>1, <2>2, HeldIsNat DEF Spendable
  <2>4. r \notin PaidIn /\ PaidIn' = PaidIn \cup {r}
    BY <1>3, <2>1 DEF PaidIn
  <2>5. [q \in Orders |-> Phase(q)]' = [q \in Orders |-> Phase(q)]
    BY <1>1 DEF Phase
  <2>6. Promise!TopUp(r)
    BY <2>3, <2>4, <2>5 DEF Promise!TopUp, Spendable, PaidIn, Phase
  <2> QED BY <2>6 DEF Promise!Next
<1> QED BY <1>2, <1>3

LEMMA ReserveRefines ==
  ASSUME IInv, NEW o \in Orders, Reserve(o)
  PROVE  Promise!SetAside(o)
<1>1. /\ at[o] = "reserve" /\ balance >= Total[W!HeldRefs] + Amount[o]
      /\ UNCHANGED <<balance, ledger, voucher>>
  BY DEF Reserve, Step, W!Reserve, W!Covers, provisioningVars
<1>2. voucher[o] = {}
  BY <1>1 DEF IInv, Sound, VoucherFits
<1>a. /\ hold[o].status = "NONE" /\ hold'[o] = [status |-> "ACTIVE", ref |-> o]
      /\ \A q \in Orders \ {o} : hold'[q] = hold[q]
      /\ Total[W!HeldRefs] \in Nat /\ Amount[o] \in Nat
      /\ Total[W!HeldRefs'] = Total[W!HeldRefs] + Amount[o]
  BY ReserveHolds
<1>b. hold'[o].status = "ACTIVE"
  BY <1>a
<1>3. Spendable >= Amount[o] /\ Spendable' = Spendable - Amount[o]
  BY <1>1, <1>a, HeldIsNat DEF Spendable
<1>4. PaidIn' = PaidIn
  BY <1>1 DEF PaidIn, W!HasEntry
<1>5. Promise!Become(o, "none", "set_aside")
  <2>1. Phase(o) = "none" /\ Phase(o)' = "set_aside"
    BY <1>1, <1>2, <1>a, <1>b DEF Phase
  <2> QED BY <1>1, <2>1, <1>a, PhaseMoves
<1> QED BY <1>3, <1>4, <1>5 DEF Promise!SetAside, Spendable, PaidIn

LEMMA ReleaseRefines ==
  ASSUME IInv, NEW o \in Orders, Release(o)
  PROVE  Promise!Refund(o)
<1>1. /\ at[o] = "release" /\ UNCHANGED <<balance, ledger, voucher>>
      /\ hold[o].status = "ACTIVE" /\ hold' = [hold EXCEPT ![o].status = "RELEASED"]
  BY DEF Release, Step, W!Release, provisioningVars
<1>2. voucher[o] = {}
  BY <1>1 DEF IInv, Sound, VoucherFits
<1>a. /\ hold'[o] = [status |-> "RELEASED", ref |-> o]
      /\ \A q \in Orders \ {o} : hold'[q] = hold[q]
      /\ Total[W!HeldRefs'] \in Nat /\ Amount[o] \in Nat
      /\ Total[W!HeldRefs] = Total[W!HeldRefs'] + Amount[o]
  BY <1>1, EndHolds
<1>3. /\ hold'[o].status = "RELEASED" /\ \A q \in Orders \ {o} : hold'[q] = hold[q]
      /\ Total[W!HeldRefs'] \in Nat /\ Amount[o] \in Nat
      /\ Total[W!HeldRefs] = Total[W!HeldRefs'] + Amount[o]
  BY <1>a
<1>4. Spendable' = Spendable + Amount[o]
  BY <1>1, <1>3, HeldIsNat DEF Spendable
<1>5. PaidIn' = PaidIn
  BY <1>1 DEF PaidIn, W!HasEntry
<1>6. Promise!Become(o, "set_aside", "void")
  <2>1. Phase(o) = "set_aside" /\ Phase(o)' = "void"
    BY <1>1, <1>2, <1>3 DEF Phase
  <2> QED BY <1>1, <1>3, <2>1, PhaseMoves
<1> QED BY <1>4, <1>5, <1>6 DEF Promise!Refund, Spendable, PaidIn

(* Settling spends what was set aside, and nothing more.                   *)
LEMMA SettleCommitRefines ==
  ASSUME IInv, NEW o \in Orders, SettleCommit(o)
  PROVE  UNCHANGED Promise!vars
<1>1. /\ at[o] = "settle" /\ hold[o].status = "ACTIVE"
      /\ hold' = [hold EXCEPT ![o].status = "SETTLED"]
      /\ balance = balance' + Amount[o] /\ balance' \in Nat /\ W!ApplyEntry("PURCHASE", o)
  BY SettleCommitMoney
<1>2. voucher' = voucher /\ voucher[o] # {}
  BY <1>1 DEF SettleCommit, provisioningVars, IInv, Sound, VoucherFits
<1>a. /\ hold'[o] = [status |-> "SETTLED", ref |-> o]
      /\ \A q \in Orders \ {o} : hold'[q] = hold[q]
      /\ Total[W!HeldRefs'] \in Nat /\ Amount[o] \in Nat
      /\ Total[W!HeldRefs] = Total[W!HeldRefs'] + Amount[o]
  BY <1>1, EndHolds
<1>3. /\ hold'[o].status = "SETTLED" /\ \A q \in Orders \ {o} : hold'[q] = hold[q]
      /\ Total[W!HeldRefs'] \in Nat /\ Amount[o] \in Nat
      /\ Total[W!HeldRefs] = Total[W!HeldRefs'] + Amount[o]
  BY <1>a
<1>4. Spendable' = Spendable
  BY <1>1, <1>3 DEF Spendable
<1>5. PaidIn' = PaidIn
  BY <1>1, ApplyEntryEffect, PaidInStays DEF IInv, Refs
<1>6. [q \in Orders |-> Phase(q)]' = [q \in Orders |-> Phase(q)]
  <2>1. \A q \in Orders : Phase(q)' = Phase(q)
    BY <1>1, <1>2, <1>3 DEF Phase
  <2> QED BY <2>1
<1> QED BY <1>4, <1>5, <1>6 DEF Promise!vars, Spendable, PaidIn, Phase

(* A purchase is a sale from the moment its voucher is stored.             *)
LEMMA ProvisioningRefines ==
  ASSUME IInv, NEW o \in Orders, Provisioning(o)
  PROVE  Promise!Sell(o) \/ UNCHANGED Promise!vars
<1>1. P!Work(o) /\ UNCHANGED <<balance, ledger, hold>>
  BY DEF Provisioning, walletVars
<1>2. CASE voucher' = voucher
  BY <1>1, <1>2, PromiseStutters
<1>3. CASE voucher' # voucher
  <2>1. P!Store(o) /\ voucher' = [voucher EXCEPT ![job[o].order] = @ \cup {job[o].copy.code}]
    BY <1>1, <1>3 DEF P!Work, P!Check, P!Fix, P!ResolveThrows, P!RouterAdds,
                       P!RouterRefuses, P!Fail, P!Store
  <2>2. at[o] = "provisioning" /\ job[o].at = "store"
    BY <2>1 DEF P!Store, IInv, Sound, JobFits, P!Idle
  <2>3. job[o].order = o /\ voucher[o] = {} /\ hold[o].status = "ACTIVE"
    BY <2>2 DEF IInv, Sound, JobFits, VoucherFits, HoldFits
  <2>4. voucher'[o] # {} /\ \A q \in Orders \ {o} : voucher'[q] = voucher[q]
    BY <2>1, <2>3 DEF IInv, TypeOK, P!TypeOK
  <2>5. Phase(o) = "set_aside" /\ Phase(o)' = "sold"
    BY <1>1, <2>3, <2>4 DEF Phase
  <2>6. Promise!Become(o, "set_aside", "sold")
    BY <1>1, <2>4, <2>5, PhaseMoves
  <2>7. Spendable' = Spendable /\ PaidIn' = PaidIn
    BY <1>1 DEF Spendable, PaidIn, W!HeldRefs, W!HoldsIn, W!HasEntry
  <2> QED BY <2>6, <2>7 DEF Promise!Sell, Spendable, PaidIn
<1> QED BY <1>2, <1>3

LEMMA StepsRefine == IInv /\ [Next]_vars => [Promise!Next]_(Promise!vars)
<1> SUFFICES ASSUME IInv, [Next]_vars PROVE [Promise!Next]_(Promise!vars)
  OBVIOUS
<1>1. ASSUME NEW o \in Orders, Advance(o) PROVE [Promise!Next]_(Promise!vars)
  <2>1. CASE Reserve(o)
    BY <2>1, ReserveRefines DEF Promise!Next
  <2>2. CASE Release(o)
    BY <2>2, ReleaseRefines DEF Promise!Next
  <2>3. CASE SettleCommit(o)
    BY <2>3, SettleCommitRefines
  <2>4. CASE Provisioning(o)
    BY <2>4, ProvisioningRefines DEF Promise!Next
  <2>5. CASE UNCHANGED <<balance, ledger, hold, voucher>>
    BY <2>5, PromiseStutters
  <2> QED BY <1>1, <2>1, <2>2, <2>3, <2>4, <2>5
          DEF Advance, Refuse, MarkPaid, SetStatus, Provision, P!Call, Decide, DecideTo, P!Return,
              SettleRead, W!SettleRead, Deliver, MarkFailed, walletVars, provisioningVars
<1>2. ASSUME NEW o \in Orders, Create(o) \/ Die(o) PROVE UNCHANGED Promise!vars
  <2>1. UNCHANGED <<balance, ledger, hold, voucher>>
    BY <1>2 DEF Create, Die, W!SettleRollback, P!Die, P!Return, walletVars, provisioningVars
  <2> QED BY <2>1, PromiseStutters
<1>3. CASE UNCHANGED vars
  BY <1>3, PromiseStutters DEF vars
<1> QED BY <1>1, <1>2, <1>3, TopUpRefines DEF Next

(* The saga implements the promise: money is set aside, and then kept for  *)
(* a sale or given back, never both, and never counted on twice.           *)
THEOREM SagaImplementsPromise == Spec => ImplementsPromise
<1>1. Init => Promise!Init
  <2> SUFFICES ASSUME Init PROVE Promise!Init
    OBVIOUS
  <2>1. /\ balance = 0 /\ ledger = <<>> /\ \A o \in Orders : hold[o].status = "NONE"
    BY DEF Init, W!Init
  <2>2. W!HeldRefs = {} /\ PaidIn = {}
    BY <2>1 DEF W!HeldRefs, W!HoldsIn, PaidIn, W!HasEntry
  <2>3. [q \in Orders |-> Phase(q)] = [q \in Orders |-> "none"]
    BY <2>1 DEF Phase
  <2> QED BY <2>1, <2>2, <2>3, SagaAssumption DEF Promise!Init, PaidIn, Phase
<1> QED BY <1>1, StepsRefine, AlwaysSound, PTL DEF Spec, ImplementsPromise, Promise!Spec
=============================================================================
