-------------------------- MODULE FulfilmentProofs --------------------------
(***************************************************************************)
(* Theorems about Fulfilment, for any numbers of sales, top-ups, webhooks, *)
(* routers and codes, wherever calls stop: an order gets its voucher or    *)
(* its credit once, only for money, and wa_sent means that a voucher that  *)
(* opens the router was sent.                                              *)
(*                                                                         *)
(* All calls work on a copy.  What they take from it - the order's code,   *)
(* that it was paid - never changes back, whatever the other calls do.     *)
(***************************************************************************)
EXTENDS Fulfilment, TLAPS

Busy == [at: Steps, order: Orders, copy: P!OrderRow, sent: BOOLEAN, owned: BOOLEAN]

Typed ==
  /\ balance \in Nat /\ ledger \in Seq(W!Entry)
  /\ order \in [Orders -> P!OrderRow]
  /\ voucher \in [Orders -> SUBSET Codes]
  /\ job \in [Callers -> P!Job \cup {P!Idle}]
  /\ money \subseteq Orders /\ listed \subseteq money
  /\ payment \in [Orders -> {"PENDING", "PAID", "EXPIRED"}]
  /\ conf \in [Callers -> Busy \cup {Idle}]
  /\ waSent \in [Orders -> BOOLEAN]
  /\ told \in [Orders -> 0..2]

Paid(o) == o \in money /\ payment[o] # "PENDING" /\ order[o].status = "PAID"
Opens(o) == <<RouterOf[o], order[o].code, o>> \in users

(* What a confirmation has done so far, by the step it is about to take.   *)
CallIsSound(c) ==
  conf[c].at # "idle" =>
     LET o == conf[c].order
     IN /\ o \in money
        /\ conf[c].copy.code = order[o].code
        /\ conf[c].copy.status = "PAID" => order[o].status = "PAID"
        /\ conf[c].at # "mark" => payment[o] # "PENDING"
        /\ conf[c].at \in {"credit", "call", "provisioning"} => Paid(o)
        /\ conf[c].at = "credit" => o \in TopUps
        /\ conf[c].at = "mark_sent" => told[o] > 0 /\ voucher[o] # {}

(* The call of provisionOrder belongs to the confirmation.                 *)
JobIsSound(c) ==
  job[c].at # "idle" =>
     /\ conf[c].at = "provisioning"
     /\ job[c].order = conf[c].order
     /\ job[c].copy.code = order[job[c].order].code
     /\ job[c].at = "store" => Opens(job[c].order)

(* What an order has got.                                                  *)
OrderIsSound(o) ==
  /\ voucher[o] \subseteq {order[o].code}
  /\ voucher[o] # {} => Paid(o) /\ Opens(o)
  /\ o \in TopUps /\ Credited(o) => Paid(o)
  /\ waSent[o] => told[o] > 0 /\ voucher[o] # {}

BalanceIsSound == balance = Total[{t \in TopUps : Credited(t)}]

IInv ==
  /\ Typed
  /\ \A c \in Callers : CallIsSound(c) /\ JobIsSound(c)
  /\ \A o \in Orders : OrderIsSound(o)
  /\ BalanceIsSound

(* What no step takes back.                                                *)
Grows ==
  /\ money \subseteq money' /\ users \subseteq users'
  /\ \A o \in Orders :
        /\ order'[o].code = order[o].code
        /\ order[o].status = "PAID" => order'[o].status = "PAID"
        /\ payment[o] # "PENDING" => payment'[o] # "PENDING"
        /\ voucher[o] \subseteq voucher'[o]
        /\ told[o] > 0 => told'[o] > 0

-----------------------------------------------------------------------------
LEMMA PaidStays ==
  ASSUME Grows, NEW o \in Orders
  PROVE  (Paid(o) => Paid(o)') /\ (Opens(o) => Opens(o)')
BY DEF Grows, Paid, Opens

LEMMA BusyHasOrder ==
  ASSUME IInv, NEW c \in Callers, conf[c].at # "idle"
  PROVE  conf[c] \in Busy /\ conf[c].order \in Orders /\ conf[c].copy \in P!OrderRow
BY DEF IInv, Typed, Busy, Idle

LEMMA JobHasOrder ==
  ASSUME IInv, NEW c \in Callers, job[c].at # "idle"
  PROVE  /\ job[c] \in P!Job /\ job[c].order \in Orders /\ job[c].copy \in P!OrderRow
         /\ job[c].order = conf[c].order /\ conf[c].at = "provisioning"
BY DEF IInv, Typed, P!Job, P!Idle, JobIsSound

(* The calls that do not move stay sound.                                  *)
LEMMA OthersStaySound ==
  ASSUME IInv, Grows, NEW c \in Callers, conf'[c] = conf[c], job'[c] = job[c]
  PROVE  CallIsSound(c)' /\ JobIsSound(c)'
<1>1. CallIsSound(c)'
  <2> SUFFICES ASSUME conf[c].at # "idle" PROVE CallIsSound(c)'
    BY DEF CallIsSound
  <2>1. conf[c].order \in Orders
    BY BusyHasOrder
  <2>2. CallIsSound(c)
    BY DEF IInv
  <2> QED BY <2>1, <2>2 DEF CallIsSound, Grows, Paid
<1>2. JobIsSound(c)'
  <2> SUFFICES ASSUME job[c].at # "idle" PROVE JobIsSound(c)'
    BY DEF JobIsSound
  <2>1. job[c].order \in Orders
    BY JobHasOrder
  <2>2. JobIsSound(c)
    BY DEF IInv
  <2> QED BY <2>1, <2>2 DEF JobIsSound, Grows, Opens
<1> QED BY <1>1, <1>2

(* A step that credits nothing: what it adds must be backed.               *)
LEMMA StepIsGood ==
  ASSUME IInv, Typed', Grows, balance' = balance, ledger' = ledger,
         \A c \in Callers : \/ conf'[c] = conf[c] /\ job'[c] = job[c]
                            \/ CallIsSound(c)' /\ JobIsSound(c)',
         \A o \in Orders :
            \/ voucher'[o] = voucher[o]
            \/ voucher'[o] \subseteq {order[o].code} /\ Paid(o) /\ Opens(o),
         \A o \in Orders : waSent'[o] => waSent[o] \/ (told'[o] > 0 /\ voucher'[o] # {})
  PROVE  IInv'
<1>1. \A c \in Callers : CallIsSound(c)' /\ JobIsSound(c)'
  BY OthersStaySound
<1>2. \A o \in Orders : Credited(o)' <=> Credited(o)
  BY DEF Credited, W!HasEntry
<1>3. BalanceIsSound'
  BY DEF IInv, BalanceIsSound, Credited, W!HasEntry
<1>4. ASSUME NEW o \in Orders PROVE OrderIsSound(o)'
  <2>1. OrderIsSound(o)
    BY DEF IInv
  <2>2. voucher'[o] \subseteq {order'[o].code}
    BY <2>1 DEF OrderIsSound, Grows
  <2>3. voucher'[o] # {} => Paid(o)' /\ Opens(o)'
    BY <2>1, PaidStays DEF OrderIsSound
  <2>4. o \in TopUps /\ Credited(o)' => Paid(o)'
    BY <1>2, <2>1, PaidStays DEF OrderIsSound
  <2>5. waSent'[o] => told'[o] > 0 /\ voucher'[o] # {}
    BY <2>1 DEF OrderIsSound, Grows
  <2> QED BY <2>2, <2>3, <2>4, <2>5 DEF OrderIsSound
<1> QED BY <1>1, <1>3, <1>4 DEF IInv

-----------------------------------------------------------------------------
LEMMA InitIsGood == Init => IInv
<1> SUFFICES ASSUME Init PROVE IInv
  OBVIOUS
<1>1. PICK k \in [Orders -> Codes] :
        /\ order = [o \in Orders |->
                     IF o \in Delivered THEN [P!Row("PAID", k[o]) EXCEPT !.fulfill = "CREATED"]
                     ELSE P!Row("UNPAID", k[o])]
        /\ voucher = [o \in Orders |-> IF o \in Delivered THEN {k[o]} ELSE {}]
        /\ users = {<<RouterOf[o], k[o], o>> : o \in Delivered}
  BY DEF Init
<1>2. /\ payment = [o \in Orders |-> IF o \in Delivered THEN "PAID" ELSE "PENDING"]
      /\ balance = 0 /\ ledger = <<>> /\ money = Delivered /\ listed = {}
      /\ job = [c \in Callers |-> P!Idle] /\ conf = [c \in Callers |-> Idle]
      /\ waSent = [o \in Orders |-> o \in Delivered]
      /\ told = [o \in Orders |-> IF o \in Delivered THEN 1 ELSE 0]
  BY DEF Init, W!Init
<1>3. Delivered \subseteq Orders
  BY FulfilmentAssumption DEF Orders
<1>4. \A o \in Orders : /\ order[o].code = k[o] /\ order[o] \in P!OrderRow
                        /\ o \in Delivered => order[o].status = "PAID"
  BY <1>1 DEF P!Row, P!OrderRow, P!Status, P!FulfillStatus
<1>5. Typed
  <2>1. order \in [Orders -> P!OrderRow]
    BY <1>1, <1>4
  <2>2. /\ balance \in Nat /\ ledger \in Seq(W!Entry) /\ voucher \in [Orders -> SUBSET Codes]
        /\ payment \in [Orders -> {"PENDING", "PAID", "EXPIRED"}]
    BY <1>1, <1>2
  <2>3. told \in [Orders -> 0..2]
    BY <1>2
  <2>4. waSent \in [Orders -> BOOLEAN]
    BY <1>2
  <2> QED BY <1>2, <1>3, <2>1, <2>2, <2>3, <2>4 DEF Typed
<1>6. \A c \in Callers : CallIsSound(c) /\ JobIsSound(c)
  BY <1>2 DEF CallIsSound, JobIsSound, Idle, P!Idle
<1>7. \A o \in Orders : ~Credited(o)
  BY <1>2 DEF Credited, W!HasEntry
<1>8. BalanceIsSound
  <2>1. {t \in TopUps : Credited(t)} = {}
    BY <1>7 DEF Orders
  <2> QED BY <1>2, <2>1, FulfilmentAssumption DEF BalanceIsSound
<1>9. ASSUME NEW o \in Orders PROVE OrderIsSound(o)
  <2>1. CASE o \in Delivered
    <3>1. voucher[o] = {k[o]} /\ payment[o] = "PAID" /\ <<RouterOf[o], k[o], o>> \in users
      BY <1>1, <1>2, <2>1
    <3>2. o \in money /\ told[o] > 0
      BY <1>2, <2>1
    <3> QED BY <1>4, <1>7, <2>1, <3>1, <3>2 DEF OrderIsSound, Paid, Opens
  <2>2. CASE o \notin Delivered
    BY <1>1, <1>2, <1>7, <2>2 DEF OrderIsSound
  <2> QED BY <2>1, <2>2
<1> QED BY <1>5, <1>6, <1>8, <1>9 DEF IInv
-----------------------------------------------------------------------------
(* The vouchers and messages stay as they are.                             *)
LEMMA QuietStepIsGood ==
  ASSUME IInv, Typed', Grows, UNCHANGED <<balance, ledger, voucher, messageVars>>,
         \A c \in Callers : \/ conf'[c] = conf[c] /\ job'[c] = job[c]
                            \/ CallIsSound(c)' /\ JobIsSound(c)'
  PROVE  IInv'
BY StepIsGood DEF messageVars

LEMMA PayIsGood ==
  ASSUME IInv, NEW o \in Orders, Pay(o)
  PROVE  IInv'
<1>1. /\ money' = money \cup {o}
      /\ UNCHANGED <<balance, ledger, order, voucher, users, job, payment, listed, conf,
                     waSent, told>>
  BY DEF Pay, walletVars, provisioningVars, cycleVars, messageVars
<1>2. Typed'
  BY <1>1 DEF IInv, Typed
<1>3. Grows
  BY <1>1 DEF Grows
<1> QED BY <1>1, <1>2, <1>3, QuietStepIsGood DEF messageVars

(* A confirmation begins, of an order whose money has come.                *)
LEMMA BeginIsGood ==
  ASSUME IInv, NEW c \in Callers, NEW o \in money, Begin(c, o), listed' \subseteq money
  PROVE  IInv'
<1> DEFINE row == [at |-> "mark", order |-> o, copy |-> P!Row("UNPAID", order[o].code),
                   sent |-> FALSE, owned |-> FALSE]
<1>1. /\ conf' = [conf EXCEPT ![c] = row]
      /\ conf[c] = Idle
      /\ UNCHANGED <<balance, ledger, order, voucher, users, job, money, payment, waSent, told>>
  BY DEF Begin, walletVars, provisioningVars, cycleVars, messageVars
<1>2. o \in Orders /\ order[o] \in P!OrderRow
  BY DEF IInv, Typed
<1>3. row \in Busy
  BY <1>2 DEF Busy, Steps, P!Row, P!OrderRow, P!Status, P!FulfillStatus
<1>4. Typed'
  BY <1>1, <1>3 DEF IInv, Typed
<1>5. Grows
  BY <1>1 DEF Grows
<1>6. job[c].at = "idle"
  BY <1>1 DEF IInv, JobIsSound, Idle
<1>7. conf'[c] = row
  BY <1>1, <1>3 DEF IInv, Typed
<1>8. CallIsSound(c)' /\ JobIsSound(c)'
  BY <1>1, <1>2, <1>6, <1>7 DEF CallIsSound, JobIsSound, P!Row
<1>9. \A d \in Callers \ {c} : conf'[d] = conf[d] /\ job'[d] = job[d]
  BY <1>1, <1>3 DEF IInv, Typed
<1> QED BY <1>1, <1>4, <1>5, <1>8, <1>9, QuietStepIsGood DEF messageVars

LEMMA ListIsGood ==
  ASSUME IInv, List
  PROVE  IInv'
<1>1. /\ listed' \subseteq money
      /\ UNCHANGED <<balance, ledger, order, voucher, users, job, money, payment, conf,
                     waSent, told>>
  BY DEF List, Pending, walletVars, provisioningVars, cycleVars, messageVars
<1>2. Typed'
  BY <1>1 DEF IInv, Typed
<1>3. Grows
  BY <1>1 DEF Grows
<1> QED BY <1>1, <1>2, <1>3, QuietStepIsGood DEF messageVars

LEMMA ExpirePaymentIsGood ==
  ASSUME IInv, NEW o \in Orders, ExpirePayment(o)
  PROVE  IInv'
<1>1. /\ payment' = [payment EXCEPT ![o] = "EXPIRED"]
      /\ UNCHANGED <<balance, ledger, order, voucher, users, job, money, listed, conf,
                     waSent, told>>
  BY DEF ExpirePayment, walletVars, provisioningVars, messageVars
<1>2. Typed'
  BY <1>1 DEF IInv, Typed
<1>3. Grows
  BY <1>1 DEF Grows, IInv, Typed
<1> QED BY <1>1, <1>2, <1>3, QuietStepIsGood DEF messageVars

LEMMA ExpireOrderIsGood ==
  ASSUME IInv, NEW o \in Orders, ExpireOrder(o)
  PROVE  IInv'
<1>1. /\ order' = [order EXCEPT ![o].status = IF @ = "UNPAID" THEN "EXPIRED" ELSE @]
      /\ UNCHANGED <<balance, ledger, voucher, users, job, money, payment, listed, conf,
                     waSent, told>>
  BY DEF ExpireOrder, walletVars, messageVars
<1>2. /\ order' \in [Orders -> P!OrderRow]
      /\ \A q \in Orders : /\ order'[q].code = order[q].code
                           /\ order[q].status = "PAID" => order'[q].status = "PAID"
  BY <1>1 DEF IInv, Typed, P!OrderRow, P!Status
<1>3. Typed'
  BY <1>1, <1>2 DEF IInv, Typed
<1>4. Grows
  BY <1>1, <1>2 DEF Grows
<1> QED BY <1>1, <1>3, <1>4, QuietStepIsGood DEF messageVars

(* With the owner goes the account: nothing is credited any more.          *)
LEMMA DeleteOwnerIsGood ==
  ASSUME IInv, DeleteOwner
  PROVE  IInv'
<1>1. /\ balance' = 0 /\ ledger' = <<>>
      /\ UNCHANGED <<order, voucher, users, job, money, payment, listed, conf, waSent, told>>
  BY DEF DeleteOwner, provisioningVars, cycleVars, messageVars
<1>2. Typed'
  <2>1. balance' \in Nat /\ ledger' \in Seq(W!Entry)
    BY <1>1
  <2> QED BY <1>1, <2>1 DEF IInv, Typed
<1>3. Grows
  BY <1>1 DEF Grows
<1>4. \A c \in Callers : CallIsSound(c)' /\ JobIsSound(c)'
  BY <1>1, <1>3, OthersStaySound
<1>5. \A o \in Orders : ~Credited(o)'
  BY <1>1 DEF Credited, W!HasEntry
<1>6. BalanceIsSound'
  <2>1. {t \in TopUps : Credited(t)'} = {}
    BY <1>5 DEF Orders
  <2> QED BY <1>1, <2>1, FulfilmentAssumption DEF BalanceIsSound
<1>7. ASSUME NEW o \in Orders PROVE OrderIsSound(o)'
  <2>1. OrderIsSound(o)
    BY DEF IInv
  <2> QED BY <1>1, <1>5, <2>1 DEF OrderIsSound, Paid, Opens
<1> QED BY <1>2, <1>4, <1>6, <1>7 DEF IInv

(* A step of one call that leaves the routers' side alone.                 *)
LEMMA OwnStepIsGood ==
  ASSUME IInv, NEW c \in Callers, conf[c].at # "idle", NEW row, row \in Busy \cup {Idle},
         conf' = [conf EXCEPT ![c] = row], Typed', Grows,
         UNCHANGED <<balance, ledger, voucher, users, job, messageVars>>,
         conf'[c] = row => CallIsSound(c)' /\ JobIsSound(c)'
  PROVE  IInv'
<1>1. conf'[c] = row
  BY DEF IInv, Typed
<1>2. \A d \in Callers \ {c} : conf'[d] = conf[d] /\ job'[d] = job[d]
  BY DEF IInv, Typed
<1> QED BY <1>1, <1>2, QuietStepIsGood

LEMMA NoJob ==
  ASSUME IInv, NEW c \in Callers, conf[c].at # "provisioning"
  PROVE  job[c].at = "idle"
BY DEF IInv, JobIsSound

LEMMA MarkPaidIsGood ==
  ASSUME IInv, NEW c \in Callers, MarkPaid(c)
  PROVE  IInv'
<1> DEFINE o == conf[c].order
           row == [conf[c] EXCEPT !.at = "load"]
<1>1. /\ conf[c].at = "mark" /\ payment' = [payment EXCEPT ![o] = "PAID"]
      /\ conf' = [conf EXCEPT ![c].at = "load"]
      /\ UNCHANGED <<balance, ledger, order, voucher, users, job, money, listed, waSent, told>>
  BY DEF MarkPaid, At, GoTo, walletVars, provisioningVars, cycleVars, messageVars
<1>2. conf[c] \in Busy /\ o \in Orders /\ CallIsSound(c) /\ job[c].at = "idle"
  BY <1>1, BusyHasOrder, NoJob DEF IInv
<1>3. /\ row \in Busy /\ row.at = "load" /\ row.order = o /\ row.copy = conf[c].copy
      /\ conf' = [conf EXCEPT ![c] = row]
  BY <1>1, <1>2 DEF Busy, Steps
<1> HIDE DEF row
<1>4. /\ payment'[o] = "PAID"
      /\ \A q \in Orders : payment[q] # "PENDING" => payment'[q] # "PENDING"
  BY <1>1, <1>2 DEF IInv, Typed
<1>5. Typed'
  <2>1. payment' \in [Orders -> {"PENDING", "PAID", "EXPIRED"}]
    BY <1>1, <1>2 DEF IInv, Typed
  <2>2. conf' \in [Callers -> Busy \cup {Idle}]
    BY <1>3 DEF IInv, Typed
  <2>3. UNCHANGED <<balance, ledger, order, voucher, users, job, money, listed, waSent, told>>
    BY <1>1
  <2> QED BY <2>1, <2>2, <2>3 DEF IInv, Typed
<1>6. Grows
  BY <1>1, <1>4 DEF Grows
<1>7. conf'[c] = row => CallIsSound(c)' /\ JobIsSound(c)'
  BY <1>1, <1>2, <1>3, <1>4 DEF CallIsSound, JobIsSound
<1> QED BY <1>1, <1>3, <1>5, <1>6, <1>7, OwnStepIsGood DEF messageVars

LEMMA LoadIsGood ==
  ASSUME IInv, NEW c \in Callers, Load(c)
  PROVE  IInv'
<1> DEFINE o == conf[c].order
           row == [conf[c] EXCEPT !.at = "pay", !.copy = order[o], !.sent = waSent[o],
                              !.owned = o \in TopUps /\ owned]
<1>1. /\ conf[c].at = "load"
      /\ conf' = [conf EXCEPT ![c].at = "pay", ![c].copy = order[o], ![c].sent = waSent[o],
                              ![c].owned = o \in TopUps /\ owned]
      /\ UNCHANGED <<balance, ledger, order, voucher, users, job, money, payment, listed,
                     waSent, told>>
  BY DEF Load, At, walletVars, provisioningVars, cycleVars, messageVars
<1>2. conf[c] \in Busy /\ o \in Orders /\ CallIsSound(c) /\ job[c].at = "idle"
  BY <1>1, BusyHasOrder, NoJob DEF IInv
<1>3. order[o] \in P!OrderRow /\ waSent[o] \in BOOLEAN
  BY <1>2 DEF IInv, Typed
<1>4. row \in Busy /\ row.at = "pay" /\ row.order = o /\ row.copy = order[o]
  BY <1>2, <1>3 DEF Busy, Steps
<1>5. conf' = [conf EXCEPT ![c] = row]
  BY <1>1, <1>2 DEF Busy
<1> HIDE DEF row
<1>6. Typed'
  <2>1. conf' \in [Callers -> Busy \cup {Idle}]
    BY <1>4, <1>5 DEF IInv, Typed
  <2>2. UNCHANGED <<balance, ledger, order, voucher, users, job, money, payment, listed,
                    waSent, told>>
    BY <1>1
  <2> QED BY <2>1, <2>2 DEF IInv, Typed
<1>7. Grows
  BY <1>1 DEF Grows
<1>8. conf'[c] = row => CallIsSound(c)' /\ JobIsSound(c)'
  BY <1>1, <1>2, <1>4 DEF CallIsSound, JobIsSound
<1> QED BY <1>1, <1>4, <1>5, <1>6, <1>7, <1>8, OwnStepIsGood DEF messageVars

LEMMA PayOrderIsGood ==
  ASSUME IInv, NEW c \in Callers, PayOrder(c)
  PROVE  IInv'
<1> DEFINE o == conf[c].order
           next == IF o \in TopUps THEN "credit" ELSE "call"
           copy == [conf[c].copy EXCEPT !.status = "PAID"]
           row == [conf[c] EXCEPT !.at = next, !.copy.status = "PAID"]
<1>1. /\ conf[c].at = "pay"
      /\ order' = IF conf[c].copy.status = "PAID" THEN order
                  ELSE [order EXCEPT ![o].status = "PAID"]
      /\ conf' = [conf EXCEPT ![c].at = next, ![c].copy.status = "PAID"]
      /\ UNCHANGED <<balance, ledger, voucher, users, job, money, payment, listed,
                     waSent, told>>
  BY DEF PayOrder, At, walletVars, cycleVars, messageVars
<1>2. conf[c] \in Busy /\ o \in Orders /\ CallIsSound(c) /\ job[c].at = "idle"
  BY <1>1, BusyHasOrder, NoJob DEF IInv
<1>3. copy \in P!OrderRow /\ copy.status = "PAID" /\ copy.code = conf[c].copy.code
  BY <1>2 DEF Busy, P!OrderRow, P!Status
<1> HIDE DEF copy
<1>4. /\ row \in Busy /\ row.order = o /\ row.at = next
      /\ row.copy.code = conf[c].copy.code
  BY <1>2, <1>3 DEF Busy, Steps, copy, P!OrderRow
<1>5. conf' = [conf EXCEPT ![c] = row]
  BY <1>1, <1>2 DEF Busy
<1> HIDE DEF row
<1>6. order' \in [Orders -> P!OrderRow]
  <2>1. [order[o] EXCEPT !.status = "PAID"] \in P!OrderRow
    BY <1>2 DEF IInv, Typed, P!OrderRow, P!Status
  <2> QED BY <1>1, <1>2, <2>1 DEF IInv, Typed
<1>7. Typed'
  <2>1. conf' \in [Callers -> Busy \cup {Idle}]
    BY <1>4, <1>5 DEF IInv, Typed
  <2>2. UNCHANGED <<balance, ledger, voucher, job, money, payment, listed, waSent, told>>
    BY <1>1
  <2> QED BY <1>6, <2>1, <2>2 DEF IInv, Typed
<1>8. \A q \in Orders : /\ order'[q].code = order[q].code
                        /\ order[q].status = "PAID" => order'[q].status = "PAID"
  BY <1>1, <1>2 DEF IInv, Typed, P!OrderRow
<1>9. order'[o].status = "PAID"
  <2>1. CASE conf[c].copy.status = "PAID"
    BY <1>1, <1>2, <2>1 DEF CallIsSound
  <2>2. CASE conf[c].copy.status # "PAID"
    BY <1>1, <1>2, <2>2 DEF IInv, Typed, P!OrderRow
  <2> QED BY <2>1, <2>2
<1>10. Grows
  BY <1>1, <1>8 DEF Grows
<1>11. conf'[c] = row => CallIsSound(c)' /\ JobIsSound(c)'
  <2> SUFFICES ASSUME conf'[c] = row PROVE CallIsSound(c)' /\ JobIsSound(c)'
    OBVIOUS
  <2>1. o \in money /\ payment[o] # "PENDING" /\ conf[c].copy.code = order[o].code
    BY <1>1, <1>2 DEF CallIsSound
  <2>2. o \in money' /\ payment'[o] # "PENDING" /\ order'[o].status = "PAID"
    <3>1. money' = money /\ payment' = payment
      BY <1>1
    <3> QED BY <1>9, <2>1, <3>1
  <2>3. row.copy.code = order'[o].code
    <3>1. order'[o].code = order[o].code
      BY <1>2, <1>8
    <3>2. row.copy.code = conf[c].copy.code
      BY <1>4
    <3> QED BY <2>1, <3>1, <3>2
  <2>4. next = "credit" => o \in TopUps
    OBVIOUS
  <2>5. next # "mark_sent" /\ next # "mark"
    OBVIOUS
  <2>6. row.order = o /\ row.at = next /\ job'[c].at = "idle"
    BY <1>1, <1>2, <1>4
  <2>7. CallIsSound(c)'
    BY <2>2, <2>3, <2>4, <2>5, <2>6 DEF CallIsSound, Paid
  <2> QED BY <2>6, <2>7 DEF JobIsSound
<1> QED BY <1>1, <1>4, <1>5, <1>7, <1>10, <1>11, OwnStepIsGood DEF messageVars

(* The credit of a top-up, unless the copy has no owner: the ledger        *)
(* refuses a second entry.                                                 *)
LEMMA CreditIsGood ==
  ASSUME IInv, NEW c \in Callers, Credit(c)
  PROVE  IInv'
<1>0. PICK o : o = conf[c].order
  OBVIOUS
<1> DEFINE entry == [type |-> "TOPUP", ref |-> o, balanceAfter |-> balance']
<1>1. /\ conf[c].at = "credit" /\ conf' = [conf EXCEPT ![c] = Idle]
      /\ IF conf[c].owned THEN W!ApplyEntry("TOPUP", o) ELSE UNCHANGED <<balance, ledger>>
      /\ UNCHANGED <<order, voucher, users, job, money, payment, listed, waSent, told>>
  BY <1>0 DEF Credit, At, End, W!Credit, walletVars, provisioningVars, cycleVars, messageVars
<1>2. conf[c] \in Busy /\ o \in TopUps /\ Paid(o) /\ job[c].at = "idle"
  BY <1>0, <1>1, BusyHasOrder, NoJob DEF IInv, CallIsSound
<1>3. conf' \in [Callers -> Busy \cup {Idle}] /\ conf'[c].at = "idle"
  BY <1>1 DEF IInv, Typed, Idle
<1>4. CallIsSound(c)' /\ JobIsSound(c)'
  BY <1>1, <1>2, <1>3 DEF CallIsSound, JobIsSound
<1>5. \A d \in Callers \ {c} : conf'[d] = conf[d] /\ job'[d] = job[d]
  BY <1>1 DEF IInv, Typed
<1>6. Grows
  BY <1>1 DEF Grows
<1>7. CASE Credited(o) \/ ~conf[c].owned
  <2>1. balance' = balance /\ ledger' = ledger
    BY <1>1, <1>7 DEF W!ApplyEntry, Credited
  <2>2. Typed'
    BY <1>1, <1>3, <2>1 DEF IInv, Typed
  <2> QED BY <1>1, <1>4, <1>5, <1>6, <2>1, <2>2, QuietStepIsGood DEF messageVars
<1>8. CASE ~Credited(o) /\ conf[c].owned
  <2>1. balance' = balance + Amount[o] /\ ledger' = Append(ledger, entry)
    BY <1>1, <1>8 DEF W!ApplyEntry, W!NewBalance, Credited
  <2>2. Amount[o] \in Nat /\ balance' \in Nat
    BY <1>2, <2>1, FulfilmentAssumption DEF IInv, Typed
  <2>3. entry \in W!Entry
    BY <1>2, <2>2 DEF W!Entry, W!EntryTypes
  <2> HIDE DEF entry
  <2>4. Typed'
    <3>1. ledger' \in Seq(W!Entry)
      BY <2>1, <2>3 DEF IInv, Typed
    <3> QED BY <1>1, <1>3, <2>2, <3>1 DEF IInv, Typed
  <2>5. \A t \in TopUps : Credited(t)' <=> Credited(t) \/ t = o
    <3>1. ledger \in Seq(W!Entry)
      BY DEF IInv, Typed
    <3>2. Len(ledger') = Len(ledger) + 1 /\ ledger'[Len(ledger) + 1] = entry
      BY <2>1, <2>3, <3>1
    <3>3. \A i \in 1..Len(ledger) : ledger'[i] = ledger[i]
      BY <2>1, <2>3, <3>1
    <3>4. DOMAIN ledger = 1..Len(ledger) /\ DOMAIN ledger' = 1..(Len(ledger) + 1)
      BY <2>1, <2>3, <3>1, <3>2
    <3>5. entry.type = "TOPUP" /\ entry.ref = o
      BY DEF entry
    <3>6. Len(ledger) \in Nat
      BY <3>1
    <3>7. ASSUME NEW t \in TopUps, Credited(t) PROVE Credited(t)'
      <4>1. PICK i \in 1..Len(ledger) : ledger[i].type = "TOPUP" /\ ledger[i].ref = t
        BY <3>4, <3>7 DEF Credited, W!HasEntry
      <4>2. i \in DOMAIN ledger' /\ ledger'[i] = ledger[i]
        BY <3>3, <3>4, <3>6
      <4> QED BY <4>1, <4>2 DEF Credited, W!HasEntry
    <3>8. Credited(o)'
      <4>1. Len(ledger) + 1 \in DOMAIN ledger'
        BY <3>4, <3>6
      <4>2. ledger'[Len(ledger) + 1].type = "TOPUP" /\ ledger'[Len(ledger) + 1].ref = o
        BY <3>2, <3>5
      <4> QED BY <1>1, <4>1, <4>2 DEF Credited, W!HasEntry
    <3>9. ASSUME NEW t \in TopUps, Credited(t)', t # o PROVE Credited(t)
      <4>1. PICK i \in DOMAIN ledger' : ledger'[i].type = "TOPUP" /\ ledger'[i].ref = t
        BY <3>9 DEF Credited, W!HasEntry
      <4>2. i # Len(ledger) + 1
        BY <3>2, <3>5, <3>9, <4>1
      <4>3. i \in 1..Len(ledger)
        BY <3>4, <3>6, <4>2
      <4> QED BY <3>3, <3>4, <4>1, <4>3 DEF Credited, W!HasEntry
    <3> QED BY <3>7, <3>8, <3>9
  <2> DEFINE S == {t \in TopUps : Credited(t)}
  <2>6. {t \in TopUps : Credited(t)'} = S \cup {o}
    BY <1>2, <2>5
  <2>7. Total[S \cup {o}] = Total[S] + Amount[o]
    BY <1>2, <1>8, FulfilmentAssumption
  <2>8. BalanceIsSound'
    BY <2>1, <2>6, <2>7 DEF IInv, BalanceIsSound
  <2>9. \A d \in Callers : CallIsSound(d)' /\ JobIsSound(d)'
    BY <1>4, <1>5, <1>6, OthersStaySound
  <2>10. ASSUME NEW q \in Orders PROVE OrderIsSound(q)'
    <3>1. OrderIsSound(q)
      BY DEF IInv
    <3>2. (Paid(q)' <=> Paid(q)) /\ (Opens(q)' <=> Opens(q))
      BY <1>1 DEF Paid, Opens
    <3>3. q \in TopUps /\ Credited(q)' => Paid(q)
      BY <1>2, <2>5, <3>1 DEF OrderIsSound
    <3> QED BY <1>1, <3>1, <3>2, <3>3 DEF OrderIsSound
  <2> QED BY <2>4, <2>8, <2>9, <2>10 DEF IInv
<1> QED BY <1>7, <1>8

-----------------------------------------------------------------------------
(* provisionOrder is called with the confirmation's copy.                  *)
LEMMA ProvisionIsGood ==
  ASSUME IInv, NEW c \in Callers, Provision(c)
  PROVE  IInv'
<1> DEFINE o == conf[c].order
           row == [conf[c] EXCEPT !.at = "provisioning"]
           call == [at |-> "check", order |-> o, copy |-> conf[c].copy]
<1>1. /\ conf[c].at = "call" /\ conf' = [conf EXCEPT ![c].at = "provisioning"]
      /\ job' = [job EXCEPT ![c] = call]
      /\ UNCHANGED <<balance, ledger, order, voucher, users, money, payment, listed,
                     waSent, told>>
  BY DEF Provision, At, GoTo, P!Call, walletVars, cycleVars, messageVars
<1>2. conf[c] \in Busy /\ o \in Orders /\ conf[c].copy \in P!OrderRow /\ CallIsSound(c)
  BY <1>1, BusyHasOrder DEF IInv
<1>3. /\ row \in Busy /\ row.at = "provisioning" /\ row.order = o /\ row.copy = conf[c].copy
      /\ conf' = [conf EXCEPT ![c] = row]
  BY <1>1, <1>2 DEF Busy, Steps
<1>4. call \in P!Job /\ call.at = "check" /\ call.order = o /\ call.copy = conf[c].copy
  BY <1>2 DEF P!Job, P!Steps
<1> HIDE DEF row, call
<1>5. conf' \in [Callers -> Busy \cup {Idle}] /\ conf'[c] = row
  BY <1>3 DEF IInv, Typed
<1>6. job' \in [Callers -> P!Job \cup {P!Idle}] /\ job'[c] = call
  BY <1>1, <1>4 DEF IInv, Typed
<1>7. UNCHANGED <<balance, ledger, order, voucher, users, money, payment, listed, waSent, told>>
  BY <1>1
<1>8. Typed'
  BY <1>5, <1>6, <1>7 DEF IInv, Typed
<1>9. Grows
  BY <1>7 DEF Grows
<1>10. CallIsSound(c)' /\ JobIsSound(c)'
  <2>1. /\ o \in money /\ conf[c].copy.code = order[o].code /\ payment[o] # "PENDING" /\ Paid(o)
        /\ conf[c].copy.status = "PAID" => order[o].status = "PAID"
    BY <1>1, <1>2 DEF CallIsSound
  <2>2. CallIsSound(c)'
    BY <1>3, <1>5, <1>7, <2>1 DEF CallIsSound, Paid
  <2>3. JobIsSound(c)'
    BY <1>3, <1>4, <1>5, <1>6, <1>7, <2>1 DEF JobIsSound
  <2> QED BY <2>2, <2>3
<1>11. \A d \in Callers \ {c} : conf'[d] = conf[d] /\ job'[d] = job[d]
  BY <1>1, <1>3 DEF IInv, Typed
<1> QED BY <1>7, <1>8, <1>9, <1>10, <1>11, QuietStepIsGood DEF messageVars

(* A step of provisionOrder.                                               *)
LEMMA JobStepIsGood ==
  ASSUME IInv, NEW c \in Callers, job[c].at # "idle", NEW o, o = job[c].order,
         NEW next \in P!Steps \cup P!Results, job' = [job EXCEPT ![c].at = next],
         order' \in [Orders -> P!OrderRow], voucher' \in [Orders -> SUBSET Codes],
         Grows, next = "store" => Opens(o)',
         \A q \in Orders :
            \/ voucher'[q] = voucher[q]
            \/ voucher'[q] \subseteq {order[q].code} /\ Paid(q) /\ Opens(q),
         UNCHANGED <<balance, ledger, money, payment, listed, conf, waSent, told>>
  PROVE  IInv'
<1> DEFINE row == [job[c] EXCEPT !.at = next]
<1>1. /\ job[c] \in P!Job /\ job[c].order \in Orders /\ job[c].order = conf[c].order
      /\ conf[c].at = "provisioning" /\ CallIsSound(c) /\ JobIsSound(c)
  BY JobHasOrder DEF IInv
<1>2. /\ row \in P!Job /\ row.at = next /\ row.order = job[c].order
      /\ row.copy = job[c].copy
  BY <1>1 DEF P!Job
<1>3. job' = [job EXCEPT ![c] = row]
  BY <1>1 DEF P!Job
<1> HIDE DEF row
<1>4. job' \in [Callers -> P!Job \cup {P!Idle}] /\ job'[c] = row
  BY <1>2, <1>3 DEF IInv, Typed
<1>5. Typed'
  BY <1>4 DEF IInv, Typed
<1>6. CallIsSound(c)'
  BY <1>1 DEF CallIsSound, Grows, Paid
<1>7. JobIsSound(c)'
  <2>1. job[c].copy.code = order'[job[c].order].code
    BY <1>1 DEF JobIsSound, Grows
  <2>2. conf'[c] = conf[c]
    OBVIOUS
  <2> QED BY <1>1, <1>2, <1>4, <2>1, <2>2 DEF JobIsSound, Opens
<1>8. \A d \in Callers \ {c} : conf'[d] = conf[d] /\ job'[d] = job[d]
  BY <1>3 DEF IInv, Typed
<1> QED BY <1>5, <1>6, <1>7, <1>8, StepIsGood

LEMMA ProvisioningIsGood ==
  ASSUME IInv, NEW c \in Callers, Provisioning(c)
  PROVE  IInv'
<1>0. PICK o, u : o = job[c].order /\ u = job[c].copy.code
  OBVIOUS
<1>1. P!Work(c) /\ UNCHANGED <<balance, ledger, money, payment, listed, conf, waSent, told>>
  BY DEF Provisioning, walletVars, cycleVars, messageVars
<1>2. job[c].at # "idle"
  BY <1>1 DEF P!Work, P!Check, P!Fix, P!ResolveThrows, P!RouterAdds, P!RouterRefuses,
                P!Fail, P!Store
<1>3. o \in Orders /\ o = conf[c].order /\ conf[c].at = "provisioning" /\ JobIsSound(c)
  BY <1>0, <1>2, JobHasOrder DEF IInv
<1>4. Paid(o)
  BY <1>3 DEF IInv, CallIsSound
<1>5. u = order[o].code /\ (job[c].at = "store" => Opens(o))
  BY <1>0, <1>2, <1>3 DEF JobIsSound
<1>6. /\ order \in [Orders -> P!OrderRow] /\ voucher \in [Orders -> SUBSET Codes]
      /\ order[o].code \in Codes
  BY <1>3 DEF IInv, Typed, P!OrderRow
<1>7. ASSUME NEW x \in P!FulfillStatus, order' = [order EXCEPT ![o].fulfill = x]
      PROVE  /\ order' \in [Orders -> P!OrderRow]
             /\ \A q \in Orders : /\ order'[q].code = order[q].code
                                  /\ order'[q].status = order[q].status
  <2>1. [order[o] EXCEPT !.fulfill = x] \in P!OrderRow
    BY <1>3, <1>6 DEF P!OrderRow
  <2> QED BY <1>3, <1>6, <1>7, <2>1 DEF P!OrderRow
<1>8. CASE P!Check(c)
  <2>1. PICK next \in {"not_paid", "router", "already_done", "fix"} :
          job' = [job EXCEPT ![c].at = next]
    BY <1>8 DEF P!Check, P!Goto
  <2>2. UNCHANGED <<order, voucher, users>>
    BY <1>8 DEF P!Check
  <2>3. Grows
    BY <1>1, <2>2 DEF Grows
  <2> QED BY <1>0, <1>1, <1>2, <1>6, <2>1, <2>2, <2>3, JobStepIsGood DEF P!Steps, P!Results
<1>9. CASE P!Fix(c)
  <2>1. PICK next \in {"already_done"} :
          /\ job' = [job EXCEPT ![c].at = next] /\ UNCHANGED <<voucher, users>>
          /\ order' = [order EXCEPT ![o].fulfill = "CREATED"]
    BY <1>0, <1>9 DEF P!Fix, P!Goto
  <2>2. /\ order' \in [Orders -> P!OrderRow]
        /\ \A q \in Orders : /\ order'[q].code = order[q].code
                             /\ order'[q].status = order[q].status
    BY <1>7, <2>1 DEF P!FulfillStatus
  <2>3. Grows
    BY <1>1, <2>1, <2>2 DEF Grows
  <2> QED BY <1>0, <1>1, <1>2, <1>6, <2>1, <2>2, <2>3, JobStepIsGood DEF P!Steps, P!Results
<1>10. CASE P!RouterAdds(c)
  <2>1. PICK next \in {"store", "fail"} : job' = [job EXCEPT ![c].at = next]
    BY <1>0, <1>10 DEF P!RouterAdds, P!Goto
  <2>2. UNCHANGED <<order, voucher>> /\ users' = users \cup {<<RouterOf[o], u, o>>}
    BY <1>0, <1>10 DEF P!RouterAdds
  <2>3. Grows
    BY <1>1, <2>2 DEF Grows
  <2>4. Opens(o)'
    BY <1>5, <2>2 DEF Opens
  <2> QED BY <1>0, <1>1, <1>2, <1>6, <2>1, <2>2, <2>3, <2>4, JobStepIsGood DEF P!Steps, P!Results
<1>11. CASE P!RouterRefuses(c)
  <2>1. PICK next \in {"fail"} :
          job' = [job EXCEPT ![c].at = next] /\ UNCHANGED <<order, voucher, users>>
    BY <1>0, <1>11 DEF P!RouterRefuses, P!Goto
  <2>2. Grows
    BY <1>1, <2>1 DEF Grows
  <2> QED BY <1>0, <1>1, <1>2, <1>6, <2>1, <2>2, JobStepIsGood DEF P!Steps, P!Results
<1>14. CASE P!ResolveThrows(c)
  <2>1. PICK next \in {"threw"} :
          job' = [job EXCEPT ![c].at = next] /\ UNCHANGED <<order, voucher, users>>
    BY <1>0, <1>14 DEF P!ResolveThrows, P!Goto
  <2>2. Grows
    BY <1>1, <2>1 DEF Grows
  <2> QED BY <1>0, <1>1, <1>2, <1>6, <2>1, <2>2, JobStepIsGood DEF P!Steps, P!Results
<1>12. CASE P!Fail(c)
  <2>1. PICK next \in {"failed"} :
          /\ job' = [job EXCEPT ![c].at = next] /\ UNCHANGED <<voucher, users>>
          /\ order' = [order EXCEPT ![o].fulfill = "FAILED"]
    BY <1>0, <1>12 DEF P!Fail, P!Goto
  <2>2. /\ order' \in [Orders -> P!OrderRow]
        /\ \A q \in Orders : /\ order'[q].code = order[q].code
                             /\ order'[q].status = order[q].status
    BY <1>7, <2>1 DEF P!FulfillStatus
  <2>3. Grows
    BY <1>1, <2>1, <2>2 DEF Grows
  <2> QED BY <1>0, <1>1, <1>2, <1>6, <2>1, <2>2, <2>3, JobStepIsGood DEF P!Steps, P!Results
<1>13. CASE P!Store(c)
  <2>1. CASE P!UsernameTaken(u)
    <3>1. PICK next \in {"threw"} :
            job' = [job EXCEPT ![c].at = next] /\ UNCHANGED <<order, voucher, users>>
      BY <1>0, <1>13, <2>1 DEF P!Store, P!Goto
    <3>2. Grows
      BY <1>1, <3>1 DEF Grows
    <3> QED BY <1>0, <1>1, <1>2, <1>6, <3>1, <3>2, JobStepIsGood DEF P!Steps, P!Results
  <2>2. CASE ~P!UsernameTaken(u)
    <3>1. PICK next \in {"created"} :
            /\ job' = [job EXCEPT ![c].at = next] /\ users' = users
            /\ order' = [order EXCEPT ![o].fulfill = "CREATED"]
            /\ voucher' = [voucher EXCEPT ![o] = @ \cup {u}]
      BY <1>0, <1>13, <2>2 DEF P!Store, P!Goto
    <3>2. /\ order' \in [Orders -> P!OrderRow]
          /\ \A q \in Orders : /\ order'[q].code = order[q].code
                               /\ order'[q].status = order[q].status
      BY <1>7, <3>1 DEF P!FulfillStatus
    <3>3. voucher' \in [Orders -> SUBSET Codes] /\ voucher'[o] = voucher[o] \cup {order[o].code}
      BY <1>3, <1>5, <1>6, <3>1
    <3>4. \A q \in Orders \ {o} : voucher'[q] = voucher[q]
      BY <1>6, <3>1
    <3>5. voucher'[o] \subseteq {order[o].code} /\ Opens(o)
      BY <1>3, <1>5, <1>13, <3>3 DEF IInv, OrderIsSound, P!Store
    <3>6. Grows
      <4>1. \A q \in Orders : voucher[q] \subseteq voucher'[q]
        BY <3>3, <3>4
      <4>2. users' = users
        BY <3>1
      <4> QED BY <1>1, <3>2, <4>1, <4>2 DEF Grows
    <3>7. job' = [job EXCEPT ![c].at = next]
      BY <3>1
    <3> QED BY <1>0, <1>1, <1>2, <1>4, <3>2, <3>3, <3>4, <3>5, <3>6, <3>7, JobStepIsGood
            DEF P!Steps, P!Results
  <2> QED BY <2>1, <2>2
<1> QED BY <1>1, <1>8, <1>9, <1>10, <1>11, <1>12, <1>13, <1>14 DEF P!Work

-----------------------------------------------------------------------------
(* A call that leaves provisionOrder, for the message or for good.         *)
LEMMA LeaveIsGood ==
  ASSUME IInv, NEW c \in Callers, NEW row,
         \/ row = Idle
         \/ /\ conf[c].at = "provisioning"
            /\ row = [conf[c] EXCEPT !.at = "notify"],
         conf' = [conf EXCEPT ![c] = row],
         job' = [job EXCEPT ![c] = P!Idle],
         listed' \subseteq listed,
         UNCHANGED <<balance, ledger, order, voucher, users, money, payment, waSent, told>>
  PROVE  IInv'
<1>1. row \in Busy \cup {Idle}
  <2>1. CASE row # Idle
    BY <2>1, BusyHasOrder DEF Busy, Steps
  <2> QED BY <2>1
<1>2. conf' \in [Callers -> Busy \cup {Idle}] /\ conf'[c] = row
  BY <1>1 DEF IInv, Typed
<1>3. job' \in [Callers -> P!Job \cup {P!Idle}] /\ job'[c].at = "idle"
  BY DEF IInv, Typed, P!Idle
<1>4. UNCHANGED <<balance, ledger, order, voucher, users, money, payment, waSent, told>>
  OBVIOUS
<1>5. listed' \subseteq money
  BY DEF IInv, Typed
<1>6. Typed'
  BY <1>2, <1>3, <1>4, <1>5 DEF IInv, Typed
<1>7. Grows
  BY <1>4 DEF Grows
<1>8. CallIsSound(c)'
  <2>1. CASE row = Idle
    BY <1>2, <2>1 DEF CallIsSound, Idle
  <2>2. CASE row # Idle
    <3>1. /\ row.at = "notify" /\ row.order = conf[c].order /\ row.copy = conf[c].copy
          /\ conf[c].at = "provisioning"
      BY <2>2, BusyHasOrder DEF Busy
    <3>2. CallIsSound(c)
      BY DEF IInv
    <3> QED BY <1>2, <1>4, <3>1, <3>2 DEF CallIsSound
  <2> QED BY <2>1, <2>2
<1>9. JobIsSound(c)'
  BY <1>3 DEF JobIsSound
<1>10. \A d \in Callers \ {c} : conf'[d] = conf[d] /\ job'[d] = job[d]
  BY DEF IInv, Typed
<1> QED BY <1>4, <1>6, <1>7, <1>8, <1>9, <1>10, QuietStepIsGood DEF messageVars

LEMMA FulfilledIsGood ==
  ASSUME IInv, NEW c \in Callers, Fulfilled(c)
  PROVE  IInv'
<1>1. /\ conf[c].at = "provisioning" /\ job' = [job EXCEPT ![c] = P!Idle]
      /\ listed' \subseteq listed
      /\ UNCHANGED <<balance, ledger, order, voucher, users, money, payment, waSent, told>>
  BY DEF Fulfilled, AbandonCycle, At, P!Return, walletVars, cycleVars, messageVars
<1>2. GoTo(c, "notify") \/ End(c)
  BY DEF Fulfilled
<1>3. PICK row \in {Idle, [conf[c] EXCEPT !.at = "notify"]} : conf' = [conf EXCEPT ![c] = row]
  BY <1>2 DEF GoTo, End
<1> QED BY <1>1, <1>3, LeaveIsGood

(* The message, or its refusal.                                            *)
LEMMA NotifyIsGood ==
  ASSUME IInv, NEW c \in Callers, Notify(c)
  PROVE  IInv'
<1>0. PICK o : o = conf[c].order
  OBVIOUS
<1>1. /\ conf[c].at = "notify"
      /\ UNCHANGED <<balance, ledger, order, voucher, users, job, money, payment, listed,
                     waSent>>
  BY DEF Notify, At, walletVars, provisioningVars, cycleVars
<1>2. conf[c] \in Busy /\ o \in Orders /\ CallIsSound(c) /\ job[c].at = "idle"
  BY <1>0, <1>1, BusyHasOrder, NoJob DEF IInv
<1>3. CASE voucher[o] # {} /\ told' = [told EXCEPT ![o] = IF @ = 0 THEN 1 ELSE 2]
           /\ GoTo(c, "mark_sent")
  <2> DEFINE row == [conf[c] EXCEPT !.at = "mark_sent"]
  <2>1. /\ row \in Busy /\ row.at = "mark_sent" /\ row.order = o /\ row.copy = conf[c].copy
        /\ conf' = [conf EXCEPT ![c] = row]
    BY <1>0, <1>2, <1>3 DEF Busy, Steps, GoTo
  <2> HIDE DEF row
  <2>2. conf' \in [Callers -> Busy \cup {Idle}] /\ conf'[c] = row
    BY <2>1 DEF IInv, Typed
  <2>3. /\ told' \in [Orders -> 0..2] /\ told'[o] > 0
        /\ \A q \in Orders : told[q] > 0 => told'[q] > 0
    BY <1>2, <1>3 DEF IInv, Typed
  <2>4. Typed'
    BY <1>1, <2>2, <2>3 DEF IInv, Typed
  <2>5. Grows
    BY <1>1, <2>3 DEF Grows
  <2>6. CallIsSound(c)' /\ JobIsSound(c)'
    <3>1. CallIsSound(c)'
      BY <1>0, <1>1, <1>2, <1>3, <2>1, <2>2, <2>3 DEF CallIsSound
    <3> QED BY <1>1, <1>2, <3>1 DEF JobIsSound
  <2>7. \A d \in Callers \ {c} : conf'[d] = conf[d] /\ job'[d] = job[d]
    BY <1>1, <2>1 DEF IInv, Typed
  <2> QED BY <1>1, <2>4, <2>5, <2>6, <2>7, StepIsGood
<1>4. CASE End(c) /\ UNCHANGED told
  <2>1. conf' = [conf EXCEPT ![c] = Idle] /\ told' = told
    BY <1>4 DEF End
  <2>2. job[c] = P!Idle
    BY <1>2 DEF IInv, Typed, P!Job, P!Steps, P!Results
  <2>3. job' = [job EXCEPT ![c] = P!Idle]
    BY <1>1, <2>2 DEF IInv, Typed
  <2> QED BY <1>1, <2>1, <2>3, LeaveIsGood
<1> QED BY <1>0, <1>3, <1>4 DEF Notify

LEMMA MarkSentIsGood ==
  ASSUME IInv, NEW c \in Callers, MarkSent(c)
  PROVE  IInv'
<1>0. PICK o : o = conf[c].order
  OBVIOUS
<1>1. /\ conf[c].at = "mark_sent" /\ waSent' = [waSent EXCEPT ![o] = TRUE]
      /\ conf' = [conf EXCEPT ![c] = Idle]
      /\ UNCHANGED <<balance, ledger, order, voucher, users, job, money, payment, listed, told>>
  BY <1>0 DEF MarkSent, At, End, walletVars, provisioningVars, cycleVars
<1>2. /\ conf[c] \in Busy /\ o \in Orders /\ job[c].at = "idle"
      /\ told[o] > 0 /\ voucher[o] # {}
  BY <1>0, <1>1, BusyHasOrder, NoJob DEF IInv, CallIsSound
<1>3. waSent' \in [Orders -> BOOLEAN] /\ \A q \in Orders : waSent'[q] => waSent[q] \/ q = o
  BY <1>1 DEF IInv, Typed
<1>4. conf' \in [Callers -> Busy \cup {Idle}] /\ conf'[c].at = "idle"
  BY <1>1 DEF IInv, Typed, Idle
<1>5. Typed'
  BY <1>1, <1>3, <1>4 DEF IInv, Typed
<1>6. Grows
  BY <1>1 DEF Grows
<1>7. CallIsSound(c)' /\ JobIsSound(c)'
  BY <1>1, <1>2, <1>4 DEF CallIsSound, JobIsSound
<1>8. \A d \in Callers \ {c} : conf'[d] = conf[d] /\ job'[d] = job[d]
  BY <1>1 DEF IInv, Typed
<1>9. \A q \in Orders : waSent'[q] => waSent[q] \/ (told'[q] > 0 /\ voucher'[q] # {})
  BY <1>1, <1>2, <1>3
<1> QED BY <1>1, <1>5, <1>6, <1>7, <1>8, <1>9, StepIsGood

(* A call that is cut off leaves what it has written.                      *)
LEMMA StopIsGood ==
  ASSUME IInv, NEW c \in Callers, Stop(c)
  PROVE  IInv'
<1>1. /\ conf' = [conf EXCEPT ![c] = Idle] /\ listed' \subseteq listed
      /\ UNCHANGED <<balance, ledger, money, payment, waSent, told>>
  BY DEF Stop, AbandonCycle, End, walletVars, cycleVars, messageVars
<1>2. UNCHANGED <<order, voucher, users>>
  BY DEF Stop, provisioningVars, P!Die, P!Return
<1>3. job' = [job EXCEPT ![c] = P!Idle]
  <2>1. CASE job[c] = P!Idle
    BY <2>1 DEF Stop, provisioningVars, IInv, Typed
  <2>2. CASE job[c] # P!Idle
    BY <2>2 DEF Stop, P!Die, P!Return
  <2> QED BY <2>1, <2>2
<1> QED BY <1>1, <1>2, <1>3, LeaveIsGood

-----------------------------------------------------------------------------
LEMMA StepsAreGood == IInv /\ [Next]_vars => IInv'
<1> SUFFICES ASSUME IInv, [Next]_vars PROVE IInv'
  OBVIOUS
<1>1. ASSUME NEW o \in Orders, Pay(o) PROVE IInv'
  BY <1>1, PayIsGood
<1>2. ASSUME NEW c \in Webhooks, NEW o \in Orders, Deliver(c, o) PROVE IInv'
  <2>1. c \in Callers /\ o \in money /\ Begin(c, o) /\ listed' \subseteq money
    BY <1>2 DEF Deliver, cycleVars, Callers, IInv, Typed
  <2> QED BY <2>1, BeginIsGood
<1>3. CASE List
  BY <1>3, ListIsGood
<1>4. ASSUME NEW o \in Orders, Confirm(o) PROVE IInv'
  <2>1. Reconciler \in Callers /\ o \in money /\ Begin(Reconciler, o) /\ listed' \subseteq money
    BY <1>4 DEF Confirm, Callers, IInv, Typed
  <2> QED BY <2>1, BeginIsGood
<1>5. ASSUME NEW c \in Callers, Work(c) PROVE IInv'
  BY <1>5, MarkPaidIsGood, LoadIsGood, PayOrderIsGood, CreditIsGood, ProvisionIsGood,
     ProvisioningIsGood, FulfilledIsGood, NotifyIsGood, MarkSentIsGood DEF Work
<1>6. ASSUME NEW c \in Callers, Stop(c) PROVE IInv'
  BY <1>6, StopIsGood
<1>7. CASE UNCHANGED vars
  <2>1. UNCHANGED <<balance, ledger, order, voucher, users, job, money, payment, listed, conf,
                    waSent, told>>
    BY <1>7 DEF vars
  <2>2. Typed'
    BY <2>1 DEF IInv, Typed
  <2>3. Grows
    BY <2>1 DEF Grows
  <2> QED BY <2>1, <2>2, <2>3, QuietStepIsGood DEF messageVars
<1>8. ASSUME NEW o \in Orders, ExpirePayment(o) \/ ExpireOrder(o) PROVE IInv'
  BY <1>8, ExpirePaymentIsGood, ExpireOrderIsGood
<1>9. CASE DeleteOwner
  BY <1>9, DeleteOwnerIsGood
<1> QED BY <1>1, <1>2, <1>3, <1>4, <1>5, <1>6, <1>7, <1>8, <1>9 DEF Next, Cycle

LEMMA AlwaysSound == Spec => []IInv
BY InitIsGood, StepsAreGood, PTL DEF Spec

(* An order is fulfilled at most once, and the wallet holds exactly the    *)
(* credited top-ups.                                                       *)
THEOREM EachOnce == Spec => []FulfilledOnce
<1>1. IInv => FulfilledOnce
  BY DEF IInv, OrderIsSound, BalanceIsSound, FulfilledOnce, P!OneVoucherPerOrder
<1> QED BY <1>1, AlwaysSound, PTL

(* No voucher and no credit without money and a PAID order, nor for a       *)
(* payment that is still PENDING, although the expiry writes by id.         *)
THEOREM PaidFirst == Spec => []NothingForFree
<1>1. IInv => NothingForFree
  BY DEF IInv, OrderIsSound, Paid, NothingForFree
<1> QED BY <1>1, AlwaysSound, PTL

(* wa_sent is only set when the customer got a voucher that the outlet's   *)
(* router knows.                                                           *)
THEOREM MarkedMeansTold == Spec => []SentMeansTold
<1>1. IInv => SentMeansTold
  <2> SUFFICES ASSUME IInv, NEW o \in Orders, waSent[o]
               PROVE  told[o] > 0 /\ \E u \in voucher[o] : <<RouterOf[o], u, o>> \in users
    BY DEF SentMeansTold
  <2>1. OrderIsSound(o)
    BY DEF IInv
  <2>2. order[o].code \in voucher[o] /\ Opens(o)
    BY <2>1 DEF OrderIsSound
  <2> QED BY <2>1, <2>2 DEF OrderIsSound, Opens
<1> QED BY <1>1, AlwaysSound, PTL

-----------------------------------------------------------------------------
(* Until their owner is deleted, confirmations touch the wallet through    *)
(* credit only: what is proved of Wallet for free callers holds of the     *)
(* wallet that top-ups go to.  With the owner it starts again from nothing. *)
WalletStep == (W!Next \/ UNCHANGED walletVars) \/ (owned /\ ~owned' /\ balance' = 0 /\ ledger' = <<>>)

THEOREM FulfilmentIsACallerOfWallet == Spec => W!Init /\ [][WalletStep]_walletVars
<1>1. Init => W!Init
  BY DEF Init
<1>2. IInv /\ [Next]_vars => [WalletStep]_walletVars
  <2> SUFFICES ASSUME IInv, [Next]_vars PROVE WalletStep
    OBVIOUS
  <2>1. ASSUME NEW c \in Callers, Credit(c) PROVE WalletStep
    <3>1. conf[c].order \in TopUps
      BY <2>1, BusyHasOrder DEF Credit, At, IInv, CallIsSound
    <3>2. W!Credit("TOPUP", conf[c].order) \/ UNCHANGED walletVars
      BY <2>1 DEF Credit
    <3> QED BY <3>1, <3>2 DEF WalletStep, W!Next
  <2>2. ASSUME NEW c \in Callers, Work(c) PROVE Credit(c) \/ UNCHANGED walletVars
    BY <2>2 DEF Work, MarkPaid, Load, PayOrder, Provision, Provisioning, Fulfilled, Notify, MarkSent
  <2>3. ASSUME NEW c \in Callers, Stop(c) PROVE UNCHANGED walletVars
    BY <2>3 DEF Stop
  <2>4. ASSUME \/ \E o \in Orders : Pay(o)
               \/ \E c \in Webhooks, o \in Orders : Deliver(c, o)
               \/ Cycle
        PROVE  UNCHANGED walletVars
    BY <2>4 DEF Pay, Deliver, Begin, Cycle, List, Confirm, ExpirePayment, ExpireOrder
  <2>5. UNCHANGED vars => UNCHANGED walletVars
    BY DEF vars, walletVars
  <2>6. DeleteOwner => WalletStep
    BY DEF DeleteOwner, WalletStep
  <2>7. UNCHANGED walletVars => WalletStep
    BY DEF WalletStep
  <2> QED BY <2>1, <2>2, <2>3, <2>4, <2>5, <2>6, <2>7 DEF Next
<1> QED BY <1>1, <1>2, AlwaysSound, PTL DEF Spec
=============================================================================
