------------------------- MODULE ProvisioningProofs -------------------------
(***************************************************************************)
(* Theorems about Provisioning, for any numbers of orders, callers,        *)
(* routers and codes: one voucher per order, which opens its router, and a *)
(* CREATED mark only with a voucher.                                       *)
(*                                                                         *)
(* A call acts on a copy of the order row.  The copy may be old, but what  *)
(* the call relies on does not change: the username of an order, the fact  *)
(* that it was paid, the users of the routers and the vouchers that exist. *)
(***************************************************************************)
EXTENDS Provisioning, TLAPS

(* What an unfinished call may rely on.                                    *)
CallIsSound(p) ==
  LET o == job[p].order
  IN job[p] # Idle =>
       /\ job[p].copy.code = order[o].code
       /\ job[p].copy.status = "PAID" => order[o].status = "PAID"
       /\ job[p].copy.fulfill = "CREATED" => voucher[o] # {}
       /\ job[p].at \in Steps \ {"check"} => job[p].copy.status = "PAID"
       /\ job[p].at = "fix" => voucher[o] # {}
       /\ job[p].at = "store" => <<RouterOf[o], order[o].code, o>> \in users

(* The only voucher an order can have is the one of its username.          *)
VoucherHasCode == \A o \in Orders : voucher[o] \subseteq {order[o].code}

IInv ==
  /\ TypeOK
  /\ \A p \in Procs : CallIsSound(p)
  /\ VoucherHasCode
  /\ VoucherOpensRouter
  /\ CreatedMeansVoucher

(* A call that moved to another step, while the tables grew at most.       *)
Grown ==
  /\ \A o \in Orders : /\ order'[o].code = order[o].code
                       /\ order[o].status = "PAID" => order'[o].status = "PAID"
                       /\ voucher[o] \subseteq voucher'[o]
  /\ users \subseteq users'

-----------------------------------------------------------------------------
(* A call that is under way has an order and a copy of its row.            *)
LEMMA BusyIsJob ==
  ASSUME TypeOK, NEW p \in Procs, job[p].at # "idle"
  PROVE  /\ job[p] \in Job /\ job[p] # Idle
         /\ job[p].order \in Orders /\ job[p].copy \in OrderRow
BY DEF TypeOK, Job, Idle

LEMMA NotIdle ==
  ASSUME TypeOK, NEW p \in Procs, job[p] # Idle
  PROVE  /\ job[p] \in Job
         /\ job[p].order \in Orders /\ job[p].copy \in OrderRow
BY DEF TypeOK, Job

(* The calls that did not move stay sound while the tables grow.           *)
LEMMA OthersStaySound ==
  ASSUME TypeOK, Grown, NEW p \in Procs, CallIsSound(p), job'[p] = job[p]
  PROVE  CallIsSound(p)'
<1> SUFFICES ASSUME job[p] # Idle PROVE CallIsSound(p)'
  BY DEF CallIsSound
<1>1. job[p].order \in Orders
  BY NotIdle
<1> QED BY <1>1 DEF CallIsSound, Grown

(* A step of the call of p to another place, which leaves the tables alone *)
(* or lets them grow, needs to be looked at for p alone.                   *)
LEMMA CallMoves ==
  ASSUME IInv, Grown, NEW p \in Procs, NEW step \in Steps \cup Results,
         job[p].at # "idle", Goto(p, step),
         step \in Steps \ {"check"} => job[p].copy.status = "PAID",
         step = "fix" => voucher'[job[p].order] # {},
         step = "store" => <<RouterOf[job[p].order], order[job[p].order].code, job[p].order>> \in users'
  PROVE  /\ job' \in [Procs -> Job \cup {Idle}]
         /\ \A q \in Procs : CallIsSound(q)'
<1>1. /\ job[p] \in Job /\ job[p] # Idle
      /\ job[p].order \in Orders /\ job[p].copy \in OrderRow
  BY BusyIsJob DEF IInv
<1>2. job' = [job EXCEPT ![p].at = step]
  BY DEF Goto
<1>3. job'[p] = [job[p] EXCEPT !.at = step] /\ \A q \in Procs \ {p} : job'[q] = job[q]
  BY <1>2 DEF IInv, TypeOK
<1>4. job' \in [Procs -> Job \cup {Idle}]
  BY <1>1, <1>2 DEF IInv, TypeOK, Job
<1>5. CallIsSound(p)'
  <2>1. /\ job'[p].order = job[p].order /\ job'[p].copy = job[p].copy /\ job'[p].at = step
    BY <1>1, <1>3 DEF Job
  <2>2. CallIsSound(p)
    BY DEF IInv
  <2> QED BY <1>1, <2>1, <2>2 DEF CallIsSound, Grown
<1>6. ASSUME NEW q \in Procs, q # p PROVE CallIsSound(q)'
  BY <1>3, <1>6, OthersStaySound DEF IInv
<1> QED BY <1>4, <1>5, <1>6

LEMMA InitIsGood == Init => IInv
BY OrderNamesAssumption
   DEF Init, InitWith, Row, IInv, TypeOK, OrderRow, Status, FulfillStatus, CallIsSound,
       VoucherHasCode, VoucherOpensRouter, CreatedMeansVoucher

(* The caller reads the row just before the call.                          *)
LEMMA CallIsGood ==
  ASSUME IInv, NEW p \in Procs, NEW o \in Orders, Call(p, o, order[o])
  PROVE  IInv'
<1>1. /\ job' = [job EXCEPT ![p] = [at |-> "check", order |-> o, copy |-> order[o]]]
      /\ UNCHANGED <<order, voucher, users>>
  BY DEF Call
<1>2. TypeOK'
  BY <1>1 DEF IInv, TypeOK, Job, Steps
<1>3. ASSUME NEW q \in Procs PROVE CallIsSound(q)'
  <2>1. CASE q = p
    BY <1>1, <2>1 DEF CallIsSound, IInv, TypeOK, CreatedMeansVoucher, Steps
  <2>2. CASE q # p
    BY <1>1, <2>2, OthersStaySound DEF IInv, TypeOK, Grown
  <2> QED BY <2>1, <2>2
<1> QED BY <1>1, <1>2, <1>3 DEF IInv, VoucherHasCode, VoucherOpensRouter, CreatedMeansVoucher

LEMMA CheckIsGood ==
  ASSUME IInv, NEW p \in Procs, Check(p)
  PROVE  IInv'
<1> DEFINE copy == job[p].copy
           done == voucher[job[p].order] # {} \/ copy.fulfill = "CREATED"
           step == IF copy.status # "PAID" THEN "not_paid"
                   ELSE IF ~done THEN "router"
                   ELSE IF copy.fulfill = "CREATED" THEN "already_done"
                   ELSE "fix"
<1>1. job[p].at = "check" /\ Goto(p, step) /\ UNCHANGED <<order, voucher, users>>
  BY DEF Check
<1>2. /\ step \in Steps \cup Results
      /\ step \in Steps \ {"check"} => copy.status = "PAID"
      /\ step = "fix" => voucher'[job[p].order] # {}
      /\ step # "store"
  BY <1>1 DEF Steps, Results
<1> HIDE DEF step
<1>3. /\ job' \in [Procs -> Job \cup {Idle}]
      /\ \A q \in Procs : CallIsSound(q)'
  BY <1>1, <1>2, CallMoves DEF Grown
<1> QED BY <1>1, <1>3 DEF IInv, TypeOK, VoucherHasCode, VoucherOpensRouter, CreatedMeansVoucher

LEMMA FixIsGood ==
  ASSUME IInv, NEW p \in Procs, Fix(p)
  PROVE  IInv'
<1> DEFINE o == job[p].order
<1>1. /\ job[p].at = "fix" /\ Goto(p, "already_done") /\ UNCHANGED <<voucher, users>>
      /\ order' = [order EXCEPT ![o].fulfill = "CREATED"]
  BY DEF Fix
<1>2. o \in Orders /\ voucher[o] # {}
  BY <1>1, BusyIsJob DEF IInv, CallIsSound, Idle
<1>3. /\ order' \in [Orders -> OrderRow]
      /\ \A q \in Orders : /\ order'[q].code = order[q].code /\ order'[q].status = order[q].status
                           /\ order'[q].fulfill = "CREATED" => voucher[q] # {}
  BY <1>1, <1>2 DEF IInv, TypeOK, OrderRow, FulfillStatus, CreatedMeansVoucher
<1>4. /\ job' \in [Procs -> Job \cup {Idle}]
      /\ \A q \in Procs : CallIsSound(q)'
  BY <1>1, <1>3, CallMoves DEF Grown, Results, Steps
<1> QED BY <1>1, <1>3, <1>4 DEF IInv, TypeOK, VoucherHasCode, VoucherOpensRouter, CreatedMeansVoucher

LEMMA ResolveThrowsIsGood ==
  ASSUME IInv, NEW p \in Procs, ResolveThrows(p)
  PROVE  IInv'
<1>1. job[p].at = "router" /\ Goto(p, "threw") /\ UNCHANGED <<order, voucher, users>>
  BY DEF ResolveThrows
<1>2. job[p].copy.status = "PAID"
  BY <1>1, BusyIsJob DEF IInv, CallIsSound, Steps
<1>3. /\ job' \in [Procs -> Job \cup {Idle}]
      /\ \A q \in Procs : CallIsSound(q)'
  BY <1>1, <1>2, CallMoves DEF Grown, Results
<1> QED BY <1>1, <1>3 DEF IInv, TypeOK, VoucherHasCode, VoucherOpensRouter, CreatedMeansVoucher

LEMMA RouterAddsIsGood ==
  ASSUME IInv, NEW p \in Procs, RouterAdds(p)
  PROVE  IInv'
<1> DEFINE o == job[p].order
           u == job[p].copy.code
<1>1. /\ job[p].at = "router" /\ UNCHANGED <<order, voucher>>
      /\ users' = users \cup {<<RouterOf[o], u, o>>}
      /\ Goto(p, "store") \/ Goto(p, "fail")
  BY DEF RouterAdds
<1>2. /\ o \in Orders /\ u \in Codes /\ u = order[o].code /\ job[p].copy.status = "PAID"
  BY <1>1, BusyIsJob DEF IInv, CallIsSound, OrderRow, Steps
<1>3. users' \subseteq Routers \X Codes \X Orders
  BY <1>1, <1>2, OrderNamesAssumption DEF IInv, TypeOK
<1>4. Grown
  BY <1>1 DEF Grown
<1>5. /\ job' \in [Procs -> Job \cup {Idle}]
      /\ \A q \in Procs : CallIsSound(q)'
  <2>1. CASE Goto(p, "store")
    BY <1>1, <1>2, <1>4, <2>1, CallMoves DEF Steps
  <2>2. CASE Goto(p, "fail")
    BY <1>1, <1>2, <1>4, <2>2, CallMoves DEF Steps
  <2> QED BY <1>1, <2>1, <2>2
<1> QED BY <1>1, <1>3, <1>5 DEF IInv, TypeOK, VoucherHasCode, VoucherOpensRouter, CreatedMeansVoucher

LEMMA RouterRefusesIsGood ==
  ASSUME IInv, NEW p \in Procs, RouterRefuses(p)
  PROVE  IInv'
<1>1. job[p].at = "router" /\ Goto(p, "fail") /\ UNCHANGED <<order, voucher, users>>
  BY DEF RouterRefuses
<1>2. job[p].copy.status = "PAID"
  BY <1>1, BusyIsJob DEF IInv, CallIsSound, Steps
<1>3. /\ job' \in [Procs -> Job \cup {Idle}]
      /\ \A q \in Procs : CallIsSound(q)'
  BY <1>1, <1>2, CallMoves DEF Grown, Steps
<1> QED BY <1>1, <1>3 DEF IInv, TypeOK, VoucherHasCode, VoucherOpensRouter, CreatedMeansVoucher

LEMMA FailIsGood ==
  ASSUME IInv, NEW p \in Procs, Fail(p)
  PROVE  IInv'
<1>1. /\ job[p].at = "fail" /\ Goto(p, "failed") /\ UNCHANGED <<voucher, users>>
      /\ order' = [order EXCEPT ![job[p].order].fulfill = "FAILED"]
  BY DEF Fail
<1>2. job[p].order \in Orders
  BY <1>1, BusyIsJob DEF IInv
<1>3. /\ order' \in [Orders -> OrderRow]
      /\ \A q \in Orders : /\ order'[q].code = order[q].code /\ order'[q].status = order[q].status
                           /\ order'[q].fulfill = "CREATED" => order[q].fulfill = "CREATED"
  BY <1>1, <1>2 DEF IInv, TypeOK, OrderRow, FulfillStatus
<1>4. /\ job' \in [Procs -> Job \cup {Idle}]
      /\ \A q \in Procs : CallIsSound(q)'
  BY <1>1, <1>3, CallMoves DEF Grown, Results, Steps
<1> QED BY <1>1, <1>3, <1>4 DEF IInv, TypeOK, VoucherHasCode, VoucherOpensRouter, CreatedMeansVoucher

LEMMA StoreIsGood ==
  ASSUME IInv, NEW p \in Procs, Store(p)
  PROVE  IInv'
<1> DEFINE o == job[p].order
           u == job[p].copy.code
<1>1. job[p].at = "store" /\ users' = users
  BY DEF Store
<1>2. /\ o \in Orders /\ u \in Codes /\ u = order[o].code /\ order[o].status = "PAID"
      /\ <<RouterOf[o], u, o>> \in users
  BY <1>1, BusyIsJob DEF IInv, CallIsSound, OrderRow, Steps
<1>3. CASE UsernameTaken(u)
  <2>1. Goto(p, "threw") /\ UNCHANGED <<order, voucher>>
    BY <1>3 DEF Store
  <2>2. /\ job' \in [Procs -> Job \cup {Idle}]
        /\ \A q \in Procs : CallIsSound(q)'
    BY <1>1, <2>1, CallMoves DEF Grown, Results, Steps
  <2> QED BY <1>1, <2>1, <2>2
          DEF IInv, TypeOK, VoucherHasCode, VoucherOpensRouter, CreatedMeansVoucher
<1>4. CASE ~UsernameTaken(u)
  <2>1. /\ Goto(p, "created")
        /\ voucher' = [voucher EXCEPT ![o] = @ \cup {u}]
        /\ order' = [order EXCEPT ![o].fulfill = "CREATED"]
    BY <1>4 DEF Store
  <2>2. /\ voucher' \in [Orders -> SUBSET Codes] /\ order' \in [Orders -> OrderRow]
    BY <1>2, <2>1 DEF IInv, TypeOK, OrderRow, FulfillStatus
  <2>3. /\ \A q \in Orders : order'[q].code = order[q].code /\ order'[q].status = order[q].status
        /\ \A q \in Orders : q # o => voucher'[q] = voucher[q] /\ order'[q] = order[q]
        /\ voucher'[o] = voucher[o] \cup {u}
    BY <1>2, <2>1 DEF IInv, TypeOK, OrderRow
  <2>4. /\ job' \in [Procs -> Job \cup {Idle}]
        /\ \A q \in Procs : CallIsSound(q)'
    BY <1>1, <2>1, <2>3, CallMoves DEF Grown, Results, Steps
  <2>5. VoucherHasCode' /\ VoucherOpensRouter'
    BY <1>1, <1>2, <2>3 DEF IInv, VoucherHasCode, VoucherOpensRouter
  <2>6. CreatedMeansVoucher'
    BY <1>2, <2>3 DEF IInv, CreatedMeansVoucher
  <2> QED BY <1>1, <2>2, <2>4, <2>5, <2>6 DEF IInv, TypeOK
<1> QED BY <1>3, <1>4

(* The end of a call, by its result or with its process.                   *)
LEMMA EndIsGood ==
  ASSUME IInv, NEW p \in Procs, Return(p) \/ Die(p)
  PROVE  IInv'
<1>1. job' = [job EXCEPT ![p] = Idle] /\ UNCHANGED <<order, voucher, users>>
  BY DEF Return, Die
<1>2. ASSUME NEW q \in Procs PROVE CallIsSound(q)'
  <2>1. CASE q = p
    BY <1>1, <2>1 DEF CallIsSound, IInv, TypeOK, Idle
  <2>2. CASE q # p
    BY <1>1, <2>2, OthersStaySound DEF IInv, TypeOK, Grown
  <2> QED BY <2>1, <2>2
<1> QED BY <1>1, <1>2 DEF IInv, TypeOK, VoucherHasCode, VoucherOpensRouter, CreatedMeansVoucher

LEMMA PayIsGood ==
  ASSUME IInv, NEW o \in Orders, Pay(o)
  PROVE  IInv'
<1>1. order' = [order EXCEPT ![o].status = "PAID"] /\ UNCHANGED <<voucher, users, job>>
  BY DEF Pay
<1>2. /\ order' \in [Orders -> OrderRow]
      /\ \A q \in Orders : /\ order'[q].code = order[q].code /\ order'[q].fulfill = order[q].fulfill
                           /\ order[q].status = "PAID" => order'[q].status = "PAID"
  BY <1>1 DEF IInv, TypeOK, OrderRow, Status
<1>3. \A q \in Procs : CallIsSound(q)'
  BY <1>1, <1>2, OthersStaySound DEF IInv, Grown
<1> QED BY <1>1, <1>2, <1>3
        DEF IInv, TypeOK, VoucherHasCode, VoucherOpensRouter, CreatedMeansVoucher

LEMMA StepsAreGood == IInv /\ [Next]_vars => IInv'
<1> SUFFICES ASSUME IInv, [Next]_vars PROVE IInv'
  OBVIOUS
<1>1. ASSUME NEW p \in Procs, Work(p) PROVE IInv'
  BY <1>1, CheckIsGood, FixIsGood, ResolveThrowsIsGood, RouterAddsIsGood, RouterRefusesIsGood,
          FailIsGood, StoreIsGood
     DEF Work
<1>2. CASE UNCHANGED vars
  BY <1>2 DEF vars, IInv, TypeOK, CallIsSound, VoucherHasCode, VoucherOpensRouter,
              CreatedMeansVoucher
<1> QED BY <1>1, <1>2, PayIsGood, CallIsGood, EndIsGood DEF Next

-----------------------------------------------------------------------------
(* At most one voucher per order, however many callers provision it at     *)
(* once, all of whom may have passed the check for an existing one.        *)
THEOREM OneVoucher == Spec => []OneVoucherPerOrder
<1>1. IInv => OneVoucherPerOrder
  BY DEF IInv, VoucherHasCode, OneVoucherPerOrder
<1> QED BY InitIsGood, StepsAreGood, <1>1, PTL DEF Spec

(* A voucher that was stored is a user of the outlet's router with the     *)
(* password of its own order, although codes may collide.                  *)
THEOREM VoucherOpens == Spec => []VoucherOpensRouter
<1>1. IInv => VoucherOpensRouter
  BY DEF IInv
<1> QED BY InitIsGood, StepsAreGood, <1>1, PTL DEF Spec

(* The mark CREATED is never there without a voucher, nor a voucher for an *)
(* order that was not paid, although calls work on old copies of the row.  *)
THEOREM CreatedHasVoucher == Spec => []CreatedMeansVoucher
<1>1. IInv => CreatedMeansVoucher
  BY DEF IInv
<1> QED BY InitIsGood, StepsAreGood, <1>1, PTL DEF Spec
=============================================================================
