---------------------------- MODULE Provisioning ----------------------------
(***************************************************************************)
(* provisionOrder (modules/provisioning/provisioning.service.ts) on top of *)
(* the RouterOS adapter: the voucher of a paid order becomes a user of the *)
(* outlet's router and a row of the vouchers table.                        *)
(*                                                                         *)
(* provisionOrder works on a COPY of the order row that its caller read    *)
(* earlier, and awaits the database and the router between its steps, so   *)
(* several calls for one order may be under way at once (a webhook and the *)
(* reconciler).  Each call is a job; its steps are the awaits.             *)
(***************************************************************************)
CONSTANTS
  Orders,
  Procs,     \* the callers: requests, the webhook, the reconciler
  Routers,
  Codes,     \* the usernames generateCode can produce
  NoOrder,
  RouterOf,  \* the outlet (serverId) each order is for
  Unreadable \* the routers whose credentials may be unreadable at a call

ASSUME OrderNamesAssumption ==
  /\ NoOrder \notin Orders
  /\ RouterOf \in [Orders -> Routers]
  /\ Unreadable \subseteq Routers

VARIABLES
  order,    \* the orders table; the status "NONE" is no row yet
  voucher,  \* the usernames of the order's rows in the vouchers table
  users,    \* <<router, username, order whose password it has>>
  job       \* the provisionOrder call of each caller

vars == <<order, voucher, users, job>>

Status == {"NONE", "UNPAID", "PAID", "EXPIRED", "FAILED"}
FulfillStatus == {"PENDING", "CREATED", "FAILED"}
OrderRow == [status: Status, fulfill: FulfillStatus, code: Codes]

Steps == {"check", "fix", "router", "fail", "store"}
Results == {"created", "already_done", "failed", "not_paid", "threw"}
Idle == [at |-> "idle", order |-> NoOrder]
Job == [at: Steps \cup Results, order: Orders, copy: OrderRow]

TypeOK ==
  /\ order \in [Orders -> OrderRow]
  /\ voucher \in [Orders -> SUBSET Codes]
  /\ users \subseteq Routers \X Codes \X Orders
  /\ job \in [Procs -> Job \cup {Idle}]

-----------------------------------------------------------------------------
Row(s, c) == [status |-> s, fulfill |-> "PENDING", code |-> c]

InitWith(s, codes) ==
  /\ \E c \in [Orders -> codes] : order = [o \in Orders |-> Row(s, c[o])]
  /\ voucher = [o \in Orders |-> {}]
  /\ users = {}
  /\ job = [p \in Procs |-> Idle]

(* The username of each order is drawn when the order is created.          *)
Init == InitWith("UNPAID", Codes)

Goto(p, step) == job' = [job EXCEPT ![p].at = step]

(* The unique key of vouchers.username.                                    *)
UsernameTaken(u) == \E o \in Orders : u \in voucher[o]

KnownUser(o, u) == \E q \in Orders : <<RouterOf[o], u, q>> \in users

(* The call, with the order row as the caller has it in memory.            *)
Call(p, o, copy) ==
  /\ job[p] = Idle
  /\ job' = [job EXCEPT ![p] = [at |-> "check", order |-> o, copy |-> copy]]
  /\ UNCHANGED <<order, voucher, users>>

(* Slip: the username is drawn at every attempt, not with the order.       *)
CheckDraws(p) ==
  /\ job[p].at = "check"
  /\ voucher[job[p].order] = {} /\ job[p].copy.status = "PAID"
  /\ \E c \in Codes : job' = [job EXCEPT ![p].at = "router", ![p].copy.code = c]
  /\ UNCHANGED <<order, voucher, users>>

(* The early returns: they trust the caller's copy, except for the voucher *)
(* row, which is looked up.  A voucher order always has credentials, so    *)
(* missing_creds is not reached.                                           *)
Check(p) ==
  /\ job[p].at = "check"
  /\ LET copy == job[p].copy
         done == voucher[job[p].order] # {} \/ copy.fulfill = "CREATED"
     IN Goto(p, IF copy.status # "PAID" THEN "not_paid"
                ELSE IF ~done THEN "router"
                ELSE IF copy.fulfill = "CREATED" THEN "already_done"
                ELSE "fix")
  /\ UNCHANGED <<order, voucher, users>>

(* A voucher without its CREATED mark: repair the mark.                    *)
Fix(p) ==
  /\ job[p].at = "fix"
  /\ order' = [order EXCEPT ![job[p].order].fulfill = "CREATED"]
  /\ Goto(p, "already_done")
  /\ UNCHANGED <<voucher, users>>

(* createHotspotUser resolves the outlet's credentials before its try: an  *)
(* exception there (a lookup that fails, a password that cannot be         *)
(* decrypted) leaves provisionOrder, and no FAILED is written.             *)
ResolveThrows(p) ==
  /\ job[p].at = "router"
  /\ RouterOf[job[p].order] \in Unreadable
  /\ Goto(p, "threw")
  /\ UNCHANGED <<order, voucher, users>>

(* Inside the try: the router adds the user unless the name is taken       *)
(* (!trap); an exception, a timeout and a lost reply are all {ok: false},  *)
(* whether or not the router has added the user.                           *)
RouterAdds(p) ==
  /\ job[p].at = "router"
  /\ LET o == job[p].order
         u == job[p].copy.code
     IN ~KnownUser(o, u) /\ users' = users \cup {<<RouterOf[o], u, o>>}
  /\ \/ Goto(p, "store")
     \/ Goto(p, "fail")   \* the reply is lost
  /\ UNCHANGED <<order, voucher>>

(* Slip: a router that refuses counts as one that answered.                *)
RouterRefusesUnseen(p) ==
  /\ job[p].at = "router"
  /\ Goto(p, "store")
  /\ UNCHANGED <<order, voucher, users>>

(* !trap, an outlet without credentials, or a failure before the router    *)
(* took the command.                                                       *)
RouterRefuses(p) ==
  /\ job[p].at = "router"
  /\ Goto(p, "fail")
  /\ UNCHANGED <<order, voucher, users>>

(* !result.ok: FAILED is written whatever the row holds by now.            *)
Fail(p) ==
  /\ job[p].at = "fail"
  /\ order' = [order EXCEPT ![job[p].order].fulfill = "FAILED"]
  /\ Goto(p, "failed")
  /\ UNCHANGED <<voucher, users>>

(* Slip: a taken username is taken for the voucher of this very order.     *)
StoreUpserts(p) ==
  /\ job[p].at = "store"
  /\ LET o == job[p].order
         u == job[p].copy.code
     IN /\ voucher' = IF UsernameTaken(u) THEN voucher ELSE [voucher EXCEPT ![o] = @ \cup {u}]
        /\ order' = [order EXCEPT ![o].fulfill = "CREATED"]
  /\ Goto(p, "created")
  /\ UNCHANGED users

(* One transaction: the voucher row and the CREATED mark, or an exception  *)
(* to the caller when the username is taken.                               *)
Store(p) ==
  /\ job[p].at = "store"
  /\ LET o == job[p].order
         u == job[p].copy.code
     IN IF UsernameTaken(u)
          THEN Goto(p, "threw") /\ UNCHANGED <<order, voucher>>
          ELSE /\ voucher' = [voucher EXCEPT ![o] = @ \cup {u}]
               /\ order' = [order EXCEPT ![o].fulfill = "CREATED"]
               /\ Goto(p, "created")
  /\ UNCHANGED users

Work(p) ==
  \/ Check(p) \/ Fix(p)
  \/ ResolveThrows(p) \/ RouterAdds(p) \/ RouterRefuses(p)
  \/ Fail(p) \/ Store(p)

(* The caller takes the result, or the call dies with its process.         *)
Return(p) ==
  /\ job[p].at \in Results
  /\ job' = [job EXCEPT ![p] = Idle]
  /\ UNCHANGED <<order, voucher, users>>

Die(p) ==
  /\ job[p].at \in Steps
  /\ job' = [job EXCEPT ![p] = Idle]
  /\ UNCHANGED <<order, voucher, users>>

(* The callers of this module's own specification: an order gets paid, and *)
(* any caller may provision it with the row it has just read.              *)
Pay(o) ==
  /\ order[o].status = "UNPAID"
  /\ order' = [order EXCEPT ![o].status = "PAID"]
  /\ UNCHANGED <<voucher, users, job>>

Next ==
  \/ \E o \in Orders : Pay(o)
  \/ \E p \in Procs, o \in Orders : Call(p, o, order[o])
  \/ \E p \in Procs : Work(p) \/ Return(p) \/ Die(p)

Spec == Init /\ [][Next]_vars

-----------------------------------------------------------------------------
(* BR-16, I-3: at most one voucher per order, however many calls for the   *)
(* order pass the "existing" check before the first of them stores.        *)
OneVoucherPerOrder == \A o \in Orders : \A u, v \in voucher[o] : u = v

(* A voucher that was stored opens the door: its username is a user of the *)
(* outlet's router and carries this order's password, not that of another  *)
(* order which drew the same code.                                         *)
VoucherOpensRouter ==
  \A o \in Orders : \A u \in voucher[o] : <<RouterOf[o], u, o>> \in users

(* The CREATED mark, on which provisionOrder skips an order for good, is   *)
(* never there without a voucher, and a voucher only for an order that was *)
(* paid.                                                                   *)
CreatedMeansVoucher ==
  \A o \in Orders :
     /\ order[o].fulfill = "CREATED" => voucher[o] # {}
     /\ voucher[o] # {} => order[o].status = "PAID"
=============================================================================
