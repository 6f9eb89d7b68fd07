--------------------------- MODULE PaymentMatching --------------------------
(***************************************************************************)
(* QRIS payments: each order asks for a total that is unique while its     *)
(* payment is open (payments.service.ts), and the reconciler recognises    *)
(* the money by that total (payment-reconciler.service.ts).  A webhook may *)
(* confirm the same payment at any moment of the reconciler's cycle; the   *)
(* cycle works on lists it read before: the settlements, then the PENDING  *)
(* payments.                                                               *)
(*                                                                         *)
(* Payments stand for themselves and their orders.  What confirmPayment    *)
(* does after the order is PAID (voucher or credit) is one step: it may    *)
(* throw; Provisioning and Wallet have the details.  Time counts           *)
(* in units of the model; PAYMENT_TTL_MS, DETECTION_GRACE_MS and           *)
(* DETECTION_WINDOW_MS keep their order: Grace <= Window <= TTL.           *)
(***************************************************************************)
EXTENDS Naturals, FiniteSets

CONSTANTS
  Payments, None,
  Totals,    \* the totals base + 1..99 an order may ask for
  TTL, Grace, Window,
  MaxTime,   \* bound of the clock
  Untimed,   \* payments whose settlement the bank lists without a time
  Hooks,     \* deliveries of the payment webhook that may be under way at once
  Prompt,    \* TRUE: every unit of time has room for a whole cycle
  MayCrash,  \* TRUE: the process may be restarted
  MayMiss,   \* TRUE: the bank may not answer, or list only some settlements
  MayRefund  \* TRUE: a settlement may become a refund

Rec == "rec"
Procs == Hooks \cup {Rec}

ASSUME MatchingAssumption ==
  /\ Payments # {} /\ Totals # {} /\ Rec \notin Hooks
  /\ None \notin Payments \cup Totals /\ Untimed \subseteq Payments
  /\ TTL \in Nat \ {0} /\ Window \in Nat \ {0} /\ Grace \in Nat /\ MaxTime \in Nat
  /\ Prompt \in BOOLEAN /\ MayCrash \in BOOLEAN
  /\ MayMiss \in BOOLEAN /\ MayRefund \in BOOLEAN

Never == MaxTime + 1  \* the time of what has not happened
Time == 0 .. Never
Free == 0             \* no amount lock

VARIABLES
  now,
  lock,       \* amount_locks: the expiresAt of the lock of each total, or Free
  pay,        \* payments, with the status of the order beside that of the payment
  settled,    \* when the customer of a payment paid, outside the system
  refunded,   \* settlements that are refunds by now
  rec,        \* the cycle of the scheduler: its step and the lists it has read
  conf,       \* the confirmPayment call of the reconciler and of each webhook
  orphans     \* the newest 'reconciler-orphan' row of webhook_events

vars == <<now, lock, pay, settled, refunded, rec, conf, orphans>>
customerVars == <<settled, refunded>>

Row == [status: {"NONE", "LOCKED", "PENDING", "PAID", "EXPIRED"},
        order: {"UNPAID", "PAID", "EXPIRED"},
        total: Totals \cup {None}, start: Time, created: Time]

Idle == [at |-> "idle", now |-> 0, seen |-> {}, pending |-> {}, todo |-> {},
         expiring |-> {}, ran |-> FALSE]
IdleConf == [at |-> "idle", of |-> None]

TypeOK ==
  /\ now \in 0 .. MaxTime
  /\ lock \in [Totals -> 0 .. MaxTime + TTL]
  /\ pay \in [Payments -> Row]
  /\ settled \in [Payments -> Time]
  /\ refunded \subseteq Payments
  /\ rec \in [at: {"idle", "start", "list", "scan", "loop"}, now: Time,
              seen: SUBSET Payments, pending: SUBSET Payments, todo: SUBSET Payments,
              expiring: SUBSET Payments, ran: BOOLEAN]
  /\ conf \in [Procs -> [at: {"idle", "order", "fulfil"}, of: Payments \cup {None}]]
  /\ orphans \subseteq Payments

Open(p) == pay[p].status \in {"PENDING", "PAID", "EXPIRED"}  \* the row exists
ExpiresAt(p) == pay[p].start + TTL

-----------------------------------------------------------------------------
Init ==
  /\ now = 0
  /\ lock = [t \in Totals |-> Free]
  /\ pay = [p \in Payments |->
              [status |-> "NONE", order |-> "UNPAID", total |-> None, start |-> Never, created |-> Never]]
  /\ settled = [p \in Payments |-> Never]
  /\ refunded = {}
  /\ rec = Idle
  /\ conf = [c \in Procs |-> IdleConf]
  /\ orphans = {}

(* The end of a cycle; ran: a whole one has run in this unit of time.      *)
EndCycle == rec' = [Idle EXCEPT !.ran = Prompt /\ (rec.ran \/ rec.now = now)]
AbortCycle == rec' = [Idle EXCEPT !.ran = rec.ran]

(* A unit of time passes.                                                  *)
Advance ==
  /\ now < MaxTime
  /\ Prompt => rec.ran
  /\ now' = now + 1
  /\ rec' = [rec EXCEPT !.ran = FALSE]
  /\ UNCHANGED <<lock, pay, customerVars, conf, orphans>>

(* Slip: a unique violation is not noticed.                                *)
ReserveAnyTotal(p, t) ==
  /\ pay[p].status = "NONE"
  /\ lock' = [lock EXCEPT ![t] = now + TTL]
  /\ pay' = [pay EXCEPT ![p].status = "LOCKED", ![p].total = t, ![p].start = now]
  /\ UNCHANGED <<now, customerVars, rec, conf, orphans>>

(* createForOrder: lock a total that nobody holds ...                      *)
ReserveUniqueTotal(p, t) ==
  /\ pay[p].status = "NONE"
  /\ lock[t] = Free
  /\ lock' = [lock EXCEPT ![t] = now + TTL]
  /\ pay' = [pay EXCEPT ![p].status = "LOCKED", ![p].total = t, ![p].start = now]
  /\ UNCHANGED <<now, customerVars, rec, conf, orphans>>

(* ... and insert the payment once the QR is built, which may take a call  *)
(* to the bank; a QR that cannot be built leaves the lock behind.          *)
CreatePayment(p) ==
  /\ pay[p].status = "LOCKED"
  /\ pay' = [pay EXCEPT ![p].status = "PENDING", ![p].created = now]
  /\ UNCHANGED <<now, lock, customerVars, rec, conf, orphans>>

(* The customer scans the code and pays, perhaps long after the TTL; the   *)
(* merchant may turn a settlement into a refund.                           *)
Settle(p) ==
  /\ Open(p)
  /\ settled[p] = Never
  /\ settled' = [settled EXCEPT ![p] = now]
  /\ UNCHANGED <<now, lock, pay, refunded, rec, conf, orphans>>

Refund(p) ==
  /\ MayRefund
  /\ settled[p] # Never
  /\ p \notin refunded
  /\ refunded' = refunded \cup {p}
  /\ UNCHANGED <<now, lock, pay, settled, rec, conf, orphans>>

-----------------------------------------------------------------------------
(* confirmPayment, called by c: the payment first, whatever its status ... *)
MarkPaid(c, p) ==
  /\ conf[c].at = "idle"
  /\ pay' = [pay EXCEPT ![p].status = "PAID"]
  /\ conf' = [conf EXCEPT ![c] = [at |-> "order", of |-> p]]

(* ... then the order, whatever its status.  The read or the update of the *)
(* order may throw: the payment is PAID, the order is not, and a throw     *)
(* ends the cycle as well (scheduler.service.ts:50) ...                    *)
PayOrder(c) ==
  /\ conf[c].at = "order"
  /\ \/ /\ pay' = [pay EXCEPT ![conf[c].of].order = "PAID"]
        /\ conf' = [conf EXCEPT ![c].at = "fulfil"]
        /\ UNCHANGED rec
     \/ /\ conf' = [conf EXCEPT ![c] = IdleConf]
        /\ IF c = Rec THEN AbortCycle ELSE UNCHANGED rec
        /\ UNCHANGED pay
  /\ UNCHANGED <<now, lock, customerVars, orphans>>

(* ... then the voucher or the credit.  Of its outcomes only a throw       *)
(* matters here.                                                           *)
Fulfil(c) ==
  /\ conf[c].at = "fulfil"
  /\ conf' = [conf EXCEPT ![c] = IdleConf]
  /\ UNCHANGED rec \/ (c = Rec /\ AbortCycle)
  /\ UNCHANGED <<now, lock, pay, customerVars, orphans>>

(* The gateway reports a payment by its reference, once or several times.  *)
Webhook(c, p) ==
  /\ settled[p] # Never
  /\ MarkPaid(c, p)
  /\ UNCHANGED <<now, lock, customerVars, rec, orphans>>

-----------------------------------------------------------------------------
(* Slip: the cleanup compares the wrong way round.                         *)
TickFreesLive ==
  /\ rec.at = "idle"
  /\ lock' = [t \in Totals |-> IF lock[t] >= now THEN Free ELSE lock[t]]
  /\ rec' = [rec EXCEPT !.at = "start"]
  /\ UNCHANGED <<now, pay, customerVars, conf, orphans>>

(* The scheduler's tick: cleanupAmountLocks, then runCycle.                *)
Tick ==
  /\ rec.at = "idle"
  /\ lock' = [t \in Totals |-> IF lock[t] <= now THEN Free ELSE lock[t]]
  /\ rec' = [rec EXCEPT !.at = "start"]
  /\ UNCHANGED <<now, pay, customerVars, conf, orphans>>

(* The cycle takes the time once, before it asks for the settlements.      *)
StartCycle ==
  /\ rec.at = "start"
  /\ rec' = [rec EXCEPT !.at = "list", !.now = now]
  /\ UNCHANGED <<now, lock, pay, customerVars, conf, orphans>>

(* listSettlements, without the refunds.  An account whose bank cannot be  *)
(* reached is skipped, and of each account only the newest 50 journals are *)
(* listed: the cycle goes on as if nobody else had paid.                   *)
InWindow(p) == settled[p] # Never /\ now <= settled[p] + Window

ListSettlements ==
  /\ rec.at = "list"
  /\ LET paid == {p \in Payments : InWindow(p) /\ p \notin refunded}
     IN \E seen \in (IF MayMiss THEN SUBSET paid ELSE {paid}) :
          rec' = [rec EXCEPT !.at = "scan", !.seen = seen]
  /\ UNCHANGED <<now, lock, pay, customerVars, conf, orphans>>

FindPending ==
  /\ rec.at = "scan"
  /\ LET pending == {p \in Payments : pay[p].status = "PENDING"}
     IN rec' = [rec EXCEPT !.at = "loop", !.pending = pending, !.todo = pending]
  /\ UNCHANGED <<now, lock, pay, customerVars, conf, orphans>>

(* The settlement of s fits payment p: its total, not before the payment   *)
(* was created (E5), if it carries a time.  A match does not use it up.    *)
Matches(s, p) ==
  /\ pay[s].total = pay[p].total
  /\ s \in Untimed \/ settled[s] >= pay[p].created

Looping(p) ==
  /\ rec.at = "loop"
  /\ conf[Rec].at = "idle"
  /\ rec.expiring = {}
  /\ p \in rec.todo

Done(p) == rec' = [rec EXCEPT !.todo = @ \ {p}]

(* Slip: no time guard.                                                    *)
ConfirmAnyTime(p) ==
  /\ Looping(p)
  /\ \E s \in rec.seen : pay[s].total = pay[p].total
  /\ MarkPaid(Rec, p)
  /\ Done(p)
  /\ UNCHANGED <<now, lock, customerVars, orphans>>

Confirm(p) ==
  /\ Looping(p)
  /\ \E s \in rec.seen : Matches(s, p)
  /\ MarkPaid(Rec, p)
  /\ Done(p)
  /\ UNCHANGED <<now, lock, customerVars, orphans>>

Unmatched(p) == Looping(p) /\ ~\E s \in rec.seen : Matches(s, p)

StillOpen(p) ==
  /\ Unmatched(p)
  /\ ExpiresAt(p) + Grace > rec.now
  /\ Done(p)
  /\ UNCHANGED <<now, lock, pay, customerVars, conf, orphans>>

(* Slip: the grace time is forgotten.                                      *)
ExpirePaymentAtTTL(p) ==
  /\ Unmatched(p)
  /\ ExpiresAt(p) <= rec.now
  /\ pay' = [pay EXCEPT ![p].status = "EXPIRED"]
  /\ rec' = [rec EXCEPT !.todo = @ \ {p}, !.expiring = {p}]
  /\ UNCHANGED <<now, lock, customerVars, conf, orphans>>

(* The expiry writer: the payment by its id, whatever its status is by now *)
(* and then the order if it is still UNPAID.                               *)
ExpirePayment(p) ==
  /\ Unmatched(p)
  /\ ExpiresAt(p) + Grace <= rec.now
  /\ pay' = [pay EXCEPT ![p].status = "EXPIRED"]
  /\ rec' = [rec EXCEPT !.todo = @ \ {p}, !.expiring = {p}]
  /\ UNCHANGED <<now, lock, customerVars, conf, orphans>>

(* Slip: the order is expired by its id alone.                             *)
ExpireOrderAnyway(p) ==
  /\ p \in rec.expiring
  /\ pay' = [pay EXCEPT ![p].order = "EXPIRED"]
  /\ rec' = [rec EXCEPT !.expiring = {}]
  /\ UNCHANGED <<now, lock, customerVars, conf, orphans>>

ExpireOrder(p) ==
  /\ p \in rec.expiring
  /\ pay' = [pay EXCEPT ![p].order = IF @ = "UNPAID" THEN "EXPIRED" ELSE @]
  /\ rec' = [rec EXCEPT !.expiring = {}]
  /\ UNCHANGED <<now, lock, customerVars, conf, orphans>>

(* The end of the cycle: settlements whose total no scanned payment has.   *)
Orphaned == {s \in rec.seen : \A p \in rec.pending : pay[p].total # pay[s].total}

LogOrphans ==
  /\ rec.at = "loop"
  /\ rec.todo = {} /\ rec.expiring = {}
  /\ conf[Rec].at = "idle"
  /\ orphans' = IF Orphaned = {} THEN orphans ELSE Orphaned
  /\ EndCycle
  /\ UNCHANGED <<now, lock, pay, customerVars, conf>>

(* The process restarts: the cycle and the calls under way are gone.       *)
Crash ==
  /\ MayCrash
  /\ AbortCycle
  /\ conf' = [c \in Procs |-> IdleConf]
  /\ UNCHANGED <<now, lock, pay, customerVars, orphans>>

Scheduler ==
  \/ Tick \/ StartCycle \/ ListSettlements \/ FindPending
  \/ \E p \in Payments : Confirm(p) \/ StillOpen(p) \/ ExpirePayment(p) \/ ExpireOrder(p)
  \/ PayOrder(Rec) \/ Fulfil(Rec)
  \/ LogOrphans

Next ==
  \/ Advance \/ Crash
  \/ \E p \in Payments, t \in Totals : ReserveUniqueTotal(p, t)
  \/ \E p \in Payments : CreatePayment(p) \/ Settle(p) \/ Refund(p)
  \/ \E c \in Hooks : PayOrder(c) \/ Fulfil(c) \/ \E p \in Payments : Webhook(c, p)
  \/ Scheduler

Spec == Init /\ [][Next]_vars

(* SCHEDULER_ENABLED: the timer fires again and again, and a cycle that    *)
(* started goes on.                                                        *)
FairSpec == Spec /\ WF_vars(Scheduler)

-----------------------------------------------------------------------------
(* BR-9: of two payments neither of which has reached its TTL the totals   *)
(* differ, so the money of one is never taken for that of the other.       *)
OpenTotalsDiffer ==
  \A p, q \in Payments :
     /\ p # q
     /\ pay[p].status # "NONE" /\ pay[q].status # "NONE"
     /\ now < ExpiresAt(p) /\ now < ExpiresAt(q)
     => pay[p].total # pay[q].total

(* Nothing is confirmed without money: an order is PAID only if somebody   *)
(* has paid its total, and not before its payment was created (E5), unless *)
(* the bank gives no time for that settlement.                             *)
PaidHasSettlement ==
  \A p \in Payments : pay[p].order = "PAID" =>
     \E s \in Payments :
        /\ settled[s] # Never
        /\ pay[s].total = pay[p].total
        /\ settled[s] < pay[p].created => s \in Untimed

(* The money of one order confirms another one only after a total has been *)
(* reused: the two payments were created at least a TTL apart.             *)
ForeignMoneyOnlyByReuse ==
  \A p \in Payments : pay[p].order = "PAID" /\ settled[p] = Never =>
     \E s \in Payments :
        /\ settled[s] # Never
        /\ pay[s].total = pay[p].total
        /\ pay[s].start >= ExpiresAt(p) \/ pay[p].start >= ExpiresAt(s)

(* What was delivered stays paid: the expiry writer never takes an order   *)
(* away from a webhook that was faster.                                    *)
PaidOrderStaysPaid ==
  [][\A p \in Payments : pay[p].order = "PAID" => pay'[p].order = "PAID"]_vars

(* E3: money that arrives before the TTL and the grace time are over is    *)
(* recognised by the reconciler alone, as long as the bank lists it: its   *)
(* order becomes PAID, unless the money is refunded or the call that       *)
(* confirms it throws between the payment and the order.                   *)
InTime(p) == settled[p] # Never /\ settled[p] < ExpiresAt(p) + Grace

Abandoned(p) ==
  /\ pay[p].status = "PAID" /\ pay[p].order # "PAID"
  /\ \A c \in Procs : conf[c].at = "idle" \/ conf[c].of # p

MoneyInTimeIsRecognised ==
  \A p \in Payments :
     InTime(p) ~> pay[p].order = "PAID" \/ p \in refunded \/ Abandoned(p)

(* The two properties below are what the comments say; the code does not   *)
(* keep them (README, "Remarks").                                          *)

(* schema.prisma:237 "Reserves a unique payable amount while a payment is  *)
(* in-flight": two PENDING payments never ask for the same total.          *)
PendingTotalsDiffer ==
  \A p, q \in Payments :
     pay[p].status = "PENDING" /\ pay[q].status = "PENDING" /\ p # q
     => pay[p].total # pay[q].total

(* payment-reconciler.service.ts:27 "matched-nothing settlements are       *)
(* logged": a cycle logs the money that confirmed nothing and fits none of *)
(* the payments it looked at.                                              *)
UnmatchedIsLogged ==
  [][LogOrphans => \A s \in rec.seen :
        pay[s].status # "PAID" /\ (\A p \in rec.pending : ~Matches(s, p))
        => s \in orphans']_vars
=============================================================================
