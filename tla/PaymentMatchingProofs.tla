------------------------ MODULE PaymentMatchingProofs -----------------------
(***************************************************************************)
(* Theorems about PaymentMatching, for any numbers of payments, totals and *)
(* webhooks, any clock, TTL, grace time and window: totals are unique for  *)
(* a TTL, nothing is confirmed without money, the money of another order   *)
(* only confirms after a reuse, and PAID orders stay PAID.                 *)
(***************************************************************************)
EXTENDS PaymentMatching, TLAPS

Asked(p) == pay[p].status # "NONE"

(* Money that fits p has arrived.                                          *)
HasMoney(p) == Open(p) /\ \E s \in Payments : settled[s] # Never /\ Matches(s, p)

Confirming(c, p) == conf[c].at # "idle" /\ conf[c].of = p

(* Whoever asks for a total keeps its lock for a TTL.                      *)
LockIsKept ==
  \A p \in Payments : Asked(p) =>
     /\ pay[p].total \in Totals
     /\ pay[p].start \in Nat /\ pay[p].start <= now
     /\ now < ExpiresAt(p) => lock[pay[p].total] = ExpiresAt(p)

(* Hence two payments of one total are at least a TTL apart.               *)
ReuseIsLater ==
  \A p, q \in Payments : p # q /\ Asked(p) /\ Asked(q) /\ pay[p].total = pay[q].total =>
     pay[p].start >= ExpiresAt(q) \/ pay[q].start >= ExpiresAt(p)

(* A customer pays what exists; all that is confirmed has money.           *)
MoneyIsReal ==
  /\ \A p \in Payments : Open(p) => pay[p].created <= now
  /\ \A p \in Payments : settled[p] # Never => Open(p) /\ settled[p] >= pay[p].created
  /\ \A s \in rec.seen : settled[s] # Never
  /\ \A p \in rec.todo \cup rec.expiring : Open(p)
  /\ \A c \in Procs : conf[c].at # "idle" => conf[c].of \in Payments
  /\ \A c \in Procs, p \in Payments : Confirming(c, p) => HasMoney(p)
  /\ \A p \in Payments : pay[p].order = "PAID" => HasMoney(p)

IInv == TypeOK /\ LockIsKept /\ ReuseIsLater /\ MoneyIsReal

(* What a step does not change of the payments that exist.                 *)
Steady ==
  \A p \in Payments :
     /\ Asked(p) <=> Asked(p)'
     /\ Asked(p) => pay'[p].total = pay[p].total /\ pay'[p].start = pay[p].start
     /\ Open(p) => Open(p)' /\ pay'[p].created = pay[p].created

-----------------------------------------------------------------------------
LEMMA InitIsGood == Init => IInv
BY MatchingAssumption
   DEF Init, IInv, TypeOK, LockIsKept, ReuseIsLater, MoneyIsReal, HasMoney, Open, Asked, Confirming, Never,
       Time, Row, Idle, IdleConf, Free, Procs, Rec

(* Money that is there stays there.                                        *)
LEMMA MoneyStays ==
  ASSUME IInv, Steady, NEW p \in Payments, HasMoney(p),
         \A s \in Payments : settled[s] # Never => settled'[s] = settled[s]
  PROVE  HasMoney(p)'
<1>1. PICK s \in Payments : settled[s] # Never /\ Matches(s, p)
  BY DEF HasMoney
<1>2. Open(s) /\ Open(p) /\ Asked(s) /\ Asked(p)
  BY <1>1 DEF IInv, MoneyIsReal, HasMoney, Open, Asked
<1>3. Matches(s, p)' /\ settled'[s] # Never /\ Open(p)'
  BY <1>1, <1>2 DEF Matches, Steady
<1> QED BY <1>3 DEF HasMoney, Never

(* Locks that may be released are those whose time is over.                *)
LEMMA LocksStay ==
  ASSUME IInv, Steady, now' \in Nat, now' >= now,
         \A t \in Totals : lock[t] > now => lock'[t] = lock[t]
  PROVE  LockIsKept' /\ ReuseIsLater'
<1>1. ASSUME NEW p \in Payments, Asked(p)'
      PROVE  /\ pay'[p].total \in Totals
             /\ pay'[p].start \in Nat /\ pay'[p].start <= now'
             /\ now' < ExpiresAt(p)' => lock'[pay'[p].total] = ExpiresAt(p)'
  <2>1. Asked(p) /\ ExpiresAt(p)' = ExpiresAt(p) /\ pay'[p].total = pay[p].total
        /\ pay'[p].start = pay[p].start
    BY <1>1 DEF Steady, ExpiresAt
  <2>2. pay[p].total \in Totals /\ pay[p].start \in Nat /\ pay[p].start <= now /\ now \in Nat
        /\ (now < ExpiresAt(p) => lock[pay[p].total] = ExpiresAt(p))
    BY <2>1 DEF IInv, LockIsKept, TypeOK
  <2>3. ExpiresAt(p) \in Nat
    BY <2>2, MatchingAssumption DEF ExpiresAt
  <2> QED BY <2>1, <2>2, <2>3
<1>2. ReuseIsLater'
  BY DEF IInv, Steady, ReuseIsLater, ExpiresAt
<1> QED BY <1>1, <1>2 DEF LockIsKept

(* A step of the reconciler or of a webhook: what it adds must be backed.  *)
LEMMA StepIsGood ==
  ASSUME IInv, TypeOK', Steady, now' = now, settled' = settled,
         \A t \in Totals : lock[t] > now => lock'[t] = lock[t],
         \A p \in Payments : Open(p)' => Open(p),
         \A s \in rec'.seen : settled[s] # Never,
         \A p \in rec'.todo \cup rec'.expiring : p \in Payments /\ Open(p),
         \A c \in Procs : conf'[c].at # "idle" => conf'[c].of \in Payments,
         \A c \in Procs, p \in Payments : Confirming(c, p)' => Confirming(c, p) \/ HasMoney(p),
         \A p \in Payments : pay'[p].order = "PAID" =>
             pay[p].order = "PAID" \/ \E c \in Procs : Confirming(c, p)
  PROVE  IInv'
<1>1. LockIsKept' /\ ReuseIsLater'
  BY LocksStay DEF IInv, TypeOK
<1>2. \A p \in Payments : HasMoney(p) => HasMoney(p)'
  BY MoneyStays
<1>3. \A c \in Procs, p \in Payments : Confirming(c, p)' => HasMoney(p)'
  BY <1>2 DEF IInv, MoneyIsReal
<1>4. \A p \in Payments : pay'[p].order = "PAID" => HasMoney(p)'
  BY <1>2 DEF IInv, MoneyIsReal
<1>5. /\ \A p \in Payments : Open(p)' => pay'[p].created <= now'
      /\ \A p \in Payments : settled'[p] # Never => Open(p)' /\ settled'[p] >= pay'[p].created
      /\ \A s \in rec'.seen : settled'[s] # Never
      /\ \A p \in rec'.todo \cup rec'.expiring : Open(p)'
  BY DEF IInv, MoneyIsReal, Steady
<1> QED BY <1>1, <1>3, <1>4, <1>5 DEF IInv, MoneyIsReal, Never

-----------------------------------------------------------------------------
LEMMA AdvanceIsGood == ASSUME IInv, Advance PROVE IInv'
<1>1. /\ now' = now + 1 /\ now < MaxTime /\ rec' = [rec EXCEPT !.ran = FALSE]
      /\ UNCHANGED <<lock, pay, settled, refunded, conf, orphans>>
  BY DEF Advance, customerVars
<1>2. TypeOK'
  <2>1. now' \in 0 .. MaxTime
    BY <1>1, MatchingAssumption DEF IInv, TypeOK
  <2>2. rec' \in [at: {"idle", "start", "list", "scan", "loop"}, now: Time,
                 seen: SUBSET Payments, pending: SUBSET Payments, todo: SUBSET Payments,
                 expiring: SUBSET Payments, ran: BOOLEAN]
    BY <1>1 DEF IInv, TypeOK
  <2> QED BY <1>1, <2>1, <2>2 DEF IInv, TypeOK
<1>3. Steady
  BY <1>1 DEF Steady, Asked, Open
<1>4. LockIsKept' /\ ReuseIsLater'
  BY <1>1, <1>3, LocksStay DEF IInv, TypeOK
<1>5. \A p \in Payments : (HasMoney(p) <=> HasMoney(p)') /\ (Open(p) <=> Open(p)')
  BY <1>1 DEF HasMoney, Open, Matches
<1>6. /\ rec'.seen = rec.seen /\ rec'.todo = rec.todo /\ rec'.expiring = rec.expiring
      /\ rec'.todo \cup rec'.expiring \subseteq Payments
  BY <1>1 DEF IInv, TypeOK
<1>7. \A p \in Payments : Open(p)' => pay'[p].created <= now'
  BY <1>1, <1>5 DEF IInv, MoneyIsReal, TypeOK, Row, Time, Never
<1>8. MoneyIsReal'
  BY <1>1, <1>5, <1>6, <1>7 DEF IInv, MoneyIsReal, Confirming
<1> QED BY <1>2, <1>4, <1>8 DEF IInv

LEMMA ReserveIsGood ==
  ASSUME IInv, NEW p \in Payments, NEW t \in Totals, ReserveUniqueTotal(p, t)
  PROVE  IInv'
<1>1. /\ pay[p].status = "NONE" /\ lock[t] = Free
      /\ lock' = [lock EXCEPT ![t] = now + TTL]
      /\ pay' = [pay EXCEPT ![p].status = "LOCKED", ![p].total = t, ![p].start = now]
      /\ UNCHANGED <<now, settled, refunded, rec, conf, orphans>>
  BY DEF ReserveUniqueTotal, customerVars
<1>2. TypeOK'
  <2>1. now \in 0 .. MaxTime /\ now + TTL \in 0 .. MaxTime + TTL /\ now \in Time
    BY MatchingAssumption DEF IInv, TypeOK, Time, Never
  <2>2. lock' \in [Totals -> 0 .. MaxTime + TTL]
    BY <1>1, <2>1 DEF IInv, TypeOK
  <2>3. pay' \in [Payments -> Row]
    <3>1. pay[p] \in Row /\ pay \in [Payments -> Row]
      BY DEF IInv, TypeOK
    <3>2. [pay[p] EXCEPT !.status = "LOCKED", !.total = t, !.start = now] \in Row
      BY <2>1, <3>1 DEF Row
    <3> QED BY <1>1, <3>1, <3>2
  <2> QED BY <1>1, <2>2, <2>3 DEF IInv, TypeOK
<1>3. /\ \A q \in Payments \ {p} : pay'[q] = pay[q]
      /\ pay'[p].status = "LOCKED" /\ pay'[p].total = t /\ pay'[p].start = now
      /\ pay'[p].order = pay[p].order
  BY <1>1 DEF IInv, TypeOK, Row
<1>4. LockIsKept'
  <2> SUFFICES ASSUME NEW q \in Payments, Asked(q)'
               PROVE  /\ pay'[q].total \in Totals
                      /\ pay'[q].start \in Nat /\ pay'[q].start <= now'
                      /\ now' < ExpiresAt(q)' => lock'[pay'[q].total] = ExpiresAt(q)'
    BY DEF LockIsKept
  <2>1. CASE q = p
    BY <1>1, <1>3, <2>1, MatchingAssumption DEF IInv, TypeOK, ExpiresAt
  <2>2. CASE q # p
    <3>1. Asked(q) /\ ExpiresAt(q)' = ExpiresAt(q) /\ pay'[q] = pay[q] /\ now \in Nat
      BY <1>3, <2>2 DEF Asked, ExpiresAt, IInv, TypeOK
    <3>2. now < ExpiresAt(q) => pay[q].total # t
      BY <1>1, <3>1 DEF IInv, LockIsKept, Free
    <3> QED BY <1>1, <3>1, <3>2 DEF IInv, LockIsKept, TypeOK
  <2> QED BY <2>1, <2>2
<1>5. ReuseIsLater'
  <2>1. ASSUME NEW q \in Payments \ {p}, Asked(q), pay[q].total = t
        PROVE  now >= ExpiresAt(q)
    <3>1. ~(now < ExpiresAt(q))
      BY <1>1, <2>1 DEF IInv, LockIsKept, Free, TypeOK
    <3> QED BY <2>1, <3>1, MatchingAssumption DEF IInv, LockIsKept, ExpiresAt, TypeOK
  <2> SUFFICES ASSUME NEW q \in Payments, NEW r \in Payments, q # r, Asked(q)', Asked(r)',
                      pay'[q].total = pay'[r].total
               PROVE  pay'[q].start >= ExpiresAt(r)' \/ pay'[r].start >= ExpiresAt(q)'
    BY DEF ReuseIsLater
  <2>2. CASE q = p
    BY <1>3, <2>1, <2>2 DEF Asked, ExpiresAt
  <2>3. CASE r = p
    BY <1>3, <2>1, <2>3 DEF Asked, ExpiresAt
  <2>4. CASE q # p /\ r # p
    BY <1>3, <2>4 DEF Asked, ExpiresAt, IInv, ReuseIsLater
  <2> QED BY <2>2, <2>3, <2>4
<1>6. \A q \in Payments : (Open(q) <=> Open(q)') /\ (Open(q) => pay'[q] = pay[q])
  BY <1>1, <1>3 DEF Open
<1>7. \A q \in Payments : HasMoney(q) => HasMoney(q)'
  <2> SUFFICES ASSUME NEW q \in Payments, HasMoney(q) PROVE HasMoney(q)'
    OBVIOUS
  <2>1. PICK s \in Payments : settled[s] # Never /\ Matches(s, q)
    BY DEF HasMoney
  <2>2. Open(s) /\ Open(q)
    BY <2>1 DEF IInv, MoneyIsReal, HasMoney
  <2> QED BY <1>1, <1>6, <2>1, <2>2 DEF HasMoney, Matches, Never
<1>8. \A q \in Payments : pay'[q].order = pay[q].order
  BY <1>3
<1>9. rec'.todo \cup rec'.expiring \subseteq Payments
  BY <1>1 DEF IInv, TypeOK
<1>10. MoneyIsReal'
  BY <1>1, <1>6, <1>7, <1>8, <1>9 DEF IInv, MoneyIsReal, Confirming, Never
<1> QED BY <1>2, <1>4, <1>5, <1>10 DEF IInv

LEMMA CreateIsGood ==
  ASSUME IInv, NEW p \in Payments, CreatePayment(p)
  PROVE  IInv'
<1>1. /\ pay[p].status = "LOCKED"
      /\ pay' = [pay EXCEPT ![p].status = "PENDING", ![p].created = now]
      /\ UNCHANGED <<now, lock, settled, refunded, rec, conf, orphans>>
  BY DEF CreatePayment, customerVars
<1>2. TypeOK'
  <2>1. now \in Time
    BY MatchingAssumption DEF IInv, TypeOK, Time, Never
  <2>2. pay' \in [Payments -> Row]
    <3>1. pay[p] \in Row /\ pay \in [Payments -> Row]
      BY DEF IInv, TypeOK
    <3>2. [pay[p] EXCEPT !.status = "PENDING", !.created = now] \in Row
      BY <2>1, <3>1 DEF Row
    <3> QED BY <1>1, <3>1, <3>2
  <2> QED BY <1>1, <2>2 DEF IInv, TypeOK
<1>3. /\ \A q \in Payments \ {p} : pay'[q] = pay[q]
      /\ pay'[p].status = "PENDING" /\ pay'[p].total = pay[p].total /\ pay'[p].start = pay[p].start
      /\ pay'[p].order = pay[p].order /\ pay'[p].created = now
  BY <1>1 DEF IInv, TypeOK, Row
<1>4. Steady
  BY <1>1, <1>3 DEF Steady, Asked, Open
<1>5. LockIsKept' /\ ReuseIsLater'
  BY <1>1, <1>4, LocksStay DEF IInv, TypeOK
<1>6. \A q \in Payments : HasMoney(q) => HasMoney(q)'
  BY <1>1, <1>4, MoneyStays
<1>7. \A q \in Payments : /\ Open(q) => Open(q)' /\ pay'[q].created = pay[q].created
                          /\ Open(q)' /\ ~Open(q) => pay'[q].created = now
                          /\ pay'[q].order = pay[q].order
  BY <1>1, <1>3, <1>4 DEF Steady, Open
<1>8. rec'.todo \cup rec'.expiring \subseteq Payments /\ now \in Nat
  BY <1>1 DEF IInv, TypeOK
<1>9. \A q \in Payments : Open(q)' => pay'[q].created <= now'
  <2> SUFFICES ASSUME NEW q \in Payments, Open(q)' PROVE pay'[q].created <= now
    BY <1>1
  <2>1. CASE Open(q)
    BY <1>7, <2>1 DEF IInv, MoneyIsReal
  <2>2. CASE ~Open(q)
    BY <1>7, <1>8, <2>2
  <2> QED BY <2>1, <2>2
<1>10. \A q \in Payments : settled'[q] # Never => Open(q)' /\ settled'[q] >= pay'[q].created
  BY <1>1, <1>7 DEF IInv, MoneyIsReal, Never
<1>11. /\ \A s \in rec'.seen : settled'[s] # Never
       /\ \A q \in rec'.todo \cup rec'.expiring : Open(q)'
  BY <1>1, <1>7, <1>8 DEF IInv, MoneyIsReal, Never
<1>12. /\ \A c \in Procs : conf'[c].at # "idle" => conf'[c].of \in Payments
       /\ \A c \in Procs, q \in Payments : Confirming(c, q)' => HasMoney(q)'
       /\ \A q \in Payments : pay'[q].order = "PAID" => HasMoney(q)'
  BY <1>1, <1>6, <1>7 DEF IInv, MoneyIsReal, Confirming
<1>13. MoneyIsReal'
  BY <1>9, <1>10, <1>11, <1>12 DEF MoneyIsReal, Never
<1> QED BY <1>2, <1>5, <1>13 DEF IInv

LEMMA SettleIsGood ==
  ASSUME IInv, NEW p \in Payments, Settle(p)
  PROVE  IInv'
<1>1. /\ Open(p) /\ settled[p] = Never /\ settled' = [settled EXCEPT ![p] = now]
      /\ UNCHANGED <<now, lock, pay, refunded, rec, conf, orphans>>
  BY DEF Settle
<1>2. TypeOK'
  <2>1. now \in Time
    BY MatchingAssumption DEF IInv, TypeOK, Time, Never
  <2> QED BY <1>1, <2>1 DEF IInv, TypeOK
<1>3. Steady /\ LockIsKept' /\ ReuseIsLater'
  BY <1>1 DEF Steady, Asked, Open, IInv, LockIsKept, ReuseIsLater, ExpiresAt
<1>4. /\ settled'[p] = now /\ \A q \in Payments \ {p} : settled'[q] = settled[q]
      /\ \A q \in Payments : settled[q] # Never => settled'[q] = settled[q]
  BY <1>1 DEF IInv, TypeOK
<1>5. \A q \in Payments : HasMoney(q) => HasMoney(q)'
  BY <1>3, <1>4, MoneyStays
<1>6. \A q \in Payments : Open(q) <=> Open(q)'
  BY <1>1 DEF Open
<1>7. rec'.todo \cup rec'.expiring \subseteq Payments /\ rec'.seen \subseteq Payments /\ now \in Nat
  BY <1>1 DEF IInv, TypeOK
<1>8. MoneyIsReal'
  BY <1>1, <1>4, <1>5, <1>6, <1>7 DEF IInv, MoneyIsReal, Confirming, Never
<1> QED BY <1>2, <1>3, <1>8 DEF IInv

-----------------------------------------------------------------------------
RecType == [at: {"idle", "start", "list", "scan", "loop"}, now: Time,
            seen: SUBSET Payments, pending: SUBSET Payments, todo: SUBSET Payments,
            expiring: SUBSET Payments, ran: BOOLEAN]

ConfType == [at: {"idle", "order", "fulfil"}, of: Payments \cup {None}]

(* Steps that leave the payments and the confirmations alone.              *)
LEMMA CycleIsGood ==
  ASSUME IInv, UNCHANGED <<now, pay, settled, conf>>, rec' \in RecType,
         refunded' \subseteq Payments, orphans' \subseteq Payments,
         lock' \in [Totals -> 0 .. MaxTime + TTL],
         \A t \in Totals : lock[t] > now => lock'[t] = lock[t],
         \A s \in rec'.seen : settled[s] # Never,
         \A p \in rec'.todo \cup rec'.expiring : Open(p)
  PROVE  IInv'
<1>1. TypeOK'
  BY DEF IInv, TypeOK, RecType
<1>2. Steady /\ \A p \in Payments : Open(p)' <=> Open(p)
  BY DEF Steady, Asked, Open
<1>3. rec'.todo \cup rec'.expiring \subseteq Payments
  BY DEF RecType
<1>4. /\ \A c \in Procs : conf'[c].at # "idle" => conf'[c].of \in Payments
      /\ \A c \in Procs, p \in Payments : Confirming(c, p)' => Confirming(c, p)
  BY DEF IInv, MoneyIsReal, Confirming
<1> QED BY <1>1, <1>2, <1>3, <1>4, StepIsGood

LEMMA RecIsTyped == IInv => /\ rec \in RecType /\ now \in Time /\ now \in Nat
                            /\ \A s \in rec.seen : settled[s] # Never
                            /\ \A p \in rec.todo \cup rec.expiring : Open(p)
BY MatchingAssumption DEF IInv, TypeOK, MoneyIsReal, RecType, Time, Never

LEMMA TickIsGood == ASSUME IInv, Tick PROVE IInv'
<1>1. /\ lock' = [t \in Totals |-> IF lock[t] <= now THEN Free ELSE lock[t]]
      /\ rec' = [rec EXCEPT !.at = "start"]
      /\ UNCHANGED <<now, pay, settled, refunded, conf, orphans>>
  BY DEF Tick, customerVars
<1>2. lock' \in [Totals -> 0 .. MaxTime + TTL]
  BY <1>1, MatchingAssumption DEF IInv, TypeOK, Free
<1>3. \A t \in Totals : lock[t] > now => lock'[t] = lock[t]
  BY <1>1 DEF IInv, TypeOK
<1>4. rec' \in RecType /\ rec'.seen = rec.seen /\ rec'.todo = rec.todo /\ rec'.expiring = rec.expiring
  BY <1>1, RecIsTyped DEF RecType
<1> QED BY <1>1, <1>2, <1>3, <1>4, CycleIsGood, RecIsTyped DEF IInv, TypeOK

LEMMA StartCycleIsGood == ASSUME IInv, StartCycle PROVE IInv'
<1>1. /\ rec' = [rec EXCEPT !.at = "list", !.now = now]
      /\ UNCHANGED <<now, lock, pay, settled, refunded, conf, orphans>>
  BY DEF StartCycle, customerVars
<1>2. rec' \in RecType /\ rec'.seen = rec.seen /\ rec'.todo = rec.todo /\ rec'.expiring = rec.expiring
  BY <1>1, RecIsTyped DEF RecType
<1> QED BY <1>1, <1>2, CycleIsGood, RecIsTyped DEF IInv, TypeOK

(* The list holds settlements only.                                        *)
LEMMA ListIsGood == ASSUME IInv, ListSettlements PROVE IInv'
<1>1. PICK seen \in SUBSET {q \in Payments : InWindow(q)} : rec' = [rec EXCEPT !.at = "scan", !.seen = seen]
  BY DEF ListSettlements
<1>2. UNCHANGED <<now, lock, pay, settled, refunded, conf, orphans>>
  BY DEF ListSettlements, customerVars
<1>3. rec' \in RecType /\ rec'.seen = seen /\ rec'.todo = rec.todo /\ rec'.expiring = rec.expiring
  BY <1>1, RecIsTyped DEF RecType
<1>4. \A s \in seen : settled[s] # Never
  BY DEF InWindow
<1> QED BY <1>2, <1>3, <1>4, CycleIsGood, RecIsTyped DEF IInv, TypeOK

(* What is scanned exists.                                                 *)
LEMMA FindIsGood == ASSUME IInv, FindPending PROVE IInv'
<1> DEFINE pending == {p \in Payments : pay[p].status = "PENDING"}
<1>1. /\ rec' = [rec EXCEPT !.at = "loop", !.pending = pending, !.todo = pending]
      /\ UNCHANGED <<now, lock, pay, settled, refunded, conf, orphans>>
  BY DEF FindPending, customerVars
<1>2. pending \subseteq Payments /\ \A p \in pending : Open(p)
  BY DEF Open
<1> HIDE DEF pending
<1>3. rec' \in RecType /\ rec'.seen = rec.seen /\ rec'.todo = pending /\ rec'.expiring = rec.expiring
  BY <1>1, <1>2, RecIsTyped DEF RecType
<1> QED BY <1>1, <1>2, <1>3, CycleIsGood, RecIsTyped DEF IInv, TypeOK

LEMMA StillOpenIsGood == ASSUME IInv, NEW p \in Payments, StillOpen(p) PROVE IInv'
<1>1. /\ rec' = [rec EXCEPT !.todo = @ \ {p}]
      /\ UNCHANGED <<now, lock, pay, settled, refunded, conf, orphans>>
  BY DEF StillOpen, Done, customerVars
<1>2. rec' \in RecType /\ rec'.seen = rec.seen /\ rec'.todo \subseteq rec.todo /\ rec'.expiring = rec.expiring
  BY <1>1, RecIsTyped DEF RecType
<1> QED BY <1>1, <1>2, CycleIsGood, RecIsTyped DEF IInv, TypeOK

(* A cycle that ends leaves nothing behind.                                *)
LEMMA EndIsTyped ==
  ASSUME IInv, AbortCycle \/ EndCycle
  PROVE  rec' \in RecType /\ rec'.seen = {} /\ rec'.todo = {} /\ rec'.expiring = {}
<1>1. rec.ran \in BOOLEAN /\ 0 \in Time
  BY RecIsTyped, MatchingAssumption DEF RecType, Time, Never
<1>2. \A b \in BOOLEAN : [Idle EXCEPT !.ran = b] \in RecType
  BY <1>1 DEF Idle, RecType
<1>3. (Prompt /\ (rec.ran \/ rec.now = now)) \in BOOLEAN
  OBVIOUS
<1>4. \E b \in BOOLEAN : rec' = [Idle EXCEPT !.ran = b]
  BY <1>1, <1>3 DEF AbortCycle, EndCycle
<1> QED BY <1>2, <1>4 DEF Idle

LEMMA LogIsGood == ASSUME IInv, LogOrphans PROVE IInv'
<1>1. /\ EndCycle /\ orphans' \in {orphans, Orphaned}
      /\ UNCHANGED <<now, lock, pay, settled, refunded, conf>>
  BY DEF LogOrphans, customerVars
<1>2. Orphaned \subseteq Payments
  BY RecIsTyped DEF Orphaned, RecType
<1> QED BY <1>1, <1>2, EndIsTyped, CycleIsGood DEF IInv, TypeOK

LEMMA RefundIsGood == ASSUME IInv, NEW p \in Payments, Refund(p) PROVE IInv'
<1>1. /\ refunded' = refunded \cup {p}
      /\ UNCHANGED <<now, lock, pay, settled, rec, conf, orphans>>
  BY DEF Refund
<1> QED BY <1>1, CycleIsGood, RecIsTyped DEF IInv, TypeOK

-----------------------------------------------------------------------------
(* confirmPayment of a payment whose money is there.                       *)
LEMMA MarkPaidIsGood ==
  ASSUME IInv, NEW c \in Procs, NEW p \in Payments, MarkPaid(c, p), HasMoney(p),
         UNCHANGED <<now, lock, settled, refunded, orphans>>,
         rec' = rec \/ Done(p)
  PROVE  IInv'
<1>1. /\ pay' = [pay EXCEPT ![p].status = "PAID"]
      /\ conf' = [conf EXCEPT ![c] = [at |-> "order", of |-> p]]
  BY DEF MarkPaid
<1>2. rec' \in RecType /\ rec'.seen = rec.seen /\ rec'.todo \subseteq rec.todo /\ rec'.expiring = rec.expiring
  BY RecIsTyped DEF RecType, Done
<1>3. /\ pay' \in [Payments -> Row]
      /\ conf' \in [Procs -> ConfType]
  <2>1. pay' \in [Payments -> Row]
    <3>1. pay' = [pay EXCEPT ![p].status = "PAID"]
      BY <1>1
    <3> QED BY <3>1 DEF IInv, TypeOK, Row
  <2>2. conf \in [Procs -> ConfType] /\ [at |-> "order", of |-> p] \in ConfType
    BY DEF IInv, TypeOK, ConfType
  <2> QED BY <1>1, <2>1, <2>2
<1>4. TypeOK'
  BY <1>2, <1>3 DEF IInv, TypeOK, RecType, ConfType
<1>5. \A q \in Payments : /\ q # p => pay'[q] = pay[q]
                          /\ pay'[q].total = pay[q].total /\ pay'[q].start = pay[q].start
                          /\ pay'[q].created = pay[q].created /\ pay'[q].order = pay[q].order
  BY <1>1 DEF IInv, TypeOK, Row
<1>6. pay'[p].status = "PAID"
  BY <1>1 DEF IInv, TypeOK, Row
<1>7. Steady /\ \A q \in Payments : Open(q)' => Open(q)
  BY <1>5, <1>6 DEF Steady, Asked, Open, HasMoney
<1>8. /\ \A d \in Procs : conf'[d].at # "idle" => conf'[d].of \in Payments
      /\ \A d \in Procs, q \in Payments : Confirming(d, q)' => Confirming(d, q) \/ HasMoney(q)
  BY <1>1 DEF IInv, TypeOK, MoneyIsReal, Confirming
<1>9. \A q \in rec'.todo \cup rec'.expiring : q \in Payments /\ Open(q)
  BY <1>2, RecIsTyped DEF RecType
<1> QED BY <1>2, <1>4, <1>5, <1>7, <1>8, <1>9, RecIsTyped, StepIsGood

(* The gateway reports what was paid.                                      *)
LEMMA WebhookIsGood ==
  ASSUME IInv, NEW c \in Hooks, NEW p \in Payments, Webhook(c, p)
  PROVE  IInv'
<1>1. HasMoney(p)
  BY DEF Webhook, IInv, MoneyIsReal, HasMoney, Matches
<1> QED BY <1>1, MarkPaidIsGood DEF Webhook, customerVars, Procs

(* The cycle confirms what a listed settlement matches.                    *)
LEMMA ConfirmIsGood == ASSUME IInv, NEW p \in Payments, Confirm(p) PROVE IInv'
<1>1. PICK s \in rec.seen : Matches(s, p)
  BY DEF Confirm
<1>2. s \in Payments /\ settled[s] # Never /\ Open(p)
  BY <1>1, RecIsTyped DEF RecType, Confirm, Looping
<1>3. HasMoney(p)
  BY <1>1, <1>2 DEF HasMoney
<1> QED BY <1>3, MarkPaidIsGood DEF Confirm, customerVars, Procs

(* Confirmations end, by themselves or with the process.                   *)
LEMMA ConfirmationEnds ==
  ASSUME IInv, UNCHANGED <<now, lock, pay, settled, refunded, orphans>>,
         rec' = rec \/ AbortCycle,
         conf' \in [Procs -> ConfType],
         \A c \in Procs : conf'[c] \in {conf[c], IdleConf}
  PROVE  IInv'
<1>1. /\ rec' \in RecType
      /\ rec'.seen \subseteq rec.seen /\ rec'.todo \subseteq rec.todo /\ rec'.expiring \subseteq rec.expiring
  BY EndIsTyped, RecIsTyped
<1>2. TypeOK'
  BY <1>1 DEF IInv, TypeOK, RecType, ConfType
<1>3. Steady /\ \A q \in Payments : Open(q)' => Open(q)
  BY DEF Steady, Asked, Open
<1>4. /\ \A d \in Procs : conf'[d].at # "idle" => conf'[d].of \in Payments
      /\ \A d \in Procs, q \in Payments : Confirming(d, q)' => Confirming(d, q)
  BY DEF IInv, MoneyIsReal, Confirming, IdleConf
<1>5. \A q \in rec'.todo \cup rec'.expiring : q \in Payments /\ Open(q)
  BY <1>1, RecIsTyped DEF RecType
<1> QED BY <1>1, <1>2, <1>3, <1>4, <1>5, RecIsTyped, StepIsGood

(* The order of a payment that is being confirmed has money.               *)
LEMMA OrderPaidIsGood ==
  ASSUME IInv, NEW c \in Procs, NEW p \in Payments, Confirming(c, p),
         pay' = [pay EXCEPT ![p].order = "PAID"],
         conf' = [conf EXCEPT ![c].at = "fulfil"],
         UNCHANGED <<now, lock, settled, refunded, rec, orphans>>
  PROVE  IInv'
<1>2. TypeOK'
  <2>1. pay' \in [Payments -> Row]
    <3>1. pay \in [Payments -> Row]
      BY DEF IInv, TypeOK
    <3> QED BY <3>1 DEF Row
  <2>2. conf \in [Procs -> ConfType]
    BY DEF IInv, TypeOK, ConfType
  <2>3. [conf[c] EXCEPT !.at = "fulfil"] \in ConfType
    BY <2>2 DEF ConfType
  <2>4. conf' \in [Procs -> ConfType]
    BY <2>2, <2>3
  <2> QED BY <2>1, <2>4 DEF IInv, TypeOK, ConfType
<1>3. \A q \in Payments : /\ q # p => pay'[q] = pay[q]
                          /\ pay'[q].total = pay[q].total /\ pay'[q].start = pay[q].start
                          /\ pay'[q].created = pay[q].created /\ pay'[q].status = pay[q].status
  BY DEF IInv, TypeOK, Row
<1>4. Steady /\ \A q \in Payments : Open(q)' => Open(q)
  BY <1>3 DEF Steady, Asked, Open
<1>5. /\ \A d \in Procs : conf'[d].at # "idle" => conf'[d].of \in Payments
      /\ \A d \in Procs, q \in Payments : Confirming(d, q)' => Confirming(d, q)
  BY DEF IInv, TypeOK, MoneyIsReal, Confirming
<1>6. \A q \in Payments : pay'[q].order = "PAID" =>
        pay[q].order = "PAID" \/ \E d \in Procs : Confirming(d, q)
  BY <1>3
<1>7. \A q \in rec'.todo \cup rec'.expiring : q \in Payments /\ Open(q)
  BY RecIsTyped DEF RecType
<1> QED BY <1>2, <1>4, <1>5, <1>6, <1>7, RecIsTyped, StepIsGood

(* One call becomes idle, with or without the cycle.                       *)
LEMMA OneCallEnds ==
  ASSUME IInv, NEW c \in Procs, conf' = [conf EXCEPT ![c] = IdleConf],
         UNCHANGED <<now, lock, pay, settled, refunded, orphans>>,
         rec' = rec \/ AbortCycle
  PROVE  IInv'
<1>1. conf \in [Procs -> ConfType] /\ IdleConf \in ConfType
  BY DEF IInv, TypeOK, ConfType, IdleConf
<1> HIDE DEF IdleConf, ConfType
<1>2. conf' \in [Procs -> ConfType] /\ \A d \in Procs : conf'[d] = IF d = c THEN IdleConf ELSE conf[d]
  BY <1>1
<1> QED BY <1>2, ConfirmationEnds

LEMMA PayOrderIsGood == ASSUME IInv, NEW c \in Procs, PayOrder(c) PROVE IInv'
<1>1. conf[c].of \in Payments /\ Confirming(c, conf[c].of)
  BY DEF PayOrder, IInv, MoneyIsReal, Confirming
<1>2. CASE conf' = [conf EXCEPT ![c] = IdleConf] /\ UNCHANGED pay
  BY <1>2, OneCallEnds DEF PayOrder, customerVars
<1>3. CASE ~(conf' = [conf EXCEPT ![c] = IdleConf] /\ UNCHANGED pay)
  BY <1>1, <1>3, OrderPaidIsGood DEF PayOrder, customerVars
<1> QED BY <1>2, <1>3

LEMMA FulfilIsGood == ASSUME IInv, NEW c \in Procs, Fulfil(c) PROVE IInv'
BY OneCallEnds DEF Fulfil, customerVars

LEMMA CrashIsGood == ASSUME IInv, Crash PROVE IInv'
<1>1. /\ conf' = [c \in Procs |-> IdleConf] /\ AbortCycle
      /\ UNCHANGED <<now, lock, pay, settled, refunded, orphans>>
  BY DEF Crash, customerVars
<1>2. /\ conf' \in [Procs -> ConfType]
      /\ \A d \in Procs : conf'[d] \in {conf[d], IdleConf}
  BY <1>1 DEF ConfType, IdleConf
<1> QED BY <1>1, <1>2, ConfirmationEnds

(* The expiry writer takes no money and no confirmation away.              *)
LEMMA ExpirePaymentIsGood == ASSUME IInv, NEW p \in Payments, ExpirePayment(p) PROVE IInv'
<1>1. /\ p \in rec.todo
      /\ pay' = [pay EXCEPT ![p].status = "EXPIRED"]
      /\ rec' = [rec EXCEPT !.todo = @ \ {p}, !.expiring = {p}]
      /\ UNCHANGED <<now, lock, settled, refunded, conf, orphans>>
  BY DEF ExpirePayment, Unmatched, Looping, customerVars
<1>2. rec' \in RecType /\ rec'.seen = rec.seen /\ rec'.todo \subseteq rec.todo /\ rec'.expiring = {p}
  BY <1>1, RecIsTyped DEF RecType
<1>3. pay' \in [Payments -> Row]
  BY <1>1 DEF IInv, TypeOK, Row
<1>4. TypeOK'
  BY <1>1, <1>2, <1>3 DEF IInv, TypeOK, RecType
<1>5. \A q \in Payments : /\ q # p => pay'[q] = pay[q]
                          /\ pay'[q].total = pay[q].total /\ pay'[q].start = pay[q].start
                          /\ pay'[q].created = pay[q].created /\ pay'[q].order = pay[q].order
  BY <1>1 DEF IInv, TypeOK, Row
<1>6. pay'[p].status = "EXPIRED" /\ Open(p)
  BY <1>1, RecIsTyped DEF IInv, TypeOK, Row
<1>7. Steady /\ \A q \in Payments : Open(q)' => Open(q)
  BY <1>5, <1>6 DEF Steady, Asked, Open
<1>8. /\ \A d \in Procs : conf'[d].at # "idle" => conf'[d].of \in Payments
      /\ \A d \in Procs, q \in Payments : Confirming(d, q)' => Confirming(d, q)
  BY <1>1 DEF IInv, MoneyIsReal, Confirming
<1>9. \A q \in rec'.todo \cup rec'.expiring : q \in Payments /\ Open(q)
  BY <1>2, <1>6, RecIsTyped DEF RecType
<1> QED BY <1>1, <1>2, <1>4, <1>5, <1>7, <1>8, <1>9, RecIsTyped, StepIsGood

LEMMA ExpireOrderIsGood == ASSUME IInv, NEW p \in Payments, ExpireOrder(p) PROVE IInv'
<1>1. /\ pay' = [pay EXCEPT ![p].order = IF @ = "UNPAID" THEN "EXPIRED" ELSE @]
      /\ rec' = [rec EXCEPT !.expiring = {}]
      /\ UNCHANGED <<now, lock, settled, refunded, conf, orphans>>
  BY DEF ExpireOrder, customerVars
<1>2. rec' \in RecType /\ rec'.seen = rec.seen /\ rec'.todo = rec.todo /\ rec'.expiring = {}
  BY <1>1, RecIsTyped DEF RecType
<1>3. pay' \in [Payments -> Row]
  BY <1>1 DEF IInv, TypeOK, Row
<1>4. TypeOK'
  BY <1>1, <1>2, <1>3 DEF IInv, TypeOK, RecType
<1>5. \A q \in Payments : /\ pay'[q].status = pay[q].status
                          /\ pay'[q].total = pay[q].total /\ pay'[q].start = pay[q].start
                          /\ pay'[q].created = pay[q].created
                          /\ pay'[q].order = "PAID" => pay[q].order = "PAID"
  BY <1>1 DEF IInv, TypeOK, Row
<1>6. Steady /\ \A q \in Payments : Open(q)' => Open(q)
  BY <1>5 DEF Steady, Asked, Open
<1>7. /\ \A d \in Procs : conf'[d].at # "idle" => conf'[d].of \in Payments
      /\ \A d \in Procs, q \in Payments : Confirming(d, q)' => Confirming(d, q)
  BY <1>1 DEF IInv, MoneyIsReal, Confirming
<1>8. \A q \in rec'.todo \cup rec'.expiring : q \in Payments /\ Open(q)
  BY <1>2, RecIsTyped DEF RecType
<1> QED BY <1>1, <1>2, <1>4, <1>5, <1>6, <1>7, <1>8, RecIsTyped, StepIsGood

LEMMA StepsAreGood == IInv /\ [Next]_vars => IInv'
<1> SUFFICES ASSUME IInv, [Next]_vars PROVE IInv'
  OBVIOUS
<1>1. CASE UNCHANGED vars
  BY <1>1, CycleIsGood, RecIsTyped DEF vars, customerVars, IInv, TypeOK
<1>2. Rec \in Procs /\ \A c \in Hooks : c \in Procs
  BY DEF Procs
<1>3. CASE Scheduler
  BY <1>2, <1>3, TickIsGood, StartCycleIsGood, ListIsGood, FindIsGood, ConfirmIsGood, StillOpenIsGood,
     ExpirePaymentIsGood, ExpireOrderIsGood, PayOrderIsGood, FulfilIsGood, LogIsGood DEF Scheduler
<1> QED BY <1>1, <1>2, <1>3, AdvanceIsGood, CrashIsGood, ReserveIsGood, CreateIsGood, SettleIsGood,
        RefundIsGood, PayOrderIsGood, FulfilIsGood, WebhookIsGood DEF Next

-----------------------------------------------------------------------------
(* Two payments that have not reached their TTL ask for different totals.  *)
THEOREM OpenTotalsAreUnique == Spec => []OpenTotalsDiffer
<1>1. IInv => OpenTotalsDiffer
  BY MatchingAssumption
     DEF IInv, TypeOK, LockIsKept, ReuseIsLater, OpenTotalsDiffer, Asked, ExpiresAt
<1> QED BY InitIsGood, StepsAreGood, <1>1, PTL DEF Spec

(* An order is PAID only if its total was paid, and after its payment      *)
(* existed unless the settlement carries no time; confirmed by a webhook   *)
(* or by the reconciler, whichever was faster.                             *)
THEOREM NothingPaidWithoutMoney == Spec => []PaidHasSettlement
<1>1. IInv => PaidHasSettlement
  <2> SUFFICES ASSUME IInv, NEW p \in Payments, pay[p].order = "PAID"
               PROVE  \E s \in Payments : /\ settled[s] # Never
                                          /\ pay[s].total = pay[p].total
                                          /\ settled[s] < pay[p].created => s \in Untimed
    BY DEF PaidHasSettlement
  <2>1. PICK s \in Payments : settled[s] # Never /\ Matches(s, p)
    BY DEF IInv, MoneyIsReal, HasMoney
  <2>2. settled[s] \in Nat /\ pay[p].created \in Nat
    BY MatchingAssumption DEF IInv, TypeOK, Row, Time, Never
  <2> QED BY <2>1, <2>2 DEF Matches
<1> QED BY InitIsGood, StepsAreGood, <1>1, PTL DEF Spec

(* The money of another order confirms only after a total was reused.      *)
THEOREM ForeignMoneyNeedsReuse == Spec => []ForeignMoneyOnlyByReuse
<1>1. IInv => ForeignMoneyOnlyByReuse
  <2> SUFFICES ASSUME IInv, NEW p \in Payments, pay[p].order = "PAID", settled[p] = Never
               PROVE  \E s \in Payments :
                         /\ settled[s] # Never
                         /\ pay[s].total = pay[p].total
                         /\ pay[s].start >= ExpiresAt(p) \/ pay[p].start >= ExpiresAt(s)
    BY DEF ForeignMoneyOnlyByReuse
  <2>1. PICK s \in Payments : settled[s] # Never /\ Matches(s, p)
    BY DEF IInv, MoneyIsReal, HasMoney
  <2>2. s # p /\ Open(s) /\ Open(p) /\ pay[s].total = pay[p].total
    BY <2>1 DEF IInv, MoneyIsReal, HasMoney, Matches
  <2> QED BY <2>1, <2>2 DEF IInv, ReuseIsLater, Asked, Open
<1> QED BY InitIsGood, StepsAreGood, <1>1, PTL DEF Spec

(* No step takes a PAID order back, the expiry writer included.            *)
THEOREM PaidStaysPaid == Spec => PaidOrderStaysPaid
<1> DEFINE Fine == \A p \in Payments : pay[p].order = "PAID" => pay'[p].order = "PAID"
<1>1. IInv /\ [Next]_vars => Fine
  <2> SUFFICES ASSUME IInv, [Next]_vars, NEW p \in Payments, pay[p].order = "PAID"
               PROVE  pay'[p].order = "PAID"
    OBVIOUS
  <2>1. pay \in [Payments -> Row]
    BY DEF IInv, TypeOK
  <2>2. ASSUME NEW c \in Procs, PayOrder(c) PROVE pay'[p].order = "PAID"
    BY <2>1, <2>2 DEF PayOrder, Row
  <2>3. ASSUME NEW c, NEW q \in Payments, MarkPaid(c, q) PROVE pay'[p].order = "PAID"
    BY <2>1, <2>3 DEF MarkPaid, Row
  <2>4. ASSUME NEW q \in Payments, ExpirePayment(q) \/ ExpireOrder(q) PROVE pay'[p].order = "PAID"
    BY <2>1, <2>4 DEF ExpirePayment, ExpireOrder, Row
  <2>5. ASSUME NEW q \in Payments, CreatePayment(q) PROVE pay'[p].order = "PAID"
    BY <2>1, <2>5 DEF CreatePayment, Row
  <2>6. ASSUME NEW q \in Payments, NEW t \in Totals, ReserveUniqueTotal(q, t)
        PROVE  pay'[p].order = "PAID"
    BY <2>1, <2>6 DEF ReserveUniqueTotal, Row
  <2>7. CASE UNCHANGED pay
    BY <2>7
  <2>8. CASE Scheduler
    BY <2>2, <2>3, <2>4, <2>7, <2>8
       DEF Scheduler, Tick, StartCycle, ListSettlements, FindPending, Confirm, StillOpen, Fulfil,
           LogOrphans, Procs
  <2> QED BY <2>2, <2>3, <2>5, <2>6, <2>7, <2>8
          DEF Next, Advance, Crash, Settle, Refund, Fulfil, Webhook, vars, Procs
<1> QED BY InitIsGood, StepsAreGood, <1>1, PTL DEF Spec, PaidOrderStaysPaid
=============================================================================
