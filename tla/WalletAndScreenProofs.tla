----------------------- MODULE WalletAndScreenProofs -----------------------
(***************************************************************************)
(* Theorems about two components that share nothing but this module: the   *)
(* Wallet, for every set of references, hold rows, workers and credit      *)
(* types and all positive amounts; and WebApps, for all screens within     *)
(* FormAssumption and any number of selections, submissions and requests.  *)
(***************************************************************************)
EXTENDS Wallet, WebApps, TLAPS

(***************************************************************************)
(* Wallet.                                                                 *)
(***************************************************************************)

(* What applyEntry does to the ledger: nothing, or one well-typed entry at *)
(* its end, of a type and reference that were not there.                   *)
LEMMA ApplyEntryEffect ==
  ASSUME TypeOK, NEW type \in EntryTypes, NEW r \in Refs, ApplyEntry(type, r)
  PROVE  \/ HasEntry(type, r) /\ balance' = balance /\ ledger' = ledger
         \/ /\ ~HasEntry(type, r)
            /\ balance' \in Nat
            /\ IF type = "PURCHASE" THEN balance = balance' + Amount[r]
                                   ELSE balance' = balance + Amount[r]
            /\ \E e \in Entry :
                  /\ e.type = type /\ e.ref = r /\ e.balanceAfter = balance'
                  /\ ledger' = Append(ledger, e)
<1>1. CASE HasEntry(type, r)
  BY <1>1 DEF ApplyEntry
<1>2. CASE ~HasEntry(type, r)
  <2>1. Amount[r] \in Nat /\ balance \in Nat
    BY AmountAssumption DEF TypeOK
  <2>2. balance' \in Nat /\ IF type = "PURCHASE" THEN balance = balance' + Amount[r]
                                                ELSE balance' = balance + Amount[r]
    BY <1>2, <2>1 DEF ApplyEntry, NewBalance
  <2> DEFINE e == [type |-> type, ref |-> r, balanceAfter |-> balance']
  <2>3. e \in Entry /\ e.type = type /\ e.ref = r /\ e.balanceAfter = balance'
    BY <2>2 DEF Entry
  <2>4. ledger' = Append(ledger, e)
    BY <1>2 DEF ApplyEntry
  <2> HIDE DEF e
  <2> QED BY <1>2, <2>2, <2>3, <2>4
<1> QED BY <1>1, <1>2

LEMMA ApplyEntryType ==
  ASSUME TypeOK, NEW type \in EntryTypes, NEW r \in Refs, ApplyEntry(type, r)
  PROVE  balance' \in Nat /\ ledger' \in Seq(Entry)
BY ApplyEntryEffect DEF TypeOK

(* The entries after applyEntry are the ones before it and its own.        *)
LEMMA ApplyEntryHas ==
  ASSUME TypeOK, NEW type \in EntryTypes, NEW r \in Refs, ApplyEntry(type, r),
         NEW t \in EntryTypes, NEW s \in Refs
  PROVE  HasEntry(t, s)' <=> HasEntry(t, s) \/ (t = type /\ s = r)
<1>1. CASE HasEntry(type, r) /\ ledger' = ledger
  BY <1>1 DEF HasEntry
<1>2. ASSUME NEW e \in Entry, e.type = type, e.ref = r, ledger' = Append(ledger, e)
      PROVE  HasEntry(t, s)' <=> HasEntry(t, s) \/ (t = type /\ s = r)
  <2>1. /\ Len(ledger) \in Nat /\ DOMAIN ledger = 1 .. Len(ledger)
        /\ DOMAIN ledger' = 1 .. Len(ledger) + 1
        /\ \A i \in 1 .. Len(ledger) : ledger'[i] = ledger[i]
        /\ ledger'[Len(ledger) + 1] = e
    BY <1>2 DEF TypeOK
  <2> QED BY <1>2, <2>1 DEF HasEntry
<1> QED BY <1>1, <1>2, ApplyEntryEffect

(* Every operation keeps every table well typed: no operation produces a   *)
(* negative balance (WI-2) or a row outside its enumeration.               *)
THEOREM TypeCorrect == Spec => []TypeOK
<1>1. Init => TypeOK
  <2> SUFFICES ASSUME Init PROVE TypeOK
    OBVIOUS
  <2>1. PICK r0 \in Refs : r0 = CHOOSE r \in Refs : TRUE
    BY NamesAssumption
  <2>2. hold = [h \in HoldIds |-> [status |-> "NONE", ref |-> r0]]
    BY <2>1 DEF Init
  <2>3. hold \in [HoldIds -> [status: HoldStatus, ref: Refs]]
    BY <2>2 DEF HoldStatus
  <2>4. balance \in Nat /\ ledger \in Seq(Entry)
    BY DEF Init
  <2>5. txn \in [Workers -> HoldIds \cup {NoHold}]
    BY DEF Init
  <2> QED BY <2>3, <2>4, <2>5 DEF TypeOK
<1>2. TypeOK /\ [Next]_vars => TypeOK'
  <2> SUFFICES ASSUME TypeOK, [Next]_vars PROVE TypeOK'
    OBVIOUS
  <2>1. ASSUME NEW type \in CreditTypes, NEW r \in Refs, Credit(type, r) PROVE TypeOK'
    <3>1. balance' \in Nat /\ ledger' \in Seq(Entry)
      BY <2>1, ApplyEntryType DEF Credit, EntryTypes
    <3> QED BY <2>1, <3>1 DEF Credit, TypeOK
  <2>2. ASSUME NEW h \in HoldIds, NEW r \in Refs, Reserve(h, r) PROVE TypeOK'
    BY <2>2 DEF Reserve, TypeOK, HoldStatus
  <2>3. ASSUME NEW w \in Workers, NEW h \in HoldIds, SettleRead(w, h) PROVE TypeOK'
    BY <2>3 DEF SettleRead, TypeOK
  <2>4. ASSUME NEW w \in Workers, SettleCommit(w) PROVE TypeOK'
    <3>1. txn[w] \in HoldIds
      BY <2>4 DEF SettleCommit, TypeOK
    <3>2. hold[txn[w]].ref \in Refs /\ hold[txn[w]].status \in HoldStatus
      BY <3>1 DEF TypeOK
    <3>3. balance' \in Nat /\ ledger' \in Seq(Entry)
      BY <2>4, <3>2, ApplyEntryType DEF SettleCommit, EntryTypes
    <3>4. hold' \in [HoldIds -> [status: HoldStatus, ref: Refs]]
      BY <2>4, <3>1, <3>2 DEF SettleCommit, TypeOK, HoldStatus
    <3>5. txn' \in [Workers -> HoldIds \cup {NoHold}]
      BY <2>4 DEF SettleCommit, TypeOK
    <3> QED BY <3>3, <3>4, <3>5 DEF TypeOK
  <2>5. ASSUME NEW w \in Workers, SettleRollback(w) PROVE TypeOK'
    BY <2>5 DEF SettleRollback, TypeOK
  <2>6. ASSUME NEW h \in HoldIds, Release(h) PROVE TypeOK'
    BY <2>6 DEF Release, TypeOK, HoldStatus
  <2>7. CASE UNCHANGED vars
    BY <2>7 DEF vars, TypeOK
  <2> QED BY <2>1, <2>2, <2>3, <2>4, <2>5, <2>6, <2>7 DEF Next
<1> QED BY <1>1, <1>2, PTL DEF Spec

-----------------------------------------------------------------------------
(* Only credit and settle's commit write the ledger; both go through       *)
(* applyEntry, and then the hold rows say who was charged.                 *)
LEMMA LedgerSteps ==
  ASSUME TypeOK, [Next]_vars
  PROVE  \/ balance' = balance /\ ledger' = ledger
         \/ \E type \in EntryTypes, r \in Refs : ApplyEntry(type, r)
<1>1. ASSUME NEW w \in Workers, SettleCommit(w)
      PROVE  \E type \in EntryTypes, r \in Refs : ApplyEntry(type, r)
  <2>1. txn[w] \in HoldIds /\ hold[txn[w]].ref \in Refs
    BY <1>1 DEF SettleCommit, TypeOK
  <2> QED BY <1>1, <2>1 DEF SettleCommit, EntryTypes
<1> QED BY <1>1 DEF Next, vars, Credit, Reserve, SettleRead, SettleRollback, Release, EntryTypes

(* WI-1: the cached balance is the replay of the ledger, in every          *)
(* reachable state and however the operations interleave.                  *)
THEOREM LedgerIsAuthoritative == Spec => []LedgerChain
<1>1. Init => LedgerChain
  BY DEF Init, LedgerChain, BalanceBefore
<1>2. TypeOK /\ LedgerChain /\ [Next]_vars => LedgerChain'
  <2> SUFFICES ASSUME TypeOK, LedgerChain, [Next]_vars PROVE LedgerChain'
    OBVIOUS
  <2>1. CASE balance' = balance /\ ledger' = ledger
    BY <2>1 DEF LedgerChain, BalanceBefore
  <2>2. ASSUME NEW type \in EntryTypes, NEW r \in Refs, NEW e \in Entry,
               e.type = type, e.ref = r, e.balanceAfter = balance',
               ledger' = Append(ledger, e), balance' \in Nat,
               IF type = "PURCHASE" THEN balance = balance' + Amount[r]
                                    ELSE balance' = balance + Amount[r]
        PROVE  LedgerChain'
    <3> PICK n \in Nat : n = Len(ledger)
      BY DEF TypeOK
    <3>1. /\ DOMAIN ledger = 1 .. n /\ Len(ledger') = n + 1
          /\ DOMAIN ledger' = 1 .. n + 1
          /\ \A i \in 1 .. n : ledger'[i] = ledger[i]
          /\ ledger'[n + 1] = e
      BY <2>2 DEF TypeOK
    <3>2. \A i \in 1 .. n + 1 : BalanceBefore(i)' = BalanceBefore(i)
      BY <3>1 DEF BalanceBefore
    <3>3. BalanceBefore(n + 1)' = balance
      BY <3>1, <3>2 DEF LedgerChain
    <3>4. (balance = BalanceBefore(Len(ledger) + 1))'
      BY <2>2, <3>1 DEF BalanceBefore
    <3>5. ASSUME NEW i \in 1 .. n + 1
          PROVE  IF ledger'[i].type = "PURCHASE"
                   THEN BalanceBefore(i)' = ledger'[i].balanceAfter + Amount[ledger'[i].ref]
                   ELSE ledger'[i].balanceAfter = BalanceBefore(i)' + Amount[ledger'[i].ref]
      <4>1. CASE i \in 1 .. n
        BY <3>1, <3>2, <4>1 DEF LedgerChain
      <4>2. CASE i = n + 1
        BY <2>2, <3>1, <3>3, <4>2
      <4> QED BY <4>1, <4>2
    <3> QED BY <3>1, <3>4, <3>5 DEF LedgerChain
  <2> QED BY <2>1, <2>2, LedgerSteps, ApplyEntryEffect
<1> QED BY <1>1, <1>2, TypeCorrect, PTL DEF Spec

(* BR-24: at most one entry per type and reference, whatever is retried.   *)
THEOREM NothingAppliedTwice == Spec => []AppliedOnce
<1>1. Init => AppliedOnce
  BY DEF Init, AppliedOnce
<1>2. TypeOK /\ AppliedOnce /\ [Next]_vars => AppliedOnce'
  <2> SUFFICES ASSUME TypeOK, AppliedOnce, [Next]_vars PROVE AppliedOnce'
    OBVIOUS
  <2>1. CASE ledger' = ledger
    BY <2>1 DEF AppliedOnce
  <2>2. ASSUME NEW type \in EntryTypes, NEW r \in Refs, ~HasEntry(type, r),
               NEW e \in Entry, e.type = type, e.ref = r, ledger' = Append(ledger, e)
        PROVE  AppliedOnce'
    <3>1. /\ Len(ledger) \in Nat /\ DOMAIN ledger = 1 .. Len(ledger)
          /\ DOMAIN ledger' = 1 .. Len(ledger) + 1
          /\ \A i \in 1 .. Len(ledger) : ledger'[i] = ledger[i]
          /\ ledger'[Len(ledger) + 1] = e
      BY <2>2 DEF TypeOK
    <3>2. \A i \in 1 .. Len(ledger) : ~(ledger[i].type = type /\ ledger[i].ref = r)
      BY <2>2, <3>1 DEF HasEntry
    <3> QED BY <2>2, <3>1, <3>2 DEF AppliedOnce
  <2> QED BY <2>1, <2>2, LedgerSteps, ApplyEntryEffect
<1> QED BY <1>1, <1>2, TypeCorrect, PTL DEF Spec

-----------------------------------------------------------------------------
(* Steps other than settle's commit neither settle a hold nor disturb one  *)
(* that is settled.                                                        *)
LEMMA SettledSteps ==
  ASSUME TypeOK, [Next]_vars, ~\E w \in Workers : SettleCommit(w)
  PROVE  /\ \A h \in HoldIds : hold'[h].status = "SETTLED" <=> hold[h].status = "SETTLED"
         /\ \A h \in HoldIds : hold[h].status = "SETTLED" => hold'[h] = hold[h]
<1>1. ASSUME NEW h \in HoldIds, NEW r \in Refs, Reserve(h, r)
      PROVE  hold[h].status = "NONE" /\ hold' = [hold EXCEPT ![h] = [status |-> "ACTIVE", ref |-> r]]
  BY <1>1 DEF Reserve
<1>2. ASSUME NEW h \in HoldIds, Release(h)
      PROVE  hold[h].status = "ACTIVE" /\ hold' = [hold EXCEPT ![h].status = "RELEASED"]
  BY <1>2 DEF Release
<1>3. \/ hold' = hold
      \/ \E h \in HoldIds, r \in Refs : Reserve(h, r)
      \/ \E h \in HoldIds : Release(h)
  BY DEF Next, vars, Credit, SettleRead, SettleRollback
<1> QED BY <1>1, <1>2, <1>3 DEF TypeOK

(* WI-5: a purchase entry exists exactly for the references with a SETTLED *)
(* hold.                                                                   *)
THEOREM ChargesMatchHolds == Spec => []ChargedIffSettled
<1>1. Init => ChargedIffSettled
  <2> SUFFICES ASSUME Init, NEW r \in Refs
               PROVE  ~HasEntry("PURCHASE", r) /\ HoldsIn(r, {"SETTLED"}) = {}
    BY DEF ChargedIffSettled
  <2>1. ~HasEntry("PURCHASE", r)
    BY DEF Init, HasEntry
  <2>2. \A h \in HoldIds : hold[h].status # "SETTLED"
    BY DEF Init
  <2> QED BY <2>1, <2>2 DEF HoldsIn
<1>2. TypeOK /\ ChargedIffSettled /\ [Next]_vars => ChargedIffSettled'
  <2> SUFFICES ASSUME TypeOK, ChargedIffSettled, [Next]_vars, NEW s \in Refs
               PROVE  HasEntry("PURCHASE", s)' <=> \E h \in HoldIds :
                        hold'[h].ref = s /\ hold'[h].status = "SETTLED"
    BY DEF ChargedIffSettled, HoldsIn
  <2>1. HasEntry("PURCHASE", s) <=> \E h \in HoldIds :
          hold[h].ref = s /\ hold[h].status = "SETTLED"
    BY DEF ChargedIffSettled, HoldsIn
  <2>2. ASSUME NEW w \in Workers, SettleCommit(w)
        PROVE  HasEntry("PURCHASE", s)' <=> \E h \in HoldIds :
                 hold'[h].ref = s /\ hold'[h].status = "SETTLED"
    <3>1. txn[w] \in HoldIds /\ hold[txn[w]].ref \in Refs
      BY <2>2 DEF SettleCommit, TypeOK
    <3>2. HasEntry("PURCHASE", s)' <=> HasEntry("PURCHASE", s) \/ s = hold[txn[w]].ref
      BY <2>2, <3>1, ApplyEntryHas DEF SettleCommit, EntryTypes
    <3>3. hold' = [hold EXCEPT ![txn[w]].status = "SETTLED"]
      BY <2>2 DEF SettleCommit
    <3> QED BY <2>1, <3>1, <3>2, <3>3 DEF TypeOK
  <2>3. CASE ~\E w \in Workers : SettleCommit(w)
    <3>1. HasEntry("PURCHASE", s)' <=> HasEntry("PURCHASE", s)
      <4>1. ASSUME NEW type \in CreditTypes, NEW r \in Refs, Credit(type, r)
            PROVE  HasEntry("PURCHASE", s)' <=> HasEntry("PURCHASE", s)
        BY <4>1, ApplyEntryHas, NamesAssumption DEF Credit, EntryTypes
      <4>2. CASE ledger' = ledger
        BY <4>2 DEF HasEntry
      <4> QED BY <2>3, <4>1, <4>2 DEF Next, vars, Reserve, SettleRead, SettleRollback, Release
    <3> QED BY <2>1, <2>3, <3>1, SettledSteps DEF TypeOK
  <2> QED BY <2>2, <2>3
<1> QED BY <1>1, <1>2, TypeCorrect, PTL DEF Spec

(* A SETTLED hold is final: the money it took is spent for good.           *)
THEOREM SettledHoldsAreFinal == Spec => SettledIsFinal
<1>1. TypeOK /\ [Next]_vars =>
        [\A h \in HoldIds : hold[h].status = "SETTLED" => hold'[h] = hold[h]]_vars
  <2> SUFFICES ASSUME TypeOK, [Next]_vars, NEW g \in HoldIds, hold[g].status = "SETTLED"
               PROVE  hold'[g] = hold[g]
    OBVIOUS
  <2>1. ASSUME NEW w \in Workers, SettleCommit(w) PROVE hold'[g] = hold[g]
    BY <2>1 DEF SettleCommit, TypeOK
  <2> QED BY <2>1, SettledSteps
<1> QED BY <1>1, TypeCorrect, PTL DEF Spec, SettledIsFinal

(* The idempotency of reserve, with its check under the row lock.          *)
THEOREM ReserveIsIdempotent == Spec => []OneActiveHold
<1>1. Init => OneActiveHold
  BY DEF Init, OneActiveHold
<1>2. TypeOK /\ OneActiveHold /\ [Next]_vars => OneActiveHold'
  <2> SUFFICES ASSUME TypeOK, OneActiveHold, [Next]_vars PROVE OneActiveHold'
    OBVIOUS
  <2>1. ASSUME NEW h \in HoldIds, NEW r \in Refs, Reserve(h, r) PROVE OneActiveHold'
    <3>1. \A g \in HoldIds : hold[g].ref = r => hold[g].status # "ACTIVE"
      BY <2>1 DEF Reserve, HoldsIn
    <3>2. hold' = [hold EXCEPT ![h] = [status |-> "ACTIVE", ref |-> r]]
      BY <2>1 DEF Reserve
    <3> QED BY <3>1, <3>2 DEF OneActiveHold, TypeOK
  <2>2. ASSUME NEW w \in Workers, SettleCommit(w) PROVE OneActiveHold'
    <3>1. txn[w] \in HoldIds /\ hold' = [hold EXCEPT ![txn[w]].status = "SETTLED"]
      BY <2>2 DEF SettleCommit, TypeOK
    <3> QED BY <3>1 DEF OneActiveHold, TypeOK
  <2>3. ASSUME NEW h \in HoldIds, Release(h) PROVE OneActiveHold'
    <3>1. hold' = [hold EXCEPT ![h].status = "RELEASED"]
      BY <2>3 DEF Release
    <3> QED BY <3>1 DEF OneActiveHold, TypeOK
  <2>4. CASE hold' = hold
    BY <2>4 DEF OneActiveHold
  <2> QED BY <2>1, <2>2, <2>3, <2>4 DEF Next, vars, Credit, SettleRead, SettleRollback
<1> QED BY <1>1, <1>2, TypeCorrect, PTL DEF Spec

-----------------------------------------------------------------------------
(* The wallet implements the account: a step of it moves money at most     *)
(* once per reference, covered by what is there, or moves nothing.         *)
LEMMA ApplyEntryRefines ==
  ASSUME TypeOK, NEW type \in EntryTypes, NEW r \in Refs, ApplyEntry(type, r)
  PROVE  [A!Next]_(A!vars)
<1> DEFINE credited == EntriesOf(CreditTypes)
           charged == {s \in Refs : HasEntry("PURCHASE", s)}
<1>1. CASE HasEntry(type, r) /\ balance' = balance /\ ledger' = ledger
  BY <1>1 DEF A!vars, EntriesOf, HasEntry
<1>2. CASE ~HasEntry(type, r) /\ type = "PURCHASE"
  <2>1. balance \in Nat /\ balance' \in Nat /\ Amount[r] \in Nat /\ balance = balance' + Amount[r]
    BY <1>2, ApplyEntryEffect, AmountAssumption DEF TypeOK
  <2>2. charged' = charged \cup {r} /\ r \notin charged
    BY <1>2, ApplyEntryHas DEF EntryTypes
  <2>3. \A t \in CreditTypes, s \in Refs : HasEntry(t, s)' <=> HasEntry(t, s)
    BY <1>2, ApplyEntryHas, NamesAssumption DEF EntryTypes
  <2>4. credited' = credited
    BY <2>3 DEF EntriesOf
  <2>5. A!Charge(r)
    BY <2>1, <2>2, <2>4 DEF A!Charge
  <2> QED BY <2>5 DEF A!Next
<1>3. CASE ~HasEntry(type, r) /\ type \in CreditTypes
  <2>1. balance' = balance + Amount[r]
    BY <1>3, ApplyEntryEffect, NamesAssumption
  <2>2. \A t \in EntryTypes, s \in Refs :
          HasEntry(t, s)' <=> HasEntry(t, s) \/ (t = type /\ s = r)
    BY ApplyEntryHas
  <2>3. charged' = charged
    BY <1>3, <2>2, NamesAssumption DEF EntryTypes
  <2>4. credited' = credited \cup {<<type, r>>} /\ <<type, r>> \notin credited
    BY <1>3, <2>2 DEF EntriesOf, EntryTypes
  <2>5. A!PayIn(type, r)
    BY <2>1, <2>3, <2>4 DEF A!PayIn
  <2> QED BY <1>3, <2>5 DEF A!Next
<1> QED BY <1>1, <1>2, <1>3, ApplyEntryEffect DEF EntryTypes

THEOREM WalletImplementsAccount == Spec => ImplementsAccount
<1>1. Init => A!Init
  BY DEF Init, A!Init, EntriesOf, HasEntry
<1>2. TypeOK /\ [Next]_vars => [A!Next]_(A!vars)
  <2> SUFFICES ASSUME TypeOK, [Next]_vars PROVE [A!Next]_(A!vars)
    OBVIOUS
  <2>1. CASE balance' = balance /\ ledger' = ledger
    BY <2>1 DEF A!vars, EntriesOf, HasEntry
  <2> QED BY <2>1, LedgerSteps, ApplyEntryRefines
<1> QED BY <1>1, <1>2, TypeCorrect, PTL DEF Spec, ImplementsAccount, A!Spec

(***************************************************************************)
(* WebApps.  The invariant says of each submission which of its parts are  *)
(* stored and what was told of it, and of each list, displayed or still on *)
(* its way, for which submissions it may differ from the store.            *)
(***************************************************************************)
Pieces == Changes \X (1..2)
Server == {"new", "sent", "half", "done", "refused", "torn", "pending", "paid"}
PostRow == [server: Server, told: {"no", "ok", "refused", "failed", "pay"},
            from: {"page", "gone"}, scope: Scopes \cup {None}]
LoadRow == [scope: Scopes, data: (SUBSET Pieces) \cup {None}]
SheetRow == [open: BOOLEAN, stage: {"form", "wait", "qris", "done"},
             pane: Changes \cup {None}]
ChoiceRow == [listed: SUBSET Scopes, pref: Scopes \cup {None}, manual: BOOLEAN,
              rec: Scopes \cup {None}, geo: {"idle", "asked", "granted", "denied"},
              late: BOOLEAN, picked: Scopes \cup {None}]

ScreenTypeOK ==
  /\ screen \in Screens /\ at \in {"page", "left", "masuk"}
  /\ scope \in Scopes /\ shown \in (SUBSET Pieces) \cup {None}
  /\ loads \in [Loads -> LoadRow \cup {Idle}]
  /\ posts \in [Changes -> PostRow]
  /\ sheet \in SheetRow
  /\ db \in [Scopes -> SUBSET Pieces] /\ doubt \in BOOLEAN
  /\ outlet \in ChoiceRow

(* Of each submission: which parts are stored, and what the user may have  *)
(* been told.                                                              *)
Missing(a, k) == \A c \in Scopes : <<a, k>> \notin db[c]

PartsSound(a) ==
  /\ \A c \in Scopes : \A k \in 1..2 : <<a, k>> \in db[c] => posts[a].scope = c /\ k \in Parts
  /\ posts[a].server \in {"new", "sent", "refused", "pending", "paid"} =>
       Missing(a, 1) /\ Missing(a, 2)
  /\ posts[a].server \in {"half", "torn"} =>
       Form.parts = 2 /\ Missing(a, 2) /\ <<a, 1>> \in db[posts[a].scope]
  /\ posts[a].server = "done" => \A k \in Parts : <<a, k>> \in db[posts[a].scope]

ToldSound(a) ==
  /\ posts[a].told = "ok" => posts[a].server = "done" \/ (Form.qris /\ posts[a].server = "paid")
  /\ posts[a].told = "refused" => posts[a].server \in {"refused", "torn"}
  /\ posts[a].server = "new" => posts[a].told = "no" /\ posts[a].from = "gone"
  /\ posts[a].server = "new" <=> posts[a].scope = None
  /\ posts[a].server # "new" => Form.parts \in 1..2
  /\ posts[a].server \in {"pending", "paid"} => Form.qris
  /\ sheet.pane = a => /\ posts[a].server \in {"pending", "paid", "done"} /\ Form.qris
                       /\ posts[a].told # "no" /\ posts[a].from # "gone"

(* A list the page shows, or is about to show, is the stored one, except   *)
(* for the submissions whose answer or payment the page still waits for.   *)
Excused(a) == Heard(a) \/ (Watched(a) /\ posts[a].server = "done")

Agrees(list) ==
  /\ \A a \in Changes : \A k \in 1..2 :
       /\ <<a, k>> \in list => posts[a].scope = scope /\ k \in Parts
       /\ ~Excused(a) => (<<a, k>> \in list <=> <<a, k>> \in db[scope])
  /\ Form.patch # "before" => list \subseteq db[scope]
  /\ Form.patch = "before" => \A a \in Changes :
       Heard(a) /\ posts[a].scope = scope /\ posts[a].server \in {"sent", "half", "done"}
         => \A k \in Parts : <<a, k>> \in list

ListSound ==
  at = "page" /\ ~doubt =>
    /\ Loading \/ shown = None \/ Agrees(shown)
    /\ \A l \in Loads : Busy(l) =>
         /\ loads[l].scope = scope
         /\ loads[l].data = None \/ Agrees(loads[l].data)
         /\ \A m \in Loads : Busy(m) => m = l
    /\ Loading /\ Form.patch = "before" => \A a \in Changes : ~Running(a)

(* A pick that is remembered and still offered is what the home page shows. *)
OutletSound ==
  Is("nearest") /\ at = "page" /\ Remembered /\ outlet.picked \in outlet.listed
    => scope = outlet.picked

PostsSound == \A a \in Changes : PartsSound(a) /\ ToldSound(a)

ScreenIInv == ScreenTypeOK /\ PostsSound /\ ListSound /\ OutletSound

-----------------------------------------------------------------------------
LEMMA ShapeOfForm ==
  ASSUME ScreenTypeOK
  PROVE  /\ Form.parts \in 0..2 /\ Form.patch \in {"no", "before", "after"}
         /\ Form.patch = "before" => Form.reloads /\ ~Form.qris
         /\ Form.qris => Form.parts = 1 /\ Form.patch = "no"
         /\ None \notin Scopes /\ None \notin Changes
BY FormAssumption, HomeAssumption DEF ScreenTypeOK, Form

LEMMA PostRowHas ==
  ASSUME ScreenTypeOK, NEW a \in Changes
  PROVE  /\ posts[a] \in PostRow /\ posts[a].server \in Server
         /\ posts[a].told \in {"no", "ok", "refused", "failed", "pay"}
         /\ posts[a].from \in {"page", "gone"} /\ posts[a].scope \in Scopes \cup {None}
BY DEF ScreenTypeOK, PostRow

(* One field of one submission changes.                                    *)
LEMMA PostChanges ==
  ASSUME ScreenTypeOK, NEW a \in Changes, NEW row \in PostRow, posts' = [posts EXCEPT ![a] = row]
  PROVE  /\ posts' \in [Changes -> PostRow] /\ posts'[a] = row
         /\ \A b \in Changes \ {a} : posts'[b] = posts[b]
BY DEF ScreenTypeOK

LEMMA NewServer ==
  ASSUME ScreenTypeOK, NEW a \in Changes, NEW s \in Server,
         posts' = [posts EXCEPT ![a].server = s]
  PROVE  /\ posts' \in [Changes -> PostRow] /\ posts'[a].server = s
         /\ posts'[a].told = posts[a].told /\ posts'[a].from = posts[a].from
         /\ posts'[a].scope = posts[a].scope
         /\ \A b \in Changes \ {a} : posts'[b] = posts[b]
<1> DEFINE row == [posts[a] EXCEPT !.server = s]
<1>1. /\ row \in PostRow /\ row.server = s /\ row.told = posts[a].told
      /\ row.from = posts[a].from /\ row.scope = posts[a].scope
  BY PostRowHas DEF PostRow
<1>2. posts' = [posts EXCEPT ![a] = row]
  OBVIOUS
<1> HIDE DEF row
<1> QED BY <1>1, <1>2, PostChanges

LEMMA NewTold ==
  ASSUME ScreenTypeOK, NEW a \in Changes, NEW t \in {"no", "ok", "refused", "failed", "pay"},
         posts' = [posts EXCEPT ![a].told = t]
  PROVE  /\ posts' \in [Changes -> PostRow] /\ posts'[a].told = t
         /\ posts'[a].server = posts[a].server /\ posts'[a].from = posts[a].from
         /\ posts'[a].scope = posts[a].scope
         /\ \A b \in Changes \ {a} : posts'[b] = posts[b]
<1> DEFINE row == [posts[a] EXCEPT !.told = t]
<1>1. /\ row \in PostRow /\ row.told = t /\ row.server = posts[a].server
      /\ row.from = posts[a].from /\ row.scope = posts[a].scope
  BY PostRowHas DEF PostRow
<1>2. posts' = [posts EXCEPT ![a] = row]
  OBVIOUS
<1> HIDE DEF row
<1> QED BY <1>1, <1>2, PostChanges

(* A list request that nothing has overtaken is the only one, for the      *)
(* selection shown, and no list is shown until it answers.                 *)
LEMMA ReloadIsSound ==
  ASSUME ScreenTypeOK, NEW c \in Scopes, Reload(c), UNCHANGED screen,
         \A a \in Changes : Running(a)' => Running(a)
  PROVE  /\ loads' \in [Loads -> LoadRow \cup {Idle}] /\ shown' \in (SUBSET Pieces) \cup {None}
         /\ doubt' \in BOOLEAN /\ ListSound'
<1> DEFINE asked == [scope |-> c, data |-> None]
<1>1. PICK l \in Loads : ~Busy(l) /\ loads' = [loads EXCEPT ![l] = asked]
  BY DEF Reload
<1>2. /\ shown' \in {None, shown}
      /\ doubt' = (Loading \/ c # scope' \/ (Form.patch = "before" /\ \E a \in Changes : Running(a)))
  BY DEF Reload
<1>3. asked \in LoadRow /\ asked.scope = c /\ asked.data = None /\ asked # Idle
  BY ShapeOfForm DEF LoadRow, Idle
<1> HIDE DEF asked
<1>4. /\ loads' \in [Loads -> LoadRow \cup {Idle}] /\ loads'[l] = asked
      /\ \A m \in Loads \ {l} : loads'[m] = loads[m]
  BY <1>1, <1>3 DEF ScreenTypeOK
<1>5. ASSUME ~doubt' PROVE ListSound'
  <2>1. ~Loading /\ c = scope' /\ (Form.patch = "before" => \A a \in Changes : ~Running(a))
    BY <1>2, <1>5
  <2>2. \A m \in Loads : loads'[m] # Idle => m = l
    BY <1>4, <2>1 DEF Loading, Busy
  <2>3. Form' = Form
    BY DEF Form
  <2>4. Loading'
    BY <1>3, <1>4 DEF Loading, Busy
  <2> QED BY <1>3, <1>4, <2>1, <2>2, <2>3, <2>4 DEF ListSound, Busy
<1> QED BY <1>2, <1>4, <1>5 DEF ScreenTypeOK, ListSound

(* A step after which nobody looks, or the page knows of a doubt.          *)
LEMMA NothingClaimed ==
  ASSUME at' # "page" \/ doubt'
  PROVE  ListSound'
BY DEF ListSound

(* Submissions, forms and what is stored are as they were.                 *)
LEMMA PostsStay ==
  ASSUME PostsSound, UNCHANGED <<screen, posts, sheet, db>>
  PROVE  PostsSound'
BY DEF PostsSound, PartsSound, ToldSound, Missing, Parts, Form

(* A submission that says or is told something else, and stores nothing.   *)
LEMMA NothingStored ==
  ASSUME PostsSound, UNCHANGED <<screen, db>>,
         \A a \in Changes : posts'[a].scope = posts[a].scope /\ posts'[a].server = posts[a].server,
         \A a \in Changes : ToldSound(a)'
  PROVE  PostsSound'
BY DEF PostsSound, PartsSound, Missing, Parts, Form

(* What keeps a list true while it is displayed or on its way: an answer   *)
(* is dealt with only once the list agrees with the store.                 *)
KeepsLists ==
  /\ \A a \in Changes : posts'[a].scope = posts[a].scope \/ posts[a].scope = None
  /\ \A a \in Changes : \A k \in 1..2 : Excused(a)' \/
       \/ ~Excused(a) /\ (<<a, k>> \in db'[scope] <=> <<a, k>> \in db[scope])
       \/ Form.patch # "before" /\ <<a, k>> \notin db[scope] /\ <<a, k>> \notin db'[scope]
       \/ Form.patch = "before" /\ Heard(a) /\ posts[a].server = "done" /\ db' = db
  /\ db[scope] \subseteq db'[scope]
  /\ Form.patch = "before" => \A a \in Changes :
       /\ Heard(a)' => Heard(a)
       /\ posts'[a].server \in {"sent", "half", "done"} => posts[a].server \in {"sent", "half", "done"}
  /\ Loading /\ Form.patch = "before" => \A a \in Changes : Running(a)' => Running(a)

LEMMA AgreementStays ==
  ASSUME ScreenTypeOK, PostsSound, UNCHANGED <<screen, scope>>, KeepsLists,
         NEW list, Agrees(list)
  PROVE  /\ \A a \in Changes : \A k \in 1..2 :
              /\ <<a, k>> \in list => posts'[a].scope = scope' /\ k \in Parts'
              /\ ~Excused(a)' => (<<a, k>> \in list <=> <<a, k>> \in db'[scope'])
         /\ Form'.patch # "before" => list \subseteq db'[scope']
         /\ Form'.patch = "before" => \A a \in Changes :
              Heard(a)' /\ posts'[a].scope = scope' /\ posts'[a].server \in {"sent", "half", "done"}
                => \A k \in Parts' : <<a, k>> \in list
<1>1. Form' = Form /\ Parts' = Parts /\ scope' = scope /\ scope # None
  BY ShapeOfForm DEF Form, Parts, ScreenTypeOK
<1>2. ASSUME NEW a \in Changes, NEW k \in 1..2, ~Excused(a)'
      PROVE  <<a, k>> \in list <=> <<a, k>> \in db'[scope]
  <2>1. CASE ~Excused(a) /\ (<<a, k>> \in db'[scope] <=> <<a, k>> \in db[scope])
    BY <2>1 DEF Agrees
  <2>2. CASE Form.patch # "before" /\ <<a, k>> \notin db[scope] /\ <<a, k>> \notin db'[scope]
    BY <2>2 DEF Agrees
  <2>3. CASE Form.patch = "before" /\ Heard(a) /\ posts[a].server = "done" /\ db' = db
    <3>1. CASE posts[a].scope = scope /\ k \in Parts
      BY <2>3, <3>1 DEF Agrees, PostsSound, PartsSound
    <3>2. CASE ~(posts[a].scope = scope /\ k \in Parts)
      BY <2>3, <3>2 DEF Agrees, PostsSound, PartsSound, ScreenTypeOK
    <3> QED BY <3>1, <3>2
  <2> QED BY <1>2, <2>1, <2>2, <2>3 DEF KeepsLists
<1>3. \A a \in Changes : \A k \in 1..2 :
        <<a, k>> \in list => posts'[a].scope = scope' /\ k \in Parts'
  BY <1>1 DEF KeepsLists, Agrees
<1>4. Form.patch # "before" => list \subseteq db'[scope]
  BY DEF KeepsLists, Agrees
<1>5. ASSUME Form.patch = "before", NEW a \in Changes, Heard(a)', posts'[a].scope = scope,
             posts'[a].server \in {"sent", "half", "done"}
      PROVE  \A k \in Parts : <<a, k>> \in list
  <2>1. /\ Heard(a) /\ posts[a].server \in {"sent", "half", "done"}
        /\ posts'[a].scope = posts[a].scope \/ posts[a].scope = None
    BY <1>5 DEF KeepsLists
  <2>2. posts[a].scope = scope
    BY <1>5, <2>1 DEF PostsSound, ToldSound
  <2> QED BY <1>5, <2>1, <2>2 DEF Agrees
<1> QED BY <1>1, <1>2, <1>3, <1>4, <1>5

LEMMA ListStays ==
  ASSUME ScreenTypeOK, PostsSound, ListSound, UNCHANGED <<screen, at, scope, shown, loads>>,
         doubt => doubt', ~doubt' => KeepsLists
  PROVE  ListSound'
<1> SUFFICES ASSUME at = "page", ~doubt, KeepsLists PROVE ListSound'
  BY NothingClaimed
<1>1. /\ Form' = Form /\ Loading' = Loading /\ at' = at
      /\ \A l \in Loads : Busy(l)' <=> Busy(l)
  BY DEF Form, Loading, Busy
<1>2. \A list : Agrees(list) =>
         /\ \A a \in Changes : \A k \in 1..2 :
              /\ <<a, k>> \in list => posts'[a].scope = scope' /\ k \in Parts'
              /\ ~Excused(a)' => (<<a, k>> \in list <=> <<a, k>> \in db'[scope'])
         /\ Form'.patch # "before" => list \subseteq db'[scope']
         /\ Form'.patch = "before" => \A a \in Changes :
              Heard(a)' /\ posts'[a].scope = scope' /\ posts'[a].server \in {"sent", "half", "done"}
                => \A k \in Parts' : <<a, k>> \in list
  BY AgreementStays
<1>3. Loading \/ shown = None \/ Agrees(shown)'
  BY <1>1, <1>2 DEF ListSound, Agrees
<1>4. ASSUME NEW l \in Loads, Busy(l)
      PROVE  /\ loads[l].scope = scope /\ \A m \in Loads : Busy(m) => m = l
             /\ loads[l].data = None \/ Agrees(loads[l].data)'
  <2>1. /\ loads[l].scope = scope /\ \A m \in Loads : Busy(m) => m = l
        /\ loads[l].data = None \/ Agrees(loads[l].data)
    BY <1>4 DEF ListSound
  <2>2. Agrees(loads[l].data) => Agrees(loads[l].data)'
    <3> SUFFICES ASSUME Agrees(loads[l].data) PROVE Agrees(loads[l].data)'
      OBVIOUS
    <3>1. loads'[l].data = loads[l].data
      OBVIOUS
    <3> QED BY <1>2, <3>1 DEF Agrees
  <2> QED BY <2>1, <2>2
<1>5. Loading /\ Form.patch = "before" => \A a \in Changes : ~Running(a)'
  BY DEF ListSound, KeepsLists
<1> QED BY <1>1, <1>3, <1>4, <1>5 DEF ListSound

-----------------------------------------------------------------------------
(* Steps of the page, its list requests and the outlet choice.             *)
LEMMA PageIsGood ==
  ASSUME ScreenIInv, UNCHANGED <<screen, posts, sheet, db>>,
         at' \in {"page", "left", "masuk"}, scope' \in Scopes, doubt' \in BOOLEAN,
         shown' \in (SUBSET Pieces) \cup {None}, loads' \in [Loads -> LoadRow \cup {Idle}],
         outlet' \in ChoiceRow, ListSound', OutletSound'
  PROVE  ScreenIInv'
BY PostsStay DEF ScreenIInv, ScreenTypeOK

LEMMA ListUnchanged ==
  ASSUME ScreenIInv,
         UNCHANGED <<screen, at, scope, shown, loads, posts, sheet, db, doubt>>
  PROVE  ListSound'
<1>1. \A a \in Changes : Excused(a)' <=> Excused(a)
  BY DEF Excused, Heard, Waiting, Watched, Form
<1>2. KeepsLists
  BY <1>1 DEF KeepsLists, Heard, Waiting, Running, Form
<1> QED BY <1>2, ListStays DEF ScreenIInv

LEMMA SameRunning ==
  ASSUME posts' = posts
  PROVE  \A a \in Changes : Running(a)' => Running(a)
BY DEF Running

LEMMA SignInIsGood ==
  ASSUME ScreenIInv, SignIn
  PROVE  ScreenIInv'
<1>1. /\ at' = "left"
      /\ UNCHANGED <<screen, scope, shown, loads, posts, sheet, db, doubt, outlet>>
  BY DEF SignIn
<1>2. ListSound'
  BY <1>1, NothingClaimed
<1>3. OutletSound'
  BY <1>1 DEF ScreenIInv, OutletSound
<1> QED BY <1>1, <1>2, <1>3, PageIsGood DEF ScreenIInv, ScreenTypeOK

LEMMA MountIsGood ==
  ASSUME ScreenIInv, Mount
  PROVE  ScreenIInv'
<1>1. /\ at' = "page" /\ UNCHANGED <<screen, posts, sheet, db>> /\ Reload(scope')
      /\ outlet \in ChoiceRow
  BY DEF Mount, ScreenIInv, ScreenTypeOK
<1>2. scope' \in Scopes /\ outlet' \in ChoiceRow /\ OutletSound'
  <2>1. CASE ~Is("nearest") /\ scope' = Home /\ outlet' = outlet
    BY <1>1, <2>1, HomeAssumption DEF OutletSound, Is, Page
  <2>2. ASSUME NEW servers \in (SUBSET Scopes) \ {{}}, NEW first \in servers,
               scope' = IF outlet.pref \in servers THEN outlet.pref ELSE first,
               outlet' = [outlet EXCEPT !.listed = servers, !.geo = "asked"]
        PROVE  scope' \in Scopes /\ outlet' \in ChoiceRow /\ OutletSound'
    <3>1. /\ outlet' \in ChoiceRow /\ outlet'.listed = servers
          /\ outlet'.pref = outlet.pref /\ outlet'.picked = outlet.picked
      BY <1>1, <2>2 DEF ChoiceRow
    <3> QED BY <2>2, <3>1 DEF OutletSound, Remembered
  <2> QED BY <2>1, <2>2 DEF Mount
<1>3. PICK c \in Scopes : c = scope'
  BY <1>2
<1>4. Reload(c)
  BY <1>1, <1>3
<1> QED BY <1>1, <1>2, <1>4, ReloadIsSound, SameRunning, PageIsGood DEF ScreenIInv

LEMMA VisitIsGood ==
  ASSUME ScreenIInv, NEW c \in Scopes, Visit(c)
  PROVE  ScreenIInv'
<1>1. /\ ~Is("nearest") /\ scope' = c /\ Reload(c)
      /\ UNCHANGED <<screen, at, posts, sheet, db, outlet>>
  BY DEF Visit
<1>2. OutletSound'
  BY <1>1 DEF ScreenIInv, OutletSound, Remembered, Is, Page
<1> QED BY <1>1, <1>2, ReloadIsSound, SameRunning, PageIsGood DEF ScreenIInv, ScreenTypeOK

LEMMA RefreshIsGood ==
  ASSUME ScreenIInv, Refresh
  PROVE  ScreenIInv'
<1>1. Reload(scope) /\ UNCHANGED <<screen, at, scope, posts, sheet, db, outlet>>
  BY DEF Refresh
<1>2. PICK c \in Scopes : c = scope
  BY DEF ScreenIInv, ScreenTypeOK
<1>3. Reload(c)
  BY <1>1, <1>2
<1>4. OutletSound'
  BY <1>1 DEF ScreenIInv, OutletSound, Remembered, Is, Page
<1> QED BY <1>1, <1>3, <1>4, ReloadIsSound, SameRunning, PageIsGood DEF ScreenIInv, ScreenTypeOK

(* What the backend stores at this moment agrees with itself.              *)
LEMMA StoreAgrees ==
  ASSUME ScreenIInv, ~doubt, at = "page", Loading
  PROVE  Agrees(db[scope])
<1>1. Form.patch = "before" => \A a \in Changes : posts[a].server \notin {"sent", "half"}
  BY DEF ScreenIInv, ListSound, Running
<1>2. /\ scope \in Scopes
      /\ \A a \in Changes : PartsSound(a)
  BY DEF ScreenIInv, ScreenTypeOK, PostsSound
<1> QED BY <1>1, <1>2 DEF Agrees, PartsSound

LEMMA ServerReadsIsGood ==
  ASSUME ScreenIInv, NEW l \in Loads, ServerReads(l)
  PROVE  ScreenIInv'
<1> DEFINE read == [loads[l] EXCEPT !.data = db[loads[l].scope]]
<1>1. /\ Busy(l) /\ loads' = [loads EXCEPT ![l] = read]
      /\ UNCHANGED <<screen, at, scope, shown, posts, sheet, db, doubt, outlet>>
  BY DEF ServerReads
<1>2. loads[l] \in LoadRow
  BY <1>1 DEF ScreenIInv, ScreenTypeOK, Busy
<1>3. /\ read \in LoadRow /\ read.scope = loads[l].scope /\ read.data = db[loads[l].scope]
  BY <1>2 DEF ScreenIInv, ScreenTypeOK, LoadRow
<1> HIDE DEF read
<1>4. /\ loads' \in [Loads -> LoadRow \cup {Idle}] /\ loads'[l] = read
      /\ \A m \in Loads \ {l} : loads'[m] = loads[m]
  BY <1>1, <1>3 DEF ScreenIInv, ScreenTypeOK
<1>5. \A m \in Loads : Busy(m)' => Busy(m)
  BY <1>1, <1>4 DEF Busy
<1>6. ListSound'
  <2> SUFFICES ASSUME at = "page", ~doubt PROVE ListSound'
    BY <1>1 DEF ListSound
  <2>1. Loading /\ loads[l].scope = scope /\ \A m \in Loads : Busy(m) => m = l
    BY <1>1 DEF ScreenIInv, ListSound, Loading
  <2>2. Agrees(db[scope])
    BY <2>1, StoreAgrees
  <2>3. Loading'
    BY <1>3, <1>4, ShapeOfForm DEF ScreenIInv, Loading, Busy, LoadRow, Idle
  <2>4. Agrees(loads[l].data)'
    <3>1. loads'[l].data = db[scope]
      BY <1>3, <1>4, <2>1
    <3> QED BY <1>1, <2>2, <3>1
            DEF Agrees, Excused, Heard, Waiting, Watched, Parts, Form
  <2>5. Form.patch = "before" => \A a \in Changes : ~Running(a)
    BY <2>1 DEF ScreenIInv, ListSound
  <2> QED BY <1>1, <1>3, <1>4, <1>5, <2>1, <2>3, <2>4, <2>5 DEF ListSound, Running, Form
<1>7. OutletSound'
  BY <1>1 DEF ScreenIInv, OutletSound, Remembered, Is, Page
<1> QED BY <1>1, <1>4, <1>6, <1>7, PageIsGood DEF ScreenIInv, ScreenTypeOK

LEMMA ArriveIsGood ==
  ASSUME ScreenIInv, NEW l \in Loads, Arrive(l)
  PROVE  ScreenIInv'
<1>1. /\ Busy(l) /\ loads[l].data # None /\ shown' = loads[l].data
      /\ loads' = [loads EXCEPT ![l] = Idle]
      /\ UNCHANGED <<screen, at, scope, posts, sheet, db, doubt, outlet>>
  BY DEF Arrive
<1>2. loads[l] \in LoadRow /\ shown' \in SUBSET Pieces
  BY <1>1 DEF ScreenIInv, ScreenTypeOK, Busy, LoadRow
<1>3. /\ loads' \in [Loads -> LoadRow \cup {Idle}] /\ ~Busy(l)'
      /\ \A m \in Loads \ {l} : loads'[m] = loads[m]
  BY <1>1 DEF ScreenIInv, ScreenTypeOK, Busy
<1>4. ListSound'
  <2> SUFFICES ASSUME at = "page", ~doubt PROVE ListSound'
    BY <1>1 DEF ListSound
  <2>1. Agrees(loads[l].data) /\ \A m \in Loads : Busy(m) => m = l
    BY <1>1 DEF ScreenIInv, ListSound
  <2>2. ~Loading'
    BY <1>3, <2>1 DEF Loading, Busy
  <2>3. Agrees(shown)'
    BY <1>1, <2>1 DEF Agrees, Excused, Heard, Waiting, Watched, Parts, Form
  <2> QED BY <2>2, <2>3 DEF ListSound, Loading
<1>5. OutletSound'
  BY <1>1 DEF ScreenIInv, OutletSound, Remembered, Is, Page
<1> QED BY <1>1, <1>2, <1>3, <1>4, <1>5, PageIsGood DEF ScreenIInv, ScreenTypeOK

LEMMA FailLoadIsGood ==
  ASSUME ScreenIInv, NEW l \in Loads, FailLoad(l)
  PROVE  ScreenIInv'
<1>1. /\ loads' = [loads EXCEPT ![l] = Idle] /\ doubt' /\ doubt' = TRUE
      /\ shown' = IF Is("silent") THEN {} ELSE shown
      /\ UNCHANGED <<screen, at, scope, posts, sheet, db, outlet>>
  BY DEF FailLoad
<1>2. /\ loads' \in [Loads -> LoadRow \cup {Idle}] /\ shown' \in (SUBSET Pieces) \cup {None}
  BY <1>1 DEF ScreenIInv, ScreenTypeOK
<1>3. ListSound'
  BY <1>1, NothingClaimed
<1>4. OutletSound'
  BY <1>1 DEF ScreenIInv, OutletSound, Remembered, Is, Page
<1> QED BY <1>1, <1>2, <1>3, <1>4, PageIsGood DEF ScreenIInv, ScreenTypeOK

LEMMA MoveIsSound ==
  ASSUME ScreenIInv, NEW c \in Scopes, MoveTo(c), UNCHANGED <<screen, at, posts, sheet, db>>
  PROVE  /\ scope' = c /\ doubt' \in BOOLEAN /\ ListSound'
         /\ shown' \in (SUBSET Pieces) \cup {None} /\ loads' \in [Loads -> LoadRow \cup {Idle}]
<1>1. CASE c = scope
  BY <1>1, ListUnchanged DEF MoveTo, NoReload, ScreenIInv, ScreenTypeOK
<1>2. CASE c # scope
  BY <1>2, ReloadIsSound, SameRunning DEF MoveTo, ScreenIInv
<1> QED BY <1>1, <1>2

LEMMA WritingIsTyped ==
  ASSUME ScreenTypeOK, NEW c \in Scopes, NEW m \in BOOLEAN, NEW written \in Written(c, m)
  PROVE  /\ written \in ChoiceRow /\ written.listed = outlet.listed
         /\ written.picked = outlet.picked /\ written.rec = outlet.rec
         /\ \/ written.pref = outlet.pref /\ written.manual = outlet.manual
            \/ written.pref = c /\ written.manual = m
BY DEF ScreenTypeOK, ChoiceRow, Written

LEMMA ChooseIsGood ==
  ASSUME ScreenIInv, NEW c \in Scopes, Choose(c)
  PROVE  ScreenIInv'
<1>1. /\ at = "page" /\ MoveTo(c) /\ UNCHANGED <<screen, at, posts, sheet, db>>
      /\ \E written \in Written(c, TRUE) : outlet' = [written EXCEPT !.rec = None, !.picked = c]
  BY DEF Choose, OnBeranda, Rest
<1>2. outlet' \in ChoiceRow /\ outlet'.picked = c
  <2>1. PICK written \in Written(c, TRUE) : outlet' = [written EXCEPT !.rec = None, !.picked = c]
    BY <1>1
  <2>2. written \in ChoiceRow
    BY WritingIsTyped DEF ScreenIInv
  <2> QED BY <2>1, <2>2 DEF ChoiceRow
<1>3. OutletSound'
  BY <1>1, <1>2, MoveIsSound DEF ScreenIInv, OutletSound
<1> QED BY <1>1, <1>2, <1>3, MoveIsSound, PageIsGood DEF ScreenIInv, ScreenTypeOK

LEMMA LocateIsGood ==
  ASSUME ScreenIInv, NEW near \in Scopes, Locate(near) \/ LocateLate(near)
  PROVE  ScreenIInv'
<1>1. /\ UNCHANGED <<screen, at, posts, sheet, db>> /\ outlet \in ChoiceRow
      /\ None \notin Scopes /\ ScreenTypeOK
  BY ShapeOfForm DEF Locate, LocateLate, Rest, ScreenIInv, ScreenTypeOK
<1>2. ASSUME outlet.pref = None, NEW written \in Written(near, FALSE),
             outlet' \in {written, [written EXCEPT !.geo = "granted"]}
      PROVE  outlet' \in ChoiceRow /\ OutletSound'
  <2>1. /\ written \in ChoiceRow /\ written.picked = outlet.picked
        /\ written.listed \subseteq Scopes
        /\ \/ written.pref = outlet.pref /\ written.manual = outlet.manual
           \/ written.pref = near /\ written.manual = FALSE
    BY <1>1, WritingIsTyped DEF ChoiceRow
  <2>2. /\ outlet' \in ChoiceRow /\ outlet'.picked = written.picked
        /\ outlet'.pref = written.pref /\ outlet'.manual = written.manual
        /\ outlet'.listed = written.listed
    BY <1>2, <2>1 DEF ChoiceRow
  <2> QED BY <1>1, <1>2, <2>1, <2>2 DEF OutletSound, Remembered
<1>3. CASE LocateLate(near)
  <2>1. UNCHANGED <<scope, shown, loads, doubt>> /\ outlet' \in ChoiceRow /\ OutletSound'
    BY <1>2, <1>3 DEF LocateLate, NoReload
  <2> QED BY <1>1, <2>1, ListUnchanged, PageIsGood DEF ScreenIInv, ScreenTypeOK
<1>4. CASE Locate(near) /\ outlet.pref = None
  <2>1. MoveTo(near) /\ outlet' \in ChoiceRow /\ OutletSound'
    BY <1>2, <1>4 DEF Locate
  <2> QED BY <1>1, <2>1, MoveIsSound, PageIsGood DEF ScreenIInv, ScreenTypeOK
<1>5. CASE Locate(near) /\ outlet.pref # None
  <2>1. PICK r \in {outlet.rec} \cup ({near} \ {outlet.pref}) :
           outlet' = [outlet EXCEPT !.rec = r, !.geo = "granted"]
    BY <1>5 DEF Locate
  <2>2. UNCHANGED <<scope, shown, loads, doubt>>
    BY <1>5 DEF Locate, NoReload
  <2>3. /\ outlet' \in ChoiceRow /\ outlet'.pref = outlet.pref /\ outlet'.manual = outlet.manual
        /\ outlet'.picked = outlet.picked /\ outlet'.listed = outlet.listed
    BY <1>1, <2>1 DEF ChoiceRow
  <2>4. OutletSound'
    BY <1>1, <2>2, <2>3 DEF ScreenIInv, OutletSound, Remembered, Is, Page
  <2> QED BY <1>1, <2>2, <2>3, <2>4, ListUnchanged, PageIsGood DEF ScreenIInv, ScreenTypeOK
<1> QED BY <1>3, <1>4, <1>5

LEMMA LocationIsIgnored ==
  ASSUME ScreenIInv, Deny \/ Dismiss
  PROVE  ScreenIInv'
<1>1. /\ UNCHANGED <<screen, at, scope, shown, loads, posts, sheet, db, doubt>>
      /\ \/ outlet' = [outlet EXCEPT !.geo = "denied"]
         \/ outlet' = [outlet EXCEPT !.rec = None]
  BY DEF Deny, Dismiss, NoReload, Rest
<1>2. /\ outlet' \in ChoiceRow /\ outlet'.pref = outlet.pref /\ outlet'.manual = outlet.manual
      /\ outlet'.picked = outlet.picked /\ outlet'.listed = outlet.listed
  BY <1>1 DEF ScreenIInv, ScreenTypeOK, ChoiceRow
<1>3. OutletSound'
  BY <1>1, <1>2 DEF ScreenIInv, OutletSound, Remembered, Is, Page
<1> QED BY <1>1, <1>2, <1>3, ListUnchanged, PageIsGood DEF ScreenIInv, ScreenTypeOK

LEMMA PageStepsAreGood ==
  ASSUME ScreenIInv,
         \/ SignIn \/ Mount \/ Refresh \/ Deny \/ Accept \/ Dismiss
         \/ \E c \in Scopes : Visit(c) \/ Locate(c) \/ LocateLate(c) \/ Choose(c)
         \/ \E l \in Loads : ServerReads(l) \/ Arrive(l) \/ FailLoad(l)
  PROVE  ScreenIInv'
<1>1. Accept => \E c \in Scopes : Choose(c)
  BY DEF Accept, ScreenIInv, ScreenTypeOK, ChoiceRow
<1> QED BY <1>1, SignInIsGood, MountIsGood, RefreshIsGood, LocationIsIgnored, VisitIsGood,
           LocateIsGood, ChooseIsGood, ServerReadsIsGood, ArriveIsGood, FailLoadIsGood

-----------------------------------------------------------------------------
(* The page is left.                                                       *)
LEMMA LeavesAreGood ==
  ASSUME ScreenIInv, Unmounted, at' \in {"left", "masuk"},
         UNCHANGED <<screen, scope, db>>, posts' \in [Changes -> PostRow],
         \A a \in Changes : posts'[a].scope = posts[a].scope /\ posts'[a].server = posts[a].server,
         \A a \in Changes : ToldSound(a)'
  PROVE  ScreenIInv'
<1>1. shown' = None /\ loads' = [l \in Loads |-> Idle] /\ sheet' = Closed /\ doubt' = FALSE
  BY DEF Unmounted
<1>2. ScreenTypeOK'
  <2>1. outlet' \in ChoiceRow
    BY DEF ScreenIInv, ScreenTypeOK, Unmounted, ChoiceRow
  <2> QED BY <1>1, <2>1 DEF ScreenIInv, ScreenTypeOK, Closed, SheetRow
<1>3. PostsSound'
  BY NothingStored DEF ScreenIInv
<1>4. ListSound' /\ OutletSound'
  BY NothingClaimed DEF ScreenIInv, OutletSound
<1> QED BY <1>2, <1>3, <1>4 DEF ScreenIInv

LEMMA LeaveIsGood ==
  ASSUME ScreenIInv, Leave
  PROVE  ScreenIInv'
<1>1. /\ at' = "left" /\ Unmounted /\ UNCHANGED <<screen, scope, db>>
      /\ posts' = [a \in Changes |-> [posts[a] EXCEPT !.from = "gone"]]
  BY DEF Leave
<1>2. ASSUME NEW a \in Changes
      PROVE  /\ posts'[a] \in PostRow /\ posts'[a].scope = posts[a].scope
             /\ posts'[a].server = posts[a].server /\ posts'[a].told = posts[a].told
             /\ posts'[a].from = "gone"
  BY <1>1, <1>2, PostRowHas DEF ScreenIInv, PostRow
<1>3. posts' \in [Changes -> PostRow]
  BY <1>1, <1>2
<1>4. sheet'.pane = None /\ Form' = Form
  BY <1>1 DEF Unmounted, Closed, Form
<1>5. ASSUME NEW a \in Changes PROVE ToldSound(a)'
  BY <1>2, <1>4, <1>5, ShapeOfForm DEF ScreenIInv, PostsSound, ToldSound
<1> QED BY <1>1, <1>2, <1>3, <1>5, LeavesAreGood

LEMMA ExpireIsGood ==
  ASSUME ScreenIInv, Expire
  PROVE  ScreenIInv'
<1>1. /\ at' = "masuk" /\ Unmounted /\ UNCHANGED <<screen, scope, db>>
      /\ posts' = [a \in Changes |->
                     [posts[a] EXCEPT !.from = "gone",
                                      !.told = IF Waiting(a) THEN "failed" ELSE @]]
  BY DEF Expire
<1>2. ASSUME NEW a \in Changes
      PROVE  /\ posts'[a] \in PostRow /\ posts'[a].scope = posts[a].scope
             /\ posts'[a].server = posts[a].server /\ posts'[a].from = "gone"
             /\ posts'[a].told = IF Waiting(a) THEN "failed" ELSE posts[a].told
  BY <1>1, <1>2, PostRowHas DEF ScreenIInv, PostRow
<1>3. posts' \in [Changes -> PostRow]
  BY <1>1, <1>2
<1>4. sheet'.pane = None /\ Form' = Form
  BY <1>1 DEF Unmounted, Closed, Form
<1>5. ASSUME NEW a \in Changes PROVE ToldSound(a)'
  BY <1>2, <1>4, <1>5, ShapeOfForm DEF ScreenIInv, PostsSound, ToldSound, Waiting
<1> QED BY <1>1, <1>2, <1>3, <1>5, LeavesAreGood

-----------------------------------------------------------------------------
(* Steps of the form and of its submissions.                               *)
LEMMA FormIsGood ==
  ASSUME ScreenIInv, UNCHANGED <<screen, scope, outlet>>, at' \in {at, "left"},
         doubt' \in BOOLEAN, shown' \in (SUBSET Pieces) \cup {None},
         loads' \in [Loads -> LoadRow \cup {Idle}], posts' \in [Changes -> PostRow],
         sheet' \in SheetRow, db' \in [Scopes -> SUBSET Pieces],
         PostsSound', ListSound'
  PROVE  ScreenIInv'
<1>1. OutletSound'
  BY DEF ScreenIInv, OutletSound, Remembered, Is, Page
<1> QED BY <1>1 DEF ScreenIInv, ScreenTypeOK

LEMMA OthersSound ==
  ASSUME ScreenIInv, UNCHANGED screen, NEW a \in Changes,
         \A b \in Changes \ {a} : posts'[b] = posts[b],
         \A b \in Changes \ {a} : \A c \in Scopes : \A k \in 1..2 :
           <<b, k>> \in db'[c] <=> <<b, k>> \in db[c],
         sheet'.pane \in {sheet.pane, a, None}, PartsSound(a)', ToldSound(a)'
  PROVE  PostsSound'
<1> SUFFICES ASSUME NEW b \in Changes, b # a PROVE PartsSound(b)' /\ ToldSound(b)'
  BY DEF PostsSound
<1>1. PartsSound(b) /\ ToldSound(b) /\ posts'[b] = posts[b] /\ Form' = Form /\ Parts' = Parts
  BY DEF ScreenIInv, PostsSound, Form, Parts
<1>2. posts[b].server # "new" => posts[b].scope \in Scopes
  BY <1>1, PostRowHas DEF ScreenIInv, ToldSound
<1>3. PartsSound(b)'
  <2>1. \A c \in Scopes : \A k \in 1..2 : <<b, k>> \in db'[c] <=> <<b, k>> \in db[c]
    OBVIOUS
  <2>2. Parts \subseteq 1..2
    BY ShapeOfForm DEF ScreenIInv, Parts
  <2>3. (Missing(b, 1)' <=> Missing(b, 1)) /\ (Missing(b, 2)' <=> Missing(b, 2))
    BY <2>1 DEF Missing
  <2> QED BY <1>1, <1>2, <2>1, <2>2, <2>3 DEF PartsSound
<1>4. b # None
  BY ShapeOfForm DEF ScreenIInv
<1>5. ToldSound(b)'
  BY <1>1, <1>4 DEF ToldSound
<1> QED BY <1>3, <1>5

LEMMA SheetsClose ==
  ASSUME ScreenTypeOK
  PROVE  /\ Closed \in SheetRow /\ Closed.pane = None
         /\ \A st \in {"form", "wait", "qris", "done"} :
              /\ [sheet EXCEPT !.pane = None, !.stage = st] \in SheetRow
              /\ [sheet EXCEPT !.pane = None, !.stage = st].pane = None
         /\ \A a \in Changes : a # None
BY ShapeOfForm DEF ScreenTypeOK, Closed, SheetRow

(* Of a submission that stores nothing.                                    *)
LEMMA PartsStay ==
  ASSUME ScreenIInv, UNCHANGED <<screen, db>>, NEW a \in Changes,
         posts'[a].scope = posts[a].scope, posts'[a].server = posts[a].server
  PROVE  PartsSound(a)'
BY DEF ScreenIInv, PostsSound, PartsSound, Missing, Parts, Form

LEMMA OpenIsGood ==
  ASSUME ScreenIInv, Open
  PROVE  ScreenIInv'
<1>1. /\ sheet' = [sheet EXCEPT !.open = TRUE]
      /\ UNCHANGED <<screen, at, scope, shown, loads, posts, db, doubt, outlet>>
  BY DEF Open
<1>2. sheet' \in SheetRow /\ sheet'.open /\ sheet'.pane = sheet.pane
  BY <1>1 DEF ScreenIInv, ScreenTypeOK, SheetRow
<1>3. PostsSound'
  BY <1>1, <1>2 DEF ScreenIInv, PostsSound, PartsSound, ToldSound, Missing, Parts, Form
<1>4. \A a \in Changes : (Heard(a)' <=> Heard(a)) /\ (Running(a)' <=> Running(a))
                         /\ (Excused(a) => Excused(a)')
  BY <1>1, <1>2 DEF Excused, Heard, Waiting, Watched, Form, Running
<1>5. KeepsLists
  BY <1>1, <1>4 DEF KeepsLists
<1>6. ListSound'
  BY <1>1, <1>5, ListStays DEF ScreenIInv
<1> QED BY <1>1, <1>2, <1>3, <1>6, FormIsGood DEF ScreenIInv, ScreenTypeOK

LEMMA CloseIsGood ==
  ASSUME ScreenIInv, Close
  PROVE  ScreenIInv'
<1>1. sheet' = Closed /\ UNCHANGED <<screen, at, scope, posts, db, outlet>>
  BY DEF Close
<1>2. sheet' \in SheetRow /\ sheet'.pane = None /\ \A a \in Changes : a # None
  BY <1>1, SheetsClose DEF ScreenIInv
<1>3. PostsSound'
  <2>1. ASSUME NEW a \in Changes PROVE ToldSound(a)'
    BY <1>1, <1>2, <2>1 DEF ScreenIInv, PostsSound, ToldSound, Form
  <2> QED BY <1>1, <2>1, NothingStored DEF ScreenIInv
<1>4. CASE sheet.stage = "done" /\ Reload(scope)
  <2>1. PICK c \in Scopes : c = scope
    BY DEF ScreenIInv, ScreenTypeOK
  <2>2. Reload(c)
    BY <1>4, <2>1
  <2> QED BY <1>1, <1>2, <1>3, <2>2, ReloadIsSound, SameRunning, FormIsGood
          DEF ScreenIInv, ScreenTypeOK
<1>5. CASE UNCHANGED <<shown, loads>> /\ doubt' = (doubt \/ PaidPaneLost)
  <2>1. ASSUME ~doubt' PROVE KeepsLists
    <3>1. \A a \in Changes : (Heard(a)' <=> Heard(a)) /\ (Running(a)' <=> Running(a))
      BY <1>1 DEF Heard, Waiting, Running
    <3>2. \A a \in Changes : Excused(a) => Excused(a)'
      BY <1>1, <1>2, <1>5, <2>1, <3>1 DEF Excused, Watched, PaidPaneLost
    <3> QED BY <1>1, <3>1, <3>2 DEF KeepsLists
  <2>2. ListSound'
    BY <1>1, <1>5, <2>1, ListStays DEF ScreenIInv
  <2> QED BY <1>1, <1>2, <1>3, <1>5, <2>2, FormIsGood DEF ScreenIInv, ScreenTypeOK
<1> QED BY <1>4, <1>5 DEF Close, NoReload

LEMMA CommitIsGood ==
  ASSUME ScreenIInv, NEW a \in Changes, Commit(a)
  PROVE  ScreenIInv'
<1> DEFINE k == IF posts[a].server = "sent" THEN 1 ELSE 2
           s == IF k = Form.parts THEN "done" ELSE "half"
           c == posts[a].scope
<1>1. /\ Running(a) /\ ~Form.qris /\ db' = [db EXCEPT ![c] = @ \cup {<<a, k>>}]
      /\ posts' = [posts EXCEPT ![a].server = s] /\ doubt' = (doubt \/ ~Heard(a))
      /\ UNCHANGED <<screen, at, scope, shown, loads, sheet, outlet>>
  BY DEF Commit
<1>2. /\ posts[a].server \in {"sent", "half"} /\ Form.parts \in 1..2
      /\ posts[a].server = "half" => Form.parts = 2
      /\ PartsSound(a) /\ ToldSound(a)
  BY <1>1 DEF ScreenIInv, PostsSound, PartsSound, ToldSound, Running
<1>3. c \in Scopes
  BY <1>2, PostRowHas DEF ScreenIInv, ToldSound
<1>4. k \in Parts /\ s \in {"half", "done"} /\ (s = "half" <=> k = 1 /\ Form.parts = 2)
      /\ (s = "done" => k = Form.parts) /\ (k = 2 => posts[a].server = "half")
      /\ (k = 1 => posts[a].server = "sent") /\ k \in 1..2
  BY <1>2 DEF Parts
<1> HIDE DEF k, s
<1>5. /\ posts' \in [Changes -> PostRow] /\ posts'[a].server = s
      /\ posts'[a].told = posts[a].told /\ posts'[a].from = posts[a].from
      /\ posts'[a].scope = posts[a].scope
      /\ \A b \in Changes \ {a} : posts'[b] = posts[b]
  BY <1>1, <1>4, NewServer DEF ScreenIInv, Server
<1>6. /\ db' \in [Scopes -> SUBSET Pieces] /\ db'[c] = db[c] \cup {<<a, k>>}
      /\ \A e \in Scopes \ {c} : db'[e] = db[e]
  BY <1>1, <1>3, <1>4 DEF ScreenIInv, ScreenTypeOK, Pieces
<1>7. PostsSound'
  <2>1. Form' = Form /\ Parts' = Parts
    BY <1>1 DEF Form, Parts
  <2>2. PartsSound(a)'
    <3>1. \A e \in Scopes : \A m \in 1..2 : <<a, m>> \in db'[e] => c = e /\ m \in Parts
      BY <1>2, <1>4, <1>6 DEF PartsSound
    <3>2. s = "half" => Missing(a, 2)' /\ Form.parts = 2 /\ <<a, 1>> \in db'[c]
      <4>1. s = "half" => Missing(a, 2) /\ k = 1
        BY <1>2, <1>4 DEF PartsSound
      <4> QED BY <1>4, <1>6, <4>1 DEF Missing
    <3>3. s = "done" => \A m \in Parts : <<a, m>> \in db'[c]
      <4>1. CASE k = 1
        BY <1>4, <1>6, <4>1 DEF Parts
      <4>2. CASE k = 2
        <5>1. posts[a].server = "half" /\ <<a, 1>> \in db[c]
          BY <1>2, <1>4, <4>2 DEF PartsSound
        <5> QED BY <1>4, <1>6, <4>2, <5>1 DEF Parts
      <4>3. k = 1 \/ k = 2
        BY <1>4
      <4> QED BY <4>1, <4>2, <4>3
    <3> QED BY <1>4, <1>5, <2>1, <3>1, <3>2, <3>3 DEF PartsSound
  <2>3. ToldSound(a)'
    BY <1>1, <1>2, <1>4, <1>5, <2>1 DEF ToldSound
  <2>4. \A b \in Changes \ {a} : \A e \in Scopes : \A m \in 1..2 :
          <<b, m>> \in db'[e] <=> <<b, m>> \in db[e]
    BY <1>6
  <2> QED BY <1>1, <1>5, <2>2, <2>3, <2>4, OthersSound
<1>8. ASSUME ~doubt' PROVE KeepsLists
  <2>1. \A b \in Changes : (Heard(b)' <=> Heard(b)) /\ (Running(b)' => Running(b))
    BY <1>1, <1>2, <1>4, <1>5 DEF Heard, Waiting, Running
  <2>2. \A b \in Changes : Excused(b) => Excused(b)'
    BY <1>1, <1>2, <1>5, <2>1 DEF Excused, Watched, Form
  <2>3. Heard(a) /\ Excused(a)'
    BY <1>1, <1>8, <2>1 DEF Excused
  <2>4. \A b \in Changes \ {a} : \A m \in 1..2 : <<b, m>> \in db'[scope] <=> <<b, m>> \in db[scope]
    BY <1>6 DEF ScreenIInv, ScreenTypeOK
  <2>5. db[scope] \subseteq db'[scope]
    BY <1>6 DEF ScreenIInv, ScreenTypeOK
  <2> QED BY <1>1, <1>2, <1>5, <2>1, <2>2, <2>3, <2>4, <2>5 DEF KeepsLists
<1>9. ListSound'
  BY <1>1, <1>8, ListStays DEF ScreenIInv
<1> QED BY <1>1, <1>5, <1>6, <1>7, <1>9, FormIsGood DEF ScreenIInv, ScreenTypeOK

LEMMA RefuseIsGood ==
  ASSUME ScreenIInv, NEW a \in Changes, Refuse(a)
  PROVE  ScreenIInv'
<1> DEFINE s == IF posts[a].server = "sent" THEN "refused" ELSE "torn"
<1>1. /\ Running(a) /\ posts' = [posts EXCEPT ![a].server = s]
      /\ UNCHANGED <<screen, at, scope, shown, loads, sheet, db, doubt, outlet>>
  BY DEF Refuse
<1>2. /\ posts[a].server \in {"sent", "half"} /\ PartsSound(a) /\ ToldSound(a)
      /\ (s = "refused" <=> posts[a].server = "sent") /\ s \in {"refused", "torn"}
  BY <1>1 DEF ScreenIInv, PostsSound, Running
<1> HIDE DEF s
<1>3. /\ posts' \in [Changes -> PostRow] /\ posts'[a].server = s
      /\ posts'[a].told = posts[a].told /\ posts'[a].from = posts[a].from
      /\ posts'[a].scope = posts[a].scope
      /\ \A b \in Changes \ {a} : posts'[b] = posts[b]
  BY <1>1, <1>2, NewServer DEF ScreenIInv, Server
<1>4. PostsSound'
  <2>1. Form' = Form /\ Parts' = Parts
    BY <1>1 DEF Form, Parts
  <2>2. PartsSound(a)' /\ ToldSound(a)'
    BY <1>1, <1>2, <1>3, <2>1 DEF PartsSound, ToldSound, Missing
  <2> QED BY <1>1, <1>3, <2>2, OthersSound
<1>5. KeepsLists
  <2>1. \A b \in Changes : (Heard(b)' <=> Heard(b)) /\ (Running(b)' => Running(b))
    BY <1>2, <1>3 DEF Heard, Waiting, Running
  <2>2. \A b \in Changes : Excused(b) => Excused(b)'
    BY <1>1, <1>2, <1>3, <2>1 DEF Excused, Watched, Form
  <2> QED BY <1>1, <1>2, <1>3, <2>1, <2>2 DEF KeepsLists
<1>6. ListSound'
  BY <1>1, <1>5, ListStays DEF ScreenIInv
<1> QED BY <1>1, <1>3, <1>4, <1>6, FormIsGood DEF ScreenIInv, ScreenTypeOK

LEMMA BillIsGood ==
  ASSUME ScreenIInv, NEW a \in Changes, Bill(a)
  PROVE  ScreenIInv'
<1>1. /\ Form.qris /\ posts[a].server = "sent" /\ posts' = [posts EXCEPT ![a].server = "pending"]
      /\ UNCHANGED <<screen, at, scope, shown, loads, sheet, db, doubt, outlet>>
  BY DEF Bill
<1>2. PartsSound(a) /\ ToldSound(a)
  BY DEF ScreenIInv, PostsSound
<1>3. /\ posts' \in [Changes -> PostRow] /\ posts'[a].server = "pending"
      /\ posts'[a].told = posts[a].told /\ posts'[a].from = posts[a].from
      /\ posts'[a].scope = posts[a].scope
      /\ \A b \in Changes \ {a} : posts'[b] = posts[b]
  BY <1>1, NewServer DEF ScreenIInv, Server
<1>4. PostsSound'
  <2>1. Form' = Form /\ Parts' = Parts
    BY <1>1 DEF Form, Parts
  <2>2. PartsSound(a)' /\ ToldSound(a)'
    BY <1>1, <1>2, <1>3, <2>1 DEF PartsSound, ToldSound, Missing
  <2> QED BY <1>1, <1>3, <2>2, OthersSound
<1>5. KeepsLists
  <2>1. \A b \in Changes : (Heard(b)' <=> Heard(b)) /\ (Running(b)' => Running(b))
    BY <1>1, <1>3 DEF Heard, Waiting, Running
  <2>2. \A b \in Changes : Excused(b) => Excused(b)'
    BY <1>1, <1>3, <2>1 DEF Excused, Watched, Form
  <2> QED BY <1>1, <1>3, <2>1, <2>2 DEF KeepsLists
<1>6. ListSound'
  BY <1>1, <1>5, ListStays DEF ScreenIInv
<1> QED BY <1>1, <1>3, <1>4, <1>6, FormIsGood DEF ScreenIInv, ScreenTypeOK

LEMMA PayIsGood ==
  ASSUME ScreenIInv, NEW a \in Changes, Pay(a)
  PROVE  ScreenIInv'
<1>1. /\ posts[a].server = "pending" /\ posts' = [posts EXCEPT ![a].server = "paid"]
      /\ UNCHANGED <<screen, at, scope, shown, loads, sheet, db, doubt, outlet>>
  BY DEF Pay
<1>2. PartsSound(a) /\ ToldSound(a)
  BY DEF ScreenIInv, PostsSound
<1>3. /\ posts' \in [Changes -> PostRow] /\ posts'[a].server = "paid"
      /\ posts'[a].told = posts[a].told /\ posts'[a].from = posts[a].from
      /\ posts'[a].scope = posts[a].scope
      /\ \A b \in Changes \ {a} : posts'[b] = posts[b]
  BY <1>1, NewServer DEF ScreenIInv, Server
<1>4. PostsSound'
  <2>1. Form' = Form /\ Parts' = Parts
    BY <1>1 DEF Form, Parts
  <2>2. PartsSound(a)' /\ ToldSound(a)'
    BY <1>1, <1>2, <1>3, <2>1 DEF PartsSound, ToldSound, Missing
  <2> QED BY <1>1, <1>3, <2>2, OthersSound
<1>5. KeepsLists
  <2>1. \A b \in Changes : (Heard(b)' <=> Heard(b)) /\ (Running(b)' => Running(b))
    BY <1>1, <1>3 DEF Heard, Waiting, Running
  <2>2. \A b \in Changes : Excused(b) => Excused(b)'
    BY <1>1, <1>3, <2>1 DEF Excused, Watched, Form
  <2> QED BY <1>1, <1>3, <2>1, <2>2 DEF KeepsLists
<1>6. ListSound'
  BY <1>1, <1>5, ListStays DEF ScreenIInv
<1> QED BY <1>1, <1>3, <1>4, <1>6, FormIsGood DEF ScreenIInv, ScreenTypeOK

LEMMA DeliverIsGood ==
  ASSUME ScreenIInv, NEW a \in Changes, Deliver(a)
  PROVE  ScreenIInv'
<1> DEFINE c == posts[a].scope
<1>1. /\ posts[a].server = "paid" /\ posts' = [posts EXCEPT ![a].server = "done"]
      /\ db' = [db EXCEPT ![c] = @ \cup {<<a, 1>>}] /\ doubt' = (doubt \/ ~Watched(a))
      /\ UNCHANGED <<screen, at, scope, shown, loads, sheet, outlet>>
  BY DEF Deliver
<1>2. PartsSound(a) /\ ToldSound(a) /\ Form.parts = 1 /\ Form.patch = "no" /\ Form.qris
  BY <1>1, ShapeOfForm DEF ScreenIInv, PostsSound, ToldSound
<1>3. c \in Scopes
  BY <1>1, <1>2, PostRowHas DEF ScreenIInv, ToldSound
<1>4. /\ posts' \in [Changes -> PostRow] /\ posts'[a].server = "done"
      /\ posts'[a].told = posts[a].told /\ posts'[a].from = posts[a].from
      /\ posts'[a].scope = c
      /\ \A b \in Changes \ {a} : posts'[b] = posts[b]
  BY <1>1, NewServer DEF ScreenIInv, Server
<1> HIDE DEF c
<1>5. /\ db' \in [Scopes -> SUBSET Pieces] /\ db'[c] = db[c] \cup {<<a, 1>>}
      /\ \A e \in Scopes \ {c} : db'[e] = db[e]
  BY <1>1, <1>3 DEF ScreenIInv, ScreenTypeOK, Pieces
<1>6. \A b \in Changes \ {a} : \A e \in Scopes : \A m \in 1..2 :
        <<b, m>> \in db'[e] <=> <<b, m>> \in db[e]
  BY <1>5
<1>7. PostsSound'
  <2>1. Form' = Form /\ Parts' = Parts /\ Parts = {1}
    BY <1>1, <1>2 DEF Form, Parts
  <2>2. \A e \in Scopes : \A m \in 1..2 : <<a, m>> \in db'[e] => c = e /\ m = 1
    BY <1>1, <1>2, <1>5 DEF PartsSound, Missing
  <2>3. PartsSound(a)'
    BY <1>4, <1>5, <2>1, <2>2 DEF PartsSound
  <2>4. ToldSound(a)'
    BY <1>1, <1>2, <1>3, <1>4, <2>1 DEF ToldSound
  <2> QED BY <1>1, <1>4, <1>6, <2>3, <2>4, OthersSound
<1>8. ASSUME ~doubt' PROVE KeepsLists
  <2>1. \A b \in Changes : (Heard(b)' <=> Heard(b)) /\ (Running(b)' => Running(b))
    BY <1>1, <1>4 DEF Heard, Waiting, Running
  <2>2. \A b \in Changes : Excused(b) => Excused(b)'
    BY <1>1, <1>4, <2>1 DEF Excused, Watched, Form
  <2>3. Excused(a)'
    BY <1>1, <1>4, <1>8 DEF Excused, Watched, Form
  <2>4. /\ \A b \in Changes \ {a} : \A m \in 1..2 :
             <<b, m>> \in db'[scope] <=> <<b, m>> \in db[scope]
        /\ db[scope] \subseteq db'[scope]
    BY <1>5, <1>6 DEF ScreenIInv, ScreenTypeOK
  <2> QED BY <1>2, <1>4, <2>1, <2>2, <2>3, <2>4 DEF KeepsLists, c
<1>9. ListSound'
  BY <1>1, <1>8, ListStays DEF ScreenIInv
<1> QED BY <1>1, <1>4, <1>5, <1>7, <1>9, FormIsGood DEF ScreenIInv, ScreenTypeOK

LEMMA ShowPaneIsGood ==
  ASSUME ScreenIInv, NEW a \in Changes, ShowPane(a)
  PROVE  ScreenIInv'
<1>1. /\ Waiting(a) /\ posts[a].server \in {"pending", "paid", "done"} /\ Form.qris
      /\ posts' = [posts EXCEPT ![a].told = "pay"]
      /\ \/ sheet' = sheet
         \/ posts[a].from # "gone" /\ sheet' = [sheet EXCEPT !.stage = "qris", !.pane = a]
      /\ doubt' = (doubt \/ PaidPaneLost \/ posts[a].server = "done")
      /\ UNCHANGED <<screen, at, scope, shown, loads, db, outlet>>
  BY DEF ShowPane
<1>2. PartsSound(a) /\ ToldSound(a) /\ Form.patch = "no"
  BY <1>1, ShapeOfForm DEF ScreenIInv, PostsSound, ToldSound
<1>3. /\ posts' \in [Changes -> PostRow] /\ posts'[a].told = "pay"
      /\ posts'[a].server = posts[a].server /\ posts'[a].from = posts[a].from
      /\ posts'[a].scope = posts[a].scope
      /\ \A b \in Changes \ {a} : posts'[b] = posts[b]
  BY <1>1, NewTold DEF ScreenIInv
<1>4. /\ sheet' \in SheetRow /\ sheet'.open = sheet.open
      /\ sheet'.pane = sheet.pane \/ (sheet'.pane = a /\ posts[a].from # "gone")
  BY <1>1 DEF ScreenIInv, ScreenTypeOK, SheetRow
<1>5. PostsSound'
  <2>1. Form' = Form
    BY <1>1 DEF Form
  <2>2. ToldSound(a)'
    BY <1>1, <1>2, <1>3, <1>4, <2>1 DEF ToldSound, Waiting
  <2> QED BY <1>1, <1>3, <1>4, <2>2, PartsStay, OthersSound
<1>6. ASSUME ~doubt' PROVE KeepsLists
  <2>1. \A b \in Changes \ {a} : (Heard(b)' <=> Heard(b)) /\ (Running(b)' => Running(b))
    BY <1>3 DEF Heard, Waiting, Running
  <2>2. ASSUME NEW b \in Changes, b # a, Excused(b) PROVE Excused(b)'
    <3>1. Watched(b) /\ posts[b].server = "done" => sheet'.pane = sheet.pane
      BY <1>1, <1>6, <2>2, ShapeOfForm DEF ScreenIInv, Watched, PaidPaneLost
    <3> QED BY <1>1, <1>3, <1>4, <2>1, <2>2, <3>1 DEF Excused, Watched, Form
  <2>4. posts[a].server \in {"pending", "paid"}
    BY <1>1, <1>6
  <2>3. \A k \in 1..2 : <<a, k>> \notin db[scope]
    BY <1>2, <2>4 DEF PartsSound, Missing, ScreenIInv, ScreenTypeOK
  <2> QED BY <1>1, <1>2, <1>3, <2>1, <2>2, <2>3 DEF KeepsLists
<1>7. ListSound'
  BY <1>1, <1>6, ListStays DEF ScreenIInv
<1> QED BY <1>1, <1>3, <1>4, <1>5, <1>7, FormIsGood DEF ScreenIInv, ScreenTypeOK

(* An error is told, and the list is loaded again where it was changed     *)
(* ahead; elsewhere nothing was stored, or the page is in doubt.           *)
LEMMA CatchIsGood ==
  ASSUME ScreenIInv, NEW a \in Changes, Waiting(a), NEW t \in {"refused", "failed"}, Catch(a, t),
         t = "refused" => posts[a].server \in {"refused", "torn"}
  PROVE  ScreenIInv'
<1>1. /\ posts' = [posts EXCEPT ![a].told = t]
      /\ sheet' \in {sheet, [sheet EXCEPT !.stage = "form", !.pane = None]}
      /\ UNCHANGED <<screen, at, scope, db, outlet>>
  BY DEF Catch
<1>2. PartsSound(a) /\ ToldSound(a)
  BY DEF ScreenIInv, PostsSound
<1>3. /\ posts' \in [Changes -> PostRow] /\ posts'[a].told = t
      /\ posts'[a].server = posts[a].server /\ posts'[a].from = posts[a].from
      /\ posts'[a].scope = posts[a].scope
      /\ \A b \in Changes \ {a} : posts'[b] = posts[b]
  BY <1>1, NewTold DEF ScreenIInv
<1>8. /\ sheet' \in SheetRow /\ sheet'.pane \in {sheet.pane, None}
      /\ sheet'.open = sheet.open /\ a # None
  BY <1>1, ShapeOfForm DEF ScreenIInv, ScreenTypeOK, SheetRow
<1>4. PostsSound'
  <2>1. Form' = Form
    BY <1>1 DEF Form
  <2>2. ToldSound(a)'
    BY <1>1, <1>2, <1>3, <1>8, <2>1 DEF ToldSound, Waiting
  <2> QED BY <1>1, <1>3, <1>8, <2>2, PartsStay, OthersSound
<1>5. \A b \in Changes : Running(b)' <=> Running(b)
  BY <1>3 DEF Running
<1>6. CASE Form.reloads /\ posts[a].from # "gone"
  <2>1. posts[a].scope \in Scopes /\ Reload(posts[a].scope)
    BY <1>2, <1>6, PostRowHas DEF ScreenIInv, ToldSound, Waiting, Catch
  <2>2. PICK c \in Scopes : c = posts[a].scope
    BY <2>1
  <2>3. Reload(c)
    BY <2>1, <2>2
  <2> QED BY <1>1, <1>3, <1>4, <1>5, <1>8, <2>3, ReloadIsSound, FormIsGood DEF ScreenIInv, ScreenTypeOK
<1>7. CASE ~(Form.reloads /\ posts[a].from # "gone")
  <2>1. /\ UNCHANGED <<shown, loads>>
        /\ doubt' = (doubt \/ PaidPaneLost \/ posts[a].server \in {"half", "torn", "done"})
    BY <1>7 DEF Catch, NoReload
  <2>2. ASSUME ~doubt' PROVE KeepsLists
    <3>1. \A b \in Changes \ {a} : Heard(b)' <=> Heard(b)
      BY <1>3 DEF Heard, Waiting
    <3>2. \A b \in Changes \ {a} : Excused(b) => Excused(b)'
      BY <1>1, <1>3, <1>8, <2>1, <2>2, <3>1, ShapeOfForm
         DEF Excused, Watched, Form, PaidPaneLost, ScreenIInv
    <3>3. ~Heard(a)'
      BY <1>3 DEF Heard, Waiting
    <3>4. posts[a].server \in {"sent", "refused", "pending", "paid"}
      BY <2>1, <2>2, PostRowHas DEF ScreenIInv, Waiting, Server
    <3>5. \A k \in 1..2 : <<a, k>> \notin db[scope]
      BY <1>2, <3>4 DEF PartsSound, Missing, ScreenIInv, ScreenTypeOK
    <3>6. Form.patch = "before" => ~Heard(a)
      BY <1>7, ShapeOfForm DEF ScreenIInv, Heard
    <3>7. ~Heard(a) => ~Excused(a)
      BY <3>4 DEF Excused
    <3> QED BY <1>1, <1>3, <1>5, <3>1, <3>2, <3>3, <3>5, <3>6, <3>7 DEF KeepsLists
  <2>3. ListSound'
    BY <1>1, <2>1, <2>2, ListStays DEF ScreenIInv
  <2> QED BY <1>1, <1>3, <1>4, <1>8, <2>1, <2>3, FormIsGood DEF ScreenIInv, ScreenTypeOK
<1> QED BY <1>6, <1>7

LEMMA SubmitIsGood ==
  ASSUME ScreenIInv, NEW a \in Changes, Submit(a)
  PROVE  ScreenIInv'
<1> DEFINE row == [server |-> "sent", told |-> "no", from |-> "page", scope |-> scope]
<1>1. /\ at = "page" /\ posts[a].server = "new" /\ Form.parts > 0 /\ shown # None
      /\ posts' = [posts EXCEPT ![a] = row]
      /\ sheet' \in {sheet, [sheet EXCEPT !.stage = "wait"]}
      /\ shown' = IF Form.patch = "before" THEN Patched(a) ELSE shown
      /\ doubt' = (doubt \/ (Form.patch = "before" /\ Loading))
      /\ UNCHANGED <<screen, at, scope, loads, db, outlet>>
  BY DEF Submit
<1>2. PartsSound(a) /\ ToldSound(a) /\ Form.parts \in 1..2 /\ scope \in Scopes /\ a # None
  BY <1>1, ShapeOfForm DEF ScreenIInv, PostsSound, ScreenTypeOK
<1>3. /\ row \in PostRow /\ row.server = "sent" /\ row.told = "no" /\ row.from = "page"
      /\ row.scope = scope
  BY <1>2 DEF PostRow, Server
<1> HIDE DEF row
<1>4. /\ posts' \in [Changes -> PostRow] /\ posts'[a] = row
      /\ \A b \in Changes \ {a} : posts'[b] = posts[b]
  BY <1>1, <1>3, PostChanges DEF ScreenIInv
<1>11. sheet' \in SheetRow /\ sheet'.pane = sheet.pane /\ sheet'.open = sheet.open
  BY <1>1 DEF ScreenIInv, ScreenTypeOK, SheetRow
<1>5. PostsSound'
  <2>1. Form' = Form /\ Parts' = Parts /\ scope # None
    BY <1>1, <1>2, ShapeOfForm DEF ScreenIInv, Form, Parts
  <2>2. Missing(a, 1) /\ Missing(a, 2)
    BY <1>1, <1>2 DEF PartsSound
  <2>3. PartsSound(a)' /\ ToldSound(a)'
    BY <1>1, <1>2, <1>3, <1>4, <1>11, <2>1, <2>2 DEF PartsSound, ToldSound, Missing
  <2> QED BY <1>1, <1>4, <1>11, <2>3, OthersSound
<1>6. \A b \in Changes \ {a} : (Heard(b)' <=> Heard(b)) /\ (Excused(b)' <=> Excused(b))
  BY <1>1, <1>4, <1>11 DEF Excused, Heard, Waiting, Watched, Form
<1>7. Heard(a)' /\ Excused(a)'
  BY <1>3, <1>4 DEF Excused, Heard, Waiting
<1>8. posts[a].scope = None
  BY <1>1, <1>2 DEF ToldSound
<1>9. CASE Form.patch # "before"
  <2>1. shown' = shown /\ doubt' = (doubt \/ FALSE)
    BY <1>1, <1>9
  <2>2. KeepsLists
    BY <1>1, <1>4, <1>6, <1>7, <1>8, <1>9 DEF KeepsLists
  <2>3. ListSound'
    BY <1>1, <2>1, <2>2, ListStays DEF ScreenIInv
  <2> QED BY <1>1, <1>4, <1>5, <1>11, <2>1, <2>3, FormIsGood DEF ScreenIInv, ScreenTypeOK
<1>10. CASE Form.patch = "before"
  <2>1. shown' = shown \cup {<<a, k>> : k \in Parts}
    BY <1>1, <1>3, <1>4, <1>10 DEF Patched
  <2>2. Parts \subseteq 1..2 /\ shown \in SUBSET Pieces
    BY <1>1, <1>2 DEF Parts, ScreenIInv, ScreenTypeOK
  <2>3. shown' \in SUBSET Pieces
    BY <2>1, <2>2 DEF Pieces
  <2>4. doubt' \in BOOLEAN
    BY <1>1 DEF ScreenIInv, ScreenTypeOK
  <2>5. ListSound'
    <3> SUFFICES ASSUME ~doubt' PROVE ListSound'
      BY NothingClaimed
    <3>1. ~doubt /\ ~Loading /\ ~Loading'
      BY <1>1, <1>10 DEF Loading, Busy
    <3>2. Agrees(shown)
      BY <1>1, <3>1 DEF ScreenIInv, ListSound
    <3>3. Form' = Form /\ Parts' = Parts /\ scope' = scope /\ db' = db
      BY <1>1 DEF Form, Parts
    <3>4. \A b \in Changes : \A k \in 1..2 :
            /\ <<b, k>> \in shown' => posts'[b].scope = scope /\ k \in Parts
            /\ ~Excused(b)' => (<<b, k>> \in shown' <=> <<b, k>> \in db[scope])
      <4> SUFFICES ASSUME NEW b \in Changes, NEW k \in 1..2
                   PROVE  /\ <<b, k>> \in shown' => posts'[b].scope = scope /\ k \in Parts
                          /\ ~Excused(b)' => (<<b, k>> \in shown' <=> <<b, k>> \in db[scope])
        OBVIOUS
      <4>1. CASE b = a
        BY <1>2, <1>3, <1>4, <1>7, <1>8, <2>1, <3>2, <4>1, ShapeOfForm DEF Agrees, ScreenIInv
      <4>2. CASE b # a
        <5>1. <<b, k>> \in shown' <=> <<b, k>> \in shown
          BY <2>1, <4>2
        <5>2. /\ <<b, k>> \in shown => posts[b].scope = scope /\ k \in Parts
              /\ ~Excused(b) => (<<b, k>> \in shown <=> <<b, k>> \in db[scope])
          BY <3>2 DEF Agrees
        <5>3. posts'[b] = posts[b] /\ (Excused(b)' <=> Excused(b))
          BY <1>4, <1>6, <4>2
        <5> QED BY <5>1, <5>2, <5>3
      <4> QED BY <4>1, <4>2
    <3>5. ASSUME NEW b \in Changes, Heard(b)', posts'[b].scope = scope,
                 posts'[b].server \in {"sent", "half", "done"}
          PROVE  \A k \in Parts : <<b, k>> \in shown'
      <4>1. CASE b = a
        BY <2>1, <4>1
      <4>2. CASE b # a
        BY <1>4, <1>6, <1>10, <2>1, <3>2, <3>5, <4>2 DEF Agrees
      <4> QED BY <4>1, <4>2
    <3>6. Agrees(shown)'
      BY <1>10, <3>3, <3>4, <3>5 DEF Agrees
    <3> QED BY <3>1, <3>6 DEF ListSound, Loading
  <2> QED BY <1>1, <1>4, <1>5, <1>11, <2>3, <2>4, <2>5, FormIsGood DEF ScreenIInv, ScreenTypeOK
<1> QED BY <1>9, <1>10

(* A success: the sheet closes, the list is loaded again or patched, the   *)
(* page is left, or its user is elsewhere.                                 *)
LEMMA SuccessIsGood ==
  ASSUME ScreenIInv, NEW a \in Changes, Succeed(a), UNCHANGED <<scope, screen, db>>,
         \/ Waiting(a) /\ posts[a].server = "done" /\ ~Form.qris
         \/ sheet.pane = a /\ posts[a].server \in {"paid", "done"}
  PROVE  ScreenIInv'
<1>1. /\ Succeed(a) /\ UNCHANGED <<scope, screen, db>>
      /\ posts[a].server = "done" \/ (Form.qris /\ posts[a].server = "paid")
  BY DEF ScreenIInv, PostsSound, ToldSound
<1>2. /\ PartsSound(a) /\ ToldSound(a) /\ posts[a].scope \in Scopes
      /\ sheet.pane = a => posts[a].from # "gone" /\ Form.qris
      /\ sheet.pane # a => Waiting(a) /\ posts[a].server = "done" /\ ~Form.qris
  BY <1>1, PostRowHas DEF ScreenIInv, PostsSound, ToldSound
<1>7. a # None /\ (Form.qris => Form.patch = "no")
  BY ShapeOfForm DEF ScreenIInv
<1>3. Form' = Form /\ Parts' = Parts
  BY <1>1 DEF Form, Parts
<1>4. CASE posts[a].from # "gone" /\ "leave" \in Form.ok
  <2>1. /\ at' = "left" /\ Unmounted
        /\ posts' = [b \in Changes |->
             [posts[b] EXCEPT !.told = IF b = a THEN "ok" ELSE @, !.from = "gone"]]
    BY <1>1, <1>4 DEF Succeed
  <2>2. ASSUME NEW b \in Changes
        PROVE  /\ posts'[b] \in PostRow /\ posts'[b].scope = posts[b].scope
               /\ posts'[b].server = posts[b].server /\ posts'[b].from = "gone"
               /\ posts'[b].told = IF b = a THEN "ok" ELSE posts[b].told
    BY <2>1, <2>2, PostRowHas DEF ScreenIInv, PostRow
  <2>3. posts' \in [Changes -> PostRow]
    BY <2>1, <2>2
  <2>4. sheet'.pane = None
    BY <2>1 DEF Unmounted, Closed
  <2>5. ASSUME NEW b \in Changes PROVE ToldSound(b)'
    BY <1>1, <1>3, <2>2, <2>4, <2>5, ShapeOfForm DEF ScreenIInv, PostsSound, ToldSound
  <2> QED BY <1>1, <2>1, <2>2, <2>3, <2>5, LeavesAreGood
<1>5. CASE posts[a].from = "gone" \/ "leave" \notin Form.ok
  <2>1. /\ at' = at /\ posts' = [posts EXCEPT ![a].told = "ok"] /\ outlet' = outlet
        /\ IF posts[a].from = "gone" THEN sheet' = sheet
           ELSE \/ sheet' = Closed
                \/ \E st \in {"form", "done"} : sheet' = [sheet EXCEPT !.pane = None, !.stage = st]
    BY <1>1, <1>5 DEF Succeed
  <2>2. /\ posts' \in [Changes -> PostRow] /\ posts'[a].told = "ok"
        /\ posts'[a].server = posts[a].server /\ posts'[a].from = posts[a].from
        /\ posts'[a].scope = posts[a].scope
        /\ \A b \in Changes \ {a} : posts'[b] = posts[b]
    BY <2>1, NewTold DEF ScreenIInv
  <2>3. /\ sheet' \in SheetRow /\ sheet'.pane \in {sheet.pane, None}
        /\ posts[a].from # "gone" => sheet'.pane = None
        /\ db' \in [Scopes -> SUBSET Pieces] /\ scope' \in Scopes
    <3>1. sheet \in SheetRow
      BY DEF ScreenIInv, ScreenTypeOK
    <3>2. /\ sheet' \in SheetRow /\ sheet'.pane \in {sheet.pane, None}
          /\ posts[a].from # "gone" => sheet'.pane = None
      BY <2>1, <3>1, SheetsClose DEF ScreenIInv
    <3> QED BY <1>1, <3>2 DEF ScreenIInv, ScreenTypeOK
  <2>4. PostsSound'
    <3>1. ToldSound(a)'
      BY <1>1, <1>2, <1>3, <1>7, <2>2, <2>3 DEF ToldSound
    <3> QED BY <1>1, <2>2, <2>3, <3>1, PartsStay, OthersSound
  <2>5. /\ \A b \in Changes : Running(b)' <=> Running(b)
        /\ \A b \in Changes \ {a} : Heard(b)' <=> Heard(b)
        /\ ~Heard(a)'
    BY <2>2 DEF Running, Heard, Waiting
  <2>6. CASE posts[a].from = "gone"
    <3>1. UNCHANGED <<shown, loads, at, sheet, doubt, outlet>>
      BY <1>1, <2>6 DEF Succeed, NoReload
    <3>2. ~Heard(a) /\ \A b \in Changes : Excused(b) <=> Excused(b)'
      BY <1>3, <2>2, <2>5, <2>6, <3>1 DEF Excused, Watched, Heard
    <3>3. KeepsLists
      BY <1>1, <2>2, <2>5, <3>2 DEF KeepsLists
    <3>4. ListSound'
      BY <1>1, <3>1, <3>3, ListStays DEF ScreenIInv
    <3> QED BY <1>1, <2>2, <2>3, <2>4, <3>1, <3>4, FormIsGood DEF ScreenIInv, ScreenTypeOK
  <2>7. CASE posts[a].from # "gone" /\ "load" \in Form.ok
    <3>1. Reload(posts[a].scope)
      BY <1>1, <1>5, <2>7 DEF Succeed
    <3>2. PICK c \in Scopes : c = posts[a].scope
      BY <1>2
    <3>3. Reload(c)
      BY <3>1, <3>2
    <3> QED BY <1>1, <2>1, <2>2, <2>3, <2>4, <2>5, <3>3, ReloadIsSound, FormIsGood
            DEF ScreenIInv, ScreenTypeOK
  <2>8. CASE posts[a].from # "gone" /\ "load" \notin Form.ok
    <3>1. /\ shown' = IF Form.patch = "after" THEN Patched(a) ELSE shown
          /\ doubt' = (doubt \/ Loading \/ Form.patch = "no") /\ loads' = loads
      BY <1>1, <1>5, <2>8 DEF Succeed
    <3>2. /\ doubt' \in BOOLEAN
          /\ Form.patch # "no" => posts[a].server = "done" /\ Heard(a)
      BY <1>1, <1>2, <1>7, <2>8, <3>1 DEF ScreenIInv, ScreenTypeOK, Heard
    <3>3. /\ shown' = shown \/ shown' = shown \cup {<<a, k>> : k \in Parts}
          /\ shown = None => shown' = shown
      BY <3>1 DEF Patched
    <3>4. Parts \subseteq 1..2
      BY ShapeOfForm DEF ScreenIInv, Parts
    <3>5. shown' \in (SUBSET Pieces) \cup {None}
      <4>1. CASE shown = None
        BY <3>3, <4>1
      <4>2. CASE shown # None
        BY <3>3, <3>4, <4>2 DEF ScreenIInv, ScreenTypeOK, Pieces
      <4> QED BY <4>1, <4>2
    <3>6. Form.patch # "no" => \A b \in Changes : sheet.pane # b
      BY ShapeOfForm DEF ScreenIInv, PostsSound, ToldSound
    <3>7. Form.patch # "no" => \A b \in Changes \ {a} : Excused(b) => Excused(b)'
      BY <1>3, <2>2, <2>5, <3>6 DEF Excused, Watched
    <3>8. CASE Form.patch = "no"
      BY <1>1, <2>1, <2>2, <2>3, <2>4, <3>1, <3>2, <3>5, <3>8, NothingClaimed, FormIsGood
         DEF ScreenIInv, ScreenTypeOK
    <3>9. CASE Form.patch = "before"
      <4>1. KeepsLists
        BY <1>1, <2>2, <2>5, <3>2, <3>7, <3>9 DEF KeepsLists
      <4>2. ListSound'
        BY <1>1, <2>1, <3>1, <3>9, <4>1, ListStays DEF ScreenIInv
      <4> QED BY <1>1, <2>1, <2>2, <2>3, <2>4, <3>1, <3>2, <3>5, <4>2, FormIsGood
              DEF ScreenIInv, ScreenTypeOK
    <3>10. CASE Form.patch = "after"
      <4>1. ListSound'
        <5> SUFFICES ASSUME at' = "page", ~doubt', shown' # None PROVE ListSound'
          <6>1. shown' = None /\ ~doubt' => ~Loading'
            BY <3>1 DEF Loading, Busy
          <6> QED BY <6>1 DEF ListSound, Loading
        <5>1. ~doubt /\ ~Loading /\ ~Loading' /\ shown # None /\ Agrees(shown)
          BY <2>1, <3>1, <3>3 DEF Loading, Busy, ScreenIInv, ListSound
        <5>2. shown' = IF posts[a].scope = scope THEN shown \cup {<<a, k>> : k \in Parts} ELSE shown
          BY <2>2, <3>1, <3>10, <5>1 DEF Patched
        <5>3. ASSUME NEW b \in Changes, NEW k \in 1..2
              PROVE  /\ <<b, k>> \in shown' => posts[b].scope = scope /\ k \in Parts
                     /\ <<b, k>> \in shown' => <<b, k>> \in db[scope]
                     /\ ~Excused(b)' => (<<b, k>> \in shown' <=> <<b, k>> \in db[scope])
          <6>1. /\ <<b, k>> \in shown => posts[b].scope = scope /\ k \in Parts
                /\ <<b, k>> \in shown => <<b, k>> \in db[scope]
                /\ ~Excused(b) => (<<b, k>> \in shown <=> <<b, k>> \in db[scope])
            BY <3>10, <5>1 DEF Agrees
          <6>2. CASE b = a
            <7>1. <<a, k>> \in db[scope] => posts[a].scope = scope /\ k \in Parts
              BY <1>2 DEF PartsSound, ScreenIInv, ScreenTypeOK
            <7>2. posts[a].scope = scope => \A m \in Parts : <<a, m>> \in db[scope]
              BY <1>1, <1>2, <3>2, <3>10 DEF PartsSound
            <7> QED BY <5>2, <6>1, <6>2, <7>1, <7>2
          <6>3. CASE b # a
            <7>1. <<b, k>> \in shown' <=> <<b, k>> \in shown
              BY <5>2, <6>3
            <7>2. Excused(b) => Excused(b)'
              BY <3>7, <3>10, <6>3
            <7> QED BY <6>1, <7>1, <7>2
          <6> QED BY <6>2, <6>3
        <5>4. shown' \subseteq db[scope]
          <6> SUFFICES ASSUME NEW p \in shown' PROVE p \in db[scope]
            OBVIOUS
          <6>1. PICK b \in Changes, k \in 1..2 : p = <<b, k>>
            BY <3>5 DEF Pieces
          <6> QED BY <5>3, <6>1
        <5>5. \A b \in Changes : posts'[b].scope = posts[b].scope
          BY <2>2
        <5>6. Agrees(shown)'
          BY <1>1, <1>3, <3>10, <5>3, <5>4, <5>5 DEF Agrees
        <5> QED BY <5>1, <5>6 DEF ListSound, Loading
      <4> QED BY <1>1, <2>1, <2>2, <2>3, <2>4, <3>1, <3>2, <3>5, <4>1, FormIsGood
              DEF ScreenIInv, ScreenTypeOK
    <3> QED BY <3>8, <3>9, <3>10, ShapeOfForm DEF ScreenIInv
  <2> QED BY <2>6, <2>7, <2>8
<1> QED BY <1>4, <1>5

LEMMA DoneIsGood ==
  ASSUME ScreenIInv, NEW a \in Changes, Done(a)
  PROVE  ScreenIInv'
BY SuccessIsGood DEF Done

LEMMA PollIsGood ==
  ASSUME ScreenIInv, PollSeesPaid
  PROVE  ScreenIInv'
<1>1. PICK a \in Changes : a = sheet.pane
  BY DEF PollSeesPaid, ScreenIInv, ScreenTypeOK, SheetRow
<1>2. Succeed(a) /\ UNCHANGED <<scope, screen, db>> /\ posts[a].server \in {"paid", "done"}
  BY <1>1 DEF PollSeesPaid
<1> QED BY <1>1, <1>2, SuccessIsGood

-----------------------------------------------------------------------------
LEMMA ScreenInitIsGood == ScreenInit => ScreenIInv
<1> SUFFICES ASSUME ScreenInit PROVE ScreenIInv
  OBVIOUS
<1> DEFINE row == [server |-> "new", told |-> "no", from |-> "gone", scope |-> None]
<1>1. /\ screen \in Screens /\ at = "left" /\ scope = Home /\ shown = None /\ doubt = FALSE
      /\ loads = [l \in Loads |-> Idle] /\ posts = [a \in Changes |-> row]
      /\ sheet = Closed /\ db = [c \in Scopes |-> {}]
      /\ outlet = [listed |-> {}, pref |-> None, manual |-> FALSE, rec |-> None,
                   geo |-> "idle", late |-> FALSE, picked |-> None]
  BY DEF ScreenInit
<1>2. /\ row \in PostRow /\ row.server = "new" /\ row.told = "no" /\ row.from = "gone"
      /\ row.scope = None
  BY DEF PostRow, Server
<1> HIDE DEF row
<1>3. /\ outlet \in ChoiceRow /\ outlet.manual = FALSE
      /\ sheet \in SheetRow /\ sheet.pane = None
  BY <1>1 DEF ChoiceRow, SheetRow, Closed
<1>4. ScreenTypeOK
  BY <1>1, <1>2, <1>3, HomeAssumption DEF ScreenTypeOK
<1>5. PostsSound
  BY <1>1, <1>2, <1>3, <1>4, ShapeOfForm DEF PostsSound, PartsSound, ToldSound, Missing
<1>6. ListSound /\ OutletSound
  BY <1>1, <1>3 DEF ListSound, OutletSound
<1> QED BY <1>4, <1>5, <1>6 DEF ScreenIInv

LEMMA ScreenStepsAreGood == ScreenIInv /\ [ScreenNext]_screenVars => ScreenIInv'
<1> SUFFICES ASSUME ScreenIInv, [ScreenNext]_screenVars PROVE ScreenIInv'
  OBVIOUS
<1>1. CASE UNCHANGED screenVars
  BY <1>1, ListUnchanged, PageIsGood DEF screenVars, ScreenIInv, ScreenTypeOK, OutletSound, Remembered, Is, Page
<1>2. ASSUME NEW a \in Changes, Refused(a) \/ Fail(a) PROVE ScreenIInv'
  BY <1>2, CatchIsGood DEF Refused, Fail
<1>3. CASE ScreenNext
  BY <1>2, <1>3, PageStepsAreGood, LeaveIsGood, ExpireIsGood, OpenIsGood, CloseIsGood, PollIsGood,
     SubmitIsGood, CommitIsGood, RefuseIsGood, BillIsGood, PayIsGood, DeliverIsGood, DoneIsGood,
     ShowPaneIsGood
     DEF ScreenNext
<1> QED BY <1>1, <1>3

LEMMA ScreenInvariant == ScreenSpec => []ScreenIInv
BY ScreenInitIsGood, ScreenStepsAreGood, PTL DEF ScreenSpec

(* A page at rest shows what is stored, for every shape of page and form   *)
(* within FormAssumption, whatever answers overtake each other, get lost   *)
(* or find the page gone, unless the page had a reason to doubt it.        *)
THEOREM PagesShowTheStore == ScreenSpec => []ShownIsStored
<1>1. ScreenIInv => ShownIsStored
  <2> SUFFICES ASSUME ScreenIInv, Quiet, ~doubt, shown # None PROVE shown = db[scope]
    BY DEF ShownIsStored
  <2>1. Agrees(shown) /\ shown \in SUBSET Pieces /\ db[scope] \in SUBSET Pieces
    BY DEF ScreenIInv, ScreenTypeOK, ListSound, Quiet
  <2>2. \A a \in Changes : ~Excused(a)
    BY DEF Quiet, Excused
  <2>3. \A a \in Changes : \A k \in 1..2 : <<a, k>> \in shown <=> <<a, k>> \in db[scope]
    BY <2>1, <2>2 DEF Agrees
  <2>4. ASSUME NEW p \in Pieces PROVE p \in shown <=> p \in db[scope]
    <3>1. PICK a \in Changes, k \in 1..2 : p = <<a, k>>
      BY DEF Pieces
    <3> QED BY <2>3, <3>1
  <2> QED BY <2>1, <2>4
<1> QED BY <1>1, ScreenInvariant, PTL

(* A success is told only of a change that is stored in all its parts, or  *)
(* of a QRIS whose order is paid and not yet delivered, and a refusal only *)
(* of a change whose last part is not stored.                              *)
THEOREM FormsTellTheTruth == ScreenSpec => []ToldIsTrue
<1>1. ScreenIInv => ToldIsTrue
  <2> SUFFICES ASSUME ScreenIInv, NEW a \in Changes
               PROVE  /\ posts[a].told = "ok" =>
                           Stored(a) \/ (Form.qris /\ posts[a].server = "paid")
                      /\ posts[a].told = "refused" =>
                           \A c \in Scopes : <<a, Form.parts>> \notin db[c]
    BY DEF ToldIsTrue
  <2>1. PartsSound(a) /\ ToldSound(a) /\ posts[a].scope \in Scopes \cup {None}
    BY PostRowHas DEF ScreenIInv, PostsSound
  <2>2. CASE posts[a].told = "ok"
    BY <2>1, <2>2 DEF PartsSound, ToldSound, Stored
  <2>3. CASE posts[a].told = "refused"
    <3>1. Form.parts \in 1..2 /\ posts[a].server \in {"refused", "torn"}
      BY <2>1, <2>3 DEF ToldSound
    <3> QED BY <2>1, <2>3, <3>1 DEF PartsSound, Missing
  <2> QED BY <2>2, <2>3
<1> QED BY <1>1, ScreenInvariant, PTL

(* What the customer has picked stays remembered and is what every visit   *)
(* shows that offers it, and no late location takes a page away from a     *)
(* pick: useOutletSelection moves the storefront by itself only where no   *)
(* choice at all is stored, or where the pick is no longer offered.        *)
THEOREM OutletPickIsKept == ScreenSpec => ManualChoiceStays
<1>1. ScreenIInv /\ ScreenIInv' /\ [ScreenNext]_screenVars =>
        [LET pick == outlet.picked IN
         Is("nearest") /\ pick # None /\ outlet'.picked = pick =>
           /\ Remembered => Remembered'
           /\ at' = "page" /\ Remembered' /\ pick \in outlet'.listed => scope' = pick
           /\ at = "page" /\ at' = "page" /\ scope = pick /\ outlet.pref # None
                => scope' = pick]_screenVars
  <2> SUFFICES ASSUME ScreenIInv, ScreenIInv', ScreenNext,
                      Is("nearest"), outlet.picked # None, outlet'.picked = outlet.picked
               PROVE  /\ Remembered => Remembered'
                      /\ at' = "page" /\ Remembered' /\ outlet.picked \in outlet'.listed
                           => scope' = outlet.picked
                      /\ at = "page" /\ at' = "page" /\ scope = outlet.picked /\ outlet.pref # None
                           => scope' = outlet.picked
    OBVIOUS
  <2>1. outlet \in ChoiceRow /\ ScreenTypeOK
    BY DEF ScreenIInv, ScreenTypeOK
  <2>2. /\ screen' = screen
        /\ Remembered => Remembered'
        /\ at = "page" /\ at' = "page" /\ scope = outlet.picked /\ outlet.pref # None
             => scope' = outlet.picked
    <3>1. CASE /\ screen' = screen /\ outlet'.pref = outlet.pref /\ outlet'.manual = outlet.manual
               /\ at = "page" /\ at' = "page" => scope' = scope
      BY <3>1 DEF Remembered
    <3>2. CASE Accept \/ \E c \in Scopes : Choose(c)
      <4>1. PICK c \in Scopes : Choose(c)
        BY <2>1, <3>2 DEF Accept, Choose, ChoiceRow
      <4>2. PICK written \in Written(c, TRUE) : outlet' = [written EXCEPT !.rec = None, !.picked = c]
        BY <4>1 DEF Choose
      <4>3. /\ outlet'.picked = c /\ scope' = c /\ screen' = screen
            /\ \/ outlet'.pref = outlet.pref /\ outlet'.manual = outlet.manual
               \/ outlet'.pref = c /\ outlet'.manual = TRUE
        <5>1. /\ written \in ChoiceRow
              /\ \/ written.pref = outlet.pref /\ written.manual = outlet.manual
                 \/ written.pref = c /\ written.manual = TRUE
          BY <2>1, WritingIsTyped
        <5>2. outlet'.picked = c /\ outlet'.pref = written.pref /\ outlet'.manual = written.manual
          BY <4>2, <5>1 DEF ChoiceRow
        <5> QED BY <4>1, <5>1, <5>2 DEF Choose, MoveTo, Rest
      <4> QED BY <4>3 DEF Remembered
    <3>3. ASSUME NEW c \in Scopes, Locate(c) \/ LocateLate(c), outlet.pref = None
          PROVE  screen' = screen /\ ~Remembered
      BY <3>3 DEF Locate, LocateLate, Rest, Remembered
    <3>4. ASSUME NEW c \in Scopes, Locate(c), outlet.pref # None
          PROVE  /\ screen' = screen /\ outlet'.pref = outlet.pref /\ scope' = scope
                 /\ outlet'.manual = outlet.manual
      BY <2>1, <3>4 DEF Locate, Rest, ChoiceRow
    <3>5. CASE Mount \/ Deny \/ Dismiss
      <4>1. /\ outlet'.pref = outlet.pref /\ outlet'.manual = outlet.manual /\ screen' = screen
            /\ at = "page" => scope' = scope
        BY <2>1, <3>5 DEF Mount, Deny, Dismiss, Rest, ChoiceRow
      <4> QED BY <3>1, <4>1
    <3>6. CASE SignIn \/ Refresh \/ Open \/ Close
      BY <3>1, <3>6 DEF SignIn, Refresh, Open, Close
    <3>7. CASE \/ \E c \in Scopes : Visit(c)
               \/ \E l \in Loads : ServerReads(l) \/ Arrive(l) \/ FailLoad(l)
      BY <3>1, <3>7 DEF Visit, ServerReads, Arrive, FailLoad
    <3>8. ASSUME NEW a \in Changes,
                 \/ Submit(a) \/ Commit(a) \/ Refuse(a) \/ Bill(a) \/ Pay(a) \/ Deliver(a)
                 \/ ShowPane(a) \/ Refused(a) \/ Fail(a)
          PROVE  outlet' = outlet /\ screen' = screen /\ scope' = scope
      BY <3>8 DEF Submit, Commit, Refuse, Bill, Pay, Deliver, ShowPane, Refused, Fail, Catch
    <3>9. CASE Leave \/ Expire
      <4>1. screen' = screen /\ at' # "page" /\ Unmounted
        BY <3>9 DEF Leave, Expire
      <4>2. outlet'.pref = outlet.pref /\ outlet'.manual = outlet.manual
        BY <2>1, <4>1 DEF Unmounted, ChoiceRow
      <4> QED BY <3>1, <4>1, <4>2
    <3>10. ASSUME NEW a, Succeed(a), UNCHANGED <<scope, screen, db>>
           PROVE  outlet'.pref = outlet.pref /\ outlet'.manual = outlet.manual
      BY <2>1, <3>10 DEF Succeed, Unmounted, ChoiceRow
    <3>11. CASE PollSeesPaid \/ \E a \in Changes : Done(a)
      BY <3>1, <3>10, <3>11 DEF PollSeesPaid, Done
    <3>12. ASSUME NEW c \in Scopes, Locate(c) \/ LocateLate(c)
           PROVE  /\ screen' = screen
                  /\ Remembered => Remembered'
                  /\ scope = outlet.picked /\ outlet.pref # None => scope' = outlet.picked
      <4>1. CASE outlet.pref = None
        BY <3>3, <3>12, <4>1
      <4>2. CASE outlet.pref # None
        BY <3>4, <3>12, <4>2 DEF LocateLate, Remembered
      <4> QED BY <4>1, <4>2
    <3> QED BY <3>1, <3>2, <3>12, <3>5, <3>6, <3>7, <3>8, <3>9, <3>11 DEF ScreenNext
  <2>3. OutletSound'
    BY DEF ScreenIInv
  <2> QED BY <2>2, <2>3 DEF OutletSound, Remembered, Is, Page
<1> QED BY <1>1, ScreenInvariant, PTL DEF ScreenSpec, ManualChoiceStays
=============================================================================
