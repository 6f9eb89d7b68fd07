------------------------------- MODULE Wallet -------------------------------
(***************************************************************************)
(* The wallet of one owner (modules/wallet/wallet.service.ts): a cached    *)
(* balance, an append-only ledger and the holds of the purchase saga.      *)
(*                                                                         *)
(* Every operation runs in a database transaction that locks the account   *)
(* row with SELECT ... FOR UPDATE, and no operation touches two accounts,  *)
(* so one account is enough and an operation under the lock is one step.   *)
(* The exception is settle: it reads the hold BEFORE it takes the lock     *)
(* (wallet.service.ts:167), so it is two steps here, with the hold read    *)
(* kept in txn.  The callers are free: any operation may be called, and    *)
(* retried, at any time.  PurchaseSaga adds the discipline of the callers. *)
(*                                                                         *)
(* A reference names one order and an order's amount is set once, when it  *)
(* is created, hence the constant Amount.                                  *)
(***************************************************************************)
EXTENDS Naturals, Sequences

CONSTANTS
  Refs,         \* reference ids of orders and top-ups
  HoldIds,      \* primary keys of the holds table
  Workers,      \* transactions that may be open at once
  CreditTypes,  \* the ledger entry types credit() is called with
  NoHold,       \* no hold: an idle worker
  Amount,       \* the money each reference is about
  Total         \* the sum of Amount over a set of references

(* credit and reserve refuse an amount that is not positive.               *)
ASSUME AmountAssumption == Amount \in [Refs -> Nat \ {0}]

(* What SUM(amount) of the database computes, as far as it is needed.      *)
ASSUME TotalAssumption ==
  /\ Total \in [SUBSET Refs -> Nat]
  /\ Total[{}] = 0
  /\ \A S \in SUBSET Refs : \A r \in Refs \ S :
        Total[S \cup {r}] = Total[S] + Amount[r]

ASSUME NamesAssumption ==
  /\ Refs # {}
  /\ NoHold \notin HoldIds
  /\ "PURCHASE" \notin CreditTypes

VARIABLES
  balance,  \* accounts.balance, the cached balance
  ledger,   \* ledger_entries of the account in the order of their ids
  hold,     \* the holds table; status "NONE" is a row not inserted yet
  txn       \* the hold that the open settle of a worker has read, or NoHold

vars == <<balance, ledger, hold, txn>>

EntryTypes == CreditTypes \cup {"PURCHASE"}
HoldStatus == {"NONE", "ACTIVE", "SETTLED", "RELEASED"}
Entry == [type: EntryTypes, ref: Refs, balanceAfter: Nat]

TypeOK ==
  /\ balance \in Nat
  /\ ledger \in Seq(Entry)
  /\ hold \in [HoldIds -> [status: HoldStatus, ref: Refs]]
  /\ txn \in [Workers -> HoldIds \cup {NoHold}]

-----------------------------------------------------------------------------
(* The unique key (account, type, referenceId) of a ledger entry.          *)
HasEntry(type, r) == \E i \in DOMAIN ledger : ledger[i].type = type /\ ledger[i].ref = r

HoldsIn(r, statuses) == {h \in HoldIds : hold[h].ref = r /\ hold[h].status \in statuses}

(* The references with money on hold: the aggregate of balanceFor and of   *)
(* reserve sums over the ACTIVE holds.                                     *)
HeldRefs == {r \in Refs : HoldsIn(r, {"ACTIVE"}) # {}}

(* Slip: reserve compares with the balance and forgets what is on hold.    *)
CoversWithoutHolds(r) == balance >= Amount[r]

(* balance - held, as reserve compares it with an amount.                  *)
Covers(r) == balance >= Total[HeldRefs] + Amount[r]

(* applyEntry, under the row lock: an entry that exists is returned as it  *)
(* is, a debit that would overdraw throws, otherwise the entry and the     *)
(* cached balance are written together.                                    *)
NewBalance(type, r) == IF type = "PURCHASE" THEN balance - Amount[r] ELSE balance + Amount[r]

(* Slips: no lookup of the entry, no check of the balance, or a balance    *)
(* that is updated although the entry was there.                           *)
AppendEntry(type, r) ==
  /\ balance' = NewBalance(type, r)
  /\ ledger' = Append(ledger, [type |-> type, ref |-> r, balanceAfter |-> balance'])

ApplyEntryTwice(type, r) ==
  /\ type = "PURCHASE" => balance >= Amount[r]
  /\ AppendEntry(type, r)

ApplyEntryOverdraws(type, r) ==
  \/ HasEntry(type, r) /\ UNCHANGED <<balance, ledger>>
  \/ ~HasEntry(type, r) /\ AppendEntry(type, r)

ApplyEntryMovesCache(type, r) ==
  \/ HasEntry(type, r) /\ balance' = balance + Amount[r] /\ UNCHANGED ledger
  \/ ~HasEntry(type, r) /\ (type = "PURCHASE" => balance >= Amount[r]) /\ AppendEntry(type, r)

ApplyEntry(type, r) ==
  \/ HasEntry(type, r) /\ UNCHANGED <<balance, ledger>>
  \/ /\ ~HasEntry(type, r)
     /\ type = "PURCHASE" => balance >= Amount[r]
     /\ balance' = NewBalance(type, r)
     /\ ledger' = Append(ledger, [type |-> type, ref |-> r, balanceAfter |-> balance'])

-----------------------------------------------------------------------------
Init ==
  /\ balance = 0
  /\ ledger = <<>>
  /\ hold = [h \in HoldIds |-> [status |-> "NONE", ref |-> CHOOSE r \in Refs : TRUE]]
  /\ txn = [w \in Workers |-> NoHold]

Credit(type, r) ==
  /\ ApplyEntry(type, r)
  /\ UNCHANGED <<hold, txn>>

(* Slip: reserve looks for a SETTLED hold only.                            *)
ReserveAgain(h, r) ==
  /\ hold[h].status = "NONE"
  /\ HoldsIn(r, {"SETTLED"}) = {}
  /\ Covers(r)
  /\ hold' = [hold EXCEPT ![h] = [status |-> "ACTIVE", ref |-> r]]
  /\ UNCHANGED <<balance, ledger, txn>>

(* reserve: an ACTIVE or SETTLED hold of the reference is returned, too    *)
(* little available money throws; neither writes anything.                 *)
Reserve(h, r) ==
  /\ hold[h].status = "NONE"
  /\ HoldsIn(r, {"ACTIVE", "SETTLED"}) = {}
  /\ Covers(r)
  /\ hold' = [hold EXCEPT ![h] = [status |-> "ACTIVE", ref |-> r]]
  /\ UNCHANGED <<balance, ledger, txn>>

(* settle reads the hold without a lock; a hold that is SETTLED returns at *)
(* once and one that is RELEASED throws.                                   *)
SettleRead(w, h) ==
  /\ txn[w] = NoHold
  /\ hold[h].status = "ACTIVE"
  /\ txn' = [txn EXCEPT ![w] = h]
  /\ UNCHANGED <<balance, ledger, hold>>

(* Slip: a debit that throws does not keep the hold from being SETTLED.    *)
SettleCommitUnpaid(w) ==
  /\ txn[w] # NoHold
  /\ ApplyEntry("PURCHASE", hold[txn[w]].ref)
     \/ (balance < Amount[hold[txn[w]].ref] /\ UNCHANGED <<balance, ledger>>)
  /\ hold' = [hold EXCEPT ![txn[w]].status = "SETTLED"]
  /\ txn' = [txn EXCEPT ![w] = NoHold]

(* ... then debits under the row lock and writes SETTLED by primary key,   *)
(* whatever the status has become since it was read.                       *)
SettleCommit(w) ==
  /\ txn[w] # NoHold
  /\ ApplyEntry("PURCHASE", hold[txn[w]].ref)
  /\ hold' = [hold EXCEPT ![txn[w]].status = "SETTLED"]
  /\ txn' = [txn EXCEPT ![w] = NoHold]

(* The transaction rolls back: 'Insufficient balance' thrown by            *)
(* applyEntry, a lost connection or the end of the process.                *)
SettleRollback(w) ==
  /\ txn[w] # NoHold
  /\ txn' = [txn EXCEPT ![w] = NoHold]
  /\ UNCHANGED <<balance, ledger, hold>>

(* Slip: release without its WHERE.                                        *)
ReleaseAny(h) ==
  /\ hold[h].status # "NONE"
  /\ hold' = [hold EXCEPT ![h].status = "RELEASED"]
  /\ UNCHANGED <<balance, ledger, txn>>

(* release: one UPDATE ... WHERE status = 'ACTIVE'.                        *)
Release(h) ==
  /\ hold[h].status = "ACTIVE"
  /\ hold' = [hold EXCEPT ![h].status = "RELEASED"]
  /\ UNCHANGED <<balance, ledger, txn>>

Next ==
  \/ \E type \in CreditTypes, r \in Refs : Credit(type, r)
  \/ \E h \in HoldIds, r \in Refs : Reserve(h, r)
  \/ \E w \in Workers, h \in HoldIds : SettleRead(w, h)
  \/ \E w \in Workers : SettleCommit(w) \/ SettleRollback(w)
  \/ \E h \in HoldIds : Release(h)

Spec == Init /\ [][Next]_vars

-----------------------------------------------------------------------------
(* WI-1, "balance is a cache; the ledger is authoritative": each entry     *)
(* moves the balance of the entry before it by its own amount, and the     *)
(* cached balance is what the last entry says.                             *)
BalanceBefore(i) == IF i = 1 THEN 0 ELSE ledger[i - 1].balanceAfter

LedgerChain ==
  /\ \A i \in DOMAIN ledger :
        LET e == ledger[i] IN
        IF e.type = "PURCHASE" THEN BalanceBefore(i) = e.balanceAfter + Amount[e.ref]
                               ELSE e.balanceAfter = BalanceBefore(i) + Amount[e.ref]
  /\ balance = BalanceBefore(Len(ledger) + 1)

(* BR-24: however often credit and settle are retried, and in whatever     *)
(* order, a reference moves money at most once per entry type.             *)
AppliedOnce ==
  \A i, j \in DOMAIN ledger :
     ledger[i].type = ledger[j].type /\ ledger[i].ref = ledger[j].ref => i = j

(* WI-5: a reference is charged exactly when one of its holds is SETTLED,  *)
(* even if a release slips between settle's read and its commit.           *)
ChargedIffSettled ==
  \A r \in Refs : HasEntry("PURCHASE", r) <=> HoldsIn(r, {"SETTLED"}) # {}

(* The idempotency of reserve: never two ACTIVE holds for one reference.   *)
OneActiveHold ==
  \A g, h \in HoldIds :
     /\ hold[g].status = "ACTIVE" /\ hold[h].status = "ACTIVE"
     /\ hold[g].ref = hold[h].ref
     => g = h

(* A SETTLED hold never leaves that status: a late release or a second     *)
(* settle cannot free money that was spent.                                *)
SettledIsFinal ==
  [][\A h \in HoldIds : hold[h].status = "SETTLED" => hold'[h] = hold[h]]_vars

(* The ledger implements an account that moves money atomically and at     *)
(* most once per reference (module Account), retries and rollbacks being   *)
(* stuttering steps.                                                       *)
EntriesOf(types) == {e \in types \X Refs : HasEntry(e[1], e[2])}

A == INSTANCE Account WITH
       funds <- balance,
       credited <- EntriesOf(CreditTypes),
       charged <- {r \in Refs : HasEntry("PURCHASE", r)}

ImplementsAccount == A!Spec
=============================================================================
