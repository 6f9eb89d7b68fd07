---------------------------- MODULE BrandRouting ----------------------------
(***************************************************************************)
(* Which QRIS account an order's money goes to.  The owner console         *)
(* (owner.service.ts) keeps three tables in step: brands, their QRIS       *)
(* accounts and their outlets; payments.service.ts reads them to build     *)
(* the QR code of an order.                                                *)
(*                                                                         *)
(* An operation of the console is several statements of which few share a  *)
(* transaction, so each request is a worker that may stop between any two  *)
(* of them, and requests may overlap.  All brands belong to one owner: an  *)
(* operation never takes a brand of another one (resolveBrandForWrite).    *)
(*                                                                         *)
(* Nothing orders the requests of two tabs, and no statement looks again   *)
(* at what an earlier one of its request has read.  The properties say     *)
(* what holds all the same: overtaken is the set of the requests under     *)
(* which another one has written, and only they can break a rule.          *)
(***************************************************************************)
EXTENDS AsyncRequests, Naturals, FiniteSetsExt

CONSTANTS
  Brands, Outlets,
  Consoles,   \* requests that may overlap
  MaxQris,    \* bound: QRIS accounts ever created
  Patches,    \* the changes of flags a save may ask for
  MayStop     \* requests may end half-way

Ids == 1 .. MaxQris
Flags == {"text", "active", "topup"}

(* Rows of qris_accounts and of servers.                                   *)
QrisRow == [brand: Brands, text: BOOLEAN, bri: BOOLEAN, active: BOOLEAN, topup: BOOLEAN]
OutletRow == [brand: Brands \cup {None}, qris: Ids \cup {None}]

ASSUME RoutingAssumption ==
  /\ MaxQris \in Nat /\ MayStop \in BOOLEAN
  /\ Patches \subseteq UNION {[S -> BOOLEAN] : S \in SUBSET Flags}
  /\ None \notin Brands \cup Outlets \cup Nat \cup QrisRow \cup OutletRow

VARIABLES
  qris,     \* the qris_accounts by id; None is no row
  nextId,   \* the next autoincrement id
  outlet,   \* the servers by name: brand and QRIS account; None is no row
  overtaken \* history: the running requests under which another one wrote

routingVars == <<qris, nextId, outlet, job, overtaken>>

Rows == {i \in Ids : qris[i] # None}
Open == {o \in Outlets : outlet[o] # None}

(* Also the foreign key of servers.qris_account_id, and the autoincrement. *)
RoutingTypeOK ==
  /\ qris \in [Ids -> QrisRow \cup {None}]
  /\ outlet \in [Outlets -> OutletRow \cup {None}]
  /\ \A o \in Open : outlet[o].qris \in Rows \cup {None}
  /\ nextId \in 1 .. MaxQris + 1 /\ \A i \in Rows : i < nextId

-----------------------------------------------------------------------------
QrisOf(b) == {i \in Rows : qris[i].brand = b}
OutletsOf(b) == {o \in Open : outlet[o].brand = b}

(* An account with a static payload, or switched to BRI, and active.       *)
Eligible(i) == i \in Rows /\ qris[i].active /\ (qris[i].text \/ qris[i].bri)

(* brandReceiverQrisId.                                                    *)
Receiver(b) == LET c == {i \in QrisOf(b) : Eligible(i)} IN IF c = {} THEN None ELSE Min(c)

(* UPDATE servers SET qris_account_id = i; a row that is gone violates the *)
(* foreign key, and the statement writes nothing.                          *)
RouteTo(outlets, i) ==
  outlet' = [o \in Outlets |-> IF o \in outlets /\ i \in Rows \cup {None}
                               THEN [outlet[o] EXCEPT !.qris = i] ELSE outlet[o]]

Served(i) == {o \in Open : outlet[o].qris = i}

AccountOf(o) == IF o \in Open THEN outlet[o].qris ELSE None

RoutingInit ==
  /\ qris = [i \in Ids |-> None] /\ nextId = 1
  /\ outlet = [o \in Outlets |-> None]
  /\ job = [w \in Consoles |-> Idle] /\ overtaken = {}

-----------------------------------------------------------------------------
(* createQris: count, insert, route.                                       *)
CreateQris(w, b, text) ==
  /\ job[w] = Idle
  /\ QrisOf(b) = {}
  /\ Do(w, [at |-> "insert", brand |-> b, text |-> text])
  /\ UNCHANGED <<qris, nextId, outlet>>

(* Slip: the account is routed as if it were configured.                   *)
InsertQrisRouted(w) ==
  /\ job[w].at = "insert" /\ nextId <= MaxQris
  /\ qris' = [qris EXCEPT ![nextId] = [brand |-> job[w].brand, text |-> job[w].text,
                                       bri |-> FALSE, active |-> TRUE, topup |-> FALSE]]
  /\ nextId' = nextId + 1
  /\ Do(w, [at |-> "route", id |-> nextId, brand |-> job[w].brand, ok |-> TRUE])
  /\ UNCHANGED outlet

InsertQris(w) ==
  /\ job[w].at = "insert" /\ nextId <= MaxQris
  /\ qris' = [qris EXCEPT ![nextId] = [brand |-> job[w].brand, text |-> job[w].text,
                                       bri |-> FALSE, active |-> TRUE, topup |-> FALSE]]
  /\ nextId' = nextId + 1
  /\ Do(w, [at |-> "route", id |-> nextId, brand |-> job[w].brand, ok |-> job[w].text])
  /\ UNCHANGED outlet

(* applyBrandRouting: all outlets of the brand, unless not eligible.       *)
Route(w) ==
  /\ job[w].at = "route"
  /\ IF job[w].ok THEN RouteTo(OutletsOf(job[w].brand), job[w].id) ELSE UNCHANGED outlet
  /\ Done(w)
  /\ UNCHANGED <<qris, nextId>>

(* updateQrisAccount: the row is read; a move to another brand asks        *)
(* whether that brand is free, and frees the outlets served so far.        *)
UpdateQris(w, i, b, patch) ==
  /\ job[w] = Idle
  /\ i \in Rows
  /\ LET moved == qris[i].brand # b
     IN Do(w, [at |-> IF moved THEN "taken" ELSE "save",
               id |-> i, brand |-> b, moved |-> moved, patch |-> patch])
  /\ UNCHANGED <<qris, nextId, outlet>>

(* Slips: the target brand is not looked at, or the outlets stay.          *)
CountTakenBlind(w) ==
  /\ job[w].at = "taken"
  /\ Goto(w, "free")
  /\ UNCHANGED <<qris, nextId, outlet>>

CountTakenKeeps(w) ==
  /\ job[w].at = "taken"
  /\ IF QrisOf(job[w].brand) \subseteq {job[w].id} THEN Goto(w, "save") ELSE Done(w)
  /\ UNCHANGED <<qris, nextId, outlet>>

CountTaken(w) ==
  /\ job[w].at = "taken"
  /\ IF QrisOf(job[w].brand) \subseteq {job[w].id} THEN Goto(w, "free") ELSE Done(w)
  /\ UNCHANGED <<qris, nextId, outlet>>

FreeOutlets(w) ==
  /\ job[w].at = "free"
  /\ RouteTo(Served(job[w].id), None)
  /\ Goto(w, IF "patch" \in DOMAIN job[w] THEN "save" ELSE "delete")
  /\ UNCHANGED <<qris, nextId>>

Saved(j) ==
  [field \in DOMAIN qris[j.id] |->
     IF field \in DOMAIN j.patch THEN j.patch[field]
     ELSE IF field = "brand" /\ j.moved THEN j.brand ELSE qris[j.id][field]]

(* The flags that were sent are written, the brand if it is a new one; a   *)
(* new top-up default ends the others of the brand in one transaction.     *)
SaveQris(w) ==
  /\ job[w].at = "save"
  /\ LET j == job[w]
         default == "topup" \in DOMAIN j.patch /\ j.patch.topup
     IN IF j.id \in Rows
          THEN /\ qris' = [i \in Ids |->
                            IF i = j.id THEN Saved(j)
                            ELSE IF default /\ i \in QrisOf(j.brand)
                                 THEN [qris[i] EXCEPT !.topup = FALSE] ELSE qris[i]]
               /\ Goto(w, "fresh")
          ELSE Done(w) /\ UNCHANGED qris
  /\ UNCHANGED <<nextId, outlet>>

(* The row is read again to see whether it may serve its brand.            *)
ReadFresh(w) ==
  /\ job[w].at = "fresh"
  /\ Do(w, [at |-> "route", id |-> job[w].id, brand |-> job[w].brand, ok |-> Eligible(job[w].id)])
  /\ UNCHANGED <<qris, nextId, outlet>>

(* setQrisBri and unsetQrisBri touch the row only.                         *)
SetBri(w, i, on) ==
  /\ job[w] = Idle
  /\ i \in Rows
  /\ qris' = [qris EXCEPT ![i].bri = on]
  /\ UNCHANGED <<nextId, outlet, job>>

(* deleteQris: free the outlets, delete the row; the foreign key is SET    *)
(* NULL for outlets that came back meanwhile.                              *)
DeleteQris(w, i) ==
  /\ job[w] = Idle
  /\ i \in Rows
  /\ Do(w, [at |-> "free", id |-> i])
  /\ UNCHANGED <<qris, nextId, outlet>>

DeleteRow(w) ==
  /\ job[w].at = "delete"
  /\ qris' = [qris EXCEPT ![job[w].id] = None]
  /\ RouteTo(Served(job[w].id), None)
  /\ Done(w)
  /\ UNCHANGED nextId

(* assignQrisOutlets: the account's brand, the brand's outlets, then the   *)
(* new list in one transaction.                                            *)
AssignOutlets(w, i, outlets) ==
  /\ job[w] = Idle
  /\ i \in Rows
  /\ Do(w, [at |-> "owned", id |-> i, brand |-> qris[i].brand, outlets |-> outlets])
  /\ UNCHANGED <<qris, nextId, outlet>>

CheckOwned(w) ==
  /\ job[w].at = "owned"
  /\ IF job[w].outlets \subseteq OutletsOf(job[w].brand) THEN Goto(w, "assign") ELSE Done(w)
  /\ UNCHANGED <<qris, nextId, outlet>>

Assign(w) ==
  /\ job[w].at = "assign"
  /\ LET i == job[w].id
     IN outlet' = [o \in Outlets |->
                    IF i \notin Rows THEN outlet[o]
                    ELSE IF o \in job[w].outlets THEN [outlet[o] EXCEPT !.qris = i]
                    ELSE IF o \in Served(i) THEN [outlet[o] EXCEPT !.qris = None] ELSE outlet[o]]
  /\ Done(w)
  /\ UNCHANGED <<qris, nextId>>

-----------------------------------------------------------------------------
(* createOutlet, with or without a brand, and updateOutlet with another    *)
(* brand: the brand's receiver is read, then the row is written with it.   *)
CreateOutlet(w, o, b) ==
  /\ job[w] = Idle
  /\ o \notin Open
  /\ Do(w, [at |-> "receiver", outlet |-> o, brand |-> b, new |-> TRUE])
  /\ UNCHANGED <<qris, nextId, outlet>>

MoveOutlet(w, o, b) ==
  /\ job[w] = Idle
  /\ o \in Open /\ outlet[o].brand # b
  /\ Do(w, [at |-> "receiver", outlet |-> o, brand |-> b, new |-> FALSE])
  /\ UNCHANGED <<qris, nextId, outlet>>

(* Slip: an outlet that moves keeps its account.                           *)
ReadReceiverKeeps(w) ==
  /\ job[w].at = "receiver"
  /\ LET j == job[w]
     IN Do(w, [at |-> "write", outlet |-> j.outlet, brand |-> j.brand, new |-> j.new,
               qris |-> IF j.new THEN Receiver(j.brand) ELSE AccountOf(j.outlet)])
  /\ UNCHANGED <<qris, nextId, outlet>>

ReadReceiver(w) ==
  /\ job[w].at = "receiver"
  /\ LET j == job[w]
     IN Do(w, [at |-> "write", outlet |-> j.outlet, brand |-> j.brand, new |-> j.new,
               qris |-> Receiver(j.brand)])
  /\ UNCHANGED <<qris, nextId, outlet>>

(* A code that exists by now, or an account that does not, throws.         *)
WriteOutlet(w) ==
  /\ job[w].at = "write"
  /\ LET j == job[w]
     IN outlet' = IF (j.new /\ j.outlet \in Open) \/ j.qris \notin Rows \cup {None} THEN outlet
                  ELSE [outlet EXCEPT ![j.outlet] = [brand |-> j.brand, qris |-> j.qris]]
  /\ Done(w)
  /\ UNCHANGED <<qris, nextId>>

Stop(w) ==
  /\ MayStop
  /\ job[w] # Idle
  /\ Done(w)
  /\ UNCHANGED <<qris, nextId, outlet>>

Request(w) ==
  \/ \E b \in Brands, text \in BOOLEAN : CreateQris(w, b, text)
  \/ \E i \in Ids, b \in Brands, patch \in Patches : UpdateQris(w, i, b, patch)
  \/ \E i \in Ids : DeleteQris(w, i)
  \/ \E i \in Ids, outlets \in SUBSET Outlets : AssignOutlets(w, i, outlets)
  \/ \E o \in Outlets, b \in Brands \cup {None} : CreateOutlet(w, o, b)
  \/ \E o \in Outlets, b \in Brands : MoveOutlet(w, o, b)
  \/ \E i \in Ids, on \in BOOLEAN : SetBri(w, i, on)

Statement(w) ==
  \/ InsertQris(w) \/ Route(w) \/ CountTaken(w) \/ FreeOutlets(w) \/ SaveQris(w)
  \/ ReadFresh(w) \/ DeleteRow(w) \/ CheckOwned(w) \/ Assign(w)
  \/ ReadReceiver(w) \/ WriteOutlet(w)

Overtakes(w) ==
  overtaken' = {v \in Consoles : /\ job'[v] # Idle
                                 /\ \/ v \in overtaken
                                    \/ v # w /\ <<qris, outlet>>' # <<qris, outlet>>}

RoutingNext == \E w \in Consoles : (Request(w) \/ Statement(w) \/ Stop(w)) /\ Overtakes(w)

RoutingSpec == RoutingInit /\ [][RoutingNext]_routingVars

-----------------------------------------------------------------------------
(* resolveOrderQris: the account of the outlet, else a top-up default of   *)
(* the customer's brand, else a top-up default of the owner, in each case  *)
(* if it can be used.  findFirst without an order may return any match.    *)
Defaults(accounts) == {i \in accounts : qris[i].topup /\ qris[i].active}

Pick(accounts, otherwise) ==
  LET found == Defaults(accounts)
  IN {i \in found : Eligible(i)}
       \cup IF found # {} /\ \A i \in found : Eligible(i) THEN {} ELSE otherwise

TopUpAccounts(b) == Pick(QrisOf(b), Pick(Rows, {None}))

OrderAccounts(o, b) ==
  IF Eligible(AccountOf(o)) THEN {AccountOf(o)} ELSE TopUpAccounts(b)

-----------------------------------------------------------------------------
(* A statement of a request under which no other one has written.         *)
Undisturbed(w) == w \notin overtaken /\ job'[w] # job[w]

(* "1 brand = 1 QRIS: a brand may own at most one payment method": a brand *)
(* that has an account gets another one only from a request that was       *)
(* overtaken between its count and its write.                              *)
OneQrisPerBrand ==
  [][\A w \in Consoles : Undisturbed(w) =>
       \A b \in Brands : QrisOf(b)' \subseteq QrisOf(b) \/ QrisOf(b) = {}]_routingVars

(* "A payment method routes ONLY to outlets of its OWN brand": however     *)
(* accounts and outlets are moved and wherever a request stops, the money  *)
(* of a sale begins to go to another brand through the outlet's own        *)
(* account only by a request that was overtaken.                           *)
InBrand(o) == AccountOf(o) # None => qris[AccountOf(o)].brand = outlet[o].brand

RoutedInBrand ==
  [][\A w \in Consoles : Undisturbed(w) =>
       \A o \in Outlets : InBrand(o) => InBrand(o)']_routingVars

(* "a half-set-up or deactivated QRIS can't silently capture outlets":     *)
(* unless the owner assigns it by hand, a request that was not overtaken   *)
(* brings an outlet only to an account that can take payments at that      *)
(* moment.                                                                 *)
CapturedByEligible ==
  [][\A w \in Consoles : Undisturbed(w) /\ job[w].at # "assign" =>
       \A o \in Outlets : AccountOf(o)' \in {AccountOf(o), None} \/ Eligible(AccountOf(o))']_routingVars

(* "Voucher purchase (has an outlet) -> that outlet's assigned QRIS";      *)
(* "route to the customer's/agent's BRAND default top-up merchant": while  *)
(* its brand has one account, which serves no other and is a default that  *)
(* can be used, a customer pays that account whatever becomes of the       *)
(* outlet's own; only a request that was overtaken can end this.           *)
InOrder(b) ==
  /\ \A i, k \in QrisOf(b) : i = k
  /\ \A o \in OutletsOf(b) : InBrand(o)

PaidInBrand(b) ==
  (\E i \in Defaults(QrisOf(b)) : Eligible(i)) =>
     \A o \in OutletsOf(b) \cup {None} : \A i \in OrderAccounts(o, b) : i # None /\ qris[i].brand = b

PaymentStaysInBrand ==
  [][\A w \in Consoles : Undisturbed(w) =>
       \A b \in Brands : InOrder(b) => InOrder(b)' /\ PaidInBrand(b)']_routingVars

(* What the comments say without exception.  Two createQris whose counts   *)
(* come before either insert give a brand two accounts, and an outlet that *)
(* is written with the receiver of a brand the account has left is served  *)
(* by another brand's (MCBrandRoutingRace.cfg, MCBrandRoutingStale.cfg).   *)
OneBrandOneQris == \A b \in Brands : \A i, k \in QrisOf(b) : i = k

OnlyOwnBrand == \A o \in Outlets : InBrand(o)
=============================================================================
