-------------------------------- MODULE Shop --------------------------------
(***************************************************************************)
(* What is sold to whom.  Owners keep the packages of their outlets and    *)
(* their customers; an agent sets his own price on top of his cost; orders *)
(* refer to packages and customers that may be deleted; a voucher starts   *)
(* to run at the first login its router reports.                           *)
(*                                                                         *)
(* Each request is a worker that goes from one await to the next; requests *)
(* overlap.  How an order is paid and its voucher made is the business of  *)
(* PaymentMatching, Fulfilment and PurchaseSaga: one step here.            *)
(***************************************************************************)
EXTENDS AsyncRequests, Naturals, FiniteSets

CONSTANTS
  Admins, Packages, Customers,
  OwnerOf,    \* the owner of the outlet of each package
  Prices, Discounts,
  MaxOrders,  \* bound: orders ever created
  Workers,    \* requests that may overlap
  Logins,     \* reports of logins by the routers that may overlap
  Gone        \* a deleted row; None is no row yet

(* Rows of packages, orders and vouchers.                                  *)
PackageRows == [price: Prices, agentPrice: Prices \cup {None}, active: BOOLEAN]
OrderRows == [package: Packages \cup {None}, outletOf: Packages, customer: Customers \cup {None}]
VoucherRows == [customer: Customers \cup {None}, starts: Nat, racing: SUBSET Logins]

ASSUME ShopAssumption ==
  /\ OwnerOf \in [Packages -> Admins]
  /\ Prices \subseteq Nat \ {0} /\ Discounts \subseteq 0 .. 100 /\ MaxOrders \in Nat
  /\ {None, Gone} \cap PackageRows = {} /\ None \notin Packages \cup Customers \cup OrderRows
  /\ None \notin VoucherRows

VARIABLES
  pkg,       \* packages: price, agentPrice or None, isActive
  discount,  \* discountPercent of the agent
  sell,      \* agent_package_prices: the agent's own price or None
  customer,  \* customers: providerAdminId or "nobody"
  order,     \* orders by id: package and customer, each None once deleted
  made,      \* orders created so far
  voucher    \* vouchers by order: customer, how often the validity began,
             \* and (history) the logins under way when it began

vars == <<pkg, discount, sell, customer, order, made, voucher, job>>

Ids == 1 .. MaxOrders
Sold == {p \in Packages : pkg[p] \notin {None, Gone}}
Known == {c \in Customers : customer[c] \notin {None, Gone}}

Init ==
  /\ pkg = [p \in Packages |-> None] /\ discount = 0
  /\ sell = [p \in Packages |-> None]
  /\ customer = [c \in Customers |-> None]
  /\ order = [i \in Ids |-> None] /\ made = 0
  /\ voucher = [i \in Ids |-> None]
  /\ job = [w \in Workers \cup Logins |-> Idle]

-----------------------------------------------------------------------------
(* agentPriceFor; Math.round of a discounted price.                        *)
AgentPriceFor(row, percent) ==
  IF row.agentPrice # None THEN row.agentPrice
  ELSE (row.price * (100 - percent) + 50) \div 100

Cost(p) == AgentPriceFor(pkg[p], discount)

OrdersOf(p) == {i \in Ids : order[i] # None /\ order[i].package = p}
SoldBy(a) == {i \in Ids : order[i] # None /\ OwnerOf[order[i].outletOf] = a}

(* ownedCustomerOrThrow.                                                   *)
MayOpen(a, c) ==
  /\ c \in Known
  /\ customer[c] = a \/ \E i \in SoldBy(a) : order[i].customer = c

-----------------------------------------------------------------------------
CreatePackage(p, price, agentPrice) ==
  /\ pkg[p] = None
  /\ agentPrice # None => agentPrice <= price
  /\ pkg' = [pkg EXCEPT ![p] = [price |-> price, agentPrice |-> agentPrice, active |-> TRUE]]
  /\ UNCHANGED <<discount, sell, customer, order, made, voucher, job>>

(* updatePackage writes what was sent, and compares the two prices only if *)
(* both were; the platform's own console writes without comparing.         *)
UpdatePackage(p, patch) ==
  /\ p \in Sold
  /\ ({"price", "agentPrice"} \subseteq DOMAIN patch /\ patch.agentPrice # None)
       => patch.agentPrice <= patch.price
  /\ LET kept(field) == IF field \in DOMAIN patch THEN patch[field] ELSE pkg[p][field]
     IN pkg' = [pkg EXCEPT ![p] = [price |-> kept("price"), agentPrice |-> kept("agentPrice"),
                                   active |-> kept("active")]]
  /\ UNCHANGED <<discount, sell, customer, order, made, voucher, job>>

(* deletePackage refuses a package with orders, then deletes; orders made  *)
(* meanwhile lose it (SetNull), the agent's price goes with it (Cascade).  *)
(* Slip: the orders are not counted.                                       *)
CountNothing(w, p) ==
  /\ job[w] = Idle
  /\ p \in Sold
  /\ Do(w, [at |-> "delete", package |-> p, made |-> made])
  /\ UNCHANGED <<pkg, discount, sell, customer, order, made, voucher>>

CountOrders(w, p) ==
  /\ job[w] = Idle
  /\ p \in Sold /\ OrdersOf(p) = {}
  /\ Do(w, [at |-> "delete", package |-> p, made |-> made])
  /\ UNCHANGED <<pkg, discount, sell, customer, order, made, voucher>>

DeletePackage(w) ==
  /\ job[w].at = "delete"
  /\ LET p == job[w].package
     IN /\ pkg' = [pkg EXCEPT ![p] = Gone]
        /\ sell' = [sell EXCEPT ![p] = None]
        /\ order' = [i \in Ids |-> IF i \in OrdersOf(p) THEN [order[i] EXCEPT !.package = None]
                                   ELSE order[i]]
  /\ Done(w)
  /\ UNCHANGED <<discount, customer, made, voucher>>

SetDiscount(percent) ==
  /\ discount' = percent
  /\ UNCHANGED <<pkg, sell, customer, order, made, voucher, job>>

-----------------------------------------------------------------------------
(* setAgentSellPrice: the package, then the discount, then the upsert.     *)
ReadPackage(w, p, price) ==
  /\ job[w] = Idle
  /\ p \in Sold
  /\ Do(w, [at |-> "cost", package |-> p, price |-> price,
            row |-> [price |-> pkg[p].price, agentPrice |-> pkg[p].agentPrice]])
  /\ UNCHANGED <<pkg, discount, sell, customer, order, made, voucher>>

(* Slip: the price is compared with nothing.                               *)
ReadDiscountOnly(w) ==
  /\ job[w].at = "cost"
  /\ LET cost == AgentPriceFor(job[w].row, discount)
     IN Do(w, [at |-> "upsert", package |-> job[w].package, price |-> job[w].price, cost |-> cost])
  /\ UNCHANGED <<pkg, discount, sell, customer, order, made, voucher>>

ReadDiscount(w) ==
  /\ job[w].at = "cost"
  /\ LET cost == AgentPriceFor(job[w].row, discount)
     IN Do(w, IF job[w].price < cost THEN Idle
              ELSE [at |-> "upsert", package |-> job[w].package, price |-> job[w].price,
                    cost |-> cost])
  /\ UNCHANGED <<pkg, discount, sell, customer, order, made, voucher>>

Upsert(w) ==
  /\ job[w].at = "upsert"
  /\ sell' = IF job[w].package \in Sold
               THEN [sell EXCEPT ![job[w].package] = job[w].price] ELSE sell
  /\ Done(w)
  /\ UNCHANGED <<pkg, discount, customer, order, made, voucher>>

-----------------------------------------------------------------------------
(* createOrder, customerQrisPurchase and the wallet purchases: the active  *)
(* package, then the row, unless the package or customer is gone by then.  *)
Choose(w, p, c) ==
  /\ job[w] = Idle
  /\ p \in Sold /\ pkg[p].active
  /\ c # None => c \in Known
  /\ made + Cardinality({v \in Workers : job[v].at = "order"}) < MaxOrders
  /\ Do(w, [at |-> "order", package |-> p, customer |-> c])
  /\ UNCHANGED <<pkg, discount, sell, customer, order, made, voucher>>

CreateOrder(w) ==
  /\ job[w].at = "order"
  /\ LET j == job[w]
         refused == j.package \notin Sold \/ (j.customer # None /\ j.customer \notin Known)
     IN IF refused THEN UNCHANGED <<order, made>>
        ELSE /\ made' = made + 1
             /\ order' = [order EXCEPT ![made + 1] =
                   [package |-> j.package, outletOf |-> j.package, customer |-> j.customer]]
  /\ Done(w)
  /\ UNCHANGED <<pkg, discount, sell, customer, voucher>>

(* The voucher goes to the inbox of the order's customer.                  *)
Fulfil(i) ==
  /\ order[i] # None /\ voucher[i] = None
  /\ voucher' = [voucher EXCEPT ![i] = [customer |-> order[i].customer, starts |-> 0, racing |-> {}]]
  /\ UNCHANGED <<pkg, discount, sell, customer, order, made, job>>

(* activateVoucherOnLogin: look whether it runs, then start it by its id;  *)
(* reports overlap.  Slip: it is not looked whether it runs.               *)
Racing(i) == {w \in Logins : job[w].at = "activate" /\ job[w].voucher = i}

LoginAlways(w, i) ==
  /\ job[w] = Idle
  /\ voucher[i] # None
  /\ Do(w, [at |-> "activate", voucher |-> i])
  /\ UNCHANGED <<pkg, discount, sell, customer, order, made, voucher>>

Login(w, i) ==
  /\ job[w] = Idle
  /\ voucher[i] # None /\ voucher[i].starts = 0
  /\ Do(w, [at |-> "activate", voucher |-> i])
  /\ UNCHANGED <<pkg, discount, sell, customer, order, made, voucher>>

Activate(w) ==
  /\ job[w].at = "activate"
  /\ LET i == job[w].voucher
         others == (IF voucher[i].starts = 0 THEN Racing(i) ELSE voucher[i].racing) \ {w}
     IN voucher' = IF voucher[i] = None THEN voucher
                   ELSE [voucher EXCEPT ![i].starts = @ + 1, ![i].racing = others]
  /\ Done(w)
  /\ UNCHANGED <<pkg, discount, sell, customer, order, made>>

-----------------------------------------------------------------------------
(* createCustomer of an owner, and the customer's own registration; he may *)
(* choose another provider later.                                          *)
CreateCustomer(c, a) ==
  /\ customer[c] = None
  /\ customer' = [customer EXCEPT ![c] = a]
  /\ UNCHANGED <<pkg, discount, sell, order, made, voucher, job>>

SetProvider(c, a) ==
  /\ c \in Known
  /\ customer' = [customer EXCEPT ![c] = a]
  /\ UNCHANGED <<pkg, discount, sell, order, made, voucher, job>>

(* deleteCustomer: orders and vouchers stay, without their customer.       *)
AskDelete(w, a, c) ==
  /\ job[w] = Idle
  /\ MayOpen(a, c)
  /\ Do(w, [at |-> "forget", customer |-> c])
  /\ UNCHANGED <<pkg, discount, sell, customer, order, made, voucher>>

Without(rows, c) ==
  [i \in Ids |-> IF rows[i] # None /\ rows[i].customer = c
                 THEN [rows[i] EXCEPT !.customer = None] ELSE rows[i]]

DeleteCustomer(w) ==
  /\ job[w].at = "forget"
  /\ LET c == job[w].customer
     IN /\ customer' = [customer EXCEPT ![c] = Gone]
        /\ order' = Without(order, c)
        /\ voucher' = Without(voucher, c)
  /\ Done(w)
  /\ UNCHANGED <<pkg, discount, sell, made>>

(* deleteTransactions: orders of the owner's outlets, with their vouchers. *)
DeleteTransactions(a, ids) ==
  /\ ids \cap SoldBy(a) # {}
  /\ LET kept(rows) == [i \in Ids |-> IF i \in ids \cap SoldBy(a) THEN None ELSE rows[i]]
     IN order' = kept(order) /\ voucher' = kept(voucher)
  /\ UNCHANGED <<pkg, discount, sell, customer, made, job>>

(* The fields a form may send; the check concerns the prices only.         *)
Sendable ==
  LET costs == Prices \cup {None}
  IN [price: Prices] \cup [agentPrice: costs] \cup [price: Prices, agentPrice: costs]
       \cup [active: BOOLEAN]

Owners ==
  \/ \E p \in Packages :
       \/ \E price \in Prices, cost \in Prices \cup {None} : CreatePackage(p, price, cost)
       \/ \E patch \in Sendable : UpdatePackage(p, patch)
  \/ \E percent \in Discounts : SetDiscount(percent)
  \/ \E a \in Admins, c \in Customers : CreateCustomer(c, a)
  \/ \E a \in Admins, ids \in SUBSET Ids : DeleteTransactions(a, ids)

Buyers ==
  \E c \in Customers : CreateCustomer(c, "nobody") \/ \E a \in Admins : SetProvider(c, a)

(* The requests of more than one statement.                                *)
Deletions(w) ==
  \/ \E p \in Packages : CountOrders(w, p)
  \/ DeletePackage(w)
  \/ \E a \in Admins, c \in Customers : AskDelete(w, a, c)
  \/ DeleteCustomer(w)

SellPrices(w) ==
  \/ \E p \in Packages, price \in Prices : ReadPackage(w, p, price)
  \/ ReadDiscount(w) \/ Upsert(w)

Purchases(w) ==
  \/ \E p \in Packages, c \in Customers \cup {None} : Choose(w, p, c)
  \/ CreateOrder(w)

Next ==
  \/ Owners \/ Buyers
  \/ \E w \in Workers : Deletions(w) \/ SellPrices(w) \/ Purchases(w)
  \/ \E i \in Ids : Fulfil(i)
  \/ \E w \in Logins : Activate(w) \/ \E i \in Ids : Login(w, i)

Spec == Init /\ [][Next]_vars

-----------------------------------------------------------------------------
(* "must be >= their cost": the agent sells below his cost only after the  *)
(* owner changed the cost, at the latest while the agent's request ran.    *)
BelowCost(p) == p \in Sold /\ sell[p] # None /\ sell[p] < Cost(p)

SellCoversCost ==
  [][\A p \in Packages : BelowCost(p)' /\ ~BelowCost(p) =>
        \/ Cost(p)' # Cost(p)
        \/ \E w \in Workers : job[w].at = "upsert" /\ job[w].package = p /\ job[w].cost # Cost(p)]_vars

(* "deleting would orphan transaction history": the deletion of a package  *)
(* takes it from no order that was there when it was asked for.            *)
HistoryKeepsPackage ==
  [][\A i \in Ids :
        (order[i] # None /\ order[i].package # None /\ order'[i] # None /\ order'[i].package = None)
           => \E w \in Workers : job[w].at = "delete" /\ i > job[w].made]_vars

(* "validity never restarts" holds of logins that do not overlap: a        *)
(* voucher that runs is started again only by a login that had looked      *)
(* before the first start was written and writes after it.                 *)
RestartsAreRaces ==
  [][\A i \in Ids :
        (voucher[i] # None /\ voucher[i].starts # 0 /\ voucher'[i] # None
           /\ voucher'[i].starts # voucher[i].starts)
           => \E w \in voucher[i].racing : job[w].at = "activate" /\ job[w].voucher = i]_vars

(* What the comment says without that exception; MCShopRestart refutes it. *)
ValidityNeverRestarts == \A i \in Ids : voucher[i] # None => voucher[i].starts <= 1
=============================================================================
