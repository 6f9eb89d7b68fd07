----------------------------- MODULE ShopProofs -----------------------------
(***************************************************************************)
(* Theorems about Shop, for every set of packages, customers, owners,      *)
(* prices and overlapping requests, and any number of orders.              *)
(***************************************************************************)
EXTENDS Shop, TLAPS

Requests == Workers \cup Logins

TypeOK ==
  /\ pkg \in [Packages -> PackageRows \cup {None, Gone}]
  /\ sell \in [Packages -> Prices \cup {None}]
  /\ order \in [Ids -> OrderRows \cup {None}] /\ made \in Nat
  /\ voucher \in [Ids -> VoucherRows \cup {None}]
  /\ job = [w \in Requests |-> job[w]]

(* A package without a row has no price of the agent (Cascade).            *)
PriceHasPackage == \A p \in Packages : pkg[p] = None => sell[p] = None

(* The price about to be written covers the cost it was compared with.     *)
PriceWasChecked ==
  \A w \in Requests :
    /\ job[w].at \in {"cost", "upsert"} => job[w].price \in Prices
    /\ job[w].at = "upsert" => ~(job[w].price < job[w].cost)

(* All orders of a package about to be deleted came after the count.       *)
OrdersCameLater ==
  \A w \in Requests : job[w].at = "delete" =>
    /\ job[w].package \in Packages /\ job[w].made \in Nat /\ job[w].made <= made
    /\ \A i \in Ids :
         order[i] # None /\ order[i].package = job[w].package => i > job[w].made

(* A login that is to start a voucher which runs was under way when the    *)
(* voucher was started first.                                              *)
LoginsRace ==
  \A w \in Requests : job[w].at = "activate" =>
    /\ w \in Logins /\ job[w].voucher \in Ids
    /\ LET row == voucher[job[w].voucher]
       IN row # None /\ row.starts # 0 => w \in row.racing

IInv == TypeOK /\ PriceHasPackage /\ PriceWasChecked /\ OrdersCameLater /\ LoginsRace

-----------------------------------------------------------------------------
LEMMA InitIsGood == Init => IInv
<1> SUFFICES ASSUME Init PROVE IInv
  OBVIOUS
<1>1. TypeOK /\ PriceHasPackage
  BY DEF Init, TypeOK, PriceHasPackage, Requests
<1>2. \A w \in Requests : job[w].at = "idle"
  BY DEF Init, Requests, Idle
<1> QED BY <1>1, <1>2 DEF IInv, PriceWasChecked, OrdersCameLater, LoginsRace

(* A step of one request leaves the others alone.                          *)
LEMMA OneJob ==
  ASSUME job = [w \in Requests |-> job[w]], NEW w \in Requests, NEW j, Do(w, j)
  PROVE  /\ job' = [v \in Requests |-> job'[v]]
         /\ job'[w] = j /\ \A v \in Requests \ {w} : job'[v] = job[v]
BY DEF Do

(* What is known of the requests stays so when one of them becomes idle,   *)
(* or takes a step on which nothing rests.                                 *)
LEMMA JobIsGood ==
  ASSUME IInv, NEW w \in Requests, NEW j, Do(w, j), j.at \notin {"upsert", "delete", "activate"},
         j.at = "cost" => j.price \in Prices
  PROVE  /\ job' = [v \in Requests |-> job'[v]]
         /\ PriceWasChecked'
         /\ \A v \in Requests : job'[v].at \in {"delete", "activate"} => job'[v] = job[v]
BY OneJob DEF IInv, TypeOK, PriceWasChecked, Requests

(* A request goes on and no table changes.                                 *)
LEMMA StepIsGood ==
  ASSUME IInv, NEW w \in Requests, NEW j, Do(w, j), j.at \notin {"upsert", "delete", "activate"},
         j.at = "cost" => j.price \in Prices,
         UNCHANGED <<pkg, sell, order, made, voucher>>
  PROVE  IInv'
<1>1. /\ job' = [v \in Requests |-> job'[v]] /\ PriceWasChecked'
      /\ \A v \in Requests : job'[v].at \in {"delete", "activate"} => job'[v] = job[v]
  BY JobIsGood
<1>2. TypeOK' /\ PriceHasPackage'
  BY <1>1 DEF IInv, TypeOK, PriceHasPackage
<1>3. OrdersCameLater'
  BY <1>1 DEF IInv, OrdersCameLater, OrdersOf
<1>4. LoginsRace'
  BY <1>1 DEF IInv, LoginsRace
<1> QED BY <1>1, <1>2, <1>3, <1>4 DEF IInv

LEMMA IdleIsNothing == Idle.at \notin {"cost", "upsert", "delete", "activate"}
BY DEF Idle

(* Writes to the packages, and to the agent's prices.                      *)
LEMMA PackagesIsGood ==
  ASSUME IInv, UNCHANGED <<order, made, voucher, job>>,
         pkg' \in [Packages -> PackageRows \cup {None, Gone}],
         sell' \in [Packages -> Prices \cup {None}],
         PriceHasPackage'
  PROVE  IInv'
<1>1. TypeOK'
  BY DEF IInv, TypeOK
<1>2. PriceWasChecked' /\ OrdersCameLater' /\ LoginsRace'
  BY DEF IInv, PriceWasChecked, OrdersCameLater, OrdersOf, LoginsRace
<1> QED BY <1>1, <1>2 DEF IInv

LEMMA CreatePackageIsGood ==
  ASSUME IInv, NEW p \in Packages, NEW price \in Prices, NEW cost \in Prices \cup {None},
         CreatePackage(p, price, cost)
  PROVE  IInv'
<1>1. [price |-> price, agentPrice |-> cost, active |-> TRUE] \in PackageRows
  BY DEF PackageRows
<1>2. /\ UNCHANGED <<order, made, voucher, job, sell>>
      /\ pkg' = [pkg EXCEPT ![p] = [price |-> price, agentPrice |-> cost, active |-> TRUE]]
  BY DEF CreatePackage
<1>3. pkg' \in [Packages -> PackageRows \cup {None, Gone}] /\ PriceHasPackage'
  BY <1>1, <1>2, ShopAssumption DEF IInv, TypeOK, PriceHasPackage
<1> QED BY <1>2, <1>3, PackagesIsGood DEF IInv, TypeOK

LEMMA UpdatePackageIsGood ==
  ASSUME IInv, NEW p \in Packages, NEW patch \in Sendable, UpdatePackage(p, patch)
  PROVE  IInv'
<1> DEFINE kept(field) == IF field \in DOMAIN patch THEN patch[field] ELSE pkg[p][field]
           row == [price |-> kept("price"), agentPrice |-> kept("agentPrice"),
                   active |-> kept("active")]
<1>1. pkg[p] \in PackageRows
  BY DEF UpdatePackage, Sold, IInv, TypeOK
<1>2. /\ "price" \in DOMAIN patch => patch.price \in Prices
      /\ "agentPrice" \in DOMAIN patch => patch.agentPrice \in Prices \cup {None}
      /\ "active" \in DOMAIN patch => patch.active \in BOOLEAN
  BY DEF Sendable
<1>3. row \in PackageRows
  BY <1>1, <1>2 DEF PackageRows
<1>4. UNCHANGED <<order, made, voucher, job, sell>> /\ pkg' = [pkg EXCEPT ![p] = row]
  BY DEF UpdatePackage
<1> HIDE DEF row
<1>5. pkg' \in [Packages -> PackageRows \cup {None, Gone}] /\ PriceHasPackage'
  BY <1>3, <1>4, ShopAssumption DEF IInv, TypeOK, PriceHasPackage
<1> QED BY <1>4, <1>5, PackagesIsGood DEF IInv, TypeOK

LEMMA CountOrdersIsGood ==
  ASSUME IInv, NEW w \in Workers, NEW p \in Packages, CountOrders(w, p)
  PROVE  IInv'
<1> DEFINE j == [at |-> "delete", package |-> p, made |-> made]
<1>1. Do(w, j) /\ OrdersOf(p) = {} /\ UNCHANGED <<pkg, sell, order, made, voucher>>
  BY DEF CountOrders
<1>2. j.at = "delete" /\ j.package = p /\ j.made = made
  OBVIOUS
<1> HIDE DEF j
<1>3. /\ job' = [v \in Requests |-> job'[v]] /\ w \in Requests
      /\ job'[w] = j /\ \A v \in Requests \ {w} : job'[v] = job[v]
  BY <1>1, OneJob DEF IInv, TypeOK, Requests
<1>4. TypeOK' /\ PriceHasPackage'
  BY <1>1, <1>3 DEF IInv, TypeOK, PriceHasPackage
<1>5. PriceWasChecked'
  BY <1>2, <1>3 DEF IInv, PriceWasChecked
<1>6. OrdersCameLater'
  BY <1>1, <1>2, <1>3 DEF IInv, TypeOK, OrdersCameLater, OrdersOf
<1>7. LoginsRace'
  BY <1>1, <1>2, <1>3 DEF IInv, LoginsRace
<1> QED BY <1>4, <1>5, <1>6, <1>7 DEF IInv

LEMMA DeletePackageIsGood ==
  ASSUME IInv, NEW w \in Workers, DeletePackage(w)
  PROVE  IInv'
<1> DEFINE p == job[w].package
<1>1. /\ pkg' = [pkg EXCEPT ![p] = Gone] /\ sell' = [sell EXCEPT ![p] = None]
      /\ order' = [i \in Ids |-> IF i \in OrdersOf(p) THEN [order[i] EXCEPT !.package = None]
                                 ELSE order[i]]
      /\ Do(w, Idle) /\ UNCHANGED <<made, voucher>>
  BY DEF DeletePackage, Done
<1> HIDE DEF p
<1>2. /\ job' = [v \in Requests |-> job'[v]] /\ PriceWasChecked'
      /\ \A v \in Requests : job'[v].at \in {"delete", "activate"} => job'[v] = job[v]
  BY <1>1, JobIsGood, IdleIsNothing DEF Requests
<1>3. ASSUME NEW i \in Ids
      PROVE  /\ order'[i] \in OrderRows \cup {None}
             /\ order'[i] # None => order[i] # None /\ order'[i].package \in {order[i].package, None}
  <2>1. CASE i \in OrdersOf(p)
    <3>1. order[i] \in OrderRows /\ order'[i] = [order[i] EXCEPT !.package = None]
      BY <1>1, <2>1 DEF OrdersOf, IInv, TypeOK
    <3> QED BY <3>1, ShopAssumption DEF OrderRows
  <2>2. CASE i \notin OrdersOf(p)
    BY <1>1, <2>2 DEF IInv, TypeOK
  <2> QED BY <2>1, <2>2
<1>4. TypeOK'
  BY <1>1, <1>2, <1>3 DEF IInv, TypeOK
<1>5. PriceHasPackage'
  BY <1>1 DEF IInv, TypeOK, PriceHasPackage
<1>6. OrdersCameLater'
  BY <1>1, <1>2, <1>3, ShopAssumption DEF IInv, OrdersCameLater
<1>7. LoginsRace'
  BY <1>1, <1>2 DEF IInv, LoginsRace
<1> QED BY <1>2, <1>4, <1>5, <1>6, <1>7 DEF IInv

-----------------------------------------------------------------------------
(* The agent's price.                                                      *)
LEMMA ReadDiscountIsGood ==
  ASSUME IInv, NEW w \in Workers, ReadDiscount(w)
  PROVE  IInv'
<1> DEFINE cost == AgentPriceFor(job[w].row, discount)
           j == [at |-> "upsert", package |-> job[w].package, price |-> job[w].price, cost |-> cost]
<1>1. /\ UNCHANGED <<pkg, sell, order, made, voucher>>
      /\ Do(w, IF job[w].price < cost THEN Idle ELSE j)
  BY DEF ReadDiscount
<1>2. j.at = "upsert" /\ j.price = job[w].price /\ j.cost = cost
  OBVIOUS
<1>3. w \in Requests
  BY DEF Requests
<1> HIDE DEF cost, j
<1>4. CASE job[w].price < cost
  <2>1. Do(w, Idle)
    BY <1>1, <1>4
  <2> QED BY <1>1, <1>3, <2>1, StepIsGood, IdleIsNothing
<1>5. CASE ~(job[w].price < cost)
  <2>1. Do(w, j)
    BY <1>1, <1>5
  <2>2. /\ job' = [v \in Requests |-> job'[v]]
        /\ job'[w] = j /\ \A v \in Requests \ {w} : job'[v] = job[v]
    BY <1>3, <2>1, OneJob DEF IInv, TypeOK
  <2>3. TypeOK' /\ PriceHasPackage'
    BY <1>1, <2>2 DEF IInv, TypeOK, PriceHasPackage
  <2>4. PriceWasChecked'
    <3>1. job[w].price \in Prices
      BY <1>3 DEF ReadDiscount, IInv, PriceWasChecked
    <3> QED BY <3>1, <1>2, <1>5, <2>2 DEF IInv, PriceWasChecked
  <2>5. OrdersCameLater' /\ LoginsRace'
    BY <1>1, <1>2, <2>2 DEF IInv, OrdersCameLater, LoginsRace
  <2> QED BY <2>3, <2>4, <2>5 DEF IInv
<1> QED BY <1>4, <1>5

LEMMA UpsertIsGood ==
  ASSUME IInv, NEW w \in Workers, Upsert(w)
  PROVE  IInv'
<1>1. /\ sell' = IF job[w].package \in Sold
                   THEN [sell EXCEPT ![job[w].package] = job[w].price] ELSE sell
      /\ Do(w, Idle) /\ UNCHANGED <<pkg, order, made, voucher>>
  BY DEF Upsert, Done
<1>2. /\ job' = [v \in Requests |-> job'[v]] /\ PriceWasChecked'
      /\ \A v \in Requests : job'[v].at \in {"delete", "activate"} => job'[v] = job[v]
  BY <1>1, JobIsGood, IdleIsNothing DEF Requests
<1>3. sell' \in [Packages -> Prices \cup {None}] /\ PriceHasPackage'
  <2>1. job[w].price \in Prices
    BY DEF Upsert, IInv, PriceWasChecked, Requests
  <2> QED BY <1>1, <2>1 DEF IInv, TypeOK, PriceHasPackage, Sold
<1>4. TypeOK'
  BY <1>1, <1>2, <1>3 DEF IInv, TypeOK
<1>5. OrdersCameLater' /\ LoginsRace'
  BY <1>1, <1>2 DEF IInv, OrdersCameLater, LoginsRace
<1> QED BY <1>2, <1>3, <1>4, <1>5 DEF IInv

-----------------------------------------------------------------------------
(* Orders and vouchers.                                                    *)
LEMMA CreateOrderIsGood ==
  ASSUME IInv, NEW w \in Workers, CreateOrder(w)
  PROVE  IInv'
<1> DEFINE q == job[w].package
           c == job[w].customer
           row == [package |-> q, outletOf |-> q, customer |-> c]
<1>1. /\ Do(w, Idle) /\ UNCHANGED <<pkg, sell, voucher>>
      /\ \/ UNCHANGED <<order, made>>
         \/ /\ q \in Sold /\ (c = None \/ c \in Known)
            /\ made' = made + 1 /\ order' = [order EXCEPT ![made + 1] = row]
  BY DEF CreateOrder, Done
<1>2. /\ job' = [v \in Requests |-> job'[v]] /\ PriceWasChecked'
      /\ \A v \in Requests : job'[v].at \in {"delete", "activate"} => job'[v] = job[v]
  BY <1>1, JobIsGood, IdleIsNothing DEF Requests
<1>3. q \in Sold /\ (c = None \/ c \in Known) => row \in OrderRows
  BY DEF Sold, Known, OrderRows
<1> HIDE DEF row, q, c
<1>4. /\ order' \in [Ids -> OrderRows \cup {None}] /\ made' \in Nat /\ made <= made'
      /\ \A i \in Ids : order'[i] = order[i] \/ i > made
  <2>1. made \in Nat /\ order \in [Ids -> OrderRows \cup {None}] /\ made + 1 > made
    BY DEF IInv, TypeOK
  <2>2. CASE UNCHANGED <<order, made>>
    BY <2>1, <2>2
  <2>3. CASE row \in OrderRows /\ made' = made + 1 /\ order' = [order EXCEPT ![made + 1] = row]
    <3> DEFINE next == made + 1
    <3>1. order' = [order EXCEPT ![next] = row] /\ made' = next /\ next \in Nat /\ next > made
      BY <2>1, <2>3
    <3> HIDE DEF next
    <3>2. order' \in [Ids -> OrderRows \cup {None}]
      BY <2>1, <2>3, <3>1
    <3>3. \A i \in Ids : order'[i] = order[i] \/ i = next
      BY <2>1, <3>1
    <3> QED BY <2>1, <3>1, <3>2, <3>3
  <2> QED BY <1>1, <1>3, <2>2, <2>3
<1>5. TypeOK' /\ PriceHasPackage'
  BY <1>1, <1>2, <1>4 DEF IInv, TypeOK, PriceHasPackage
<1>6. OrdersCameLater'
  <2>1. made \in Nat /\ made' \in Nat /\ made <= made' /\ \A i \in Ids : i \in Nat
    BY <1>4 DEF IInv, TypeOK, Ids
  <2>2. ASSUME NEW v \in Requests, job'[v].at = "delete"
        PROVE  /\ job'[v].package \in Packages /\ job'[v].made \in Nat /\ job'[v].made <= made'
               /\ \A i \in Ids :
                    order'[i] # None /\ order'[i].package = job'[v].package => i > job'[v].made
    <3>1. job'[v] = job[v] /\ job[v].at = "delete"
      BY <1>2, <2>2
    <3>2. job[v].package \in Packages /\ job[v].made \in Nat /\ job[v].made <= made
      BY <3>1 DEF IInv, OrdersCameLater
    <3>3. \A i \in Ids : order'[i] = order[i] \/ i > job[v].made
      BY <1>4, <2>1, <3>2
    <3>4. \A i \in Ids : order[i] # None /\ order[i].package = job[v].package => i > job[v].made
      BY <3>1 DEF IInv, OrdersCameLater
    <3>5. job[v].made <= made'
      BY <2>1, <3>2
    <3> QED BY <3>1, <3>2, <3>3, <3>4, <3>5
  <2> QED BY <2>2 DEF OrdersCameLater
<1>7. LoginsRace'
  BY <1>1, <1>2 DEF IInv, LoginsRace
<1> QED BY <1>2, <1>5, <1>6, <1>7 DEF IInv

LEMMA FulfilIsGood ==
  ASSUME IInv, NEW i \in Ids, Fulfil(i)
  PROVE  IInv'
<1> DEFINE row == [customer |-> order[i].customer, starts |-> 0, racing |-> {}]
<1>1. row \in VoucherRows /\ row.starts = 0
  BY DEF Fulfil, IInv, TypeOK, OrderRows, VoucherRows
<1>2. voucher' = [voucher EXCEPT ![i] = row] /\ UNCHANGED <<pkg, sell, order, made, job>>
  BY DEF Fulfil
<1> HIDE DEF row
<1>3. TypeOK' /\ PriceHasPackage'
  BY <1>1, <1>2 DEF IInv, TypeOK, PriceHasPackage
<1>4. PriceWasChecked' /\ OrdersCameLater'
  BY <1>2 DEF IInv, PriceWasChecked, OrdersCameLater
<1>5. LoginsRace'
  <2>1. \A k \in Ids : voucher'[k] = voucher[k] \/ voucher'[k].starts = 0
    BY <1>1, <1>2 DEF IInv, TypeOK
  <2>2. \A k : voucher'[k] = voucher[k] \/ voucher'[k].starts = 0
    BY <1>1, <1>2 DEF IInv, TypeOK
  <2> QED BY <1>2, <2>1, <2>2 DEF IInv, LoginsRace
<1> QED BY <1>3, <1>4, <1>5 DEF IInv

LEMMA LoginIsGood ==
  ASSUME IInv, NEW w \in Logins, NEW i \in Ids, Login(w, i)
  PROVE  IInv'
<1> DEFINE j == [at |-> "activate", voucher |-> i]
<1>1. /\ Do(w, j) /\ voucher[i].starts = 0 /\ UNCHANGED <<pkg, sell, order, made, voucher>>
  BY DEF Login
<1>2. j.at = "activate" /\ j.voucher = i
  OBVIOUS
<1> HIDE DEF j
<1>3. /\ job' = [v \in Requests |-> job'[v]]
      /\ job'[w] = j /\ \A v \in Requests \ {w} : job'[v] = job[v]
  BY <1>1, OneJob DEF IInv, TypeOK, Requests
<1>4. TypeOK' /\ PriceHasPackage'
  BY <1>1, <1>3 DEF IInv, TypeOK, PriceHasPackage
<1>5. PriceWasChecked' /\ OrdersCameLater'
  BY <1>1, <1>2, <1>3 DEF IInv, PriceWasChecked, OrdersCameLater
<1>6. LoginsRace'
  BY <1>1, <1>2, <1>3 DEF IInv, LoginsRace
<1> QED BY <1>4, <1>5, <1>6 DEF IInv

LEMMA ActivateIsGood ==
  ASSUME IInv, NEW w \in Logins, Activate(w)
  PROVE  IInv'
<1> DEFINE i == job[w].voucher
           others == (IF voucher[i].starts = 0 THEN Racing(i) ELSE voucher[i].racing) \ {w}
<1>1. /\ job[w].at = "activate" /\ Do(w, Idle) /\ UNCHANGED <<pkg, sell, order, made>>
      /\ voucher' = IF voucher[i] = None THEN voucher
                    ELSE [voucher EXCEPT ![i].starts = @ + 1, ![i].racing = others]
  BY DEF Activate, Done
<1>2. /\ job' = [v \in Requests |-> job'[v]] /\ PriceWasChecked'
      /\ \A v \in Requests : job'[v].at \in {"delete", "activate"} => job'[v] = job[v]
  BY <1>1, JobIsGood, IdleIsNothing DEF Requests
<1>3. job'[w] = Idle
  BY <1>1, OneJob DEF IInv, TypeOK, Requests
<1>4. ASSUME NEW v \in Requests, job'[v].at = "activate", job'[v].voucher = i, voucher[i] # None
      PROVE  v \in others
  <2>1. v # w
    BY <1>3, <1>4, IdleIsNothing
  <2>2. job[v].at = "activate" /\ job[v].voucher = i /\ v \in Logins
    BY <1>2, <1>4 DEF IInv, LoginsRace
  <2>3. CASE voucher[i].starts = 0
    BY <2>1, <2>2, <2>3 DEF Racing
  <2>4. CASE voucher[i].starts # 0
    BY <1>4, <2>1, <2>2, <2>4 DEF IInv, LoginsRace
  <2> QED BY <2>3, <2>4
<1>5. voucher[i] \in VoucherRows => others \in SUBSET Logins
  BY DEF Racing, VoucherRows
<1> HIDE DEF i, others
<1>6. \A k \in Ids : \/ voucher'[k] = voucher[k] /\ (k # i \/ voucher[k] = None)
                     \/ /\ voucher[k] \in VoucherRows /\ k = i
                        /\ voucher'[k] = [voucher[k] EXCEPT !.starts = @ + 1, !.racing = others]
  BY <1>1 DEF IInv, TypeOK
<1>7. ASSUME NEW k \in Ids, voucher[k] \in VoucherRows, k = i,
             voucher'[k] = [voucher[k] EXCEPT !.starts = @ + 1, !.racing = others]
      PROVE  voucher'[k] \in VoucherRows /\ voucher'[k].racing = others
  <2>1. others \in SUBSET Logins
    BY <1>5, <1>7
  <2>2. /\ voucher[k].customer \in Customers \cup {None} /\ voucher[k].starts \in Nat
        /\ voucher'[k] = [customer |-> voucher[k].customer, starts |-> voucher[k].starts + 1,
                          racing |-> others]
    BY <1>7 DEF VoucherRows
  <2>3. voucher[k].starts + 1 \in Nat
    BY <2>2
  <2> QED BY <2>1, <2>2, <2>3 DEF VoucherRows
<1>8. TypeOK' /\ PriceHasPackage'
  <2>1. \A k \in Ids : voucher'[k] \in VoucherRows \cup {None}
    BY <1>6, <1>7 DEF IInv, TypeOK
  <2>2. voucher' = [k \in Ids |-> voucher'[k]]
    BY <1>1 DEF IInv, TypeOK
  <2> QED BY <1>1, <1>2, <2>1, <2>2 DEF IInv, TypeOK, PriceHasPackage
<1>9. OrdersCameLater'
  BY <1>1, <1>2 DEF IInv, OrdersCameLater
<1>10. LoginsRace'
  <2>1. ASSUME NEW v \in Requests, job'[v].at = "activate"
        PROVE  /\ v \in Logins /\ job'[v].voucher \in Ids /\ job'[v] = job[v]
               /\ LET row == voucher'[job'[v].voucher]
                  IN row # None /\ row.starts # 0 => v \in row.racing
    <3>1. job'[v] = job[v] /\ v \in Logins /\ job[v].voucher \in Ids
      BY <1>2, <2>1 DEF IInv, LoginsRace
    <3>2. CASE voucher'[job[v].voucher] = voucher[job[v].voucher]
                 /\ (job[v].voucher # i \/ voucher[job[v].voucher] = None)
      BY <2>1, <3>1, <3>2 DEF IInv, LoginsRace
    <3>3. CASE /\ voucher[job[v].voucher] \in VoucherRows /\ job[v].voucher = i
               /\ voucher'[job[v].voucher] =
                    [voucher[job[v].voucher] EXCEPT !.starts = @ + 1, !.racing = others]
      <4>1. voucher[i] # None
        BY <3>3, ShopAssumption
      <4>2. voucher'[job'[v].voucher].racing = others
        BY <1>7, <3>1, <3>3
      <4> QED BY <1>4, <2>1, <3>1, <3>3, <4>1, <4>2
    <3> QED BY <1>6, <3>1, <3>2, <3>3
  <2> QED BY <2>1 DEF LoginsRace
<1> QED BY <1>2, <1>8, <1>9, <1>10 DEF IInv

(* Deletions: a row stays as it is, loses its customer, or goes.           *)
LEMMA WithoutRows ==
  ASSUME TypeOK, NEW c
  PROVE  /\ \A i \in Ids : \/ Without(order, c)[i] = order[i]
                           \/ /\ order[i] \in OrderRows /\ Without(order, c)[i] \in OrderRows
                              /\ Without(order, c)[i].package = order[i].package
         /\ \A i \in Ids : \/ Without(voucher, c)[i] = voucher[i]
                           \/ /\ voucher[i] \in VoucherRows /\ Without(voucher, c)[i] \in VoucherRows
                              /\ Without(voucher, c)[i].starts = voucher[i].starts
                              /\ Without(voucher, c)[i].racing = voucher[i].racing
<1>1. ASSUME NEW i \in Ids, order[i] # None
      PROVE  LET row == [order[i] EXCEPT !.customer = None]
             IN order[i] \in OrderRows /\ row \in OrderRows /\ row.package = order[i].package
  <2>1. order[i] \in OrderRows
    BY <1>1 DEF TypeOK
  <2> QED BY <2>1 DEF OrderRows
<1>2. ASSUME NEW i \in Ids, voucher[i] # None
      PROVE  LET row == [voucher[i] EXCEPT !.customer = None]
             IN /\ voucher[i] \in VoucherRows /\ row \in VoucherRows
                /\ row.starts = voucher[i].starts /\ row.racing = voucher[i].racing
  <2>1. voucher[i] \in VoucherRows
    BY <1>2 DEF TypeOK
  <2> QED BY <2>1 DEF VoucherRows
<1> QED BY <1>1, <1>2 DEF Without

LEMMA DeleteCustomerIsGood ==
  ASSUME IInv, NEW w \in Workers, DeleteCustomer(w)
  PROVE  IInv'
<1>1. /\ order' = Without(order, job[w].customer) /\ voucher' = Without(voucher, job[w].customer)
      /\ Do(w, Idle) /\ UNCHANGED <<pkg, sell, made>>
  BY DEF DeleteCustomer, Done
<1>2. /\ job' = [v \in Requests |-> job'[v]] /\ PriceWasChecked'
      /\ \A v \in Requests : job'[v].at \in {"delete", "activate"} => job'[v] = job[v]
  BY <1>1, JobIsGood, IdleIsNothing DEF Requests
<1>3. /\ \A i \in Ids : \/ order'[i] = order[i]
                        \/ /\ order[i] \in OrderRows /\ order'[i] \in OrderRows
                           /\ order'[i].package = order[i].package
      /\ \A i \in Ids : \/ voucher'[i] = voucher[i]
                        \/ /\ voucher[i] \in VoucherRows /\ voucher'[i] \in VoucherRows
                           /\ voucher'[i].starts = voucher[i].starts
                           /\ voucher'[i].racing = voucher[i].racing
      /\ order' = [i \in Ids |-> order'[i]] /\ voucher' = [i \in Ids |-> voucher'[i]]
  BY <1>1, WithoutRows DEF IInv, Without
<1>4. TypeOK' /\ PriceHasPackage'
  BY <1>1, <1>2, <1>3 DEF IInv, TypeOK, PriceHasPackage
<1>5. OrdersCameLater'
  BY <1>1, <1>2, <1>3, ShopAssumption DEF IInv, OrdersCameLater
<1>6. LoginsRace'
  <2>1. \A v \in Requests : job'[v].at = "activate" => job'[v] = job[v]
    BY <1>2
  <2>2. ASSUME NEW v \in Requests, job[v].at = "activate",
               LET row == voucher'[job[v].voucher] IN row # None /\ row.starts # 0
        PROVE  v \in voucher'[job[v].voucher].racing
    BY <1>3, <2>2, ShopAssumption DEF IInv, TypeOK, LoginsRace
  <2> QED BY <2>1, <2>2 DEF IInv, LoginsRace
<1> QED BY <1>2, <1>4, <1>5, <1>6 DEF IInv

LEMMA DeleteTransactionsIsGood ==
  ASSUME IInv, NEW a \in Admins, NEW ids \in SUBSET Ids, DeleteTransactions(a, ids)
  PROVE  IInv'
<1>1. /\ UNCHANGED <<pkg, sell, made, job>>
      /\ order' = [i \in Ids |-> IF i \in ids \cap SoldBy(a) THEN None ELSE order[i]]
      /\ voucher' = [i \in Ids |-> IF i \in ids \cap SoldBy(a) THEN None ELSE voucher[i]]
  BY DEF DeleteTransactions
<1>2. \A i \in Ids : order'[i] \in {order[i], None} /\ voucher'[i] \in {voucher[i], None}
  BY <1>1
<1>3. TypeOK' /\ PriceHasPackage'
  BY <1>1, <1>2 DEF IInv, TypeOK, PriceHasPackage
<1>4. PriceWasChecked' /\ OrdersCameLater'
  BY <1>1, <1>2 DEF IInv, PriceWasChecked, OrdersCameLater
<1>5. LoginsRace'
  BY <1>1, <1>2 DEF IInv, LoginsRace
<1> QED BY <1>3, <1>4, <1>5 DEF IInv

-----------------------------------------------------------------------------
LEMMA StepsAreGood == IInv /\ [Next]_vars => IInv'
<1> SUFFICES ASSUME IInv, [Next]_vars PROVE IInv'
  OBVIOUS
<1>1. CASE UNCHANGED <<pkg, sell, order, made, voucher, job>>
  BY <1>1 DEF IInv, TypeOK, PriceHasPackage, PriceWasChecked, OrdersCameLater, LoginsRace,
              ValidityNeverRestarts
<1>2. ASSUME NEW w \in Workers, NEW a \in Admins, NEW c \in Customers, AskDelete(w, a, c)
      PROVE  IInv'
  <2>1. /\ Do(w, [at |-> "forget", customer |-> c])
        /\ UNCHANGED <<pkg, sell, order, made, voucher>>
    BY <1>2 DEF AskDelete
  <2> QED BY <2>1, StepIsGood DEF Requests
<1>3. ASSUME NEW w \in Workers, NEW p \in Packages, NEW price \in Prices, ReadPackage(w, p, price)
      PROVE  IInv'
  <2>1. /\ Do(w, [at |-> "cost", package |-> p, price |-> price,
                  row |-> [price |-> pkg[p].price, agentPrice |-> pkg[p].agentPrice]])
        /\ UNCHANGED <<pkg, sell, order, made, voucher>>
    BY <1>3 DEF ReadPackage
  <2> QED BY <2>1, StepIsGood DEF Requests
<1>4. ASSUME NEW w \in Workers, NEW p \in Packages, NEW c \in Customers \cup {None}, Choose(w, p, c)
      PROVE  IInv'
  <2>1. /\ Do(w, [at |-> "order", package |-> p, customer |-> c])
        /\ UNCHANGED <<pkg, sell, order, made, voucher>>
    BY <1>4 DEF Choose
  <2> QED BY <2>1, StepIsGood DEF Requests
<1>5. CASE Owners \/ Buyers
  BY <1>1, <1>5, CreatePackageIsGood, UpdatePackageIsGood, DeleteTransactionsIsGood
     DEF Owners, Buyers, SetDiscount, CreateCustomer, SetProvider
<1>6. ASSUME NEW w \in Workers, Deletions(w) PROVE IInv'
  BY <1>2, <1>6, CountOrdersIsGood, DeletePackageIsGood, DeleteCustomerIsGood DEF Deletions
<1>7. ASSUME NEW w \in Workers, SellPrices(w) \/ Purchases(w) PROVE IInv'
  BY <1>3, <1>4, <1>7, ReadDiscountIsGood, UpsertIsGood, CreateOrderIsGood DEF SellPrices, Purchases
<1>8. CASE UNCHANGED vars
  BY <1>1, <1>8 DEF vars
<1> QED BY <1>5, <1>6, <1>7, <1>8, FulfilIsGood, LoginIsGood, ActivateIsGood DEF Next

-----------------------------------------------------------------------------
(* A voucher that runs is started again only by a login that was under way *)
(* when it was started first.                                              *)
THEOREM RestartsOnlyByRaces == Spec => RestartsAreRaces
<1> DEFINE Fine ==
      \A i \in Ids :
        (voucher[i] # None /\ voucher[i].starts # 0 /\ voucher'[i] # None
           /\ voucher'[i].starts # voucher[i].starts)
           => \E w \in voucher[i].racing : job[w].at = "activate" /\ job[w].voucher = i
<1>1. IInv /\ [Next]_vars => Fine
  <2> SUFFICES ASSUME IInv, [Next]_vars, NEW i \in Ids, voucher[i] # None, voucher[i].starts # 0,
                      voucher'[i] # None, voucher'[i].starts # voucher[i].starts
               PROVE  \E w \in voucher[i].racing : job[w].at = "activate" /\ job[w].voucher = i
    OBVIOUS
  <2>1. voucher'[i] # voucher[i]
    OBVIOUS
  <2>2. ASSUME NEW w \in Logins, Activate(w)
        PROVE  w \in voucher[i].racing /\ job[w].at = "activate" /\ job[w].voucher = i
    <3>1. job[w].at = "activate" /\ job[w].voucher = i
      BY <2>1, <2>2 DEF Activate, IInv, TypeOK
    <3> QED BY <3>1 DEF IInv, LoginsRace, Requests
  <2>3. ASSUME NEW w \in Workers, DeleteCustomer(w) PROVE FALSE
    BY <2>1, <2>3, WithoutRows DEF DeleteCustomer, IInv
  <2>4. ASSUME NEW a \in Admins, NEW ids \in SUBSET Ids, DeleteTransactions(a, ids) PROVE FALSE
    BY <2>1, <2>4 DEF DeleteTransactions
  <2>5. ASSUME NEW k \in Ids, Fulfil(k) PROVE FALSE
    BY <2>1, <2>5 DEF Fulfil, IInv, TypeOK
  <2>6. CASE Owners \/ Buyers
    BY <2>1, <2>4, <2>6
       DEF Owners, Buyers, CreatePackage, UpdatePackage, SetDiscount, CreateCustomer, SetProvider
  <2>7. ASSUME NEW w \in Workers, Deletions(w) \/ SellPrices(w) \/ Purchases(w) PROVE FALSE
    BY <2>1, <2>3, <2>7
       DEF Deletions, CountOrders, DeletePackage, AskDelete, SellPrices, ReadPackage, ReadDiscount,
           Upsert, Purchases, Choose, CreateOrder
  <2> QED BY <2>1, <2>2, <2>5, <2>6, <2>7 DEF Next, Login, vars
<1> QED BY InitIsGood, StepsAreGood, <1>1, PTL DEF Spec, RestartsAreRaces

(* A price below cost comes from a change of the cost, at the latest while *)
(* the agent's request ran.                                                *)
THEOREM SellPriceCoversCost == Spec => SellCoversCost
<1> DEFINE Fine == \A p \in Packages : BelowCost(p)' /\ ~BelowCost(p) =>
                     \/ Cost(p)' # Cost(p)
                     \/ \E w \in Workers : job[w].at = "upsert" /\ job[w].package = p /\ job[w].cost # Cost(p)
<1>1. IInv /\ [Next]_vars => Fine
  <2> SUFFICES ASSUME IInv, [Next]_vars, NEW p \in Packages, BelowCost(p)', ~BelowCost(p),
                      Cost(p)' = Cost(p)
               PROVE  \E w \in Workers : /\ job[w].at = "upsert" /\ job[w].package = p
                                         /\ job[w].cost # Cost(p)
    OBVIOUS
  <2>1. p \in Sold' /\ sell'[p] # None /\ sell'[p] < Cost(p)
    BY DEF BelowCost
  <2>2. sell'[p] # sell[p] \/ p \notin Sold
    BY <2>1 DEF BelowCost
  <2>3. ASSUME NEW w \in Workers, Upsert(w)
        PROVE  job[w].at = "upsert" /\ job[w].package = p /\ job[w].cost # Cost(p)
    <3>1. /\ job[w].at = "upsert" /\ pkg' = pkg
          /\ sell' = IF job[w].package \in Sold
                       THEN [sell EXCEPT ![job[w].package] = job[w].price] ELSE sell
      BY <2>3 DEF Upsert
    <3>2. job[w].package = p /\ sell'[p] = job[w].price
      BY <2>1, <2>2, <3>1 DEF Sold, IInv, TypeOK
    <3>3. ~(job[w].price < job[w].cost)
      BY <3>1 DEF IInv, PriceWasChecked, Requests
    <3> QED BY <2>1, <3>1, <3>2, <3>3
  <2>4. ASSUME NEW q \in Packages, NEW price \in Prices, NEW cost \in Prices \cup {None},
               CreatePackage(q, price, cost)
        PROVE  FALSE
    <3>1. /\ pkg[q] = None /\ sell' = sell
          /\ pkg' = [pkg EXCEPT ![q] = [price |-> price, agentPrice |-> cost, active |-> TRUE]]
      BY <2>4 DEF CreatePackage
    <3>2. p = q
      BY <2>1, <2>2, <3>1 DEF Sold, IInv, TypeOK
    <3> QED BY <2>1, <3>1, <3>2 DEF IInv, PriceHasPackage
  <2>5. ASSUME NEW q \in Packages, NEW patch \in Sendable, UpdatePackage(q, patch)
        PROVE  FALSE
    BY <2>1, <2>2, <2>5 DEF UpdatePackage, Sold, IInv, TypeOK
  <2>6. ASSUME NEW w \in Workers, DeletePackage(w)
        PROVE  FALSE
    <3>1. sell' = [sell EXCEPT ![job[w].package] = None] /\ pkg' = [pkg EXCEPT ![job[w].package] = Gone]
      BY <2>6 DEF DeletePackage
    <3> QED BY <2>1, <2>2, <3>1 DEF Sold, IInv, TypeOK
  <2>7. ASSUME UNCHANGED <<pkg, sell>>
        PROVE  FALSE
    BY <2>1, <2>2, <2>7 DEF Sold
  <2>8. CASE Owners \/ Buyers
    BY <2>4, <2>5, <2>7, <2>8
       DEF Owners, Buyers, SetDiscount, CreateCustomer, SetProvider, DeleteTransactions
  <2>9. ASSUME NEW w \in Workers, Deletions(w) \/ Purchases(w)
        PROVE  FALSE
    BY <2>6, <2>7, <2>9
       DEF Deletions, CountOrders, AskDelete, DeleteCustomer, Purchases, Choose, CreateOrder
  <2> QED BY <2>3, <2>7, <2>8, <2>9
          DEF Next, SellPrices, ReadPackage, ReadDiscount, Fulfil, Login, Activate, vars
<1> QED BY InitIsGood, StepsAreGood, <1>1, PTL DEF Spec, SellCoversCost

(* The deletion of a package takes it from no order that was there when    *)
(* the orders were counted.                                                *)
THEOREM HistoryIsKept == Spec => HistoryKeepsPackage
<1> DEFINE Fine ==
      \A i \in Ids :
        (order[i] # None /\ order[i].package # None /\ order'[i] # None /\ order'[i].package = None)
           => \E w \in Workers : job[w].at = "delete" /\ i > job[w].made
<1>1. IInv /\ [Next]_vars => Fine
  <2> SUFFICES ASSUME IInv, [Next]_vars, NEW i \in Ids,
                      order[i] # None /\ order[i].package # None,
                      order'[i] # None /\ order'[i].package = None
               PROVE  \E w \in Workers : job[w].at = "delete" /\ i > job[w].made
    OBVIOUS
  <2>1. order'[i] # order[i]
    OBVIOUS
  <2>2. ASSUME NEW w \in Workers, DeletePackage(w)
        PROVE  job[w].at = "delete" /\ i > job[w].made
    <3>1. /\ job[w].at = "delete"
          /\ order' = [k \in Ids |-> IF k \in OrdersOf(job[w].package)
                                       THEN [order[k] EXCEPT !.package = None] ELSE order[k]]
      BY <2>2 DEF DeletePackage
    <3>2. i \in OrdersOf(job[w].package)
      BY <2>1, <3>1
    <3> QED BY <3>1, <3>2 DEF IInv, OrdersCameLater, OrdersOf, Requests
  <2>3. ASSUME NEW w \in Workers, DeleteCustomer(w)
        PROVE  FALSE
    BY <2>1, <2>3, WithoutRows DEF DeleteCustomer, IInv
  <2>4. ASSUME NEW a \in Admins, NEW ids \in SUBSET Ids, DeleteTransactions(a, ids)
        PROVE  FALSE
    BY <2>1, <2>4 DEF DeleteTransactions
  <2>5. ASSUME NEW w \in Workers, CreateOrder(w)
        PROVE  FALSE
    <3>1. /\ job[w].package \in Sold
          /\ order' = [order EXCEPT ![made + 1] = [package |-> job[w].package,
                         outletOf |-> job[w].package, customer |-> job[w].customer]]
      BY <2>1, <2>5 DEF CreateOrder
    <3>2. order'[i].package = job[w].package
      BY <2>1, <3>1 DEF IInv, TypeOK
    <3> QED BY <3>1, <3>2, ShopAssumption DEF Sold
  <2>6. CASE Owners \/ Buyers
    BY <2>1, <2>4, <2>6
       DEF Owners, Buyers, CreatePackage, UpdatePackage, SetDiscount, CreateCustomer, SetProvider
  <2>7. ASSUME NEW w \in Workers, Deletions(w)
        PROVE  \E v \in Workers : job[v].at = "delete" /\ i > job[v].made
    BY <2>1, <2>2, <2>3, <2>7 DEF Deletions, CountOrders, AskDelete
  <2>8. ASSUME NEW w \in Workers, SellPrices(w) \/ Purchases(w)
        PROVE  FALSE
    BY <2>1, <2>5, <2>8
       DEF SellPrices, ReadPackage, ReadDiscount, Upsert, Purchases, Choose
  <2> QED BY <2>1, <2>6, <2>7, <2>8 DEF Next, Fulfil, Login, Activate, vars
<1> QED BY InitIsGood, StepsAreGood, <1>1, PTL DEF Spec, HistoryKeepsPackage
=============================================================================
