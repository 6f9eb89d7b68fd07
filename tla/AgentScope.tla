----------------------------- MODULE AgentScope -----------------------------
(***************************************************************************)
(* Who may sell at which outlet.  Owners (admins) keep brands, outlets and *)
(* agents; the operator hands outlets to owners.  The scope of an agent is *)
(* derived from links to outlets whose owner and brand may change.         *)
(*                                                                         *)
(* A request is several statements of which few share a transaction.       *)
(* Requests follow each other here, but each may stop after any statement. *)
(***************************************************************************)
EXTENDS FiniteSets

CONSTANTS
  Admins, Operators, Brands, BrandOwner, Outlets, Agents, None,
  FirstBrands   \* brands that exist from the start

(* Rows of servers and of agents.                                          *)
OutletRows == [owner: Admins \cup {None}, brand: Brands \cup {None}]
AgentRows == [admin: Admins \cup {None}, brand: Brands \cup {None}, links: SUBSET Outlets]

ASSUME ScopeAssumption ==
  /\ Operators \subseteq Admins /\ FirstBrands \subseteq Brands
  /\ BrandOwner \in [Brands -> Admins]
  /\ None \notin Admins \cup Brands \cup OutletRows \cup AgentRows

VARIABLES
  governs,  \* admins with manageAllOutlets
  brands,   \* brands created so far
  outlet,   \* servers: owner and brand; None is no row
  agent,    \* agents: admin, brand, the outlets of its links; None is no row
  job       \* what is left of the present request

vars == <<governs, brands, outlet, agent, job>>

Open == {o \in Outlets : outlet[o] # None}
Idle == [at |-> "idle"]
Job(step, g, a, outlets) == [at |-> step, agent |-> g, by |-> a, outlets |-> outlets]

Init ==
  /\ governs = {} /\ brands = FirstBrands
  /\ outlet = [o \in Outlets |-> None]
  /\ agent = [g \in Agents |-> None]
  /\ job = Idle

-----------------------------------------------------------------------------
(* The scopes.                                                             *)
ManagesAll(a) == a \in governs \cup Operators
Owned(a) == {o \in Open : ManagesAll(a) \/ outlet[o].owner = a}
BrandsOf(a) == {b \in brands : BrandOwner[b] = a}

(* ownedAgent: a control-all admin reaches any agent.                      *)
Reaches(a, g) == agent[g] # None /\ (ManagesAll(a) \/ agent[g].admin = a)

(* agentAssignableServerIds.                                               *)
Assignable(a, b) == IF b # None THEN {o \in Open : outlet[o].brand = b} ELSE Owned(a)

(* resolveAgentBrand: without a choice the owner's only brand, or none.    *)
Resolved(a, choice) ==
  IF choice # None THEN {choice} \cap BrandsOf(a)
  ELSE IF BrandsOf(a) = {} THEN {None}
  ELSE IF Cardinality(BrandsOf(a)) = 1 THEN BrandsOf(a) ELSE {}

(* assertAgentMaySell: an agent without links is not restricted.           *)
MaySell(g, o) == agent[g].links = {} \/ o \in agent[g].links

-----------------------------------------------------------------------------
CreateBrand(b) ==
  /\ job = Idle
  /\ b \notin brands
  /\ brands' = brands \cup {b}
  /\ UNCHANGED <<governs, outlet, agent, job>>

(* createOutlet and updateOutlet: a new brand must be the caller's own.    *)
CreateOutlet(a, o, b) ==
  /\ job = Idle
  /\ o \notin Open
  /\ b \in BrandsOf(a) \cup {None}
  /\ outlet' = [outlet EXCEPT ![o] = [owner |-> a, brand |-> b]]
  /\ UNCHANGED <<governs, brands, agent, job>>

(* Slip: any brand will do.                                                *)
UpdateOutletAnyBrand(a, o, b) ==
  /\ job = Idle
  /\ o \in Owned(a)
  /\ b \in brands \cup {outlet[o].brand}
  /\ outlet' = [outlet EXCEPT ![o].brand = b]
  /\ UNCHANGED <<governs, brands, agent, job>>

UpdateOutlet(a, o, b) ==
  /\ job = Idle
  /\ o \in Owned(a)
  /\ b \in BrandsOf(a) \cup {outlet[o].brand}
  /\ outlet' = [outlet EXCEPT ![o].brand = b]
  /\ UNCHANGED <<governs, brands, agent, job>>

(* The operator replaces the set of outlets of an owner; brands stay.      *)
AssignOwner(a, outlets) ==
  /\ job = Idle
  /\ outlets \subseteq Open
  /\ outlet' = [o \in Outlets |->
                 IF o \in outlets THEN [outlet[o] EXCEPT !.owner = a]
                 ELSE IF o \in Open /\ outlet[o].owner = a THEN [outlet[o] EXCEPT !.owner = None]
                 ELSE outlet[o]]
  /\ UNCHANGED <<governs, brands, agent, job>>

SetManageAll(a, on) ==
  /\ job = Idle
  /\ governs' = IF on THEN governs \cup {a} ELSE governs \ {a}
  /\ UNCHANGED <<brands, outlet, agent, job>>

-----------------------------------------------------------------------------
(* create: the row first, then the outlets that were picked with it.       *)
CreateAgent(a, g, choice, outlets) ==
  /\ job = Idle
  /\ agent[g] = None
  /\ \E b \in Resolved(a, choice) :
       agent' = [agent EXCEPT ![g] = [admin |-> a, brand |-> b, links |-> {}]]
  /\ job' = IF outlets = {} THEN Idle ELSE Job("check", g, a, outlets)
  /\ UNCHANGED <<governs, brands, outlet>>

(* An agent who signs up is the brand's, without links.                    *)
Register(g, b) ==
  /\ job = Idle
  /\ agent[g] = None
  /\ agent' = [agent EXCEPT ![g] = [admin |-> IF b = None THEN None ELSE BrandOwner[b],
                                    brand |-> b, links |-> {}]]
  /\ UNCHANGED <<governs, brands, outlet, job>>

AssignOutlets(a, g, outlets) ==
  /\ job = Idle
  /\ Reaches(a, g)
  /\ job' = Job("check", g, a, outlets)
  /\ UNCHANGED <<governs, brands, outlet, agent>>

(* Slip: what the owner manages may be linked, whatever the brand.         *)
CheckOwned ==
  /\ job.at = "check"
  /\ job' = IF job.outlets \subseteq Owned(job.by) THEN [job EXCEPT !.at = "link"] ELSE Idle
  /\ UNCHANGED <<governs, brands, outlet, agent>>

CheckOutlets ==
  /\ job.at = "check"
  /\ job' = IF job.outlets \subseteq Assignable(job.by, agent[job.agent].brand)
              THEN [job EXCEPT !.at = "link"] ELSE Idle
  /\ UNCHANGED <<governs, brands, outlet, agent>>

(* One transaction deletes the links and creates the new ones.  Slip: two  *)
(* statements.                                                             *)
ReplaceLinksApart ==
  /\ job.at = "link"
  /\ IF agent[job.agent].links # {}
       THEN agent' = [agent EXCEPT ![job.agent].links = {}] /\ job' = job
       ELSE agent' = [agent EXCEPT ![job.agent].links = job.outlets] /\ job' = Idle
  /\ UNCHANGED <<governs, brands, outlet>>

ReplaceLinks ==
  /\ job.at = "link"
  /\ agent' = [agent EXCEPT ![job.agent].links = job.outlets]
  /\ job' = Idle
  /\ UNCHANGED <<governs, brands, outlet>>

(* update with another brand: the row, then the links outside the brand.   *)
MoveAgent(a, g, b) ==
  /\ job = Idle
  /\ Reaches(a, g)
  /\ b \in BrandsOf(a) /\ b # agent[g].brand
  /\ agent' = [agent EXCEPT ![g].brand = b]
  /\ job' = Job("drop", g, a, {})
  /\ UNCHANGED <<governs, brands, outlet>>

DropLinks ==
  /\ job.at = "drop"
  /\ LET g == job.agent
     IN agent' = [agent EXCEPT ![g].links = @ \cap Assignable(job.by, agent[g].brand)]
  /\ job' = Idle
  /\ UNCHANGED <<governs, brands, outlet>>

RemoveAgent(a, g) ==
  /\ job = Idle
  /\ Reaches(a, g)
  /\ agent' = [agent EXCEPT ![g] = None]
  /\ UNCHANGED <<governs, brands, outlet, job>>

Stop ==
  /\ job # Idle
  /\ job' = Idle
  /\ UNCHANGED <<governs, brands, outlet, agent>>

Owners ==
  \/ \E b \in Brands : CreateBrand(b)
  \/ \E a \in Admins, o \in Outlets, b \in Brands \cup {None} :
        CreateOutlet(a, o, b) \/ UpdateOutlet(a, o, b)
  \/ \E a \in Admins, g \in Agents :
        \/ \E b \in Brands \cup {None}, outlets \in SUBSET Open : CreateAgent(a, g, b, outlets)
        \/ \E outlets \in SUBSET Open : AssignOutlets(a, g, outlets)
        \/ \E b \in Brands : MoveAgent(a, g, b)
        \/ RemoveAgent(a, g)
  \/ \E g \in Agents, b \in brands \cup {None} : Register(g, b)

Operator ==
  \/ \E a \in Admins, outlets \in SUBSET Open : AssignOwner(a, outlets)
  \/ \E a \in Admins \ Operators, on \in BOOLEAN : SetManageAll(a, on)

Next == Owners \/ Operator \/ CheckOutlets \/ ReplaceLinks \/ DropLinks \/ Stop

Spec == Init /\ [][Next]_vars

-----------------------------------------------------------------------------
(* "must be within the agent's brand": an agent's link leads to an outlet  *)
(* of another brand only because that outlet changed brand, or between the *)
(* two writes of the request that moves the agent.                         *)
Foreign(g) ==
  IF agent[g] = None \/ agent[g].brand = None THEN {}
  ELSE {o \in agent[g].links : outlet[o].brand # agent[g].brand}

LinksStayInBrand ==
  [][\A g \in Agents : \A o \in Foreign(g)' \ Foreign(g) :
        \/ outlet[o].brand' # outlet[o].brand
        \/ job'.at = "drop" /\ job'.agent = g]_vars

(* "Each brand groups its own outlets": an outlet leaves the brands of its *)
(* owner only if the operator hands it to another owner, or an admin who   *)
(* manages all outlets moves it to a brand of his own.                     *)
Split(o) == o \in Open /\ outlet[o].brand # None /\ BrandOwner[outlet[o].brand] # outlet[o].owner

OutletStaysWithOwner ==
  [][\A o \in Outlets : Split(o)' /\ ~Split(o) =>
        \/ outlet'[o].owner # outlet[o].owner
        \/ ManagesAll(BrandOwner[outlet'[o].brand])]_vars

(* Because no link means no limit, an agent may sell at one more outlet    *)
(* than before only if a request that was checked named that outlet or no  *)
(* outlet at all, or when the move to another brand took his last link.    *)
ReachGrowsOnRequest ==
  [][\A g \in Agents, o \in Outlets :
        (agent[g] # None /\ agent'[g] # None /\ MaySell(g, o)' /\ ~MaySell(g, o))
           => /\ job.agent = g
              /\ \/ job.at = "link" /\ agent'[g].links = job.outlets
                    /\ (o \in job.outlets \/ job.outlets = {})
                 \/ job.at = "drop" /\ agent'[g].links = {}]_vars
=============================================================================
