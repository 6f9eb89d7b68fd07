-------------------------- MODULE AgentScopeProofs --------------------------
(***************************************************************************)
(* Theorems about AgentScope, for every set of admins, brands, outlets and *)
(* agents.                                                                 *)
(***************************************************************************)
EXTENDS AgentScope, TLAPS

(* Every table holds rows of its own kind.                                 *)
TypeOK ==
  /\ governs \subseteq Admins /\ brands \subseteq Brands
  /\ outlet \in [Outlets -> OutletRows \cup {None}]
  /\ agent \in [Agents -> AgentRows \cup {None}]

JobTyped ==
  \/ job = Idle
  \/ job \in [at: {"check", "link", "drop"}, agent: Agents, by: Admins, outlets: SUBSET Open]

(* A link leads to an outlet that exists: outlets are never deleted.       *)
LinksExist == \A g \in Agents : agent[g] # None => agent[g].links \subseteq Open

(* What a request has checked is still true when it writes: nothing can    *)
(* come in between, as requests follow each other.                         *)
CheckedStays ==
  job # Idle =>
    /\ agent[job.agent] # None
    /\ job.at = "link" => job.outlets \subseteq Assignable(job.by, agent[job.agent].brand)

IInv == TypeOK /\ JobTyped /\ LinksExist /\ CheckedStays

-----------------------------------------------------------------------------
LEMMA InitIsGood == Init => IInv
<1> SUFFICES ASSUME Init PROVE IInv
  OBVIOUS
<1>1. TypeOK /\ LinksExist
  BY ScopeAssumption DEF Init, TypeOK, LinksExist
<1>2. JobTyped /\ CheckedStays
  BY DEF Init, JobTyped, CheckedStays
<1> QED BY <1>1, <1>2 DEF IInv

(* A request that has just begun, or goes on.                              *)
LEMMA NotIdle ==
  ASSUME NEW step \in {"check", "link", "drop"}, NEW g, NEW a, NEW outlets
  PROVE  /\ Job(step, g, a, outlets) # Idle
         /\ Job(step, g, a, outlets).at = step
         /\ Job(step, g, a, outlets).agent = g
         /\ Job(step, g, a, outlets).by = a
         /\ Job(step, g, a, outlets).outlets = outlets
<1> DEFINE j == Job(step, g, a, outlets)
<1>1. j.at = step /\ Idle.at = "idle"
  BY DEF Job, Idle
<1>2. step # "idle"
  OBVIOUS
<1>3. j # Idle
  BY <1>1, <1>2
<1> QED BY <1>3 DEF Job

(* Actions that change outlets keep the rows that are there.               *)
LEMMA OutletsIsGood ==
  ASSUME IInv, job = Idle, job' = job, agent' = agent,
         governs' \subseteq Admins, brands' \subseteq Brands,
         outlet' \in [Outlets -> OutletRows \cup {None}],
         \A o \in Outlets : outlet[o] # None => outlet'[o] # None
  PROVE  IInv'
<1>1. TypeOK'
  BY DEF IInv, TypeOK
<1>2. JobTyped' /\ CheckedStays'
  BY DEF JobTyped, CheckedStays, Idle
<1>3. LinksExist'
  BY DEF IInv, LinksExist, Open
<1> QED BY <1>1, <1>2, <1>3 DEF IInv

LEMMA CreateOutletIsGood ==
  ASSUME IInv, NEW a \in Admins, NEW o \in Outlets, NEW b \in Brands \cup {None}, CreateOutlet(a, o, b)
  PROVE  IInv'
<1>1. [owner |-> a, brand |-> b] \in OutletRows
  BY DEF OutletRows
<1>2. /\ job = Idle /\ job' = job /\ agent' = agent /\ governs' = governs /\ brands' = brands
      /\ outlet' = [outlet EXCEPT ![o] = [owner |-> a, brand |-> b]]
  BY DEF CreateOutlet
<1>3. /\ outlet' \in [Outlets -> OutletRows \cup {None}]
      /\ \A p \in Outlets : outlet[p] # None => outlet'[p] # None
  BY <1>1, <1>2, ScopeAssumption DEF IInv, TypeOK
<1>4. governs' \subseteq Admins /\ brands' \subseteq Brands
  BY <1>2 DEF IInv, TypeOK
<1> QED BY <1>2, <1>3, <1>4, OutletsIsGood

(* What updateOutlet writes: the brand of one row.                         *)
LEMMA UpdateOutletRow ==
  ASSUME TypeOK, NEW a \in Admins, NEW o \in Outlets, NEW b \in Brands \cup {None}, UpdateOutlet(a, o, b)
  PROVE  /\ outlet[o] \in OutletRows
         /\ outlet' \in [Outlets -> OutletRows \cup {None}]
         /\ outlet'[o] \in OutletRows
         /\ outlet'[o].owner = outlet[o].owner /\ outlet'[o].brand = b
         /\ \A p \in Outlets \ {o} : outlet'[p] = outlet[p]
<1>1. o \in Open /\ outlet[o] \in OutletRows
  BY DEF UpdateOutlet, Owned, Open, TypeOK
<1>2. outlet' = [outlet EXCEPT ![o] = [outlet[o] EXCEPT !.brand = b]]
  BY DEF UpdateOutlet
<1> DEFINE new == [outlet[o] EXCEPT !.brand = b]
<1>3. new \in OutletRows /\ new.owner = outlet[o].owner /\ new.brand = b
  BY <1>1 DEF OutletRows
<1> HIDE DEF new
<1> QED BY <1>1, <1>2, <1>3 DEF TypeOK, new

LEMMA UpdateOutletIsGood ==
  ASSUME IInv, NEW a \in Admins, NEW o \in Outlets, NEW b \in Brands \cup {None}, UpdateOutlet(a, o, b)
  PROVE  IInv'
<1>1. job = Idle /\ job' = job /\ agent' = agent /\ governs' = governs /\ brands' = brands
  BY DEF UpdateOutlet
<1>2. /\ outlet' \in [Outlets -> OutletRows \cup {None}]
      /\ \A p \in Outlets : outlet[p] # None => outlet'[p] # None
  BY UpdateOutletRow, ScopeAssumption DEF IInv
<1>3. governs' \subseteq Admins /\ brands' \subseteq Brands
  BY <1>1 DEF IInv, TypeOK
<1> QED BY <1>1, <1>2, <1>3, OutletsIsGood

(* A hand-over changes owners only.                                        *)
LEMMA AssignOwnerRows ==
  ASSUME TypeOK, NEW a \in Admins, NEW outlets \in SUBSET Open, AssignOwner(a, outlets)
  PROVE  /\ outlet' \in [Outlets -> OutletRows \cup {None}]
         /\ \A o \in Outlets :
              \/ outlet'[o] = outlet[o]
              \/ /\ outlet[o] \in OutletRows /\ outlet'[o] \in OutletRows
                 /\ outlet'[o].brand = outlet[o].brand
<1> DEFINE to(o, x) == [outlet[o] EXCEPT !.owner = x]
<1>1. ASSUME NEW o \in Open, NEW x \in Admins \cup {None}
      PROVE  outlet[o] \in OutletRows /\ to(o, x) \in OutletRows /\ to(o, x).brand = outlet[o].brand
  <2>1. outlet[o] \in OutletRows
    BY DEF Open, TypeOK
  <2> QED BY <2>1 DEF OutletRows
<1>2. outlet' = [o \in Outlets |->
                 IF o \in outlets THEN to(o, a)
                 ELSE IF o \in Open /\ outlet[o].owner = a THEN to(o, None)
                 ELSE outlet[o]]
  BY DEF AssignOwner
<1>3. ASSUME NEW o \in Outlets
      PROVE  \/ outlet'[o] = outlet[o]
             \/ o \in Open /\ outlet'[o] \in {to(o, a), to(o, None)}
  BY <1>2
<1> HIDE DEF to
<1>4. ASSUME NEW o \in Outlets
      PROVE  /\ outlet'[o] \in OutletRows \cup {None}
             /\ \/ outlet'[o] = outlet[o]
                \/ /\ outlet[o] \in OutletRows /\ outlet'[o] \in OutletRows
                   /\ outlet'[o].brand = outlet[o].brand
  BY <1>1, <1>3 DEF TypeOK
<1> QED BY <1>2, <1>4

LEMMA AssignOwnerIsGood ==
  ASSUME IInv, NEW a \in Admins, NEW outlets \in SUBSET Open, AssignOwner(a, outlets)
  PROVE  IInv'
<1>1. job = Idle /\ job' = job /\ agent' = agent /\ governs' = governs /\ brands' = brands
  BY DEF AssignOwner
<1>2. /\ outlet' \in [Outlets -> OutletRows \cup {None}]
      /\ \A p \in Outlets : outlet[p] # None => outlet'[p] # None
  BY AssignOwnerRows, ScopeAssumption DEF IInv
<1>3. governs' \subseteq Admins /\ brands' \subseteq Brands
  BY <1>1 DEF IInv, TypeOK
<1> QED BY <1>1, <1>2, <1>3, OutletsIsGood

-----------------------------------------------------------------------------
(* Actions that write the row of one agent.                                *)
LEMMA AgentIsGood ==
  ASSUME IInv, outlet' = outlet, governs' = governs, brands' = brands,
         NEW g \in Agents, NEW row \in AgentRows \cup {None},
         row # None => row.links \subseteq Open,
         agent' = [agent EXCEPT ![g] = row],
         JobTyped', CheckedStays'
  PROVE  IInv'
<1>1. TypeOK'
  BY DEF IInv, TypeOK
<1>2. LinksExist'
  BY DEF IInv, TypeOK, LinksExist, Open
<1> QED BY <1>1, <1>2 DEF IInv

LEMMA CreateAgentIsGood ==
  ASSUME IInv, NEW a \in Admins, NEW g \in Agents, NEW choice \in Brands \cup {None},
         NEW outlets \in SUBSET Open, CreateAgent(a, g, choice, outlets)
  PROVE  IInv'
<1>1. PICK b \in Resolved(a, choice) :
        agent' = [agent EXCEPT ![g] = [admin |-> a, brand |-> b, links |-> {}]]
  BY DEF CreateAgent
<1>2. b \in Brands \cup {None}
  BY DEF Resolved, BrandsOf, IInv, TypeOK
<1> DEFINE row == [admin |-> a, brand |-> b, links |-> {}]
<1>3. row \in AgentRows /\ row.links = {} /\ row # None
  BY <1>2, ScopeAssumption DEF AgentRows
<1> HIDE DEF row
<1>4. /\ outlet' = outlet /\ governs' = governs /\ brands' = brands
      /\ job' = IF outlets = {} THEN Idle ELSE Job("check", g, a, outlets)
  BY DEF CreateAgent
<1>5. agent' = [agent EXCEPT ![g] = row] /\ agent'[g] # None
  BY <1>1, <1>3 DEF row, IInv, TypeOK
<1>6. JobTyped' /\ CheckedStays'
  <2>1. CASE job' = Idle
    BY <2>1 DEF JobTyped, CheckedStays, Idle
  <2>2. CASE job' = Job("check", g, a, outlets)
    <3>1. job'.at = "check" /\ job'.agent = g
      BY <2>2, NotIdle
    <3>2. Job("check", g, a, outlets) \in
            [at: {"check", "link", "drop"}, agent: Agents, by: Admins, outlets: SUBSET Open']
      BY <1>4 DEF Job, Open
    <3> QED BY <2>2, <3>1, <3>2, <1>5 DEF JobTyped, CheckedStays
  <2> QED BY <1>4, <2>1, <2>2
<1> QED BY <1>3, <1>4, <1>5, <1>6, AgentIsGood

LEMMA RegisterIsGood ==
  ASSUME IInv, NEW g \in Agents, NEW b \in brands \cup {None}, Register(g, b)
  PROVE  IInv'
<1> DEFINE row == [admin |-> IF b = None THEN None ELSE BrandOwner[b], brand |-> b, links |-> {}]
<1>1. row \in AgentRows /\ row.links = {}
  BY ScopeAssumption DEF AgentRows, IInv, TypeOK
<1> HIDE DEF row
<1>2. /\ outlet' = outlet /\ governs' = governs /\ brands' = brands
      /\ job = Idle /\ job' = Idle /\ agent' = [agent EXCEPT ![g] = row]
  BY DEF Register, row
<1>3. JobTyped' /\ CheckedStays'
  BY <1>2 DEF JobTyped, CheckedStays, Idle
<1> QED BY <1>1, <1>2, <1>3, AgentIsGood

LEMMA AssignOutletsIsGood ==
  ASSUME IInv, NEW a \in Admins, NEW g \in Agents, NEW outlets \in SUBSET Open,
         AssignOutlets(a, g, outlets)
  PROVE  IInv'
<1>1. /\ job' = Job("check", g, a, outlets) /\ agent[g] # None
      /\ UNCHANGED <<governs, brands, outlet, agent>>
  BY DEF AssignOutlets, Reaches
<1>2. job'.at = "check" /\ job'.agent = g
  BY <1>1, NotIdle
<1>3. Job("check", g, a, outlets) \in
        [at: {"check", "link", "drop"}, agent: Agents, by: Admins, outlets: SUBSET Open']
  BY <1>1 DEF Job, Open
<1>4. JobTyped' /\ CheckedStays'
  BY <1>1, <1>2, <1>3 DEF JobTyped, CheckedStays
<1>5. TypeOK' /\ LinksExist'
  BY <1>1 DEF IInv, TypeOK, LinksExist, Open
<1> QED BY <1>4, <1>5 DEF IInv

LEMMA CheckOutletsIsGood ==
  ASSUME IInv, CheckOutlets
  PROVE  IInv'
<1>1. /\ job.at = "check" /\ UNCHANGED <<governs, brands, outlet, agent>>
      /\ job' = IF job.outlets \subseteq Assignable(job.by, agent[job.agent].brand)
                  THEN [job EXCEPT !.at = "link"] ELSE Idle
  BY DEF CheckOutlets
<1>2. job # Idle /\ job \in [at: {"check", "link", "drop"}, agent: Agents, by: Admins, outlets: SUBSET Open]
  BY <1>1 DEF IInv, JobTyped, Idle
<1>3. TypeOK' /\ LinksExist'
  BY <1>1 DEF IInv, TypeOK, LinksExist, Open
<1>4. JobTyped' /\ CheckedStays'
  <2>1. CASE job' = Idle
    BY <2>1 DEF JobTyped, CheckedStays, Idle
  <2>2. CASE /\ job.outlets \subseteq Assignable(job.by, agent[job.agent].brand)
             /\ job' = [job EXCEPT !.at = "link"]
    <3>1. /\ job' \in [at: {"check", "link", "drop"}, agent: Agents, by: Admins, outlets: SUBSET Open]
          /\ job'.agent = job.agent /\ job'.by = job.by /\ job'.outlets = job.outlets
      BY <1>2, <2>2
    <3>2. \A a, b : Assignable(a, b)' = Assignable(a, b)
      BY <1>1 DEF Assignable, Open, Owned, ManagesAll
    <3>3. Open' = Open
      BY <1>1 DEF Open
    <3>4. JobTyped'
      BY <3>1, <3>3 DEF JobTyped
    <3>5. CheckedStays'
      BY <1>1, <1>2, <2>2, <3>1, <3>2 DEF IInv, CheckedStays
    <3> QED BY <3>4, <3>5
  <2> QED BY <1>1, <2>1, <2>2
<1> QED BY <1>3, <1>4 DEF IInv

LEMMA ReplaceLinksIsGood ==
  ASSUME IInv, ReplaceLinks
  PROVE  IInv'
<1> DEFINE g == job.agent
           row == [agent[g] EXCEPT !.links = job.outlets]
<1>1. /\ job.at = "link" /\ outlet' = outlet /\ governs' = governs /\ brands' = brands
      /\ job' = Idle /\ agent' = [agent EXCEPT ![g] = row]
  BY DEF ReplaceLinks
<1>2. /\ g \in Agents /\ job.outlets \in SUBSET Open
      /\ agent[g] \in AgentRows
  BY <1>1 DEF IInv, TypeOK, JobTyped, CheckedStays, Idle
<1>3. row \in AgentRows /\ row.links = job.outlets
  BY <1>2 DEF AgentRows, Open
<1>4. JobTyped' /\ CheckedStays'
  BY <1>1 DEF JobTyped, CheckedStays
<1> HIDE DEF g, row
<1> QED BY <1>1, <1>2, <1>3, <1>4, AgentIsGood

LEMMA MoveAgentIsGood ==
  ASSUME IInv, NEW a \in Admins, NEW g \in Agents, NEW b \in Brands, MoveAgent(a, g, b)
  PROVE  IInv'
<1> DEFINE row == [agent[g] EXCEPT !.brand = b]
<1>1. /\ agent[g] # None /\ outlet' = outlet /\ governs' = governs /\ brands' = brands
      /\ job' = Job("drop", g, a, {}) /\ agent' = [agent EXCEPT ![g] = row]
  BY DEF MoveAgent, Reaches
<1>2. agent[g] \in AgentRows /\ agent[g].links \subseteq Open
  BY <1>1 DEF IInv, TypeOK, LinksExist
<1>3. row \in AgentRows /\ row.links \subseteq Open /\ row # None
  BY <1>2, ScopeAssumption DEF AgentRows
<1> HIDE DEF row
<1>4. agent'[g] # None
  BY <1>1, <1>3 DEF IInv, TypeOK
<1>5. JobTyped' /\ CheckedStays'
  <2>1. job'.at = "drop" /\ job'.agent = g
    BY <1>1, NotIdle
  <2>2. Job("drop", g, a, {}) \in
          [at: {"check", "link", "drop"}, agent: Agents, by: Admins, outlets: SUBSET Open']
    BY DEF Job
  <2> QED BY <1>1, <1>4, <2>1, <2>2 DEF JobTyped, CheckedStays
<1> QED BY <1>1, <1>3, <1>5, AgentIsGood

LEMMA DropLinksIsGood ==
  ASSUME IInv, DropLinks
  PROVE  IInv'
<1> DEFINE g == job.agent
           row == [agent[g] EXCEPT !.links = @ \cap Assignable(job.by, agent[g].brand)]
<1>1. /\ job.at = "drop" /\ outlet' = outlet /\ governs' = governs /\ brands' = brands
      /\ job' = Idle /\ agent' = [agent EXCEPT ![g] = row]
  BY DEF DropLinks
<1>2. g \in Agents /\ agent[g] # None /\ agent[g] \in AgentRows /\ agent[g].links \subseteq Open
  BY <1>1 DEF IInv, TypeOK, JobTyped, CheckedStays, LinksExist, Idle
<1>3. row \in AgentRows /\ row.links \subseteq Open
  BY <1>2 DEF AgentRows
<1>4. JobTyped' /\ CheckedStays'
  BY <1>1 DEF JobTyped, CheckedStays
<1> HIDE DEF g, row
<1> QED BY <1>1, <1>2, <1>3, <1>4, AgentIsGood

LEMMA RemoveAgentIsGood ==
  ASSUME IInv, NEW a \in Admins, NEW g \in Agents, RemoveAgent(a, g)
  PROVE  IInv'
<1>1. /\ outlet' = outlet /\ governs' = governs /\ brands' = brands
      /\ job = Idle /\ job' = job /\ agent' = [agent EXCEPT ![g] = None]
  BY DEF RemoveAgent
<1>2. JobTyped' /\ CheckedStays'
  BY <1>1 DEF JobTyped, CheckedStays
<1> QED BY <1>1, <1>2, AgentIsGood

LEMMA StepsAreGood == IInv /\ [Next]_vars => IInv'
<1> SUFFICES ASSUME IInv, [Next]_vars PROVE IInv'
  OBVIOUS
<1>1. ASSUME NEW b \in Brands, CreateBrand(b) PROVE IInv'
  <2>1. /\ job = Idle /\ job' = job /\ agent' = agent /\ governs' = governs /\ outlet' = outlet
        /\ brands' = brands \cup {b}
    BY <1>1 DEF CreateBrand
  <2> QED BY <2>1, OutletsIsGood DEF IInv, TypeOK
<1>2. ASSUME NEW a \in Admins, NEW on \in BOOLEAN, SetManageAll(a, on) PROVE IInv'
  <2>1. /\ job = Idle /\ job' = job /\ agent' = agent /\ outlet' = outlet /\ brands' = brands
        /\ governs' \subseteq governs \cup {a}
    BY <1>2 DEF SetManageAll
  <2> QED BY <2>1, OutletsIsGood DEF IInv, TypeOK
<1>3. CASE Stop
  <2>1. job' = Idle /\ UNCHANGED <<governs, brands, outlet, agent>>
    BY <1>3 DEF Stop
  <2> QED BY <2>1 DEF IInv, TypeOK, JobTyped, LinksExist, CheckedStays, Open
<1>4. CASE UNCHANGED vars
  <2>1. UNCHANGED <<governs, brands, outlet, agent, job>>
    BY <1>4 DEF vars
  <2>2. Open' = Open /\ \A a, b : Assignable(a, b)' = Assignable(a, b)
    BY <2>1 DEF Open, Assignable, Owned, ManagesAll
  <2> QED BY <2>1, <2>2 DEF IInv, TypeOK, JobTyped, LinksExist, CheckedStays
<1>5. CASE Owners
  BY <1>1, <1>5, CreateOutletIsGood, UpdateOutletIsGood, CreateAgentIsGood, AssignOutletsIsGood,
     MoveAgentIsGood, RemoveAgentIsGood, RegisterIsGood DEF Owners
<1>6. CASE Operator
  BY <1>2, <1>6, AssignOwnerIsGood DEF Operator
<1> QED
  BY <1>3, <1>4, <1>5, <1>6, CheckOutletsIsGood, ReplaceLinksIsGood, DropLinksIsGood DEF Next

-----------------------------------------------------------------------------
(* Steps that write no link to another brand: agents keep their brand and  *)
(* their links, or have none, and outlets keep their brands.               *)
LEMMA NoForeignLink ==
  ASSUME IInv, NEW g \in Agents, NEW o \in Foreign(g)', o \notin Foreign(g), agent'[g] = agent[g]
  PROVE  outlet'[o].brand # outlet[o].brand
BY DEF Foreign

(* An agent's links leave his brand only with the outlet, or between the   *)
(* two writes of the request that moves the agent.                         *)
THEOREM LinksStay == Spec => LinksStayInBrand
<1> DEFINE Excused(g, o) == \/ outlet[o].brand' # outlet[o].brand
                            \/ job'.at = "drop" /\ job'.agent = g
           Fine == \A g \in Agents : \A o \in Foreign(g)' \ Foreign(g) : Excused(g, o)
<1>1. IInv /\ [Next]_vars => Fine
  <2> SUFFICES ASSUME IInv, [Next]_vars, NEW g \in Agents, NEW o \in Foreign(g)' \ Foreign(g),
                      agent'[g] # agent[g]
               PROVE  Excused(g, o)
    BY NoForeignLink
  <2>1. /\ agent'[g] # None /\ agent'[g].brand # None /\ o \in agent'[g].links
        /\ outlet'[o].brand # agent'[g].brand
    BY DEF Foreign
  <2>2. ASSUME NEW a \in Admins, NEW f \in Agents, NEW choice \in Brands \cup {None},
               NEW outlets \in SUBSET Open, CreateAgent(a, f, choice, outlets)
        PROVE  FALSE
    <3>1. PICK b : agent' = [agent EXCEPT ![f] = [admin |-> a, brand |-> b, links |-> {}]]
      BY <2>2 DEF CreateAgent
    <3> QED BY <2>1, <3>1 DEF IInv, TypeOK
  <2>3. ASSUME NEW f \in Agents, NEW b \in brands \cup {None}, Register(f, b)
        PROVE  FALSE
    BY <2>1, <2>3 DEF Register, IInv, TypeOK
  <2>4. ASSUME NEW a \in Admins, NEW f \in Agents, NEW b \in Brands, MoveAgent(a, f, b)
        PROVE  Excused(g, o)
    <3>1. f = g /\ job' = Job("drop", g, a, {})
      BY <2>4 DEF MoveAgent, IInv, TypeOK
    <3> QED BY <3>1, NotIdle
  <2>5. ASSUME NEW a \in Admins, NEW f \in Agents, RemoveAgent(a, f)
        PROVE  FALSE
    BY <2>1, <2>5 DEF RemoveAgent, IInv, TypeOK
  <2>6. CASE ReplaceLinks
    <3>1. job.at = "link" /\ job # Idle /\ outlet' = outlet
          /\ agent' = [agent EXCEPT ![job.agent].links = job.outlets]
      BY <2>6 DEF ReplaceLinks, Idle
    <3>2. job.agent = g /\ agent[g] \in AgentRows
      BY <3>1 DEF IInv, TypeOK, CheckedStays
    <3>3. agent'[g].links = job.outlets /\ agent'[g].brand = agent[g].brand
      BY <3>1, <3>2 DEF IInv, TypeOK, AgentRows
    <3>4. o \in Assignable(job.by, agent[g].brand)
      BY <2>1, <3>1, <3>2, <3>3 DEF IInv, CheckedStays
    <3>5. outlet[o].brand = agent[g].brand
      BY <2>1, <3>3, <3>4 DEF Assignable
    <3> QED BY <2>1, <3>1, <3>3, <3>5
  <2>7. CASE DropLinks
    <3>1. job.at = "drop" /\ job # Idle /\ outlet' = outlet
          /\ agent' = [agent EXCEPT ![job.agent].links = @ \cap Assignable(job.by, agent[job.agent].brand)]
      BY <2>7 DEF DropLinks, Idle
    <3>2. job.agent = g /\ agent[g] \in AgentRows
      BY <3>1 DEF IInv, TypeOK, CheckedStays
    <3>3. /\ agent'[g].links = agent[g].links \cap Assignable(job.by, agent[g].brand)
          /\ agent'[g].brand = agent[g].brand
      BY <3>1, <3>2 DEF IInv, TypeOK, AgentRows
    <3>4. outlet[o].brand = agent[g].brand
      BY <2>1, <3>3 DEF Assignable
    <3> QED BY <2>1, <3>1, <3>3, <3>4
  <2>8. CASE agent' = agent
    BY <2>8
  <2>9. CASE Owners
    BY <2>2, <2>3, <2>4, <2>5, <2>8, <2>9
       DEF Owners, CreateBrand, CreateOutlet, UpdateOutlet, AssignOutlets
  <2>10. CASE Operator
    BY <2>8, <2>10 DEF Operator, AssignOwner, SetManageAll
  <2> QED BY <2>6, <2>7, <2>8, <2>9, <2>10 DEF Next, CheckOutlets, Stop, vars
<1> QED BY InitIsGood, StepsAreGood, <1>1, PTL DEF Spec, LinksStayInBrand

(* An outlet leaves the brands of its owner only if it is handed over, or  *)
(* an admin of all outlets moves it to a brand of his own.                 *)
THEOREM OutletsStay == Spec => OutletStaysWithOwner
<1> DEFINE Fine == \A o \in Outlets : Split(o)' /\ ~Split(o) =>
                     \/ outlet'[o].owner # outlet[o].owner
                     \/ ManagesAll(BrandOwner[outlet'[o].brand])
<1>1. IInv /\ [Next]_vars => Fine
  <2> SUFFICES ASSUME IInv, [Next]_vars, NEW o \in Outlets, Split(o)', ~Split(o),
                      outlet'[o] # outlet[o]
               PROVE  \/ outlet'[o].owner # outlet[o].owner
                      \/ ManagesAll(BrandOwner[outlet'[o].brand])
    BY DEF Split, Open
  <2>1. outlet'[o].brand # None /\ BrandOwner[outlet'[o].brand] # outlet'[o].owner
    BY DEF Split
  <2>2. ASSUME NEW a \in Admins, NEW p \in Outlets, NEW b \in Brands \cup {None}, CreateOutlet(a, p, b)
        PROVE  FALSE
    <3>1. outlet'[o] = [owner |-> a, brand |-> b]
      BY <2>2 DEF CreateOutlet, IInv, TypeOK
    <3>2. b \in BrandsOf(a) \cup {None}
      BY <2>2 DEF CreateOutlet
    <3> QED BY <2>1, <3>1, <3>2 DEF BrandsOf
  <2>3. ASSUME NEW a \in Admins, NEW p \in Outlets, NEW b \in Brands \cup {None}, UpdateOutlet(a, p, b)
        PROVE  ManagesAll(BrandOwner[outlet'[o].brand])
    <3>1. /\ p = o /\ outlet'[o].owner = outlet[o].owner /\ outlet'[o].brand = b
          /\ outlet[o] \in OutletRows
      BY <2>3, UpdateOutletRow DEF IInv
    <3>2. b \in BrandsOf(a) \cup {outlet[o].brand} /\ o \in Owned(a)
      BY <2>3, <3>1 DEF UpdateOutlet
    <3>3. b # outlet[o].brand
      BY <2>1, <3>1, <3>2 DEF Split, Owned
    <3>4. BrandOwner[b] = a
      BY <3>2, <3>3 DEF BrandsOf
    <3> QED BY <2>1, <3>1, <3>2, <3>4 DEF Owned
  <2>4. ASSUME NEW a \in Admins, NEW outlets \in SUBSET Open, AssignOwner(a, outlets)
        PROVE  outlet'[o].owner # outlet[o].owner
    <3>1. /\ outlet[o] \in OutletRows /\ outlet'[o] \in OutletRows
          /\ outlet'[o].brand = outlet[o].brand
      BY <2>4, AssignOwnerRows DEF IInv
    <3>2. o \in Open
      BY <3>1, ScopeAssumption DEF Open
    <3> QED BY <2>1, <3>1, <3>2 DEF Split
  <2>5. CASE Owners
    BY <2>2, <2>3, <2>5
       DEF Owners, CreateBrand, CreateAgent, AssignOutlets, MoveAgent, RemoveAgent, Register
  <2>6. CASE Operator
    BY <2>4, <2>6 DEF Operator, SetManageAll
  <2> QED BY <2>5, <2>6 DEF Next, CheckOutlets, ReplaceLinks, DropLinks, Stop, vars
<1> QED BY InitIsGood, StepsAreGood, <1>1, PTL DEF Spec, OutletStaysWithOwner

(* An agent may sell at one more outlet only by a checked request that     *)
(* names it or none, or because a move took his last link.                 *)
THEOREM ReachGrows == Spec => ReachGrowsOnRequest
<1> DEFINE Fine ==
      \A g \in Agents, o \in Outlets :
        (agent[g] # None /\ agent'[g] # None /\ MaySell(g, o)' /\ ~MaySell(g, o))
           => /\ job.agent = g
              /\ \/ job.at = "link" /\ agent'[g].links = job.outlets
                    /\ (o \in job.outlets \/ job.outlets = {})
                 \/ job.at = "drop" /\ agent'[g].links = {}
<1>1. IInv /\ [Next]_vars => Fine
  <2> SUFFICES ASSUME IInv, [Next]_vars, NEW g \in Agents, NEW o \in Outlets,
                      agent[g] # None, agent'[g] # None, MaySell(g, o)', ~MaySell(g, o)
               PROVE  /\ job.agent = g
                      /\ \/ job.at = "link" /\ agent'[g].links = job.outlets
                            /\ (o \in job.outlets \/ job.outlets = {})
                         \/ job.at = "drop" /\ agent'[g].links = {}
    OBVIOUS
  <2>1. agent[g] \in AgentRows /\ o \notin agent[g].links /\ agent[g].links # {}
    BY DEF IInv, TypeOK, MaySell
  <2>2. agent'[g].links = {} \/ o \in agent'[g].links
    BY DEF MaySell
  <2>3. agent'[g].links # agent[g].links
    BY <2>1, <2>2
  <2>4. CASE ReplaceLinks
    <3>1. /\ job.at = "link" /\ job.agent \in Agents
          /\ agent' = [agent EXCEPT ![job.agent].links = job.outlets]
      BY <2>4 DEF ReplaceLinks, IInv, JobTyped, Idle
    <3>2. job.agent = g
      BY <2>3, <3>1 DEF IInv, TypeOK
    <3>3. agent'[g].links = job.outlets
      BY <2>1, <3>1, <3>2 DEF IInv, TypeOK, AgentRows
    <3> QED BY <2>2, <3>1, <3>2, <3>3
  <2>5. CASE DropLinks
    <3>1. /\ job.at = "drop" /\ job.agent \in Agents
          /\ agent' = [agent EXCEPT ![job.agent].links =
                         @ \cap Assignable(job.by, agent[job.agent].brand)]
      BY <2>5 DEF DropLinks, IInv, JobTyped, Idle
    <3>2. job.agent = g
      BY <2>3, <3>1 DEF IInv, TypeOK
    <3>3. agent'[g].links \subseteq agent[g].links
      BY <2>1, <3>1, <3>2 DEF IInv, TypeOK, AgentRows
    <3> QED BY <2>1, <2>2, <3>1, <3>2, <3>3
  <2>6. ASSUME NEW a \in Admins, NEW h \in Agents, NEW b \in Brands, MoveAgent(a, h, b)
        PROVE  FALSE
    <3>1. agent' = [agent EXCEPT ![h].brand = b]
      BY <2>6 DEF MoveAgent
    <3> QED BY <2>1, <2>3, <3>1 DEF IInv, TypeOK, AgentRows
  <2>7. ASSUME NEW a \in Admins, NEW h \in Agents, NEW b \in Brands \cup {None},
               NEW outlets \in SUBSET Open, CreateAgent(a, h, b, outlets)
        PROVE  FALSE
    BY <2>3, <2>7 DEF CreateAgent, IInv, TypeOK
  <2>8. ASSUME NEW a \in Admins, NEW h \in Agents, RemoveAgent(a, h)
        PROVE  FALSE
    BY <2>3, <2>8 DEF RemoveAgent, IInv, TypeOK
  <2>9. ASSUME NEW h \in Agents, NEW b \in brands \cup {None}, Register(h, b)
        PROVE  FALSE
    BY <2>3, <2>9 DEF Register, IInv, TypeOK
  <2>10. CASE Owners
    BY <2>3, <2>6, <2>7, <2>8, <2>9, <2>10
       DEF Owners, CreateBrand, CreateOutlet, UpdateOutlet, AssignOutlets
  <2>11. CASE Operator \/ CheckOutlets \/ Stop \/ UNCHANGED vars
    BY <2>3, <2>11 DEF Operator, AssignOwner, SetManageAll, CheckOutlets, Stop, vars
  <2> QED BY <2>4, <2>5, <2>10, <2>11 DEF Next
<1> QED BY InitIsGood, StepsAreGood, <1>1, PTL DEF Spec, ReachGrowsOnRequest
=============================================================================
