------------------------- MODULE QrisAccountProofs -------------------------
(***************************************************************************)
(* Theorems about the two sides of a QRIS account: its session at GoBiz    *)
(* (GobizSession), for every set of merchants, of overlapping cycles and   *)
(* of requests and any number of tokens; and the outlets whose money it    *)
(* receives (BrandRouting), for every set of brands, outlets, changes and  *)
(* overlapping requests and any number of accounts.                        *)
(***************************************************************************)
EXTENDS GobizSession, BrandRouting, WellFoundedInduction, TLAPS

(* The inductive invariant.  A job is of one of four kinds.                *)
Known == Merchants \cup {None}
RefreshJobs == [at: {"refresh"}, token: Tokens, listed: Known]
StoreJobs == [at: {"store"}, token: Tokens, from: Tokens \cup {None}, merchant: Known]
SearchJobs == [at: {"search"}, token: Tokens, merchant: Merchants]
Jobs == {Idle} \cup RefreshJobs \cup StoreJobs \cup SearchJobs

JobsTyped == job \in [Workers -> Jobs]

(* Nobody holds a token GoID has not issued.                               *)
TokensIssued ==
  /\ row.token # None => row.token <= issued
  /\ \A w \in Workers :
       /\ job[w] # Idle => job[w].token <= issued
       /\ Unsaved(w) /\ job[w].from # None => job[w].from <= issued

(* A token that was received and not stored is accepted, and nobody else   *)
(* holds it: no other trade can invalidate it before it is stored.         *)
UnsavedIsFresh ==
  \A w \in Workers : Unsaved(w) =>
    /\ job[w].token \in live
    /\ job[w].token # row.token
    /\ \A v \in Workers : v # w /\ job[v] # Idle => job[v].token # job[w].token

(* The merchant written beside a token is the one it was issued for.       *)
MerchantsMatch ==
  /\ row.merchant # None => row.token # None /\ row.merchant = whose[row.token]
  /\ \A w \in Workers :
       /\ job[w].at = "refresh" /\ job[w].listed # None => job[w].listed = whose[job[w].token]
       /\ job[w].at \in {"store", "search"} /\ job[w].merchant # None
            => job[w].merchant = whose[job[w].token]

IInv ==
  /\ TypeOK /\ JobsTyped /\ TokensIssued
  /\ UnsavedIsFresh /\ MerchantsMatch /\ SessionStaysAlive

-----------------------------------------------------------------------------
(* What is known of a job from the step it is at.                          *)
LEMMA JobKinds ==
  ASSUME NEW j \in Jobs
  PROVE  /\ j.at = "idle" <=> j = Idle
         /\ j.at = "refresh" <=> j \in RefreshJobs
         /\ j.at = "store" <=> j \in StoreJobs
         /\ j.at = "search" <=> j \in SearchJobs
         /\ j # Idle => j.token \in Tokens
         /\ j.at \in {"idle", "refresh", "store", "search"}
BY DEF Jobs, Idle, RefreshJobs, StoreJobs, SearchJobs

(* A step of one worker leaves the jobs of the others alone.               *)
LEMMA OneJob ==
  ASSUME JobsTyped, NEW w \in Workers, NEW j \in Jobs, Do(w, j)
  PROVE  JobsTyped' /\ job'[w] = j /\ \A v \in Workers \ {w} : job'[v] = job[v]
BY DEF JobsTyped, Do

LEMMA InitIsGood == Init => IInv
<1> SUFFICES ASSUME Init PROVE IInv
  OBVIOUS
<1>1. TypeOK /\ row.token = None /\ row.merchant = None
  BY SessionAssumption DEF Init, TypeOK, NoSession, Tokens
<1>2. JobsTyped /\ \A w \in Workers : job[w] = Idle
  BY DEF Init, JobsTyped, Jobs
<1>3. \A w \in Workers : job[w].at = "idle"
  BY <1>2 DEF Idle
<1>4. TokensIssued /\ UnsavedIsFresh /\ MerchantsMatch
  BY <1>1, <1>2, <1>3 DEF TokensIssued, UnsavedIsFresh, MerchantsMatch, Unsaved
<1> QED BY <1>1, <1>2, <1>4 DEF IInv, SessionStaysAlive

(* A worker becomes idle and nothing else changes.                         *)
LEMMA DoneIsGood ==
  ASSUME IInv, NEW w \in Workers, ~Unsaved(w), Done(w), UNCHANGED <<row, issued, whose, live, lost>>
  PROVE  IInv'
<1>1. JobsTyped' /\ job'[w] = Idle /\ \A v \in Workers \ {w} : job'[v] = job[v]
  BY OneJob DEF IInv, Done, Jobs
<1>2. Idle.at = "idle"
  BY DEF Idle
<1>3. TypeOK'
  BY DEF IInv, TypeOK
<1>4. TokensIssued'
  BY <1>1, <1>2 DEF IInv, TokensIssued, Unsaved
<1>5. UnsavedIsFresh'
  BY <1>1, <1>2 DEF IInv, UnsavedIsFresh, Unsaved
<1>6. MerchantsMatch'
  BY <1>1, <1>2 DEF IInv, MerchantsMatch
<1>7. SessionStaysAlive'
  BY <1>1, <1>2 DEF IInv, SessionStaysAlive, Unsaved
<1> QED BY <1>1, <1>3, <1>4, <1>5, <1>6, <1>7 DEF IInv

(* GoID issues a token that nobody had before.                             *)
LEMMA IssueIsTyped ==
  ASSUME TypeOK, issued < MaxTokens, issued' = issued + 1,
         NEW m \in Known, whose' = [whose EXCEPT ![issued + 1] = m]
  PROVE  /\ issued \in Nat /\ issued' \in 0 .. MaxTokens /\ issued + 1 \in Tokens
         /\ whose' \in [Tokens -> Known] /\ whose'[issued + 1] = m
         /\ \A t \in Tokens : t <= issued => whose'[t] = whose[t] /\ t # issued + 1
         /\ None # issued + 1
BY SessionAssumption DEF TypeOK, Tokens, Known

-----------------------------------------------------------------------------
(* Every step preserves the invariant: one lemma for each kind of step.    *)
LEMMA ListIsGood ==
  ASSUME IInv, NEW w \in Workers, List(w)
  PROVE  IInv'
<1> DEFINE j == [at |-> "refresh", token |-> row.token, listed |-> row.merchant]
<1>1. job[w] = Idle /\ row.token # None /\ Do(w, j) /\ UNCHANGED <<row, issued, whose, live, lost>>
  BY DEF List
<1>2. j \in RefreshJobs /\ j \in Jobs /\ j # Idle
  BY <1>1 DEF IInv, TypeOK, RefreshJobs, Jobs, Idle, Known
<1>3. j.at = "refresh" /\ j.token = row.token /\ j.listed = row.merchant
  OBVIOUS
<1> HIDE DEF j
<1>4. JobsTyped' /\ job'[w] = j /\ \A v \in Workers \ {w} : job'[v] = job[v]
  BY <1>1, <1>2, OneJob DEF IInv
<1>5. TypeOK'
  BY <1>1 DEF IInv, TypeOK
<1>6. TokensIssued'
  BY <1>1, <1>3, <1>4 DEF IInv, TokensIssued, Unsaved
<1>7. UnsavedIsFresh'
  BY <1>1, <1>3, <1>4 DEF IInv, UnsavedIsFresh, Unsaved
<1>8. MerchantsMatch'
  BY <1>1, <1>3, <1>4 DEF IInv, MerchantsMatch
<1>9. SessionStaysAlive'
  <2>1. ~Unsaved(w)
    BY <1>1 DEF Unsaved, Idle
  <2> QED BY <1>1, <1>4, <2>1 DEF IInv, SessionStaysAlive, Unsaved
<1> QED BY <1>4, <1>5, <1>6, <1>7, <1>8, <1>9 DEF IInv

(* A worker that was idle gets a token of its own from GoID: Paste and the *)
(* two outcomes of Connect.                                                *)
LEMMA NewSessionIsGood ==
  ASSUME IInv, NEW w \in Workers, job[w] = Idle, issued < MaxTokens,
         issued' = issued + 1, NEW m \in Merchants, whose' = [whose EXCEPT ![issued + 1] = m],
         live' = live \cup {issued + 1}, UNCHANGED <<row, lost>>,
         NEW j \in Jobs, Do(w, j), j.token = issued + 1, j.at \in {"refresh", "store"},
         j.at = "refresh" => j.listed = None,
         j.at = "store" => j.from = None /\ j.merchant \in {m, None}
  PROVE  IInv'
<1>1. /\ issued \in Nat /\ issued' \in 0 .. MaxTokens /\ issued + 1 \in Tokens
      /\ whose' \in [Tokens -> Known] /\ whose'[issued + 1] = m
      /\ \A t \in Tokens : t <= issued => whose'[t] = whose[t] /\ t # issued + 1
      /\ None # issued + 1
  BY IssueIsTyped DEF IInv, Known
<1>2. JobsTyped' /\ job'[w] = j /\ \A v \in Workers \ {w} : job'[v] = job[v]
  BY OneJob DEF IInv
<1>3. /\ \A v \in Workers : job[v] \in Jobs
      /\ \A v \in Workers : job[v] # Idle =>
           /\ job[v].token \in Tokens /\ job[v].token <= issued /\ job[v].token # issued + 1
           /\ whose'[job[v].token] = whose[job[v].token]
      /\ row.token # None =>
           /\ row.token \in Tokens /\ row.token <= issued
           /\ whose'[row.token] = whose[row.token]
      /\ row.token # issued + 1
  BY <1>1, JobKinds DEF IInv, JobsTyped, TokensIssued, TypeOK
<1>4. ~Unsaved(w) /\ \A v \in Workers : job[v].at # "idle" => job[v] # Idle
  BY DEF Unsaved, Idle
<1>5. TypeOK'
  BY <1>1 DEF IInv, TypeOK, Known
<1>6. TokensIssued'
  <2>1. \A v \in Workers : Unsaved(v) /\ job[v].from # None => job[v].from \in Tokens
    BY <1>3, JobKinds DEF Unsaved, StoreJobs
  <2>2. \A t \in Tokens : t <= issued => t <= issued'
    BY <1>1 DEF Tokens
  <2>3. issued + 1 <= issued'
    BY <1>1
  <2> QED BY <1>2, <1>3, <2>1, <2>2, <2>3 DEF IInv, TokensIssued, Unsaved
<1>7. UnsavedIsFresh'
  BY <1>2, <1>3, <1>4 DEF IInv, UnsavedIsFresh, Unsaved
<1>8. MerchantsMatch'
  <2>1. \A v \in Workers \ {w} :
          job[v].at \in {"refresh", "store", "search"} => whose'[job[v].token] = whose[job[v].token]
    BY <1>3, <1>4
  <2> QED BY <1>1, <1>2, <1>3, <2>1 DEF IInv, MerchantsMatch
<1>9. SessionStaysAlive'
  BY <1>2, <1>4 DEF IInv, SessionStaysAlive, Unsaved
<1> QED BY <1>2, <1>5, <1>6, <1>7, <1>8, <1>9 DEF IInv

LEMMA PasteIsGood ==
  ASSUME IInv, NEW w \in Workers, NEW m \in Merchants, Paste(w, m)
  PROVE  IInv'
<1> DEFINE j == [at |-> "refresh", token |-> issued + 1, listed |-> None]
<1>1. job[w] = Idle /\ issued < MaxTokens /\ issued' = issued + 1 /\ Do(w, j)
      /\ whose' = [whose EXCEPT ![issued + 1] = m] /\ live' = live \cup {issued + 1}
      /\ UNCHANGED <<row, lost>>
  BY DEF Paste
<1>2. issued + 1 \in Tokens
  BY <1>1, IssueIsTyped DEF IInv, Known
<1>3. j \in Jobs /\ j.token = issued + 1 /\ j.at = "refresh" /\ j.listed = None
  BY <1>2 DEF Jobs, RefreshJobs, Known
<1> HIDE DEF j
<1> QED BY <1>1, <1>3, NewSessionIsGood

LEMMA ConnectIsGood ==
  ASSUME IInv, NEW w \in Workers, NEW m \in Merchants, Connect(w, m)
  PROVE  IInv'
<1>1. /\ job[w] = Idle /\ issued < MaxTokens /\ issued' = issued + 1
      /\ whose' = [whose EXCEPT ![issued + 1] = m] /\ live' = live \cup {issued + 1}
      /\ UNCHANGED <<row, lost>>
  BY DEF Connect
<1>2. PICK known \in {m, None} :
        Do(w, [at |-> "store", token |-> issued + 1, from |-> None, merchant |-> known])
  BY DEF Connect
<1> DEFINE j == [at |-> "store", token |-> issued + 1, from |-> None, merchant |-> known]
<1>3. issued + 1 \in Tokens
  BY <1>1, IssueIsTyped DEF IInv, Known
<1>4. j \in Jobs /\ j.token = issued + 1 /\ j.at = "store" /\ j.from = None /\ j.merchant \in {m, None}
  BY <1>3 DEF Jobs, StoreJobs, Known
<1>5. Do(w, j)
  BY <1>2
<1> HIDE DEF j
<1> QED BY <1>1, <1>4, <1>5, NewSessionIsGood

(* The trade: the old token dies, the new one is this worker's alone.  If  *)
(* it was the stored one, the worker remembers it or the answer was lost.  *)
LEMMA TradeIsGood ==
  ASSUME IInv, NEW w \in Workers, Trade(w)
  PROVE  IInv'
<1> DEFINE t == job[w].token
<1>1. /\ job[w].at = "refresh" /\ t \in live /\ issued < MaxTokens /\ issued' = issued + 1
      /\ whose' = [whose EXCEPT ![issued + 1] = whose[t]]
      /\ live' = (live \ {t}) \cup {issued + 1} /\ row' = row
  BY DEF Trade
<1>2. job[w] \in RefreshJobs /\ t \in Tokens /\ whose[t] \in Known /\ t <= issued /\ job[w] # Idle
  BY <1>1, JobKinds DEF IInv, JobsTyped, TypeOK, TokensIssued, RefreshJobs, Known, Idle
<1>3. /\ issued \in Nat /\ issued' \in 0 .. MaxTokens /\ issued + 1 \in Tokens
      /\ whose' \in [Tokens -> Known] /\ whose'[issued + 1] = whose[t]
      /\ \A u \in Tokens : u <= issued => whose'[u] = whose[u] /\ u # issued + 1
      /\ None # issued + 1
  BY <1>1, <1>2, IssueIsTyped DEF IInv
<1>4. /\ \A v \in Workers : job[v] \in Jobs
      /\ \A v \in Workers : job[v] # Idle =>
           /\ job[v].token \in Tokens /\ job[v].token <= issued /\ job[v].token # issued + 1
           /\ whose'[job[v].token] = whose[job[v].token]
      /\ row.token # None =>
           /\ row.token \in Tokens /\ row.token <= issued
           /\ whose'[row.token] = whose[row.token]
      /\ row.token # issued + 1
  BY <1>3, JobKinds DEF IInv, JobsTyped, TokensIssued, TypeOK
<1>5. ~Unsaved(w) /\ \A v \in Workers : job[v].at # "idle" => job[v] # Idle
  BY <1>1 DEF Unsaved, Idle
<1>6. PICK j \in Jobs :
        /\ Do(w, j)
        /\ \/ /\ j.at = "store" /\ j.token = issued + 1 /\ j.from = t
              /\ j.merchant \in {whose[t], job[w].listed} /\ lost' = lost
           \/ j = Idle /\ lost' = lost \cup {t}
  <2>1. ASSUME NEW known \in {whose[t], job[w].listed},
               Do(w, [at |-> "store", token |-> issued + 1, from |-> t, merchant |-> known])
        PROVE  [at |-> "store", token |-> issued + 1, from |-> t, merchant |-> known] \in Jobs
    BY <1>2, <1>3 DEF Jobs, StoreJobs, RefreshJobs
  <2>2. Idle \in Jobs
    BY DEF Jobs
  <2>3. CASE /\ \E known \in {whose[t], job[w].listed} :
                  Do(w, [at |-> "store", token |-> issued + 1, from |-> t, merchant |-> known])
             /\ lost' = lost
    BY <2>1, <2>3
  <2>4. CASE Done(w) /\ lost' = lost \cup {t}
    BY <2>2, <2>4 DEF Done
  <2> QED BY <2>3, <2>4 DEF Trade
<1>7. JobsTyped' /\ job'[w] = j /\ \A v \in Workers \ {w} : job'[v] = job[v]
  BY <1>6, OneJob DEF IInv
<1>8. Idle.at = "idle"
  BY DEF Idle
<1>9. TypeOK'
  <2>1. \A u \in 1 .. issued : u \in 1 .. issued'
    BY <1>1, <1>3
  <2>2. t \in 1 .. issued /\ issued + 1 \in 1 .. issued'
    BY <1>1, <1>2, <1>3 DEF Tokens
  <2>3. live' \subseteq 1 .. issued' /\ lost' \subseteq 1 .. issued'
    BY <1>1, <1>6, <2>1, <2>2 DEF IInv, TypeOK
  <2> QED BY <1>1, <1>3, <2>3 DEF IInv, TypeOK, Known
<1>10. TokensIssued'
  <2>1. \A v \in Workers : Unsaved(v) /\ job[v].from # None => job[v].from \in Tokens
    BY <1>4, JobKinds DEF Unsaved, StoreJobs
  <2>2. \A u \in Tokens : u <= issued => u <= issued'
    BY <1>1, <1>3 DEF Tokens
  <2>3. issued + 1 <= issued'
    BY <1>1, <1>3
  <2>4. job'[w] # Idle => job'[w].token <= issued'
    BY <1>6, <1>7, <2>3
  <2>5. Unsaved(w)' => job'[w].from <= issued'
    BY <1>2, <1>6, <1>7, <1>8, <2>2 DEF Unsaved
  <2> QED BY <1>1, <1>4, <1>7, <2>1, <2>2, <2>4, <2>5 DEF IInv, TokensIssued, Unsaved
<1>11. UnsavedIsFresh'
  <2>1. ASSUME NEW v \in Workers \ {w}, Unsaved(v)
        PROVE  job[v].token \in live' /\ job[v].token # t
    BY <1>1, <1>2, <2>1 DEF IInv, UnsavedIsFresh
  <2> QED BY <1>1, <1>3, <1>4, <1>5, <1>6, <1>7, <1>8, <2>1 DEF IInv, UnsavedIsFresh, Unsaved
<1>12. MerchantsMatch'
  <2>1. \A v \in Workers \ {w} :
          job[v].at \in {"refresh", "store", "search"} => whose'[job[v].token] = whose[job[v].token]
    BY <1>4, <1>5
  <2>2. job[w].listed # None => job[w].listed = whose[t]
    BY <1>1 DEF IInv, MerchantsMatch
  <2> QED BY <1>1, <1>3, <1>4, <1>6, <1>7, <1>8, <2>1, <2>2 DEF IInv, MerchantsMatch
<1>13. SessionStaysAlive'
  <2>1. CASE row.token = t
    BY <1>1, <1>6, <1>7, <1>8, <2>1 DEF SessionStaysAlive, Unsaved
  <2>2. CASE row.token # t
    BY <1>1, <1>5, <1>6, <1>7, <2>2 DEF IInv, SessionStaysAlive, Unsaved
  <2> QED BY <2>1, <2>2
<1> QED BY <1>7, <1>9, <1>10, <1>11, <1>12, <1>13 DEF IInv

LEMMA StoreIsGood ==
  ASSUME IInv, NEW w \in Workers, Store(w)
  PROVE  IInv'
<1>1. /\ Unsaved(w) /\ row' = [token |-> job[w].token, merchant |-> job[w].merchant]
      /\ UNCHANGED <<issued, whose, live, lost>>
  BY DEF Store
<1>2. job[w] \in StoreJobs /\ job[w] # Idle
  BY <1>1, JobKinds DEF IInv, JobsTyped, Unsaved, Idle
<1>3. row'.token = job[w].token /\ row'.merchant = job[w].merchant
      /\ job[w].token \in Tokens /\ job[w].merchant \in Known
  BY <1>1, <1>2 DEF StoreJobs
<1>4. PICK j \in Jobs :
        /\ Do(w, j)
        /\ \/ j = Idle
           \/ j.at = "search" /\ j.token = job[w].token /\ j.merchant = job[w].merchant
  <2>1. job[w].merchant # None =>
          [at |-> "search", token |-> job[w].token, merchant |-> job[w].merchant] \in Jobs
    BY <1>3 DEF Jobs, SearchJobs, Known
  <2>2. Idle \in Jobs
    BY DEF Jobs
  <2> QED BY <2>1, <2>2 DEF Store
<1>5. JobsTyped' /\ job'[w] = j /\ \A v \in Workers \ {w} : job'[v] = job[v]
  BY <1>4, OneJob DEF IInv
<1>6. Idle.at = "idle"
  BY DEF Idle
<1>7. TypeOK'
  BY <1>1, <1>3 DEF IInv, TypeOK, Known
<1>8. TokensIssued'
  BY <1>1, <1>2, <1>3, <1>4, <1>5, <1>6 DEF IInv, TokensIssued, Unsaved
<1>9. UnsavedIsFresh'
  BY <1>1, <1>2, <1>3, <1>4, <1>5, <1>6 DEF IInv, UnsavedIsFresh, Unsaved
<1>10. MerchantsMatch'
  <2>1. job[w].merchant # None => job[w].merchant = whose[job[w].token]
    BY <1>1 DEF IInv, MerchantsMatch, Unsaved
  <2>2. job[w].token # None
    BY <1>3, SessionAssumption DEF Tokens
  <2> QED BY <1>1, <1>3, <1>4, <1>5, <1>6, <2>1, <2>2 DEF IInv, MerchantsMatch
<1>11. SessionStaysAlive'
  BY <1>1, <1>3 DEF IInv, UnsavedIsFresh, SessionStaysAlive
<1> QED BY <1>5, <1>7, <1>8, <1>9, <1>10, <1>11 DEF IInv

LEMMA DisconnectIsGood ==
  ASSUME IInv, Disconnect
  PROVE  IInv'
<1>1. row'.token = None /\ row'.merchant = None /\ UNCHANGED <<issued, whose, live, lost, job>>
  BY DEF Disconnect, NoSession
<1>2. TypeOK'
  BY DEF Disconnect, NoSession, IInv, TypeOK
<1>3. JobsTyped'
  BY <1>1 DEF IInv, JobsTyped
<1>4. TokensIssued' /\ MerchantsMatch' /\ SessionStaysAlive'
  BY <1>1 DEF IInv, TokensIssued, MerchantsMatch, SessionStaysAlive, Unsaved
<1>5. UnsavedIsFresh'
  <2>1. \A w \in Workers : Unsaved(w) => job[w].token # None
    BY JobKinds, SessionAssumption DEF IInv, JobsTyped, Unsaved, Idle, StoreJobs, Tokens
  <2> QED BY <1>1, <2>1 DEF IInv, UnsavedIsFresh, Unsaved
<1> QED BY <1>2, <1>3, <1>4, <1>5 DEF IInv

LEMMA CrashIsGood ==
  ASSUME IInv, Crash
  PROVE  IInv'
<1>1. job' = [w \in Workers |-> Idle] /\ UNCHANGED <<row, issued, whose, live>>
  BY DEF Crash
<1>2. /\ lost \subseteq lost'
      /\ \A w \in Workers : Unsaved(w) /\ job[w].from # None => job[w].from \in lost'
      /\ \A t \in lost' : t \in lost
           \/ \E w \in Workers : Unsaved(w) /\ job[w].from # None /\ t = job[w].from
  BY DEF Crash
<1>3. \A w \in Workers : job'[w] = Idle /\ job'[w].at = "idle"
  BY <1>1 DEF Idle
<1>4. TypeOK'
  <2>1. \A w \in Workers : Unsaved(w) /\ job[w].from # None => job[w].from \in 1 .. issued
    BY JobKinds DEF IInv, JobsTyped, TokensIssued, TypeOK, Unsaved, StoreJobs, Tokens
  <2> QED BY <1>1, <1>2, <2>1 DEF IInv, TypeOK
<1>5. JobsTyped'
  BY <1>1 DEF JobsTyped, Jobs
<1>6. TokensIssued' /\ UnsavedIsFresh' /\ MerchantsMatch'
  BY <1>1, <1>3 DEF IInv, TokensIssued, UnsavedIsFresh, MerchantsMatch, Unsaved
<1>7. SessionStaysAlive'
  BY <1>1, <1>2 DEF IInv, SessionStaysAlive
<1> QED BY <1>4, <1>5, <1>6, <1>7 DEF IInv

LEMMA StepsAreGood == IInv /\ [Next]_vars => IInv'
<1> SUFFICES ASSUME IInv, [Next]_vars PROVE IInv'
  OBVIOUS
<1>1. ASSUME NEW w \in Workers, Refused(w) \/ Search(w) PROVE IInv'
  BY <1>1, DoneIsGood DEF Refused, Search, Unsaved
<1>2. CASE UNCHANGED vars
  BY <1>2 DEF vars, IInv, TypeOK, JobsTyped, TokensIssued, UnsavedIsFresh, MerchantsMatch,
              SessionStaysAlive, Unsaved
<1>3. CASE Next
  BY <1>1, <1>3, ListIsGood, PasteIsGood, ConnectIsGood, TradeIsGood, StoreIsGood,
     DisconnectIsGood, CrashIsGood DEF Next
<1> QED BY <1>2, <1>3

-----------------------------------------------------------------------------
(* However cycles and requests overlap, the stored token is accepted, or   *)
(* its successor is about to be stored or was lost.                        *)
THEOREM TokenStaysAlive == Spec => []SessionStaysAlive
<1>1. IInv => SessionStaysAlive
  BY DEF IInv
<1> QED BY InitIsGood, StepsAreGood, <1>1, PTL DEF Spec

(* The merchant stored with a token, or searched with one, is its own.     *)
THEOREM TokenKeepsMerchant == Spec => []OneMerchantPerSession
<1>1. IInv => OneMerchantPerSession
  BY DEF IInv, MerchantsMatch, OneMerchantPerSession
<1> QED BY InitIsGood, StepsAreGood, <1>1, PTL DEF Spec

(* Types, and the fact the other two rest on: a token that is received and *)
(* not stored is held by one worker only and accepted.                     *)
THEOREM UnsavedTokensAreSafe == Spec => [](TypeOK /\ UnsavedIsFresh)
<1>1. IInv => TypeOK /\ UnsavedIsFresh
  BY DEF IInv
<1> QED BY InitIsGood, StepsAreGood, <1>1, PTL DEF Spec

-----------------------------------------------------------------------------
InsertJobs == [at: {"insert"}, brand: Brands, text: BOOLEAN]
RouteJobs == [at: {"route"}, id: Ids, brand: Brands, ok: BOOLEAN]
UpdateJobs == [at: {"taken", "free", "save", "fresh"}, id: Ids, brand: Brands, moved: BOOLEAN,
               patch: Patches]
DeleteJobs == [at: {"free", "delete"}, id: Ids]
AssignJobs == [at: {"owned", "assign"}, id: Ids, brand: Brands, outlets: SUBSET Outlets]
ReceiverJobs == [at: {"receiver"}, outlet: Outlets, brand: Brands \cup {None}, new: BOOLEAN]
WriteJobs == [at: {"write"}, outlet: Outlets, brand: Brands \cup {None}, new: BOOLEAN,
              qris: Ids \cup {None}]
RoutingJobs ==
  {Idle} \cup InsertJobs \cup RouteJobs \cup UpdateJobs \cup DeleteJobs \cup AssignJobs
    \cup ReceiverJobs \cup WriteJobs

(* What a request has read, and relies on without looking again.           *)
AccountKnown(j) ==
  /\ j.at \in {"taken", "free", "save", "delete"} => j.id \in Rows
  /\ j.at \in {"route", "fresh", "owned", "assign"}
       => j.id \in Rows /\ qris[j.id].brand = j.brand
  /\ j.at = "route" => (j.ok => Eligible(j.id))

(* The brand an account is created for or moves to has none, and by the    *)
(* time the row is moved no outlet depends on it.                          *)
BrandIsFree(j) ==
  /\ j.at = "insert" => QrisOf(j.brand) = {}
  /\ j.at \in {"taken", "free"} /\ j \in UpdateJobs => j.moved
  /\ j.at \in {"taken", "free", "save"} /\ j \in UpdateJobs
       => (j.moved <=> qris[j.id].brand # j.brand)
  /\ j.at = "free" /\ j \in UpdateJobs => QrisOf(j.brand) = {}
  /\ j.at = "save" /\ j.moved => QrisOf(j.brand) = {} /\ Served(j.id) = {}

OutletsKnown(j) ==
  /\ j.at = "assign" => j.outlets \subseteq OutletsOf(j.brand)
  /\ j.at = "write" /\ j.qris # None => Eligible(j.qris) /\ qris[j.qris].brand = j.brand

JobSound(j) == AccountKnown(j) /\ BrandIsFree(j) /\ OutletsKnown(j)

(* An outlet is never deleted, so the list of an assignment stays good.    *)
AssignedExist(j) == j.at = "assign" => j.outlets \subseteq Open

(* What a request has read still holds, unless it was overtaken.           *)
RoutingIInv ==
  /\ RoutingTypeOK
  /\ job \in [Consoles -> RoutingJobs]
  /\ \A w \in Consoles : AssignedExist(job[w]) /\ (w \notin overtaken => JobSound(job[w]))

-----------------------------------------------------------------------------
LEMMA RoutingJobKinds ==
  ASSUME NEW j \in RoutingJobs
  PROVE  /\ j.at = "insert" => j \in InsertJobs
         /\ j.at = "route" => j \in RouteJobs
         /\ j.at \in {"taken", "save", "fresh"} => j \in UpdateJobs
         /\ j.at = "free" => j \in UpdateJobs \cup DeleteJobs
         /\ j.at = "delete" => j \in DeleteJobs
         /\ j.at \in {"owned", "assign"} => j \in AssignJobs
         /\ j.at = "receiver" => j \in ReceiverJobs
         /\ j.at = "write" => j \in WriteJobs
BY DEF RoutingJobs, Idle, InsertJobs, RouteJobs, UpdateJobs, DeleteJobs, AssignJobs,
       ReceiverJobs, WriteJobs

LEMMA IdleIsSound ==
  /\ Idle \in RoutingJobs /\ Idle \notin UpdateJobs
  /\ Idle.at \notin {"insert", "route", "taken", "free", "save", "fresh", "delete", "owned",
                     "assign", "receiver", "write"}
BY DEF RoutingJobs, Idle, UpdateJobs

LEMMA RowTyped ==
  ASSUME RoutingTypeOK
  PROVE  /\ \A i \in Rows : i \in Ids /\ qris[i] \in QrisRow /\ i \in Nat
         /\ \A o \in Open : o \in Outlets /\ outlet[o] \in OutletRow
         /\ None \notin Ids
BY RoutingAssumption DEF RoutingTypeOK, Rows, Open, Ids

(* What a request knows does not change while nobody writes.               *)
LEMMA SoundAsLongAsNothingChanges ==
  ASSUME UNCHANGED <<qris, outlet>>, NEW v, job'[v] = job[v], JobSound(job[v])
  PROVE  JobSound(job[v])'
<1>1. /\ Rows' = Rows /\ (\A i : Eligible(i)' <=> Eligible(i))
      /\ \A b : QrisOf(b)' = QrisOf(b) /\ OutletsOf(b)' = OutletsOf(b)
      /\ \A i : Served(i)' = Served(i)
  BY DEF Rows, Eligible, QrisOf, OutletsOf, Served, Open
<1> QED BY <1>1 DEF JobSound, AccountKnown, BrandIsFree, OutletsKnown

(* One request takes a step: the others know what they knew, or are        *)
(* overtaken.                                                              *)
LEMMA OneRequestSteps ==
  ASSUME RoutingIInv, NEW w \in Consoles, Overtakes(w), job' = [job EXCEPT ![w] = job'[w]],
         job'[w] \in RoutingJobs, AssignedExist(job[w])', RoutingTypeOK', Open \subseteq Open',
         w \notin overtaken /\ job'[w] # Idle => JobSound(job[w])'
  PROVE  RoutingIInv'
<1>1. job' \in [Consoles -> RoutingJobs] /\ \A v \in Consoles : v # w => job'[v] = job[v]
  BY DEF RoutingIInv
<1>2. ASSUME NEW v \in Consoles PROVE AssignedExist(job[v])'
  BY <1>1 DEF RoutingIInv, AssignedExist
<1>3. ASSUME NEW v \in Consoles, v \notin overtaken' PROVE JobSound(job[v])'
  <2>1. CASE job'[v] = Idle
    BY <2>1, IdleIsSound DEF JobSound, AccountKnown, BrandIsFree, OutletsKnown
  <2>2. CASE job'[v] # Idle
    <3>1. v \notin overtaken /\ (v = w \/ UNCHANGED <<qris, outlet>>)
      BY <1>3, <2>2 DEF Overtakes
    <3>2. CASE v = w
      BY <2>2, <3>1, <3>2
    <3>3. CASE v # w
      BY <1>1, <3>1, <3>3, SoundAsLongAsNothingChanges DEF RoutingIInv
    <3> QED BY <3>2, <3>3
  <2> QED BY <2>1, <2>2
<1> QED BY <1>1, <1>2, <1>3 DEF RoutingIInv

(* A request that reads, or begins, or ends, and writes no row.            *)
LEMMA RoutingReads ==
  ASSUME RoutingIInv, NEW w \in Consoles, Overtakes(w), UNCHANGED <<qris, nextId, outlet>>,
         NEW j \in RoutingJobs, job' = [job EXCEPT ![w] = j], AssignedExist(j),
         w \notin overtaken => JobSound(j)
  PROVE  RoutingIInv'
<1>1. RoutingTypeOK' /\ Open' = Open
  BY DEF RoutingIInv, RoutingTypeOK, Open, Rows
<1>2. job'[w] = j
  BY DEF RoutingIInv
<1>3. AssignedExist(job[w])'
  BY <1>1, <1>2 DEF AssignedExist
<1>4. ASSUME w \notin overtaken PROVE JobSound(job[w])'
  <2>1. /\ Rows' = Rows /\ (\A i : Eligible(i)' <=> Eligible(i))
        /\ \A b : QrisOf(b)' = QrisOf(b) /\ OutletsOf(b)' = OutletsOf(b)
        /\ \A i : Served(i)' = Served(i)
    BY DEF Rows, Eligible, QrisOf, OutletsOf, Served, Open
  <2> QED BY <1>2, <1>4, <2>1 DEF JobSound, AccountKnown, BrandIsFree, OutletsKnown
<1> QED BY <1>1, <1>2, <1>3, <1>4, OneRequestSteps

(* The last statement of a request.                                        *)
LEMMA RoutingEnds ==
  ASSUME RoutingIInv, NEW w \in Consoles, Overtakes(w), Done(w), RoutingTypeOK',
         Open \subseteq Open'
  PROVE  RoutingIInv'
<1>1. job' = [job EXCEPT ![w] = job'[w]] /\ job'[w] = Idle
  BY DEF RoutingIInv, Done, Do
<1>2. AssignedExist(job[w])'
  BY <1>1, IdleIsSound DEF AssignedExist
<1> QED BY <1>1, <1>2, IdleIsSound, OneRequestSteps

-----------------------------------------------------------------------------
LEMMA RoutingInitIsGood == RoutingInit => RoutingIInv
<1> SUFFICES ASSUME RoutingInit PROVE RoutingIInv
  OBVIOUS
<1>1. Rows = {} /\ Open = {} /\ nextId = 1
  BY DEF RoutingInit, Rows, Open
<1>2. RoutingTypeOK
  BY <1>1, RoutingAssumption DEF RoutingInit, RoutingTypeOK
<1>3. job \in [Consoles -> RoutingJobs] /\ \A w \in Consoles : job[w] = Idle
  BY IdleIsSound DEF RoutingInit
<1>4. JobSound(Idle) /\ AssignedExist(Idle)
  BY IdleIsSound DEF JobSound, AccountKnown, BrandIsFree, OutletsKnown, AssignedExist
<1> QED BY <1>2, <1>3, <1>4 DEF RoutingIInv

LEMMA RoutingBegins ==
  ASSUME RoutingIInv, NEW w \in Consoles, Request(w), Overtakes(w)
  PROVE  RoutingIInv' \/ \E i \in Ids, on \in BOOLEAN : SetBri(w, i, on)
<1>1. ASSUME NEW b \in Brands, NEW text \in BOOLEAN, CreateQris(w, b, text) PROVE RoutingIInv'
  <2> DEFINE j == [at |-> "insert", brand |-> b, text |-> text]
  <2>1. /\ QrisOf(b) = {} /\ job' = [job EXCEPT ![w] = j]
        /\ UNCHANGED <<qris, nextId, outlet>>
    BY <1>1 DEF CreateQris, Do
  <2>2. j \in InsertJobs
    BY DEF InsertJobs
  <2>3. j \in RoutingJobs /\ j.at = "insert" /\ j.brand = b
    BY <2>2 DEF RoutingJobs
  <2> HIDE DEF j
  <2>4. JobSound(j) /\ AssignedExist(j)
    BY <2>1, <2>3 DEF JobSound, AccountKnown, BrandIsFree, OutletsKnown, AssignedExist
  <2> QED BY <2>1, <2>3, <2>4, RoutingReads
<1>2. ASSUME NEW i \in Ids, NEW b \in Brands, NEW patch \in Patches, UpdateQris(w, i, b, patch)
      PROVE  RoutingIInv'
  <2> DEFINE moved == qris[i].brand # b
             j == [at |-> IF moved THEN "taken" ELSE "save", id |-> i, brand |-> b,
                   moved |-> moved, patch |-> patch]
  <2>1. /\ i \in Rows /\ job' = [job EXCEPT ![w] = j] /\ UNCHANGED <<qris, nextId, outlet>>
    BY <1>2 DEF UpdateQris, Do
  <2>2. j \in UpdateJobs
    BY DEF UpdateJobs
  <2>3. /\ j \in RoutingJobs /\ j.id = i /\ j.brand = b
        /\ j.moved = (qris[i].brand # b) /\ j.at = IF j.moved THEN "taken" ELSE "save"
    BY <2>2 DEF RoutingJobs
  <2> HIDE DEF j
  <2>4. JobSound(j) /\ AssignedExist(j)
    BY <2>1, <2>3 DEF JobSound, AccountKnown, BrandIsFree, OutletsKnown, AssignedExist
  <2> QED BY <2>1, <2>3, <2>4, RoutingReads
<1>3. ASSUME NEW i \in Ids, DeleteQris(w, i) PROVE RoutingIInv'
  <2> DEFINE j == [at |-> "free", id |-> i]
  <2>1. i \in Rows /\ job' = [job EXCEPT ![w] = j] /\ UNCHANGED <<qris, nextId, outlet>>
    BY <1>3 DEF DeleteQris, Do
  <2>2. j \in DeleteJobs /\ j \notin UpdateJobs
    BY DEF DeleteJobs, UpdateJobs
  <2>3. j \in RoutingJobs /\ j.at = "free" /\ j.id = i
    BY <2>2 DEF RoutingJobs
  <2> HIDE DEF j
  <2>4. JobSound(j) /\ AssignedExist(j)
    BY <2>1, <2>2, <2>3 DEF JobSound, AccountKnown, BrandIsFree, OutletsKnown, AssignedExist
  <2> QED BY <2>1, <2>3, <2>4, RoutingReads
<1>4. ASSUME NEW i \in Ids, NEW outlets \in SUBSET Outlets, AssignOutlets(w, i, outlets)
      PROVE  RoutingIInv'
  <2> DEFINE j == [at |-> "owned", id |-> i, brand |-> qris[i].brand, outlets |-> outlets]
  <2>1. i \in Rows /\ job' = [job EXCEPT ![w] = j] /\ UNCHANGED <<qris, nextId, outlet>>
    BY <1>4 DEF AssignOutlets, Do
  <2>2. qris[i].brand \in Brands
    BY <2>1, RowTyped DEF RoutingIInv, QrisRow
  <2>3. j \in AssignJobs
    BY <2>2 DEF AssignJobs
  <2>4. j \in RoutingJobs /\ j.at = "owned" /\ j.id = i /\ j.brand = qris[i].brand
    BY <2>3 DEF RoutingJobs
  <2> HIDE DEF j
  <2>5. JobSound(j) /\ AssignedExist(j)
    BY <2>1, <2>4 DEF JobSound, AccountKnown, BrandIsFree, OutletsKnown, AssignedExist
  <2> QED BY <2>1, <2>4, <2>5, RoutingReads
<1>5. ASSUME NEW o \in Outlets, NEW b \in Brands \cup {None},
             CreateOutlet(w, o, b) \/ MoveOutlet(w, o, b)
      PROVE  RoutingIInv'
  <2>1. PICK new \in BOOLEAN :
          /\ job' = [job EXCEPT ![w] = [at |-> "receiver", outlet |-> o, brand |-> b, new |-> new]]
          /\ UNCHANGED <<qris, nextId, outlet>>
    BY <1>5 DEF CreateOutlet, MoveOutlet, Do
  <2> DEFINE j == [at |-> "receiver", outlet |-> o, brand |-> b, new |-> new]
  <2>2. j \in ReceiverJobs
    BY DEF ReceiverJobs
  <2>3. j \in RoutingJobs /\ j.at = "receiver"
    BY <2>2 DEF RoutingJobs
  <2>4. job' = [job EXCEPT ![w] = j]
    BY <2>1
  <2> HIDE DEF j
  <2>5. JobSound(j) /\ AssignedExist(j)
    BY <2>3 DEF JobSound, AccountKnown, BrandIsFree, OutletsKnown, AssignedExist
  <2> QED BY <2>1, <2>3, <2>4, <2>5, RoutingReads
<1> QED BY <1>1, <1>2, <1>3, <1>4, <1>5 DEF Request

(* A brand's receiver is the first of its accounts that can take payments. *)
LEMMA ReceiverIsEligible ==
  ASSUME RoutingTypeOK, NEW b, Receiver(b) # None
  PROVE  Receiver(b) \in Ids /\ Eligible(Receiver(b)) /\ qris[Receiver(b)].brand = b
<1> DEFINE c == {i \in QrisOf(b) : Eligible(i)}
           R == OpToRel(<, Nat)
<1>1. c # {} /\ c \subseteq Nat /\ Receiver(b) = Min(c)
  BY RowTyped DEF Receiver, QrisOf
<1>2. \A x, y \in Nat : x < y => <<x, y>> \in R
  BY DEF OpToRel
<1>3. IsWellFoundedOn(R, Nat)
  BY NatLessThanWellFounded
<1> HIDE DEF R, c
<1>4. PICK x \in c : \A y \in c : ~ (<<y, x>> \in R)
  BY <1>1, <1>3, WFMin
<1>5. \A y \in c : ~ (y < x)
  BY <1>1, <1>2, <1>4, Zenon
<1>6. \A y \in c : x <= y
  BY <1>1, <1>5
<1>7. Min(c) \in c
  BY <1>6 DEF Min
<1> QED BY <1>1, <1>7 DEF c, QrisOf, Rows

(* Statements that only read.                                              *)
LEMMA RoutingReadsOn ==
  ASSUME RoutingIInv, NEW w \in Consoles, Overtakes(w),
         CountTaken(w) \/ ReadFresh(w) \/ CheckOwned(w) \/ ReadReceiver(w) \/ Stop(w)
  PROVE  RoutingIInv'
<1> DEFINE j == job[w]
<1>1. j \in RoutingJobs /\ (w \notin overtaken => JobSound(j)) /\ RoutingTypeOK
  BY DEF RoutingIInv
<1>2. ASSUME Done(w), UNCHANGED <<qris, nextId, outlet>> PROVE RoutingIInv'
  <2>1. RoutingTypeOK' /\ Open' = Open
    BY <1>2 DEF RoutingIInv, RoutingTypeOK, Open, Rows
  <2> QED BY <1>2, <2>1, RoutingEnds
<1>3. CASE CountTaken(w) /\ ~Done(w)
  <2> DEFINE k == [j EXCEPT !.at = "free"]
  <2>1. /\ j.at = "taken" /\ QrisOf(j.brand) \subseteq {j.id}
        /\ job' = [job EXCEPT ![w] = k] /\ UNCHANGED <<qris, nextId, outlet>>
    BY <1>3 DEF CountTaken, Goto
  <2>2. j \in UpdateJobs
    BY <1>1, <2>1, RoutingJobKinds
  <2>3. /\ k \in UpdateJobs /\ k.at = "free" /\ k.id = j.id /\ k.brand = j.brand /\ k.moved = j.moved
    BY <2>2 DEF UpdateJobs
  <2> HIDE DEF j, k
  <2>4. k \in RoutingJobs /\ AssignedExist(k)
    BY <2>3 DEF RoutingJobs, AssignedExist
  <2>5. ASSUME w \notin overtaken PROVE JobSound(k)
    <3>1. j.moved /\ qris[j.id].brand # j.brand /\ j.id \in Rows
      BY <1>1, <2>1, <2>2, <2>5 DEF JobSound, AccountKnown, BrandIsFree
    <3>2. QrisOf(j.brand) = {}
      BY <2>1, <3>1 DEF QrisOf
    <3> QED BY <2>3, <3>1, <3>2 DEF JobSound, AccountKnown, BrandIsFree, OutletsKnown
  <2> QED BY <2>1, <2>4, <2>5, RoutingReads
<1>4. CASE ReadFresh(w)
  <2> DEFINE k == [at |-> "route", id |-> j.id, brand |-> j.brand, ok |-> Eligible(j.id)]
  <2>1. /\ j.at = "fresh" /\ job' = [job EXCEPT ![w] = k] /\ UNCHANGED <<qris, nextId, outlet>>
    BY <1>4 DEF ReadFresh, Do
  <2>2. j \in UpdateJobs
    BY <1>1, <2>1, RoutingJobKinds
  <2>3. Eligible(j.id) \in BOOLEAN
    BY DEF Eligible
  <2>4. k \in RouteJobs
    BY <2>2, <2>3 DEF UpdateJobs, RouteJobs
  <2>5. k.at = "route" /\ k.id = j.id /\ k.brand = j.brand /\ k.ok = Eligible(j.id)
    OBVIOUS
  <2> HIDE DEF j, k
  <2>6. k \in RoutingJobs /\ AssignedExist(k)
    BY <2>4, <2>5 DEF RoutingJobs, AssignedExist
  <2>7. ASSUME w \notin overtaken PROVE JobSound(k)
    <3>1. j.id \in Rows /\ qris[j.id].brand = j.brand
      BY <1>1, <2>1, <2>7 DEF JobSound, AccountKnown
    <3> QED BY <2>5, <3>1 DEF JobSound, AccountKnown, BrandIsFree, OutletsKnown
  <2> QED BY <2>1, <2>6, <2>7, RoutingReads
<1>5. CASE CheckOwned(w) /\ ~Done(w)
  <2> DEFINE k == [j EXCEPT !.at = "assign"]
  <2>1. /\ j.at = "owned" /\ j.outlets \subseteq OutletsOf(j.brand)
        /\ job' = [job EXCEPT ![w] = k] /\ UNCHANGED <<qris, nextId, outlet>>
    BY <1>5 DEF CheckOwned, Goto
  <2>2. j \in AssignJobs
    BY <1>1, <2>1, RoutingJobKinds
  <2>3. /\ k \in AssignJobs /\ k.at = "assign" /\ k.id = j.id /\ k.brand = j.brand
        /\ k.outlets = j.outlets
    BY <2>2 DEF AssignJobs
  <2> HIDE DEF j, k
  <2>4. k \in RoutingJobs /\ AssignedExist(k)
    BY <2>1, <2>3 DEF RoutingJobs, AssignedExist, OutletsOf
  <2>5. ASSUME w \notin overtaken PROVE JobSound(k)
    <3>1. j.id \in Rows /\ qris[j.id].brand = j.brand
      BY <1>1, <2>1, <2>5 DEF JobSound, AccountKnown
    <3> QED BY <2>1, <2>3, <3>1 DEF JobSound, AccountKnown, BrandIsFree, OutletsKnown
  <2> QED BY <2>1, <2>4, <2>5, RoutingReads
<1>6. CASE ReadReceiver(w)
  <2> DEFINE k == [at |-> "write", outlet |-> j.outlet, brand |-> j.brand, new |-> j.new,
                   qris |-> Receiver(j.brand)]
  <2>1. /\ j.at = "receiver" /\ job' = [job EXCEPT ![w] = k] /\ UNCHANGED <<qris, nextId, outlet>>
    BY <1>6 DEF ReadReceiver, Do
  <2>2. j \in ReceiverJobs
    BY <1>1, <2>1, RoutingJobKinds
  <2>3. Receiver(j.brand) \in Ids \cup {None}
    BY <1>1, ReceiverIsEligible
  <2>4. k \in WriteJobs
    BY <2>2, <2>3 DEF ReceiverJobs, WriteJobs
  <2>5. k.at = "write" /\ k.brand = j.brand /\ k.qris = Receiver(j.brand)
    OBVIOUS
  <2> HIDE DEF j, k
  <2>6. k \in RoutingJobs /\ AssignedExist(k)
    BY <2>4, <2>5 DEF RoutingJobs, AssignedExist
  <2>7. JobSound(k)
    BY <1>1, <2>5, ReceiverIsEligible DEF JobSound, AccountKnown, BrandIsFree, OutletsKnown
  <2> QED BY <2>1, <2>6, <2>7, RoutingReads
<1> QED BY <1>2, <1>3, <1>4, <1>5, <1>6 DEF CountTaken, CheckOwned, Stop

-----------------------------------------------------------------------------
(* Statements that write: what each leaves of an outlet and of an account. *)

(* UPDATE servers SET qris_account_id = i.                                 *)
LEMMA OutletsRouted ==
  ASSUME RoutingTypeOK, NEW S \in SUBSET Open, NEW i \in Ids \cup {None}, RouteTo(S, i)
  PROVE  /\ outlet' \in [Outlets -> OutletRow \cup {None}] /\ Open' = Open
         /\ \A o \in Outlets :
              \/ outlet'[o] = outlet[o] /\ (o \notin S \/ i \notin Rows \cup {None})
              \/ /\ o \in S /\ i \in Rows \cup {None}
                 /\ outlet'[o].qris = i /\ outlet'[o].brand = outlet[o].brand
<1>1. outlet' = [o \in Outlets |-> IF o \in S /\ i \in Rows \cup {None}
                                   THEN [outlet[o] EXCEPT !.qris = i] ELSE outlet[o]]
  BY DEF RouteTo
<1>2. ASSUME NEW o \in S
      PROVE  LET rec == [outlet[o] EXCEPT !.qris = i]
             IN rec \in OutletRow /\ rec.qris = i /\ rec.brand = outlet[o].brand
  <2>1. outlet[o] \in OutletRow
    BY <1>2, RowTyped
  <2> QED BY <2>1 DEF OutletRow
<1>3. outlet' \in [Outlets -> OutletRow \cup {None}]
  BY <1>1, <1>2 DEF RoutingTypeOK
<1>4. Open' = Open
  BY <1>1, <1>2, RoutingAssumption DEF Open
<1> QED BY <1>1, <1>2, <1>3, <1>4

LEMMA RouteIsGood ==
  ASSUME RoutingIInv, NEW w \in Consoles, Route(w), Overtakes(w)
  PROVE  RoutingIInv'
<1> DEFINE j == job[w]
<1>1. j.at = "route" /\ Done(w) /\ UNCHANGED <<qris, nextId>> /\ RoutingTypeOK
  BY DEF Route, RoutingIInv
<1>2. j \in RouteJobs
  BY <1>1, RoutingJobKinds DEF RoutingIInv
<1>3. CASE UNCHANGED outlet
  <2>1. RoutingTypeOK' /\ Open' = Open
    BY <1>1, <1>3 DEF RoutingTypeOK, Open, Rows
  <2> QED BY <1>1, <2>1, RoutingEnds
<1>4. CASE RouteTo(OutletsOf(j.brand), j.id)
  <2>1. OutletsOf(j.brand) \subseteq Open /\ j.id \in Ids
    BY <1>2 DEF OutletsOf, RouteJobs
  <2> HIDE DEF j
  <2>2. /\ outlet' \in [Outlets -> OutletRow \cup {None}] /\ Open' = Open
        /\ \A o \in Outlets : outlet'[o] = outlet[o] \/ outlet'[o].qris \in Rows \cup {None}
    BY <1>1, <1>4, <2>1, OutletsRouted
  <2>3. RoutingTypeOK'
    BY <1>1, <2>2 DEF RoutingTypeOK, Open, Rows
  <2> QED BY <1>1, <2>2, <2>3, RoutingEnds
<1> QED BY <1>3, <1>4 DEF Route

(* What an assignment leaves of an outlet.                                 *)
LEMMA OutletsAssigned ==
  ASSUME RoutingIInv, NEW w \in Consoles, Assign(w)
  PROVE  /\ outlet' \in [Outlets -> OutletRow \cup {None}] /\ Open' = Open
         /\ job[w].id \in Ids
         /\ \A o \in Outlets :
              \/ outlet'[o] = outlet[o]
              \/ /\ o \in Open /\ outlet'[o].brand = outlet[o].brand
                 /\ \/ outlet'[o].qris = None
                    \/ o \in job[w].outlets /\ job[w].id \in Rows /\ outlet'[o].qris = job[w].id
<1> DEFINE j == job[w]
<1>1. /\ j.at = "assign"
      /\ outlet' = [o \in Outlets |->
                     IF j.id \notin Rows THEN outlet[o]
                     ELSE IF o \in j.outlets THEN [outlet[o] EXCEPT !.qris = j.id]
                     ELSE IF o \in Served(j.id) THEN [outlet[o] EXCEPT !.qris = None] ELSE outlet[o]]
  BY DEF Assign
<1>2. j \in AssignJobs /\ j.outlets \subseteq Open /\ j.id \in Ids /\ RoutingTypeOK
  BY <1>1, RoutingJobKinds DEF RoutingIInv, AssignedExist, AssignJobs
<1>3. j.id = job[w].id /\ j.outlets = job[w].outlets
  OBVIOUS
<1> HIDE DEF j
<1>4. ASSUME NEW o \in Open, NEW i \in Ids \cup {None}
      PROVE  LET rec == [outlet[o] EXCEPT !.qris = i]
             IN rec \in OutletRow /\ rec.qris = i /\ rec.brand = outlet[o].brand
  <2>1. outlet[o] \in OutletRow
    BY <1>2, RowTyped
  <2> QED BY <2>1 DEF OutletRow
<1>5. Served(j.id) \subseteq Open
  BY DEF Served
<1>6. /\ \A o \in j.outlets : LET rec == [outlet[o] EXCEPT !.qris = j.id]
                              IN rec \in OutletRow /\ rec.qris = j.id /\ rec.brand = outlet[o].brand
      /\ \A o \in Served(j.id) : LET rec == [outlet[o] EXCEPT !.qris = None]
                                 IN rec \in OutletRow /\ rec.qris = None /\ rec.brand = outlet[o].brand
  BY <1>2, <1>4, <1>5
<1>7. outlet' \in [Outlets -> OutletRow \cup {None}]
  BY <1>1, <1>6, <1>2 DEF RoutingTypeOK
<1>8. Open' = Open
  BY <1>1, <1>2, <1>5, <1>6, RoutingAssumption DEF Open
<1> QED BY <1>1, <1>2, <1>3, <1>5, <1>6, <1>7, <1>8

LEMMA AssignIsGood ==
  ASSUME RoutingIInv, NEW w \in Consoles, Assign(w), Overtakes(w)
  PROVE  RoutingIInv'
<1>1. Done(w) /\ UNCHANGED <<qris, nextId>> /\ RoutingTypeOK
  BY DEF Assign, RoutingIInv
<1>2. RoutingTypeOK' /\ Open' = Open
  BY <1>1, OutletsAssigned DEF RoutingTypeOK, Open, Rows
<1> QED BY <1>1, <1>2, RoutingEnds

LEMMA WriteOutletIsGood ==
  ASSUME RoutingIInv, NEW w \in Consoles, WriteOutlet(w), Overtakes(w)
  PROVE  RoutingIInv'
<1> DEFINE j == job[w]
           rec == [brand |-> j.brand, qris |-> j.qris]
<1>1. /\ j.at = "write" /\ Done(w) /\ UNCHANGED <<qris, nextId>> /\ RoutingTypeOK
      /\ \/ outlet' = outlet
         \/ outlet' = [outlet EXCEPT ![j.outlet] = rec] /\ j.qris \in Rows \cup {None}
  BY DEF WriteOutlet, RoutingIInv
<1>2. j \in WriteJobs
  BY <1>1, RoutingJobKinds DEF RoutingIInv
<1>3. rec \in OutletRow /\ rec.qris = j.qris
  BY <1>2 DEF OutletRow, WriteJobs
<1> HIDE DEF j, rec
<1>4. /\ outlet' \in [Outlets -> OutletRow \cup {None}]
      /\ \A o \in Outlets : \/ outlet'[o] = outlet[o]
                            \/ outlet'[o] = rec /\ j.qris \in Rows \cup {None}
  BY <1>1, <1>3 DEF RoutingTypeOK
<1>5. RoutingTypeOK'
  BY <1>1, <1>3, <1>4 DEF RoutingTypeOK, Open, Rows
<1>6. Open \subseteq Open'
  BY <1>3, <1>4, RoutingAssumption DEF Open
<1> QED BY <1>1, <1>5, <1>6, RoutingEnds

LEMMA FreeOutletsIsGood ==
  ASSUME RoutingIInv, NEW w \in Consoles, FreeOutlets(w), Overtakes(w)
  PROVE  RoutingIInv'
<1> DEFINE j == job[w]
           next == IF "patch" \in DOMAIN j THEN "save" ELSE "delete"
           k == [j EXCEPT !.at = next]
<1>1. /\ j.at = "free" /\ RouteTo(Served(j.id), None) /\ UNCHANGED <<qris, nextId>>
      /\ job' = [job EXCEPT ![w] = k] /\ RoutingTypeOK
  BY DEF FreeOutlets, Goto, RoutingIInv
<1>2. job' = [job EXCEPT ![w] = job'[w]] /\ job'[w] = k
  BY <1>1 DEF RoutingIInv
<1>3. j \in UpdateJobs \cup DeleteJobs /\ j.id \in Ids /\ (w \notin overtaken => JobSound(j))
  BY <1>1, RoutingJobKinds DEF RoutingIInv, UpdateJobs, DeleteJobs
<1>4. /\ outlet' \in [Outlets -> OutletRow \cup {None}] /\ Open' = Open
      /\ \A o \in Outlets : \/ o \notin Served(j.id) /\ outlet'[o] = outlet[o]
                            \/ outlet'[o].qris = None
  <2> DEFINE S == Served(j.id)
  <2>1. S \subseteq Open /\ RouteTo(S, None)
    BY <1>1 DEF Served
  <2> HIDE DEF j, k, S
  <2>2. /\ outlet' \in [Outlets -> OutletRow \cup {None}] /\ Open' = Open
        /\ \A o \in Outlets : (o \notin S /\ outlet'[o] = outlet[o]) \/ outlet'[o].qris = None
    BY <1>1, <2>1, OutletsRouted
  <2> QED BY <2>2 DEF S
<1>5. RoutingTypeOK' /\ Rows' = Rows
  BY <1>1, <1>4 DEF RoutingTypeOK, Open, Rows
<1>6. \A o \in Open' : outlet'[o].qris # j.id
  <2>1. j.id # None
    BY <1>1, <1>3, RowTyped
  <2> QED BY <1>4, <2>1 DEF Served, Open
<1>7. CASE j \in UpdateJobs
  <2>1. "patch" \in DOMAIN j
    BY <1>7 DEF UpdateJobs
  <2>2. k \in UpdateJobs /\ k.at = "save" /\ k.id = j.id /\ k.brand = j.brand /\ k.moved = j.moved
    BY <1>7, <2>1 DEF UpdateJobs
  <2> HIDE DEF k, j
  <2>3. k \in RoutingJobs /\ AssignedExist(job[w])'
    BY <1>2, <2>2 DEF RoutingJobs, AssignedExist
  <2>4. ASSUME w \notin overtaken PROVE JobSound(job[w])'
    <3>1. j.moved /\ qris[j.id].brand # j.brand /\ QrisOf(j.brand) = {} /\ j.id \in Rows
      BY <1>1, <1>3, <1>7, <2>4 DEF JobSound, AccountKnown, BrandIsFree
    <3>2. {i \in Rows' : qris'[i].brand = k.brand} = {}
      BY <1>1, <1>5, <2>2, <3>1 DEF QrisOf
    <3>3. {o \in Open' : outlet'[o].qris = k.id} = {}
      BY <1>6, <2>2
    <3>4. k.moved /\ qris'[k.id].brand # k.brand /\ k.id \in Rows'
      BY <1>1, <1>5, <2>2, <3>1
    <3>5. BrandIsFree(job[w])'
      BY <1>2, <2>2, <3>2, <3>3, <3>4 DEF BrandIsFree, QrisOf, Served
    <3>6. AccountKnown(job[w])' /\ OutletsKnown(job[w])'
      BY <1>2, <2>2, <3>4 DEF AccountKnown, OutletsKnown
    <3> QED BY <3>5, <3>6 DEF JobSound
  <2> QED BY <1>2, <1>4, <1>5, <2>3, <2>4, OneRequestSteps
<1>8. CASE j \in DeleteJobs
  <2>1. "patch" \notin DOMAIN j
    BY <1>8 DEF DeleteJobs
  <2>2. k \in DeleteJobs /\ k.at = "delete" /\ k.id = j.id
    BY <1>8, <2>1 DEF DeleteJobs
  <2> HIDE DEF k, j
  <2>3. k \in RoutingJobs /\ AssignedExist(job[w])'
    BY <1>2, <2>2 DEF RoutingJobs, AssignedExist
  <2>4. ASSUME w \notin overtaken PROVE JobSound(job[w])'
    <3>1. j.id \in Rows
      BY <1>1, <1>3, <2>4 DEF JobSound, AccountKnown
    <3> QED BY <1>2, <1>5, <2>2, <3>1 DEF JobSound, AccountKnown, BrandIsFree, OutletsKnown
  <2> QED BY <1>2, <1>4, <1>5, <2>3, <2>4, OneRequestSteps
<1> QED BY <1>3, <1>7, <1>8

(* The flags that were sent replace those of the row.                      *)
LEMMA SavedRow ==
  ASSUME NEW j \in UpdateJobs, qris[j.id] \in QrisRow
  PROVE  /\ Saved(j) \in QrisRow
         /\ Saved(j).brand = IF j.moved THEN j.brand ELSE qris[j.id].brand
<1> DEFINE rec == qris[j.id]
           patch == j.patch
           saved == Saved(j)
<1>1. PICK S \in SUBSET Flags : patch \in [S -> BOOLEAN]
  BY RoutingAssumption DEF UpdateJobs
<1>2. DOMAIN rec = {"brand", "text", "bri", "active", "topup"} /\ DOMAIN patch = S
  BY <1>1 DEF QrisRow
<1>3. saved = [field \in {"brand", "text", "bri", "active", "topup"} |->
                 IF field \in S THEN patch[field]
                 ELSE IF field = "brand" /\ j.moved THEN j.brand ELSE rec[field]]
  BY <1>2 DEF Saved
<1> HIDE DEF saved, patch
<1>4. saved.brand = IF j.moved THEN j.brand ELSE rec.brand
  BY <1>1, <1>3 DEF Flags
<1>5. /\ saved.text \in BOOLEAN /\ saved.bri \in BOOLEAN
      /\ saved.active \in BOOLEAN /\ saved.topup \in BOOLEAN
  BY <1>1, <1>3 DEF QrisRow
<1>6. saved = [brand |-> saved.brand, text |-> saved.text, bri |-> saved.bri,
               active |-> saved.active, topup |-> saved.topup]
  BY <1>3
<1>7. saved.brand \in Brands
  BY <1>4 DEF UpdateJobs, QrisRow
<1>8. saved \in QrisRow
  BY <1>5, <1>6, <1>7 DEF QrisRow
<1> QED BY <1>4, <1>8 DEF saved

(* What a save leaves of the accounts: other rows keep their brand.        *)
LEMMA AccountsSaved ==
  ASSUME RoutingIInv, NEW w \in Consoles, SaveQris(w), job[w].id \in Rows
  PROVE  /\ job[w] \in UpdateJobs /\ qris' \in [Ids -> QrisRow \cup {None}] /\ Rows' = Rows
         /\ qris'[job[w].id].brand = IF job[w].moved THEN job[w].brand ELSE qris[job[w].id].brand
         /\ \A i \in Rows \ {job[w].id} : qris'[i].brand = qris[i].brand
<1> DEFINE j == job[w]
<1>1. /\ j \in UpdateJobs /\ qris[j.id] \in QrisRow /\ RoutingTypeOK
  BY RoutingJobKinds, RowTyped DEF RoutingIInv, SaveQris
<1>2. /\ Saved(j) \in QrisRow
      /\ Saved(j).brand = IF j.moved THEN j.brand ELSE qris[j.id].brand
  BY <1>1, SavedRow
<1>3. qris' = [i \in Ids |->
                 IF i = j.id THEN Saved(j)
                 ELSE IF "topup" \in DOMAIN j.patch /\ j.patch.topup /\ i \in QrisOf(j.brand)
                      THEN [qris[i] EXCEPT !.topup = FALSE] ELSE qris[i]]
  BY DEF SaveQris
<1>4. j = job[w]
  OBVIOUS
<1> HIDE DEF j
<1>5. ASSUME NEW i \in Rows
      PROVE  LET rec == [qris[i] EXCEPT !.topup = FALSE] IN rec \in QrisRow /\ rec.brand = qris[i].brand
  <2>1. qris[i] \in QrisRow
    BY <1>1, RowTyped
  <2> QED BY <2>1 DEF QrisRow
<1>6. /\ qris' \in [Ids -> QrisRow \cup {None}]
      /\ qris'[j.id] \in QrisRow
      /\ qris'[j.id].brand = IF j.moved THEN j.brand ELSE qris[j.id].brand
      /\ \A i \in Ids \ {j.id} : \/ qris[i] = None /\ qris'[i] = None
                                 \/ /\ qris[i] # None /\ qris'[i] \in QrisRow
                                    /\ qris'[i].brand = qris[i].brand
  BY <1>1, <1>2, <1>3, <1>4, <1>5, RowTyped DEF RoutingTypeOK, Rows, QrisOf
<1>7. Rows' = Rows
  BY <1>4, <1>6, RoutingAssumption DEF Rows
<1>8. \A i \in Rows \ {j.id} : qris'[i].brand = qris[i].brand
  BY <1>6 DEF Rows
<1> QED BY <1>1, <1>4, <1>6, <1>7, <1>8

LEMMA SaveQrisIsGood ==
  ASSUME RoutingIInv, NEW w \in Consoles, SaveQris(w), Overtakes(w)
  PROVE  RoutingIInv'
<1> DEFINE j == job[w]
           k == [j EXCEPT !.at = "fresh"]
<1>1. j.at = "save" /\ UNCHANGED <<nextId, outlet>> /\ RoutingTypeOK /\ Open' = Open
  BY DEF SaveQris, RoutingIInv, Open
<1>2. CASE j.id \notin Rows
  <2>1. Done(w) /\ qris' = qris
    BY <1>2 DEF SaveQris
  <2>2. RoutingTypeOK'
    BY <1>1, <2>1 DEF RoutingTypeOK, Open, Rows
  <2> QED BY <1>1, <2>1, <2>2, RoutingEnds
<1>3. CASE j.id \in Rows
  <2>1. j \in UpdateJobs /\ job' = [job EXCEPT ![w] = k]
    BY <1>3, AccountsSaved DEF SaveQris, Goto
  <2>2. k \in UpdateJobs /\ k.at = "fresh" /\ k.id = j.id /\ k.brand = j.brand
    BY <2>1 DEF UpdateJobs
  <2>3. /\ qris' \in [Ids -> QrisRow \cup {None}] /\ Rows' = Rows
        /\ qris'[j.id].brand = IF j.moved THEN j.brand ELSE qris[j.id].brand
    BY <1>3, AccountsSaved
  <2>4. j = job[w]
    OBVIOUS
  <2> HIDE DEF j, k
  <2>5. job' = [job EXCEPT ![w] = job'[w]] /\ job'[w] = k
    BY <2>1 DEF RoutingIInv
  <2>6. k \in RoutingJobs /\ AssignedExist(job[w])'
    BY <2>2, <2>5 DEF RoutingJobs, AssignedExist
  <2>7. RoutingTypeOK'
    BY <1>1, <2>3 DEF RoutingTypeOK, Open
  <2>8. ASSUME w \notin overtaken PROVE JobSound(job[w])'
    <3>1. j.moved <=> qris[j.id].brand # j.brand
      BY <1>1, <2>1, <2>4, <2>8 DEF RoutingIInv, JobSound, BrandIsFree
    <3>2. qris'[j.id].brand = j.brand
      BY <2>3, <3>1
    <3> QED BY <1>3, <2>2, <2>3, <2>5, <3>2 DEF JobSound, AccountKnown, BrandIsFree, OutletsKnown
  <2> QED BY <1>1, <2>5, <2>6, <2>7, <2>8, OneRequestSteps
<1> QED BY <1>2, <1>3

(* What an insert leaves of the accounts.                                  *)
LEMMA AccountInserted ==
  ASSUME RoutingIInv, NEW w \in Consoles, InsertQris(w)
  PROVE  /\ job[w] \in InsertJobs /\ nextId \in Ids
         /\ qris' \in [Ids -> QrisRow \cup {None}]
         /\ nextId \notin Rows /\ Rows' = Rows \cup {nextId}
         /\ qris'[nextId].brand = job[w].brand /\ qris'[nextId].active
         /\ qris'[nextId].text = job[w].text
         /\ \A i \in Ids \ {nextId} : qris'[i] = qris[i]
<1> DEFINE j == job[w]
           rec == [brand |-> j.brand, text |-> j.text, bri |-> FALSE, active |-> TRUE,
                   topup |-> FALSE]
<1>1. j.at = "insert" /\ nextId <= MaxQris /\ qris' = [qris EXCEPT ![nextId] = rec]
  BY DEF InsertQris
<1>2. j \in InsertJobs /\ RoutingTypeOK
  BY <1>1, RoutingJobKinds DEF RoutingIInv
<1>3. nextId \in Ids /\ nextId \notin Rows
  <2>1. nextId \in 1 .. MaxQris + 1 /\ \A i \in Rows : i < nextId
    BY <1>2 DEF RoutingTypeOK
  <2> HIDE DEF j, rec
  <2> QED BY <1>1, <2>1, RoutingAssumption DEF Ids
<1>4. rec \in QrisRow /\ rec.brand = j.brand /\ rec.text = j.text /\ rec.active
  BY <1>2 DEF InsertJobs, QrisRow
<1>5. j = job[w]
  OBVIOUS
<1> HIDE DEF j, rec
<1>6. /\ qris' \in [Ids -> QrisRow \cup {None}] /\ qris'[nextId] = rec
      /\ \A i \in Ids \ {nextId} : qris'[i] = qris[i]
  BY <1>1, <1>2, <1>3, <1>4 DEF RoutingTypeOK
<1>7. Rows' = Rows \cup {nextId}
  <2>1. rec # None
    BY <1>4, RoutingAssumption
  <2> QED BY <1>3, <1>6, <2>1 DEF Rows
<1> QED BY <1>2, <1>3, <1>4, <1>5, <1>6, <1>7

LEMMA InsertQrisIsGood ==
  ASSUME RoutingIInv, NEW w \in Consoles, InsertQris(w), Overtakes(w)
  PROVE  RoutingIInv'
<1> DEFINE j == job[w]
           k == [at |-> "route", id |-> nextId, brand |-> j.brand, ok |-> j.text]
<1>1. /\ nextId' = nextId + 1 /\ outlet' = outlet /\ job' = [job EXCEPT ![w] = k] /\ RoutingTypeOK
  BY DEF InsertQris, Do, RoutingIInv
<1>2. /\ j \in InsertJobs /\ nextId \in Ids /\ qris' \in [Ids -> QrisRow \cup {None}]
      /\ Rows' = Rows \cup {nextId} /\ qris'[nextId].brand = j.brand
      /\ qris'[nextId].active /\ qris'[nextId].text = j.text
  BY AccountInserted
<1>3. k \in RouteJobs /\ k.at = "route" /\ k.id = nextId /\ k.brand = j.brand /\ k.ok = j.text
  BY <1>2 DEF InsertJobs, RouteJobs
<1> HIDE DEF j, k
<1>4. job' = [job EXCEPT ![w] = job'[w]] /\ job'[w] = k /\ Open' = Open
  BY <1>1 DEF RoutingIInv, Open
<1>5. RoutingTypeOK'
  <2>1. nextId' \in 1 .. MaxQris + 1 /\ \A i \in Rows' : i < nextId'
    BY <1>1, <1>2, RoutingAssumption DEF RoutingTypeOK, Ids, Rows
  <2> QED BY <1>1, <1>2, <1>4, <2>1 DEF RoutingTypeOK, Open
<1>6. job'[w] \in RoutingJobs /\ job'[w] \notin UpdateJobs
  BY <1>3, <1>4 DEF RoutingJobs, RouteJobs, UpdateJobs
<1>7. AccountKnown(job[w])'
  <2>1. k.ok => nextId \in Rows' /\ qris'[nextId].active /\ (qris'[nextId].text \/ qris'[nextId].bri)
    BY <1>2, <1>3
  <2> QED BY <1>2, <1>3, <1>4, <2>1 DEF AccountKnown, Eligible
<1>8. JobSound(job[w])' /\ AssignedExist(job[w])'
  BY <1>3, <1>4, <1>6, <1>7 DEF JobSound, BrandIsFree, OutletsKnown, AssignedExist
<1> QED BY <1>4, <1>5, <1>6, <1>8, OneRequestSteps

(* What the deletion of an account leaves of the rows.                     *)
LEMMA AccountDeleted ==
  ASSUME RoutingIInv, NEW w \in Consoles, DeleteRow(w)
  PROVE  /\ job[w].id \in Ids /\ qris' \in [Ids -> QrisRow \cup {None}]
         /\ Rows' = Rows \ {job[w].id}
         /\ \A i \in Rows \ {job[w].id} : qris'[i] = qris[i]
         /\ outlet' \in [Outlets -> OutletRow \cup {None}] /\ Open' = Open
         /\ \A o \in Outlets : \/ o \notin Served(job[w].id) /\ outlet'[o] = outlet[o]
                               \/ outlet'[o].qris = None /\ outlet'[o].brand = outlet[o].brand
<1> DEFINE d == job[w].id
           S == Served(d)
<1>1. /\ job[w].at = "delete" /\ RouteTo(S, None) /\ RoutingTypeOK
      /\ qris' = [qris EXCEPT ![d] = None]
  BY DEF DeleteRow, RoutingIInv
<1>2. d \in Ids
  BY <1>1, RoutingJobKinds DEF RoutingIInv, DeleteJobs
<1>3. S \in SUBSET Open
  BY DEF Served
<1> HIDE DEF d, S
<1>4. /\ outlet' \in [Outlets -> OutletRow \cup {None}] /\ Open' = Open
      /\ \A o \in Outlets : \/ o \notin S /\ outlet'[o] = outlet[o]
                            \/ outlet'[o].qris = None /\ outlet'[o].brand = outlet[o].brand
  <2>1. RoutingTypeOK /\ RouteTo(S, None) /\ S \in SUBSET Open
    BY <1>1, <1>3
  <2> QED BY <2>1, OutletsRouted
<1>5. /\ qris' \in [Ids -> QrisRow \cup {None}] /\ Rows' = Rows \ {d}
      /\ \A i \in Rows \ {d} : qris'[i] = qris[i]
  BY <1>1, <1>2 DEF RoutingTypeOK, Rows
<1> QED BY <1>2, <1>4, <1>5 DEF S, d

LEMMA DeleteRowIsGood ==
  ASSUME RoutingIInv, NEW w \in Consoles, DeleteRow(w), Overtakes(w)
  PROVE  RoutingIInv'
<1> DEFINE d == job[w].id
<1>1. Done(w) /\ nextId' = nextId /\ RoutingTypeOK
  BY DEF DeleteRow, RoutingIInv
<1>2. /\ qris' \in [Ids -> QrisRow \cup {None}] /\ Rows' = Rows \ {d}
      /\ outlet' \in [Outlets -> OutletRow \cup {None}] /\ Open' = Open
      /\ \A o \in Outlets : \/ o \notin Served(d) /\ outlet'[o] = outlet[o]
                            \/ outlet'[o].qris = None
  BY AccountDeleted
<1> HIDE DEF d
<1>3. \A o \in Open' : outlet'[o].qris \in Rows' \cup {None}
  BY <1>1, <1>2 DEF RoutingTypeOK, Open, Served
<1>4. RoutingTypeOK'
  BY <1>1, <1>2, <1>3 DEF RoutingTypeOK
<1> QED BY <1>1, <1>2, <1>4, RoutingEnds

(* What a switch to or from BRI leaves of the accounts.                    *)
LEMMA BriSet ==
  ASSUME RoutingTypeOK, NEW w \in Consoles, NEW i \in Ids, NEW on \in BOOLEAN, SetBri(w, i, on)
  PROVE  /\ qris' \in [Ids -> QrisRow \cup {None}] /\ Rows' = Rows
         /\ \A h \in Rows : qris'[h].brand = qris[h].brand
<1> DEFINE rec == [qris[i] EXCEPT !.bri = on]
<1>1. i \in Rows /\ qris' = [qris EXCEPT ![i] = rec]
  BY DEF SetBri
<1>2. qris[i] \in QrisRow
  BY <1>1, RowTyped
<1>3. rec \in QrisRow /\ rec.brand = qris[i].brand
  BY <1>2 DEF QrisRow
<1> HIDE DEF rec
<1> QED BY <1>1, <1>3, RoutingAssumption DEF RoutingTypeOK, Rows

LEMMA SetBriIsGood ==
  ASSUME RoutingIInv, NEW w \in Consoles, NEW i \in Ids, NEW on \in BOOLEAN, SetBri(w, i, on),
         Overtakes(w)
  PROVE  RoutingIInv'
<1>1. /\ job[w] = Idle /\ UNCHANGED <<nextId, outlet, job>> /\ RoutingTypeOK
  BY DEF SetBri, RoutingIInv
<1>2. RoutingTypeOK' /\ Open' = Open
  BY <1>1, BriSet DEF RoutingTypeOK, Open
<1>3. Done(w)
  BY <1>1 DEF RoutingIInv, Done, Do
<1> QED BY <1>2, <1>3, RoutingEnds

LEMMA RoutingStepsAreGood == RoutingIInv /\ [RoutingNext]_routingVars => RoutingIInv'
<1> SUFFICES ASSUME RoutingIInv, [RoutingNext]_routingVars PROVE RoutingIInv'
  OBVIOUS
<1>1. CASE UNCHANGED routingVars
  <2>1. UNCHANGED <<qris, nextId, outlet, job, overtaken>>
    BY <1>1 DEF routingVars
  <2>2. RoutingTypeOK' /\ Open' = Open
    BY <2>1 DEF RoutingIInv, RoutingTypeOK, Open, Rows
  <2>3. \A w \in Consoles : AssignedExist(job[w])'
    BY <2>1, <2>2 DEF RoutingIInv, AssignedExist
  <2>4. \A w \in Consoles : w \notin overtaken => JobSound(job[w])'
    BY <2>1, SoundAsLongAsNothingChanges DEF RoutingIInv
  <2> QED BY <2>1, <2>2, <2>3, <2>4 DEF RoutingIInv
<1>2. ASSUME NEW w \in Consoles, Request(w) \/ Statement(w) \/ Stop(w), Overtakes(w)
      PROVE  RoutingIInv'
  BY <1>2, RoutingBegins, SetBriIsGood, RoutingReadsOn, RouteIsGood, AssignIsGood,
     WriteOutletIsGood, FreeOutletsIsGood, SaveQrisIsGood, InsertQrisIsGood, DeleteRowIsGood
     DEF Statement
<1> QED BY <1>1, <1>2 DEF RoutingNext

LEMMA RoutingInvariant == RoutingSpec => []RoutingIInv
BY RoutingInitIsGood, RoutingStepsAreGood, PTL DEF RoutingSpec

-----------------------------------------------------------------------------
(* The request that takes an undisturbed step knows what it has read.      *)
LEMMA WhoSteps ==
  ASSUME RoutingIInv, [RoutingNext]_routingVars, NEW w \in Consoles, Undisturbed(w)
  PROVE  (Request(w) \/ Statement(w) \/ Stop(w)) /\ JobSound(job[w])
<1>1. ~ UNCHANGED routingVars
  BY DEF Undisturbed, routingVars
<1>2. PICK v \in Consoles : Request(v) \/ Statement(v) \/ Stop(v)
  BY <1>1 DEF RoutingNext
<1>3. \E j : job' = [job EXCEPT ![v] = j]
  <2>1. CASE Request(v)
    <3>1. ASSUME UNCHANGED job PROVE job' = [job EXCEPT ![v] = job[v]]
      BY <3>1 DEF RoutingIInv
    <3> QED BY <2>1, <3>1 DEF Request, CreateQris, UpdateQris, DeleteQris, AssignOutlets,
                              CreateOutlet, MoveOutlet, SetBri, Do
  <2>2. CASE Statement(v) \/ Stop(v)
    BY <2>2 DEF Statement, Stop, InsertQris, Route, CountTaken, FreeOutlets, SaveQris, ReadFresh,
                DeleteRow, CheckOwned, Assign, ReadReceiver, WriteOutlet, Do, Done, Goto
  <2> QED BY <1>2, <2>1, <2>2
<1>4. v = w
  BY <1>3 DEF RoutingIInv, Undisturbed
<1> QED BY <1>2, <1>4 DEF RoutingIInv, Undisturbed

(* A sound request leaves the accounts in their brands, or brings one to a *)
(* brand that has none, and then no outlet is served by it.                *)
LEMMA AccountsMove ==
  ASSUME RoutingIInv, NEW w \in Consoles, Request(w) \/ Statement(w) \/ Stop(w), JobSound(job[w])
  PROVE  \/ Rows' \subseteq Rows /\ \A i \in Rows' : qris'[i].brand = qris[i].brand
         \/ \E k \in Ids : \E c :
              /\ QrisOf(c) = {} /\ qris'[k].brand = c /\ Served(k) = {}
              /\ Rows' \subseteq Rows \cup {k}
              /\ \A i \in Rows' \ {k} : qris'[i].brand = qris[i].brand
<1> DEFINE Goal ==
      \/ Rows' \subseteq Rows /\ \A i \in Rows' : qris'[i].brand = qris[i].brand
      \/ \E k \in Ids : \E c :
           /\ QrisOf(c) = {} /\ qris'[k].brand = c /\ Served(k) = {}
           /\ Rows' \subseteq Rows \cup {k}
           /\ \A i \in Rows' \ {k} : qris'[i].brand = qris[i].brand
<1>1. CASE qris' = qris
  BY <1>1 DEF Rows
<1>2. CASE InsertQris(w)
  <2>1. /\ nextId \in Ids /\ nextId \notin Rows /\ Rows' = Rows \cup {nextId}
        /\ qris'[nextId].brand = job[w].brand /\ \A i \in Ids \ {nextId} : qris'[i] = qris[i]
    BY <1>2, AccountInserted
  <2>2. QrisOf(job[w].brand) = {}
    BY <1>2 DEF InsertQris, JobSound, BrandIsFree
  <2>3. Served(nextId) = {}
    BY <2>1, RowTyped DEF RoutingIInv, RoutingTypeOK, Served
  <2> QED BY <2>1, <2>2, <2>3 DEF Rows
<1>3. CASE SaveQris(w) /\ job[w].id \in Rows
  <2>1. /\ job[w] \in UpdateJobs /\ Rows' = Rows
        /\ qris'[job[w].id].brand = IF job[w].moved THEN job[w].brand ELSE qris[job[w].id].brand
        /\ \A i \in Rows \ {job[w].id} : qris'[i].brand = qris[i].brand
    BY <1>3, AccountsSaved
  <2>2. job[w].moved => QrisOf(job[w].brand) = {} /\ Served(job[w].id) = {}
    BY <1>3 DEF SaveQris, JobSound, BrandIsFree
  <2> QED BY <1>3, <2>1, <2>2 DEF Rows
<1>4. CASE DeleteRow(w)
  BY <1>4, AccountDeleted
<1>5. ASSUME NEW i \in Ids, NEW on \in BOOLEAN, SetBri(w, i, on) PROVE Goal
  BY <1>5, BriSet DEF RoutingIInv
<1>6. CASE Request(w)
  BY <1>1, <1>5, <1>6 DEF Request, CreateQris, UpdateQris, DeleteQris, AssignOutlets, CreateOutlet,
                          MoveOutlet
<1>7. CASE Statement(w) \/ Stop(w)
  BY <1>1, <1>2, <1>3, <1>4, <1>7
     DEF Statement, Stop, Route, CountTaken, FreeOutlets, SaveQris, ReadFresh, CheckOwned, Assign,
         ReadReceiver, WriteOutlet
<1> QED BY <1>6, <1>7

(* A sound request brings an outlet only to an account of its brand, and   *)
(* only an assignment to one that cannot take payments.                    *)
LEMMA OutletsMove ==
  ASSUME RoutingIInv, NEW w \in Consoles, Request(w) \/ Statement(w) \/ Stop(w), JobSound(job[w]),
         NEW o \in Outlets
  PROVE  \/ outlet'[o] = outlet[o] \/ outlet'[o].qris = None
         \/ /\ qris' = qris /\ outlet'[o].qris \in Rows
            /\ qris[outlet'[o].qris].brand = outlet'[o].brand
            /\ job[w].at = "assign" \/ Eligible(outlet'[o].qris)
<1> DEFINE Goal == \/ outlet'[o] = outlet[o] \/ outlet'[o].qris = None
                   \/ /\ qris' = qris /\ outlet'[o].qris \in Rows
                      /\ qris[outlet'[o].qris].brand = outlet'[o].brand
                      /\ job[w].at = "assign" \/ Eligible(outlet'[o].qris)
           j == job[w]
<1>1. CASE outlet' = outlet
  BY <1>1
<1>2. CASE Route(w) /\ j.ok
  <2> DEFINE S == OutletsOf(j.brand)
             i == j.id
  <2>1. /\ qris' = qris /\ RouteTo(S, i) /\ S \in SUBSET Open /\ RoutingTypeOK
        /\ i \in Rows /\ i \in Ids /\ qris[i].brand = j.brand /\ Eligible(i)
        /\ \A p \in S : outlet[p].brand = j.brand
    BY <1>2 DEF Route, JobSound, AccountKnown, OutletsOf, RoutingIInv, Rows
  <2> HIDE DEF S, i
  <2>2. \/ outlet'[o] = outlet[o]
        \/ o \in S /\ outlet'[o].qris = i /\ outlet'[o].brand = outlet[o].brand
    BY <2>1, OutletsRouted
  <2> QED BY <2>1, <2>2
<1>3. CASE FreeOutlets(w)
  <2> DEFINE S == Served(j.id)
  <2>1. RouteTo(S, None) /\ S \in SUBSET Open /\ RoutingTypeOK
    BY <1>3 DEF FreeOutlets, Served, RoutingIInv
  <2> HIDE DEF S
  <2> QED BY <2>1, OutletsRouted
<1>4. CASE DeleteRow(w)
  BY <1>4, AccountDeleted
<1>5. CASE Assign(w)
  <2>1. /\ qris' = qris /\ j.at = "assign" /\ j.id \in Rows /\ qris[j.id].brand = j.brand
        /\ \A p \in j.outlets : outlet[p].brand = j.brand
    BY <1>5 DEF Assign, JobSound, AccountKnown, OutletsKnown, OutletsOf
  <2>2. \/ outlet'[o] = outlet[o] \/ outlet'[o].qris = None
        \/ o \in j.outlets /\ outlet'[o].brand = outlet[o].brand /\ outlet'[o].qris = j.id
    BY <1>5, OutletsAssigned
  <2> HIDE DEF j
  <2> QED BY <2>1, <2>2 DEF j
<1>6. CASE WriteOutlet(w)
  <2> DEFINE rec == [brand |-> j.brand, qris |-> j.qris]
  <2>1. /\ qris' = qris
        /\ outlet' = outlet \/ outlet' = [outlet EXCEPT ![j.outlet] = rec]
        /\ j.qris # None => Eligible(j.qris) /\ qris[j.qris].brand = j.brand
    BY <1>6 DEF WriteOutlet, JobSound, OutletsKnown
  <2>2. rec.qris = j.qris /\ rec.brand = j.brand
    OBVIOUS
  <2> HIDE DEF j, rec
  <2>3. outlet'[o] = outlet[o] \/ outlet'[o] = rec
    BY <2>1 DEF RoutingIInv, RoutingTypeOK
  <2> QED BY <2>1, <2>2, <2>3 DEF Eligible
<1>7. CASE Request(w)
  BY <1>1, <1>7 DEF Request, CreateQris, UpdateQris, DeleteQris, AssignOutlets, CreateOutlet,
                    MoveOutlet, SetBri
<1>8. CASE Statement(w) \/ Stop(w)
  BY <1>1, <1>2, <1>3, <1>4, <1>5, <1>6, <1>8
     DEF Statement, Stop, Route, CountTaken, SaveQris, ReadFresh, CheckOwned, ReadReceiver, InsertQris
<1> QED BY <1>7, <1>8

(* Then an outlet that is served from outside its brand was so before.     *)
LEMMA OutletStaysInBrand ==
  ASSUME RoutingIInv, RoutingIInv', NEW w \in Consoles, Request(w) \/ Statement(w) \/ Stop(w),
         JobSound(job[w]), NEW o \in Outlets
  PROVE  InBrand(o)' \/ (~ InBrand(o) /\ outlet'[o] = outlet[o])
<1>1. CASE outlet'[o] = outlet[o]
  <2>1. AccountOf(o)' = AccountOf(o) /\ (o \in Open' <=> o \in Open)
    BY <1>1 DEF AccountOf, Open
  <2>2. CASE AccountOf(o) = None
    BY <2>1, <2>2 DEF InBrand
  <2>3. CASE AccountOf(o) # None
    <3>1. o \in Open /\ AccountOf(o) = outlet[o].qris
      BY <2>3 DEF AccountOf
    <3>2. outlet[o].qris \in Rows /\ outlet'[o].qris \in Rows'
      BY <1>1, <2>1, <2>3, <3>1 DEF RoutingIInv, RoutingTypeOK
    <3>3. \A k : Served(k) = {} => outlet[o].qris # k
      BY <3>1 DEF Served
    <3>4. qris'[outlet[o].qris].brand = qris[outlet[o].qris].brand
      BY <1>1, <3>2, <3>3, AccountsMove
    <3> QED BY <1>1, <2>1, <3>1, <3>4 DEF InBrand
  <2> QED BY <2>2, <2>3
<1>2. CASE outlet'[o].qris = None
  BY <1>2 DEF InBrand, AccountOf
<1>3. CASE qris' = qris /\ qris[outlet'[o].qris].brand = outlet'[o].brand
  BY <1>3 DEF InBrand, AccountOf
<1> QED BY <1>1, <1>2, <1>3, OutletsMove

-----------------------------------------------------------------------------
(* In a brand that is in order its customers pay the one account.          *)
OrderedBrandsArePaid == \A b \in Brands : InOrder(b) => PaidInBrand(b)

LEMMA PaymentFollows == RoutingIInv => OrderedBrandsArePaid
<1> SUFFICES ASSUME RoutingIInv, NEW b \in Brands, InOrder(b), NEW o \in OutletsOf(b) \cup {None},
                    NEW d \in Defaults(QrisOf(b)), Eligible(d), NEW i \in OrderAccounts(o, b)
             PROVE  i # None /\ qris[i].brand = b
  BY DEF OrderedBrandsArePaid, PaidInBrand
<1>1. \A k \in Rows : k # None
  BY RowTyped DEF RoutingIInv
<1>2. CASE Eligible(AccountOf(o))
  <2>1. i = AccountOf(o) /\ i \in Rows
    BY <1>2 DEF OrderAccounts, Eligible
  <2>2. o \in Open
    BY <2>1, <1>1 DEF AccountOf
  <2>3. o \in OutletsOf(b) /\ outlet[o].brand = b
    BY <2>2, RoutingAssumption DEF OutletsOf, Open
  <2> QED BY <1>1, <2>1, <2>3 DEF InOrder, InBrand
<1>3. CASE ~Eligible(AccountOf(o))
  <2>1. i \in TopUpAccounts(b)
    BY <1>3 DEF OrderAccounts
  <2>2. d \in QrisOf(b) /\ \A k \in Defaults(QrisOf(b)) : k = d
    BY DEF Defaults, QrisOf, InOrder
  <2>3. i = d
    BY <2>1, <2>2 DEF TopUpAccounts, Pick
  <2> QED BY <1>1, <2>2, <2>3 DEF QrisOf
<1> QED BY <1>2, <1>3

LEMMA OrderIsKept ==
  ASSUME RoutingIInv, RoutingIInv', [RoutingNext]_routingVars, NEW w \in Consoles, Undisturbed(w),
         NEW b \in Brands, InOrder(b)
  PROVE  InOrder(b)'
<1>1. (Request(w) \/ Statement(w) \/ Stop(w)) /\ JobSound(job[w])
  BY WhoSteps
<1>2. \A i, k \in QrisOf(b)' : i = k
  <2>1. CASE Rows' \subseteq Rows /\ \A i \in Rows' : qris'[i].brand = qris[i].brand
    BY <2>1 DEF InOrder, QrisOf
  <2>2. ASSUME NEW k \in Ids, NEW c, QrisOf(c) = {}, qris'[k].brand = c,
               Rows' \subseteq Rows \cup {k},
               \A i \in Rows' \ {k} : qris'[i].brand = qris[i].brand
        PROVE  \A i, h \in QrisOf(b)' : i = h
    BY <2>2 DEF InOrder, QrisOf
  <2> QED BY <1>1, <2>1, <2>2, AccountsMove
<1>3. ASSUME NEW o \in OutletsOf(b)' PROVE InBrand(o)'
  <2>1. o \in Outlets /\ outlet'[o].brand = b /\ o \in Open'
    BY <1>3 DEF OutletsOf, Open
  <2>2. CASE ~ InBrand(o) /\ outlet'[o] = outlet[o]
    BY <2>1, <2>2 DEF InOrder, OutletsOf, Open
  <2> QED BY <1>1, <2>1, <2>2, OutletStaysInBrand
<1> QED BY <1>2, <1>3 DEF InOrder

(* However many brands, accounts, outlets and requests there are, and      *)
(* wherever requests stop half-way, createQris and updateQrisAccount bring *)
(* an account only to a brand without one, except by a request that was    *)
(* overtaken; a brand that has got two all the same is not excluded.       *)
THEOREM OneQris == RoutingSpec => OneQrisPerBrand
<1>1. ASSUME RoutingIInv, [RoutingNext]_routingVars, NEW w \in Consoles, Undisturbed(w),
             NEW b \in Brands
      PROVE  QrisOf(b)' \subseteq QrisOf(b) \/ QrisOf(b) = {}
  <2>1. (Request(w) \/ Statement(w) \/ Stop(w)) /\ JobSound(job[w])
    BY <1>1, WhoSteps
  <2>2. CASE Rows' \subseteq Rows /\ \A i \in Rows' : qris'[i].brand = qris[i].brand
    BY <2>2 DEF QrisOf
  <2>3. ASSUME NEW k \in Ids, NEW c, QrisOf(c) = {}, qris'[k].brand = c,
               Rows' \subseteq Rows \cup {k},
               \A i \in Rows' \ {k} : qris'[i].brand = qris[i].brand
        PROVE  QrisOf(b)' \subseteq QrisOf(b) \/ QrisOf(b) = {}
    BY <2>3 DEF QrisOf
  <2> QED BY <1>1, <2>1, <2>2, <2>3, AccountsMove
<1>2. RoutingIInv /\ [RoutingNext]_routingVars =>
        [\A w \in Consoles : Undisturbed(w) =>
           \A b \in Brands : QrisOf(b)' \subseteq QrisOf(b) \/ QrisOf(b) = {}]_routingVars
  BY <1>1
<1> QED BY <1>2, RoutingInvariant, PTL DEF RoutingSpec, OneQrisPerBrand

(* Neither moves of accounts and of outlets, nor assignments, nor deletes  *)
(* put an outlet under an account of another brand, not even between two   *)
(* statements of a request, unless the request was overtaken.              *)
THEOREM MoneyRoutedInBrand == RoutingSpec => RoutedInBrand
<1>1. RoutingIInv /\ RoutingIInv' /\ [RoutingNext]_routingVars =>
        [\A w \in Consoles : Undisturbed(w) =>
           \A o \in Outlets : InBrand(o) => InBrand(o)']_routingVars
  BY WhoSteps, OutletStaysInBrand
<1> QED BY <1>1, RoutingInvariant, PTL DEF RoutingSpec, RoutedInBrand

(* No request that was not overtaken takes a brand out of order, and while *)
(* it is in order resolveOrderQris does not take the payment of a customer *)
(* out of it, if its account is a top-up default that can be used.         *)
THEOREM PaymentsStay == RoutingSpec => PaymentStaysInBrand
<1>1. RoutingIInv /\ RoutingIInv' /\ OrderedBrandsArePaid' /\ [RoutingNext]_routingVars =>
        [\A w \in Consoles : Undisturbed(w) =>
           \A b \in Brands : InOrder(b) => InOrder(b)' /\ PaidInBrand(b)']_routingVars
  BY OrderIsKept DEF OrderedBrandsArePaid
<1> QED BY <1>1, PaymentFollows, RoutingInvariant, PTL DEF RoutingSpec, PaymentStaysInBrand

(* No statement but a manual assignment brings an outlet to an account     *)
(* that cannot take payments, unless its request was overtaken: what       *)
(* applyBrandRouting and brandReceiverQrisId are told still holds when     *)
(* nobody has written since.                                               *)
THEOREM CaptureNeedsEligible == RoutingSpec => CapturedByEligible
<1>1. ASSUME RoutingIInv, [RoutingNext]_routingVars, NEW w \in Consoles, Undisturbed(w),
             job[w].at # "assign", NEW o \in Outlets
      PROVE  AccountOf(o)' \in {AccountOf(o), None} \/ Eligible(AccountOf(o))'
  <2>1. CASE outlet'[o] = outlet[o] \/ outlet'[o].qris = None
    BY <2>1 DEF AccountOf, Open
  <2>2. CASE qris' = qris /\ Eligible(outlet'[o].qris)
    <3>1. AccountOf(o)' \in {outlet'[o].qris, None}
      BY DEF AccountOf
    <3> QED BY <2>2, <3>1 DEF Eligible, Rows
  <2> QED BY <1>1, <2>1, <2>2, WhoSteps, OutletsMove
<1>2. RoutingIInv /\ [RoutingNext]_routingVars =>
        [\A w \in Consoles : Undisturbed(w) /\ job[w].at # "assign" =>
           \A o \in Outlets :
              AccountOf(o)' \in {AccountOf(o), None} \/ Eligible(AccountOf(o))']_routingVars
  BY <1>1
<1> QED BY <1>2, RoutingInvariant, PTL DEF RoutingSpec, CapturedByEligible
=============================================================================
