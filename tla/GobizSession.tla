---------------------------- MODULE GobizSession ----------------------------
(***************************************************************************)
(* The GoBiz session of a QRIS account, which payment detection lives on.  *)
(* Every detection cycle trades the stored refresh token for a new one at  *)
(* GoID and stores what it got; the owner may connect or disconnect the    *)
(* account meanwhile.  A token that was traded is worth nothing.           *)
(*                                                                         *)
(* One account: the cycle treats its accounts one after the other, all of  *)
(* them read at the start, so that reading and trading lie far apart.      *)
(***************************************************************************)
EXTENDS AsyncRequests, Naturals

CONSTANTS
  Merchants,
  Cycles,     \* detection cycles that may overlap (the tick, the manual run)
  Requests,   \* requests of the owner's console
  MaxTokens   \* bound: refresh tokens GoID ever issues

ASSUME SessionAssumption ==
  MaxTokens \in Nat /\ Cycles \cap Requests = {} /\ None \notin Merchants /\ None \notin Nat

VARIABLES
  row,      \* gobizRefreshTokenEnc and gobizMerchantId of the account
  issued,   \* tokens GoID has issued
  whose,    \* GoID: the merchant of each token
  live,     \* GoID: the tokens it still accepts
  lost      \* history: tokens whose successor reached nobody

vars == <<row, issued, whose, live, lost, job>>

Tokens == 1 .. MaxTokens
Workers == Cycles \cup Requests
NoSession == [token |-> None, merchant |-> None]

(* A trade GoID has made and whose result is not stored yet.               *)
Unsaved(w) == job[w].at = "store"

TypeOK ==
  /\ row \in [token: Tokens \cup {None}, merchant: Merchants \cup {None}]
  /\ issued \in 0 .. MaxTokens
  /\ whose \in [Tokens -> Merchants \cup {None}]
  /\ live \subseteq 1 .. issued /\ lost \subseteq 1 .. issued

Init ==
  /\ row = NoSession
  /\ issued = 0 /\ whose = [t \in Tokens |-> None] /\ live = {} /\ lost = {}
  /\ job = [w \in Workers |-> Idle]

-----------------------------------------------------------------------------
(* listSettlements: the accounts that are connected, as they are now.      *)
List(w) ==
  /\ w \in Cycles /\ job[w] = Idle
  /\ row.token # None
  /\ Do(w, [at |-> "refresh", token |-> row.token, listed |-> row.merchant])
  /\ UNCHANGED <<row, issued, whose, live, lost>>

(* gobizConnectRefreshToken: the token of a browser that is logged in to  *)
(* GoBiz, a session of its own; the request trades it first.               *)
Paste(w, m) ==
  /\ w \in Requests /\ job[w] = Idle
  /\ issued < MaxTokens
  /\ issued' = issued + 1
  /\ whose' = [whose EXCEPT ![issued + 1] = m]
  /\ live' = live \cup {issued + 1}
  /\ Do(w, [at |-> "refresh", token |-> issued + 1, listed |-> None])
  /\ UNCHANGED <<row, lost>>

(* gobizVerifyOtp and gobizLoginPassword: GoID opens a session; the id of  *)
(* the merchant is asked for with it and may remain unknown.               *)
Connect(w, m) ==
  /\ w \in Requests /\ job[w] = Idle
  /\ issued < MaxTokens
  /\ issued' = issued + 1
  /\ whose' = [whose EXCEPT ![issued + 1] = m]
  /\ live' = live \cup {issued + 1}
  /\ \E known \in {m, None} :
       Do(w, [at |-> "store", token |-> issued + 1, from |-> None, merchant |-> known])
  /\ UNCHANGED <<row, lost>>

(* refresh: GoID trades the token for a new one.  Its answer may get lost  *)
(* (the request has a deadline); fetchMerchantId falls back to null, the   *)
(* caller then to the merchant the cycle has listed.                       *)
Trade(w) ==
  /\ job[w].at = "refresh" /\ job[w].token \in live
  /\ issued < MaxTokens
  /\ LET t == job[w].token
     IN /\ issued' = issued + 1
        /\ whose' = [whose EXCEPT ![issued + 1] = whose[t]]
        /\ live' = (live \ {t}) \cup {issued + 1}
        /\ \/ /\ \E known \in {whose[t], job[w].listed} :
                   Do(w, [at |-> "store", token |-> issued + 1, from |-> t, merchant |-> known])
              /\ UNCHANGED lost
           \/ /\ Done(w)
              /\ lost' = lost \cup {t}
  /\ UNCHANGED row

(* "Sesi GoBiz kedaluwarsa": the account is skipped, the row stays.        *)
Refused(w) ==
  /\ job[w].at = "refresh" /\ job[w].token \notin live
  /\ Done(w)
  /\ UNCHANGED <<row, issued, whose, live, lost>>

(* Slips: the merchant is written only if the row has none; the row is     *)
(* written only if the merchant has changed.                               *)
StoreFirstMerchant(w) ==
  /\ Unsaved(w)
  /\ row' = [token |-> job[w].token,
             merchant |-> IF row.merchant # None THEN row.merchant ELSE job[w].merchant]
  /\ Do(w, IF w \in Cycles /\ job[w].merchant # None
             THEN [at |-> "search", token |-> job[w].token, merchant |-> job[w].merchant] ELSE Idle)
  /\ UNCHANGED <<issued, whose, live, lost>>

StoreIfChanged(w) ==
  /\ Unsaved(w)
  /\ row' = IF job[w].merchant = row.merchant /\ row.token # None THEN row
            ELSE [token |-> job[w].token, merchant |-> job[w].merchant]
  /\ Do(w, IF w \in Cycles /\ job[w].merchant # None
             THEN [at |-> "search", token |-> job[w].token, merchant |-> job[w].merchant] ELSE Idle)
  /\ UNCHANGED <<issued, whose, live, lost>>

(* The row is written by its id, whatever became of it; a cycle goes on to *)
(* the journals if it knows the merchant.                                  *)
Store(w) ==
  /\ Unsaved(w)
  /\ row' = [token |-> job[w].token, merchant |-> job[w].merchant]
  /\ Do(w, IF w \in Cycles /\ job[w].merchant # None
             THEN [at |-> "search", token |-> job[w].token, merchant |-> job[w].merchant] ELSE Idle)
  /\ UNCHANGED <<issued, whose, live, lost>>

(* searchJournals of one merchant; an error skips the account.             *)
Search(w) ==
  /\ job[w].at = "search"
  /\ Done(w)
  /\ UNCHANGED <<row, issued, whose, live, lost>>

Disconnect ==
  /\ row' = NoSession
  /\ UNCHANGED <<issued, whose, live, lost, job>>

(* The process ends: what was traded and not stored is gone.               *)
Crash ==
  /\ job' = [w \in Workers |-> Idle]
  /\ lost' = lost \cup ({job[w].from : w \in {v \in Workers : Unsaved(v)}} \ {None})
  /\ UNCHANGED <<row, issued, whose, live>>

Next ==
  \/ \E w \in Workers :
       \/ List(w) \/ Trade(w) \/ Refused(w) \/ Store(w) \/ Search(w)
       \/ \E m \in Merchants : Paste(w, m) \/ Connect(w, m)
  \/ Disconnect \/ Crash

Spec == Init /\ [][Next]_vars

-----------------------------------------------------------------------------
(* "Persist the rotated refresh_token so the session stays alive": cycles  *)
(* and requests may overlap in any order, the stored token is one GoID     *)
(* accepts, unless its successor is about to be stored or was lost with    *)
(* an answer or with the process.                                          *)
SessionStaysAlive ==
  row.token # None =>
    \/ row.token \in live
    \/ row.token \in lost
    \/ \E w \in Workers : Unsaved(w) /\ job[w].from = row.token

(* "scoped to one merchant", "never emit false positives": the merchant    *)
(* stored with a token, and the merchant whose journals are searched, are  *)
(* the token's own, also when the account is connected anew meanwhile.     *)
OneMerchantPerSession ==
  /\ row.merchant # None => row.merchant = whose[row.token]
  /\ \A w \in Workers :
       job[w].at \in {"store", "search"} /\ job[w].merchant # None
         => job[w].merchant = whose[job[w].token]
=============================================================================
