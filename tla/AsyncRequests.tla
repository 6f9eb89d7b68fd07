--------------------------- MODULE AsyncRequests ---------------------------
(***************************************************************************)
(* Requests and timers of the backend as workers that overlap: each goes   *)
(* from one await to the next, and job says what each does next and what   *)
(* it has read so far.                                                     *)
(***************************************************************************)
CONSTANT None   \* no row, no value (null)

VARIABLE job    \* what each worker is busy with

Idle == [at |-> "idle"]
Do(w, request) == job' = [job EXCEPT ![w] = request]
Goto(w, step) == job' = [job EXCEPT ![w].at = step]
Done(w) == Do(w, Idle)
=============================================================================
