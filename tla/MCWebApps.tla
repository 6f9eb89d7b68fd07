------------------------------ MODULE MCWebApps ------------------------------
(***************************************************************************)
(* Every screen of the four apps with two submissions, two list requests   *)
(* and two selections: enough for answers to overtake each other, for a    *)
(* second change to start while the first one waits, and for a selection   *)
(* to be left while its list or a change of it is under way.               *)
(***************************************************************************)
EXTENDS WebApps, WebPages, TLC

CONSTANTS c1, c2, s1, s2, l1, l2

MCScreens == AllScreens
Interchangeable == Permutations({c1, c2}) \cup Permutations({l1, l2})
==============================================================================
