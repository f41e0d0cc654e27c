-------------------------- MODULE MCSessionStore --------------------------
(* TLC instance of SessionStore and SummaryStore: two threads, two runs and a
   session that is deleted and created again under its old id. *)
EXTENDS SummaryStore, TLC

CONSTANTS s1, r1, r2, e1, c1, c2

\* Ids are interchangeable: nothing in the store orders them.
Ids == Permutations({r1, r2}) \cup Permutations({c1, c2})
=============================================================================
