----------------------------- MODULE MCRuntime -----------------------------
(* TLC instances of Runtime. *)
EXTENDS Runtime, TLC

CONSTANTS p1, p2, t1, t2, s1, r1, r2

OneProcess == [t \in Clients |-> p1]
TwoProcesses == [t \in Clients |-> IF t = t1 THEN p1 ELSE p2]
MCEventIds == Runs \X (0 .. MaxEvents)

\* Ids of runs are interchangeable.
RunIds == Permutations(Runs)
=============================================================================
