---------------------------- MODULE RunLifecycle ----------------------------
(***************************************************************************)
(* What the Runtime promises about one run, whatever threads, registries   *)
(* and tables it is made of: a run is worked on, may wait for its user and *)
(* be taken up again any number of times, and ends once.  A run that is    *)
(* dropped (its process died, its wait expired, its session was deleted)   *)
(* never comes back.                                                       *)
(***************************************************************************)
CONSTANTS
  Runs,
  Results      \* the statuses a final result may have

VARIABLE life

Phases == {"new", "working", "waiting", "dropped"}

Init == life = [r \in Runs |-> "new"]

Becomes(r, from, to) == life[r] \in from /\ life'[r] \in to

Start(r) == Becomes(r, {"new"}, {"working"})
Wait(r) == Becomes(r, {"working"}, {"waiting"})
TakeUp(r) == Becomes(r, {"waiting"}, {"working"})
End(r) == Becomes(r, {"working"}, Results)
Drop(r) == Becomes(r, {"working", "waiting"}, {"dropped"})

\* One step may move several runs: a crash drops all that its process had.
Next ==
  /\ life' \in [Runs -> Phases \cup Results]
  /\ \A r \in Runs : \/ Start(r) \/ Wait(r) \/ TakeUp(r) \/ End(r) \/ Drop(r)
                     \/ life'[r] = life[r]

Spec == Init /\ [][Next]_life
=============================================================================
