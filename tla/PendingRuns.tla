---------------------------- MODULE PendingRuns ----------------------------
(***************************************************************************)
(* PendingRunRegistry (src/app/runtime/pending_runs.py): the runs of a     *)
(* process that wait for the user, each with the time it expires.  One     *)
(* registry per process; every method holds the registry's lock, so each   *)
(* operator below is one atomic change of the registry.  Expired records   *)
(* are removed lazily: all of them by register and clear_session, only the *)
(* one asked for by pop.  (expire, get, remove and clear have no caller in *)
(* the Runtime.)                                                           *)
(*                                                                         *)
(* The executor context in a record is the run's own and is modelled where *)
(* the run is; the confirmation shown to the user is its ticket number, 0  *)
(* when the run waits without one.                                         *)
(***************************************************************************)
EXTENDS RuntimeIds, Naturals

CONSTANTS
  Procs,       \* processes with a Runtime
  Ttl,         \* lifetime of a record, in ticks
  MaxClock     \* bound: the clock stops there

ASSUME RegistryAssumption == Ttl \in Nat \ {0} /\ MaxClock \in Nat

VARIABLES
  pending,     \* per process: run id -> record, or Nil
  clock

registryVars == <<pending, clock>>

PendingRecord == [session : Sessions, ticket : Nat, expires : Nat]

ASSUME RegistryNilAssumption == Nil \notin PendingRecord

RegistryTypeOK ==
  /\ pending \in [Procs -> [Runs -> PendingRecord \cup {Nil}]]
  /\ clock \in Nat

RegistryInit ==
  /\ pending = [p \in Procs |-> [r \in Runs |-> Nil]]
  /\ clock = 0

Expired(rec) == rec.expires <= clock

\* _expire_locked: the registry without its expired records.
Unexpired(reg) == [r \in Runs |-> IF reg[r] # Nil /\ Expired(reg[r]) THEN Nil ELSE reg[r]]

\* register: raises SESSION_CONFLICT instead when the run is there already.
CanRegister(p, r) == Unexpired(pending[p])[r] = Nil

Register(p, r, s, k) ==
  /\ CanRegister(p, r)
  /\ pending' = [pending EXCEPT ![p] = [Unexpired(pending[p]) EXCEPT
                   ![r] = [session |-> s, ticket |-> k, expires |-> clock + Ttl]]]

\* Mutant: the record is handed out and stays.
PopKeeps(p, r, s) ==
  /\ pending[p][r] # Nil
  /\ ~Expired(pending[p][r])
  /\ pending[p][r].session = s
  /\ UNCHANGED pending

\* pop of a live record by its owner session: it is removed.
Pop(p, r, s) ==
  /\ pending[p][r] # Nil
  /\ ~Expired(pending[p][r])
  /\ pending[p][r].session = s
  /\ pending' = [pending EXCEPT ![p][r] = Nil]

\* pop of an expired record deletes it and finds nothing.  (For no record, or a
\* live one of another session, pop changes nothing.)
DropExpired(p, r) ==
  /\ pending[p][r] # Nil
  /\ Expired(pending[p][r])
  /\ pending' = [pending EXCEPT ![p][r] = Nil]

\* clear_session: the expired records, and those of the deleted session.
ClearSession(p, s) ==
  pending' = [pending EXCEPT ![p] =
    [r \in Runs |-> IF pending[p][r] # Nil /\ pending[p][r].session = s
                    THEN Nil ELSE Unexpired(pending[p])[r]]]

\* The process ends and its memory with it.
Clear(p) == pending' = [pending EXCEPT ![p] = [r \in Runs |-> Nil]]

Tick == clock < MaxClock /\ clock' = clock + 1
=============================================================================
