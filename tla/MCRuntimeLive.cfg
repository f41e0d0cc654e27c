\* One process under fairness of its threads: two threads, two runs on one
\* session id that is deleted and created again, two confirmations, a database
\* failure at any write, an expiry and a crash.
CONSTANTS
  p1 = p1
  p2 = p2
  t1 = t1
  t2 = t2
  s1 = s1
  r1 = r1
  r2 = r2
  Nil = Nil
  Sessions = {s1}
  Runs = {r1, r2}
  Clients = {t1, t2}
  Procs = {p1}
  ProcOf <- OneProcess
  EventIds <- MCEventIds
  FailStatus = {"failed", "cancelled"}
  MaxSeq = 99
  Ttl = 1
  MaxClock = 1
  MaxEvents = 1
  Spare = 1
  MaxTickets = 2
  MaxFaults = 1
  MaxCrashes = 1
SPECIFICATION FairSpec
INVARIANTS KeptMeansStored RegisterNeverConflicts ResumableIsOpen ConfirmedActionOnce
PROPERTIES RequestsEnd HeldRunsSettle
\* Requests, runs and failures are bounded: the system comes to rest.
CHECK_DEADLOCK FALSE
