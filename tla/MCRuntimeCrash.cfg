\* Two processes over one database, two runs on one session id that is deleted
\* and created again; one process crashes and starts again, one write fails.
CONSTANTS
  p1 = p1
  p2 = p2
  t1 = t1
  t2 = t2
  s1 = s1
  r1 = r1
  r2 = r2
  Nil = Nil
  Sessions = {s1}
  Runs = {r1, r2}
  Clients = {t1, t2}
  Procs = {p1, p2}
  ProcOf <- TwoProcesses
  EventIds <- MCEventIds
  FailStatus = {"failed", "cancelled"}
  MaxSeq = 99
  Ttl = 1
  MaxClock = 0
  MaxEvents = 0
  Spare = 0
  MaxTickets = 1
  MaxFaults = 1
  MaxCrashes = 1
SYMMETRY RunIds
SPECIFICATION Spec
INVARIANTS  SoleOwner
PROPERTIES OpenRunOwned RunsFollowLifecycle
\* Requests, runs and failures are bounded: the system comes to rest.
CHECK_DEADLOCK FALSE
