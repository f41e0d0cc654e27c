\* Two threads interleave every repository operation on one session id.
CONSTANTS
  s1 = s1
  r1 = r1
  r2 = r2
  e1 = e1
  c1 = c1
  c2 = c2
  Nil = Nil
  Sessions = {s1}
  Runs = {r1, r2}
  EventIds = {e1}
  Clients = {c1, c2}
  MaxSeq = 3
  MaxRecent = 1
  Trigger = 1
  Batch = 1
  FailStatus = {"failed"}
SYMMETRY Ids
SPECIFICATION SummarySpec
INVARIANTS   CompletedHasAnswer NothingForgotten
PROPERTIES TimelineAppendOnly
