SPECIFICATION Spec
CONSTANTS
  Procs = {p1, p2}
  Decisions = {d1, d2}
  Blockers = {b1}
  Metrics = {m1}
  Typed <- Typings
  MaxPlans = 2
  ParallelOps = {"add-decision"}
  MaxSums = 0
  MaxTries = 2
  MaxRuns = 2
  MaxFaults = 0
INVARIANTS NoLostEntry
CHECK_DEADLOCK FALSE
