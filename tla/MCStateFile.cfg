SPECIFICATION FairSpec
CONSTANTS
  Procs = {p1, p2}
  Decisions = {d1}
  Blockers = {b1}
  Metrics = {m1}
  Typed <- Typings
  MaxPlans = 2
  ParallelOps = {"advance-plan"}
  MaxSums = 1
  MaxTries = 2
  MaxRuns = 3
  MaxFaults = 2
INVARIANTS TypeOK Exclusion WholeFile PlanWithinTotal PositionAgrees ReadersAgree SequentialIsExact
PROPERTIES AtomicStore EveryCommandEnds
CHECK_DEADLOCK FALSE
