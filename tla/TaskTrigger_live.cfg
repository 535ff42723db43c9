\* Two tasks of which one waits for the other, a crash, no failed statements,
\* under fairness.
SPECIFICATION FairSpec
CONSTANTS
  t1 = t1  t2 = t2  i1 = i1  i2 = i2  p1 = p1  p2 = p2
  Tasks <- TwoTasks
  Instances = {i1, i2}
  Projects = {p1, p2}
  InstanceOf <- FiringOf
  ProjectOf <- OwnerOf
  MaxFaults = 0
  NoTask = NoTask
  Requires <- Needs
  Lunch <- AtZero
  Delay <- NoDelay
  Delta = 2
  Ignore = 4
  TicksPerSecond = 2
  Horizon = 6
  MaxCrashes = 1
  Edits = {"STOP"}
INVARIANTS PushedOnce CheckingIsCached ReleasedIsQueued
PROPERTIES DependenciesRespected CheckingResolved InitPickedUp
