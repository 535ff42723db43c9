\* A dependence, a delay, failed statements and a crash.
SPECIFICATION Spec
CONSTANTS
  t1 = t1  t2 = t2  i1 = i1  i2 = i2  p1 = p1  p2 = p2
  Tasks <- TwoTasks
  Instances = {i1, i2}
  Projects = {p1, p2}
  InstanceOf <- FiringOf
  ProjectOf <- OwnerOf
  MaxFaults = 1
  NoTask = NoTask
  Requires <- Needs
  Lunch <- AtZero
  Delay <- DelayP2
  Delta = 2
  Ignore = 4
  TicksPerSecond = 2
  Horizon = 6
  MaxCrashes = 1
  Edits = {"ABSENT"}
INVARIANTS TypeOK
PROPERTIES NotBeforeDelay
