\* Two tasks parked under one key.
SPECIFICATION FairSpec
CONSTANTS
  t1 = t1  t2 = t2  i1 = i1  i2 = i2  p1 = p1  p2 = p2
  Tasks <- TwoTasks
  Instances = {i1, i2}
  Projects = {p1, p2}
  InstanceOf <- FiringOf
  ProjectOf <- OwnerOf
  MaxFaults = 0
  NoTask = NoTask
  Requires <- Needs
  Lunch <- AtZero
  Delay <- NoDelay
  Delta = 1
  Ignore = 3
  TicksPerSecond = 1
  Horizon = 4
  MaxCrashes = 0
  Edits = {}
PROPERTIES EveryJobScheduled
