\* A task and one that waits for it, from firing to settlement; one node,
\* under fairness.
SPECIFICATION FairSpec
CONSTANTS
  t1 = t1  t2 = t2  i1 = i1  i2 = i2  p1 = p1
  Tasks <- TwoTasks
  Instances = {i1, i2}
  Projects = {p1}
  InstanceOf <- FiringOf
  ProjectOf <- OwnerOf
  MaxFaults = 0
  Nodes = {n1}
  NoMsg = NoMsg
  NoTask = NoTask
  PoolSize = 1
  MaxActive = 1
  Retry = 1
  CronProjects = {}
  Outcomes = {"zero", "nonzero"}
  Requires <- Needs
  Lunch <- AtZero
  Delay <- NoDelay
  Delta = 1
  Ignore = 3
  TicksPerSecond = 1
  Horizon = 4
  MaxCrashes = 0
  Edits = {"STOP"}
INVARIANTS NoRowStranded
PROPERTIES ImplementsLifecycle ImplementsWork StartsInOrder EveryRowSettled
