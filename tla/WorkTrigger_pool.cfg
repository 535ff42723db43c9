\* One node, three tasks, two of them workers of one firing, the third of a
\* project with a crontab; no failures, under fairness.
SPECIFICATION FairSpec
CONSTANTS
  t1 = t1  t2 = t2  t3 = t3  i1 = i1  i2 = i2  i3 = i3  p1 = p1  p2 = p2
  Tasks <- ThreeTasks
  Instances = {i1, i2, i3}
  Projects = {p1, p2}
  InstanceOf <- WorkerOf3
  ProjectOf <- OwnerOf
  MaxFaults = 0
  Nodes = {n1}
  NoMsg = NoMsg
  NoTask = NoTask
  PoolSize = 1
  MaxActive = 1
  Retry = 1
  CronProjects = {p2}
  Outcomes = {"zero", "nonzero"}
  Edits = {"STOP"}
INVARIANTS NoTaskLost FailMeansExhausted
PROPERTIES EventuallySettled
