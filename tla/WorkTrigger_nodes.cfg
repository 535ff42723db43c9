\* Two nodes that share the queue, two workers of one firing, two failures.
SPECIFICATION Spec
CONSTANTS
  t1 = t1  t2 = t2  t3 = t3  i1 = i1  i2 = i2  i3 = i3  p1 = p1  p2 = p2
  Tasks <- TwoTasks
  Instances = {i1, i2, i3}
  Projects = {p1}
  InstanceOf <- WorkerOf
  ProjectOf <- OneProject
  MaxFaults = 2
  Nodes = {n1, n2}
  NoMsg = NoMsg
  NoTask = NoTask
  PoolSize = 1
  MaxActive = 1
  Retry = 1
  CronProjects = {}
  Outcomes = {"zero", "nonzero", "throws"}
  Edits = {"DELETE"}
INVARIANTS TypeOK SingleCopy OneWorkerPerInstance RetriesBounded SettledIsGone
PROPERTIES ImplementsTokens
SYMMETRY NodeSymmetry
