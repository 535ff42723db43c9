\* No failures, one edit per second and row, under fairness.
SPECIFICATION FairSpec
CONSTANTS
  Projects = {p1, p2}
  NoRow = NoRow
  Statuses = {"RUNNING", "DELETE"}
  Crons = {"none", "once", "cron"}
  Delays = {"null"}
  SameSecond = FALSE
  MaxClock = 2
  MaxFaults = 0
INVARIANTS TypeOK ScheduleFollowsTable
PROPERTIES EventuallyFollows
