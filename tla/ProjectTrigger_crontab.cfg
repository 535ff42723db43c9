\* A crontab that does not parse.
SPECIFICATION FairSpec
CONSTANTS
  Projects = {p1, p2}
  NoRow = NoRow
  Statuses = {"RUNNING", "STOP"}
  Crons = {"cron", "bad"}
  Delays = {"null"}
  SameSecond = FALSE
  MaxClock = 1
  MaxFaults = 0
PROPERTIES EventuallyFollows
