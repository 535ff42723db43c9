\* feed fires on the minute, so one firing lies on the border of two windows.
SPECIFICATION Spec
CONSTANTS
  feed = feed  report = report
  Windows <- FourWindows
  Unit <- Clocks
  IntLimit = 1024
  Projects <- TwoProjects
  Cron <- Minutely
  Crontabs = {feed}
  NumWorkers <- Workers
  Rules <- ReportWaitsForLast
  Resizes <- None
  Start = 20
  MaxLag = 1
  Horizon = 21
  MaxFaults = 0
INVARIANTS RequiresLatest
CHECK_DEADLOCK FALSE
