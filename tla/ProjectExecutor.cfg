\* Firings of two projects that overlap, one fault, num_workers edited.
SPECIFICATION FairSpec
CONSTANTS
  feed = feed  report = report
  Windows <- FourWindows
  Unit <- Clocks
  IntLimit = 1024
  Projects <- TwoProjects
  Cron <- FourSeconds
  Crontabs = {feed}
  NumWorkers <- Workers
  Rules <- ReportWaits
  Resizes <- ReportGrows
  Start = 18
  MaxLag = 1
  Horizon = 26
  MaxFaults = 1
INVARIANTS TypeOK NamedByOccurrence RequiresLatest RequiredRowsExist
PROPERTIES NoRowReset FiringComplete
CHECK_DEADLOCK FALSE
