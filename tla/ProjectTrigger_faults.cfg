\* Failed queries, crashes, rows that cannot be read, crontabs that do not parse.
SPECIFICATION Spec
CONSTANTS
  Projects = {p1, p2}
  NoRow = NoRow
  Statuses = {"DEBUG", "STOP"}
  Crons = {"cron", "bad"}
  Delays = {"null", "set"}
  SameSecond = FALSE
  MaxClock = 2
  MaxFaults = 1
INVARIANTS NoUnwantedJob NoOrphanJob
SYMMETRY ProjectSymmetry
