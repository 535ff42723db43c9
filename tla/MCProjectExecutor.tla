--------------------------- MODULE MCProjectExecutor ---------------------------
(* Instances of ProjectExecutor.  Two ticks make a second, three seconds a
   minute, two minutes an hour, three hours a day. *)
EXTENDS ProjectExecutor, TLC

CONSTANTS feed, report

TwoProjects == {feed, report}
Clocks == ("second" :> 2) @@ ("minute" :> 6) @@ ("hour" :> 12) @@ ("day" :> 36)
FourWindows == <<6, 12, 36, 72>>

\* feed runs every four seconds, or every minute; report has no crontab, it
\* runs once, in the second in which feed does.
Every(period) == {t \in -18..Horizon : t % period = 18 % period}
FourSeconds == (feed :> Every(8)) @@ (report :> {19})
Minutely == (feed :> Every(6)) @@ (report :> {20})
Workers == (feed :> 2) @@ (report :> 1)
ReportGrows == {<<report, 2>>}
None == {}

\* report waits for feed in several ways, and for projects that have no
\* crontab or are not in the map.
Rule(p, u, d, o, c) ==
  [project |-> p, unit |-> u, delta |-> d, offset |-> o, count |-> c]
ManyRules ==
  {Rule(feed, "second", 0, 0, 2), Rule(feed, "minute", 0, 2, 1),
   Rule(feed, "minute", -1, 0, 1), Rule(feed, "hour", 0, 3, 3),
   Rule(feed, "hour", -1, 2, 1), Rule(report, "second", 0, 0, 1),
   Rule("absent", "second", 0, 0, 1)}
ReportWaits == (feed :> {}) @@ (report :> ManyRules)

\* The last firing of feed before the minute.
LastMinute == {Rule(feed, "minute", 0, 0, 1)}
ReportWaitsForLast == (feed :> {}) @@ (report :> LastMinute)
=============================================================================
