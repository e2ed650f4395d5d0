SPECIFICATION Spec
CONSTANTS
  Call = {c1, c2}
  Source = {s1}
  None = None
  LAST_DAY = 7
  HOUR = 2
  Moment <- MCMoment
  Verdict <- MCVerdict
  Zone <- MCZone
  DayStart <- MCDayStart
  Grouping <- MCGrouping
  FirstDay <- MCFirstDay
SYMMETRY Interchangeable
CHECK_DEADLOCK FALSE
INVARIANT WindowsCountTheirDays
INVARIANT ChartShowsItsBuckets
INVARIANT KpisMakeSense
