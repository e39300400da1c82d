CONSTANTS
  Thread = {t1, t2}
  None = None
  MaxChanges = 2
  MaxSize = 4
  MaxFaults = 1
SPECIFICATION TimelineSpec
INVARIANT OverviewCurrent
CHECK_DEADLOCK FALSE
