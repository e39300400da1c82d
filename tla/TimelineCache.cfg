CONSTANTS
  Thread = {t1, t2}
  None = None
  MaxChanges = 2
  MaxSize = 4
  MaxFaults = 1
SPECIFICATION FairTimeline
INVARIANTS TimelineTypeOK ScanFaithful
PROPERTIES ReadsFresh OverviewsGrow RequestsEnd
CHECK_DEADLOCK FALSE
