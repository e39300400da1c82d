CONSTANTS
  Proc = {p1, p2, p3}
  Old = {p3}
  Command = {c}
  None = None
SPECIFICATION OwnerFairSpec
INVARIANTS OwnerTypeOK OneOwner CalmOwnerKept StopMeansStopped
PROPERTIES StopKillsTargets CommandsEnd
CHECK_DEADLOCK FALSE
