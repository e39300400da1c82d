CONSTANTS
  Session = {1, 2}
  Status = {"running"}
  DeltaKeep = 2
  Loader = {l1}
  Limit = 2
  MaxSeq = 4
  MaxRestarts = 1
  RpcFails = TRUE
SPECIFICATION HomeSpec
INVARIANTS HomeTypeOK PollCatchesUp
