CONSTANTS
  Session = {1, 2}
  Status = {"running"}
  DeltaKeep = 2
  Loader = {l1, l2}
  Limit = 1
  MaxSeq = 2
  MaxRestarts = 0
  RpcFails = TRUE
SPECIFICATION HomeSpec
INVARIANT WholeCatchesUp
