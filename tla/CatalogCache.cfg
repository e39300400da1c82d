CONSTANTS
  Session = {s1, s2}
  Nested = {s2}
  Status = {"complete", "none"}
  DeltaKeep = 1
  MaxWrites = 2
  MaxExpiries = 0
  MaxRestarts = 1
  ScanFails = TRUE
SPECIFICATION FairCatalog
INVARIANTS CatalogTypeOK SnapshotHonest
PROPERTIES CatalogSettles KeepsRevisions
CHECK_DEADLOCK FALSE
