CONSTANTS
  Prompt = {p1, p2}
  Task = Task
  Script = Script
  NoPrompt = NoPrompt
  Tui = {t}
  Control = {}
  Launcher = t
  MaxScripted = 1
  SlowHosts = TRUE
  LiveStale = TRUE
  MaxCrashes = 1
  Quits = FALSE
  StopFails = TRUE
SPECIFICATION FairSpec
INVARIANTS TypeOK DoneMeansOver AwaitingHonest
PROPERTIES KeepsPromises EndingSettles QueueDrains
