CONSTANTS
  Prompt = {p1}
  Task = Task
  Script = Script
  NoPrompt = NoPrompt
  Tui = {t}
  Control = {c}
  Launcher = t
  MaxScripted = 0
  SlowHosts = FALSE
  LiveStale = FALSE
  MaxCrashes = 1
  Quits = TRUE
  StopFails = TRUE
SPECIFICATION FairSpec
INVARIANTS DoneMeansOver
PROPERTIES ZombieSettles
