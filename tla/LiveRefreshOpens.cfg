CONSTANTS
  Load = {open}
  Opening = open
  None = None
  Statuses = {{}, {"live"}, {"pending"}}
  PageSize = 1
  MaxEvents = 2
  MaxHitches = 1
SPECIFICATION FairRefresh
PROPERTY Opens
