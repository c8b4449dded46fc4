SPECIFICATION FairSuperSpec
CONSTANTS
  db = db
  app = app
  Units = {db, app}
  AutoRestart = {db}
  Before <- BeforeApp
  SupMax = 2
  BackoffBase = 1
  BackoffMax = 3
  Budget = 2
  MaxForks = 5
  MaxTime = 4
  Loads <- AllLoads
INVARIANTS BootOrder Tracked
PROPERTIES BackoffKept BootEnds
CHECK_DEADLOCK FALSE
