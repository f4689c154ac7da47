SPECIFICATION FairSpec
CONSTANTS
  Runners = {x1, x2}
  NumRecords = 2
  Hooks = {w1, w2}
  Deletes = {w1}
  Uninstalls = {w2}
  MaxClock = 2
  MaxCrashes = 1
  Profiles <- MCProfiles
  NoRun = NoRun
  NoHook = NoHook
CHECK_DEADLOCK FALSE
INVARIANTS
  CursorCoversPages
  OneRunAtATime
  SnapshotMatchesStore
  TombstonesLand
PROPERTIES
  NoStaleOverwrite
  ReceiptsTakenUp
