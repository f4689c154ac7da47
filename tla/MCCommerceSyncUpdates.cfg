SPECIFICATION Spec
CONSTANTS
  Runners = {x1}
  NumRecords = 1
  Hooks = {w1}
  Deletes = {}
  Uninstalls = {}
  MaxClock = 3
  MaxCrashes = 0
  Profiles <- MCCalm
  NoRun = NoRun
  NoHook = NoHook
CHECK_DEADLOCK FALSE
INVARIANT
  UpdatesLand
