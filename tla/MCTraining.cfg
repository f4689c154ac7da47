SPECIFICATION LiveSpec
CONSTANTS
  Datasets = {d1, d2}
  Dispatchers = {r1, r2}
  MaxJobs = 3
  MaxGeneration = 2
  MaxQuality = 1
  Profiles <- MCProfiles
  Bound <- MCBound
CHECK_DEADLOCK FALSE
INVARIANTS
  DispatchedOnce
  
  
PROPERTIES
  ServedForAReason
  JobsEnd
