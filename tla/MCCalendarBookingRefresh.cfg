SPECIFICATION Spec
CONSTANTS
  Services <- MCServices
  NoService = "none"
  Before <- MCBuffer
  After <- MCBuffer
  Employees = {"ann", "bob"}
  NoOne = "anyone"
  Windows <- MCWindows
  Wanted <- MCTwo
  Few <- MCTwo
  Ids = {1, 2}
  Requests = {r1, r2}
  Keys = {}
  NoKey = NoKey
  Profiles <- MCExpired
CHECK_DEADLOCK FALSE
INVARIANTS
  NoDoubleBooking
