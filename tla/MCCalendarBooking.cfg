SPECIFICATION LiveSpec
CONSTANTS
  Services <- MCServices
  NoService = "none"
  Before <- MCBuffer
  After <- MCBuffer
  Employees = {"ann", "bob"}
  NoOne = "anyone"
  Windows <- MCWindows
  Wanted <- MCThree
  Few <- MCOne
  Ids = {1, 2}
  Requests = {r1, r2}
  Keys = {k1}
  NoKey = NoKey
  Profiles <- MCProfiles
CHECK_DEADLOCK FALSE
INVARIANTS
  CalendarAgrees
PROPERTIES
  ImplementsAgenda
  FailedChangesNothing
  RequestsEnd
