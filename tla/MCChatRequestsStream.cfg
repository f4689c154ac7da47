SPECIFICATION SpecChat
CONSTANTS
  Requests = {r1, r2}
  NumLots = 0
  PackCredits = {}
  Unlimited = Unlimited
  Limits = {2}
  Periods = {1}
  RestoreKeys = {}
  MaxCredits = 2
  Executions = {x1}
  Kinds = {"stream"}
  MaxTurns = 2
  NoRequest = NoRequest
CHECK_DEADLOCK FALSE
INVARIANT
  CancelledWithoutMeteredCost
