SPECIFICATION SpecPurchases
CONSTANTS
  Requests = {r1}
  NumLots = 1
  PackCredits = {2}
  Unlimited = Unlimited
  Limits = {0}
  Periods = {1}
  RestoreKeys = {}
  MaxCredits = 2
  PackSize = 2
  Price = 2
  Overlaps = {TRUE}
  Idle = Idle
CHECK_DEADLOCK FALSE
INVARIANT
  LotsMatchBalance
