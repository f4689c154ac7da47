SPECIFICATION FairSpecPurchases
CONSTANTS
  Requests = {r1}
  NumLots = 1
  PackCredits = {3}
  Unlimited = Unlimited
  Limits = {0}
  Periods = {1}
  RestoreKeys = {}
  MaxCredits = 2
  PackSize = 3
  Price = 2
  Overlaps = {TRUE, FALSE}
  Idle = Idle
CHECK_DEADLOCK FALSE
INVARIANTS
  PackAccounted
  RefundsHandled
  RefundedCreditsGone
PROPERTY
  EveryEventProcessed
