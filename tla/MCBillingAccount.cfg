SPECIFICATION LiveSpec
CONSTANTS
  Plans = {1, 2}
  Requests = {r1, r2}
  Alone = r1
  Handlers = {h1, h2}
  MaxSubs = 2
  MaxSessions = 2
  MaxPeriods = 3
  MaxEvents = 6
  Profiles <- MCProfiles
  Bound <- MCBound
CHECK_DEADLOCK FALSE
INVARIANTS
  AccountMatchesStripe
  OneSubscription
PROPERTIES
  PaidInvoiceOnce
  EventsHandled
