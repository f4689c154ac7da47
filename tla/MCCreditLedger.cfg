SPECIFICATION Spec
CONSTANTS
  Requests = {r1, r2}
  NumLots = 2
  PackCredits = {2}
  Unlimited = Unlimited
  Limits = {1, Unlimited}
  Periods = {1, 2}
  RestoreKeys = {k1}
  MaxCredits = 2
SYMMETRY RequestSymmetry
CHECK_DEADLOCK FALSE
INVARIANTS
  HoldsMatchReservations
  LotsMatchBalance
  CreditsCovered
  PurchasedCreditsAccounted
  LedgerExplainsBalance
PROPERTY
  ChargedOnce
  ImplementsWallet
