SPECIFICATION FairSpecChat
CONSTANTS
  Requests = {r1, r2}
  NumLots = 0
  PackCredits = {}
  Unlimited = Unlimited
  Limits = {2, Unlimited}
  Periods = {1}
  RestoreKeys = {}
  MaxCredits = 2
  Executions = {x1, x2}
  Kinds = {"send", "stream"}
  MaxTurns = 2
  NoRequest = NoRequest
CHECK_DEADLOCK FALSE
INVARIANTS
  OneExecutionPerRequest
  HeldWhileRunning
  EndedHoldsNothing
  ChargedAsMetered
  AnswersArePaid
PROPERTY
  HoldsEnd
