SPECIFICATION FairSpec
CONSTANTS
  Calls = {c1, c2}
  Kinds = {"run", "stream"}
  Providers = {p, q}
  Threshold = 2
  MaxRetries = 1
CHECK_DEADLOCK FALSE
INVARIANTS
  OneVoice
  AttemptsReported
  OpensAfterStreak
PROPERTY
  CallsEnd
