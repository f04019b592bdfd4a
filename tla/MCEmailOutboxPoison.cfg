\* A mail that ends the process each time it is sent.
SPECIFICATION Spec
CONSTANTS
  r1 = r1
  Mails <- MCOne
  Flushes = {w1}
  MaxAttempts = 6
  Backoff <- MCBackoff
  SendTimeout = 1
  MarkTimeout = 1
  Lease = 3
  AuthDelay = 1
  TimeBudget = 2
  BatchSize = 2
  MaxLost = 6
  NoMail = NoMail
INVARIANTS AttemptsBounded
