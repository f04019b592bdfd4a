\* Two overlapping flushes, the mail that confirms a request and the one that
\* turns it down; no symmetry.
SPECIFICATION FairSpec
CONSTANTS
  r1 = r1
  Mails <- MCPair
  Flushes = {w1, w2}
  MaxAttempts = 2
  Backoff <- MCBackoff
  SendTimeout = 1
  MarkTimeout = 1
  Lease = 3
  AuthDelay = 1
  TimeBudget = 2
  BatchSize = 2
  MaxLost = 1
  NoMail = NoMail
INVARIANTS TypeOK LeaseExclusive AttemptsAccounted
PROPERTIES Settled
