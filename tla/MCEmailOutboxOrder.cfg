\* Two overlapping flushes and all the mails of a reservation that two owners
\* decide at the same time; flushes of one row, without a time budget.
SPECIFICATION Spec
CONSTANTS
  r1 = r1
  Mails <- MCRace
  Flushes = {w1, w2}
  MaxAttempts = 2
  Backoff <- MCBackoff
  SendTimeout = 1
  MarkTimeout = 1
  Lease = 3
  AuthDelay = 1
  TimeBudget = 0
  BatchSize = 1
  MaxLost = 1
  NoMail = NoMail
SYMMETRY MCSymmetry
INVARIANTS DeliveryInv MailsInSequence
PROPERTIES Delivered
