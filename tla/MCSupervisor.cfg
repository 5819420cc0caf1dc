SPECIFICATION FairSpec
CONSTANTS
  PollInterval = 3
  ProbeInterval = 1
  RetryMin = 2
  RetryMax = 4
  DownAfter = 5
  AuthRetry = 6
  MaxSync = 2
INVARIANTS
  RecordedLagsMildly
  DegradedOneRetryLate
PROPERTIES
  AttemptsSpaced
  Recovers
