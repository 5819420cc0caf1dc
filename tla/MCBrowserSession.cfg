SPECIFICATION FairSpec
CONSTANTS
  Tabs = {t1, t2}
  Families = {1}
  Ttl = 2
  Margin = 1
  NoToken = NoToken
  Free = Free
INVARIANTS
  ReuseOnlyAfterLoss
  RenewedInTime
  CallFailsForCause
PROPERTY
  SessionsSettle
