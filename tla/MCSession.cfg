CONSTANTS
  Threads = {t1, t2}
  NoThread = NoThread
  ConnTries = 2
  MaxRequests = 2
  MaxExpire = 2
SPECIFICATION FairSpec
CHECK_DEADLOCK FALSE
INVARIANTS
  AtMostOneRejectedLogon
  CarriedOutOnce
PROPERTIES
  ReloginOnlyIfExpired
  RequestEnds
