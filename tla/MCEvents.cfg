CONSTANTS
  Handlers = {h1, h2}
  Users = {u1, u2}
  NoUser = NoUser
  MaxRelogins = 1
  Reenter = TRUE
  MaxPollers = 2
  MaxEvents = 2
SPECIFICATION MCFairSpec
CHECK_DEADLOCK FALSE
INVARIANTS
  OneListener
  OnePollerWhileSubscribed
PROPERTIES
  InOrderUnlessLapsed
  EveryHandlerHears
