CONSTANTS
  Handlers = {h1, h2}
  Users = {u1}
  NoUser = NoUser
  MaxRelogins = 0
  Reenter = FALSE
  MaxPollers = 1
  MaxEvents = 0
SPECIFICATION Spec
CHECK_DEADLOCK FALSE
PROPERTY
  ShutdownStopsPolling
