SPECIFICATION Spec
CONSTANTS
  Clients = {1}
  Keys = {u1}
  MaxPush = 2
  MaxCrash = 0
INVARIANT
  MissedPushKept
CHECK_DEADLOCK FALSE
