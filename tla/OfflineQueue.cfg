SPECIFICATION FairSpec
CONSTANTS
  Clients = {1, 2}
  Keys = {u1, u2}
  MaxPush = 3
  MaxCrash = 1
INVARIANTS
  OneRowPerTarget
  SnapshotIdsStable
  DroppedOnlyIfRaced
PROPERTY
  EventuallyDrained
  ImplementsMailbox
CHECK_DEADLOCK FALSE
