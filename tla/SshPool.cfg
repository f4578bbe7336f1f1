SPECIFICATION FairSpec
CONSTANTS
  Keys = {k1, k2}
  Conns = {c1, c2}
  Calls = {n1, n2, n3}
  NoConn = NoConn
INVARIANTS
  NoDeadHandle
PROPERTY
  OutcomeFinal
  SettlesUnlessSilent
CHECK_DEADLOCK FALSE
