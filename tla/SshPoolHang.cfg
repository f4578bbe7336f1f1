SPECIFICATION FairSpec
CONSTANTS
  Keys = {k1}
  Conns = {c1, c2}
  Calls = {n1, n2}
  NoConn = NoConn
PROPERTY
  ExecTimeBoxed
CHECK_DEADLOCK FALSE
