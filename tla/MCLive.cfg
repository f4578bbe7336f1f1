SPECIFICATION Spec
CONSTANTS
  Activities = {1}
  Grace = 2
  MaxRuns = 2
  MaxAwait = 2
  Total = 4
  Coarse = 15
  Mid = 10
  Fine = {5, 4, 3, 2, 1}
  Uses = {3}
  Grants = {2}
  MaxTicks = 2
  MaxDay = 2
  MaxGrants = 1
  MaxUse = 6
  Clients = {1}
  MaxSock = 2
  MaxSeq = 2
  First = {"full", "plain", "old", "bad"}
  Versions = {"v1", "v2"}
  Null = Null
  MaxRestarts = 2
  MaxSpawns = 4
  MaxBoots = 3
  Machines = {1, 2}
  MaxNow = 1
INVARIANTS
  StreamSound
  SupervisorSound
  AgentSound
PROPERTIES
  ConnectClearsFlag
  NeverWedged
  HalfOpenReaped
  FailureReported
  ListAnswered
CHECK_DEADLOCK FALSE
