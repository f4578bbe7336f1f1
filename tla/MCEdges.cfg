SPECIFICATION Spec
CONSTANTS
  Null = Null
  Users = {"ann", "bob"}
  MaxActs = 5
  Tokens = {"t1", "t2"}
  UserOf <- MCUserOf
  Versions = {1, 2}
  MaxRuns = 3
  MaxClients = 3
  MaxAdmin = 2
  MaxPolls = 2
  MaxLogins = 2
  MaxLoads = 3
  MaxOuts = 2
  Children = {"ann", "bob"}
  MaxVer = 2
  Saved <- MCSaved
  Minute = 2
  Typed = {1, Null}
  MaxClicks = 4
  MaxEdits = 2
  Argvs <- MCArgvs
  Calls = {"exec", "execAndParse"}
  Limit = 1
  MaxCommands = 2
  MaxReads = 3
  Clients = {1, 2}
  Components <- MCComponents
  Concurrency = 1
  Lists = {1}
  MaxChecks = 1
  Releases <- MCVersions
  MaxNow = 2
INVARIANTS
  ViewsSound
  AuditSound
  PanesSound
  ShellSound
  InstallSound
  HealthSound
CHECK_DEADLOCK FALSE
