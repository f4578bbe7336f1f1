SPECIFICATION Spec
CONSTANTS
  Null = Null
  MaxNow = 2
  Base = 1
  MaxDelay = 2
  Secrets = {1, 2}
  AdminPassword = 1
  Names = {"n"}
  MaxAttempts = 2
  WindowMs = 2
  PinTtl = 1
  SessionTtl = 1
  MaxFlights = 2
  MaxUsers = 2
  MaxCookies = 1
  MaxRequests = 5
  MaxTokens = 1
  Versions = {"v1", "v2"}
  Pins = {Null, "v1"}
  MaxBoots = 2
  MaxChanges = 2
  Releases = {1, 2}
  Retain = 1
  MaxArchives = 1
  MaxKeys = 2
  MaxFiles = 3
  MaxStoreEdits = 1
  Forever = 99
  Day = 2
  DefaultDays = 2
  DayChoices = {1, 2}
  Activities = {1, 2}
  Group = {1}
  BatchSize = 1
  Tables = {"usage_samples", "grants", "group_schedules"}
  Horizon = 5
  MaxRows = 2
  MaxRuns = 1
  MaxEdits = 2
INVARIANT
  LatestWins
CHECK_DEADLOCK FALSE
