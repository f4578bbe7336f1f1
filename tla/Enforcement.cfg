SPECIFICATION FairSpec
CONSTANTS
  Users = {1}
  Targets = {1}
  Clients = {1, 2}
  Closable = {1}
  Consumed = {0, 1}
  Allowed = {0, 1, 2}
  Cooldown = 2
  MaxCrash = 1
INVARIANTS
  OneTimerPerTarget
  CooldownHolds
PROPERTIES
  EnforcedAgain
  FanOutComplete
