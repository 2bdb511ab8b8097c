SPECIFICATION FairSpec
CONSTANTS
  a = a
  b = b
  Sprints = {1}
  Shells = {a, b}
  Members <- SharedShell
  Artifacts = Artifacts
  Pulse = Pulse
  Launchers <- SessionOnly
  MaxAttempts = 2
  MaxClaims = 3
  MaxFaults = 2
  MaxRetries = 0
PROPERTIES EveryCleanupSettles DormantIsServed
