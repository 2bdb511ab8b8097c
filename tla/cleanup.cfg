SPECIFICATION Spec
CONSTANTS
  a = a
  b = b
  Sprints = {1, 2}
  Shells = {a, b}
  Members <- SharedShell
  Artifacts = Artifacts
  Pulse = Pulse
  Launchers <- TurnOnly
  MaxAttempts = 2
  MaxClaims = 2
  MaxFaults = 1
  MaxRetries = 1
INVARIANTS TurnUndisturbed NewerSprintSafe OneDestroyer HalfResetIsFenced AnnouncedOnce
