\* A strategy finding, whose image is committed before the script is written.
SPECIFICATION Spec
CONSTANTS
  Builders = {b1}
  Setups <- MCSetups
  TagSetups <- MCTagSetups
  Bare = "bare"
  Warm <- MCWarm
  MaxImages = 2
  Modes = {"strategy"}
  Checks = {"tree", "smoke"}
  Smoke = "smoke"
  Fails <- MCFails
  Scripts = {s1, s2}
  NoScript = NoScript
  MaxTurns = 3
  PerTurn = 2
  ForceEvery = 2
  Streak = 2
  MaxRuns = 1
INVARIANTS
  FrozenIsRun
CHECK_DEADLOCK FALSE
