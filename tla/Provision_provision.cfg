\* All kinds of findings, a template being built, replaced and removed.
SPECIFICATION FairSpec
CONSTANTS
  Builders = {b1}
  Setups <- MCSetups
  TagSetups <- MCTagSetups
  Bare = "bare"
  Warm <- MCWarm
  MaxImages = 2
  Modes = {"prebuilt", "template", "plain", "strategy"}
  Checks = {"tree", "smoke"}
  Smoke = "smoke"
  Fails <- MCFails
  Scripts = {s1, s2}
  NoScript = NoScript
  MaxTurns = 3
  PerTurn = 2
  ForceEvery = 2
  Streak = 2
  MaxRuns = 2
INVARIANTS
  TypeOK
  ImagePassedChecks
  BuildStartsFromImage
  FrozenIsRunIfCommittedLast
  RowIsVerified
  NoOrphanTag
PROPERTIES
  StartsWarm
  ProvisionEnds
CHECK_DEADLOCK FALSE
