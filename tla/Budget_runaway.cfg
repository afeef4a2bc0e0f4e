\* One worker that the model never satisfies.
SPECIFICATION FairSpec
CONSTANTS
  f1 = f1
  c1 = c1
  w1 = w1
  w2 = w2
  NoFinding = NoFinding
  Findings = {f1}
  Children = {c1}
  Workers = {w1}
  ConfigCeiling <- WideFile
  DefaultCeiling <- WideDefault
  Panels <- LowPanel
  Grants <- Grant
  Prices = {1}
  MinReply = 1
  MaxReply = 1
  Attempts = 2
  InvestigationUsd = 1
  MaxEvents = 1
PROPERTIES
  RunawayStops
CHECK_DEADLOCK FALSE
