\* Two workers on a finding and its child; a human or a crash steps in.
SPECIFICATION Spec
SYMMETRY Symmetry
CONSTANTS
  f1 = f1
  c1 = c1
  w1 = w1
  w2 = w2
  NoFinding = NoFinding
  Findings = {f1}
  Children = {c1}
  Workers = {w1, w2}
  ConfigCeiling <- File
  DefaultCeiling <- Default
  Panels <- Panel
  Grants <- Grant
  Prices = {1}
  MinReply = 1
  MaxReply = 1
  Attempts = 2
  InvestigationUsd = 0
  MaxEvents = 1
INVARIANTS
  TypeOK
  OverspendBounded
  LifetimeBounded
  LifetimeIsAll
PROPERTIES
  BudgetIsMeter
CHECK_DEADLOCK FALSE
