\* HTTP findings whose rule looks at the body, up to a proved chain.
SPECIFICATION Spec
CONSTANTS
  NotText = NotText
  Window = 5
  AnyOther = AnyOther
  NoRun = NoRun
  Files <- MCFiles
  Base <- MCBase
  Specs <- BodySpecs
  Outputs <- MCOutputs
  Sources <- MCSources
  Replies <- MCReplies
INVARIANT
  ProvedShowsNoSign
CHECK_DEADLOCK FALSE
