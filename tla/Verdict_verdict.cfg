\* One finding of each kind of spec, from its first run to the verdict.
SPECIFICATION Spec
CONSTANTS
  NotText = NotText
  Window = 5
  AnyOther = AnyOther
  NoRun = NoRun
  Files <- MCFiles
  Base <- MCBase
  Specs <- MCSpecs
  Outputs <- MCOutputs
  Sources <- MCSources
  Replies <- MCReplies
INVARIANTS
  TypeOK
  RedAgain
  RedIsTracked
  GreenIsAffirmative
  
  EditIsLocated
CHECK_DEADLOCK FALSE
