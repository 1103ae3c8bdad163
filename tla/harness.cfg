CONSTANTS
  Kinds <- AllKinds
  PollMax = 3
  AwaitMax = 2
  Token <- FourBytes
SPECIFICATION Spec
INVARIANTS
  HarnessInv
  PassIsEarned
  VerdictHasCause
PROPERTIES
  LogFrozen
  ScriptEnds
