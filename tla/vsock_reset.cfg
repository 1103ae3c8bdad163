CONSTANTS
  Kinds = {"vsock"}
  PollMax = 2
  AwaitMax = 2
  Token <- FourBytes
SPECIFICATION Spec
INVARIANTS
  ListenerReplied
