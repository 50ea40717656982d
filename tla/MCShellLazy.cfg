CONSTANTS
  Lines <- Typed
  Unknown = {"x"}
  MaxLines = 2
  MaxInterrupts = 1
SPECIFICATION Spec
INVARIANT LazyEvaluation
CHECK_DEADLOCK FALSE
