CONSTANTS
  Lines <- Typed
  Unknown = {"x"}
  MaxLines = 2
  MaxInterrupts = 1
SPECIFICATION FairSpec
INVARIANTS TypeOK ParsedRight PipelineIsOver PipesConnect StopsAfterInterrupt LazyUnlessPiped
PROPERTIES LineFinishes
CHECK_DEADLOCK FALSE
