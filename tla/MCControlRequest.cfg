SPECIFICATION FairSpec
CONSTANTS
  Kinds     <- MCKinds
  PipeSize  <- MCPipeSize
  TimeoutMS <- MCTimeoutMS
  MaxCalls  <- MCMaxCalls
INVARIANTS WithinBuffer SuccessMeansAll AnswerIsOwn
PROPERTIES EveryStepIsNearer EveryCallReturns
