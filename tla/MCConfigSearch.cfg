SPECIFICATION FairSpec
CONSTANTS
  Configurations <- MCConfigurations
  Beyond         <- MCBeyond
  BufferSize     <- MCBufferSize
INVARIANTS FoundIsFirst NothingMissed InStep
PROPERTIES EveryTurnIsNearer Terminates
