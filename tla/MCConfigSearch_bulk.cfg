SPECIFICATION Spec
CONSTANTS
  Configurations <- MCConfigurations
  Beyond         <- MCBeyond
  BufferSize     <- MCBufferSize
INVARIANTS InterruptINFound
