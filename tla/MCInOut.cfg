SPECIFICATION Spec
CONSTANTS
  MaxData <- MCMaxData
  Key     <- MCKey
  Stray   <- MCStray
  IrqAt   <- MCAnywhere
INVARIANTS TypeOK NoStrandedKey
PROPERTIES ImplementsKeyQueue
