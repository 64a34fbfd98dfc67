SPECIFICATION FairSpec
CONSTANTS
  MaxData     <- MCMaxData
  IrqAt       <- MCOutsideEnqueue
  Stray       <- MCStray
  MAX_DEVICES <- MCMAX_DEVICES
  Slot        <- MCSlot
  IsrInTime   = TRUE
  Calls       <- MCCalls
  MaxCalls    <- MCMaxCalls
  MaxKeys     <- MCMaxKeys
  MaxTyped    <- MCMaxTyped
  MaxSerial   <- MCMaxSerial
INVARIANTS TypeOK ProbeFindsKeyboard WrittenOnce NothingInvented SlowTypistLosesNothing OneLossPerGrab GrabKeysReadsTypes
PROPERTIES ImplementsKeyChannel BufferDrains
