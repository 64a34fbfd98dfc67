SPECIFICATION Spec
CONSTANTS
  MaxData     <- MCMaxData
  IrqAt       <- MCAnywhere
  Stray       <- MCStray
  MAX_DEVICES <- MCMAX_DEVICES
  Slot        <- MCSlot
  IsrInTime   = FALSE
  Calls       <- MCNoCalls
  MaxCalls    <- MCMaxCalls
  MaxKeys     <- MCMaxKeys
  MaxTyped    <- MCFewTyped
  MaxSerial   <- MCFewSerial
INVARIANTS WrittenOnce NothingInvented
CHECK_DEADLOCK FALSE
