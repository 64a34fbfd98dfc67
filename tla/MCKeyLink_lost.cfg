SPECIFICATION Spec
CONSTANTS
  MaxData     <- MCMaxData
  IrqAt       <- MCOutsideEnqueue
  Stray       <- MCStray
  MAX_DEVICES <- MCMAX_DEVICES
  Slot        <- MCSlot
  IsrInTime   = TRUE
  Calls       <- MCNoCalls
  MaxCalls    <- MCMaxCalls
  MaxKeys     <- MCMaxKeys
  MaxTyped    <- MCMaxTyped
  MaxSerial   <- MCMaxSerial
INVARIANTS EveryKeyTransmitted
