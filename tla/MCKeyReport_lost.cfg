SPECIFICATION Spec
CONSTANTS
  Codes     <- MCCodes
  MaxHeld   <- MCMaxHeld
  MaxEvents <- MCMaxEvents
INVARIANTS EveryPressTransmitted
CHECK_DEADLOCK FALSE
