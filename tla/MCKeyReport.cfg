SPECIFICATION Spec
CONSTANTS
  Codes     <- MCCodes
  MaxHeld   <- MCMaxHeld
  MaxEvents <- MCMaxEvents
INVARIANTS TypeOK SoloTypingIsExact KeysAreDistinct
CHECK_DEADLOCK FALSE
