SPECIFICATION FairSpec
CONSTANTS
  NB_TASK <- MCNB_TASK
  OCR1A   <- MCOCR1A
  Waiters <- MCWaiters
INVARIANTS TypeOK SleptEnough SleptNotTooLong TimeLeftNeverWraps
PROPERTIES EveryTaskRuns
