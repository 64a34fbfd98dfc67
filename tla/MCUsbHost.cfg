SPECIFICATION FairSpec
CONSTANTS
  SettleMS  <- MCSettleMS
  WaitMS    <- MCWaitMS
  UnplugAt  <- MCOutside
  PlugAt    <- MCInLoop
  MayFail   <- MCAnythingFails
  MaxPlugs  <- MCPlugs
  MaxFaults <- MCOne
INVARIANTS TypeOK Listening PolledIsReady RequestsInOrder StateAsTold HaltsOnlyAttached
PROPERTIES DetachNoticed EnumeratedOrRefused
