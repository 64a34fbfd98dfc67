SPECIFICATION Spec
CONSTANTS
  SettleMS  <- MCSettleMS
  WaitMS    <- MCWaitMS
  UnplugAt  <- MCAnywhere
  PlugAt    <- MCAnywhere
  MayFail   <- MCNothing
  MaxPlugs  <- MCNone
  MaxFaults <- MCNone
INVARIANTS StateAsTold
