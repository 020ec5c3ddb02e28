SPECIFICATION FairSpec
CONSTANTS
  A = A  B = B  c1 = c1
  Doc = {A, B}
  NoDoc = NoDoc
  Part = {c1}
  MaxTimers = 2
INVARIANTS
  TypeOK
  WorkerOnReadyCircuit
  EndIsFinal
  ModeTellsTimer
  OneStepper
PROPERTIES
  WaitsOnlyForSteps
  RunningIsServed
