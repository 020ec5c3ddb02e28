SPECIFICATION FairTimedSpec
CONSTANTS
  a1 = a1  d1 = d1  d2 = d2
  cap = cap  dio = dio  mcu = mcu  src = src  gate = gate  dac = dac
  NoElem = NoElem
  ANode = {a1}
  DNode = {d1, d2}
  Elem <- MCElem
  FastList <- MCFastList
  ReactList <- MCReactList
  NonLinList <- MCNonLinList
  LogicList <- MCLogicList
  Stamps <- MCStamps
  Drives <- MCDrives
  Clocked = {src, mcu}
  PortPins <- MCPortPins
  HasEvent = {gate, dac, mcu}
  StepsReact = 3
  StepsNonLinear = 2
  StepRate = 1
  MaxLoops = 1
  MaxErrors = 1
  MaxPortWrites = 1
  MaxRestarts = 0
INVARIANTS
  LatencyBounds
PROPERTIES
  ImplementsDelta
  EveryVoltageServed
