SPECIFICATION Spec
CONSTANTS
  a1 = a1  a2 = a2  d1 = d1  d2 = d2
  cap = cap  dio = dio  mcu = mcu  buf = buf  dac = dac
  NoElem = NoElem
  ANode <- MCANode
  DNode <- MCDNode
  Elem <- MCElem
  FastList <- MCFastList
  ReactList <- MCReactList
  NonLinList <- MCNonLinList
  LogicList <- MCLogicList
  Stamps <- MCStamps
  Drives <- MCDrives
  Clocked = {mcu}
  PortPins <- MCPortPins
  HasEvent = {mcu, buf, dac}
  StepsReact = 3
  StepsNonLinear = 2
  StepRate = 2
  MaxLoops = 1
  MaxErrors = 1
  MaxPortWrites = 2
  MaxRestarts = 2
INVARIANTS
  TypeOK
  NoLostVoltage
  NoLostEventButFast
  StampedIsListed
  StepEndsSolved
  DrainedAtBoundary
  CountersBelowPeriods
  RoundConverges
