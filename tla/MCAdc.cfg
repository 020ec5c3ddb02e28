SPECIFICATION Spec
CONSTANTS
  a1 = a1  d1 = d1  adc = adc  volt = volt
  NoElem = NoElem
  ANode = {a1}
  DNode = {d1}
  Elem = {adc, volt}
  FastList <- MCFastList
  ReactList <- MCEmptyList
  NonLinList <- MCEmptyList
  LogicList <- MCLogicList
  Stamps <- MCStamps
  Drives <- MCDrives
  Clocked = {}
  PortPins <- MCPortPins
  HasEvent = {}
  StepsReact = 3
  StepsNonLinear = 2
  StepRate = 1
  MaxLoops = 1
  MaxErrors = 0
  MaxPortWrites = 0
  MaxRestarts = 0
INVARIANT NoNullCallback
CHECK_DEADLOCK FALSE
