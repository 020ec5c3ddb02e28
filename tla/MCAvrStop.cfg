SPECIFICATION Spec
CONSTANTS
  Vectors = {1, 6, 19, 21}
  OneShot = {6}
  Sticky = {19}
  INT0 = 1
  WDT = 6
  UDRE = 19
  ADC = 21
  FifoSize = 3
  MaxTimers = 6
  Costs = {2}
  Steps = 3
  SleepDefault = 3
  Periods = {3}
  ChangeCycles = 2
  FirstCycles = 3
  NextCycles = 2
  ByteCycles = 2
  MaxWrites = 1
PROPERTY
  QuitsGracefully
