SPECIFICATION Spec
CONSTANTS
  Key = {0, 2, 5, 7}
  Node = {n1, n2, n3, n4}
  NoNode = NoNode
  Primes = {2, 3, 5, 7, 11}
  IntMax = 15
INVARIANTS
  TypeOK
  Findable
  OnePlace
  Loaded
  IterationComplete
PROPERTY ImplementsKeySet
