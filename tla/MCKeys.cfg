SPECIFICATION Spec
CONSTANTS
  Key = {1, 9, 10}
  Node = {n1, n2, n3}
  NoNode = NoNode
  Primes = {2, 3, 5, 7, 11}
  IntMax = 3
INVARIANT Findable
