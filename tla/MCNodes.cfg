SPECIFICATION Spec
CONSTANTS
  A = A  B = B  c1 = c1
  Doc = {A, B}
  NoDoc = NoDoc
  Part = {c1}
  MaxTimers = 2
INVARIANT NodesAreCurrent
