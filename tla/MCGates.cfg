SPECIFICATION Spec
CONSTANTS
  a = a  c = c  gnd = gnd  na = na  y = y  o1 = o1  z = z  q = q  nq = nq  jq = jq
  sa = sa  sc = sc  inv = inv  mux = mux  demux = demux  xor = xor  probe = probe
  div = div  jk = jk
  NC = NC
  Node <- BoardNode
  Source = {sa, sc}
  Gate <- BoardGate
  Kind <- BoardKind
  Pin <- BoardPin
  Reversed = {inv}
  Lines = 1
  Depth = 3
  MaxClicks = 3
INVARIANTS TypeOK Reacted Settled
PROPERTIES ComesToRest ImplementsDelta
