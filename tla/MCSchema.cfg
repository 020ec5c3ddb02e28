SPECIFICATION NetSpec
CONSTANTS
  Symbols = {1, 2}
  MaxComponents = 2
  MaxEdits = 8
  CharMax = 10
INVARIANTS
  TypeOK
  LinksAgree
  NetlistIsConnectivity
PROPERTIES
  ImplementsNets
  CloseReleasesAll
