SPECIFICATION Spec
CONSTANTS
  p1 = p1
  p2 = p2
  n1 = n1
  n2 = n2
  r1 = r1
  r2 = r2
  People <- MCPeople
  Names <- MCNames
  Readers <- MCReaders
  CacheMax = 2
  MaxIds = 2
  MaxFaults = 1
  Nobody = Nobody
  NoName = NoName
SYMMETRY MCSymmetry
INVARIANTS NamesAreGiven EnrolledAreKnown
PROPERTIES ImplementsDirectory
