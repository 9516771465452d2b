CONSTANTS
  ka1 = ka1
  ka2 = ka2
  kb = kb
  da1 = da1
  da2 = da2
  db = db
  i1 = i1
  i2 = i2
  i3 = i3
  Ids = {1, 2}
  Keys <- MCKeys
  IdOf <- MCIdOf
  Discos <- MCDiscos
  DiscoOf <- MCDiscoOf
  Indices <- MCIndices
  NoKey = NoKey
  NoDisco = NoDisco
  NoIndex = NoIndex
SYMMETRY MCSymmetry
SPECIFICATION Spec
INVARIANTS
  IndexRouted
  DiscoRouted
  PeersNamed
