SPECIFICATION Spec
CONSTANTS
  Membres = {m1, m2}
  Jobs = {j1}
  Massifs = {x1}
  Rappels = {p1}
  Present = 3
  Horizon = 4
  Delai = 2
  MaxLances = 1
  MaxPayes = 3
  Limites = {0, 1}
  LimiteRappels = 2
  Historiques <- Departs
SYMMETRY Symetrie
INVARIANTS
  TypeOK
  LotEntier
  RappelComplet
PROPERTIES
  CandidatsExacts
CHECK_DEADLOCK FALSE
