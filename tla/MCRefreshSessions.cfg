SPECIFICATION Spec
CONSTANTS
  Aucun = Aucun
  Requetes = {r1, r2}
  Jetons = {j1, j2, j3, j4}
  MaxRadiations = 1
SYMMETRY Symetrie
INVARIANTS
  TypeOK
  UsagesBornes
  RadiationContient
