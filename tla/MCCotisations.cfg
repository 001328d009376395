SPECIFICATION Spec
CONSTANTS
  Rien = Rien
  Limite = 1
  Membres = {m1, m2}
  LotsCron = {c1}
  LotsAdmin = {a1}
  Sessions = {s1, s2}
  Parcours <- TousParcours
SYMMETRY Symetrie
INVARIANTS
  TypeOK
  LotComplet
PROPERTIES
  CourantPaye
  PrecedentSolde
