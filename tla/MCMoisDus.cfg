SPECIFICATION Spec
CONSTANTS
  Sessions = {s1, s2}
  Workers = {w1}
  J = 2
  Horizon = 2
  Periodes = {1, 2}
  Validations = {0}
  Regles = {"mois_suivant", "jour_1", "mois_courant"}
  Seuil <- MCSeuil
  Montants = {8}
  Defaut = 5
  DatesModif = {2}
  MaxModifs = 1
SYMMETRY Symetrie
INVARIANTS
  TypeOK
PROPERTIES
  PasAvantPremier
  SansTrou
  
CHECK_DEADLOCK FALSE
