SPECIFICATION Spec
CONSTANTS
  Aucun = Aucun
  Adhesions = {a1}
  Comptes = {c1, c2}
  Emails = {e1, e2}
  Requetes = {r1, r2}
SYMMETRY Symetrie
INVARIANTS
  TypeOK
PROPERTIES
  DeuxNiveaux
  CompteReconnu
  ValidationEntiere
CHECK_DEADLOCK FALSE
