SPECIFICATION Spec
CONSTANTS
  Aucun = Aucun
  Articles = {a1}
  Commentaires = {c1}
  Likes = {l1, l2}
  Utilisateurs = {u1, s1}
  Staff = {s1}
  Requetes = {r1, r2}
  MaxLancees = 3
  VuesSemees = {5}
SYMMETRY Symetrie
INVARIANTS
  TypeOK
  VuesComptees
  PublieDate
PROPERTIES
  PublieParStaff
  CompteursRepares
CHECK_DEADLOCK FALSE
