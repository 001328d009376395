SPECIFICATION Spec
CONSTANTS
  Aucun = Aucun
  e1 = e1
  e2 = e2
  n1 = n1
  n2 = n2
  v1 = v1
  Emails = {e1, e2}
  Cnis = {n1, n2}
  Cartes = {v1}
  Formes <- QuatreFormes
  Cles = {k1}
  Codes = {c1, c2}
  Adhesions = {a1, a2}
  Requetes = {r1, r2}
  MaxEssais = 2
SYMMETRY Symetrie
INVARIANTS
  TypeOK
  SansDoublon
  CleIdempotente
PROPERTIES
  CodeParti
  EmailProuve
  RaffineRegistre
CHECK_DEADLOCK FALSE
