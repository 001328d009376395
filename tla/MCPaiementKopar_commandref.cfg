SPECIFICATION Spec
CONSTANTS
  Aucun = Aucun
  Manuel = Manuel
  adh = adh
  m1 = m1
  m2 = m2
  ADH = ADH
  COT = COT
  COTP = COTP
  RefAdhesion = ADH
  Ordres = {o1, o2}
  Refs <- CotRefs
  Lignes <- MCLignes
  Couvre <- CotCouvre
  Precedent = m1
  LignesAbsentes = {}
  Sessions = {s1, s2}
  Acteurs = {"initier", "webhook"}
  EvolutionsKopar <- EvolutionsCourtes
  MaxPannes = 0
SYMMETRY Symetrie
INVARIANTS
  ReferenceEncaissee
