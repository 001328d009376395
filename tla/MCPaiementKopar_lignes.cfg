SPECIFICATION Spec
CONSTANTS
  Aucun = Aucun
  Manuel = Manuel
  adh = adh
  m1 = m1
  m2 = m2
  ADH = ADH
  COT = COT
  COTP = COTP
  RefAdhesion = ADH
  Ordres = {o1}
  Refs <- MCRefs
  Lignes <- MCLignes
  Couvre <- MCCouvre
  Precedent = m1
  LignesAbsentes = {m2}
  Sessions = {s1, s2}
  Acteurs = {"initier", "webhook", "manuel", "generer", "lot", "administrateur"}
  EvolutionsKopar <- EvolutionsSucces
  MaxPannes = 0
SYMMETRY Symetrie
INVARIANTS
  ReferenceJustifiee
  InterblocageDuLot
PROPERTIES
  AnnulationsConnues
