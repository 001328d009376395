SPECIFICATION FairSpec
CONSTANTS
  Aucun = Aucun
  Manuel = Manuel
  adh = adh
  m1 = m1
  m2 = m2
  ADH = ADH
  COT = COT
  COTP = COTP
  RefAdhesion = ADH
  Ordres = {o1}
  Refs <- CotRefs
  Lignes <- MCLignes
  Couvre <- CotCouvre
  Precedent = m1
  LignesAbsentes = {m2}
  Sessions = {s1, s2}
  Acteurs = {"initier", "webhook", "rattrapage", "lot"}
  EvolutionsKopar <- EvolutionsReprise
  MaxPannes = 1
PROPERTIES
  EncaissementAbouti

