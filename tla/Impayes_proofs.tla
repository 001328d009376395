--------------------------- MODULE Impayes_proofs ---------------------------
(***************************************************************************)
(* Theorems about Impayes, for any number of members, batches and months,  *)
(* any delay and any history of the months.                                *)
(***************************************************************************)
EXTENDS Impayes, FiniteSetTheorems, WellFoundedInduction, TLAPS

EtatsLot == [etape : {"repos", "lire", "appliquer", "fini", "erreur"},
             vus : SUBSET Membres, comptes : SUBSET Membres, limite : Limites,
             candidats : SUBSET Membres, cibles : SUBSET Membres,
             reste : SUBSET Membres, faits : SUBSET Membres,
             erreurs : SUBSET Membres, morte : BOOLEAN,
             pannes : SUBSET Membres, perdus : SUBSET Membres]
EtatsRappel == [etape : {"repos", "envoyer", "fini"}, reste : SUBSET Membres,
                dus : SUBSET Membres, ecrits : SUBSET Membres,
                rates : SUBSET Membres, tronque : BOOLEAN]

Types ==
  /\ mois \in [Membres -> [Mois -> StatutsMois]]
  /\ statut \in [Membres -> Statuts]
  /\ compte \in [Membres -> {"sans", "actif", "desactive"}]
  /\ lot \in [Lots -> EtatsLot]
  /\ rappel \in [Rappels -> EtatsRappel]

\* The members a batch was to radiate: done, reported, or still to come.
Partage(l) ==
  /\ l.faits \cap l.erreurs = {} /\ (l.faits \cup l.erreurs) \cap l.reste = {}
  /\ l.etape \in {"repos", "lire"} => l.faits = {} /\ l.erreurs = {} /\ l.reste = {}
  /\ l.etape \in {"appliquer", "fini"} => l.cibles = l.faits \cup l.erreurs \cup l.reste
  /\ l.etape = "fini" => l.reste = {}

\* In the job, the members lost to somebody else's failed read: one each, and one
\* more to come when the session is unusable.
Pertes(b) == LET l == lot[b] IN
  /\ l.perdus \subseteq l.erreurs
  /\ l.etape \in {"repos", "lire", "erreur"} => l.perdus = {} /\ l.pannes = {} /\ ~l.morte
  /\ b \in Jobs => Cardinality(l.perdus) + (IF l.morte THEN 1 ELSE 0)
                     <= Cardinality(l.pannes \cap l.faits)

\* The members a reminder is for: tried, still to come, or deleted.
Destinataires(q) ==
  /\ q.ecrits \cup q.rates \cup q.reste \subseteq q.dus
  /\ q.etape = "repos" => q.ecrits = {} /\ q.rates = {}
  /\ \A m \in q.dus : \/ q.tronque \/ m \in q.ecrits \/ m \in q.rates \/ m \in q.reste
                       \/ statut[m] = "supprimee"
  /\ q.etape = "fini" => q.reste = {}

IInv ==
  /\ Types
  /\ \A b \in Lots : Partage(lot[b]) /\ Pertes(b)
  /\ \A p \in Rappels : Destinataires(rappel[p])

LEMMA Depart ==
  ASSUME Init
  PROVE  IInv
<1>. USE DEF Init
<1>1. Types
  <2>1. mois \in [Membres -> [Mois -> StatutsMois]]
    BY HypHistoriques
  <2>2. statut \in [Membres -> Statuts] /\ compte \in [Membres -> {"sans", "actif", "desactive"}]
    BY DEF Statuts
  <2>3. LotRepos \in EtatsLot /\ RappelRepos \in EtatsRappel
    BY HypLimites DEF LotRepos, RappelRepos, EtatsLot, EtatsRappel
  <2>. QED  BY <2>1, <2>2, <2>3 DEF Types
<1>2. ASSUME NEW b \in Lots PROVE Partage(lot[b]) /\ Pertes(b)
  <2>1. Partage(lot[b])
    BY DEF LotRepos, Partage
  <2>2. LotRepos.pannes \cap LotRepos.faits = {} /\ LotRepos.perdus = {}
    BY DEF LotRepos
  <2>3. Cardinality({}) = 0
    BY FS_EmptySet
  <2>4. lot[b] = LotRepos /\ ~LotRepos.morte /\ LotRepos.pannes = {} /\ LotRepos.erreurs = {}
    BY DEF LotRepos
  <2>5. Cardinality(lot[b].perdus) = 0 /\ Cardinality(lot[b].pannes \cap lot[b].faits) = 0
    BY <2>2, <2>3, <2>4
  <2>. QED  BY <2>1, <2>2, <2>4, <2>5 DEF Pertes
<1>3. ASSUME NEW p \in Rappels PROVE Destinataires(rappel[p])
  BY DEF RappelRepos, Destinataires
<1>. QED  BY <1>1, <1>2, <1>3 DEF IInv

\* A step that leaves batches and reminders alone and brings no deleted member back.
LEMMA SansLot ==
  ASSUME IInv, Types', UNCHANGED <<lot, rappel>>,
         \A m \in Membres : statut[m] = "supprimee" => statut'[m] = "supprimee"
  PROVE  IInv'
<1>1. ASSUME NEW p \in Rappels PROVE Destinataires(rappel[p])'
  <2>1. Destinataires(rappel[p]) /\ rappel[p].dus \subseteq Membres
    BY DEF IInv, Types, EtatsRappel
  <2>. QED  BY <2>1 DEF Destinataires
<1>2. \A b \in Lots : Pertes(b)'
  BY DEF IInv, Pertes
<1>. QED  BY <1>1, <1>2 DEF IInv, Partage

\* A step of batch b, which takes it to state l.
LEMMA PasDeLot ==
  ASSUME IInv, NEW b \in Lots, NEW l \in EtatsLot, lot' = [lot EXCEPT ![b] = l], Partage(l),
         Pertes(b)', UNCHANGED <<mois, rappel>>, statut' \in [Membres -> Statuts],
         compte' \in [Membres -> {"sans", "actif", "desactive"}],
         \A m \in Membres : statut[m] = "supprimee" => statut'[m] = "supprimee"
  PROVE  IInv'
<1>1. Types'
  BY DEF IInv, Types
<1>2. ASSUME NEW p \in Rappels PROVE Destinataires(rappel[p])'
  <2>1. Destinataires(rappel[p]) /\ rappel[p].dus \subseteq Membres
    BY DEF IInv, Types, EtatsRappel
  <2>. QED  BY <2>1 DEF Destinataires
<1>3. ASSUME NEW c \in Lots PROVE Partage(lot'[c]) /\ Pertes(c)'
  <2>1. lot'[c] = IF c = b THEN l ELSE lot[c]
    BY DEF IInv, Types
  <2>2. c # b => Pertes(c)'
    BY <2>1 DEF IInv, Pertes
  <2>. QED  BY <2>1, <2>2 DEF IInv
<1>. QED  BY <1>1, <1>2, <1>3 DEF IInv, Partage

\* A step of reminder p, which takes it to state q.
LEMMA PasDeRappel ==
  ASSUME IInv, NEW p \in Rappels, NEW q \in EtatsRappel, rappel' = [rappel EXCEPT ![p] = q],
         Destinataires(q), UNCHANGED <<mois, statut, compte, lot>>
  PROVE  IInv'
<1>1. Types'
  BY DEF IInv, Types
<1>2. ASSUME NEW o \in Rappels PROVE Destinataires(rappel[o])'
  <2>1. rappel'[o] = IF o = p THEN q ELSE rappel[o]
    BY DEF IInv, Types
  <2>2. Destinataires(rappel[o])
    BY DEF IInv
  <2>. QED  BY <2>1, <2>2 DEF Destinataires
<1>3. \A b \in Lots : Pertes(b)'
  BY DEF IInv, Pertes
<1>. QED  BY <1>1, <1>2, <1>3 DEF IInv, Partage

\* The losses of a batch whose failures did not change.
LEMMA MemesPertes ==
  ASSUME IInv, NEW b \in Lots, NEW l, lot' = [lot EXCEPT ![b] = l], l.etape # "repos",
         l.etape = "lire" => lot[b].etape = "repos", l.etape = "erreur" => lot[b].etape = "lire",
         l.perdus = lot[b].perdus, l.pannes = lot[b].pannes, l.faits = lot[b].faits,
         l.morte = lot[b].morte, l.erreurs = lot[b].erreurs
  PROVE  Pertes(b)'
<1>1. lot'[b] = l /\ Pertes(b)
  BY DEF IInv, Types
<1>. QED  BY <1>1 DEF Pertes

\* The search for the candidates of batch b.
LEMMA PasRecherche ==
  ASSUME IInv, NEW b \in Lots, NEW demandes \in SUBSET Membres, NEW n \in Limites,
         LotLireMois(b, demandes, n)
  PROVE  IInv'
<1>. DEFINE candidats == {m \in lot[b].vus : Candidat(m)}
<1>1. lot[b] \in EtatsLot /\ Partage(lot[b]) /\ lot \in [Lots -> EtatsLot]
  BY DEF IInv, Types
<1>2. candidats \subseteq Membres
  BY <1>1 DEF EtatsLot
<1>3. CASE lot' = [lot EXCEPT ![b].etape = "erreur"]
  <2>. DEFINE l == [lot[b] EXCEPT !.etape = "erreur"]
  <2>1. lot' = [lot EXCEPT ![b] = l] /\ UNCHANGED <<mois, statut, compte, rappel>>
        /\ lot[b].etape = "lire"
    BY <1>1, <1>3 DEF LotLireMois
  <2>2. l \in EtatsLot /\ Partage(l)
    BY <1>1 DEF EtatsLot, Partage
  <2>3. Pertes(b)'
    <3>1. /\ l.etape = "erreur" /\ l.perdus = lot[b].perdus /\ l.pannes = lot[b].pannes
          /\ l.faits = lot[b].faits /\ l.morte = lot[b].morte /\ l.erreurs = lot[b].erreurs
      BY <1>1 DEF EtatsLot
    <3>. HIDE DEF l
    <3>. QED  BY <2>1, <3>1, MemesPertes
  <2>. QED  BY <2>1, <2>2, <2>3, PasDeLot DEF IInv, Types
<1>4. ASSUME NEW C \in Extraits(candidats, n), NEW cibles \in SUBSET Membres,
             lot' = [lot EXCEPT ![b].etape = "appliquer", ![b].vus = {}, ![b].comptes = {},
                                ![b].limite = n, ![b].candidats = C,
                                ![b].cibles = cibles, ![b].reste = cibles]
      PROVE  IInv'
  <2>. DEFINE l == [lot[b] EXCEPT !.etape = "appliquer", !.vus = {}, !.comptes = {},
                                  !.limite = n, !.candidats = C, !.cibles = cibles, !.reste = cibles]
  <2>0. C \subseteq Membres
    BY <1>2 DEF Extraits
  <2>1. lot[b].etape = "lire" /\ UNCHANGED <<mois, statut, compte, rappel>>
    BY DEF LotLireMois
  <2>. HIDE DEF candidats
  <2>2. lot' = [lot EXCEPT ![b] = l]
    BY <1>1, <1>4 DEF EtatsLot
  <2>3. l \in EtatsLot /\ Partage(l)
    BY <1>1, <2>0, <2>1 DEF EtatsLot, Partage
  <2>4. Pertes(b)'
    <3>1. /\ l.etape = "appliquer" /\ l.perdus = lot[b].perdus /\ l.pannes = lot[b].pannes
          /\ l.faits = lot[b].faits /\ l.morte = lot[b].morte /\ l.erreurs = lot[b].erreurs
      BY <1>1 DEF EtatsLot
    <3>. HIDE DEF l
    <3>. QED  BY <2>2, <3>1, MemesPertes
  <2>. QED  BY <2>1, <2>2, <2>3, <2>4, PasDeLot DEF IInv, Types
<1>5. lot' = [lot EXCEPT ![b].etape = "erreur"] \/
      \E C \in Extraits(candidats, n) :
        lot' = [lot EXCEPT ![b].etape = "appliquer", ![b].vus = {}, ![b].comptes = {},
                           ![b].limite = n, ![b].candidats = C,
                           ![b].cibles = IF demandes = {} THEN C ELSE demandes,
                           ![b].reste = IF demandes = {} THEN C ELSE demandes]
  BY DEF LotLireMois
<1>6. ASSUME NEW C \in Extraits(candidats, n)
      PROVE  (IF demandes = {} THEN C ELSE demandes) \in SUBSET Membres
  BY <1>2 DEF Extraits
<1>. HIDE DEF candidats
<1>. QED  BY <1>3, <1>4, <1>5, <1>6

\* A step of a batch.
LEMMA PasAvancerLot ==
  ASSUME IInv, NEW b \in Lots, AvancerLot(b)
  PROVE  IInv'
<1>1. lot[b] \in EtatsLot /\ Partage(lot[b]) /\ lot \in [Lots -> EtatsLot]
  BY DEF IInv, Types
<1>2. CASE LotLister(b)
  <2>. DEFINE vus == {m \in Membres : statut[m] = "validee"}
              avec == {m \in vus : compte[m] # "sans"}
              l == [lot[b] EXCEPT !.etape = "lire", !.vus = vus, !.comptes = avec]
  <2>1. lot' = [lot EXCEPT ![b] = l]
    BY <1>1, <1>2 DEF LotLister, EtatsLot
  <2>2. l \in EtatsLot /\ Partage(l)
    BY <1>1, <1>2 DEF EtatsLot, Partage, LotLister
  <2>3. Pertes(b)'
    <3>1. /\ l.etape = "lire" /\ l.perdus = lot[b].perdus /\ l.pannes = lot[b].pannes
          /\ l.faits = lot[b].faits /\ l.morte = lot[b].morte /\ l.erreurs = lot[b].erreurs
          /\ lot[b].etape = "repos"
      BY <1>1, <1>2 DEF EtatsLot, LotLister
    <3>. HIDE DEF l
    <3>. QED  BY <2>1, <3>1, MemesPertes
  <2>. QED  BY <1>2, <2>1, <2>2, <2>3, PasDeLot DEF IInv, Types, LotLister
<1>3. ASSUME NEW m \in Membres, NEW panne \in BOOLEAN, Radier(b, m, panne) PROVE IInv'
  <2>. DEFINE compteRendu == ~panne \/ b \in Jobs
              l == [lot[b] EXCEPT !.reste = @ \ {m}, !.morte = panne,
                      !.pannes  = IF panne THEN @ \cup {m} ELSE @,
                      !.faits   = IF compteRendu THEN @ \cup {m} ELSE @,
                      !.erreurs = IF compteRendu THEN @ ELSE @ \cup {m}]
  <2>1. lot' = [lot EXCEPT ![b] = l]
    BY <1>1, <1>3, Zenon DEF Radier
  <2>2. l \in EtatsLot /\ Partage(l)
    BY <1>1, <1>3 DEF EtatsLot, Partage, Radier
  <2>3. statut[m] # "supprimee"
    BY <1>3 DEF Radier, Refuse
  <2>4. statut' \in [Membres -> Statuts] /\ compte' \in [Membres -> {"sans", "actif", "desactive"}]
    BY <1>3 DEF IInv, Types, Radier, Statuts
  <2>5. /\ l.etape = "appliquer" /\ l.morte = panne /\ l.perdus = lot[b].perdus
        /\ l.pannes = (IF panne THEN lot[b].pannes \cup {m} ELSE lot[b].pannes)
        /\ l.faits = (IF compteRendu THEN lot[b].faits \cup {m} ELSE lot[b].faits)
        /\ lot[b].erreurs \subseteq l.erreurs
        /\ ~lot[b].morte /\ m \in lot[b].reste
    BY <1>1, <1>3 DEF EtatsLot, Radier
  <2>6. lot'[b] = l
    BY <1>1, <2>1
  <2>. HIDE DEF l
  <2>7. Pertes(b)'
    <3>. DEFINE T == lot[b].pannes \cap lot[b].faits
                U == l.pannes \cap l.faits
    <3>1. Pertes(b) /\ IsFiniteSet(T) /\ IsFiniteSet(lot[b].perdus) /\ m \notin lot[b].faits
      BY <1>1, <2>5, HypMembres, FS_Subset DEF IInv, EtatsLot, Partage
    <3>2. Cardinality(T) \in Nat /\ Cardinality(lot[b].perdus) \in Nat
      BY <3>1, FS_CardinalityType
    <3>3. ASSUME b \in Jobs, panne PROVE Cardinality(U) = Cardinality(T) + 1
      <4>1. U = T \cup {m}
        BY <2>5, <3>1, <3>3
      <4>2. m \notin T
        BY <3>1
      <4>. HIDE DEF T, U
      <4>. QED  BY <3>1, <4>1, <4>2, FS_AddElement
    <3>5. ASSUME b \in Jobs, ~panne PROVE Cardinality(T) <= Cardinality(U)
      <4>1. T \subseteq U /\ IsFiniteSet(U)
        BY <1>1, <2>5, <3>5, HypMembres, FS_Subset DEF EtatsLot
      <4>. HIDE DEF T, U
      <4>. QED  BY <4>1, FS_Subset
    <3>6. Cardinality(U) \in Nat
      <4>1. IsFiniteSet(U)
        BY <1>1, <2>2, HypMembres, FS_Subset DEF EtatsLot
      <4>. HIDE DEF U
      <4>. QED  BY <4>1, FS_CardinalityType
    <3>. HIDE DEF T, U
    <3>7. b \in Jobs => Cardinality(lot[b].perdus) <= Cardinality(T)
      <4>1. b \in Jobs => Cardinality(lot[b].perdus) + 0 <= Cardinality(T)
        BY <2>5, <3>1 DEF Pertes, T
      <4>. QED  BY <3>2, <4>1
    <3>8. b \in Jobs => Cardinality(l.perdus) + (IF l.morte THEN 1 ELSE 0) <= Cardinality(U)
      <4>1. CASE panne
        BY <2>5, <3>2, <3>3, <3>6, <3>7, <4>1
      <4>2. CASE ~panne
        BY <2>5, <3>2, <3>5, <3>6, <3>7, <4>2
      <4>. QED  BY <4>1, <4>2
    <3>9. l.perdus \subseteq l.erreurs
      BY <2>5, <3>1 DEF Pertes
    <3>. QED  BY <2>5, <2>6, <3>8, <3>9 DEF Pertes, U
  <2>. QED  BY <1>3, <2>1, <2>2, <2>3, <2>4, <2>7, PasDeLot DEF IInv, Types, Radier
<1>4. ASSUME NEW m \in Membres, NEW cause \in {"refus", "sql", "session"}, EchecRadier(b, m, cause)
      PROVE  IInv'
  <2>. DEFINE l == [lot[b] EXCEPT !.reste = @ \ {m}, !.erreurs = @ \cup {m},
                      !.pannes = IF cause = "sql" THEN @ \cup {m} ELSE @,
                      !.perdus = IF cause = "session" THEN @ \cup {m} ELSE @,
                      !.morte  = b \notin Jobs /\ cause # "refus"]
  <2>1. lot' = [lot EXCEPT ![b] = l]
    BY <1>1, <1>4, Zenon DEF EchecRadier, Suite, SessionMorte
  <2>2. l \in EtatsLot /\ Partage(l)
    BY <1>1, <1>4 DEF EtatsLot, Partage, EchecRadier
  <2>5. /\ l.etape = "appliquer" /\ l.morte = (b \notin Jobs /\ cause # "refus")
        /\ l.pannes = (IF cause = "sql" THEN lot[b].pannes \cup {m} ELSE lot[b].pannes)
        /\ l.perdus = (IF cause = "session" THEN lot[b].perdus \cup {m} ELSE lot[b].perdus)
        /\ l.faits = lot[b].faits /\ l.erreurs = lot[b].erreurs \cup {m}
        /\ m \in lot[b].reste /\ (lot[b].morte <=> cause = "session")
    BY <1>1, <1>4 DEF EtatsLot, EchecRadier
  <2>6. lot'[b] = l
    BY <1>1, <2>1
  <2>. HIDE DEF l
  <2>7. Pertes(b)'
    <3>. DEFINE T == lot[b].pannes \cap lot[b].faits
                U == l.pannes \cap l.faits
    <3>1. Pertes(b) /\ IsFiniteSet(T) /\ IsFiniteSet(lot[b].perdus)
          /\ m \notin lot[b].faits /\ m \notin lot[b].erreurs
      BY <1>1, <2>5, HypMembres, FS_Subset DEF IInv, EtatsLot, Partage
    <3>2. Cardinality(T) \in Nat /\ Cardinality(lot[b].perdus) \in Nat
      BY <3>1, FS_CardinalityType
    <3>3. U = T
      BY <2>5, <3>1
    <3>4. ASSUME cause = "session" PROVE Cardinality(l.perdus) = Cardinality(lot[b].perdus) + 1
      <4>1. l.perdus = lot[b].perdus \cup {m} /\ m \notin lot[b].perdus
        BY <2>5, <3>1, <3>4 DEF Pertes
      <4>. QED  BY <3>1, <4>1, FS_AddElement
    <3>. HIDE DEF T, U
    <3>5. b \in Jobs => Cardinality(lot[b].perdus) + (IF lot[b].morte THEN 1 ELSE 0) <= Cardinality(T)
      BY <3>1 DEF Pertes, T
    <3>6. b \in Jobs => Cardinality(l.perdus) + (IF l.morte THEN 1 ELSE 0) <= Cardinality(U)
      <4>1. CASE cause = "session"
        <5>1. b \in Jobs => ~l.morte /\ lot[b].morte
          BY <2>5, <4>1
        <5>2. b \in Jobs => Cardinality(lot[b].perdus) + 1 <= Cardinality(T)
          BY <3>5, <5>1
        <5>3. b \in Jobs => (IF l.morte THEN 1 ELSE 0) = 0
          BY <5>1
        <5>. QED  BY <3>2, <3>3, <3>4, <4>1, <5>2, <5>3
      <4>2. CASE cause # "session"
        <5>1. b \in Jobs => ~l.morte /\ ~lot[b].morte /\ l.perdus = lot[b].perdus
          BY <2>5, <4>2
        <5>. QED  BY <3>2, <3>3, <3>5, <5>1
      <4>. QED  BY <4>1, <4>2
    <3>7. l.perdus \subseteq l.erreurs
      BY <2>5, <3>1 DEF Pertes
    <3>. QED  BY <2>5, <2>6, <3>6, <3>7 DEF Pertes, U
  <2>. QED  BY <1>4, <2>1, <2>2, <2>7, PasDeLot DEF IInv, Types, EchecRadier
<1>5. CASE LotFinir(b)
  <2>. DEFINE l == [lot[b] EXCEPT !.etape = "fini"]
  <2>1. lot' = [lot EXCEPT ![b] = l]
    BY <1>1, <1>5 DEF LotFinir
  <2>2. l \in EtatsLot /\ Partage(l)
    BY <1>1, <1>5 DEF EtatsLot, Partage, LotFinir
  <2>3. Pertes(b)'
    <3>1. /\ l.etape = "fini" /\ l.perdus = lot[b].perdus /\ l.pannes = lot[b].pannes
          /\ l.faits = lot[b].faits /\ l.morte = lot[b].morte /\ l.erreurs = lot[b].erreurs
      BY <1>1 DEF EtatsLot
    <3>. HIDE DEF l
    <3>. QED  BY <2>1, <3>1, MemesPertes
  <2>. QED  BY <1>5, <2>1, <2>2, <2>3, PasDeLot DEF IInv, Types, LotFinir
<1>. QED  BY <1>2, <1>3, <1>4, <1>5, PasRecherche DEF AvancerLot

\* A step of a reminder.
LEMMA PasAvancerRappel ==
  ASSUME IInv, NEW p \in Rappels, AvancerRappel(p)
  PROVE  IInv'
<1>1. rappel[p] \in EtatsRappel /\ Destinataires(rappel[p]) /\ rappel \in [Rappels -> EtatsRappel]
  BY DEF IInv, Types
<1>2. CASE RappelLister(p)
  <2>. DEFINE dus == {m \in Membres : mois[m][Present] = "en_attente"}
  <2>1. PICK T \in SUBSET dus :
          rappel' = [rappel EXCEPT ![p].etape = "envoyer", ![p].reste = T, ![p].dus = dus,
                                   ![p].tronque = (T # dus)]
    BY <1>2 DEF RappelLister, Extraits, ImpayesDuMois
  <2>. DEFINE q == [rappel[p] EXCEPT !.etape = "envoyer", !.reste = T, !.dus = dus,
                                     !.tronque = (T # dus)]
  <2>2. rappel' = [rappel EXCEPT ![p] = q]
    BY <1>1, <2>1, Zenon
  <2>3. q \in EtatsRappel /\ Destinataires(q)
    BY <1>1, <1>2 DEF EtatsRappel, Destinataires, RappelLister
  <2>. QED  BY <1>2, <2>2, <2>3, PasDeRappel DEF RappelLister
<1>3. ASSUME NEW m \in Membres, NEW parti \in BOOLEAN, RappelEnvoyer(p, m, parti) PROVE IInv'
  <2>. DEFINE q == [rappel[p] EXCEPT !.reste = @ \ {m},
                      !.ecrits = IF statut[m] # "supprimee" /\ parti THEN @ \cup {m} ELSE @,
                      !.rates  = IF statut[m] # "supprimee" /\ ~parti THEN @ \cup {m} ELSE @]
  <2>1. rappel' = [rappel EXCEPT ![p] = q]
    BY <1>1, <1>3, Zenon DEF RappelEnvoyer
  <2>2. q \in EtatsRappel
    BY <1>1 DEF EtatsRappel
  <2>3. Destinataires(q)
    BY <1>1, <1>3 DEF EtatsRappel, Destinataires, RappelEnvoyer
  <2>. QED  BY <1>3, <2>1, <2>2, <2>3, PasDeRappel DEF RappelEnvoyer
<1>4. CASE RappelFinir(p)
  <2>. DEFINE q == [rappel[p] EXCEPT !.etape = "fini"]
  <2>1. rappel' = [rappel EXCEPT ![p] = q]
    BY <1>1, <1>4 DEF RappelFinir
  <2>2. q \in EtatsRappel /\ Destinataires(q)
    BY <1>1, <1>4 DEF EtatsRappel, Destinataires, RappelFinir
  <2>. QED  BY <1>4, <2>1, <2>2, PasDeRappel DEF RappelFinir
<1>. QED  BY <1>2, <1>3, <1>4 DEF AvancerRappel

\* One step of the system keeps the invariant.
LEMMA Pas ==
  ASSUME IInv, [Next]_vars
  PROVE  IInv'
<1>1. CASE UNCHANGED vars
  BY <1>1, SansLot DEF vars, IInv, Types
<1>2. ASSUME NEW m \in Membres, NEW k \in Mois, Payer(m, k) PROVE IInv'
  <2>1. Types'
    BY <1>2 DEF IInv, Types, Payer, StatutsMois
  <2>. QED  BY <1>2, <2>1, SansLot DEF Payer
<1>3. ASSUME NEW m \in Membres, NEW s \in Statuts, ChangerStatut(m, s) PROVE IInv'
  <2>1. Types'
    BY <1>3 DEF IInv, Types, ChangerStatut
  <2>. QED  BY <1>3, <2>1, SansLot DEF ChangerStatut, IInv, Types
<1>4. ASSUME NEW m \in Membres, OuvrirCompte(m) PROVE IInv'
  <2>1. Types'
    BY <1>4 DEF IInv, Types, OuvrirCompte
  <2>. QED  BY <1>4, <2>1, SansLot DEF OuvrirCompte
<1>. QED  BY <1>1, <1>2, <1>3, <1>4, PasAvancerLot, PasAvancerRappel DEF Next

\* The strengthening holds in every reachable state.
THEOREM Invariant == Spec => []IInv
<1>1. Init => IInv
  BY Depart
<1>2. IInv /\ [Next]_vars => IInv'
  BY Pas
<1>. QED  BY <1>1, <1>2, PTL DEF Spec

\* Types; and a batch deals with each member it was to radiate once, by a
\* radiation or by an error (apply_radiations, POST /radiations/apply-massive).
THEOREM TypeCorrect == Spec => []TypeOK
<1>1. IInv => TypeOK
  <2>. SUFFICES ASSUME IInv PROVE TypeOK
    OBVIOUS
  <2>1. ASSUME NEW b \in Lots
        PROVE  LET l == lot[b] IN
                 l.faits \cap l.erreurs = {} /\ (l.faits \cup l.erreurs) \cap l.reste = {}
    BY DEF IInv, Partage
  <2>. QED  BY <2>1 DEF TypeOK, IInv, Types, EtatsLot, EtatsRappel
<1>. QED  BY <1>1, Invariant, PTL

\* A finished batch radiated or reported everyone it was to radiate, whatever other
\* requests do to its members and whichever of its statements fail; and in the job
\* (apply_radiations) a member loses his turn to another only after a read that
\* failed behind a radiation, one member for each.
THEOREM LotEntierCorrect == Spec => []LotEntier
<1>1. IInv => LotEntier
  <2>. SUFFICES ASSUME IInv, NEW b \in Lots
                PROVE  LET l == lot[b] IN
                         /\ l.etape = "fini" => l.cibles = l.faits \cup l.erreurs
                         /\ b \in Jobs => Cardinality(l.perdus) <= Cardinality(l.pannes \cap l.faits)
    BY DEF LotEntier
  <2>1. lot[b] \in EtatsLot /\ Partage(lot[b]) /\ Pertes(b)
    BY DEF IInv, Types
  <2>2. IsFiniteSet(lot[b].perdus) /\ IsFiniteSet(lot[b].pannes \cap lot[b].faits)
    BY <2>1, HypMembres, FS_Subset DEF EtatsLot
  <2>3. Cardinality(lot[b].perdus) \in Nat /\ Cardinality(lot[b].pannes \cap lot[b].faits) \in Nat
    BY <2>2, FS_CardinalityType
  <2>. QED  BY <2>1, <2>3 DEF Partage, Pertes
<1>. QED  BY <1>1, Invariant, PTL

\* A run of the reminders that ends, its list not cut by LIMIT, has tried to write
\* to every member whose month was pending when it started, save the deleted ones;
\* no run writes to anyone else.
THEOREM RappelCompletCorrect == Spec => []RappelComplet
<1>1. IInv => RappelComplet
  BY DEF IInv, Destinataires, RappelComplet
<1>. QED  BY <1>1, Invariant, PTL

-----------------------------------------------------------------------------
(* Who is a candidate: what the count of _serie_impayes is worth             *)

\* The greatest element of a non-empty set of naturals bounded by n.
LEMMA PlusGrand ==
  ASSUME NEW n \in Nat, NEW T \in SUBSET (0..n), T # {}
  PROVE  \E x \in T : \A y \in T : y <= x
<1>. DEFINE R == OpToRel(<, Nat)
            U == {n - x : x \in T}
<1>1. U \subseteq Nat /\ U # {}
  <2>1. \A x \in T : n - x \in Nat
    OBVIOUS
  <2>. QED  BY <2>1
<1>2. IsWellFoundedOn(R, Nat)
  BY NatLessThanWellFounded
<1>. HIDE DEF R, U
<1>3. PICK u \in U : \A v \in U : <<v, u>> \notin R
  BY <1>1, <1>2, WFMin
<1>4. \A v \in U : ~(v < u)
  BY <1>1, <1>3 DEF R, OpToRel
<1>5. PICK x \in T : u = n - x
  BY DEF U
<1>6. ASSUME NEW y \in T PROVE y <= x
  <2>1. n - y \in U
    BY DEF U
  <2>. QED  BY <1>4, <1>5, <2>1
<1>. QED  BY <1>6

\* A set of naturals that holds no least element is empty.
LEMMA PlusPetit ==
  ASSUME NEW U \in SUBSET Nat, U # {}
  PROVE  \E u \in U : \A v \in U : u <= v
<1>. DEFINE R == OpToRel(<, Nat)
<1>1. IsWellFoundedOn(R, Nat)
  BY NatLessThanWellFounded
<1>. HIDE DEF R
<1>2. PICK u \in U : \A v \in U : <<v, u>> \notin R
  BY <1>1, WFMin
<1>3. \A v \in U : ~(v < u)
  BY <1>2 DEF R, OpToRel
<1>. QED  BY <1>2, <1>3

\* g counts, at each month up to the present one, the unpaid months that end there.
Compte(g, m) ==
  g = [k \in 0..Present |-> IF k = 0 THEN 0 ELSE IF Impaye(mois[m][k]) THEN 1 + g[k - 1] ELSE 0]

\* j: the last month, up to k, that does not count as unpaid (0: there is none).
Dernier(m, k, j) ==
  /\ j \in 0..k
  /\ j = 0 \/ ~Impaye(mois[m][j])
  /\ \A i \in (j + 1)..k : Impaye(mois[m][i])

LEMMA DernierExiste ==
  ASSUME NEW m, NEW k \in Nat
  PROVE  \E j : Dernier(m, k, j)
<1>. DEFINE T == {j \in 0..k : j = 0 \/ ~Impaye(mois[m][j])}
<1>1. PICK j \in T : \A i \in T : i <= j
  <2>1. 0 \in T
    OBVIOUS
  <2>. QED  BY <2>1, PlusGrand
<1>2. ASSUME NEW i \in (j + 1)..k PROVE Impaye(mois[m][i])
  <2>1. i \in 0..k /\ ~(i <= j) /\ i # 0
    OBVIOUS
  <2>. QED  BY <1>1, <2>1
<1>. QED  BY <1>1, <1>2 DEF Dernier

LEMMA DernierUnique ==
  ASSUME NEW m, NEW k \in Nat, NEW j, NEW i, Dernier(m, k, j), Dernier(m, k, i)
  PROVE  j = i
<1>1. i \in 0..k /\ j \in 0..k
  BY DEF Dernier
<1>2. ~(i < j)
  BY <1>1 DEF Dernier
<1>3. ~(j < i)
  BY <1>1 DEF Dernier
<1>. QED  BY <1>1, <1>2, <1>3

\* Such a count exists: k less the last month that stops it.
LEMMA CompteExiste ==
  ASSUME NEW m
  PROVE  \E g : Compte(g, m)
<1>. DEFINE d(k) == CHOOSE j : Dernier(m, k, j)
            g == [k \in 0..Present |-> k - d(k)]
<1>1. \A k \in Nat : Dernier(m, k, d(k))
  BY DernierExiste
<1>2. ASSUME NEW k \in 0..Present
      PROVE  g[k] = IF k = 0 THEN 0 ELSE IF Impaye(mois[m][k]) THEN 1 + g[k - 1] ELSE 0
  <2>1. k \in Nat /\ Dernier(m, k, d(k)) /\ g[k] = k - d(k) /\ d(k) \in 0..k
    <3>1. k \in Nat /\ g[k] = k - d(k)
      BY HypMois
    <3>. HIDE DEF d
    <3>2. Dernier(m, k, d(k))
      BY <1>1, <3>1
    <3>. QED  BY <3>1, <3>2 DEF Dernier
  <2>. HIDE DEF d, g
  <2>2. CASE k = 0
    <3>1. d(k) = 0
      BY <2>1, <2>2
    <3>. QED  BY <2>1, <2>2, <3>1
  <2>3. CASE k # 0 /\ ~Impaye(mois[m][k])
    <3>1. Dernier(m, k, k)
      BY <2>1, <2>3 DEF Dernier
    <3>2. d(k) = k
      BY <2>1, <3>1, DernierUnique
    <3>. QED  BY <2>1, <2>3, <3>2
  <2>4. CASE k # 0 /\ Impaye(mois[m][k])
    <3>1. k - 1 \in Nat /\ k - 1 \in 0..Present
      BY <2>1, <2>4, HypMois
    <3>2. Dernier(m, k - 1, d(k - 1)) /\ g[k - 1] = k - 1 - d(k - 1)
      BY <1>1, <3>1 DEF g
    <3>3. d(k - 1) \in 0..(k - 1)
      BY <3>2 DEF Dernier
    <3>4. Dernier(m, k, d(k - 1))
      <4>1. \A i \in (d(k - 1) + 1)..k : i = k \/ i \in (d(k - 1) + 1)..(k - 1)
        BY <3>1, <3>3
      <4>. QED  BY <2>1, <2>4, <3>1, <3>2, <3>3, <4>1 DEF Dernier
    <3>5. d(k) = d(k - 1)
      BY <2>1, <3>4, DernierUnique
    <3>. QED  BY <2>1, <2>4, <3>1, <3>2, <3>3, <3>5
  <2>. QED  BY <2>2, <2>3, <2>4
<1>. HIDE DEF d
<1>3. Compte(g, m)
  <2>1. g = [k \in 0..Present |-> g[k]]
    OBVIOUS
  <2>. HIDE DEF g
  <2>. QED  BY <1>2, <2>1 DEF Compte
<1>. QED  BY <1>3

\* And it is that one: no month is the first where it differs.
LEMMA CompteExact ==
  ASSUME NEW m, NEW g, Compte(g, m), NEW k \in 0..Present, NEW j, Dernier(m, k, j)
  PROVE  g[k] = k - j
<1>. DEFINE U == {i \in 0..Present : \E d : Dernier(m, i, d) /\ g[i] # i - d}
<1>1. \A i \in 0..Present :
        g[i] = IF i = 0 THEN 0 ELSE IF Impaye(mois[m][i]) THEN 1 + g[i - 1] ELSE 0
  BY DEF Compte
<1>2. CASE U # {}
  <2>1. PICK u \in U : \A v \in U : u <= v
    <3>1. U \subseteq Nat
      BY HypMois
    <3>. HIDE DEF U
    <3>. QED  BY <1>2, <3>1, PlusPetit
  <2>2. PICK d : Dernier(m, u, d) /\ g[u] # u - d
    OBVIOUS
  <2>3. u \in Nat /\ d \in 0..u /\ u \in 0..Present
    BY <2>2, HypMois DEF Dernier
  <2>4. CASE u = 0
    BY <1>1, <2>2, <2>3, <2>4
  <2>5. CASE u # 0 /\ ~Impaye(mois[m][u])
    <3>1. d = u
      BY <2>2, <2>3, <2>5 DEF Dernier
    <3>. QED  BY <1>1, <2>2, <2>3, <2>5, <3>1
  <2>6. CASE u # 0 /\ Impaye(mois[m][u])
    <3>1. u - 1 \in Nat /\ u - 1 \in 0..Present /\ u - 1 \notin U
      BY <2>1, <2>3, <2>6, HypMois
    <3>2. d \in 0..(u - 1)
      BY <2>2, <2>3, <2>6 DEF Dernier
    <3>3. Dernier(m, u - 1, d)
      <4>1. \A i \in (d + 1)..(u - 1) : i \in (d + 1)..u
        BY <2>3, <3>2
      <4>. QED  BY <2>2, <3>2, <4>1 DEF Dernier
    <3>4. g[u - 1] = u - 1 - d
      BY <3>1, <3>3
    <3>5. g[u] = 1 + g[u - 1]
      BY <1>1, <2>3, <2>6
    <3>. QED  BY <2>2, <2>3, <3>2, <3>4, <3>5
  <2>. QED  BY <2>4, <2>5, <2>6
<1>3. CASE U = {}
  BY <1>3
<1>. QED  BY <1>2, <1>3

\* _serie_impayes reaches Delai when the Delai months up to the present one are
\* generated and unpaid.
LEMMA SerieExacte ==
  ASSUME NEW m
  PROVE  Serie(m) >= Delai <=>
         \A k \in (Present - Delai + 1)..Present : k \in Mois /\ Impaye(mois[m][k])
<1>. DEFINE g == CHOOSE h : Compte(h, m)
<1>1. Compte(g, m)
  BY CompteExiste
<1>2. Serie(m) = g[Present]
  BY DEF Serie, Compte
<1>. HIDE DEF g
<1>3. Present \in Nat /\ Delai \in Nat \ {0} /\ Horizon \in Nat /\ Present < Horizon
  BY HypMois
<1>4. PICK j : Dernier(m, Present, j)
  BY <1>3, DernierExiste
<1>5. Serie(m) = Present - j
  BY <1>1, <1>2, <1>3, <1>4, CompteExact
<1>6. j \in 0..Present
  BY <1>4 DEF Dernier
<1>7. ASSUME Serie(m) >= Delai, NEW k \in (Present - Delai + 1)..Present
      PROVE  k \in Mois /\ Impaye(mois[m][k])
  <2>1. k \in (j + 1)..Present
    BY <1>3, <1>5, <1>6, <1>7
  <2>. QED  BY <1>3, <1>4, <1>6, <2>1 DEF Dernier, Mois
<1>8. ASSUME Serie(m) < Delai
      PROVE  ~\A k \in (Present - Delai + 1)..Present : k \in Mois /\ Impaye(mois[m][k])
  <2>1. j \in (Present - Delai + 1)..Present
    BY <1>3, <1>5, <1>6, <1>8
  <2>. QED  BY <1>4, <2>1 DEF Dernier, Mois
<1>. QED  BY <1>3, <1>5, <1>6, <1>7, <1>8

\* A finite set has subsets of every smaller size.
LEMMA SousEnsemble ==
  ASSUME NEW T, IsFiniteSet(T), NEW n \in Nat, n <= Cardinality(T)
  PROVE  \E S \in SUBSET T : Cardinality(S) = n
<1>. DEFINE U == {c \in Nat : n <= c /\ \E S \in SUBSET T : Cardinality(S) = c}
<1>1. Cardinality(T) \in U
  BY FS_CardinalityType
<1>2. PICK u \in U : \A v \in U : u <= v
  BY <1>1, PlusPetit
<1>3. PICK S \in SUBSET T : Cardinality(S) = u
  OBVIOUS
<1>4. CASE u # n
  <2>1. IsFiniteSet(S) /\ u \in Nat /\ u > n
    BY <1>4, FS_Subset
  <2>2. S # {}
    BY <1>3, <2>1, FS_EmptySet
  <2>3. PICK x \in S : TRUE
    BY <2>2
  <2>4. Cardinality(S \ {x}) = u - 1
    BY <1>3, <2>1, <2>3, FS_RemoveElement
  <2>5. u - 1 \in U
    BY <1>3, <2>1, <2>4
  <2>. QED  BY <1>2, <2>1, <2>5
<1>. QED  BY <1>3, <1>4

\* The test of list_candidates says what the rule says.
LEMMA CandidatRedevable ==
  ASSUME NEW m
  PROVE  Candidat(m) <=> Redevable(m)
<1>. DEFINE T == {k \in Mois : mois[m][k] # "absent"}
<1>1. IsFiniteSet(T) /\ Cardinality(T) \in Nat
  <2>1. IsFiniteSet(Mois)
    BY FS_Interval, HypMois DEF Mois
  <2>2. IsFiniteSet(T)
    BY <2>1, FS_Subset
  <2>. QED  BY <2>2, FS_CardinalityType
<1>2. Delai \in Nat /\ Delai + 1 \in Nat
  BY HypMois
<1>3. ASSUME Cardinality(T) > Delai
      PROVE  \E S \in SUBSET Mois : Cardinality(S) = Delai + 1 /\ \A k \in S : mois[m][k] # "absent"
  <2>1. Delai + 1 <= Cardinality(T)
    BY <1>1, <1>2, <1>3
  <2>2. PICK S \in SUBSET T : Cardinality(S) = Delai + 1
    BY <1>1, <1>2, <2>1, SousEnsemble
  <2>. QED  BY <2>2
<1>4. ASSUME NEW S \in SUBSET Mois, Cardinality(S) = Delai + 1, \A k \in S : mois[m][k] # "absent"
      PROVE  Cardinality(T) > Delai
  <2>1. S \in SUBSET T
    BY <1>4
  <2>2. Cardinality(S) <= Cardinality(T)
    BY <1>1, <2>1, FS_Subset
  <2>. QED  BY <1>1, <1>2, <1>4, <2>2
<1>. QED  BY <1>3, <1>4, SerieExacte DEF Candidat, Redevable

\* What a search that succeeds writes down.
Exacts(b) ==
  LET redevables == {m \in lot[b].vus : Redevable(m)}
      l == lot'[b] IN
  /\ l.candidats \subseteq redevables
  /\ \/ l.candidats = redevables
     \/ l.limite > 0 /\ Cardinality(l.candidats) = l.limite

LEMMA Trouves ==
  ASSUME IInv, NEW b \in Lots, NEW demandes \in SUBSET Membres, NEW n \in Limites,
         LotLireMois(b, demandes, n), lot'[b].etape = "appliquer"
  PROVE  Exacts(b)
<1>. DEFINE candidats == {m \in lot[b].vus : Candidat(m)}
<1>1. lot[b] \in EtatsLot /\ lot \in [Lots -> EtatsLot] /\ n \in Nat
  BY HypLimites DEF IInv, Types
<1>2. PICK C \in Extraits(candidats, n) :
        lot' = [lot EXCEPT ![b].etape = "appliquer", ![b].vus = {}, ![b].comptes = {},
                           ![b].limite = n, ![b].candidats = C,
                           ![b].cibles = IF demandes = {} THEN C ELSE demandes,
                           ![b].reste = IF demandes = {} THEN C ELSE demandes]
  <2>1. lot' # [lot EXCEPT ![b].etape = "erreur"]
    BY <1>1 DEF EtatsLot
  <2>. QED  BY <2>1 DEF LotLireMois
<1>3. candidats = {m \in lot[b].vus : Redevable(m)} /\ candidats \subseteq Membres
  BY <1>1, CandidatRedevable DEF EtatsLot
<1>. HIDE DEF candidats
<1>4. lot'[b].candidats = C /\ lot'[b].limite = n
  BY <1>1, <1>2 DEF EtatsLot
<1>5. C \subseteq candidats /\ (C = candidats \/ (n > 0 /\ Cardinality(C) = n))
  <2>1. IsFiniteSet(candidats)
    BY <1>3, HypMembres, FS_Subset
  <2>2. C \subseteq candidats
        /\ Cardinality(C) = IF n > 0 /\ Cardinality(candidats) > n THEN n ELSE Cardinality(candidats)
    BY DEF Extraits
  <2>3. Cardinality(C) = Cardinality(candidats) => C = candidats
    BY <2>1, <2>2, FS_Subset
  <2>. QED  BY <2>2, <2>3
<1>. QED  BY <1>3, <1>4, <1>5 DEF Exacts

\* A batch that gets past the search holds members who owe, and all of them unless
\* --limit cut the list, whatever the gaps in their months, the months paid in
\* advance or the payments made since the adhesions were read (list_candidates).
THEOREM CandidatsExactsCorrect == Spec => CandidatsExacts
<1>1. ASSUME IInv, [Next]_vars, NEW b \in Lots, lot[b].etape = "lire", lot'[b].etape = "appliquer"
      PROVE  Exacts(b)
  <2>1. lot \in [Lots -> EtatsLot] /\ lot[b] \in EtatsLot
    BY <1>1 DEF IInv, Types
  <2>2. lot' # lot
    BY <1>1
  <2>3. PICK c \in Lots : AvancerLot(c)
    <3>1. \A p \in Rappels : AvancerRappel(p) => lot' = lot
      BY DEF AvancerRappel, RappelLister, RappelEnvoyer, RappelFinir
    <3>. QED  BY <1>1, <2>2, <3>1 DEF Next, vars, Payer, ChangerStatut, OuvrirCompte
  <2>4. /\ ~LotLister(c) /\ ~LotFinir(c)
        /\ \A m \in Membres, panne \in BOOLEAN : ~Radier(c, m, panne)
        /\ \A m \in Membres, cause \in {"refus", "sql", "session"} : ~EchecRadier(c, m, cause)
    <3>1. c = b
      <4>1. ASSUME NEW m \in Membres, NEW panne \in BOOLEAN, Radier(c, m, panne)
            PROVE  \A d \in Lots \ {c} : lot'[d] = lot[d]
        BY <2>1, <4>1 DEF Radier
      <4>2. ASSUME NEW m \in Membres, NEW cause \in {"refus", "sql", "session"},
                   EchecRadier(c, m, cause)
            PROVE  \A d \in Lots \ {c} : lot'[d] = lot[d]
        BY <2>1, <4>2 DEF EchecRadier
      <4>3. ASSUME NEW demandes \in SUBSET Membres, NEW n \in Limites, LotLireMois(c, demandes, n)
            PROVE  \A d \in Lots \ {c} : lot'[d] = lot[d]
        BY <2>1, <4>3 DEF LotLireMois
      <4>4. LotLister(c) \/ LotFinir(c) => \A d \in Lots \ {c} : lot'[d] = lot[d]
        BY <2>1 DEF LotLister, LotFinir
      <4>. QED  BY <1>1, <2>3, <4>1, <4>2, <4>3, <4>4 DEF AvancerLot
    <3>2. ~LotLister(b) /\ ~LotFinir(b)
      BY <1>1 DEF LotLister, LotFinir
    <3>3. \A m \in Membres, panne \in BOOLEAN : ~Radier(b, m, panne)
      BY <1>1 DEF Radier
    <3>4. \A m \in Membres, cause \in {"refus", "sql", "session"} : ~EchecRadier(b, m, cause)
      BY <1>1 DEF EchecRadier
    <3>. QED  BY <3>1, <3>2, <3>3, <3>4
  <2>5. PICK demandes \in SUBSET Membres, n \in Limites : LotLireMois(c, demandes, n)
    BY <2>3, <2>4 DEF AvancerLot
  <2>6. c = b
    <3>1. \A d \in Lots \ {c} : lot'[d] = lot[d]
      BY <2>1, <2>5 DEF LotLireMois
    <3>. QED  BY <1>1, <3>1
  <2>. QED  BY <1>1, <2>5, <2>6, Trouves
<1>2. IInv /\ [Next]_vars =>
        [\A b \in Lots : lot[b].etape = "lire" /\ lot'[b].etape = "appliquer" => Exacts(b)]_vars
  BY <1>1
<1>3. IInv /\ [Next]_vars =>
        [\A b \in Lots : lot[b].etape = "lire" /\ lot'[b].etape = "appliquer" =>
           LET redevables == {m \in lot[b].vus : Redevable(m)}
               l == lot'[b] IN
           /\ l.candidats \subseteq redevables
           /\ \/ l.candidats = redevables
              \/ l.limite > 0 /\ Cardinality(l.candidats) = l.limite]_vars
  BY <1>2 DEF Exacts
<1>. QED  BY <1>3, Invariant, PTL DEF Spec, CandidatsExacts
=============================================================================
