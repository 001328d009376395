------------------------ MODULE PaiementKopar_proofs ------------------------
(***************************************************************************)
(* Theorems about PaiementKopar, for any number of orders, references,     *)
(* rows and sessions.                                                      *)
(***************************************************************************)
EXTENDS PaiementKopar, FiniteSetTheorems, WellFoundedInduction, TLAPS

\* Splitting a queue of rows to visit.
LEMMA TeteEtReste ==
  ASSUME NEW S, NEW q \in Seq(S), q # << >>
  PROVE  /\ Head(q) \in S
         /\ Tail(q) \in Seq(S)
         /\ Elements(q) = {Head(q)} \cup Elements(Tail(q))
<1>1. Head(q) \in S /\ Tail(q) \in Seq(S)
  OBVIOUS
<1>2. Elements(q) \subseteq {Head(q)} \cup Elements(Tail(q))
  <2>. SUFFICES ASSUME NEW i \in 1..Len(q), i # 1
                PROVE  q[i] \in Elements(Tail(q))
    BY DEF Elements
  <2>1. i - 1 \in 1..Len(Tail(q)) /\ Tail(q)[i - 1] = q[i]
    OBVIOUS
  <2>2. DOMAIN Tail(q) = 1..Len(Tail(q))
    OBVIOUS
  <2>. QED  BY <2>1, <2>2 DEF Elements
<1>3. {Head(q)} \cup Elements(Tail(q)) \subseteq Elements(q)
  <2>1. Head(q) \in Elements(q)
    BY DEF Elements
  <2>2. ASSUME NEW i \in 1..Len(Tail(q))
        PROVE  Tail(q)[i] \in Elements(q)
    <3>1. i + 1 \in 1..Len(q) /\ Tail(q)[i] = q[i + 1]
      OBVIOUS
    <3>. QED  BY <3>1 DEF Elements
  <2>. QED  BY <2>1, <2>2 DEF Elements
<1>. QED  BY <1>1, <1>2, <1>3

(***************************************************************************)
(* Type correctness.  TypeOK is not inductive alone: the rows a session    *)
(* still has to visit come from Couvre[refDe[o]], which is defined because *)
(* a transaction row only exists for an order that was created.            *)
(***************************************************************************)
Creee(o) ==
  /\ tx[o] # Aucun    => refDe[o] # Aucun
  /\ refDe[o] # Aucun => kopar[o] # Aucun

Controle(s) ==
  /\ etape[s] = "libre" => cible[s] = Aucun
  /\ etape[s] \in {"lire", "ecrire"} => reste[s] # << >>
  /\ etape[s] \in {"interroger", "verrou"} => role[s] = "appliquer"
  /\ etape[s] \in {"consulter", "creer"} => role[s] = "initier"
  /\ role[s] = "appliquer" /\ etape[s] # "libre" =>
       cible[s] \in Ordres /\ tx[cible[s]] # Aucun
  /\ role[s] = "initier" /\ etape[s] \in {"lire", "ecrire", "consulter", "creer"} =>
       cible[s] = Aucun
  /\ role[s] = "initier" /\ cible[s] # Aucun => refDe[cible[s]] # Aucun

Types ==
  /\ TypeOK
  /\ \A o \in Ordres : Creee(o)
  /\ \A s \in Sessions : Controle(s)

\* What a step of one session leaves alone, and what never goes back.
AutresInchangees(s) ==
  \A t \in Sessions \ {s} :
    /\ etape'[t] = etape[t] /\ role'[t] = role[t] /\ cible'[t] = cible[t]
    /\ nouveau'[t] = nouveau[t] /\ reste'[t] = reste[t] /\ ecrites'[t] = ecrites[t]
    /\ lu'[t] = lu[t] /\ vues'[t] = vues[t]
Croissance ==
  \A o \in Ordres :
    /\ kopar[o] # Aucun => kopar'[o] # Aucun
    /\ refDe[o] # Aucun => refDe'[o] = refDe[o]
    /\ tx[o] # Aucun    => tx'[o] # Aucun

\* A command_ref always covers at least one row.
LEMMA ReferencesCouvertes ==
  ASSUME NEW r \in Refs
  PROVE  Couvre[r] \in Seq(Lignes) /\ Couvre[r] # << >>
BY HypCouvre, HypNonVide

\* Whatever the provider says becomes a value of the database enum.
LEMMA EnStatutType == \A x : EnStatut(x) \in Statuts
BY DEF EnStatut, Statuts

\* The order of created_at keeps its type.
LEMMA AvantType ==
  ASSUME TypeOK, NEW s \in Sessions
  PROVE  /\ SansSession(s) \in [Ordres \cup Sessions -> SUBSET (Ordres \cup Sessions)]
         /\ \A o \in Ordres :
              Heriter(s, o) \in [Ordres \cup Sessions -> SUBSET (Ordres \cup Sessions)]
         /\ EnOrdre \subseteq Ordres \cup Sessions
BY DEF TypeOK, SansSession, Heriter, EnOrdre

\* A session that ends leaves well-typed variables and nothing to check.
LEMMA LibererType ==
  ASSUME TypeOK, NEW s \in Sessions, Liberer(s)
  PROVE  /\ etape'   \in [Sessions -> Etapes]
         /\ role'    \in [Sessions -> Roles]
         /\ cible'   \in [Sessions -> Ordres \cup {Aucun}]
         /\ nouveau' \in [Sessions -> Statuts]
         /\ demande' \in [Sessions -> Refs]
         /\ reste'   \in [Sessions -> Seq(Lignes)]
         /\ lu'      \in [Sessions -> EtatsLigne]
         /\ vues'    \in [Sessions -> SUBSET Lignes]
         /\ ecrites' \in [Sessions -> SUBSET Lignes]
BY HypRefs DEF TypeOK, Liberer, Etapes, Roles, Statuts, EtatsLigne

\* Ending a session touches that session only.
LEMMA LibererAutres ==
  ASSUME TypeOK, NEW s \in Sessions, Liberer(s)
  PROVE  /\ AutresInchangees(s)
         /\ etape'[s] = "libre" /\ role'[s] = "appliquer" /\ cible'[s] = Aucun
         /\ ecrites'[s] = {} /\ vues'[s] = {} /\ reste'[s] = << >>
BY DEF TypeOK, Liberer, AutresInchangees

\* A session that ended has nothing left to check.
LEMMA LibererControle ==
  ASSUME TypeOK, NEW s \in Sessions, Liberer(s)
  PROVE  Controle(s)'
BY LibererAutres DEF Controle

\* Ending a session without touching the database keeps the types.
LEMMA TerminerType ==
  ASSUME TypeOK, NEW s \in Sessions, Terminer(s), UNCHANGED base,
         pannes' \in 0..MaxPannes
  PROVE  TypeOK'
<1>1. Liberer(s) /\ avant' = SansSession(s)
  BY DEF Terminer
<1>. QED  BY <1>1, LibererType, AvantType DEF TypeOK, base

\* The steps that belong to a session.
DeSession(s) == Commencer(s) \/ Avancer(s) \/ Abandonner(s) \/ Victime(s)

\* A step of one session leaves the variables of the others alone.
LEMMA SessionAutres ==
  ASSUME TypeOK, NEW s \in Sessions, DeSession(s)
  PROVE  AutresInchangees(s)
<1>1. CASE Liberer(s)
  BY <1>1, LibererAutres
<1>2. CASE ~Liberer(s) /\ Commencer(s)
  BY <1>2 DEF TypeOK, AutresInchangees, Commencer, RecevoirWebhook, RattrapageLister,
     ManuelDebut, InitierDebut, GenererDebut, LotDebut
<1>3. CASE ~Liberer(s) /\ Appliquer(s)
  BY <1>3 DEF TypeOK, AutresInchangees, Appliquer, RattrapageInterroger, Verrouiller,
     ValiderStatut, Terminer, local
<1>4. CASE ~Liberer(s) /\ (LireLigne(s) \/ EcrireLigne(s))
  BY <1>4 DEF TypeOK, AutresInchangees, LireLigne, EcrireLigne, Terminer
<1>5. CASE ~Liberer(s) /\ Initier(s)
  BY <1>5 DEF TypeOK, AutresInchangees, Initier, Consulter, CreerOrdre, RefusKopar,
     ValiderInitiation, Terminer, local
<1>6. CASE ~Liberer(s) /\ (ValiderManuel(s) \/ ValiderMois(s) \/ Abandonner(s) \/ Victime(s))
  BY <1>6 DEF ValiderManuel, ValiderMois, Abandonner, Victime, Terminer
<1>. QED
  BY <1>1, <1>2, <1>3, <1>4, <1>5, <1>6 DEF DeSession, Avancer

\* Orders, their references and transaction rows are never forgotten.
LEMMA CroissanceSuivante ==
  ASSUME Types, Next
  PROVE  Croissance
<1>. USE HypAucun, HypOrdres DEF Croissance
<1>1. ASSUME NEW o \in Ordres, NEW st \in StatutsKopar, KoparEvolue(o, st)
      PROVE  Croissance
  BY <1>1 DEF Types, TypeOK, KoparEvolue
<1>2. ASSUME NEW s \in Sessions, CreerOrdre(s) PROVE Croissance
  BY <1>2 DEF Types, TypeOK, Creee, CreerOrdre, StatutsKopar, Statuts
<1>3. ASSUME NEW s \in Sessions, ValiderStatut(s) PROVE Croissance
  BY <1>3 DEF Types, TypeOK, ValiderStatut, StatutsKopar
<1>4. ASSUME NEW s \in Sessions, ValiderInitiation(s) PROVE Croissance
  BY <1>4 DEF Types, TypeOK, ValiderInitiation, StatutsKopar, Statuts
<1>5. CASE UNCHANGED <<kopar, refDe, tx>>
  BY <1>5
<1>6. ASSUME NEW l \in Lignes, ConfirmerPaiement(l) PROVE UNCHANGED <<kopar, refDe, tx>>
  BY <1>6 DEF ConfirmerPaiement
<1>7. ASSUME NEW s \in Sessions, Commencer(s) PROVE UNCHANGED <<kopar, refDe, tx>>
  BY <1>7 DEF Commencer, RecevoirWebhook, RattrapageLister, ManuelDebut, InitierDebut, GenererDebut, LotDebut, base
<1>8. ASSUME NEW s \in Sessions, Avancer(s), ~CreerOrdre(s), ~ValiderStatut(s),
             ~ValiderInitiation(s)
      PROVE  UNCHANGED <<kopar, refDe, tx>>
  BY <1>8 DEF Avancer, Appliquer, Initier, RattrapageInterroger, Verrouiller,
     ValiderMois, LireLigne, EcrireLigne, Consulter, RefusKopar, ValiderManuel, base
<1>9. ASSUME NEW s \in Sessions, Abandonner(s) \/ Victime(s) PROVE UNCHANGED <<kopar, refDe, tx>>
  BY <1>9 DEF Abandonner, Victime, base
<1>. QED
  BY <1>1, <1>2, <1>3, <1>4, <1>5, <1>6, <1>7, <1>8, <1>9 DEF Next

\* Every action keeps the types.
LEMMA TypeOKSuivant ==
  ASSUME Types, Next
  PROVE  TypeOK'
<1>. USE HypRefs, HypAucun, HypOrdres, HypBornes DEF Types
<1>a. ASSUME NEW D \in SUBSET Lignes, Defaire(D)
      PROVE  annulees' \subseteq Lignes /\ courriels' \in [Ordres -> Nat]
  BY <1>a DEF Defaire, TypeOK
<1>b. \A s \in Sessions : LignesValidees(s) \in [Lignes -> EtatsLigne]
  BY DEF LignesValidees, Pose, TypeOK, EtatsLigne
<1>c. \A s \in Sessions, l \in Lignes : Vu(s, l) \in EtatsLigne
  BY DEF Vu, TypeOK, EtatsLigne
<1>1. ASSUME NEW o \in Ordres, NEW st \in StatutsKopar, KoparEvolue(o, st)
      PROVE  TypeOK'
  BY <1>1 DEF TypeOK, KoparEvolue, local
<1>2. ASSUME NEW l \in Lignes, ConfirmerPaiement(l) PROVE TypeOK'
  <2>1. /\ annulees' \subseteq Lignes /\ courriels' \in [Ordres -> Nat]
    <3>1. {l} \cap {m \in Lignes : ligne[m] = "payee"} \in SUBSET Lignes
      OBVIOUS
    <3>. QED  BY <1>2, <1>a, <3>1 DEF ConfirmerPaiement, TypeOK
  <2>2. ligne' \in [Lignes -> EtatsLigne] /\ reference' \in [Lignes -> Ordres \cup {Aucun, Manuel}]
    BY <1>2 DEF ConfirmerPaiement, TypeOK, EtatsLigne
  <2>3. UNCHANGED <<kopar, refDe, avis, tx, etape, local, pannes>>
    BY <1>2 DEF ConfirmerPaiement
  <2>. QED  BY <2>1, <2>2, <2>3 DEF TypeOK, local
<1>3. ASSUME NEW s \in Sessions, RecevoirWebhook(s) PROVE TypeOK'
  BY <1>3, EnStatutType DEF TypeOK, RecevoirWebhook, base, Etapes, Roles
<1>4. ASSUME NEW s \in Sessions, RattrapageLister(s) PROVE TypeOK'
  BY <1>4 DEF TypeOK, RattrapageLister, base, Etapes, Roles
<1>5. ASSUME NEW s \in Sessions, RattrapageInterroger(s) PROVE TypeOK'
  <2>1. CASE Terminer(s)
    BY <1>5, <2>1, TerminerType DEF RattrapageInterroger, TypeOK
  <2>2. CASE ~Terminer(s)
    <3>1. nouveau' \in [Sessions -> Statuts] /\ etape' \in [Sessions -> Etapes]
      <4>1. /\ nouveau' = [nouveau EXCEPT ![s] = EnStatut(kopar[cible[s]])]
            /\ etape' = [etape EXCEPT ![s] = "verrou"]
        BY <1>5, <2>2 DEF RattrapageInterroger
      <4>2. nouveau \in [Sessions -> Statuts] /\ etape \in [Sessions -> Etapes]
        BY DEF TypeOK
      <4>. QED  BY <4>1, <4>2, EnStatutType DEF Etapes
    <3>2. UNCHANGED <<base, pannes, role, cible, demande, avant, reste, lu, vues, ecrites>>
      BY <1>5, <2>2 DEF RattrapageInterroger
    <3>. QED  BY <3>1, <3>2 DEF TypeOK, base
  <2>. QED  BY <2>1, <2>2
<1>6. ASSUME NEW s \in Sessions, Verrouiller(s) PROVE TypeOK'
  <2>1. CASE Terminer(s)
    BY <1>6, <2>1, TerminerType DEF Verrouiller, TypeOK
  <2>2. CASE ~Terminer(s)
    <3>1. Couvre[refDe[cible[s]]] \in Seq(Lignes)
      BY <1>6, ReferencesCouvertes DEF TypeOK, Controle, Creee, Verrouiller
    <3>. QED
      BY <1>6, <2>2, <3>1 DEF Verrouiller, TypeOK, base, local, Etapes
  <2>. QED  BY <2>1, <2>2
<1>7. ASSUME NEW s \in Sessions, LireLigne(s) PROVE TypeOK'
  <2>1. reste[s] \in Seq(Lignes) /\ reste[s] # << >>
    BY <1>7 DEF TypeOK, Controle, LireLigne
  <2>2. Head(reste[s]) \in Lignes /\ Tail(reste[s]) \in Seq(Lignes)
    BY <2>1, TeteEtReste
  <2>3. Suite(s, Tail(reste[s])) \in Etapes
    BY DEF Suite, Etapes
  <2>4. /\ lu' \in [Sessions -> EtatsLigne]
        /\ vues' \in [Sessions -> SUBSET Lignes]
    BY <1>7, <2>2, <1>c DEF TypeOK, LireLigne
  <2>5. /\ etape' \in [Sessions -> Etapes]
        /\ reste' \in [Sessions -> Seq(Lignes)]
    <3>1. etape \in [Sessions -> Etapes] /\ reste \in [Sessions -> Seq(Lignes)]
      BY DEF TypeOK
    <3>. QED  BY <1>7, <2>2, <2>3, <3>1 DEF LireLigne, Etapes
  <2>6. UNCHANGED <<base, role, cible, nouveau, demande, avant, ecrites, pannes>>
    BY <1>7 DEF LireLigne
  <2>. QED
    BY <2>4, <2>5, <2>6 DEF TypeOK, base
<1>8. ASSUME NEW s \in Sessions, EcrireLigne(s) PROVE TypeOK'
  <2>1. CASE Terminer(s)
    BY <1>8, <2>1, TerminerType DEF EcrireLigne, TypeOK
  <2>2. CASE ~Terminer(s)
    <3>1. reste[s] \in Seq(Lignes) /\ reste[s] # << >>
      BY <1>8 DEF TypeOK, Controle, EcrireLigne
    <3>2. Head(reste[s]) \in Lignes /\ Tail(reste[s]) \in Seq(Lignes)
      BY <3>1, TeteEtReste
    <3>3. Suite(s, Tail(reste[s])) \in Etapes
      BY DEF Suite, Etapes
    <3>4. /\ etape' \in [Sessions -> Etapes]
          /\ reste' \in [Sessions -> Seq(Lignes)]
          /\ ecrites' \in [Sessions -> SUBSET Lignes]
      <4>1. /\ ecrites' = [ecrites EXCEPT ![s] = @ \cup {Head(reste[s])}]
            /\ reste'   = [reste EXCEPT ![s] = Tail(@)]
            /\ etape'   = [etape EXCEPT ![s] = Suite(s, Tail(reste[s]))]
        BY <1>8, <2>2 DEF EcrireLigne
      <4>2. /\ etape \in [Sessions -> Etapes]
            /\ reste \in [Sessions -> Seq(Lignes)]
            /\ ecrites \in [Sessions -> SUBSET Lignes]
        BY DEF TypeOK
      <4>. QED  BY <4>1, <4>2, <3>2, <3>3
    <3>5. UNCHANGED <<base, pannes, role, cible, nouveau, demande, avant, lu, vues>>
      BY <1>8, <2>2 DEF EcrireLigne
    <3>. QED
      BY <3>4, <3>5 DEF TypeOK, base
  <2>. QED  BY <2>1, <2>2
<1>9. ASSUME NEW s \in Sessions, ValiderStatut(s) PROVE TypeOK'
  <2>1. cible[s] \in Ordres
    BY <1>9 DEF TypeOK, Controle, ValiderStatut
  <2>2. /\ tx' \in [Ordres -> Statuts \cup {Aucun}]
        /\ ligne' \in [Lignes -> EtatsLigne]
        /\ reference' \in [Lignes -> Ordres \cup {Aucun, Manuel}]
    BY <1>9, <1>b, <2>1 DEF TypeOK, ValiderStatut
  <2>3. annulees' \subseteq Lignes /\ courriels' \in [Ordres -> Nat]
    BY <1>9, <2>1 DEF TypeOK, ValiderStatut
  <2>4. Liberer(s) /\ avant' = SansSession(s) /\ UNCHANGED <<kopar, refDe, avis, pannes>>
    BY <1>9 DEF ValiderStatut, Terminer
  <2>. QED  BY <2>2, <2>3, <2>4, LibererType, AvantType DEF TypeOK
<1>10. ASSUME NEW s \in Sessions, ValiderMois(s) PROVE TypeOK'
  <2>1. annulees' \subseteq Lignes /\ courriels' \in [Ordres -> Nat]
    <3>1. {l \in ecrites[s] : ligne[l] = "payee"} \in SUBSET Lignes
      BY DEF TypeOK
    <3>. QED  BY <1>10, <1>a, <3>1 DEF ValiderMois
  <2>2. ligne' \in [Lignes -> EtatsLigne]
    BY <1>10, <1>b DEF ValiderMois
  <2>3. /\ Liberer(s) /\ avant' = SansSession(s)
        /\ UNCHANGED <<kopar, refDe, avis, tx, reference, pannes>>
    BY <1>10 DEF ValiderMois, Terminer
  <2>. QED  BY <2>1, <2>2, <2>3, LibererType, AvantType DEF TypeOK
<1>20. \A q \in SuitesMois \cup {<<Precedent>>} \cup {<<l, Precedent>> : l \in Mois} : q \in Seq(Lignes)
  <2>1. \A l, m \in Lignes : <<l>> \in Seq(Lignes) /\ <<l, m>> \in Seq(Lignes)
    OBVIOUS
  <2>2. Mois \subseteq Lignes /\ Precedent \in Lignes
    BY HypPrecedent DEF Mois
  <2>3. \A q \in SuitesMois : q \in Seq(Lignes)
    BY <2>1, <2>2, ReferencesCouvertes DEF SuitesMois
  <2>. QED  BY <2>1, <2>2, <2>3
<1>21. ASSUME NEW s \in Sessions, GenererDebut(s) PROVE TypeOK'
  BY <1>20, <1>21 DEF TypeOK, GenererDebut, base, Etapes, Roles
<1>22. ASSUME NEW s \in Sessions, LotDebut(s) PROVE TypeOK'
  BY <1>20, <1>22 DEF TypeOK, LotDebut, base, Etapes, Roles
<1>23. ASSUME NEW s \in Sessions, Victime(s) PROVE TypeOK'
  BY <1>23, TerminerType DEF Victime, TypeOK
<1>11. ASSUME NEW s \in Sessions, ManuelDebut(s) PROVE TypeOK'
  BY <1>11, ReferencesCouvertes DEF TypeOK, ManuelDebut, base, Etapes, Roles
<1>12. ASSUME NEW s \in Sessions, ValiderManuel(s) PROVE TypeOK'
  <2>1. /\ ligne' \in [Lignes -> EtatsLigne]
        /\ reference' \in [Lignes -> Ordres \cup {Aucun, Manuel}]
        /\ annulees' \subseteq Lignes
    BY <1>12, <1>b DEF TypeOK, ValiderManuel
  <2>. QED
    BY <1>12, <2>1, LibererType, AvantType DEF TypeOK, ValiderManuel, Terminer
<1>13. ASSUME NEW s \in Sessions, InitierDebut(s) PROVE TypeOK'
  <2>1. avant' \in [Ordres \cup Sessions -> SUBSET (Ordres \cup Sessions)]
    BY <1>13, AvantType DEF TypeOK, InitierDebut
  <2>. QED
    BY <1>13, <2>1, ReferencesCouvertes DEF TypeOK, InitierDebut, base, Etapes, Roles
<1>14. ASSUME NEW s \in Sessions, Consulter(s) PROVE TypeOK'
  <2>1. CASE Terminer(s)
    BY <1>14, <2>1, TerminerType DEF Consulter, TypeOK
  <2>2. CASE ~Terminer(s)
    BY <1>14, <2>2 DEF Consulter, TypeOK, base, local, Etapes
  <2>. QED  BY <2>1, <2>2
<1>15. ASSUME NEW s \in Sessions, CreerOrdre(s) PROVE TypeOK'
  BY <1>15 DEF TypeOK, CreerOrdre, Etapes, StatutsKopar, Statuts
<1>16. ASSUME NEW s \in Sessions, RefusKopar(s) PROVE TypeOK'
  BY <1>16, TerminerType DEF RefusKopar, TypeOK
<1>17. ASSUME NEW s \in Sessions, ValiderInitiation(s) PROVE TypeOK'
  <2>1. /\ tx' \in [Ordres -> Statuts \cup {Aucun}]
        /\ ligne' \in [Lignes -> EtatsLigne]
    BY <1>17, <1>b DEF TypeOK, ValiderInitiation, Statuts
  <2>2. avant' \in [Ordres \cup Sessions -> SUBSET (Ordres \cup Sessions)]
    BY <1>17, AvantType DEF TypeOK, ValiderInitiation
  <2>. QED
    BY <1>17, <2>1, <2>2, LibererType DEF TypeOK, ValiderInitiation
<1>18. ASSUME NEW s \in Sessions, Abandonner(s) PROVE TypeOK'
  <2>1. pannes' \in 0..MaxPannes
    BY <1>18 DEF Abandonner, TypeOK
  <2>. QED  BY <1>18, <2>1, TerminerType DEF Abandonner
<1>. QED
  BY <1>1, <1>2, <1>3, <1>4, <1>5, <1>6, <1>7, <1>8, <1>9, <1>10, <1>11, <1>12,
     <1>13, <1>14, <1>15, <1>16, <1>17, <1>18, <1>21, <1>22, <1>23
  DEF Next, Commencer, Avancer, Appliquer, Initier

\* The session that takes the step keeps its control state consistent.
LEMMA ControleActeur ==
  ASSUME Types, NEW s \in Sessions, DeSession(s)
  PROVE  Controle(s)'
<1>. USE HypRefs, HypAucun, HypOrdres
<1>a. TypeOK /\ Controle(s) /\ \A o \in Ordres : Creee(o)
  BY DEF Types
<1>0. CASE Liberer(s)
  BY <1>0, <1>a, LibererControle
<1>1. CASE RecevoirWebhook(s)
  <2>1. PICK m \in avis, t \in Ordres :
          t \in TransactionDuWebhook(m[1]) /\ cible' = [cible EXCEPT ![s] = t]
    BY <1>1 DEF RecevoirWebhook
  <2>2. tx[t] # Aucun
    BY <2>1 DEF TransactionDuWebhook, PlusRecente, Correspondances
  <2>3. cible'[s] = t /\ etape'[s] = "verrou" /\ role'[s] = "appliquer" /\ tx' = tx
    BY <1>1, <1>a, <2>1 DEF TypeOK, RecevoirWebhook, base
  <2>. QED  BY <2>2, <2>3 DEF Controle
<1>2. CASE RattrapageLister(s)
  <2>1. PICK o \in Ordres : tx[o] \in EnCours /\ cible' = [cible EXCEPT ![s] = o]
    BY <1>2 DEF RattrapageLister
  <2>2. tx[o] # Aucun
    BY <2>1 DEF EnCours, StatutsKopar, Statuts
  <2>3. cible'[s] = o /\ etape'[s] = "interroger" /\ role'[s] = "appliquer" /\ tx' = tx
    BY <1>2, <1>a, <2>1 DEF TypeOK, RattrapageLister, base
  <2>. QED  BY <2>2, <2>3 DEF Controle
<1>3. CASE ManuelDebut(s)
  <2>1. PICK r \in Refs : reste' = [reste EXCEPT ![s] = Couvre[r]]
    BY <1>3 DEF ManuelDebut
  <2>2. /\ etape'[s] = "lire" /\ role'[s] = "manuel" /\ reste'[s] # << >>
    BY <1>3, <1>a, <2>1, ReferencesCouvertes DEF TypeOK, ManuelDebut
  <2>. QED  BY <2>2 DEF Controle
<1>4. CASE InitierDebut(s)
  <2>1. PICK r \in Refs : reste' = [reste EXCEPT ![s] = Couvre[r]]
    BY <1>4 DEF InitierDebut
  <2>2. /\ etape'[s] = "lire" /\ role'[s] = "initier" /\ reste'[s] # << >>
        /\ cible'[s] = Aucun
    BY <1>4, <1>a, <2>1, ReferencesCouvertes DEF TypeOK, InitierDebut, Controle
  <2>. QED  BY <2>2 DEF Controle
<1>5. CASE RattrapageInterroger(s) /\ ~Liberer(s)
  <2>1. /\ etape[s] = "interroger" /\ etape'[s] = "verrou"
        /\ UNCHANGED <<role, cible, tx, reste, refDe>>
    BY <1>5, <1>a DEF TypeOK, RattrapageInterroger, Terminer, base
  <2>. QED  BY <1>a, <2>1 DEF Controle
<1>6. CASE Verrouiller(s) /\ ~Liberer(s)
  <2>1. /\ etape[s] = "verrou" /\ role[s] = "appliquer"
        /\ UNCHANGED <<role, cible, tx, refDe>>
        /\ etape'[s] \in {"valider", "lire"}
    BY <1>6, <1>a DEF TypeOK, Verrouiller, Terminer, base, local, Controle
  <2>2. ASSUME etape'[s] = "lire" PROVE reste'[s] # << >>
    <3>1. reste' = [reste EXCEPT ![s] = Couvre[refDe[cible[s]]]]
      BY <1>6, <1>a, <2>2 DEF TypeOK, Verrouiller, Terminer
    <3>2. refDe[cible[s]] \in Refs
      BY <1>a, <2>1 DEF TypeOK, Controle, Creee
    <3>. QED  BY <3>1, <3>2, <1>a, ReferencesCouvertes DEF TypeOK
  <2>. QED  BY <1>a, <2>1, <2>2 DEF Controle
<1>7. CASE LireLigne(s)
  <2>1. /\ etape[s] = "lire" /\ reste[s] # << >>
        /\ UNCHANGED <<role, cible, tx, refDe>>
    BY <1>7, <1>a DEF LireLigne, base, Controle
  <2>2. \/ etape'[s] = "ecrire" /\ reste'[s] = reste[s]
        \/ etape'[s] = Suite(s, Tail(reste[s])) /\ reste'[s] = Tail(reste[s])
    BY <1>7, <1>a DEF TypeOK, LireLigne
  <2>. QED  BY <1>a, <2>1, <2>2 DEF Controle, Suite
<1>8. CASE EcrireLigne(s) /\ ~Liberer(s)
  <2>1. /\ etape[s] = "ecrire"
        /\ UNCHANGED <<role, cible, tx, refDe>>
        /\ etape'[s] = Suite(s, Tail(reste[s])) /\ reste'[s] = Tail(reste[s])
    BY <1>8, <1>a DEF TypeOK, EcrireLigne, Terminer, base
  <2>. QED  BY <1>a, <2>1 DEF Controle, Suite
<1>9. CASE GenererDebut(s) \/ LotDebut(s)
  <2>1. PICK q \in SuitesMois \cup {<<Precedent>>} \cup {<<l, Precedent>> : l \in Mois} :
          reste' = [reste EXCEPT ![s] = q]
    BY <1>9 DEF GenererDebut, LotDebut
  <2>2. q # << >>
    BY <2>1, ReferencesCouvertes DEF SuitesMois
  <2>3. etape'[s] = "lire" /\ role'[s] \in {"generer", "lot"} /\ reste'[s] # << >>
    BY <1>9, <1>a, <2>1, <2>2 DEF TypeOK, GenererDebut, LotDebut
  <2>. QED  BY <2>3 DEF Controle
<1>10. CASE Consulter(s) /\ ~Liberer(s)
  <2>1. /\ etape[s] = "consulter" /\ etape'[s] \in {"valider", "creer"}
        /\ UNCHANGED <<role, cible>>
    BY <1>10, <1>a DEF TypeOK, Consulter, Terminer, local
  <2>. QED  BY <1>a, <2>1 DEF Controle
<1>11. CASE CreerOrdre(s)
  <2>1. PICK o \in Ordres : /\ refDe' = [refDe EXCEPT ![o] = demande[s]]
                            /\ cible' = [cible EXCEPT ![s] = o]
    BY <1>11 DEF CreerOrdre
  <2>2. /\ etape[s] = "creer" /\ etape'[s] = "valider" /\ role' = role
        /\ refDe'[o] = demande[s] /\ cible'[s] = o /\ demande[s] \in Refs
    BY <1>11, <1>a, <2>1 DEF TypeOK, CreerOrdre
  <2>. QED  BY <1>a, <2>2 DEF Controle
<1>12. CASE DeSession(s) /\ ~Commencer(s) /\ ~Liberer(s)
  BY <1>5, <1>6, <1>7, <1>8, <1>10, <1>11, <1>12
  DEF DeSession, Avancer, Appliquer, Initier, ValiderStatut, ValiderMois, RefusKopar,
      ValiderInitiation, ValiderManuel, Abandonner, Victime, Terminer
<1>. QED
  BY <1>0, <1>1, <1>2, <1>3, <1>4, <1>9, <1>12 DEF DeSession, Commencer

\* An order has a command_ref before it has a transaction row.
LEMMA CreeeSuivante ==
  ASSUME Types, Next, NEW o \in Ordres
  PROVE  Creee(o)'
<1>. USE HypAucun, HypOrdres
<1>a. TypeOK /\ Creee(o) /\ Croissance
  BY CroissanceSuivante DEF Types
<1>1. ASSUME NEW s \in Sessions, CreerOrdre(s) PROVE Creee(o)'
  BY <1>1, <1>a DEF TypeOK, Creee, CreerOrdre, StatutsKopar, Statuts
<1>2. ASSUME NEW s \in Sessions, ValiderInitiation(s) PROVE Creee(o)'
  <2>1. Controle(s)
    BY DEF Types
  <2>. QED  BY <1>2, <1>a, <2>1 DEF TypeOK, Creee, Controle, ValiderInitiation
<1>3. ASSUME NEW s \in Sessions, ValiderStatut(s) PROVE Creee(o)'
  <2>1. Controle(s)
    BY DEF Types
  <2>. QED  BY <1>3, <1>a, <2>1 DEF TypeOK, Creee, Controle, ValiderStatut
<1>4. ASSUME UNCHANGED <<refDe, tx>> PROVE Creee(o)'
  BY <1>4, <1>a DEF Creee, Croissance
<1>5. ASSUME NEW p \in Ordres, NEW st \in StatutsKopar, KoparEvolue(p, st)
      PROVE  UNCHANGED <<refDe, tx>>
  BY <1>5 DEF KoparEvolue
<1>6. ASSUME NEW l \in Lignes, ConfirmerPaiement(l) PROVE UNCHANGED <<refDe, tx>>
  BY <1>6 DEF ConfirmerPaiement
<1>7. ASSUME NEW s \in Sessions, Commencer(s) PROVE UNCHANGED <<refDe, tx>>
  BY <1>7 DEF Commencer, RecevoirWebhook, RattrapageLister, ManuelDebut, InitierDebut, GenererDebut, LotDebut, base
<1>8. ASSUME NEW s \in Sessions, Avancer(s) \/ Abandonner(s) \/ Victime(s), ~CreerOrdre(s),
             ~ValiderStatut(s), ~ValiderInitiation(s)
      PROVE  UNCHANGED <<refDe, tx>>
  BY <1>8 DEF Avancer, Appliquer, Initier, RattrapageInterroger, Verrouiller, Abandonner,
     Victime, ValiderMois, LireLigne, EcrireLigne, Consulter, RefusKopar, ValiderManuel, base
<1>. QED
  BY <1>1, <1>2, <1>3, <1>4, <1>5, <1>6, <1>7, <1>8 DEF Next

\* A step belongs to one session, to the provider or to the administrator.
LEMMA ControleSuivant ==
  ASSUME Types, Next, NEW s \in Sessions
  PROVE  Controle(s)'
<1>. USE HypAucun
<1>a. TypeOK /\ Controle(s) /\ Croissance
  BY CroissanceSuivante DEF Types
<1>1. ASSUME NEW t \in Sessions, DeSession(t) PROVE Controle(s)'
  <2>1. CASE s = t
    BY <1>1, <2>1, ControleActeur
  <2>2. CASE s # t
    <3>1. etape'[s] = etape[s] /\ role'[s] = role[s] /\ cible'[s] = cible[s]
          /\ reste'[s] = reste[s]
      BY <1>1, <1>a, <2>2, SessionAutres DEF AutresInchangees
    <3>. QED  BY <1>a, <3>1 DEF TypeOK, Controle, Croissance
  <2>. QED  BY <2>1, <2>2
<1>2. ASSUME UNCHANGED <<etape, role, cible, reste>> PROVE Controle(s)'
  BY <1>2, <1>a DEF TypeOK, Controle, Croissance
<1>3. ASSUME NEW o \in Ordres, NEW st \in StatutsKopar, KoparEvolue(o, st)
      PROVE  UNCHANGED <<etape, role, cible, reste>>
  BY <1>3 DEF KoparEvolue, local
<1>4. ASSUME NEW l \in Lignes, ConfirmerPaiement(l) PROVE UNCHANGED <<etape, role, cible, reste>>
  BY <1>4 DEF ConfirmerPaiement, local
<1>. QED
  BY <1>1, <1>2, <1>3, <1>4 DEF Next, DeSession

\* The initial states satisfy the typing invariant.
THEOREM TypeInitial == Init => Types
BY HypRefs, HypBornes, HypAucun
DEF Init, Types, TypeOK, Creee, Controle, Etapes, Roles, Statuts, StatutsKopar, EtatsLigne

\* The typing invariant is inductive.
THEOREM TypeSuivant == Types /\ [Next]_vars => Types'
<1>1. ASSUME Types, Next PROVE Types'
  BY <1>1, TypeOKSuivant, CreeeSuivante, ControleSuivant DEF Types
<1>2. ASSUME Types, UNCHANGED vars PROVE Types'
  BY <1>2 DEF Types, TypeOK, Creee, Controle, vars, base, local
<1>. QED  BY <1>1, <1>2

\* Every variable keeps its type: the handlers only ever look up transactions
\* that exist and rows a command_ref covers (appliquer_statut_kopar).
THEOREM TypeCorrect == Spec => []TypeOK
<1>1. Types => TypeOK
  BY DEF Types
<1>. QED
  BY <1>1, TypeInitial, TypeSuivant, PTL DEF Spec

(***************************************************************************)
(* The inductive invariant.  A status and its rows are committed together, *)
(* but decided one SELECT at a time: what makes the decision still true at *)
(* the commit is said here, session by session.                            *)
(***************************************************************************)
Payees    == {l \in Lignes : ligne[l] = "payee"}
Acquis(l) == ligne[l] = "payee" \/ l \in annulees

\* Rows flushed by a session are held only while it visits them; a row it
\* inserts stays invisible to the others until the commit.
Insere(s) == role[s] \in {"initier", "generer"}
Ecritures(s) ==
  /\ etape[s] \in {"libre", "interroger", "verrou"} => ecrites[s] = {}
  /\ etape[s] = "libre" => vues[s] = {}
  /\ Insere(s) /\ etape[s] = "ecrire" => lu[s] = "absente"
  /\ Insere(s) => \A l \in ecrites[s] : ligne[l] = "absente"

\* The monthly job: it holds the INSERT of its month when it comes to the
\* previous one, which it writes only if it had not read it paid.
Lot(s) ==
  role[s] = "lot" =>
    /\ etape[s] \in {"lire", "ecrire", "valider"}
    /\ reste[s] \in {<< >>, <<Precedent>>} \cup {<<l, Precedent>> : l \in Mois}
    /\ vues[s] \cup ecrites[s] \subseteq Mois
    /\ vues[s] \cap ecrites[s] = {}
    /\ \A l \in ecrites[s] : l = Precedent \/ ligne[l] = "absente"
    /\ \A l \in vues[s] : ligne[l] \in {"payee", "echue"}
    /\ etape[s] = "ecrire" =>
         /\ Head(reste[s]) \notin vues[s]
         /\ Len(reste[s]) > 1 => lu[s] = "absente"

\* Under the lock of the transaction the early returns stay refuted, and every
\* row of the order is still to be visited, flushed, or settled.
Application(s) ==
  role[s] = "appliquer" /\ etape[s] \in {"lire", "ecrire", "valider"} =>
    /\ ~Ignore(tx[cible[s]], nouveau[s])
    /\ etape[s] # "valider" \/ ecrites[s] # {} => nouveau[s] = "success"
    /\ nouveau[s] = "success" =>
         /\ \A l \in LignesDe(cible[s]) : l \in Elements(reste[s]) \cup ecrites[s] \/ Acquis(l)
         /\ Elements(reste[s]) \subseteq LignesDe(cible[s])
         /\ ecrites[s] \subseteq LignesDe(cible[s])
         /\ etape[s] = "valider" => reste[s] = << >>

\* The order an initiation has just created is known to nobody else.
Nouvelle(s) ==
  role[s] = "initier" /\ cible[s] # Aucun => tx[cible[s]] = Aucun

Exclusion(s, t) ==
  /\ ecrites[s] \cap ecrites[t] = {}
  /\ \A o \in Ordres : ~(VerrouTx(s, o) /\ VerrouTx(t, o))
  /\ role[s] = "initier" /\ role[t] = "initier" /\ cible[s] = cible[t] => cible[s] = Aucun

\* Once an order is confirmed its rows stay paid until one is undone, so a
\* handler that holds the transaction again has nothing to flush.
Envoi(o) ==
  /\ courriels[o] <= 1
  /\ courriels[o] # 0 =>
       /\ refDe[o] # Aucun /\ Reglee(o)
       /\ \A s \in Sessions : VerrouTx(s, o) => ecrites[s] = {} /\ etape[s] # "ecrire"

IInv ==
  /\ Types
  /\ \A s \in Sessions : Ecritures(s) /\ Lot(s) /\ Application(s) /\ Nouvelle(s)
  /\ \A s \in Sessions : \A t \in Sessions \ {s} : Exclusion(s, t)
  /\ \A o \in Ordres : Envoi(o)
  /\ SuccesRegle /\ ReferenceJustifiee

(***************************************************************************)
(* What one step does to the database.                                     *)
(***************************************************************************)
\* Only the two commits write transactions_kopar.statut, each for its own order.
LEMMA EffetTx ==
  ASSUME Types, NEW s \in Sessions, DeSession(s), NEW o \in Ordres, tx'[o] # tx[o]
  PROVE  /\ cible[s] = o /\ etape[s] = "valider"
         /\ \/ ValiderStatut(s) /\ role[s] = "appliquer" /\ tx'[o] = nouveau[s]
            \/ ValiderInitiation(s) /\ role[s] = "initier" /\ tx'[o] = "new"
<1>1. CASE ValiderStatut(s)
  BY <1>1 DEF Types, TypeOK, ValiderStatut
<1>2. CASE ValiderInitiation(s)
  BY <1>2 DEF Types, TypeOK, ValiderInitiation
<1>3. CASE UNCHANGED tx
  BY <1>3
<1>. QED
  BY <1>1, <1>2, <1>3 DEF DeSession, Commencer, Avancer, Appliquer, Initier,
     RecevoirWebhook, RattrapageLister, ManuelDebut, InitierDebut, GenererDebut, LotDebut,
     RattrapageInterroger, Verrouiller, Abandonner, Victime, ValiderMois, LireLigne,
     EcrireLigne, Consulter, CreerOrdre, RefusKopar, ValiderManuel, base

\* The commits that write rows, and what they write.
Validation(s) == ValiderStatut(s) \/ ValiderManuel(s) \/ ValiderInitiation(s) \/ ValiderMois(s)

LEMMA EffetValidation ==
  ASSUME NEW s \in Sessions, DeSession(s)
  PROVE  \/ Validation(s)
         \/ UNCHANGED <<ligne, reference, courriels, annulees>>
BY DEF Validation, DeSession, Commencer, Avancer, Appliquer, Initier,
   RecevoirWebhook, RattrapageLister, ManuelDebut, InitierDebut, GenererDebut, LotDebut,
   RattrapageInterroger, Verrouiller, Abandonner, Victime, LireLigne,
   EcrireLigne, Consulter, CreerOrdre, RefusKopar, base

LEMMA Validee ==
  ASSUME Types, NEW s \in Sessions, Validation(s)
  PROVE  /\ etape[s] = "valider" /\ Liberer(s) /\ ligne' = LignesValidees(s)
         /\ refDe' = refDe
         /\ role[s] \in {"appliquer", "manuel"} => annulees' = annulees \ ecrites[s]
         /\ role[s] = "initier" => UNCHANGED <<annulees, courriels>>
         /\ role[s] \in {"generer", "lot"} =>
              Defaire({l \in ecrites[s] : ligne[l] = "payee"})
         /\ role[s] = "appliquer" => ValiderStatut(s)
         /\ role[s] = "manuel" => ValiderManuel(s)
BY DEF Validation, ValiderStatut, ValiderManuel, ValiderInitiation, ValiderMois, Terminer

\* Only a commit writes rows, and only those its session flushed.
LEMMA EffetLigne ==
  ASSUME Types, NEW s \in Sessions, DeSession(s), NEW l \in Lignes, ligne'[l] # ligne[l]
  PROVE  /\ Validation(s) /\ l \in ecrites[s] /\ etape[s] = "valider"
         /\ ligne'[l] = Pose(s, l)
         /\ role[s] \in {"appliquer", "manuel"} => ligne'[l] = "payee"
         /\ Insere(s) => ligne'[l] = "due"
         /\ role[s] = "lot" => ligne'[l] = (IF l = Precedent THEN "echue" ELSE "due")
<1>1. Validation(s)
  BY EffetValidation
<1>2. etape[s] = "valider" /\ ligne' = LignesValidees(s)
  BY <1>1, Validee
<1>3. l \in ecrites[s] /\ ligne'[l] = Pose(s, l)
  BY <1>2 DEF LignesValidees, Types, TypeOK
<1>. QED  BY <1>1, <1>2, <1>3 DEF Pose, Insere

\* A row gets an order as receipt from the commit of that order only.
LEMMA EffetReference ==
  ASSUME Types, NEW s \in Sessions, DeSession(s), NEW l \in Lignes, NEW o \in Ordres,
         reference'[l] = o, reference[l] # o
  PROVE  ValiderStatut(s) /\ cible[s] = o /\ l \in ecrites[s] /\ ligne'[l] = "payee"
<1>. USE HypOrdres
<1>1. CASE ValiderStatut(s)
  BY <1>1 DEF Types, TypeOK, ValiderStatut, LignesValidees, Pose
<1>2. CASE ValiderManuel(s)
  BY <1>2 DEF Types, TypeOK, ValiderManuel
<1>3. CASE UNCHANGED reference
  BY <1>3
<1>. QED
  BY <1>1, <1>2, <1>3, EffetValidation DEF Validation, ValiderInitiation, ValiderMois

\* The provider and the administrator touch no session.
LEMMA EffetExterne ==
  ASSUME Next
  PROVE  \/ \E s \in Sessions : DeSession(s)
         \/ /\ UNCHANGED <<tx, refDe, etape, local>>
            /\ \/ UNCHANGED <<ligne, reference, courriels, annulees>>
               \/ \E l \in Lignes : ConfirmerPaiement(l)
<1>1. ASSUME NEW o \in Ordres, NEW st \in StatutsKopar, KoparEvolue(o, st)
      PROVE  UNCHANGED <<tx, refDe, reference, courriels, annulees, etape, local, ligne>>
  BY <1>1 DEF KoparEvolue
<1>2. ASSUME NEW m \in Lignes, ConfirmerPaiement(m)
      PROVE  UNCHANGED <<tx, refDe, etape, local>>
  BY <1>2 DEF ConfirmerPaiement
<1>. QED  BY <1>1, <1>2 DEF Next, DeSession

\* What the administrator does to the adhesion, and to nothing else.
LEMMA EffetConfirmation ==
  ASSUME TypeOK, NEW a \in Lignes, ConfirmerPaiement(a), NEW l \in Lignes
  PROVE  /\ a \notin Mois /\ ligne[a] # "absente" /\ \A s \in Sessions : a \notin ecrites[s]
         /\ l # a => /\ ligne'[l] = ligne[l] /\ reference'[l] = reference[l]
                     /\ l \in annulees' <=> l \in annulees
         /\ reference'[a] \in {Aucun, Manuel}
         /\ \/ ligne'[a] = "payee" /\ annulees' = annulees \ {a} /\ courriels' = courriels
            \/ ligne'[a] = "due" /\ Defaire({a} \cap Payees)
<1>1. PICK oui \in BOOLEAN, saisie \in {Aucun, Manuel} :
        /\ ligne'     = [ligne EXCEPT ![a] = IF oui THEN "payee" ELSE "due"]
        /\ reference' = [reference EXCEPT ![a] = saisie]
        /\ IF oui THEN annulees' = annulees \ {a} /\ UNCHANGED courriels
                  ELSE Defaire({a} \cap {m \in Lignes : ligne[m] = "payee"})
  BY DEF ConfirmerPaiement
<1>2. a \notin Mois /\ ligne[a] # "absente" /\ \A s \in Sessions : a \notin ecrites[s]
  BY DEF ConfirmerPaiement, Mois
<1>3. CASE oui = TRUE
  BY <1>1, <1>2, <1>3 DEF TypeOK
<1>4. CASE oui = FALSE
  BY <1>1, <1>2, <1>4 DEF TypeOK, Defaire, Payees
<1>. QED  BY <1>3, <1>4

\* What one step may do to a row.
LEMMA LignesSuivantes ==
  ASSUME IInv, Next, NEW l \in Lignes
  PROVE  /\ ligne[l] # "absente" => ligne'[l] # "absente"
         /\ l \in Mois /\ ligne[l] \in {"payee", "echue"} => ligne'[l] \in {"payee", "echue"}
         /\ ligne[l] = "payee" /\ ligne'[l] # "payee" =>
              /\ (l \notin Mois /\ ligne'[l] = "due") \/ EcraseParLot(l)
              /\ l \in annulees'
              /\ \A o \in Ordres : l \in LignesDe(o) => courriels'[o] = 0
         /\ l \in annulees => l \in annulees' \/ ligne'[l] = "payee"
<1>a. TypeOK /\ Types
  BY DEF IInv, Types
<1>1. ASSUME NEW s \in Sessions, DeSession(s), ligne'[l] # ligne[l]
      PROVE  /\ ligne[l] # "absente" => ligne'[l] # "absente"
             /\ l \in Mois /\ ligne[l] \in {"payee", "echue"} => ligne'[l] \in {"payee", "echue"}
             /\ ligne[l] = "payee" /\ ligne'[l] # "payee" =>
                  /\ EcraseParLot(l)
                  /\ l \in annulees'
                  /\ \A o \in Ordres : l \in LignesDe(o) => courriels'[o] = 0
  <2>1. /\ Validation(s) /\ l \in ecrites[s] /\ etape[s] = "valider"
        /\ role[s] \in {"appliquer", "manuel"} => ligne'[l] = "payee"
        /\ Insere(s) => ligne'[l] = "due"
        /\ role[s] = "lot" => ligne'[l] = (IF l = Precedent THEN "echue" ELSE "due")
    BY <1>a, <1>1, EffetLigne
  <2>2. Insere(s) => ligne[l] = "absente"
    BY <2>1 DEF IInv, Ecritures
  <2>3. role[s] = "lot" => l \notin vues[s] /\ (l = Precedent \/ ligne[l] = "absente")
    BY <2>1 DEF IInv, Lot
  <2>4. role[s] \in {"appliquer", "manuel", "initier", "generer", "lot"}
    BY <1>a DEF TypeOK, Roles
  <2>5. ASSUME ligne[l] = "payee", ligne'[l] # "payee"
        PROVE  /\ EcraseParLot(l) /\ l \in annulees'
               /\ \A o \in Ordres : l \in LignesDe(o) => courriels'[o] = 0
    <3>1. role[s] = "lot" /\ l = Precedent /\ ligne'[l] = "echue" /\ l \notin vues[s]
      BY <2>1, <2>2, <2>3, <2>4, <2>5 DEF Insere
    <3>2. Liberer(s) /\ Defaire({m \in ecrites[s] : ligne[m] = "payee"})
      BY <1>a, <2>1, <3>1, Validee
    <3>3. etape'[s] = "libre"
      BY <1>a, <3>2, LibererAutres
    <3>4. l \in {m \in ecrites[s] : ligne[m] = "payee"}
      BY <2>1, <2>5
    <3>. QED  BY <2>1, <3>1, <3>2, <3>3, <3>4 DEF EcraseParLot, Defaire
  <2>. QED  BY <2>1, <2>2, <2>3, <2>4, <2>5 DEF Insere
<1>2. ASSUME NEW s \in Sessions, DeSession(s), l \in annulees
      PROVE  l \in annulees' \/ ligne'[l] = "payee"
  <2>1. CASE UNCHANGED annulees
    BY <1>2, <2>1
  <2>2. CASE Validation(s)
    <3>1. /\ ligne' = LignesValidees(s)
          /\ role[s] \in {"appliquer", "manuel"} => annulees' = annulees \ ecrites[s]
          /\ role[s] = "initier" => UNCHANGED annulees
          /\ role[s] \in {"generer", "lot"} => annulees \subseteq annulees'
      BY <1>a, <2>2, Validee DEF Defaire
    <3>2. role[s] \in {"appliquer", "manuel"} /\ l \in ecrites[s] => ligne'[l] = "payee"
      BY <3>1 DEF LignesValidees, Pose
    <3>. QED  BY <1>a, <1>2, <3>1, <3>2 DEF TypeOK, Roles
  <2>. QED  BY <1>2, <2>1, <2>2, EffetValidation
<1>3. ASSUME NEW a \in Lignes, ConfirmerPaiement(a)
      PROVE  /\ ligne[l] # "absente" => ligne'[l] # "absente"
             /\ l \in Mois => ligne'[l] = ligne[l]
             /\ ligne[l] = "payee" /\ ligne'[l] # "payee" =>
                  /\ l \notin Mois /\ ligne'[l] = "due" /\ l \in annulees'
                  /\ \A o \in Ordres : l \in LignesDe(o) => courriels'[o] = 0
             /\ l \in annulees => l \in annulees' \/ ligne'[l] = "payee"
  <2>1. CASE l # a
    BY <1>a, <1>3, <2>1, EffetConfirmation
  <2>2. CASE l = a
    <3>1. a \notin Mois /\ ligne[a] # "absente"
      BY <1>a, <1>3, EffetConfirmation
    <3>2. CASE ligne'[a] = "payee" /\ annulees' = annulees \ {a}
      BY <2>2, <3>1, <3>2
    <3>3. CASE ligne'[a] = "due" /\ Defaire({a} \cap Payees)
      BY <2>2, <3>1, <3>3 DEF Defaire, Payees
    <3>. QED  BY <1>a, <1>3, <3>2, <3>3, EffetConfirmation
  <2>. QED  BY <2>1, <2>2
<1>4. CASE UNCHANGED <<ligne, annulees>>
  BY <1>4
<1>. QED  BY <1>1, <1>2, <1>3, <1>4, EffetExterne

\* A row settled stays settled: paid, or undone and known as such.
LEMMA AcquisConserve ==
  ASSUME IInv, Next, NEW l \in Lignes, Acquis(l)
  PROVE  Acquis(l)'
BY LignesSuivantes DEF Acquis

\* Under the lock of another session a transaction does not move.
LEMMA TxVerrouillee ==
  ASSUME IInv, NEW s \in Sessions, NEW t \in Sessions, s # t, DeSession(t),
         NEW o \in Ordres, VerrouTx(s, o)
  PROVE  tx'[o] = tx[o]
<1>. SUFFICES ASSUME tx'[o] # tx[o] PROVE FALSE
  OBVIOUS
<1>1. cible[t] = o /\ etape[t] = "valider"
  BY EffetTx DEF IInv
<1>2. CASE role[t] = "appliquer"
  BY <1>1, <1>2 DEF IInv, Exclusion, VerrouTx
<1>3. CASE role[t] = "initier"
  BY <1>1, <1>3, HypOrdres DEF IInv, Nouvelle, Types, Controle, VerrouTx
<1>. QED  BY <1>2, <1>3, EffetTx DEF IInv


(***************************************************************************)
(* The session that takes the step                                         *)
(***************************************************************************)
\* The acting session: the rows it holds.
LEMMA EcrituresActeur ==
  ASSUME IInv, NEW s \in Sessions, DeSession(s)
  PROVE  Ecritures(s)'
<1>a. TypeOK /\ Controle(s) /\ Ecritures(s)
  BY DEF IInv, Types
<1>0. CASE Liberer(s)
  BY <1>0, <1>a, LibererAutres DEF Ecritures, Insere
<1>1. CASE Commencer(s)
  <2>1. etape[s] = "libre" /\ ecrites'[s] = ecrites[s] /\ vues'[s] = vues[s]
        /\ etape'[s] \notin {"ecrire", "libre"}
    BY <1>1, <1>a DEF TypeOK, Commencer, RecevoirWebhook, RattrapageLister, ManuelDebut,
       InitierDebut, GenererDebut, LotDebut
  <2>. QED  BY <1>a, <2>1 DEF Ecritures
<1>2. CASE RattrapageInterroger(s) /\ ~Liberer(s)
  <2>1. etape[s] = "interroger" /\ ecrites' = ecrites /\ etape'[s] = "verrou"
    BY <1>2, <1>a DEF TypeOK, RattrapageInterroger, Terminer
  <2>. QED  BY <1>a, <2>1 DEF Ecritures
<1>3. CASE Verrouiller(s) /\ ~Liberer(s)
  <2>1. /\ etape[s] = "verrou" /\ ecrites' = ecrites
        /\ etape'[s] \in {"valider", "lire"}
    BY <1>3, <1>a DEF TypeOK, Verrouiller, Terminer, local
  <2>. QED  BY <1>a, <2>1 DEF Ecritures
<1>4. CASE LireLigne(s)
  <2>1. /\ etape[s] = "lire" /\ ecrites' = ecrites /\ UNCHANGED <<role, ligne>>
        /\ lu'[s] = Vu(s, Head(reste[s]))
        /\ \/ etape'[s] = "ecrire" /\ AEcrire(s, Head(reste[s]))
           \/ etape'[s] \in {"lire", "consulter", "valider"}
    BY <1>4, <1>a DEF TypeOK, LireLigne, base, Suite
  <2>. QED  BY <1>a, <2>1 DEF Ecritures, AEcrire, Insere
<1>5. CASE EcrireLigne(s) /\ ~Liberer(s)
  <2>1. /\ etape[s] = "ecrire" /\ UNCHANGED <<role, ligne>> /\ ~Conflit(s)
        /\ ecrites'[s] = ecrites[s] \cup {Head(reste[s])}
        /\ etape'[s] \in {"lire", "consulter", "valider"}
    BY <1>5, <1>a DEF TypeOK, EcrireLigne, Terminer, base, Suite
  <2>. QED  BY <1>a, <2>1 DEF Ecritures, Conflit, Insere
<1>6. CASE (Consulter(s) \/ CreerOrdre(s)) /\ ~Liberer(s)
  <2>1. /\ etape[s] \in {"consulter", "creer"} /\ etape'[s] \in {"valider", "creer"}
        /\ UNCHANGED <<role, ecrites, ligne>>
    BY <1>6, <1>a DEF TypeOK, Consulter, CreerOrdre, Terminer, local, base
  <2>. QED  BY <1>a, <2>1 DEF Ecritures, Insere
<1>. QED
  BY <1>0, <1>1, <1>2, <1>3, <1>4, <1>5, <1>6
  DEF DeSession, Avancer, Appliquer, Initier, ValiderStatut, ValiderMois, RefusKopar,
      ValiderInitiation, ValiderManuel, Abandonner, Victime, Terminer

\* The two queues of the monthly job.
LEMMA DeuxFiles ==
  ASSUME NEW l, NEW p
  PROVE  /\ Head(<<p>>) = p /\ Tail(<<p>>) = << >>
         /\ Head(<<l, p>>) = l /\ Tail(<<l, p>>) = <<p>> /\ Len(<<l, p>>) > 1
<1>1. Tail(<<p>>) = << >>
  OBVIOUS
<1>2. <<l, p>>[2] = p /\ Len(<<l, p>>) = 2
  OBVIOUS
<1>3. Tail(<<l, p>>) = [i \in 1..1 |-> <<l, p>>[i + 1]]
  BY <1>2
<1>4. Tail(<<l, p>>) = <<p>>
  BY <1>2, <1>3
<1>. QED  BY <1>1, <1>2, <1>4

\* The acting session: the monthly job.
LEMMA LotActeur ==
  ASSUME IInv, NEW s \in Sessions, DeSession(s)
  PROVE  Lot(s)'
<1>a. TypeOK /\ Controle(s) /\ Ecritures(s) /\ Lot(s)
  BY DEF IInv, Types
<1>0. CASE Liberer(s)
  BY <1>0, <1>a, LibererAutres DEF Lot
<1>1. CASE LotDebut(s)
  <2>1. /\ etape[s] = "libre" /\ etape'[s] = "lire" /\ UNCHANGED <<vues, ecrites, ligne>>
        /\ reste'[s] \in {<<Precedent>>} \cup {<<l, Precedent>> : l \in Mois}
    BY <1>1, <1>a DEF TypeOK, LotDebut, base
  <2>2. vues'[s] = {} /\ ecrites'[s] = {}
    BY <1>a, <2>1 DEF Ecritures
  <2>. QED  BY <2>1, <2>2 DEF Lot
<1>2. ASSUME role'[s] # "lot" PROVE Lot(s)'
  BY <1>2 DEF Lot
<1>3. CASE Commencer(s) /\ ~LotDebut(s)
  <2>1. role'[s] # "lot"
    BY <1>3, <1>a DEF TypeOK, Commencer, RecevoirWebhook, RattrapageLister, ManuelDebut,
       InitierDebut, GenererDebut
  <2>. QED  BY <1>2, <2>1
<1>4. CASE (RattrapageInterroger(s) \/ Verrouiller(s) \/ Consulter(s) \/ CreerOrdre(s)) /\ ~Liberer(s)
  <2>1. role'[s] # "lot"
    BY <1>4, <1>a DEF TypeOK, RattrapageInterroger, Verrouiller, Consulter, CreerOrdre,
       Terminer, local, Controle
  <2>. QED  BY <1>2, <2>1
<1>5. CASE LireLigne(s) /\ role[s] = "lot"
  <2>1. /\ etape[s] = "lire" /\ UNCHANGED <<role, ecrites, ligne>>
        /\ lu'[s] = Vu(s, Head(reste[s]))
        /\ vues'[s] = (IF Vu(s, Head(reste[s])) = "payee" THEN vues[s] \cup {Head(reste[s])}
                                                         ELSE vues[s])
        /\ \/ etape'[s] = "ecrire" /\ AEcrire(s, Head(reste[s])) /\ reste'[s] = reste[s]
           \/ etape'[s] \in {"lire", "valider"} /\ reste'[s] = Tail(reste[s])
    BY <1>5, <1>a DEF TypeOK, LireLigne, base, Suite
  <2>2. /\ reste[s] # << >>
        /\ reste[s] = <<Precedent>> \/ \E l \in Mois : reste[s] = <<l, Precedent>>
    BY <1>a, <1>5, <2>1 DEF Lot, Controle
  <2>3. /\ Head(reste[s]) \in Mois
        /\ Tail(reste[s]) \in {<< >>, <<Precedent>>}
    BY <2>2, HypPrecedent, DeuxFiles
  <2>4. Vu(s, Head(reste[s])) = "payee" =>
          Head(reste[s]) \notin ecrites[s] /\ ligne[Head(reste[s])] = "payee"
    BY <1>5 DEF Vu
  <2>5. ASSUME AEcrire(s, Head(reste[s]))
        PROVE  /\ Head(reste[s]) \notin vues'[s]
               /\ Len(reste[s]) > 1 => lu'[s] = "absente"
    <3>1. /\ Vu(s, Head(reste[s])) \in {"absente", "due"}
          /\ Len(reste[s]) > 1 => Vu(s, Head(reste[s])) = "absente"
      BY <1>5, <2>5 DEF AEcrire
    <3>2. Head(reste[s]) \notin vues[s]
      BY <1>a, <1>5, <3>1 DEF Lot, Vu
    <3>. QED  BY <2>1, <3>1, <3>2
  <2>6. /\ vues'[s] \cup ecrites[s] \subseteq Mois
        /\ vues'[s] \cap ecrites[s] = {}
        /\ \A l \in vues'[s] : ligne[l] \in {"payee", "echue"}
    BY <1>a, <1>5, <2>1, <2>3, <2>4 DEF Lot
  <2>7. \A l \in ecrites[s] : l = Precedent \/ ligne[l] = "absente"
    BY <1>a, <1>5 DEF Lot
  <2>8. reste'[s] \in {<< >>, <<Precedent>>} \cup {<<l, Precedent>> : l \in Mois}
    BY <2>1, <2>2, <2>3
  <2>. QED  BY <2>1, <2>5, <2>6, <2>7, <2>8 DEF Lot
<1>6. CASE EcrireLigne(s) /\ ~Liberer(s) /\ role[s] = "lot"
  <2>1. /\ etape[s] = "ecrire" /\ UNCHANGED <<role, vues, ligne, lu>> /\ ~Conflit(s)
        /\ ecrites'[s] = ecrites[s] \cup {Head(reste[s])}
        /\ reste'[s] = Tail(reste[s])
        /\ etape'[s] \in {"lire", "valider"}
    BY <1>6, <1>a DEF TypeOK, EcrireLigne, Terminer, base, Suite
  <2>2. \/ reste[s] = <<Precedent>>
        \/ \E l \in Mois : reste[s] = <<l, Precedent>> /\ Len(reste[s]) > 1
    BY <1>a, <1>6, <2>1 DEF Lot, Controle
  <2>3. /\ Head(reste[s]) \in Mois
        /\ Tail(reste[s]) \in {<< >>, <<Precedent>>}
        /\ Head(reste[s]) = Precedent \/ Len(reste[s]) > 1
    BY <2>2, HypPrecedent, DeuxFiles
  <2>4. Len(reste[s]) > 1 => ligne[Head(reste[s])] = "absente"
    BY <1>a, <1>6, <2>1 DEF Lot, Conflit
  <2>5. Head(reste[s]) \notin vues[s]
    BY <1>a, <1>6, <2>1 DEF Lot
  <2>. QED  BY <1>a, <1>6, <2>1, <2>3, <2>4, <2>5 DEF Lot
<1>7. CASE (LireLigne(s) \/ EcrireLigne(s)) /\ ~Liberer(s) /\ role[s] # "lot"
  <2>1. role' = role
    BY <1>7 DEF LireLigne, EcrireLigne, Terminer
  <2>. QED  BY <1>2, <1>7, <2>1
<1>. QED
  BY <1>0, <1>1, <1>3, <1>4, <1>5, <1>6, <1>7
  DEF DeSession, Avancer, Appliquer, Initier, ValiderStatut, ValiderMois, RefusKopar,
      ValiderInitiation, ValiderManuel, Abandonner, Victime, Terminer

\* The acting session: the status it applies and the rows still to visit.
LEMMA ApplicationActeur ==
  ASSUME IInv, NEW s \in Sessions, DeSession(s)
  PROVE  Application(s)'
<1>a. TypeOK /\ Controle(s) /\ Ecritures(s) /\ Application(s)
  BY DEF IInv, Types
<1>0. CASE Liberer(s)
  BY <1>0, <1>a, LibererAutres DEF Application
<1>1. CASE Commencer(s)
  <2>1. \/ etape'[s] \in {"verrou", "interroger"}
        \/ role'[s] \in {"manuel", "initier", "generer", "lot"}
    BY <1>1, <1>a DEF TypeOK, Commencer, RecevoirWebhook, RattrapageLister, ManuelDebut,
       InitierDebut, GenererDebut, LotDebut
  <2>. QED  BY <2>1 DEF Application
<1>2. CASE RattrapageInterroger(s) /\ ~Liberer(s)
  <2>1. etape'[s] = "verrou"
    BY <1>2, <1>a DEF TypeOK, RattrapageInterroger, Terminer
  <2>. QED  BY <2>1 DEF Application
<1>3. CASE Verrouiller(s) /\ ~Liberer(s)
  <2>1. /\ etape[s] = "verrou" /\ UNCHANGED <<cible, nouveau, ecrites, tx, refDe, ligne>>
        /\ ~Ignore(tx[cible[s]], nouveau[s])
        /\ \/ etape'[s] = "valider" /\ nouveau[s] # "success"
           \/ /\ etape'[s] = "lire" /\ nouveau[s] = "success"
              /\ reste'[s] = Couvre[refDe[cible[s]]]
    BY <1>3, <1>a DEF TypeOK, Verrouiller, Terminer, local, base
  <2>2. ecrites[s] = {}
    BY <1>a, <2>1 DEF Ecritures
  <2>4. refDe[cible[s]] # Aucun
    BY <1>a, <2>1 DEF Controle, IInv, Types, Creee
  <2>5. LignesDe(cible[s]) = Elements(Couvre[refDe[cible[s]]])
    BY <2>4 DEF LignesDe
  <2>6. LignesDe(cible[s])' = LignesDe(cible[s])
    BY <2>1 DEF LignesDe
  <2>. QED  BY <2>1, <2>2, <2>5, <2>6 DEF Application, Ignore, Elements
<1>4. CASE LireLigne(s)
  <2>1. /\ etape[s] = "lire"
        /\ UNCHANGED <<role, cible, nouveau, ecrites, tx, refDe, ligne, annulees>>
        /\ \/ etape'[s] = "ecrire" /\ reste'[s] = reste[s]
           \/ /\ etape'[s] = Suite(s, Tail(reste[s])) /\ reste'[s] = Tail(reste[s])
              /\ ~AEcrire(s, Head(reste[s]))
    BY <1>4, <1>a DEF TypeOK, LireLigne, base
  <2>2. reste[s] \in Seq(Lignes) /\ reste[s] # << >>
    BY <1>a, <2>1 DEF TypeOK, Controle
  <2>3. /\ Elements(reste[s]) = {Head(reste[s])} \cup Elements(Tail(reste[s]))
        /\ Head(reste[s]) \in Lignes
    BY <2>2, TeteEtReste
  <2>4. LignesDe(cible[s])' = LignesDe(cible[s]) /\ \A l : Acquis(l)' <=> Acquis(l)
    BY <2>1 DEF LignesDe, Acquis
  <2>5. CASE role[s] = "appliquer" /\ reste'[s] = reste[s] /\ etape'[s] = "ecrire"
    BY <1>a, <2>1, <2>4, <2>5 DEF Application, Ignore, Elements
  <2>6. CASE role[s] = "appliquer" /\ reste'[s] = Tail(reste[s])
             /\ ~AEcrire(s, Head(reste[s])) /\ etape'[s] = Suite(s, Tail(reste[s]))
    <3>1. Acquis(Head(reste[s]))
      BY <2>3, <2>6 DEF AEcrire, Acquis, Vu
    <3>2. Elements(reste[s])' = Elements(Tail(reste[s]))
      BY <2>6 DEF Elements
    <3>3. nouveau[s] = "success" /\ (etape'[s] = "valider" => reste'[s] = << >>)
      BY <1>a, <2>1, <2>6 DEF Application, Suite
    <3>. QED
      BY <1>a, <2>1, <2>3, <2>4, <2>6, <3>1, <3>2, <3>3 DEF Application, Ignore
  <2>7. CASE role[s] # "appliquer"
    BY <2>1, <2>7 DEF Application
  <2>. QED  BY <2>1, <2>5, <2>6, <2>7
<1>5. CASE EcrireLigne(s) /\ ~Liberer(s)
  <2>1. /\ etape[s] = "ecrire"
        /\ UNCHANGED <<role, cible, nouveau, tx, refDe, ligne, annulees>>
        /\ etape'[s] = Suite(s, Tail(reste[s])) /\ reste'[s] = Tail(reste[s])
        /\ ecrites'[s] = ecrites[s] \cup {Head(reste[s])}
    BY <1>5, <1>a DEF TypeOK, EcrireLigne, base, Terminer
  <2>2. reste[s] \in Seq(Lignes) /\ reste[s] # << >>
    BY <1>a, <2>1 DEF TypeOK, Controle
  <2>3. Elements(reste[s]) = {Head(reste[s])} \cup Elements(Tail(reste[s]))
    BY <2>2, TeteEtReste
  <2>4. LignesDe(cible[s])' = LignesDe(cible[s]) /\ (\A l : Acquis(l)' <=> Acquis(l))
        /\ Elements(reste[s])' = Elements(Tail(reste[s]))
    BY <2>1 DEF LignesDe, Acquis, Elements
  <2>5. CASE role[s] = "appliquer"
    <3>1. nouveau[s] = "success" /\ (etape'[s] = "valider" => reste'[s] = << >>)
      BY <1>a, <2>1, <2>5 DEF Application, Suite
    <3>. QED
      BY <1>a, <2>1, <2>3, <2>4, <2>5, <3>1 DEF Application, Ignore
  <2>6. CASE role[s] # "appliquer"
    BY <2>1, <2>6 DEF Application
  <2>. QED  BY <2>5, <2>6
<1>6. CASE (Consulter(s) \/ CreerOrdre(s)) /\ ~Liberer(s)
  <2>1. role'[s] = "initier"
    BY <1>6, <1>a DEF TypeOK, Consulter, CreerOrdre, Terminer, local, Controle
  <2>. QED  BY <2>1 DEF Application
<1>. QED
  BY <1>0, <1>1, <1>2, <1>3, <1>4, <1>5, <1>6
  DEF DeSession, Avancer, Appliquer, Initier, ValiderStatut, ValiderMois, RefusKopar,
      ValiderInitiation, ValiderManuel, Abandonner, Victime, Terminer

\* The acting session: the order it created.
LEMMA NouvelleActeur ==
  ASSUME IInv, NEW s \in Sessions, DeSession(s)
  PROVE  Nouvelle(s)'
<1>. USE HypOrdres, HypAucun
<1>a. TypeOK /\ Controle(s) /\ Nouvelle(s) /\ \A o \in Ordres : Creee(o)
  BY DEF IInv, Types
<1>0. CASE Liberer(s)
  BY <1>0, <1>a, LibererAutres DEF Nouvelle
<1>1. CASE Commencer(s)
  <2>1. role'[s] # "initier" \/ cible'[s] = Aucun
    BY <1>1, <1>a DEF TypeOK, Commencer, RecevoirWebhook, RattrapageLister, ManuelDebut,
       InitierDebut, GenererDebut, LotDebut, Controle
  <2>. QED  BY <2>1 DEF Nouvelle
<1>2. CASE CreerOrdre(s)
  <2>1. PICK o \in Ordres : kopar[o] = Aucun /\ cible'[s] = o /\ tx' = tx
    BY <1>2, <1>a DEF TypeOK, CreerOrdre
  <2>2. tx[o] = Aucun
    BY <1>a, <2>1 DEF Creee
  <2>. QED  BY <2>1, <2>2 DEF Nouvelle
<1>4. CASE UNCHANGED <<role, cible, tx>>
  BY <1>a, <1>4 DEF Nouvelle
<1>5. ASSUME ~Liberer(s), Avancer(s), ~CreerOrdre(s)
      PROVE  UNCHANGED <<role, cible, tx>>
  BY <1>5 DEF Avancer, Appliquer, Initier, RattrapageInterroger, Verrouiller,
     ValiderStatut, ValiderMois, LireLigne, EcrireLigne, Consulter, RefusKopar, ValiderManuel,
     ValiderInitiation, Terminer, base, local
<1>. QED
  BY <1>0, <1>1, <1>2, <1>4, <1>5 DEF DeSession, Abandonner, Victime, Terminer

\* What the acting session takes from the others: a row when nobody holds it, a
\* transaction when nobody holds it, an order when nobody knows it.
LEMMA PrisesActeur ==
  ASSUME IInv, NEW s \in Sessions, DeSession(s), NEW t \in Sessions, t # s
  PROVE  /\ ecrites'[s] \cap ecrites[t] = {}
         /\ \A o \in Ordres : VerrouTx(s, o)' => ~VerrouTx(t, o)
         /\ role'[s] = "initier" /\ role[t] = "initier" /\ cible'[s] = cible[t] =>
              cible'[s] = Aucun
<1>. USE HypOrdres, HypAucun
<1>a. /\ TypeOK /\ Controle(s) /\ Controle(t) /\ Exclusion(s, t)
      /\ \A o \in Ordres : Creee(o)
  BY DEF IInv, Types
<1>0. CASE Liberer(s)
  BY <1>0, <1>a, LibererAutres DEF VerrouTx
<1>1. CASE Commencer(s)
  <2>1. /\ ecrites'[s] = ecrites[s] /\ (role'[s] # "initier" \/ cible'[s] = Aucun)
        /\ \/ etape'[s] \in {"verrou", "interroger"}
           \/ role'[s] \in {"manuel", "initier", "generer", "lot"}
    BY <1>1, <1>a DEF TypeOK, Commencer, RecevoirWebhook, RattrapageLister, ManuelDebut,
       InitierDebut, GenererDebut, LotDebut, Controle
  <2>. QED  BY <1>a, <2>1 DEF Exclusion, VerrouTx
<1>2. CASE Verrouiller(s) /\ ~Liberer(s)
  <2>1. /\ etape[s] = "verrou" /\ UNCHANGED <<role, cible, ecrites>>
        /\ ~VerrouTx(t, cible[s]) /\ role[s] = "appliquer"
    BY <1>2, <1>a DEF TypeOK, Verrouiller, Terminer, local, Controle
  <2>. QED  BY <1>a, <2>1 DEF Exclusion, VerrouTx
<1>3. CASE EcrireLigne(s) /\ ~Liberer(s)
  <2>1. /\ ecrites'[s] = ecrites[s] \cup {Head(reste[s])}
        /\ Head(reste[s]) \notin ecrites[t]
        /\ UNCHANGED <<role, cible>> /\ etape[s] = "ecrire"
    BY <1>3, <1>a DEF TypeOK, EcrireLigne, Terminer
  <2>. QED  BY <1>a, <2>1 DEF Exclusion, VerrouTx
<1>4. CASE CreerOrdre(s)
  <2>1. PICK o \in Ordres : kopar[o] = Aucun /\ cible'[s] = o
    BY <1>4, <1>a DEF TypeOK, CreerOrdre
  <2>2. ecrites' = ecrites /\ role' = role /\ role[s] = "initier"
    BY <1>4, <1>a DEF CreerOrdre, Controle
  <2>3. refDe[o] = Aucun
    BY <1>a, <2>1 DEF Creee
  <2>. QED  BY <1>a, <2>1, <2>2, <2>3 DEF Exclusion, VerrouTx, Controle
<1>6. CASE (RattrapageInterroger(s) \/ LireLigne(s) \/ Consulter(s)) /\ ~Liberer(s)
  <2>1. /\ UNCHANGED <<role, cible, ecrites>>
        /\ etape[s] = "lire" \/ (role[s] = "appliquer" /\ etape'[s] = "verrou")
                             \/ role[s] = "initier"
    BY <1>6, <1>a DEF TypeOK, RattrapageInterroger, LireLigne, Consulter, Terminer, local,
       Controle
  <2>. QED  BY <1>a, <2>1 DEF Exclusion, VerrouTx
<1>. QED
  BY <1>0, <1>1, <1>2, <1>3, <1>4, <1>6
  DEF DeSession, Avancer, Appliquer, Initier, ValiderStatut, ValiderMois, RefusKopar,
      ValiderInitiation, ValiderManuel, Abandonner, Victime, Terminer

(***************************************************************************)
(* The other sessions                                                      *)
(***************************************************************************)
\* The four statements above survive the steps of everybody else.
LEMMA SessionsSuivantes ==
  ASSUME IInv, Next, NEW s \in Sessions
  PROVE  Ecritures(s)' /\ Lot(s)' /\ Application(s)' /\ Nouvelle(s)'
<1>. USE HypAucun
<1>a. /\ TypeOK /\ Controle(s) /\ Ecritures(s) /\ Lot(s) /\ Application(s) /\ Nouvelle(s)
      /\ \A o \in Ordres : Creee(o)
      /\ Croissance
  BY CroissanceSuivante DEF IInv, Types
<1>1. ASSUME DeSession(s) PROVE Ecritures(s)' /\ Lot(s)' /\ Application(s)' /\ Nouvelle(s)'
  BY <1>1, EcrituresActeur, LotActeur, ApplicationActeur, NouvelleActeur
<1>b. ASSUME /\ etape'[s] = etape[s] /\ role'[s] = role[s] /\ cible'[s] = cible[s]
             /\ nouveau'[s] = nouveau[s] /\ reste'[s] = reste[s]
             /\ ecrites'[s] = ecrites[s] /\ lu'[s] = lu[s] /\ vues'[s] = vues[s],
             \A l \in ecrites[s] : ligne'[l] = ligne[l],
             \A o \in Ordres : VerrouTx(s, o) => tx'[o] = tx[o],
             role[s] = "initier" /\ cible[s] # Aucun => tx'[cible[s]] = tx[cible[s]]
      PROVE  Ecritures(s)' /\ Lot(s)' /\ Application(s)' /\ Nouvelle(s)'
  <2>1. Ecritures(s)'
    BY <1>a, <1>b DEF Ecritures, Insere
  <2>2. Nouvelle(s)'
    BY <1>a, <1>b DEF Nouvelle
  <2>3. Application(s)'
    <3>. SUFFICES ASSUME role[s] = "appliquer", etape[s] \in {"lire", "ecrire", "valider"}
                  PROVE  Application(s)'
      BY <1>b DEF Application
    <3>1. cible[s] \in Ordres /\ tx'[cible[s]] = tx[cible[s]]
      BY <1>a, <1>b DEF Controle, VerrouTx
    <3>2. refDe'[cible[s]] = refDe[cible[s]]
      BY <1>a, <3>1 DEF Controle, Creee, Croissance
    <3>3. LignesDe(cible[s])' = LignesDe(cible[s]) /\ Elements(reste[s])' = Elements(reste[s])
      BY <1>b, <3>2 DEF LignesDe, Elements
    <3>4. LignesDe(cible[s]) \subseteq Lignes
      BY <1>a, <3>1, ReferencesCouvertes DEF LignesDe, Elements, TypeOK
    <3>5. \A l \in LignesDe(cible[s]) : Acquis(l) => Acquis(l)'
      BY <3>4, AcquisConserve
    <3>. QED  BY <1>a, <1>b, <3>1, <3>3, <3>5 DEF Application, Ignore
  <2>4. Lot(s)'
    <3>. SUFFICES ASSUME role[s] = "lot" PROVE Lot(s)'
      BY <1>b DEF Lot
    <3>1. ASSUME NEW l \in vues[s] PROVE ligne'[l] \in {"payee", "echue"}
      <4>1. l \in Mois /\ l \in Lignes /\ ligne[l] \in {"payee", "echue"}
        BY <1>a, <3>1 DEF Lot, TypeOK
      <4>. QED  BY <4>1, LignesSuivantes
    <3>. QED  BY <1>a, <1>b, <3>1 DEF Lot
  <2>. QED  BY <2>1, <2>2, <2>3, <2>4
<1>2. ASSUME NEW t \in Sessions, t # s, DeSession(t)
      PROVE  Ecritures(s)' /\ Lot(s)' /\ Application(s)' /\ Nouvelle(s)'
  <2>1. /\ etape'[s] = etape[s] /\ role'[s] = role[s] /\ cible'[s] = cible[s]
        /\ nouveau'[s] = nouveau[s] /\ reste'[s] = reste[s]
        /\ ecrites'[s] = ecrites[s] /\ lu'[s] = lu[s] /\ vues'[s] = vues[s]
    BY <1>a, <1>2, SessionAutres DEF AutresInchangees
  <2>2. ASSUME NEW l \in ecrites[s] PROVE ligne'[l] = ligne[l]
    <3>1. l \in Lignes
      BY <1>a DEF TypeOK
    <3>2. l \notin ecrites[t]
      BY <1>2 DEF IInv, Exclusion
    <3>. QED  BY <1>2, <3>1, <3>2, EffetLigne DEF IInv
  <2>3. \A o \in Ordres : VerrouTx(s, o) => tx'[o] = tx[o]
    BY <1>2, TxVerrouillee
  <2>4. ASSUME role[s] = "initier", cible[s] # Aucun, tx'[cible[s]] # tx[cible[s]]
        PROVE  FALSE
    <3>1. cible[s] \in Ordres /\ tx[cible[s]] = Aucun
      BY <1>a, <2>4 DEF TypeOK, Nouvelle
    <3>2. cible[t] = cible[s] /\ etape[t] = "valider" /\ role[t] \in {"appliquer", "initier"}
      BY <1>2, <2>4, <3>1, EffetTx DEF IInv
    <3>3. CASE role[t] = "appliquer"
      BY <3>1, <3>2, <3>3 DEF IInv, Types, Controle
    <3>4. CASE role[t] = "initier"
      BY <1>2, <2>4, <3>2, <3>4 DEF IInv, Exclusion
    <3>. QED  BY <3>2, <3>3, <3>4
  <2>. QED  BY <1>b, <2>1, <2>2, <2>3, <2>4
<1>3. ASSUME UNCHANGED <<tx, refDe, etape, local>>,
             UNCHANGED ligne \/ \E a \in Lignes : ConfirmerPaiement(a)
      PROVE  Ecritures(s)' /\ Lot(s)' /\ Application(s)' /\ Nouvelle(s)'
  <2>1. /\ etape'[s] = etape[s] /\ role'[s] = role[s] /\ cible'[s] = cible[s]
        /\ nouveau'[s] = nouveau[s] /\ reste'[s] = reste[s]
        /\ ecrites'[s] = ecrites[s] /\ lu'[s] = lu[s] /\ vues'[s] = vues[s]
    BY <1>3 DEF local
  <2>2. ASSUME NEW l \in ecrites[s] PROVE ligne'[l] = ligne[l]
    <3>1. l \in Lignes
      BY <1>a DEF TypeOK
    <3>2. ASSUME NEW a \in Lignes, ConfirmerPaiement(a) PROVE ligne'[l] = ligne[l]
      BY <1>a, <3>1, <3>2, EffetConfirmation
    <3>. QED  BY <1>3, <3>2
  <2>. QED  BY <1>b, <1>3, <2>1, <2>2
<1>4. CASE UNCHANGED <<tx, refDe, etape, local>> /\ (UNCHANGED ligne \/ \E a \in Lignes : ConfirmerPaiement(a))
  BY <1>3, <1>4
<1>5. CASE \E t \in Sessions : DeSession(t)
  BY <1>1, <1>2, <1>5
<1>. QED
  BY <1>4, <1>5, EffetExterne

\* Two sessions never hold the same row, transaction or new order.
LEMMA ExclusionSuivante ==
  ASSUME IInv, Next, NEW s \in Sessions, NEW t \in Sessions, s # t
  PROVE  Exclusion(s, t)'
<1>a. TypeOK /\ Exclusion(s, t)
  BY DEF IInv, Types
<1>1. ASSUME DeSession(s) PROVE Exclusion(s, t)'
  <2>1. etape'[t] = etape[t] /\ role'[t] = role[t] /\ cible'[t] = cible[t]
        /\ ecrites'[t] = ecrites[t]
    BY <1>1, <1>a, SessionAutres DEF AutresInchangees
  <2>. QED  BY <1>1, <2>1, PrisesActeur DEF Exclusion, VerrouTx
<1>2. ASSUME DeSession(t) PROVE Exclusion(s, t)'
  <2>1. etape'[s] = etape[s] /\ role'[s] = role[s] /\ cible'[s] = cible[s]
        /\ ecrites'[s] = ecrites[s]
    BY <1>2, <1>a, SessionAutres DEF AutresInchangees
  <2>. QED  BY <1>2, <2>1, PrisesActeur DEF Exclusion, VerrouTx
<1>3. ASSUME etape'[s] = etape[s] /\ role'[s] = role[s] /\ cible'[s] = cible[s]
             /\ ecrites'[s] = ecrites[s],
             etape'[t] = etape[t] /\ role'[t] = role[t] /\ cible'[t] = cible[t]
             /\ ecrites'[t] = ecrites[t]
      PROVE  Exclusion(s, t)'
  BY <1>3, <1>a DEF Exclusion, VerrouTx
<1>4. ASSUME NEW u \in Sessions, DeSession(u), u # s, u # t PROVE Exclusion(s, t)'
  BY <1>3, <1>4, <1>a, SessionAutres DEF AutresInchangees
<1>5. ASSUME UNCHANGED <<etape, local>> PROVE Exclusion(s, t)'
  BY <1>3, <1>5 DEF local
<1>. QED
  BY <1>1, <1>2, <1>4, <1>5, EffetExterne

(***************************************************************************)
(* Statuses, receipts and emails                                           *)
(***************************************************************************)
\* The rows of an order are known from its creation on.
LEMMA LignesFixes ==
  ASSUME IInv, Next, NEW o \in Ordres
  PROVE  /\ LignesDe(o) \subseteq Lignes
         /\ refDe[o] # Aucun => LignesDe(o)' = LignesDe(o)
<1>1. refDe[o] # Aucun => refDe'[o] = refDe[o]
  BY CroissanceSuivante DEF IInv, Croissance
<1>2. LignesDe(o) \subseteq Lignes
  BY ReferencesCouvertes DEF LignesDe, Elements, IInv, Types, TypeOK
<1>. QED  BY <1>1, <1>2 DEF LignesDe

\* The commit of a success settles every row the transaction covers.
LEMMA ValidationRegle ==
  ASSUME IInv, Next, NEW s \in Sessions, ValiderStatut(s), nouveau[s] = "success",
         NEW o \in Ordres, cible[s] = o
  PROVE  Soldee(o)'
<1>1. TypeOK /\ Controle(s) /\ Application(s)
  BY DEF IInv, Types
<1>2. /\ etape[s] = "valider" /\ role[s] = "appliquer"
      /\ \A l \in Lignes : l \in ecrites[s] => ligne'[l] = "payee"
      /\ refDe' = refDe
  BY DEF ValiderStatut, LignesValidees, Pose
<1>3. \A l \in LignesDe(o) : l \in ecrites[s] \/ Acquis(l)
  BY <1>1, <1>2 DEF Application, Elements
<1>4. LignesDe(o)' = LignesDe(o)
  BY <1>2 DEF LignesDe
<1>5. LignesDe(o) \subseteq Lignes
  BY LignesFixes
<1>6. \A l \in LignesDe(o) : Acquis(l)'
  BY <1>2, <1>3, <1>5, AcquisConserve DEF Acquis
<1>. QED  BY <1>4, <1>6 DEF Soldee, Acquis

\* SuccesRegle is preserved by every step.
LEMMA SuccesRegleSuivant ==
  ASSUME IInv, Next
  PROVE  SuccesRegle'
<1>. SUFFICES ASSUME NEW o \in Ordres, tx'[o] = "success" PROVE Soldee(o)'
  BY DEF SuccesRegle
<1>1. CASE tx'[o] = tx[o]
  <2>1. refDe[o] # Aucun
    BY <1>1, HypAucun DEF IInv, Types, Creee, StatutsKopar, Statuts
  <2>2. \A l \in LignesDe(o) : Acquis(l)
    BY <1>1 DEF IInv, SuccesRegle, Soldee, Acquis
  <2>3. \A l \in LignesDe(o) : Acquis(l)'
    BY <2>2, LignesFixes, AcquisConserve
  <2>4. LignesDe(o)' = LignesDe(o)
    BY <2>1, LignesFixes
  <2>. QED  BY <2>3, <2>4 DEF Soldee, Acquis
<1>2. ASSUME NEW s \in Sessions, DeSession(s), tx'[o] # tx[o] PROVE Soldee(o)'
  <2>1. cible[s] = o /\ ValiderStatut(s) /\ nouveau[s] = "success"
    BY <1>2, EffetTx DEF IInv
  <2>. QED  BY <2>1, ValidationRegle
<1>. QED  BY <1>1, <1>2, EffetExterne

\* A final status is left only for the ones the early returns let through.
LEMMA FinalSuivant ==
  ASSUME IInv, Next, NEW o \in Ordres
  PROVE  /\ tx[o] \in Finaux  => tx'[o] \in Finaux
         /\ tx[o] = "success" => tx'[o] \in {"success", "refunded"}
<1>1. ASSUME NEW s \in Sessions, DeSession(s), tx'[o] # tx[o], tx[o] \in Finaux
      PROVE  tx'[o] \in Finaux /\ (tx[o] = "success" => tx'[o] \in {"success", "refunded"})
  <2>1. /\ cible[s] = o /\ etape[s] = "valider"
        /\ \/ role[s] = "appliquer" /\ tx'[o] = nouveau[s]
           \/ role[s] = "initier"
    BY <1>1, EffetTx DEF IInv
  <2>2. role[s] # "initier"
    BY <1>1, <2>1, HypAucun, HypOrdres
    DEF IInv, Nouvelle, Finaux, StatutsKopar, Statuts
  <2>3. ~Ignore(tx[o], nouveau[s]) /\ nouveau[s] \in Statuts
    BY <2>1, <2>2 DEF IInv, Application, Types, TypeOK
  <2>. QED  BY <1>1, <2>1, <2>2, <2>3 DEF Ignore, Finaux, EnCours, Statuts
<1>. QED  BY <1>1, EffetExterne DEF Finaux

\* ReferenceJustifiee is preserved by every step.
LEMMA ReferenceSuivante ==
  ASSUME IInv, Next
  PROVE  ReferenceJustifiee'
<1>. SUFFICES ASSUME NEW l \in Lignes, NEW o \in Ordres, reference'[l] = o
              PROVE  Acquis(l)' /\ tx'[o] \in Finaux /\ l \in LignesDe(o)'
  BY DEF ReferenceJustifiee, Acquis
<1>1. CASE reference[l] = o
  <2>1. Acquis(l) /\ tx[o] \in Finaux /\ l \in LignesDe(o)
    BY <1>1 DEF IInv, ReferenceJustifiee, Acquis
  <2>2. refDe'[o] = refDe[o]
    BY <2>1, CroissanceSuivante DEF LignesDe, IInv, Croissance
  <2>. QED  BY <2>1, <2>2, AcquisConserve, FinalSuivant DEF LignesDe
<1>2. ASSUME NEW s \in Sessions, DeSession(s), reference[l] # o
      PROVE  Acquis(l)' /\ tx'[o] \in Finaux /\ l \in LignesDe(o)'
  <2>1. ValiderStatut(s) /\ cible[s] = o /\ l \in ecrites[s] /\ ligne'[l] = "payee"
    BY <1>2, EffetReference DEF IInv
  <2>2. etape[s] = "valider" /\ role[s] = "appliquer" /\ refDe' = refDe
    BY <2>1 DEF ValiderStatut
  <2>3. nouveau[s] = "success" /\ l \in LignesDe(o)
    BY <2>1, <2>2 DEF IInv, Application
  <2>4. tx'[o] = "success"
    BY <2>1, <2>3 DEF ValiderStatut, IInv, Types, TypeOK
  <2>. QED  BY <2>1, <2>2, <2>3, <2>4 DEF LignesDe, Finaux, Acquis
<1>3. ASSUME NEW a \in Lignes, ConfirmerPaiement(a) PROVE reference'[l] = reference[l]
  <2>1. TypeOK
    BY DEF IInv, Types
  <2>. QED  BY <1>3, <2>1, EffetConfirmation, HypOrdres
<1>. QED  BY <1>1, <1>2, <1>3, EffetExterne

\* A handler that holds a transaction whose rows are all paid flushes nothing.
LEMMA RienAEcrire ==
  ASSUME IInv, NEW s \in Sessions, DeSession(s), NEW o \in Ordres, Reglee(o),
         VerrouTx(s, o) => ecrites[s] = {} /\ etape[s] # "ecrire", VerrouTx(s, o)'
  PROVE  ecrites'[s] = {} /\ etape'[s] # "ecrire"
<1>. USE HypOrdres
<1>a. TypeOK /\ Controle(s) /\ Ecritures(s) /\ Application(s)
  BY DEF IInv, Types
<1>0. CASE Liberer(s)
  BY <1>0, <1>a, LibererAutres DEF VerrouTx
<1>1. CASE Commencer(s)
  <2>1. \/ etape'[s] \in {"verrou", "interroger"}
        \/ role'[s] \in {"manuel", "initier", "generer", "lot"}
    BY <1>1, <1>a DEF TypeOK, Commencer, RecevoirWebhook, RattrapageLister, ManuelDebut,
       InitierDebut, GenererDebut, LotDebut
  <2>. QED  BY <2>1 DEF VerrouTx
<1>2. CASE Verrouiller(s) /\ ~Liberer(s)
  <2>1. etape[s] = "verrou" /\ ecrites' = ecrites /\ etape'[s] \in {"lire", "valider"}
    BY <1>2, <1>a DEF TypeOK, Verrouiller, Terminer, local
  <2>. QED  BY <1>a, <2>1 DEF Ecritures
<1>3. CASE LireLigne(s)
  <2>1. /\ etape[s] = "lire" /\ UNCHANGED <<role, cible, ecrites>>
        /\ etape'[s] # "ecrire" \/ AEcrire(s, Head(reste[s]))
    BY <1>3, <1>a DEF TypeOK, LireLigne, Suite
  <2>2. VerrouTx(s, o) /\ role[s] = "appliquer" /\ cible[s] = o
    BY <2>1 DEF VerrouTx
  <2>3. Head(reste[s]) \in Elements(reste[s])
    BY <1>a, <2>1, TeteEtReste DEF TypeOK, Controle
  <2>4. Head(reste[s]) \in LignesDe(o)
    BY <1>a, <2>1, <2>2, <2>3 DEF Application
  <2>. QED  BY <2>1, <2>2, <2>4 DEF AEcrire, Reglee, Vu
<1>4. CASE EcrireLigne(s) /\ ~Liberer(s)
  BY <1>4 DEF EcrireLigne, Terminer, VerrouTx
<1>5. CASE RattrapageInterroger(s) /\ ~Liberer(s)
  BY <1>5, <1>a DEF TypeOK, RattrapageInterroger, Terminer, VerrouTx
<1>6. CASE (Consulter(s) \/ CreerOrdre(s)) /\ ~Liberer(s)
  BY <1>6, <1>a DEF TypeOK, Consulter, CreerOrdre, Terminer, local, VerrouTx, Controle
<1>. QED
  BY <1>0, <1>1, <1>2, <1>3, <1>4, <1>5, <1>6
  DEF DeSession, Avancer, Appliquer, Initier, ValiderStatut, ValiderMois, RefusKopar,
      ValiderInitiation, ValiderManuel, Abandonner, Victime, Terminer

\* The rows of a confirmed order stay paid, or its confirmation is forgotten.
LEMMA ReglementConserve ==
  ASSUME IInv, Next, NEW o \in Ordres, refDe[o] # Aucun, Reglee(o), courriels'[o] # 0
  PROVE  refDe'[o] # Aucun /\ Reglee(o)'
<1>1. LignesDe(o) \subseteq Lignes /\ LignesDe(o)' = LignesDe(o)
  BY LignesFixes
<1>2. refDe'[o] # Aucun
  BY CroissanceSuivante DEF IInv, Croissance
<1>. QED  BY <1>1, <1>2, LignesSuivantes DEF Reglee

\* Only the commit of its own success confirms an order: its rows are all paid
\* then, and nobody else holds it.
LEMMA EffetCourriel ==
  ASSUME IInv, NEW s \in Sessions, DeSession(s), NEW o \in Ordres,
         courriels'[o] # courriels[o], courriels'[o] # 0
  PROVE  /\ courriels[o] = 0 /\ courriels'[o] = 1
         /\ refDe'[o] # Aucun /\ Reglee(o)' /\ Liberer(s) /\ VerrouTx(s, o)
<1>a. TypeOK /\ Types /\ Envoi(o) /\ Controle(s) /\ Application(s)
  BY DEF IInv, Types
<1>1. Validation(s)
  BY EffetValidation
<1>2. /\ etape[s] = "valider" /\ Liberer(s) /\ refDe' = refDe
      /\ role[s] = "initier" => UNCHANGED courriels
      /\ role[s] \in {"generer", "lot"} =>
           Defaire({l \in ecrites[s] : ligne[l] = "payee"})
      /\ role[s] = "appliquer" => ValiderStatut(s)
      /\ role[s] = "manuel" => ValiderManuel(s)
  BY <1>a, <1>1, Validee
<1>3. role[s] \notin {"initier", "generer", "lot"}
  BY <1>2 DEF Defaire
<1>4. role[s] # "manuel"
  BY <1>2 DEF ValiderManuel
<1>5. ValiderStatut(s) /\ role[s] = "appliquer"
  BY <1>a, <1>2, <1>3, <1>4 DEF TypeOK, Roles
<1>6. /\ cible[s] = o /\ ecrites[s] # {}
      /\ \A l \in LignesDe(o) : ligne'[l] = "payee"
      /\ courriels'[o] = courriels[o] + 1
  BY <1>a, <1>5 DEF ValiderStatut, TypeOK
<1>7. VerrouTx(s, o)
  BY <1>2, <1>5, <1>6 DEF VerrouTx
<1>8. courriels[o] = 0
  BY <1>a, <1>6, <1>7 DEF Envoi
<1>9. refDe[o] # Aucun
  BY <1>a, <1>2, <1>5, <1>6 DEF Controle, Types, Creee
<1>10. LignesDe(o)' = LignesDe(o)
  BY <1>2 DEF LignesDe
<1>. QED  BY <1>2, <1>6, <1>7, <1>8, <1>9, <1>10 DEF Reglee

\* The bookkeeping of emails is preserved by every step.
LEMMA EnvoiSuivant ==
  ASSUME IInv, Next, NEW o \in Ordres
  PROVE  Envoi(o)'
<1>. USE HypAucun
<1>a. TypeOK /\ Envoi(o)
  BY DEF IInv, Types
<1>b. courriels'[o] = courriels[o] /\ courriels[o] # 0 => refDe'[o] # Aucun /\ Reglee(o)'
  BY <1>a, ReglementConserve DEF Envoi
<1>c. ASSUME courriels'[o] = 0 PROVE Envoi(o)'
  BY <1>c DEF Envoi
<1>1. ASSUME NEW s \in Sessions, DeSession(s) PROVE Envoi(o)'
  <2>1. \A t \in Sessions \ {s} :
          /\ VerrouTx(t, o)' = VerrouTx(t, o)
          /\ ecrites'[t] = ecrites[t] /\ etape'[t] = etape[t]
    BY <1>1, <1>a, SessionAutres DEF AutresInchangees, VerrouTx
  <2>2. CASE courriels'[o] # courriels[o] /\ courriels'[o] # 0
    <3>1. /\ courriels'[o] = 1 /\ refDe'[o] # Aucun /\ Reglee(o)'
          /\ Liberer(s) /\ VerrouTx(s, o)
      BY <1>1, <2>2, EffetCourriel
    <3>2. ~VerrouTx(s, o)'
      BY <1>a, <3>1, LibererAutres DEF VerrouTx
    <3>3. \A t \in Sessions \ {s} : ~VerrouTx(t, o)
      BY <3>1 DEF IInv, Exclusion
    <3>. QED  BY <2>1, <3>1, <3>2, <3>3 DEF Envoi
  <2>3. CASE courriels'[o] = courriels[o] /\ courriels[o] # 0
    <3>1. Reglee(o) /\ courriels'[o] <= 1
      BY <1>a, <2>3 DEF Envoi
    <3>2. ASSUME NEW t \in Sessions, VerrouTx(t, o)'
          PROVE  ecrites'[t] = {} /\ etape'[t] # "ecrire"
      <4>1. CASE t = s
        BY <1>1, <1>a, <2>3, <3>1, <3>2, <4>1, RienAEcrire DEF Envoi
      <4>2. CASE t # s
        BY <1>a, <2>1, <2>3, <3>2, <4>2 DEF Envoi
      <4>. QED  BY <4>1, <4>2
    <3>. QED  BY <1>b, <2>3, <3>1, <3>2 DEF Envoi
  <2>. QED  BY <1>c, <2>2, <2>3
<1>2. ASSUME UNCHANGED <<etape, local>>, courriels'[o] = courriels[o], courriels[o] # 0
      PROVE  Envoi(o)'
  <2>1. UNCHANGED <<etape, role, cible, ecrites>>
    BY <1>2 DEF local
  <2>2. \A s \in Sessions : VerrouTx(s, o)' = VerrouTx(s, o)
    BY <2>1 DEF VerrouTx
  <2>. QED  BY <1>a, <1>b, <1>2, <2>1, <2>2 DEF Envoi
<1>3. ASSUME NEW a \in Lignes, ConfirmerPaiement(a)
      PROVE  courriels'[o] \in {0, courriels[o]}
  BY <1>a, <1>3, EffetConfirmation DEF Defaire, TypeOK
<1>. QED  BY <1>c, <1>1, <1>2, <1>3, EffetExterne

(***************************************************************************)
(* Theorems                                                                *)
(***************************************************************************)
\* The initial states satisfy the inductive invariant.
THEOREM InvariantInitial == Init => IInv
<1>. SUFFICES ASSUME Init PROVE IInv
  OBVIOUS
<1>1. Types
  BY TypeInitial
<1>2. ASSUME NEW s \in Sessions
      PROVE  Ecritures(s) /\ Lot(s) /\ Application(s) /\ Nouvelle(s)
  BY <1>2 DEF Init, Ecritures, Insere, Lot, Application, Nouvelle
<1>3. ASSUME NEW s \in Sessions, NEW t \in Sessions PROVE Exclusion(s, t)
  BY <1>3 DEF Init, Exclusion, VerrouTx
<1>4. ASSUME NEW o \in Ordres PROVE Envoi(o)
  BY <1>4 DEF Init, Envoi
<1>5. SuccesRegle /\ ReferenceJustifiee
  BY HypOrdres, HypAucun
  DEF Init, SuccesRegle, ReferenceJustifiee, StatutsKopar, Statuts
<1>. QED  BY <1>1, <1>2, <1>3, <1>4, <1>5 DEF IInv

\* IInv is inductive.
THEOREM InvariantSuivant == IInv /\ [Next]_vars => IInv'
<1>1. ASSUME IInv, Next PROVE IInv'
  <2>1. Types'
    BY <1>1, TypeSuivant DEF IInv
  <2>2. \A s \in Sessions : Ecritures(s)' /\ Lot(s)' /\ Application(s)' /\ Nouvelle(s)'
    BY <1>1, SessionsSuivantes
  <2>3. \A s \in Sessions : \A t \in Sessions \ {s} : Exclusion(s, t)'
    BY <1>1, ExclusionSuivante
  <2>4. \A o \in Ordres : Envoi(o)'
    BY <1>1, EnvoiSuivant
  <2>. QED
    BY <1>1, <2>1, <2>2, <2>3, <2>4, SuccesRegleSuivant, ReferenceSuivante DEF IInv
<1>2. ASSUME IInv, UNCHANGED vars PROVE IInv'
  <2>1. Types'
    BY <1>2, TypeSuivant DEF IInv
  <2>2. UNCHANGED <<tx, refDe, ligne, reference, courriels, annulees, etape, role, cible,
                    nouveau, reste, lu, vues, ecrites>>
    BY <1>2 DEF vars, base, local
  <2>3. \A s \in Sessions : Ecritures(s)' /\ Lot(s)' /\ Application(s)' /\ Nouvelle(s)'
    <3>1. SUFFICES ASSUME NEW s \in Sessions
                   PROVE  Ecritures(s)' /\ Lot(s)' /\ Application(s)' /\ Nouvelle(s)'
      OBVIOUS
    <3>2. Ecritures(s) /\ Lot(s) /\ Application(s) /\ Nouvelle(s)
      BY <1>2 DEF IInv
    <3>3. /\ LignesDe(cible[s])' = LignesDe(cible[s]) /\ \A l : Acquis(l)' <=> Acquis(l)
          /\ Elements(reste[s])' = Elements(reste[s])
      BY <2>2 DEF LignesDe, Acquis, Elements
    <3>4. Application(s)'
      BY <2>2, <3>2, <3>3 DEF Application, Ignore
    <3>5. Lot(s)'
      BY <2>2, <3>2 DEF Lot
    <3>. QED  BY <2>2, <3>2, <3>4, <3>5 DEF Ecritures, Insere, Nouvelle
  <2>4. \A s \in Sessions : \A t \in Sessions \ {s} : Exclusion(s, t)'
    BY <1>2, <2>2 DEF IInv, Exclusion, VerrouTx
  <2>5. \A o \in Ordres : Envoi(o)'
    BY <1>2, <2>2 DEF IInv, Envoi, Reglee, LignesDe, VerrouTx
  <2>6. SuccesRegle' /\ ReferenceJustifiee'
    BY <1>2, <2>2 DEF IInv, SuccesRegle, ReferenceJustifiee, Soldee, LignesDe
  <2>. QED  BY <2>1, <2>3, <2>4, <2>5, <2>6 DEF IInv
<1>. QED  BY <1>1, <1>2

\* The inductive invariant holds throughout.
THEOREM InvariantCorrect == Spec => []IInv
BY InvariantInitial, InvariantSuivant, PTL DEF Spec

\* A transaction recorded as paid has settled every row it covers, in every
\* reachable state, crashes included (mark_paid_periode and the one commit of
\* the webhook route and of the catch-up job); a row missing is one whose
\* payment was undone.
THEOREM SuccesRegleCorrect == Spec => []SuccesRegle
<1>1. IInv => SuccesRegle
  BY DEF IInv
<1>. QED  BY <1>1, InvariantCorrect, PTL

\* A receipt on a row leads back to a settled transaction that covers the row,
\* and the row is paid or was undone.
THEOREM ReferenceCorrecte == Spec => []ReferenceJustifiee
<1>1. IInv => ReferenceJustifiee
  BY DEF IInv
<1>. QED  BY <1>1, InvariantCorrect, PTL

\* At most one confirmation email once the rows of an order are paid, whatever
\* is redelivered or caught up, until one of them is undone: the row lock makes
\* the second handler find nothing to write.
THEOREM CourrielUnique == Spec => []UnSeulCourriel
<1>1. IInv => UnSeulCourriel
  BY DEF IInv, Envoi, UnSeulCourriel
<1>. QED  BY <1>1, InvariantCorrect, PTL

\* A final status never goes back to new or pending, and a success only ever
\* becomes a refund (the early returns of appliquer_statut_kopar, read under
\* SELECT ... FOR UPDATE).
THEOREM FinalCorrect == Spec => FinalProtege
<1>1. IInv /\ [Next]_vars =>
        [\A o \in Ordres :
           /\ tx[o] \in Finaux  => tx'[o] \in Finaux
           /\ tx[o] = "success" => tx'[o] \in {"success", "refunded"}]_tx
  <2>1. ASSUME IInv, Next
        PROVE  \A o \in Ordres :
                 /\ tx[o] \in Finaux  => tx'[o] \in Finaux
                 /\ tx[o] = "success" => tx'[o] \in {"success", "refunded"}
    BY <2>1, FinalSuivant
  <2>2. ASSUME UNCHANGED vars PROVE UNCHANGED tx
    BY <2>2 DEF vars, base
  <2>. QED  BY <2>1, <2>2
<1>. QED  BY <1>1, InvariantCorrect, PTL DEF Spec, FinalProtege

\* What is recorded as paid is undone by the flag of an administrator or by the
\* stale UPDATE of the monthly job, and by nothing else; a row that exists
\* stays (marquer_echues_du_mois_precedent, confirm_payment).
THEOREM AnnulationsCorrect == Spec => AnnulationsConnues
<1>1. IInv /\ [Next]_vars =>
        [\A l \in Lignes :
           /\ ligne[l] = "payee" /\ ligne'[l] # "payee" =>
                (l \notin Mois /\ ligne'[l] = "due") \/ EcraseParLot(l)
           /\ ligne[l] # "absente" => ligne'[l] # "absente"]_ligne
  <2>1. ASSUME IInv, Next
        PROVE  \A l \in Lignes :
                 /\ ligne[l] = "payee" /\ ligne'[l] # "payee" =>
                      (l \notin Mois /\ ligne'[l] = "due") \/ EcraseParLot(l)
                 /\ ligne[l] # "absente" => ligne'[l] # "absente"
    BY <2>1, LignesSuivantes
  <2>2. ASSUME UNCHANGED vars PROVE UNCHANGED ligne
    BY <2>2 DEF vars, base
  <2>. QED  BY <2>1, <2>2
<1>. QED  BY <1>1, InvariantCorrect, PTL DEF Spec, AnnulationsConnues

(***************************************************************************)
(* Circles of waits.  With the rows ranked by the calendar, what a session *)
(* other than the monthly job has still to visit is increasing and above   *)
(* all it holds: of a circle of such sessions waiting for rows, the one    *)
(* whose row ranks highest would wait for a row held below another.        *)
(***************************************************************************)
Rangee(rang, s) ==
  role[s] # "lot" =>
    /\ Croissante(rang, reste[s])
    /\ \A l \in ecrites[s] : \A i \in DOMAIN reste[s] : rang[l] < rang[reste[s][i]]

\* A bounded set of numbers has a greatest element.
LEMMA PlusGrand ==
  ASSUME NEW n \in Nat, NEW T \in SUBSET (1..n), T # {}
  PROVE  \E x \in T : \A y \in T : y <= x
<1>. DEFINE R == OpToRel(<, Nat)
            U == {n - x : x \in T}
<1>1. U \subseteq Nat /\ U # {}
  <2>1. \A x \in T : n - x \in Nat
    OBVIOUS
  <2>. QED  BY <2>1
<1>2. IsWellFoundedOn(R, Nat)
  BY NatLessThanWellFounded
<1>. HIDE DEF R, U
<1>3. PICK u \in U : \A v \in U : <<v, u>> \notin R
  BY <1>1, <1>2, WFMin
<1>4. \A v \in U : ~(v < u)
  BY <1>1, <1>3 DEF R, OpToRel
<1>5. PICK x \in T : u = n - x
  BY DEF U
<1>6. ASSUME NEW y \in T PROVE y <= x
  <2>1. n - y \in U
    BY DEF U
  <2>. QED  BY <1>4, <1>5, <2>1
<1>. QED  BY <1>6

\* Visiting the first row of a queue in order: what follows ranks above it.
LEMMA ResteCroissant ==
  ASSUME NEW rang \in [Lignes -> Nat], NEW q \in Seq(Lignes), q # << >>, Croissante(rang, q)
  PROVE  /\ Croissante(rang, Tail(q))
         /\ \A i \in DOMAIN Tail(q) : rang[Head(q)] < rang[Tail(q)[i]]
         /\ \A i \in DOMAIN Tail(q) : \E j \in DOMAIN q : Tail(q)[i] = q[j]
<1>1. \A i \in DOMAIN Tail(q) : i + 1 \in DOMAIN q /\ Tail(q)[i] = q[i + 1] /\ 1 < i + 1 /\ i \in Nat
  OBVIOUS
<1>2. Head(q) = q[1] /\ 1 \in DOMAIN q
  OBVIOUS
<1>3. \A i, j \in DOMAIN Tail(q) : i < j => i + 1 < j + 1
  OBVIOUS
<1>. QED  BY <1>1, <1>2, <1>3 DEF Croissante

\* One row is in order, and so are the rows of a reference.
LEMMA SuiteCroissante ==
  ASSUME NEW rang \in [Lignes -> Nat], \A r \in Refs : Croissante(rang, Couvre[r]),
         NEW q \in SuitesMois
  PROVE  Croissante(rang, q)
<1>1. CASE \E l \in Mois : q = <<l>>
  BY <1>1 DEF Croissante
<1>2. CASE \E r \in Refs : q = Couvre[r]
  BY <1>2
<1>. QED  BY <1>1, <1>2 DEF SuitesMois

LEMMA RangeeActeur ==
  ASSUME IInv, NEW s \in Sessions, DeSession(s), NEW rang \in [Lignes -> Nat],
         \A r \in Refs : Croissante(rang, Couvre[r]), Rangee(rang, s)
  PROVE  Rangee(rang, s)'
<1>0. TypeOK /\ Types /\ Ecritures(s)
  BY DEF IInv, Types
<1>1. CASE Liberer(s)
  <2>1. reste'[s] = << >> /\ ecrites'[s] = {}
    BY <1>0, <1>1 DEF Liberer, TypeOK
  <2>. QED  BY <2>1 DEF Rangee, Croissante
<1>2. CASE reste'[s] = reste[s] /\ ecrites'[s] \in {ecrites[s], {}} /\ role'[s] = role[s]
  BY <1>2 DEF Rangee, Croissante
<1>b. CASE role'[s] = "lot"
  BY <1>b DEF Rangee
<1>3. CASE LireLigne(s) \/ EcrireLigne(s)
  <2>1. reste[s] \in Seq(Lignes) /\ reste[s] # << >>
    BY <1>0, <1>3 DEF Types, TypeOK, Controle, LireLigne, EcrireLigne
  <2>2. CASE reste'[s] = Tail(reste[s]) /\ role'[s] = role[s] /\ role[s] # "lot"
             /\ ecrites'[s] \in {ecrites[s], ecrites[s] \cup {Head(reste[s])}}
    <3>1. /\ Croissante(rang, Tail(reste[s]))
          /\ \A i \in DOMAIN Tail(reste[s]) : rang[Head(reste[s])] < rang[Tail(reste[s])[i]]
          /\ \A i \in DOMAIN Tail(reste[s]) : \E j \in DOMAIN reste[s] : Tail(reste[s])[i] = reste[s][j]
      BY <2>1, <2>2, ResteCroissant DEF Rangee
    <3>. QED  BY <2>2, <3>1 DEF Rangee, Croissante
  <2>. QED  BY <1>0, <1>1, <1>2, <1>b, <1>3, <2>2 DEF LireLigne, EcrireLigne, Terminer, TypeOK
\* The rows of a reference are taken whole, by a session that holds none yet.
<1>4. ASSUME Croissante(rang, reste'[s]), ecrites'[s] = ecrites[s],
             etape[s] \in {"libre", "verrou"}
      PROVE  Rangee(rang, s)'
  <2>1. ecrites'[s] = {}
    BY <1>0, <1>4 DEF Ecritures
  <2>. QED  BY <1>4, <2>1 DEF Rangee, Croissante
<1>5. CASE Verrouiller(s)
  <2>1. cible[s] \in Ordres /\ refDe[cible[s]] \in Refs
    BY <1>0, <1>5 DEF Types, TypeOK, Controle, Creee, Verrouiller
  <2>. QED  BY <1>0, <1>1, <1>2, <1>4, <1>5, <2>1 DEF Verrouiller, Terminer, TypeOK, local
<1>6. CASE ManuelDebut(s) \/ InitierDebut(s)
  BY <1>0, <1>4, <1>6 DEF ManuelDebut, InitierDebut, TypeOK
<1>c. CASE GenererDebut(s) \/ LotDebut(s)
  <2>1. CASE LotDebut(s)
    BY <1>0, <1>b, <2>1 DEF LotDebut, TypeOK
  <2>2. CASE GenererDebut(s)
    <3>1. PICK q \in SuitesMois : reste' = [reste EXCEPT ![s] = q]
      BY <2>2 DEF GenererDebut
    <3>2. reste'[s] = q /\ ecrites'[s] = ecrites[s] /\ etape[s] = "libre"
      BY <1>0, <2>2, <3>1 DEF GenererDebut, TypeOK
    <3>. QED  BY <1>4, <3>2, SuiteCroissante
  <2>. QED  BY <1>c, <2>1, <2>2
<1>7. CASE RecevoirWebhook(s) \/ RattrapageLister(s)
  <2>1. reste'[s] = reste[s] /\ ecrites'[s] = {} /\ etape[s] = "libre"
    BY <1>0, <1>7 DEF RecevoirWebhook, RattrapageLister, Ecritures
  <2>2. role[s] # "lot"
    BY <2>1 DEF IInv, Lot
  <2>. QED  BY <1>0, <1>7, <2>1, <2>2 DEF RecevoirWebhook, RattrapageLister, Rangee, Croissante, TypeOK
<1>8. CASE RattrapageInterroger(s) \/ ValiderStatut(s) \/ ValiderMois(s) \/ Initier(s)
           \/ ValiderManuel(s) \/ Abandonner(s) \/ Victime(s)
  BY <1>0, <1>1, <1>2, <1>8 DEF RattrapageInterroger, ValiderStatut, ValiderMois, Initier,
     Consulter, CreerOrdre, RefusKopar, ValiderInitiation, ValiderManuel, Abandonner, Victime,
     Terminer, TypeOK, local
<1>. QED  BY <1>3, <1>5, <1>6, <1>c, <1>7, <1>8 DEF DeSession, Commencer, Avancer, Appliquer

LEMMA RangeeSuivante ==
  ASSUME NEW rang \in [Lignes -> Nat], \A r \in Refs : Croissante(rang, Couvre[r]),
         IInv, [Next]_vars, \A s \in Sessions : Rangee(rang, s)
  PROVE  \A s \in Sessions : Rangee(rang, s)'
<1>1. CASE UNCHANGED <<reste, ecrites, role>>
  BY <1>1 DEF Rangee, Croissante
<1>2. ASSUME NEW t \in Sessions, DeSession(t) PROVE \A s \in Sessions : Rangee(rang, s)'
  <2>1. AutresInchangees(t)
    BY <1>2, SessionAutres DEF IInv, Types
  <2>. SUFFICES ASSUME NEW s \in Sessions PROVE Rangee(rang, s)'
    OBVIOUS
  <2>2. CASE s = t
    BY <1>2, <2>2, RangeeActeur
  <2>3. CASE s # t
    BY <2>1, <2>3 DEF AutresInchangees, Rangee, Croissante
  <2>. QED  BY <2>2, <2>3
<1>. QED  BY <1>1, <1>2 DEF Next, DeSession, KoparEvolue, ConfirmerPaiement, vars, local

\* In such a state, in any set of sessions without the monthly job one waits for
\* nobody in the set.
LEMMA SansCercle ==
  ASSUME NEW n \in Nat, NEW rang \in [Lignes -> 1..n], IInv,
         \A s \in Sessions : Rangee(rang, s)
  PROVE  InterblocageDuLot
<1>. SUFFICES ASSUME NEW G \in SUBSET Sessions, G # {}, \A s \in G : role[s] # "lot"
              PROVE  \E s \in G : \A t \in G : ~AttendApres(s, t)
  BY DEF InterblocageDuLot
<1>1. \A s \in G : etape[s] = "ecrire" =>
        reste[s] # << >> /\ Head(reste[s]) \in Lignes /\ 1 \in DOMAIN reste[s] /\ Head(reste[s]) = reste[s][1]
  BY DEF IInv, Types, TypeOK, Controle
\* A session under way that visits no row waits for nobody.
<1>2. \A s \in G, t \in G : etape[s] \notin {"ecrire", "verrou"} => ~AttendApres(s, t)
  BY DEF AttendApres
<1>3. CASE \A s \in G : etape[s] # "ecrire"
  <2>1. PICK s \in G : TRUE
    OBVIOUS
  <2>2. \A t \in G : AttendApres(s, t) => etape[t] \notin {"ecrire", "verrou"}
    BY <1>3 DEF AttendApres, VerrouTx
  <2>. QED  BY <1>2, <2>2
<1>4. CASE \E s \in G : etape[s] = "ecrire"
  <2>. DEFINE T == {rang[Head(reste[s])] : s \in {u \in G : etape[u] = "ecrire"}}
  <2>1. T \in SUBSET (1..n) /\ T # {}
    BY <1>1, <1>4
  <2>2. PICK x \in T : \A y \in T : y <= x
    <3>. HIDE DEF T
    <3>. QED  BY <2>1, PlusGrand
  <2>3. PICK s \in G : etape[s] = "ecrire" /\ x = rang[Head(reste[s])]
    OBVIOUS
  <2>4. ASSUME NEW t \in G, AttendApres(s, t) PROVE etape[t] \notin {"ecrire", "verrou"}
    <3>1. Head(reste[s]) \in ecrites[t]
      BY <2>3, <2>4 DEF AttendApres
    <3>2. etape[t] # "verrou"
      BY <3>1 DEF IInv, Ecritures
    <3>3. ASSUME etape[t] = "ecrire" PROVE FALSE
      <4>1. rang[Head(reste[t])] \in T
        BY <3>3
      <4>2. rang[Head(reste[s])] < rang[Head(reste[t])]
        BY <1>1, <3>1, <3>3 DEF Rangee
      <4>3. rang[Head(reste[t])] <= rang[Head(reste[s])]
        BY <2>2, <2>3, <4>1
      <4>4. rang[Head(reste[t])] \in 1..n /\ rang[Head(reste[s])] \in 1..n
        BY <1>1, <2>3, <3>3
      <4>. QED  BY <4>2, <4>3, <4>4
    <3>. QED  BY <3>2, <3>3
  <2>. QED  BY <1>2, <2>4
<1>. QED  BY <1>3, <1>4

\* Handlers that wait for one another in a circle have the monthly job among
\* them, whatever references they pay at once: every other path takes the rows
\* of the member in calendar order, after the transaction row
\* (mark_paid_periode, the creation of missing months, mark_manuel).
THEOREM InterblocageCorrect == Spec => []InterblocageDuLot
<1>1. PICK rang \in [Lignes -> 1..Cardinality(Lignes)] : \A r \in Refs : Croissante(rang, Couvre[r])
  BY HypOrdre
<1>2. Cardinality(Lignes) \in Nat /\ rang \in [Lignes -> Nat]
  BY <1>1, HypOrdre, FS_CardinalityType
<1>. DEFINE J == \A s \in Sessions : Rangee(rang, s)
<1>3. Init => J
  BY DEF Init, Rangee, Croissante
<1>4. IInv /\ [Next]_vars /\ J => J'
  BY <1>1, <1>2, RangeeSuivante
<1>5. IInv /\ J => InterblocageDuLot
  BY <1>1, <1>2, SansCercle
<1>. HIDE DEF J
<1>. QED  BY <1>3, <1>4, <1>5, InvariantCorrect, PTL DEF Spec

(***************************************************************************)
(* Receipts and what the provider collected.                               *)
(***************************************************************************)
\* An order for which some money was collected, if not through itself.
Gage(o) ==
  \E p \in Ordres : Percu(p) /\ (p = o \/ refDe[p] = refDe[o] \/ refDe[o] = RefAdhesion)

\* Whoever announces a success does it for an order collected; whoever applies
\* one, to an order such money stands for.
Encaissements ==
  /\ \A m \in avis : m[2] = "success" => Percu(m[1])
  /\ \A s \in Sessions :
       role[s] = "appliquer" /\ etape[s] \in {"verrou", "lire", "ecrire", "valider"}
         /\ nouveau[s] = "success" => Gage(cible[s])
  /\ RecuGage

\* A collected order can only be refunded.
HypEncaisse == \A e \in EvolutionsKopar : e[1] \in {"success", "refunded"} =>
                                          e[2] \in {"success", "refunded"}

\* The provider's orders and notifications move with the provider alone, an
\* order being created apart.
LEMMA PasDeSession ==
  ASSUME NEW s \in Sessions, Commencer(s) \/ Avancer(s) \/ Abandonner(s) \/ Victime(s)
  PROVE  CreerOrdre(s) \/ UNCHANGED <<kopar, avis>>
<1>1. CASE Commencer(s)
  BY <1>1 DEF Commencer, RecevoirWebhook, RattrapageLister, ManuelDebut, InitierDebut, GenererDebut,
     LotDebut, base
<1>2. CASE Appliquer(s)
  BY <1>2 DEF Appliquer, RattrapageInterroger, Verrouiller, ValiderStatut, base
<1>3. CASE LireLigne(s) \/ EcrireLigne(s)
  BY <1>3 DEF LireLigne, EcrireLigne, base
<1>4. CASE Initier(s)
  BY <1>4 DEF Initier, Consulter, RefusKopar, ValiderInitiation, base
<1>5. CASE ValiderManuel(s) \/ ValiderMois(s)
  BY <1>5 DEF ValiderManuel, ValiderMois, base
<1>6. CASE Abandonner(s) \/ Victime(s)
  BY <1>6 DEF Abandonner, Victime, base
<1>. QED  BY <1>1, <1>2, <1>3, <1>4, <1>5, <1>6 DEF Avancer

\* Money collected stays so, and an order keeps its reference.
LEMMA PercuConserve ==
  ASSUME HypEncaisse, IInv, [Next]_vars, NEW o \in Ordres, Percu(o)
  PROVE  Percu(o)'
<1>0. TypeOK
  BY DEF IInv, Types
<1>1. ASSUME NEW q \in Ordres, NEW st \in StatutsKopar, KoparEvolue(q, st) PROVE Percu(o)'
  BY <1>0, <1>1 DEF KoparEvolue, HypEncaisse, Percu, TypeOK
<1>2. ASSUME NEW s \in Sessions, CreerOrdre(s) PROVE Percu(o)'
  BY <1>0, <1>2, HypAucun DEF CreerOrdre, Percu, TypeOK, StatutsKopar, Statuts
<1>3. UNCHANGED kopar => Percu(o)'
  BY DEF Percu
<1>4. \/ \E q \in Ordres, st \in StatutsKopar : KoparEvolue(q, st)
      \/ \E s \in Sessions : CreerOrdre(s)
      \/ UNCHANGED kopar
  BY PasDeSession DEF Next, ConfirmerPaiement, vars, base
<1>. QED  BY <1>1, <1>2, <1>3, <1>4

LEMMA GageConserve ==
  ASSUME HypEncaisse, IInv, [Next]_vars, NEW o \in Ordres, refDe[o] # Aucun, Gage(o)
  PROVE  Gage(o)'
<1>1. PICK p \in Ordres : Percu(p) /\ (p = o \/ refDe[p] = refDe[o] \/ refDe[o] = RefAdhesion)
  BY DEF Gage
<1>2. Percu(p)'
  BY <1>1, PercuConserve
<1>3. \A q \in Ordres : refDe[q] # Aucun => refDe'[q] = refDe[q]
  <2>1. CASE Next
    BY <2>1, CroissanceSuivante DEF IInv, Croissance
  <2>. QED  BY <2>1 DEF vars, base
<1>. QED  BY <1>1, <1>2, <1>3 DEF Gage

LEMMA EncaissementsSuivants ==
  ASSUME HypEncaisse, IInv, Encaissements, [Next]_vars
  PROVE  Encaissements'
<1>0. TypeOK /\ Types /\ \A o \in Ordres : tx[o] # Aucun => refDe[o] # Aucun
  BY DEF IInv, Types, Creee
<1>2. \A m \in avis' : m[2] = "success" => Percu(m[1])'
  <2>1. ASSUME NEW o \in Ordres, NEW st \in StatutsKopar, KoparEvolue(o, st)
        PROVE  \A m \in avis' : m[2] = "success" => kopar'[m[1]] \in {"success", "refunded"}
    <3>1. \A m \in avis : m[2] = "success" => kopar'[m[1]] \in {"success", "refunded"}
      BY <1>0, PercuConserve DEF Encaissements, Percu, TypeOK
    <3>2. kopar'[o] = st /\ avis' = avis \cup {<<o, st>>}
      BY <1>0, <2>1 DEF KoparEvolue, TypeOK
    <3>. QED  BY <3>1, <3>2
  <2>2. UNCHANGED avis => \A m \in avis' : m[2] = "success" => kopar'[m[1]] \in {"success", "refunded"}
    BY <1>0, PercuConserve DEF Encaissements, Percu, TypeOK
  <2>3. (\E o \in Ordres, st \in StatutsKopar : KoparEvolue(o, st)) \/ UNCHANGED avis
    BY PasDeSession DEF Next, ConfirmerPaiement, CreerOrdre, vars, base
  <2>. QED  BY <2>1, <2>2, <2>3 DEF Percu
<1>. DEFINE Applique(s) == role[s] = "appliquer" /\ nouveau[s] = "success"
                           /\ etape[s] \in {"verrou", "lire", "ecrire", "valider"}
\* What a session applies to is a transaction row, which has a reference.
<1>a. ASSUME NEW s \in Sessions, role[s] = "appliquer", etape[s] # "libre"
      PROVE  cible[s] \in Ordres /\ refDe[cible[s]] # Aucun
  BY <1>0, <1>a DEF Types, Controle
\* A session that starts to apply a success heard of it from the provider.
<1>3. ASSUME NEW s \in Sessions, DeSession(s), Applique(s)'
      PROVE  cible'[s] \in Ordres /\ refDe[cible'[s]] # Aucun /\ Gage(cible'[s])
  <2>1. CASE RecevoirWebhook(s)
    <3>1. PICK m \in avis, t \in Ordres : /\ t \in TransactionDuWebhook(m[1])
                                          /\ cible' = [cible EXCEPT ![s] = t]
                                          /\ nouveau' = [nouveau EXCEPT ![s] = EnStatut(m[2])]
      BY <2>1 DEF RecevoirWebhook
    <3>2. m[1] \in Ordres /\ cible'[s] = t /\ EnStatut(m[2]) = "success"
      BY <1>0, <1>3, <2>1, <3>1 DEF RecevoirWebhook, TypeOK
    <3>3. m[2] = "success"
      BY <3>2 DEF EnStatut, Statuts
    <3>4. Percu(m[1])
      BY <3>3 DEF Encaissements
    <3>5. tx[t] # Aucun /\ (refDe[t] = refDe[m[1]] \/ refDe[t] = RefAdhesion)
      BY <3>1 DEF TransactionDuWebhook, PlusRecente, Correspondances
    <3>. QED  BY <1>0, <3>2, <3>4, <3>5 DEF Gage
  <2>2. CASE RattrapageInterroger(s)
    <3>1. cible'[s] = cible[s] /\ EnStatut(kopar[cible[s]]) = "success"
      BY <1>0, <1>3, <2>2 DEF RattrapageInterroger, Terminer, Liberer, TypeOK, Types, Controle
    <3>2. cible[s] \in Ordres /\ refDe[cible[s]] # Aucun
      BY <1>0, <1>a, <2>2 DEF RattrapageInterroger, Types, Controle
    <3>3. Percu(cible[s])
      BY <3>1 DEF EnStatut, Statuts, Percu
    <3>. QED  BY <3>1, <3>2, <3>3 DEF Gage
  <2>3. CASE Liberer(s)
    BY <1>0, <1>3, <2>3, LibererAutres
  <2>4. CASE UNCHANGED <<role, nouveau, cible>> /\ etape[s] \in {"verrou", "lire", "ecrire", "valider"}
    BY <1>a, <1>3, <2>4 DEF Encaissements
  <2>5. CASE ManuelDebut(s) \/ InitierDebut(s) \/ RattrapageLister(s) \/ GenererDebut(s) \/ LotDebut(s)
    BY <1>0, <1>3, <2>5 DEF ManuelDebut, InitierDebut, RattrapageLister, GenererDebut, LotDebut,
       TypeOK
  <2>6. CASE Initier(s)
    BY <1>0, <1>3, <2>3, <2>6 DEF Initier, Consulter, CreerOrdre, RefusKopar, ValiderInitiation,
       Terminer, TypeOK, Types, Controle, local
  <2>7. CASE Verrouiller(s) \/ LireLigne(s) \/ EcrireLigne(s) \/ ValiderStatut(s)
             \/ ValiderMois(s) \/ ValiderManuel(s) \/ Abandonner(s) \/ Victime(s)
    BY <1>0, <1>3, <2>3, <2>4, <2>7 DEF Verrouiller, LireLigne, EcrireLigne, ValiderStatut,
       ValiderMois, ValiderManuel, Abandonner, Victime, Terminer, local, TypeOK
  <2>8. \/ RecevoirWebhook(s) \/ RattrapageInterroger(s) \/ Initier(s)
        \/ ManuelDebut(s) \/ InitierDebut(s) \/ RattrapageLister(s)
        \/ GenererDebut(s) \/ LotDebut(s)
        \/ Verrouiller(s) \/ LireLigne(s) \/ EcrireLigne(s) \/ ValiderStatut(s)
        \/ ValiderMois(s) \/ ValiderManuel(s) \/ Abandonner(s) \/ Victime(s)
    BY <1>3 DEF DeSession, Commencer, Avancer, Appliquer
  <2>. QED  BY <2>1, <2>2, <2>5, <2>6, <2>7, <2>8
<1>4. ASSUME NEW s \in Sessions, Applique(s)' PROVE Gage(cible[s])'
  <2>0. ASSUME NEW c \in Ordres, c = cible'[s], refDe[c] # Aucun, Gage(c)
        PROVE  Gage(cible[s])'
    <3>1. Gage(c)'
      BY <2>0, GageConserve
    <3>. QED  BY <2>0, <3>1 DEF Gage
  <2>1. \/ \E t \in Sessions : DeSession(t)
        \/ UNCHANGED <<role, nouveau, etape, cible>>
    BY DEF Next, DeSession, KoparEvolue, ConfirmerPaiement, vars, local
  <2>2. CASE UNCHANGED <<role, nouveau, etape, cible>>
    <3>1. cible'[s] \in Ordres /\ refDe[cible'[s]] # Aucun /\ Gage(cible'[s])
      BY <1>a, <1>4, <2>2 DEF Encaissements
    <3>. QED  BY <2>0, <3>1
  <2>3. ASSUME NEW t \in Sessions, DeSession(t)
        PROVE  cible'[s] \in Ordres /\ refDe[cible'[s]] # Aucun /\ Gage(cible'[s])
    <3>1. CASE t = s
      BY <1>3, <1>4, <2>3, <3>1
    <3>2. CASE t # s
      <4>1. AutresInchangees(t)
        BY <1>0, <2>3, SessionAutres
      <4>. QED  BY <1>a, <1>4, <3>2, <4>1 DEF AutresInchangees, Encaissements
    <3>. QED  BY <3>1, <3>2
  <2>. QED  BY <2>0, <2>1, <2>2, <2>3
\* A receipt is written by the commit of such a session.
<1>5. ASSUME NEW l \in Lignes, NEW o \in Ordres, reference'[l] = o PROVE Gage(o)'
  <2>1. CASE reference[l] = o
    <3>1. Gage(o)
      BY <2>1 DEF Encaissements, RecuGage, Gage
    <3>2. refDe[o] # Aucun
      BY <2>1 DEF IInv, ReferenceJustifiee, LignesDe
    <3>. QED  BY <3>1, <3>2, GageConserve
  <2>2. CASE reference[l] # o
    <3>1. \/ \E s \in Sessions : DeSession(s)
          \/ UNCHANGED reference
          \/ \E a \in Lignes : ConfirmerPaiement(a)
      BY EffetExterne DEF vars, base
    <3>2. ASSUME NEW a \in Lignes, ConfirmerPaiement(a) PROVE reference'[l] = reference[l]
      BY <1>0, <1>5, <3>2, EffetConfirmation, HypOrdres
    <3>3. PICK s \in Sessions : DeSession(s)
      BY <1>5, <2>2, <3>1, <3>2
    <3>4. ValiderStatut(s) /\ l \in ecrites[s] /\ cible[s] = o
      BY <1>0, <1>5, <2>2, <3>3, EffetReference
    <3>5. role[s] = "appliquer" /\ etape[s] = "valider" /\ nouveau[s] = "success"
      BY <3>4 DEF IInv, Application, ValiderStatut
    <3>6. Gage(o) /\ refDe[o] # Aucun
      BY <1>a, <3>4, <3>5 DEF Encaissements
    <3>. QED  BY <3>6, GageConserve
  <2>. QED  BY <2>1, <2>2
<1>. QED  BY <1>2, <1>4, <1>5 DEF Encaissements, RecuGage, Gage, Percu

\* A receipt stands for money collected for the same reference (or by some order
\* of the member, when it is the receipt of the adhesion), however many orders
\* there are and whatever is redelivered, as long as a collected order can only
\* be refunded (processer_webhook_kopar looks for commandRef, the catch-up job
\* for the token).
THEOREM RecuGageCorrect ==
  ASSUME HypEncaisse
  PROVE  Spec => []RecuGage
<1>1. Init => Encaissements
  BY HypOrdres DEF Init, Encaissements, RecuGage
<1>2. IInv /\ Encaissements /\ [Next]_vars => Encaissements'
  BY EncaissementsSuivants
<1>3. Encaissements => RecuGage
  BY DEF Encaissements
<1>. QED  BY <1>1, <1>2, <1>3, InvariantCorrect, PTL DEF Spec

-----------------------------------------------------------------------------
(* PaiementKopar implements RegistrePaiements, for any constants. *)

\* The state of the register, as the refinement mapping computes it.
Objet  == [o \in Ordres |-> LignesDe(o)]
Statut == [o \in Ordres |-> StatutAbstrait(tx[o])]

\* A command_ref covers a nonempty set of rows.
LEMMA ReferenceNonVide ==
  ASSUME NEW r \in Refs
  PROVE  Elements(Couvre[r]) # {} /\ Elements(Couvre[r]) \subseteq Lignes
<1>1. Couvre[r] \in Seq(Lignes) /\ Couvre[r] # << >>
  BY ReferencesCouvertes
<1>2. Head(Couvre[r]) \in Elements(Couvre[r])
  BY <1>1, TeteEtReste
<1>3. Elements(Couvre[r]) \subseteq Lignes
  BY <1>1 DEF Elements
<1>. QED  BY <1>2, <1>3

\* An order covers rows exactly from the moment it exists.
LEMMA ObjetNonVide ==
  ASSUME TypeOK, NEW o \in Ordres
  PROVE  /\ Objet[o] = LignesDe(o)
         /\ refDe[o] = Aucun => Objet[o] = {}
         /\ refDe[o] # Aucun => Objet[o] # {}
BY ReferenceNonVide DEF Objet, LignesDe, TypeOK

\* The mapping of the database enum to the statuses of the register.
LEMMA StatutDe ==
  ASSUME NEW st \in Statuts \cup {Aucun}
  PROVE  /\ StatutAbstrait(st) = "aucune"     <=> st = Aucun
         /\ StatutAbstrait(st) = "ouverte"    <=> st \in EnCours
         /\ StatutAbstrait(st) = "reglee"     <=> st = "success"
         /\ StatutAbstrait(st) = "echouee"    <=> st \in {"failed", "cancelled"}
         /\ StatutAbstrait(st) = "remboursee" <=> st = "refunded"
<1>1. Aucun \notin Statuts
  BY HypAucun DEF StatutsKopar
<1>2. CASE st = Aucun
  <2>1. StatutAbstrait(st) = "aucune"
    BY <1>1, <1>2, ZenonT(30) DEF StatutAbstrait, EnCours, Statuts
  <2>. QED  BY <1>1, <1>2, <2>1 DEF EnCours, Statuts
<1>3. CASE st \in EnCours
  <2>1. StatutAbstrait(st) = "ouverte"
    BY <1>3, ZenonT(30) DEF StatutAbstrait, EnCours
  <2>. QED  BY <1>1, <1>3, <2>1 DEF EnCours, Statuts
<1>4. CASE st = "success"
  <2>1. StatutAbstrait(st) = "reglee"
    BY <1>4, ZenonT(30) DEF StatutAbstrait, EnCours
  <2>. QED  BY <1>1, <1>4, <2>1 DEF EnCours, Statuts
<1>5. CASE st \in {"failed", "cancelled"}
  <2>1. StatutAbstrait(st) = "echouee"
    BY <1>5, ZenonT(30) DEF StatutAbstrait, EnCours
  <2>. QED  BY <1>1, <1>5, <2>1 DEF EnCours, Statuts
<1>6. CASE st = "refunded"
  <2>1. StatutAbstrait(st) = "remboursee"
    BY <1>6, ZenonT(30) DEF StatutAbstrait, EnCours
  <2>. QED  BY <1>1, <1>6, <2>1 DEF EnCours, Statuts
<1>. QED  BY <1>2, <1>3, <1>4, <1>5, <1>6 DEF EnCours, Statuts

\* The initial states are initial states of the register.
LEMMA RegistreInitial ==
  ASSUME Init
  PROVE  Registre!Init
<1>1. Types
  BY TypeInitial
<1>2. \A o \in Ordres : LignesDe(o) = {}
  BY DEF Init, LignesDe
<1>3. \A o \in Ordres : StatutAbstrait(tx[o]) = "aucune"
  BY <1>1, StatutDe DEF Init
<1>4. {l \in Lignes : ligne[l] = "payee"} = {}
  BY DEF Init
<1>5. courriels = [o \in Ordres |-> 0] /\ annulees = {}
  BY DEF Init
<1>. QED  BY <1>2, <1>3, <1>4, <1>5 DEF Registre!Init

\* Most steps of the handlers are invisible in the register.
LEMMA PasInvisible ==
  ASSUME UNCHANGED <<refDe, courriels, annulees>>, Payees' = Payees,
         \A o \in Ordres : StatutAbstrait(tx'[o]) = StatutAbstrait(tx[o])
  PROVE  UNCHANGED Registre!vars
<1>1. Objet' = Objet
  BY DEF Objet, LignesDe
<1>2. Statut' = Statut
  BY DEF Statut
<1>. QED  BY <1>1, <1>2 DEF Registre!vars, Objet, Statut, Payees

\* Creating an order at the provider is Commander.
LEMMA PasCommander ==
  ASSUME IInv, NEW s \in Sessions, CreerOrdre(s)
  PROVE  Registre!Next
<1>a. TypeOK /\ \A o \in Ordres : Creee(o)
  BY DEF IInv, Types
<1>1. PICK o \in Ordres : kopar[o] = Aucun /\ refDe' = [refDe EXCEPT ![o] = demande[s]]
  BY DEF CreerOrdre
<1>2. refDe[o] = Aucun /\ demande[s] \in Refs /\ demande[s] # Aucun
  BY <1>a, <1>1, HypRefs DEF TypeOK, Creee
<1>3. Objet[o] = {}
  BY <1>a, <1>2, ObjetNonVide
<1>4. Objet' = [Objet EXCEPT ![o] = Elements(Couvre[demande[s]])]
  BY <1>a, <1>1, <1>2 DEF TypeOK, Objet, LignesDe
<1>5. Elements(Couvre[demande[s]]) # {} /\ Elements(Couvre[demande[s]]) \subseteq Lignes
  BY <1>2, ReferenceNonVide
<1>6. UNCHANGED <<Statut, Payees, courriels, annulees>>
  BY DEF CreerOrdre, Statut, Payees
<1>7. Registre!Commander(o)
  BY <1>3, <1>4, <1>5, <1>6 DEF Registre!Commander, Objet, Statut, Payees
<1>. QED  BY <1>7 DEF Registre!Next

\* The commit of an initiation is Ouvrir, or nothing.
LEMMA PasOuvrir ==
  ASSUME IInv, NEW s \in Sessions, ValiderInitiation(s)
  PROVE  Registre!Next \/ UNCHANGED Registre!vars
<1>a. TypeOK /\ Controle(s) /\ Nouvelle(s) /\ Ecritures(s)
  BY DEF IInv, Types
<1>1. /\ role[s] = "initier" /\ UNCHANGED <<refDe, courriels, annulees>>
      /\ tx' = [p \in Ordres |-> IF p = cible[s] THEN "new" ELSE tx[p]]
      /\ ligne' = [l \in Lignes |-> IF l \in ecrites[s] THEN "due" ELSE ligne[l]]
  BY DEF ValiderInitiation, LignesValidees, Pose
<1>2. Payees' = Payees
  BY <1>a, <1>1 DEF Payees, Ecritures, Insere
<1>3. CASE cible[s] = Aucun
  <2>1. \A o \in Ordres : tx'[o] = tx[o]
    BY <1>1, <1>3, HypOrdres
  <2>. QED  BY <1>1, <1>2, <2>1, PasInvisible
<1>4. CASE cible[s] # Aucun
  <2>1. PICK o \in Ordres : o = cible[s]
    BY <1>a, <1>4 DEF TypeOK
  <2>2. tx[o] = Aucun /\ refDe[o] # Aucun
    BY <1>a, <1>1, <1>4, <2>1 DEF Nouvelle, Controle
  <2>3. Objet[o] # {} /\ Statut[o] = "aucune"
    BY <1>a, <2>2, ObjetNonVide, StatutDe DEF Statut
  <2>4. StatutAbstrait("new") = "ouverte"
    BY StatutDe DEF Statuts, EnCours
  <2>5. Statut' = [Statut EXCEPT ![o] = "ouverte"]
    BY <1>1, <2>1, <2>4 DEF Statut
  <2>6. Objet' = Objet
    BY <1>1 DEF Objet, LignesDe
  <2>7. Registre!Ouvrir(o)
    BY <1>1, <1>2, <2>3, <2>5, <2>6 DEF Registre!Ouvrir, Objet, Statut, Payees
  <2>. QED  BY <2>7 DEF Registre!Next
<1>. QED  BY <1>3, <1>4

\* The commit of a status: the abstract step depends on the status applied.
LEMMA PasStatut ==
  ASSUME IInv, NEW s \in Sessions, ValiderStatut(s)
  PROVE  Registre!Next \/ UNCHANGED Registre!vars
<1>a. TypeOK /\ Controle(s) /\ Application(s) /\ Creee(cible[s])
  BY DEF IInv, Types, ValiderStatut, Controle
<1>1. /\ role[s] = "appliquer" /\ etape[s] = "valider" /\ UNCHANGED <<refDe>>
      /\ tx' = [tx EXCEPT ![cible[s]] = nouveau[s]]
      /\ ligne' = [l \in Lignes |-> IF l \in ecrites[s] THEN "payee" ELSE ligne[l]]
      /\ annulees' = annulees \ ecrites[s]
  BY DEF ValiderStatut, LignesValidees, Pose
<1>2. PICK o \in Ordres : o = cible[s]
  BY <1>a, <1>1 DEF Controle
<1>3. tx[o] # Aucun /\ tx[o] \in Statuts /\ nouveau[s] \in Statuts
  BY <1>a, <1>1, <1>2 DEF TypeOK, Controle
<1>4. ~Ignore(tx[o], nouveau[s])
  BY <1>a, <1>1, <1>2 DEF Application
<1>5. Objet' = Objet
  BY <1>1 DEF Objet, LignesDe
<1>6. Statut' = [Statut EXCEPT ![o] = StatutAbstrait(nouveau[s])]
  BY <1>a, <1>1, <1>2 DEF Statut, TypeOK
<1>7. Statut[o] = StatutAbstrait(tx[o]) /\ Statut[o] # "aucune"
  BY <1>3, StatutDe DEF Statut
<1>8. Payees' = Payees \cup ecrites[s]
  BY <1>a, <1>1 DEF Payees, TypeOK
<1>b. courriels' = [courriels EXCEPT ![o] =
                     IF ecrites[s] = {} THEN @
                     ELSE IF \A l \in LignesDe(o) : ligne'[l] = "payee" THEN @ + 1 ELSE 0]
  BY <1>2 DEF ValiderStatut
<1>c. ecrites[s] # {} => courriels[o] = 0
  <2>1. Envoi(o) /\ VerrouTx(s, o)
    BY <1>1, <1>2 DEF IInv, VerrouTx
  <2>. QED  BY <2>1 DEF Envoi
<1>9. CASE nouveau[s] = "success"
  <2>1. /\ \A l \in LignesDe(o) : l \in ecrites[s] \/ Acquis(l)
        /\ ecrites[s] \subseteq LignesDe(o) /\ LignesDe(o) \subseteq Lignes
    BY <1>a, <1>1, <1>2, <1>9, ReferenceNonVide DEF Application, Elements, LignesDe, TypeOK
  <2>2. /\ annulees' \in SUBSET annulees /\ annulees \ annulees' \subseteq Objet[o]
        /\ Payees' = Payees \cup (Objet[o] \ annulees')
    <3>1. Objet[o] = LignesDe(o)
      BY DEF Objet
    <3>2. \A l \in Objet[o] \ annulees' : l \in ecrites[s] \/ l \in Payees
      BY <1>1, <2>1, <3>1 DEF Acquis, Payees
    <3>3. ecrites[s] \subseteq Objet[o] \ annulees'
      BY <1>1, <2>1, <3>1
    <3>. QED  BY <1>1, <1>8, <2>1, <3>1, <3>2, <3>3
  <2>3. StatutAbstrait(nouveau[s]) = "reglee"
    BY <1>3, <1>9, StatutDe
  <2>4. \/ UNCHANGED courriels
        \/ /\ courriels[o] = 0 /\ Objet[o] \subseteq Payees'
           /\ courriels' = [courriels EXCEPT ![o] = 1]
    <3>1. CASE ecrites[s] = {}
      BY <1>a, <1>b, <3>1 DEF TypeOK
    <3>2. CASE ecrites[s] # {} /\ \A l \in LignesDe(o) : ligne'[l] = "payee"
      <4>0. courriels[o] = 0
        BY <1>c, <3>2
      <4>1. courriels' = [courriels EXCEPT ![o] = courriels[o] + 1]
        BY <1>b, <3>2, Zenon
      <4>3. courriels' = [courriels EXCEPT ![o] = 1]
        BY <4>0, <4>1
      <4>2. Objet[o] \subseteq Payees'
        BY <2>1, <3>2 DEF Objet, Payees
      <4>. QED  BY <4>0, <4>2, <4>3
    <3>3. CASE ecrites[s] # {} /\ ~\A l \in LignesDe(o) : ligne'[l] = "payee"
      BY <1>a, <1>b, <1>c, <3>3 DEF TypeOK
    <3>. QED  BY <3>1, <3>2, <3>3
  <2>5. Registre!Encaisser(o)
    BY <1>5, <1>6, <1>7, <2>2, <2>3, <2>4 DEF Registre!Encaisser, Objet, Statut, Payees
  <2>. QED  BY <2>5 DEF Registre!Next
<1>10. ASSUME nouveau[s] # "success" PROVE Payees' = Payees /\ UNCHANGED <<courriels, annulees>>
  <2>1. ecrites[s] = {}
    BY <1>a, <1>1, <1>10 DEF Application
  <2>. QED  BY <1>a, <1>1, <1>8, <1>b, <2>1 DEF TypeOK
<1>11. CASE nouveau[s] \in {"failed", "cancelled"}
  <2>1. StatutAbstrait(nouveau[s]) = "echouee"
    BY <1>3, <1>11, StatutDe
  <2>2. Statut[o] # "reglee"
    BY <1>3, <1>4, <1>7, <1>11, StatutDe DEF Ignore
  <2>3. Registre!Echouer(o)
    BY <1>1, <1>5, <1>6, <1>7, <1>10, <1>11, <2>1, <2>2
    DEF Registre!Echouer, Objet, Statut, Payees
  <2>. QED  BY <2>3 DEF Registre!Next
<1>12. CASE nouveau[s] = "refunded"
  <2>1. StatutAbstrait(nouveau[s]) = "remboursee"
    BY <1>3, <1>12, StatutDe
  <2>2. Registre!Rembourser(o)
    BY <1>1, <1>5, <1>6, <1>7, <1>10, <1>12, <2>1
    DEF Registre!Rembourser, Objet, Statut, Payees
  <2>. QED  BY <2>2 DEF Registre!Next
<1>13. CASE nouveau[s] \in EnCours
  <2>1. tx[o] \in EnCours
    BY <1>3, <1>4, <1>13 DEF Ignore, Finaux, EnCours, Statuts
  <2>2. StatutAbstrait(nouveau[s]) = StatutAbstrait(tx[o])
    BY <1>3, <1>13, <2>1, StatutDe
  <2>3. nouveau[s] # "success"
    BY <1>13 DEF EnCours
  <2>4. Statut' = Statut
    BY <1>6, <1>7, <2>2 DEF Statut
  <2>. QED
    BY <1>1, <1>5, <1>10, <2>3, <2>4 DEF Registre!vars, Objet, Statut, Payees
<1>. QED  BY <1>3, <1>9, <1>11, <1>12, <1>13 DEF Statuts, EnCours

\* The commit of a manual payment is Saisir.
LEMMA PasSaisir ==
  ASSUME IInv, NEW s \in Sessions, ValiderManuel(s)
  PROVE  Registre!Next
<1>a. TypeOK
  BY DEF IInv, Types
<1>1. /\ UNCHANGED <<refDe, tx, courriels>> /\ annulees' = annulees \ ecrites[s]
      /\ ligne' = [l \in Lignes |-> IF l \in ecrites[s] THEN "payee" ELSE ligne[l]]
  BY DEF ValiderManuel, LignesValidees, Pose
<1>2. Payees' = Payees \cup ecrites[s] /\ ecrites[s] \subseteq Lignes
  BY <1>a, <1>1 DEF Payees, TypeOK
<1>3. UNCHANGED <<Objet, Statut>>
  BY <1>1 DEF Objet, Statut, LignesDe
<1>4. Registre!Saisir
  BY <1>1, <1>2, <1>3 DEF Registre!Saisir, Objet, Statut, Payees
<1>. QED  BY <1>4 DEF Registre!Next

\* Undoing one payment is Annuler; undoing none is invisible.
LEMMA PasAnnuler ==
  ASSUME TypeOK, NEW l \in Lignes, NEW D \in SUBSET {l}, D \subseteq Payees,
         UNCHANGED <<refDe, tx>>, Defaire(D), Payees' = Payees \ D
  PROVE  Registre!Next \/ UNCHANGED Registre!vars
<1>1. UNCHANGED <<Objet, Statut>>
  BY DEF Objet, Statut, LignesDe
<1>2. CASE D = {}
  <2>1. UNCHANGED <<courriels, annulees>> /\ Payees' = Payees
    BY <1>2 DEF Defaire, TypeOK
  <2>. QED  BY <2>1, PasInvisible
<1>3. CASE D = {l}
  <2>1. /\ l \in Payees /\ Payees' = Payees \ {l} /\ annulees' = annulees \cup {l}
        /\ courriels' = [o \in Ordres |-> IF l \in Objet[o] THEN 0 ELSE courriels[o]]
    BY <1>3 DEF Defaire, Objet
  <2>2. Registre!Annuler(l)
    BY <1>1, <2>1 DEF Registre!Annuler, Objet, Statut, Payees
  <2>. QED  BY <2>2 DEF Registre!Next
<1>. QED  BY <1>2, <1>3

\* The administrator's flag is Saisir, Annuler or nothing.
LEMMA PasConfirmer ==
  ASSUME IInv, NEW l \in Lignes, ConfirmerPaiement(l)
  PROVE  Registre!Next \/ UNCHANGED Registre!vars
<1>a. TypeOK
  BY DEF IInv, Types
<1>1. UNCHANGED <<refDe, tx>> /\ \A m \in Lignes \ {l} : ligne'[m] = ligne[m]
  BY <1>a, EffetConfirmation DEF ConfirmerPaiement
<1>2. CASE ligne'[l] = "payee" /\ annulees' = annulees \ {l} /\ courriels' = courriels
  <2>1. Payees' = Payees \cup {l}
    BY <1>1, <1>2 DEF Payees
  <2>2. UNCHANGED <<Objet, Statut>>
    BY <1>1 DEF Objet, Statut, LignesDe
  <2>3. \E S \in SUBSET Lignes : Payees' = Payees \cup S /\ annulees' = annulees \ S
    BY <1>2, <2>1
  <2>4. Registre!Saisir
    BY <1>2, <2>2, <2>3 DEF Registre!Saisir, Objet, Statut, Payees
  <2>. QED  BY <2>4 DEF Registre!Next
<1>3. CASE ligne'[l] = "due" /\ Defaire({l} \cap Payees)
  <2>1. Payees' = Payees \ ({l} \cap Payees)
    BY <1>1, <1>3 DEF Payees
  <2>2. {l} \cap Payees \in SUBSET {l} /\ {l} \cap Payees \subseteq Payees
    OBVIOUS
  <2>. QED  BY <1>a, <1>1, <1>3, <2>1, <2>2, PasAnnuler
<1>. QED  BY <1>a, <1>2, <1>3, EffetConfirmation

\* The commit of a generation is invisible; the monthly job's may be Annuler.
LEMMA PasMois ==
  ASSUME IInv, NEW s \in Sessions, ValiderMois(s)
  PROVE  Registre!Next \/ UNCHANGED Registre!vars
<1>a. TypeOK /\ Ecritures(s) /\ Lot(s)
  BY DEF IInv, Types
<1>. DEFINE D == {m \in ecrites[s] : ligne[m] = "payee"}
<1>1. /\ role[s] \in {"generer", "lot"} /\ UNCHANGED <<refDe, tx>> /\ Defaire(D)
      /\ \A m \in Lignes : ligne'[m] = (IF m \in ecrites[s] THEN Pose(s, m) ELSE ligne[m])
  BY DEF ValiderMois, LignesValidees
<1>2. D \in SUBSET {Precedent} /\ D \subseteq Payees
  BY <1>a, <1>1 DEF Ecritures, Lot, Insere, Payees, TypeOK
<1>3. \A m \in ecrites[s] : Pose(s, m) # "payee"
  BY <1>1 DEF Pose
<1>4. Payees' = Payees \ D
  <2>1. \A m \in Lignes : ligne'[m] = "payee" <=> ligne[m] = "payee" /\ m \notin ecrites[s]
    BY <1>1, <1>3
  <2>. QED  BY <1>a, <2>1 DEF Payees, TypeOK
<1>5. Precedent \in Lignes
  BY HypPrecedent DEF Mois
<1>. HIDE DEF D
<1>. QED  BY <1>a, <1>1, <1>2, <1>4, <1>5, PasAnnuler

\* Every step is a step of the register or a stutter.
LEMMA RegistreSuivant ==
  ASSUME IInv, Next
  PROVE  Registre!Next \/ UNCHANGED Registre!vars
<1>2. ASSUME UNCHANGED <<refDe, courriels, annulees, tx, ligne>> PROVE UNCHANGED Registre!vars
  BY <1>2, PasInvisible DEF Payees
<1>3. ASSUME NEW o \in Ordres, NEW st \in StatutsKopar, KoparEvolue(o, st)
      PROVE  UNCHANGED Registre!vars
  BY <1>2, <1>3 DEF KoparEvolue
<1>5. ASSUME NEW s \in Sessions, Commencer(s) \/ Abandonner(s) \/ Victime(s)
      PROVE  UNCHANGED Registre!vars
  BY <1>2, <1>5 DEF Commencer, RecevoirWebhook, RattrapageLister, ManuelDebut, InitierDebut,
     GenererDebut, LotDebut, Abandonner, Victime, base
<1>6. ASSUME NEW s \in Sessions,
             \/ RattrapageInterroger(s) \/ Verrouiller(s) \/ LireLigne(s)
             \/ EcrireLigne(s) \/ Consulter(s) \/ RefusKopar(s)
      PROVE  UNCHANGED Registre!vars
  BY <1>2, <1>6 DEF RattrapageInterroger, Verrouiller, LireLigne, EcrireLigne, Consulter,
     RefusKopar, base
<1>. QED
  BY <1>3, <1>5, <1>6, PasCommander, PasOuvrir, PasStatut, PasSaisir, PasConfirmer, PasMois
  DEF Next, Avancer, Appliquer, Initier

\* The handlers, interleaved at every SELECT, flush and commit, implement the
\* register in which settling an order is one step (appliquer_statut_kopar and
\* the commit of its caller), with one email per order until a row is undone.
THEOREM Raffinement == Spec => RaffineRegistre
<1>1. Init => Registre!Init
  BY RegistreInitial
<1>2. IInv /\ [Next]_vars => [Registre!Next]_(Registre!vars)
  <2>1. ASSUME UNCHANGED vars PROVE UNCHANGED Registre!vars
    <3>1. UNCHANGED <<refDe, courriels, annulees, tx, ligne>>
      BY <2>1 DEF vars, base
    <3>. QED  BY <3>1, PasInvisible DEF Payees
  <2>. QED  BY <2>1, RegistreSuivant
<1>. QED
  BY <1>1, <1>2, InvariantCorrect, PTL DEF Spec, RaffineRegistre, Registre!Spec
=============================================================================
