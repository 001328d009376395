------------------------- MODULE Cotisations_proofs -------------------------
(***************************************************************************)
(* Theorems about Cotisations, for any number of members, batches and      *)
(* sessions.                                                               *)
(***************************************************************************)
EXTENDS Cotisations, TLAPS

EtapesLot     == {"repos", "generer", "inserer", "echoir", "ecrire_echue", "fini", "conflit"}
EtapesSession == {"repos", "lire", "inserer", "modifier"}
Precedents    == Membres \X {"precedent"}
Courants      == Membres \X {"courant"}

\* What a transaction holds: a month it inserts is absent for the others, and
\* only a month of the past becomes echue.
Tient(a) ==
  \A c \in Lignes :
    /\ flushees[a][c] # "absente"
    /\ flushees[a][c] = "echue" => c \in Precedents
    /\ flushees[a][c] = "en_attente" => ligne[c] = "absente"

\* A batch under way: each member is still to visit, or has its month.
Genere(l) == \A m \in Membres : m \in afaire[l] \/ Vue(l, <<m, "courant">>) # "absente"
\* A batch marking the overdue months, its list not cut by LIMIT: each is still
\* to read, to flush, or done.
Solde(l) ==
  \A c \in Precedents :
    \/ Vue(l, c) # "en_attente"
    \/ c \in listees[l] \cup sales[l]
    \/ etape[l] = "ecrire_echue" /\ courante[l] = c
ControleLot(l) ==
  /\ etape[l] \in EtapesLot
  /\ etape[l] = "inserer" => courante[l] \in Courants
  /\ etape[l] = "ecrire_echue" => courante[l] \in Precedents
  /\ listees[l] \subseteq Precedents /\ sales[l] \subseteq Precedents
  /\ etape[l] \in {"echoir", "ecrire_echue"} => afaire[l] = {} /\ (tronquee[l] \/ Solde(l))
  /\ etape[l] \in {"generer", "inserer", "echoir", "ecrire_echue"} => Genere(l)
  /\ etape[l] = "fini" => \A m \in Membres : ligne[<<m, "courant">>] # "absente"
ControleSession(s) ==
  /\ etape[s] \in EtapesSession
  /\ etape[s] \in {"inserer", "modifier"} => courante[s] \in Lignes
  /\ objectif[s] = "creer" => etape[s] # "modifier"

IInv ==
  /\ TypeOK
  /\ \A a \in Auteurs : Tient(a)
  /\ \A l \in Lots : ControleLot(l)
  /\ \A s \in Sessions : ControleSession(s)
  /\ \A c \in Precedents : ligne[c] # "absente"

-----------------------------------------------------------------------------
(* Rows, batches and sessions *)

\* The rows of the two months are the rows.
LEMMA DeuxMois ==
  /\ Precedents \subseteq Lignes /\ Courants \subseteq Lignes
  /\ \A c \in Lignes : c \in Precedents \/ c \in Courants
  /\ \A c \in Courants : c \notin Precedents /\ c = <<c[1], "courant">> /\ c[1] \in Membres
  /\ \A m \in Membres : <<m, "courant">> \in Courants /\ <<m, "precedent">> \in Precedents
BY DEF Precedents, Courants, Lignes, Mois

\* A batch is not a session.
LEMMA Separes ==
  /\ Lots \subseteq Auteurs /\ Sessions \subseteq Auteurs /\ LotsCron \subseteq Lots
  /\ \A l \in Lots : l \notin Sessions
BY HypAuteurs DEF Auteurs, Lots

\* Nothing b holds, and nothing b sees, changes when a commits, but for rows a
\* held, which now have the statut a flushed.
LEMMA PublierLigne ==
  ASSUME IInv, NEW a \in Auteurs, Publier(a)
  PROVE  /\ ligne' \in [Lignes -> Statuts]
         /\ \A c \in Lignes : /\ ligne'[c] = Vue(a, c)
                              /\ ligne[c] # "absente" => ligne'[c] # "absente"
                              /\ c \in Courants /\ ligne[c] = "payee" => ligne'[c] = "payee"
                              /\ ligne'[c] = "en_attente" =>
                                   ligne[c] \in {"en_attente", "absente"}
         /\ \A b \in Auteurs \ {a} : \A c \in Lignes : Tenue(c, b) => ligne'[c] = ligne[c]
<1>. USE DEF IInv, TypeOK
<1>1. \A c \in Lignes : ligne'[c] = Vue(a, c)
  BY DEF Publier
<1>2. \A c \in Lignes : Vue(a, c) \in Statuts
  BY HypRien DEF Vue, Tenue
<1>3. ligne' \in [Lignes -> Statuts]
  BY <1>2 DEF Publier
<1>4. ASSUME NEW c \in Lignes
      PROVE  /\ ligne[c] # "absente" => ligne'[c] # "absente"
             /\ c \in Courants /\ ligne[c] = "payee" => ligne'[c] = "payee"
             /\ ligne'[c] = "en_attente" => ligne[c] \in {"en_attente", "absente"}
  <2>1. Tient(a)
    OBVIOUS
  <2>2. flushees[a][c] \in {Rien, "en_attente", "echue", "payee"}
    BY <2>1 DEF Tient, Statuts
  <2>3. Vue(a, c) \in {ligne[c], "en_attente", "echue", "payee"}
        /\ (Vue(a, c) = ligne[c] \/ Vue(a, c) = flushees[a][c])
    BY <2>2 DEF Vue, Tenue
  <2>. QED  BY <1>1, <2>1, <2>3, DeuxMois DEF Tient
<1>5. ASSUME NEW b \in Auteurs \ {a}, NEW c \in Lignes, Tenue(c, b)
      PROVE  ligne'[c] = ligne[c]
  BY <1>1, <1>5 DEF Vue
<1>. QED  BY <1>1, <1>3, <1>4, <1>5

\* A step of a leaves the others' programs alone.
AutresInchanges(a) ==
  /\ \A b \in Auteurs \ {a} : /\ flushees'[b] = flushees[b]
                              /\ etape'[b] = etape[b] /\ courante'[b] = courante[b]
  /\ \A l \in Lots \ {a} : /\ afaire'[l] = afaire[l] /\ listees'[l] = listees[l]
                           /\ sales'[l] = sales[l] /\ tronquee'[l] = tronquee[l]
  /\ \A s \in Sessions \ {a} : objectif'[s] = objectif[s]

\* What the others know stays true, whether a commits or not.
LEMMA Autres ==
  ASSUME IInv, NEW a \in Auteurs, AutresInchanges(a), UNCHANGED ligne \/ Publier(a)
  PROVE  /\ \A b \in Auteurs \ {a} : Tient(b)'
         /\ \A l \in Lots \ {a} : ControleLot(l)'
         /\ \A s \in Sessions \ {a} : ControleSession(s)'
         /\ \A c \in Precedents : ligne'[c] # "absente"
<1>1. /\ \A c \in Lignes : /\ ligne[c] # "absente" => ligne'[c] # "absente"
                           /\ ligne'[c] = "en_attente" =>
                                ligne[c] \in {"en_attente", "absente"}
      /\ \A b \in Auteurs \ {a} : \A c \in Lignes : Tenue(c, b) => ligne'[c] = ligne[c]
  BY PublierLigne
<1>2. \A b \in Auteurs \ {a} : \A c \in Lignes : Tenue(c, b)' = Tenue(c, b)
  BY DEF AutresInchanges, Tenue
<1>3. ASSUME NEW b \in Auteurs \ {a} PROVE Tient(b)'
  <2>. SUFFICES ASSUME NEW c \in Lignes
       PROVE  /\ flushees[b][c] # "absente"
              /\ flushees[b][c] = "echue" => c \in Precedents
              /\ flushees[b][c] = "en_attente" => ligne'[c] = "absente"
    BY DEF Tient, AutresInchanges, Precedents, Lignes, Mois
  <2>1. Tient(b)
    BY DEF IInv
  <2>2. flushees[b][c] = "en_attente" => Tenue(c, b)
    BY HypRien DEF Tenue, Statuts
  <2>. QED  BY <2>1, <2>2, <1>1 DEF Tient
<1>4. \A c \in Precedents : ligne'[c] # "absente"
  BY <1>1, DeuxMois DEF IInv
<1>5. ASSUME NEW l \in Lots \ {a} PROVE ControleLot(l)'
  <2>0. l \in Auteurs \ {a} /\ ControleLot(l)
    BY Separes DEF IInv
  <2>1. ASSUME NEW c \in Lignes
        PROVE  /\ Vue(l, c) # "absente" => Vue(l, c)' # "absente"
               /\ c \in Precedents /\ Vue(l, c) # "en_attente" => Vue(l, c)' # "en_attente"
    <3>1. CASE Tenue(c, l)
      BY <3>1, <2>0, <1>2 DEF Vue, AutresInchanges
    <3>2. CASE ~Tenue(c, l)
      BY <3>2, <2>0, <1>1, <1>2, DeuxMois DEF Vue, IInv
    <3>. QED  BY <3>1, <3>2
  <2>2. Genere(l) => Genere(l)'
    BY <2>1, DeuxMois DEF Genere, AutresInchanges
  <2>3. Solde(l) => Solde(l)'
    BY <2>0, <2>1, DeuxMois DEF Solde, AutresInchanges
  <2>4. (\A m \in Membres : ligne[<<m, "courant">>] # "absente") =>
        (\A m \in Membres : ligne'[<<m, "courant">>] # "absente")
    BY <1>1, DeuxMois
  <2>. QED  BY <2>0, <2>2, <2>3, <2>4 DEF ControleLot, AutresInchanges, Precedents, Courants
<1>6. ASSUME NEW s \in Sessions \ {a} PROVE ControleSession(s)'
  BY Separes DEF IInv, ControleSession, AutresInchanges
<1>. QED  BY <1>3, <1>4, <1>5, <1>6

\* A flush of a row nobody else holds: the types, and no row held twice.
LEMMA FlusherCorrect ==
  ASSUME IInv, NEW a \in Auteurs, NEW c \in Lignes, NEW st \in Statuts,
         Flusher(a, c, st), LibrePour(c, a)
  PROVE  /\ flushees' \in [Auteurs -> [Lignes -> Statuts \cup {Rien}]]
         /\ \A x, y \in Auteurs : \A d \in Lignes : Tenue(d, x)' /\ Tenue(d, y)' => x = y
         /\ \A d \in Lignes : flushees'[a][d] = IF d = c THEN st ELSE flushees[a][d]
         /\ \A b \in Auteurs \ {a} : flushees'[b] = flushees[b]
<1>. USE DEF IInv, TypeOK, Flusher
<1>1. /\ flushees' \in [Auteurs -> [Lignes -> Statuts \cup {Rien}]]
      /\ \A d \in Lignes : flushees'[a][d] = IF d = c THEN st ELSE flushees[a][d]
      /\ \A b \in Auteurs \ {a} : flushees'[b] = flushees[b]
  OBVIOUS
<1>2. \A x, y \in Auteurs : \A d \in Lignes : Tenue(d, x)' /\ Tenue(d, y)' => x = y
  BY <1>1 DEF Tenue, LibrePour
<1>. QED  BY <1>1, <1>2

\* The end of a transaction holds nothing, and moves only its own program.
LEMMA TerminerCorrect ==
  ASSUME IInv, NEW a \in Auteurs,
         NEW e \in {"repos", "fini", "conflit"}, Terminer(a, e)
  PROVE  /\ flushees' \in [Auteurs -> [Lignes -> Statuts \cup {Rien}]]
         /\ \A x, y \in Auteurs : \A d \in Lignes : Tenue(d, x)' /\ Tenue(d, y)' => x = y
         /\ \A d \in Lignes : flushees'[a][d] = Rien
         /\ courante' \in [Auteurs -> Lignes \cup {Rien}]
         /\ etape' \in [Auteurs -> EtapesLot \cup EtapesSession] /\ etape'[a] = e
         /\ \A b \in Auteurs \ {a} : /\ flushees'[b] = flushees[b]
                                     /\ etape'[b] = etape[b] /\ courante'[b] = courante[b]
<1>. USE DEF IInv, TypeOK, Terminer, Aucune, Vers
<1>1. /\ flushees' \in [Auteurs -> [Lignes -> Statuts \cup {Rien}]]
      /\ \A d \in Lignes : flushees'[a][d] = Rien
      /\ \A b \in Auteurs \ {a} : flushees'[b] = flushees[b]
  OBVIOUS
<1>2. \A x, y \in Auteurs : \A d \in Lignes : Tenue(d, x)' /\ Tenue(d, y)' => x = y
  BY <1>1 DEF Tenue
<1>3. /\ courante' \in [Auteurs -> Lignes \cup {Rien}]
      /\ etape' \in [Auteurs -> EtapesLot \cup EtapesSession] /\ etape'[a] = e
      /\ \A b \in Auteurs \ {a} : etape'[b] = etape[b] /\ courante'[b] = courante[b]
  BY DEF EtapesLot, EtapesSession
<1>. QED  BY <1>1, <1>2, <1>3

\* The invariant of a step is that of the transaction that takes it.
LEMMA Assemblage ==
  ASSUME IInv, NEW a \in Auteurs, TypeOK', AutresInchanges(a),
         UNCHANGED ligne \/ Publier(a), Tient(a)',
         a \in Lots => ControleLot(a)', a \in Sessions => ControleSession(a)'
  PROVE  IInv'
<1>1. \A b \in Auteurs : Tient(b)'
  BY Autres
<1>2. \A l \in Lots : ControleLot(l)'
  BY Autres
<1>3. \A s \in Sessions : ControleSession(s)'
  BY Autres
<1>4. \A c \in Precedents : ligne'[c] # "absente"
  BY Autres
<1>. QED  BY <1>1, <1>2, <1>3, <1>4 DEF IInv

\* A transaction that ended holds nothing.
LEMMA VideTient ==
  ASSUME NEW a, \A d \in Lignes : flushees'[a][d] = Rien
  PROVE  Tient(a)'
BY HypRien DEF Tient, Statuts, Lignes, Mois

-----------------------------------------------------------------------------
(* The steps of a batch *)

\* LotLancer.
LEMMA PasLancer == ASSUME IInv, NEW l \in Lots, LotLancer(l) PROVE IInv'
<1>0. l \in Auteurs /\ ControleLot(l) /\ Tient(l)
  BY Separes DEF IInv
<1>1. TypeOK'
  BY <1>0 DEF IInv, TypeOK, LotLancer, Vers, Session, Tenue
<1>2. AutresInchanges(l)
  BY <1>0 DEF AutresInchanges, LotLancer, Vers, Session, IInv, TypeOK
<1>3. etape'[l] = "generer" /\ Genere(l)'
  BY <1>0 DEF LotLancer, Vers, Genere, IInv, TypeOK
<1>4. ControleLot(l)'
  BY <1>0, <1>3 DEF ControleLot, LotLancer, EtapesLot, Precedents, Courants
<1>5. Tient(l)'
  BY <1>0 DEF LotLancer, Tient, Precedents, Lignes, Mois
<1>. QED  BY <1>0, <1>1, <1>2, <1>4, <1>5, Separes, Assemblage DEF LotLancer

\* LotVoir.
LEMMA PasVoir ==
  ASSUME IInv, NEW l \in Lots, NEW m \in Membres, LotVoir(l, m) PROVE IInv'
<1>0. l \in Auteurs /\ ControleLot(l) /\ Tient(l) /\ <<m, "courant">> \in Lignes
  BY Separes, DeuxMois DEF IInv
<1>1. TypeOK'
  <2>1. \A a, b \in Auteurs : \A c \in Lignes : Tenue(c, a)' /\ Tenue(c, b)' => a = b
    BY DEF IInv, TypeOK, LotVoir, Tenue
  <2>2. afaire' \in [Lots -> SUBSET Membres]
    BY DEF IInv, TypeOK, LotVoir, Suite
  <2>3. courante' \in [Auteurs -> Lignes \cup {Rien}]
    BY <1>0 DEF IInv, TypeOK, LotVoir
  <2>4. etape' \in [Auteurs -> {"repos", "generer", "inserer", "echoir", "ecrire_echue",
                               "fini", "conflit", "lire", "modifier"}]
    BY DEF IInv, TypeOK, LotVoir, Vers
  <2>. QED  BY <2>1, <2>2, <2>3, <2>4 DEF IInv, TypeOK, LotVoir, Session
<1>2. AutresInchanges(l)
  BY <1>0 DEF AutresInchanges, LotVoir, Vers, Session, IInv, TypeOK
<1>3. \A c \in Lignes : Vue(l, c)' = Vue(l, c)
  BY DEF LotVoir, Vue, Tenue
<1>4. Genere(l)'
  <2>1. \A k \in Membres : k \in afaire[l] \/ Vue(l, <<k, "courant">>) # "absente"
    BY <1>0 DEF ControleLot, Genere, LotVoir
  <2>2. \A k \in afaire[l] : k \in afaire'[l] \/ (k = m /\ Vue(l, <<m, "courant">>) # "absente")
    BY <1>0 DEF LotVoir, Suite, IInv, TypeOK
  <2>. QED  BY <2>1, <2>2, <1>3, DeuxMois DEF Genere
<1>5. ControleLot(l)'
  BY <1>0, <1>4, DeuxMois DEF ControleLot, LotVoir, Vers, EtapesLot, IInv, TypeOK, Precedents, Courants
<1>6. Tient(l)'
  BY <1>0 DEF LotVoir, Tient, Precedents, Lignes, Mois
<1>. QED  BY <1>0, <1>1, <1>2, <1>5, <1>6, Separes, Assemblage DEF LotVoir

\* LotInserer.
LEMMA PasInserer == ASSUME IInv, NEW l \in Lots, LotInserer(l) PROVE IInv'
<1>. DEFINE c == courante[l]
<1>0. /\ l \in Auteurs /\ ControleLot(l) /\ Tient(l)
      /\ c \in Courants /\ c \in Lignes /\ "en_attente" \in Statuts
  BY Separes, DeuxMois DEF IInv, ControleLot, LotInserer, Statuts
<1>1. /\ flushees' \in [Auteurs -> [Lignes -> Statuts \cup {Rien}]]
      /\ \A x, y \in Auteurs : \A d \in Lignes : Tenue(d, x)' /\ Tenue(d, y)' => x = y
      /\ \A d \in Lignes : flushees'[l][d] = IF d = c THEN "en_attente" ELSE flushees[l][d]
      /\ \A b \in Auteurs \ {l} : flushees'[b] = flushees[b]
  <2>. HIDE DEF c
  <2>. QED  BY <1>0, FlusherCorrect DEF LotInserer, c
<1>2. TypeOK'
  BY <1>0, <1>1 DEF IInv, TypeOK, LotInserer, Vers, Session
<1>3. AutresInchanges(l)
  BY <1>0, <1>1 DEF AutresInchanges, LotInserer, Vers, Session, IInv, TypeOK
<1>4. \A d \in Lignes : Vue(l, d)' = IF d = c THEN "en_attente" ELSE Vue(l, d)
  BY <1>0, <1>1, HypRien DEF Vue, Tenue, LotInserer
<1>5. Genere(l)'
  <2>1. \A k \in Membres : k \in afaire[l] \/ Vue(l, <<k, "courant">>) # "absente"
    BY <1>0 DEF ControleLot, Genere, LotInserer
  <2>2. \A k \in afaire[l] : k \in afaire'[l] \/ <<k, "courant">> = c
    BY <1>0, DeuxMois DEF LotInserer, IInv, TypeOK
  <2>. QED  BY <2>1, <2>2, <1>4, DeuxMois DEF Genere
<1>6. ControleLot(l)'
  BY <1>0, <1>5 DEF ControleLot, LotInserer, Vers, EtapesLot, IInv, TypeOK, Precedents, Courants
<1>7. Tient(l)'
  BY <1>0, <1>1, DeuxMois DEF LotInserer, Tient, Conflit, Precedents, Courants, Lignes, Mois
<1>. QED  BY <1>0, <1>2, <1>3, <1>6, <1>7, Separes, Assemblage DEF LotInserer

\* A batch that ends without committing.
LEMMA PasVider ==
  ASSUME IInv, NEW l \in Lots, NEW e \in {"repos", "conflit"},
         Terminer(l, e), Vider(l), UNCHANGED <<ligne, objectif, reste>>
  PROVE  IInv'
<1>0. l \in Auteurs /\ e \in {"repos", "fini", "conflit"}
  BY Separes
<1>1. TypeOK'
  BY <1>0, TerminerCorrect DEF IInv, TypeOK, Vider, EtapesLot, EtapesSession
<1>2. AutresInchanges(l)
  BY <1>0, TerminerCorrect DEF AutresInchanges, Vider, IInv, TypeOK
<1>3. ControleLot(l)'
  <2>1. listees'[l] = {} /\ sales'[l] = {}
    BY DEF Vider, IInv, TypeOK
  <2>. QED  BY <1>0, <2>1, TerminerCorrect DEF ControleLot, EtapesLot
<1>4. Tient(l)'
  BY <1>0, TerminerCorrect, VideTient
<1>. QED  BY <1>0, <1>1, <1>2, <1>3, <1>4, Separes, Assemblage

\* LotLister.
LEMMA PasLister == ASSUME IInv, NEW l \in Lots, LotLister(l) PROVE IInv'
<1>0. l \in Auteurs /\ ControleLot(l) /\ Tient(l)
  BY Separes DEF IInv
<1>9. PICK T \in SUBSET AEchoir(l) : /\ listees' = [listees EXCEPT ![l] = T]
                                     /\ tronquee' = [tronquee EXCEPT ![l] = (T # AEchoir(l))]
  BY DEF LotLister, Extraits
<1>8. AEchoir(l) \in SUBSET Lignes
  BY DEF AEchoir
<1>1. TypeOK'
  BY <1>0, <1>8, <1>9 DEF IInv, TypeOK, LotLister, Vers, Session, Tenue
<1>2. AutresInchanges(l)
  BY <1>0, <1>9 DEF AutresInchanges, LotLister, Vers, Session, IInv, TypeOK
<1>3. \A c \in Lignes : Vue(l, c)' = Vue(l, c)
  BY DEF LotLister, Vue, Tenue
<1>4. /\ listees'[l] \subseteq Precedents
      /\ tronquee'[l] \/ \A c \in Precedents : Vue(l, c) = "en_attente" => c \in listees'[l]
  <2>1. AEchoir(l) \subseteq Precedents
        /\ \A c \in Precedents : Vue(l, c) = "en_attente" => c \in AEchoir(l)
    BY DEF AEchoir, MoisEchu, Precedents, Lignes, Mois
  <2>2. listees'[l] = T /\ tronquee'[l] = (T # AEchoir(l))
    BY <1>0, <1>9 DEF IInv, TypeOK
  <2>. QED  BY <2>1, <2>2
<1>5. Genere(l)' /\ (tronquee'[l] \/ Solde(l)')
  BY <1>0, <1>3, <1>4, DeuxMois DEF ControleLot, Genere, Solde, LotLister
<1>6. ControleLot(l)'
  BY <1>0, <1>4, <1>5 DEF ControleLot, LotLister, Vers, EtapesLot, IInv, TypeOK, Precedents
<1>7. Tient(l)'
  BY <1>0 DEF LotLister, Tient, Precedents, Lignes, Mois
<1>. QED  BY <1>0, <1>1, <1>2, <1>6, <1>7, Separes, Assemblage DEF LotLister

\* LotLire.
LEMMA PasLotLire ==
  ASSUME IInv, NEW l \in Lots, NEW c \in Lignes, LotLire(l, c) PROVE IInv'
<1>0. l \in Auteurs /\ ControleLot(l) /\ Tient(l)
  BY Separes DEF IInv
<1>1. TypeOK'
  BY <1>0 DEF IInv, TypeOK, LotLire, Ecriture, Session, Tenue
<1>2. AutresInchanges(l)
  BY <1>0 DEF AutresInchanges, LotLire, Ecriture, Session, IInv, TypeOK
<1>3. \A d \in Lignes : Vue(l, d)' = Vue(l, d)
  BY DEF LotLire, Ecriture, Vue, Tenue
<1>4. /\ listees'[l] = listees[l] \ {c}
      /\ sales'[l] = IF Vue(l, c) = "en_attente" THEN sales[l] \cup {c} ELSE sales[l]
  BY <1>0 DEF LotLire, IInv, TypeOK
<1>5. Genere(l)'
  BY <1>0, <1>3 DEF ControleLot, Genere, LotLire, Ecriture, Lignes, Mois
<1>8. etape[l] = "echoir" /\ (tronquee[l] \/ Solde(l))
  BY <1>0 DEF ControleLot, LotLire
<1>9. ASSUME NEW d \in Precedents, d \in listees[l] \cup sales[l]
      PROVE  Vue(l, d)' # "en_attente" \/ d \in listees'[l] \cup sales'[l]
  <2>1. Vue(l, d)' = Vue(l, d)
    BY <1>3 DEF Precedents, Lignes, Mois
  <2>2. CASE d = c
    BY <1>4, <2>1, <2>2
  <2>3. CASE d # c
    BY <1>4, <1>9, <2>3
  <2>. QED  BY <2>2, <2>3
<1>10. tronquee'[l] \/ Solde(l)'
  BY <1>3, <1>8, <1>9, DeuxMois DEF Solde, LotLire
<1>6. ControleLot(l)'
  BY <1>0, <1>4, <1>5, <1>10 DEF ControleLot, LotLire, Ecriture, EtapesLot, Precedents
<1>7. Tient(l)'
  BY <1>0 DEF LotLire, Ecriture, Tient, Precedents, Lignes, Mois
<1>. QED  BY <1>0, <1>1, <1>2, <1>6, <1>7, Separes, Assemblage DEF LotLire

\* LotFlush.
LEMMA PasFlush ==
  ASSUME IInv, NEW l \in Lots, NEW c \in Lignes, LotFlush(l, c) PROVE IInv'
<1>0. l \in Auteurs /\ ControleLot(l) /\ Tient(l) /\ c \in Precedents
  BY Separes DEF IInv, ControleLot, LotFlush
<1>1. TypeOK'
  BY <1>0 DEF IInv, TypeOK, LotFlush, Vers, Session, Tenue
<1>2. AutresInchanges(l)
  BY <1>0 DEF AutresInchanges, LotFlush, Vers, Session, IInv, TypeOK
<1>3. \A d \in Lignes : Vue(l, d)' = Vue(l, d)
  BY DEF LotFlush, Vue, Tenue
<1>4. sales'[l] = sales[l] \ {c} /\ courante'[l] = c /\ etape'[l] = "ecrire_echue"
  BY <1>0 DEF LotFlush, Vers, IInv, TypeOK
<1>5. Genere(l)' /\ (tronquee'[l] \/ Solde(l)')
  BY <1>0, <1>3, <1>4, DeuxMois DEF ControleLot, Genere, Solde, LotFlush
<1>6. ControleLot(l)'
  BY <1>0, <1>4, <1>5 DEF ControleLot, LotFlush, EtapesLot, Precedents
<1>7. Tient(l)'
  BY <1>0 DEF LotFlush, Tient, Precedents, Lignes, Mois
<1>. QED  BY <1>0, <1>1, <1>2, <1>6, <1>7, Separes, Assemblage DEF LotFlush

\* LotEcrire.
LEMMA PasLotEcrire == ASSUME IInv, NEW l \in Lots, LotEcrire(l) PROVE IInv'
<1>. DEFINE c == courante[l]
<1>0. /\ l \in Auteurs /\ ControleLot(l) /\ Tient(l)
      /\ c \in Precedents /\ c \in Lignes /\ "echue" \in Statuts
  BY Separes, DeuxMois DEF IInv, ControleLot, LotEcrire, Statuts
<1>1. /\ flushees' \in [Auteurs -> [Lignes -> Statuts \cup {Rien}]]
      /\ \A x, y \in Auteurs : \A d \in Lignes : Tenue(d, x)' /\ Tenue(d, y)' => x = y
      /\ \A d \in Lignes : flushees'[l][d] = IF d = c THEN "echue" ELSE flushees[l][d]
      /\ \A b \in Auteurs \ {l} : flushees'[b] = flushees[b]
  <2>. HIDE DEF c
  <2>. QED  BY <1>0, FlusherCorrect DEF LotEcrire, c
<1>2. TypeOK'
  BY <1>0, <1>1 DEF IInv, TypeOK, LotEcrire, Vers, Lot, Session
<1>3. AutresInchanges(l)
  BY <1>0, <1>1 DEF AutresInchanges, LotEcrire, Vers, Lot, Session, IInv, TypeOK
<1>4. \A d \in Lignes : Vue(l, d)' = IF d = c THEN "echue" ELSE Vue(l, d)
  BY <1>0, <1>1, HypRien DEF Vue, Tenue, LotEcrire
<1>5. Genere(l)' /\ (tronquee'[l] \/ Solde(l)')
  BY <1>0, <1>4, DeuxMois DEF ControleLot, Genere, Solde, LotEcrire, Lot
<1>6. ControleLot(l)'
  BY <1>0, <1>5 DEF ControleLot, LotEcrire, Lot, Vers, EtapesLot, IInv, TypeOK, Precedents
<1>7. Tient(l)'
  BY <1>0, <1>1 DEF LotEcrire, Tient, Precedents, Lignes, Mois
<1>. QED  BY <1>0, <1>2, <1>3, <1>6, <1>7, Separes, Assemblage DEF LotEcrire

\* LotValider.
LEMMA PasLotValider == ASSUME IInv, NEW l \in Lots, LotValider(l) PROVE IInv'
<1>0. l \in Auteurs /\ ControleLot(l) /\ Publier(l) /\ Terminer(l, "fini")
  BY Separes DEF IInv, LotValider
<1>1. TypeOK'
  BY <1>0, TerminerCorrect, PublierLigne DEF IInv, TypeOK, LotValider, Lot, Session, EtapesLot, EtapesSession
<1>2. AutresInchanges(l)
  BY <1>0, TerminerCorrect DEF AutresInchanges, LotValider, Lot, Session
<1>3. \A m \in Membres : ligne'[<<m, "courant">>] # "absente"
  BY <1>0, PublierLigne, DeuxMois DEF ControleLot, Genere, LotValider
<1>4. ControleLot(l)'
  BY <1>0, <1>3, TerminerCorrect DEF ControleLot, EtapesLot, LotValider, Lot, Precedents
<1>5. Tient(l)'
  BY <1>0, TerminerCorrect, VideTient
<1>. QED  BY <1>0, <1>1, <1>2, <1>4, <1>5, Separes, Assemblage

-----------------------------------------------------------------------------
(* The steps of a session *)

\* Commencer.
LEMMA PasCommencer ==
  ASSUME IInv, NEW s \in Sessions, NEW m \in Membres, NEW p \in Parcours, Commencer(s, m, p)
  PROVE  IInv'
<1>0. s \in Auteurs /\ s \notin Lots /\ ControleSession(s) /\ Tient(s)
  BY Separes DEF IInv
<1>1. p[1] \in {"creer", "payer"} /\ p[2] \in Seq(Mois)
  BY HypParcours
<1>2. [i \in 1..Len(p[2]) |-> <<m, p[2][i]>>] \in Seq(Lignes)
  BY <1>1 DEF Lignes
<1>3. TypeOK'
  BY <1>0, <1>1, <1>2 DEF IInv, TypeOK, Commencer, Vers, Lot, Tenue
<1>4. AutresInchanges(s)
  BY <1>0 DEF AutresInchanges, Commencer, Vers, Lot, IInv, TypeOK
<1>5. ControleSession(s)'
  BY <1>0 DEF ControleSession, Commencer, Vers, EtapesSession, IInv, TypeOK
<1>6. Tient(s)'
  BY <1>0 DEF Commencer, Tient, Precedents, Lignes, Mois
<1>. QED  BY <1>0, <1>3, <1>4, <1>5, <1>6, Assemblage DEF Commencer

\* Lire.
LEMMA PasLire == ASSUME IInv, NEW s \in Sessions, Lire(s) PROVE IInv'
<1>. DEFINE c == Head(reste[s])
<1>0. s \in Auteurs /\ s \notin Lots /\ ControleSession(s) /\ Tient(s)
  BY Separes DEF IInv
<1>1. c \in Lignes /\ Tail(reste[s]) \in Seq(Lignes)
  BY DEF IInv, TypeOK, Lire
<1>2. /\ \/ UNCHANGED <<etape, courante>>
         \/ /\ AEcrire(s, Vue(s, c))
            /\ Vers(s, IF Vue(s, c) = "absente" THEN "inserer" ELSE "modifier")
            /\ courante' = [courante EXCEPT ![s] = c]
      /\ reste' = [reste EXCEPT ![s] = Tail(reste[s])]
      /\ UNCHANGED <<ligne, flushees, Lot, objectif>>
  BY DEF Lire, IInv, TypeOK
<1>. HIDE DEF c
<1>3. TypeOK'
  <2>1. \A a, b \in Auteurs : \A d \in Lignes : Tenue(d, a)' /\ Tenue(d, b)' => a = b
    BY <1>2 DEF IInv, TypeOK, Tenue
  <2>2. reste' \in [Sessions -> Seq(Lignes)]
    BY <1>1, <1>2 DEF IInv, TypeOK
  <2>3. courante' \in [Auteurs -> Lignes \cup {Rien}]
    BY <1>1, <1>2 DEF IInv, TypeOK
  <2>4. etape' \in [Auteurs -> {"repos", "generer", "inserer", "echoir", "ecrire_echue",
                               "fini", "conflit", "lire", "modifier"}]
    BY <1>2 DEF IInv, TypeOK, Vers
  <2>. QED  BY <1>2, <2>1, <2>2, <2>3, <2>4 DEF IInv, TypeOK, Lot
<1>4. AutresInchanges(s)
  BY <1>0, <1>2 DEF AutresInchanges, Vers, Lot, IInv, TypeOK
<1>5. ControleSession(s)'
  BY <1>0, <1>1, <1>2 DEF ControleSession, AEcrire, Vers, EtapesSession, IInv, TypeOK
<1>6. Tient(s)'
  BY <1>0, <1>2 DEF Tient, Precedents, Lignes, Mois
<1>. QED  BY <1>0, <1>2, <1>3, <1>4, <1>5, <1>6, Assemblage

\* Ecrire.
LEMMA PasEcrire == ASSUME IInv, NEW s \in Sessions, Ecrire(s) PROVE IInv'
<1>. DEFINE c == courante[s]
            st == IF objectif[s] = "creer" THEN "en_attente" ELSE "payee"
<1>0. /\ s \in Auteurs /\ s \notin Lots /\ ControleSession(s) /\ Tient(s)
      /\ c \in Lignes /\ st \in Statuts
  BY Separes DEF IInv, ControleSession, Ecrire, Statuts
<1>1. /\ flushees' \in [Auteurs -> [Lignes -> Statuts \cup {Rien}]]
      /\ \A x, y \in Auteurs : \A d \in Lignes : Tenue(d, x)' /\ Tenue(d, y)' => x = y
      /\ \A d \in Lignes : flushees'[s][d] = IF d = c THEN st ELSE flushees[s][d]
      /\ \A b \in Auteurs \ {s} : flushees'[b] = flushees[b]
  <2>1. Flusher(s, c, st) /\ LibrePour(c, s)
    BY DEF Ecrire
  <2>. HIDE DEF c, st
  <2>. QED  BY <1>0, <2>1, FlusherCorrect
<1>2. TypeOK'
  BY <1>0, <1>1 DEF IInv, TypeOK, Ecrire, Vers, Lot, Session
<1>3. AutresInchanges(s)
  BY <1>0, <1>1 DEF AutresInchanges, Ecrire, Vers, Lot, Session, IInv, TypeOK
<1>4. ControleSession(s)'
  BY <1>0 DEF ControleSession, Ecrire, Session, Vers, EtapesSession, IInv, TypeOK
<1>5. st = "en_attente" => ligne[c] = "absente"
  BY <1>0 DEF ControleSession, Ecrire, Conflit
<1>6. Tient(s)'
  BY <1>0, <1>1, <1>5 DEF Ecrire, Tient, Precedents, Lignes, Mois
<1>. QED  BY <1>0, <1>2, <1>3, <1>4, <1>6, Assemblage DEF Ecrire

\* Valider.
LEMMA PasValider == ASSUME IInv, NEW s \in Sessions, Valider(s) PROVE IInv'
<1>0. s \in Auteurs /\ s \notin Lots /\ Publier(s) /\ Terminer(s, "repos")
  BY Separes DEF IInv, Valider
<1>1. TypeOK'
  BY <1>0, TerminerCorrect, PublierLigne DEF IInv, TypeOK, Valider, Lot, Session, EtapesLot, EtapesSession
<1>2. AutresInchanges(s)
  BY <1>0, TerminerCorrect DEF AutresInchanges, Valider, Lot, Session
<1>3. ControleSession(s)'
  BY <1>0, TerminerCorrect DEF ControleSession, EtapesSession
<1>4. Tient(s)'
  BY <1>0, TerminerCorrect, VideTient
<1>. QED  BY <1>0, <1>1, <1>2, <1>3, <1>4, Assemblage

\* Abandonner.
LEMMA PasAbandonner == ASSUME IInv, NEW s \in Sessions, Abandonner(s) PROVE IInv'
<1>0. s \in Auteurs /\ s \notin Lots /\ Terminer(s, "repos")
  BY Separes DEF Abandonner
<1>1. TypeOK'
  BY <1>0, TerminerCorrect DEF IInv, TypeOK, Abandonner, Lot, EtapesLot, EtapesSession
<1>2. AutresInchanges(s)
  BY <1>0, TerminerCorrect DEF AutresInchanges, Abandonner, Lot
<1>3. ControleSession(s)'
  BY <1>0, TerminerCorrect DEF ControleSession, EtapesSession
<1>4. Tient(s)'
  BY <1>0, TerminerCorrect, VideTient
<1>. QED  BY <1>0, <1>1, <1>2, <1>3, <1>4, Assemblage DEF Abandonner

-----------------------------------------------------------------------------
(* The invariant *)

\* It holds initially.
LEMMA InvariantInitial == Init => IInv
<1>. SUFFICES ASSUME Init PROVE IInv
  OBVIOUS
<1>1. TypeOK
  BY DEF Init, TypeOK, Aucune, Tenue
<1>2. \A a \in Auteurs : Tient(a)
  BY HypRien DEF Init, Tient, Aucune, Statuts
<1>3. \A l \in Lots : ControleLot(l)
  BY Separes DEF Init, ControleLot, EtapesLot
<1>4. \A s \in Sessions : ControleSession(s)
  BY Separes DEF Init, ControleSession, EtapesSession
<1>5. ASSUME NEW c \in Precedents PROVE ligne[c] # "absente"
  <2>1. PICK m \in Membres : c = <<m, "precedent">>
    BY DEF Precedents, Lignes
  <2>. QED  BY <2>1 DEF Init
<1>. QED  BY <1>1, <1>2, <1>3, <1>4, <1>5 DEF IInv

\* Every step keeps it.
LEMMA InvariantSuivant == IInv /\ [Next]_vars => IInv'
<1>. SUFFICES ASSUME IInv, [Next]_vars PROVE IInv'
  OBVIOUS
<1>1. ASSUME NEW l \in Lots, LotConflit(l) PROVE IInv'
  BY <1>1, PasVider DEF LotConflit, Session
<1>2. ASSUME NEW l \in Lots, LotAbandonner(l) PROVE IInv'
  BY <1>2, PasVider DEF LotAbandonner, Session
<1>3. ASSUME NEW l \in Lots, AvancerLot(l) PROVE IInv'
  BY <1>1, <1>2, <1>3, PasLancer, PasVoir, PasInserer, PasLister, PasLotLire, PasFlush,
     PasLotEcrire, PasLotValider DEF AvancerLot
<1>4. ASSUME NEW s \in Sessions, AvancerSession(s) PROVE IInv'
  BY <1>4, PasCommencer, PasLire, PasEcrire, PasValider, PasAbandonner DEF AvancerSession
<1>5. CASE UNCHANGED vars
  <2>. USE <1>5 DEF vars, IInv
  <2>1. TypeOK'
    BY DEF TypeOK, Tenue
  <2>2. \A a \in Auteurs : Tient(a)'
    BY DEF Tient
  <2>3. \A l \in Lots : ControleLot(l)'
    BY DEF ControleLot, Genere, Solde, Vue, Tenue
  <2>4. \A s \in Sessions : ControleSession(s)'
    BY DEF ControleSession
  <2>. QED  BY <2>1, <2>2, <2>3, <2>4
<1>. QED  BY <1>3, <1>4, <1>5 DEF Next

-----------------------------------------------------------------------------
(* Theorems *)

\* What each transaction holds, and where each is, stay consistent at every step.
THEOREM InvariantCorrect == Spec => []IInv
BY InvariantInitial, InvariantSuivant, PTL DEF Spec

\* Types, and no row is ever held by two transactions.
THEOREM TypeCorrect == Spec => []TypeOK
<1>1. IInv => TypeOK
  BY DEF IInv
<1>. QED  BY <1>1, InvariantCorrect, PTL

\* A batch that committed has generated everybody's month.
THEOREM LotCorrect == Spec => []LotComplet
<1>1. IInv => LotComplet
  BY DEF IInv, LotComplet, ControleLot
<1>. QED  BY <1>1, InvariantCorrect, PTL

\* Only a commit changes rows.
LEMMA SeulPublie ==
  ASSUME IInv, [Next]_vars
  PROVE  UNCHANGED ligne \/ \E a \in Auteurs : Publier(a)
<1>1. ASSUME NEW l \in Lots, AvancerLot(l)
      PROVE  UNCHANGED ligne \/ \E a \in Auteurs : Publier(a)
  BY <1>1, Separes DEF AvancerLot, LotLancer, LotInserer, LotConflit, LotLister, LotEcrire,
     LotValider, LotAbandonner, LotVoir, LotLire, LotFlush
<1>2. ASSUME NEW s \in Sessions, AvancerSession(s)
      PROVE  UNCHANGED ligne \/ \E a \in Auteurs : Publier(a)
  BY <1>2, Separes DEF AvancerSession, Commencer, Lire, Ecrire, Valider, Abandonner
<1>. QED  BY <1>1, <1>2 DEF Next, vars

\* A payment of the current month is never undone.
THEOREM CourantCorrect == Spec => CourantPaye
<1>1. IInv /\ [Next]_vars =>
        [\A m \in Membres : ligne[<<m, "courant">>] = "payee" =>
                             ligne'[<<m, "courant">>] = "payee"]_vars
  BY SeulPublie, PublierLigne, DeuxMois
<1>. QED  BY <1>1, InvariantCorrect, PTL DEF Spec, CourantPaye

\* A batch that commits, its list not cut by LIMIT, leaves nobody's previous
\* month en_attente.
THEOREM SoldeCorrect == Spec => PrecedentSolde
<1>1. IInv =>
        \A l \in LotsCron : LotValider(l) /\ ~tronquee[l] =>
          \A m \in Membres : ligne'[<<m, "precedent">>] # "en_attente"
  <2>. SUFFICES ASSUME IInv, NEW l \in LotsCron, LotValider(l), ~tronquee[l], NEW m \in Membres
                PROVE  ligne'[<<m, "precedent">>] # "en_attente"
    OBVIOUS
  <2>1. l \in Lots /\ l \in Auteurs /\ ControleLot(l) /\ etape[l] = "echoir"
    BY Separes, HypAuteurs DEF IInv, LotValider
  <2>2. Vue(l, <<m, "precedent">>) # "en_attente"
    BY <2>1, DeuxMois DEF ControleLot, Solde, LotValider
  <2>. QED  BY <2>1, <2>2, PublierLigne, DeuxMois DEF LotValider
<1>. QED  BY <1>1, InvariantCorrect, PTL DEF PrecedentSolde
=============================================================================
