--------------------------- MODULE MoisDus_proofs ---------------------------
(***************************************************************************)
(* Theorems about MoisDus, for any calendar, parameters and requests.      *)
(***************************************************************************)
EXTENDS MoisDus, TLAPS

-----------------------------------------------------------------------------
(* The calendar *)

\* A date is a day of its month.
LEMMA DateDuMois ==
  ASSUME NEW d \in Nat
  PROVE  /\ Mois(d) \in Nat \ {0} /\ Jour(d) \in 1..J
         /\ d = Premier(Mois(d)) + Jour(d) - 1
<1>1. J \in Nat \ {0}
  BY HypCalendrier
<1>2. d \div J \in Nat /\ d % J \in 0..J - 1 /\ d = J * (d \div J) + (d % J)
  BY <1>1
<1>. QED  BY <1>1, <1>2 DEF Mois, Jour, Premier

\* The days of a month come before those of a later one.
LEMMA MoisCroissants ==
  ASSUME NEW m \in Nat, NEW k \in Nat, m < k
  PROVE  Premier(m) + J <= Premier(k)
<1>1. J \in Nat \ {0}
  BY HypCalendrier
<1>2. PICK e \in Nat : k = m + 1 + e
  <2>. WITNESS k - m - 1 \in Nat
  <2>. QED  OBVIOUS
<1>3. Premier(k) = Premier(m) + J + e * J
  BY <1>1, <1>2 DEF Premier
<1>4. e * J \in Nat
  BY <1>1, <1>2
<1>. QED  BY <1>1, <1>3, <1>4 DEF Premier

\* Dates count months from 1 to Horizon.
LEMMA MoisDate ==
  ASSUME NEW d \in Dates
  PROVE  Mois(d) \in LesMois
<1>1. J \in Nat \ {0} /\ Horizon \in Nat
  BY HypCalendrier
<1>2. d \in Nat /\ d < Premier(Horizon + 1)
  BY <1>1 DEF Dates, Premier
<1>3. Mois(d) \in Nat \ {0} /\ Premier(Mois(d)) <= d
  BY <1>1, <1>2, DateDuMois DEF Premier
<1>4. ~(Horizon + 1 < Mois(d))
  BY <1>1, <1>2, <1>3, MoisCroissants DEF Premier
<1>5. Mois(d) # Horizon + 1
  BY <1>1, <1>2, <1>3 DEF Premier
<1>. QED  BY <1>1, <1>3, <1>4, <1>5 DEF LesMois

\* The month determiner_premier_mois_cotisation computes is the first one owed.
THEOREM PremierMoisExact ==
  ASSUME validation \in Validations, NEW r
  PROVE  PremierMois(r, validation) \in LesMois /\ PremierDu(r) = PremierMois(r, validation)
<1>. DEFINE p == PremierMois(r, validation)
            q == Mois(validation)
<1>1. J \in Nat \ {0} /\ Horizon \in Nat
  BY HypCalendrier
<1>2. /\ validation \in Nat
      /\ q \in Nat \ {0} /\ Jour(validation) \in 1..J
      /\ validation = Premier(q) + Jour(validation) - 1
  BY HypCalendrier, DateDuMois
<1>3. q + 1 \in LesMois /\ q \in LesMois
  <2>1. validation < Premier(Horizon)
    BY <1>1, <1>2, HypCalendrier DEF Premier
  <2>2. Premier(q) <= validation
    BY <1>1, <1>2 DEF Premier
  <2>3. ~(Horizon < q) /\ Horizon # q
    BY <1>1, <1>2, <2>1, <2>2, MoisCroissants DEF Premier
  <2>. QED  BY <1>1, <1>2, <2>3 DEF LesMois
<1>4. p = IF Jour(validation) \in Grace(r) THEN q ELSE q + 1
  BY <1>2 DEF PremierMois, Grace
<1>5. ASSUME NEW m \in LesMois
      PROVE  Du(r, m) <=> p <= m
  <2>1. m \in Nat /\ Premier(m) \in Int /\ Premier(q) \in Int
    BY <1>1, <1>2 DEF LesMois, Premier
  <2>2. Grace(r) \subseteq 1..J
    BY DEF Grace
  <2>3. CASE q < m
    <3>1. validation < Premier(m)
      BY <1>1, <1>2, <2>1, <2>3, MoisCroissants
    <3>. QED  BY <1>2, <1>4, <2>1, <2>3, <3>1 DEF Du
  <2>4. CASE q = m
    <3>1. ~(validation < Premier(m))
      BY <1>1, <1>2, <2>1, <2>4
    <3>2. validation \in {Premier(m) + d - 1 : d \in Grace(r)} <=> Jour(validation) \in Grace(r)
      BY <1>1, <1>2, <2>1, <2>2, <2>4
    <3>. QED  BY <1>2, <1>4, <2>1, <2>4, <3>1, <3>2 DEF Du
  <2>5. CASE m < q
    <3>1. Premier(m) + J <= validation
      BY <1>1, <1>2, <2>1, <2>5, MoisCroissants
    <3>. QED  BY <1>1, <1>2, <1>4, <2>1, <2>2, <2>5, <3>1 DEF Du
  <2>. QED  BY <1>2, <2>1, <2>3, <2>4, <2>5
<1>6. p \in LesMois /\ Du(r, p)
  BY <1>3, <1>4, <1>5 DEF LesMois
<1>7. p \in LesMois /\ Du(r, p) /\ \A k \in LesMois : Du(r, k) => p <= k
  BY <1>5, <1>6
<1>8. ASSUME NEW m \in LesMois, Du(r, m), \A k \in LesMois : Du(r, k) => m <= k
      PROVE  m = p
  BY <1>5, <1>6, <1>8 DEF LesMois
<1>. HIDE DEF p
<1>9. PremierDu(r) = p
  BY <1>7, <1>8 DEF PremierDu
<1>. QED  BY <1>6, <1>9 DEF p

-----------------------------------------------------------------------------
(* The invariant *)

Tarif   == Montants \cup {Defaut}
Prix0   == Montants \cup {Absent, 0, Defaut}
Requete == [etape : Etapes, genre : Genres, premier : LesMois \cup {0}, fin : LesMois \cup {0},
            nombre : Periodes \cup {1}, reste : Seq(LesMois), prix : Prix0, ancre : Prix0,
            poses : SUBSET LesMois, ecrits : [LesMois -> Prix0]]

Types ==
  /\ jour \in Dates /\ validation \in Validations /\ modifs \in 0..MaxModifs
  /\ montant \in [LesMois -> Prix0]
  /\ commandes \subseteq LesMois \X Periodes
  /\ regles \in Seq(Lignes(Regles))
  /\ tarifs \in Seq(Lignes(Montants \cup {Defaut}))
  /\ semis \in [Workers -> [etape : {"arrete", "regle", "valider", "fait"}, date : Dates,
                            regle : BOOLEAN, tarif : BOOLEAN]]
  /\ session \in [Sessions -> Requete]

\* The unique key.
Cle == \A s \in Sessions : \A m \in LesMois :
         Tenu(s, m) => montant[m] = Absent /\ \A t \in Sessions \ {s} : ~Tenu(t, m)

\* What the parameters say now, a request under way has noted.
Note == \A s \in Sessions :
          /\ session[s].genre = "page" => PremiersDits \subseteq vus[s].premiers
          /\ session[s].genre \in AuMois => PrixDits \subseteq vus[s].prix
          /\ session[s].genre \in AuJour => JoursDits \subseteq vus[s].jours

\* The months of an order have a row.
Faites == \A c \in commandes : \A m \in Periode(c[1], c[2]) : m \in LesMois /\ montant[m] # Absent

\* A month that has a row, or has one from this request, or is still to be made by it.
Couvert(s, m) ==
  montant[m] # Absent \/ Tenu(s, m) \/ \E i \in DOMAIN session[s].reste : session[s].reste[i] = m

\* What a request holds at each step.
Controle(s) ==
  LET e == session[s] IN
  /\ e.etape = "repos" \/ e.genre = "aucun" => e = Repos
  /\ e.etape = "suite" => e.genre = "page"
  /\ e.etape = "courante" => e.genre \in {"page", "suggestion", "initier"}
  /\ e.etape \in {"courante", "suite", "prix", "reference"} => e.ecrits = SansMontants
  /\ e.etape = "inserer" => e.reste # <<>> /\ e.prix # Absent /\ e.prix \in Admis(s, Head(e.reste))

\* An initiation: its first month gets a row, then its others; nothing else is at
\* these steps.
Initiation(s) ==
  LET e == session[s] IN
  /\ e.etape \in {"prix", "reference"} => e.genre = "initier" /\ montant[e.fin] # Absent
  /\ e.etape = "commander" => e.genre = "commande" /\ e.reste = <<>>
  /\ e.genre \in {"initier", "commande"} /\ e.etape # "courante" =>
       e.fin \in LesMois /\ DansHorizon(e.fin, e.nombre)
  /\ e.genre = "initier" /\ e.etape \in {"mois", "inserer"} => Couvert(s, e.fin)
  /\ e.genre = "commande" =>
       /\ e.prix \in Tarif /\ e.prix \in vus[s].jours /\ montant[e.fin] # Absent
       /\ \A m \in Periode(e.fin, e.nombre) : Couvert(s, m)
  /\ \A m \in e.poses : montant[m] # Absent

\* The payment of an order meets the rows of its months.
Paiement(s) ==
  LET e == session[s] IN
  e.genre = "paiement" =>
    /\ e.etape = "mois" /\ e.ecrits = SansMontants
    /\ \A i \in DOMAIN e.reste : montant[e.reste[i]] # Absent

\* The months of a page: none before the first one owed, none missing up to the
\* current one.
Page(s) ==
  LET e == session[s] IN
  e.genre = "page" =>
    /\ e.etape \in {"courante", "suite"} =>
         e.premier \in vus[s].premiers /\ e.premier \in LesMois /\ e.fin = 0
    /\ e.etape \in {"mois", "inserer"} =>
         \E p \in vus[s].premiers :
           /\ p \in LesMois
           /\ \A m \in LesMois : Tenu(s, m) => p <= m
           /\ \A i \in DOMAIN e.reste : p <= e.reste[i]
           /\ \A m \in p..e.fin : Couvert(s, m)

\* The amounts of a request are those its kind may give.
AuTarif(s) == \A m \in LesMois : Tenu(s, m) => session[s].ecrits[m] \in Admis(s, m)

Reglee(s) == Controle(s) /\ Initiation(s) /\ Paiement(s) /\ Page(s) /\ AuTarif(s)
Requetes  == \A s \in Sessions : Reglee(s)
IInv == Types /\ Cle /\ Note /\ Faites /\ Requetes

-----------------------------------------------------------------------------
(* Lemmas about the operators *)

\* An amount that can be set or seeded is a number: there is a row.
LEMMA TarifsPositifs ==
  Tarif \subseteq Prix0 /\ Absent \notin Tarif
BY HypTarifs DEF Tarif, Prix0, Absent

\* A tariff is one of the amounts.
LEMMA TarifsConnus ==
  ASSUME Types, NEW d
  PROVE  TarifsA(d) \subseteq Tarif
<1>1. \A i \in DOMAIN tarifs : tarifs[i].valeur \in Montants \cup {Defaut}
  <2>1. \A i \in DOMAIN tarifs : tarifs[i] \in Lignes(Montants \cup {Defaut})
    BY DEF Types
  <2>. QED  BY <2>1 DEF Lignes
<1>2. EnVigueur(tarifs, d) \subseteq Montants \cup {Defaut}
  BY <1>1 DEF EnVigueur, Actives
<1>. QED  BY <1>2 DEF TarifsA, Tarif

\* A request at rest holds nothing.
LEMMA RienAuRepos ==
  /\ Repos.etape = "repos" /\ Repos.genre = "aucun" /\ Repos.fin = 0 /\ Repos.poses = {}
  /\ Repos.ecrits = SansMontants /\ Repos.nombre = 1 /\ Repos \in Requete
  /\ \A m \in LesMois : SansMontants[m] = Absent
<1>1. Horizon \in Nat
  BY HypCalendrier
<1>2. SansMontants \in [LesMois -> Prix0] /\ << >> \in Seq(LesMois)
  BY DEF SansMontants, Prix0
<1>. QED  BY <1>2 DEF Repos, Requete, Etapes, Genres, Prix0, SansMontants

\* What a history keeps of a step.
LEMMA Memoire ==
  ASSUME Noter, NEW s \in Sessions
  PROVE  /\ session'[s].genre = "page" =>
              vus[s].premiers \subseteq vus'[s].premiers /\ PremiersDits' \subseteq vus'[s].premiers
         /\ session'[s].genre \in AuMois =>
              vus[s].prix \subseteq vus'[s].prix /\ PrixDits' \subseteq vus'[s].prix
         /\ session'[s].genre \in AuJour =>
              vus[s].jours \subseteq vus'[s].jours /\ JoursDits' \subseteq vus'[s].jours
BY DEF Noter

\* What a request may give stays so.
LEMMA AdmisDure ==
  ASSUME Noter, NEW s \in Sessions, session'[s].genre = session[s].genre,
         session[s].genre \in Genres \ {"aucun"}, NEW m
  PROVE  Admis(s, m) \subseteq Admis(s, m)'
<1>1. CASE session[s].genre = "commande"
  BY <1>1, Memoire DEF Admis, AuJour
<1>2. CASE session[s].genre = "manuel"
  BY <1>2 DEF Admis
<1>3. CASE session[s].genre = "paiement"
  BY <1>3 DEF Admis
<1>4. CASE session[s].genre \in AuMois
  <2>1. vus[s].prix \subseteq vus'[s].prix
    BY <1>4, Memoire
  <2>2. /\ Admis(s, m) = {p \in Montants \cup {Defaut} : <<m, p>> \in vus[s].prix}
        /\ Admis(s, m)' = {p \in Montants \cup {Defaut} : <<m, p>> \in vus'[s].prix}
    BY <1>4 DEF Admis, AuMois
  <2>. QED  BY <2>1, <2>2
<1>. QED  BY <1>1, <1>2, <1>3, <1>4 DEF Genres, AuMois

\* The months in front of a queue and behind it.
LEMMA TeteEtReste ==
  ASSUME NEW S, NEW q \in Seq(S), q # << >>
  PROVE  /\ Head(q) \in S /\ Tail(q) \in Seq(S)
         /\ Head(q) = q[1] /\ 1 \in DOMAIN q
         /\ \A i \in DOMAIN q : q[i] = Head(q) \/ \E k \in DOMAIN Tail(q) : Tail(q)[k] = q[i]
         /\ \A k \in DOMAIN Tail(q) : \E i \in DOMAIN q : q[i] = Tail(q)[k]
<1>1. Head(q) \in S /\ Tail(q) \in Seq(S) /\ Head(q) = q[1] /\ 1 \in DOMAIN q
  OBVIOUS
<1>2. ASSUME NEW i \in DOMAIN q, i # 1
      PROVE  i - 1 \in DOMAIN Tail(q) /\ Tail(q)[i - 1] = q[i]
  BY <1>2
<1>3. ASSUME NEW k \in DOMAIN Tail(q)
      PROVE  k + 1 \in DOMAIN q /\ q[k + 1] = Tail(q)[k]
  BY <1>3
<1>. QED  BY <1>1, <1>2, <1>3

\* A queue of one month.
LEMMA Singleton ==
  ASSUME NEW S, NEW x \in S
  PROVE  <<x>> \in Seq(S) /\ DOMAIN <<x>> = {1} /\ <<x>>[1] = x
OBVIOUS

\* The months of an interval, in order; the interval may be empty.
LEMMA MoisDeExact ==
  ASSUME NEW p \in Nat, NEW f \in Nat, p <= f + 1, p..f \subseteq LesMois
  PROVE  /\ MoisDe(p, f) \in Seq(LesMois)
         /\ \A i \in DOMAIN MoisDe(p, f) : MoisDe(p, f)[i] \in p..f
         /\ \A m \in p..f : \E i \in DOMAIN MoisDe(p, f) : MoisDe(p, f)[i] = m
<1>. DEFINE n == f - p + 1
<1>2. n \in Nat
  OBVIOUS
<1>3. \A k \in 1..n : p + k - 1 \in p..f
  OBVIOUS
<1>4. MoisDe(p, f) \in [1..n -> LesMois]
  BY <1>3 DEF MoisDe
<1>5. MoisDe(p, f) \in Seq(LesMois) /\ DOMAIN MoisDe(p, f) = 1..n
  BY <1>2, <1>4
<1>6. \A k \in 1..n : MoisDe(p, f)[k] = p + k - 1
  BY DEF MoisDe
<1>7. ASSUME NEW m \in p..f
      PROVE  m - p + 1 \in 1..n /\ MoisDe(p, f)[m - p + 1] = m
  BY <1>2, <1>6
<1>8. \A i \in DOMAIN MoisDe(p, f) : MoisDe(p, f)[i] \in p..f
  <2>. HIDE DEF n
  <2>. QED  BY <1>3, <1>5, <1>6
<1>9. \A m \in p..f : \E i \in DOMAIN MoisDe(p, f) : MoisDe(p, f)[i] = m
  <2>. HIDE DEF n
  <2>. QED  BY <1>5, <1>7
<1>. QED  BY <1>5, <1>8, <1>9

\* The months of a period that ends before the horizon.
LEMMA PeriodeExacte ==
  ASSUME NEW p \in LesMois, NEW n \in Periodes \cup {1}, DansHorizon(p, n)
  PROVE  /\ p \in Nat /\ n \in Nat \ {0} /\ p + n - 1 \in Nat /\ p \in Periode(p, n)
         /\ Periode(p, n) \subseteq LesMois /\ Periode(p, n) = p..p + n - 1
BY HypCalendrier, HypPeriodes DEF Periode, DansHorizon, LesMois

\* Replacing an element of a sequence.
LEMMA Remplacer ==
  ASSUME NEW S, NEW q \in Seq(S), NEW i \in DOMAIN q, NEW x \in S
  PROVE  [q EXCEPT ![i] = x] \in Seq(S)
<1>1. q \in [1..Len(q) -> S] /\ Len(q) \in Nat
  OBVIOUS
<1>2. [q EXCEPT ![i] = x] \in [1..Len(q) -> S]
  BY <1>1
<1>. QED  BY <1>1, <1>2

-----------------------------------------------------------------------------
(* Types *)

LEMMA TypesInitiaux ==
  ASSUME Init
  PROVE  Types
<1>1. J \in Nat \ {0} /\ Horizon \in Nat
  BY HypCalendrier
<1>2. jour \in Dates /\ validation \in Validations
  BY <1>1, HypCalendrier DEF Init, Dates
<1>3. 0 \in Dates
  BY <1>1, <1>2 DEF Dates
<1>4. montant \in [LesMois -> Prix0]
  BY DEF Init, SansMontants, Prix0
<1>7. commandes \subseteq LesMois \X Periodes
  BY DEF Init
<1>5. regles \in Seq(Lignes(Regles)) /\ tarifs \in Seq(Lignes(Montants \cup {Defaut}))
  BY DEF Init
<1>6. modifs \in 0..MaxModifs
  BY HypBornes DEF Init
<1>. QED  BY <1>2, <1>3, <1>4, <1>5, <1>6, <1>7, RienAuRepos DEF Init, Types, NonSeme

LEMMA TypesAdministrer ==
  ASSUME Types, Administrer
  PROVE  Types'
<1>. DEFINE Semis == [etape : {"arrete", "regle", "valider", "fait"}, date : Dates,
                      regle : BOOLEAN, tarif : BOOLEAN]
<1>1. MaxModifs \in Nat /\ DatesModif \subseteq Dates /\ "mois_suivant" \in Regles
  BY HypBornes, HypRegles
<1>2. ASSUME NEW w \in Workers, SemerTarif(w) PROVE Types'
  <2>1. semis' \in [Workers -> Semis]
    BY <1>2 DEF SemerTarif, Types
  <2>. QED  BY <1>2, <2>1 DEF SemerTarif, Types
<1>3. ASSUME NEW w \in Workers, SemerRegle(w) PROVE Types'
  <2>. DEFINE aucune == Actives(regles, semis[w].date) = {}
  <2>1. aucune \in BOOLEAN
    OBVIOUS
  <2>2. semis' = [semis EXCEPT ![w].etape = "valider", ![w].regle = aucune]
    BY <1>3 DEF SemerRegle
  <2>3. semis' \in [Workers -> Semis]
    <3>. HIDE DEF aucune
    <3>. QED  BY <2>1, <2>2 DEF Types
  <2>. QED  BY <1>3, <2>3 DEF SemerRegle, Types
<1>4. ASSUME NEW w \in Workers, ValiderSemis(w) PROVE Types'
  <2>1. semis' \in [Workers -> Semis]
    BY <1>4 DEF ValiderSemis, Types
  <2>2. semis[w].date \in Dates
    BY DEF Types
  <2>3. /\ Parametre(semis[w].date, Defaut) \in Lignes(Montants \cup {Defaut})
        /\ Parametre(semis[w].date, "mois_suivant") \in Lignes(Regles)
    BY <1>1, <2>2 DEF Parametre, Lignes
  <2>4. tarifs' \in Seq(Lignes(Montants \cup {Defaut})) /\ regles' \in Seq(Lignes(Regles))
    BY <1>4, <2>3 DEF ValiderSemis, Types
  <2>. QED  BY <1>4, <2>1, <2>4 DEF ValiderSemis, Types
<1>5. ASSUME NEW w \in Workers, AbandonnerSemis(w) PROVE Types'
  <2>1. semis' \in [Workers -> Semis]
    BY <1>5 DEF AbandonnerSemis, Types
  <2>. QED  BY <1>5, <2>1 DEF AbandonnerSemis, Types
<1>6. ASSUME NEW V, NEW W \in SUBSET V, NEW p \in Lignes(V), NEW q \in Modifiee(p, W)
      PROVE  q \in Lignes(V)
  BY <1>1, <1>6 DEF Modifiee, Lignes
<1>7. ASSUME NEW i \in DOMAIN tarifs, ModifierTarif(i) PROVE Types'
  <2>1. tarifs[i] \in Lignes(Montants \cup {Defaut})
    BY DEF Types
  <2>2. PICK p \in Modifiee(tarifs[i], Montants) : tarifs' = [tarifs EXCEPT ![i] = p]
    BY <1>7 DEF ModifierTarif
  <2>3. p \in Lignes(Montants \cup {Defaut})
    BY <1>6, <2>1
  <2>4. tarifs' \in Seq(Lignes(Montants \cup {Defaut}))
    BY <2>2, <2>3, Remplacer DEF Types
  <2>5. modifs' \in 0..MaxModifs
    BY <1>1, <1>7 DEF ModifierTarif, Types
  <2>. QED  BY <1>7, <2>4, <2>5 DEF ModifierTarif, Types
<1>8. ASSUME NEW i \in DOMAIN regles, ModifierRegle(i) PROVE Types'
  <2>1. regles[i] \in Lignes(Regles)
    BY DEF Types
  <2>2. PICK p \in Modifiee(regles[i], Regles) : regles' = [regles EXCEPT ![i] = p]
    BY <1>8 DEF ModifierRegle
  <2>3. p \in Lignes(Regles)
    BY <1>6, <2>1
  <2>4. regles' \in Seq(Lignes(Regles))
    BY <2>2, <2>3, Remplacer DEF Types
  <2>5. modifs' \in 0..MaxModifs
    BY <1>1, <1>8 DEF ModifierRegle, Types
  <2>. QED  BY <1>8, <2>4, <2>5 DEF ModifierRegle, Types
<1>9. ASSUME Minuit PROVE Types'
  BY <1>9 DEF Minuit, Types
<1>. QED  BY <1>2, <1>3, <1>4, <1>5, <1>7, <1>8, <1>9 DEF Administrer

-----------------------------------------------------------------------------
(* A step of one request *)

\* The months up to the current one are months.
LEMMA MoisFactures ==
  ASSUME Types, NEW s \in Sessions, NEW p \in LesMois
  PROVE  p..session[s].fin \subseteq LesMois
<1>1. Horizon \in Nat /\ session[s].fin \in LesMois \cup {0}
  BY HypCalendrier DEF Types, Requete
<1>. QED  BY <1>1 DEF LesMois

\* Nothing but the request moves, and it holds what it held, or nothing.
LEMMA Discret ==
  ASSUME Types, Cle, Faites, NEW s \in Sessions, NEW e \in Requete,
         session' = [session EXCEPT ![s] = e], UNCHANGED <<montant, commandes, Parametres>>,
         e.ecrits = session[s].ecrits \/ e.ecrits = SansMontants
  PROVE  Types' /\ Cle' /\ Faites' /\ session'[s] = e
<1>1. session' \in [Sessions -> Requete] /\ session'[s] = e
  BY DEF Types
<1>2. Types'
  BY <1>1 DEF Types, Parametres
<1>3. ASSUME NEW t \in Sessions, NEW m \in LesMois, Tenu(t, m)'
      PROVE  Tenu(t, m)
  <2>1. CASE t = s
    BY <1>1, <1>3, <2>1, RienAuRepos DEF Tenu
  <2>2. CASE t # s
    BY <1>3, <2>2 DEF Tenu, Types
  <2>. QED  BY <2>1, <2>2
<1>4. Cle'
  BY <1>3 DEF Cle, Parametres
<1>5. Faites'
  BY DEF Faites
<1>. QED  BY <1>1, <1>2, <1>4, <1>5

\* A request at rest has nothing to keep.
LEMMA Repose ==
  ASSUME NEW s \in Sessions, session'[s] = Repos
  PROVE  Reglee(s)'
<1>1. Controle(s)' /\ Initiation(s)' /\ Paiement(s)' /\ Page(s)'
  BY RienAuRepos DEF Controle, Initiation, Paiement, Page
<1>2. AuTarif(s)'
  BY RienAuRepos DEF AuTarif, Tenu
<1>. QED  BY <1>1, <1>2 DEF Reglee

\* A request that holds no month and has no amount to justify.
LEMMA MainsVides ==
  ASSUME NEW s \in Sessions, session'[s].ecrits = SansMontants
  PROVE  AuTarif(s)' /\ \A m \in LesMois : ~Tenu(s, m)'
BY RienAuRepos DEF AuTarif, Tenu

\* What another request does leaves this one as it was: a month that has a row
\* keeps it, and a history only grows.
LEMMA Immobile ==
  ASSUME Types, NEW s \in Sessions, session'[s] = session[s], Noter, Reglee(s),
         \A m \in LesMois : montant[m] # Absent => montant'[m] # Absent
  PROVE  Reglee(s)'
<1>1. CASE session[s] = Repos
  BY <1>1, Repose
<1>2. CASE session[s] # Repos
  <2>. USE DEF Reglee
  <2>1. session[s] \in Requete /\ session[s].genre \in Genres \ {"aucun"}
    BY <1>2 DEF Types, Requete, Controle
  <2>2. /\ session[s].reste \in Seq(LesMois) /\ session[s].poses \subseteq LesMois
        /\ session[s].fin \in LesMois \cup {0} /\ session[s].nombre \in Periodes \cup {1}
    BY <2>1 DEF Requete
  <2>3. \A m \in LesMois : (Tenu(s, m)' <=> Tenu(s, m)) /\ (Couvert(s, m) => Couvert(s, m)')
    BY DEF Tenu, Couvert
  <2>4. \A m : Admis(s, m) \subseteq Admis(s, m)'
    BY <2>1, AdmisDure
  <2>5. Controle(s)'
    BY <2>4 DEF Controle
  <2>6. AuTarif(s)'
    BY <2>3, <2>4 DEF AuTarif
  <2>7. Paiement(s)'
    <3>1. \A i \in DOMAIN session[s].reste : session[s].reste[i] \in LesMois
      BY <2>2
    <3>. QED  BY <3>1 DEF Paiement
  <2>8. Initiation(s)'
    <3>1. session[s].genre = "commande" =>
            /\ session[s].prix \in vus'[s].jours /\ montant'[session[s].fin] # Absent
            /\ \A m \in Periode(session[s].fin, session[s].nombre) : Couvert(s, m)'
      <4>1. SUFFICES ASSUME session[s].genre = "commande"
                     PROVE  /\ session[s].prix \in vus'[s].jours /\ montant'[session[s].fin] # Absent
                            /\ \A m \in Periode(session[s].fin, session[s].nombre) : Couvert(s, m)'
        OBVIOUS
      <4>2. session[s].prix \in vus'[s].jours
        BY <4>1, Memoire DEF Initiation, AuJour
      <4>3. session[s].etape # "courante"
        BY <4>1 DEF Controle
      <4>4. session[s].fin \in LesMois /\ DansHorizon(session[s].fin, session[s].nombre)
        BY <4>1, <4>3 DEF Initiation
      <4>5. Periode(session[s].fin, session[s].nombre) \subseteq LesMois
        BY <2>2, <4>4, PeriodeExacte
      <4>. QED  BY <2>3, <4>1, <4>2, <4>4, <4>5 DEF Initiation
    <3>2. session[s].etape \in {"prix", "reference"} => montant'[session[s].fin] # Absent
      BY DEF Initiation
    <3>3. session[s].genre = "initier" /\ session[s].etape \in {"mois", "inserer"} =>
            Couvert(s, session[s].fin)'
      BY <2>3 DEF Initiation
    <3>4. \A m \in session[s].poses : montant'[m] # Absent
      BY <2>2 DEF Initiation
    <3>. QED  BY <3>1, <3>2, <3>3, <3>4 DEF Initiation
  <2>9. Page(s)'
    <3>1. SUFFICES ASSUME session[s].genre = "page", session[s].etape \in {"mois", "inserer"}
                   PROVE  Page(s)'
      BY Memoire DEF Page
    <3>2. PICK p \in vus[s].premiers :
            /\ p \in LesMois
            /\ \A m \in LesMois : Tenu(s, m) => p <= m
            /\ \A i \in DOMAIN session[s].reste : p <= session[s].reste[i]
            /\ \A m \in p..session[s].fin : Couvert(s, m)
      BY <3>1 DEF Page
    <3>3. \A m \in p..session[s].fin : Couvert(s, m)'
      <4>1. p..session[s].fin \subseteq LesMois
        BY <3>2, MoisFactures
      <4>. QED  BY <2>3, <3>2, <4>1
    <3>4. p \in vus'[s].premiers
      BY <3>1, Memoire
    <3>. QED  BY <2>3, <3>1, <3>2, <3>3, <3>4 DEF Page
  <2>. QED  BY <2>5, <2>6, <2>7, <2>8, <2>9
<1>. QED  BY <1>1, <1>2

\* The parameters do not move: they say what they said.
LEMMA DitStable ==
  ASSUME jour' = jour, validation' = validation, regles' = regles, tarifs' = tarifs
  PROVE  PremiersDits' = PremiersDits /\ PrixDits' = PrixDits /\ JoursDits' = JoursDits
BY DEF PremiersDits, PrixDits, JoursDits, PremierDu, Du, ReglesA, TarifsA, EnVigueur, Actives

\* The first month of a rule in force.
LEMMA PremierDit ==
  ASSUME Types, NEW r \in ReglesA(jour)
  PROVE  /\ PremierMois(r, validation) \in LesMois
         /\ PremierMois(r, validation) \in PremiersDits
BY PremierMoisExact DEF Types, PremiersDits

\* What the request that moves keeps: one lemma for each action.
Tient(s) == Types' /\ Cle' /\ Faites' /\ Reglee(s)'
Avant(s) == Types /\ Cle /\ Note /\ Faites /\ Reglee(s) /\ Noter

LEMMA PasOuvrir ==
  ASSUME NEW s \in Sessions, Avant(s), Ouvrir(s)
  PROVE  Tient(s)
<1>1. PICK r \in ReglesA(jour) :
        session' = [session EXCEPT ![s].etape = "courante", ![s].genre = "page",
                                   ![s].premier = PremierMois(r, validation)]
  BY DEF Ouvrir
<1>. DEFINE e == [Repos EXCEPT !.etape = "courante", !.genre = "page",
                               !.premier = PremierMois(r, validation)]
<1>2. PremierMois(r, validation) \in LesMois /\ PremierMois(r, validation) \in PremiersDits
  BY PremierDit DEF Avant
<1>3. e \in Requete /\ e.ecrits = SansMontants
  BY <1>2, RienAuRepos DEF Requete, Etapes, Genres, Repos
<1>4. session' = [session EXCEPT ![s] = e]
  BY <1>1 DEF Ouvrir, Avant, Types
<1>5. Types' /\ Cle' /\ Faites' /\ session'[s] = e
  BY <1>3, <1>4, Discret DEF Avant, Ouvrir
<1>6. e.etape = "courante" /\ e.genre = "page" /\ e.fin = 0 /\ e.poses = {}
      /\ e.premier = PremierMois(r, validation)
  BY DEF Repos
<1>7. PremiersDits' = PremiersDits
  BY DitStable DEF Ouvrir, Parametres
<1>. HIDE DEF e
<1>8. PremiersDits' \subseteq vus'[s].premiers
  BY <1>5, <1>6, Memoire DEF Avant
<1>9. Controle(s)' /\ Initiation(s)' /\ Paiement(s)'
  BY <1>3, <1>5, <1>6 DEF Controle, Initiation, Paiement
<1>10. Page(s)'
  BY <1>2, <1>5, <1>6, <1>7, <1>8 DEF Page
<1>11. AuTarif(s)'
  BY <1>3, <1>5, MainsVides
<1>. QED  BY <1>5, <1>9, <1>10, <1>11 DEF Tient, Reglee

LEMMA PasDemander ==
  ASSUME NEW s \in Sessions, NEW g \in {"initier", "suggestion"}, NEW n \in Periodes \cup {1},
         Avant(s), Demander(s, g, n)
  PROVE  Tient(s)
<1>. DEFINE e == [Repos EXCEPT !.etape = "courante", !.genre = g, !.nombre = n]
<1>1. /\ e \in Requete /\ e.ecrits = SansMontants /\ e.etape = "courante" /\ e.genre = g
      /\ e.poses = {}
  BY RienAuRepos DEF Requete, Etapes, Genres, Repos
<1>2. session' = [session EXCEPT ![s] = e]
  BY DEF Demander, Avant, Types
<1>. HIDE DEF e
<1>3. Types' /\ Cle' /\ Faites' /\ session'[s] = e
  BY <1>1, <1>2, Discret DEF Avant, Demander
<1>4. Controle(s)' /\ Initiation(s)' /\ Paiement(s)' /\ Page(s)'
  BY <1>1, <1>3 DEF Controle, Initiation, Paiement, Page
<1>5. AuTarif(s)'
  BY <1>1, <1>3, MainsVides
<1>. QED  BY <1>3, <1>4, <1>5 DEF Tient, Reglee

LEMMA PasViser ==
  ASSUME NEW s \in Sessions, NEW m \in LesMois, Avant(s), Viser(s, m)
  PROVE  Tient(s)
<1>. DEFINE e == [Repos EXCEPT !.etape = "prix", !.genre = "initier", !.fin = m]
<1>1. /\ e \in Requete /\ e.ecrits = SansMontants /\ e.etape = "prix" /\ e.genre = "initier"
      /\ e.poses = {} /\ e.fin = m /\ e.nombre = 1
  BY RienAuRepos DEF Requete, Etapes, Genres, Repos
<1>2. session' = [session EXCEPT ![s] = e]
  BY DEF Viser, Avant, Types
<1>. HIDE DEF e
<1>3. Types' /\ Cle' /\ Faites' /\ session'[s] = e
  BY <1>1, <1>2, Discret DEF Avant, Viser
<1>4. DansHorizon(m, 1) /\ montant'[m] # Absent
  BY HypCalendrier DEF DansHorizon, LesMois, Viser
<1>5. Controle(s)' /\ Initiation(s)' /\ Paiement(s)' /\ Page(s)'
  BY <1>1, <1>3, <1>4 DEF Controle, Initiation, Paiement, Page
<1>6. AuTarif(s)'
  BY <1>1, <1>3, MainsVides
<1>. QED  BY <1>3, <1>5, <1>6 DEF Tient, Reglee

LEMMA PasParcourir ==
  ASSUME NEW s \in Sessions, NEW g \in {"lot", "manuel"}, NEW p \in LesMois,
         NEW n \in Periodes \cup {1}, Avant(s), Parcourir(s, g, p, n)
  PROVE  Tient(s)
<1>. DEFINE e == [Repos EXCEPT !.etape = "mois", !.genre = g, !.reste = MoisDe(p, p + n - 1)]
<1>0. DansHorizon(p, n)
  BY DEF Parcourir
<1>a. p \in Nat /\ p + n - 1 \in Nat /\ p <= p + n - 1 + 1 /\ p..p + n - 1 \subseteq LesMois
  BY <1>0, PeriodeExacte
<1>1. MoisDe(p, p + n - 1) \in Seq(LesMois)
  BY <1>a, MoisDeExact
<1>2. e \in Requete /\ e.ecrits = SansMontants /\ e.etape = "mois" /\ e.genre = g /\ e.poses = {}
  BY <1>1, RienAuRepos DEF Requete, Etapes, Genres, Repos
<1>3. session' = [session EXCEPT ![s] = e]
  BY DEF Parcourir, Avant, Types
<1>. HIDE DEF e
<1>4. Types' /\ Cle' /\ Faites' /\ session'[s] = e
  BY <1>2, <1>3, Discret DEF Avant, Parcourir
<1>5. Controle(s)' /\ Initiation(s)' /\ Paiement(s)' /\ Page(s)'
  BY <1>2, <1>4 DEF Controle, Initiation, Paiement, Page
<1>6. AuTarif(s)'
  BY <1>2, <1>4, MainsVides
<1>. QED  BY <1>4, <1>5, <1>6 DEF Tient, Reglee

LEMMA PasEncaisser ==
  ASSUME NEW s \in Sessions, NEW c \in commandes, Avant(s), Encaisser(s, c)
  PROVE  Tient(s)
<1>. DEFINE q == MoisDe(c[1], c[1] + c[2] - 1)
            e == [Repos EXCEPT !.etape = "mois", !.genre = "paiement", !.fin = c[1], !.reste = q]
<1>1. c[1] \in LesMois /\ c[2] \in Periodes
  BY DEF Avant, Types
<1>2. c[1] \in Nat /\ c[2] \in Nat \ {0}
  <2>1. \A m \in LesMois : m \in Nat
    BY HypCalendrier DEF LesMois
  <2>2. \A n \in Periodes : n \in Nat \ {0}
    BY HypPeriodes
  <2>. QED  BY <1>1, <2>1, <2>2
<1>3. \A m \in c[1]..c[1] + c[2] - 1 : m \in LesMois /\ montant[m] # Absent
  BY DEF Avant, Faites, Periode
<1>4. q \in Seq(LesMois) /\ \A i \in DOMAIN q : montant[q[i]] # Absent
  <2>1. c[1] + c[2] - 1 \in Nat /\ c[1] <= c[1] + c[2] - 1 + 1
    BY <1>2
  <2>. QED  BY <1>2, <1>3, <2>1, MoisDeExact
<1>. HIDE DEF q
<1>5. /\ e \in Requete /\ e.ecrits = SansMontants /\ e.etape = "mois" /\ e.genre = "paiement"
      /\ e.poses = {} /\ e.reste = q
  BY <1>1, <1>4, RienAuRepos DEF Requete, Etapes, Genres, Repos
<1>6. session' = [session EXCEPT ![s] = e]
  BY DEF Encaisser, Avant, Types, q
<1>. HIDE DEF e
<1>7. Types' /\ Cle' /\ Faites' /\ session'[s] = e
  BY <1>5, <1>6, Discret DEF Avant, Encaisser
<1>8. montant' = montant
  BY DEF Encaisser
<1>9. Controle(s)' /\ Initiation(s)' /\ Paiement(s)' /\ Page(s)'
  BY <1>4, <1>5, <1>7, <1>8 DEF Controle, Initiation, Paiement, Page
<1>10. AuTarif(s)'
  BY <1>5, <1>7, MainsVides
<1>. QED  BY <1>7, <1>9, <1>10 DEF Tient, Reglee

LEMMA PasLireCourante ==
  ASSUME NEW s \in Sessions, Avant(s), LireCourante(s)
  PROVE  Tient(s)
<1>. DEFINE g == session[s].genre
            n == session[s].nombre
<1>1. PICK c \in LesMois : c = Mois(jour)
  BY MoisDate DEF Avant, Types
<1>2. /\ session[s] \in Requete /\ session[s].etape = "courante" /\ session[s].ecrits = SansMontants
      /\ g \in {"page", "suggestion", "initier"}
      /\ \A m \in session[s].poses : montant[m] # Absent
  BY DEF Avant, Types, Reglee, Controle, Initiation, LireCourante
<1>3. g = "page" => session[s].premier \in vus[s].premiers /\ session[s].premier \in LesMois
                    /\ session[s].fin = 0
  BY <1>2 DEF Avant, Reglee, Page
<1>4. ASSUME NEW e \in Requete, session' = [session EXCEPT ![s] = e], e.ecrits = SansMontants
      PROVE  Types' /\ Cle' /\ Faites' /\ session'[s] = e /\ AuTarif(s)'
  <2>1. Types' /\ Cle' /\ Faites' /\ session'[s] = e
    BY <1>4, Discret DEF Avant, LireCourante
  <2>. QED  BY <1>4, <2>1, MainsVides
<1>5. montant' = montant /\ DansHorizon(c, n)
  BY <1>1 DEF LireCourante
<1>6. CASE montant[c] # Absent /\ g = "initier"
  <2>. DEFINE e == [session[s] EXCEPT !.etape = "prix", !.fin = c]
  <2>1. session' = [session EXCEPT ![s] = e]
    BY <1>1, <1>2, <1>6 DEF LireCourante, Avant, Types
  <2>2. /\ e \in Requete /\ e.ecrits = SansMontants /\ e.etape = "prix" /\ e.genre = g /\ e.fin = c
        /\ e.nombre = n /\ e.poses = session[s].poses
    BY <1>1, <1>2 DEF Requete, Etapes
  <2>. HIDE DEF e
  <2>3. Types' /\ Cle' /\ Faites' /\ session'[s] = e /\ AuTarif(s)'
    BY <1>4, <2>1, <2>2
  <2>4. Controle(s)' /\ Initiation(s)' /\ Paiement(s)' /\ Page(s)'
    BY <1>1, <1>2, <1>5, <1>6, <2>2, <2>3 DEF Controle, Initiation, Paiement, Page
  <2>. QED  BY <2>3, <2>4 DEF Tient, Reglee
<1>7. CASE montant[c] # Absent /\ g # "initier"
  <2>1. session' = [session EXCEPT ![s] = Repos]
    BY <1>1, <1>7 DEF LireCourante
  <2>2. Types' /\ Cle' /\ Faites' /\ session'[s] = Repos
    BY <1>4, <2>1, RienAuRepos
  <2>. QED  BY <2>2, Repose DEF Tient
<1>8. CASE montant[c] = Absent /\ g # "page"
  <2>. DEFINE e == [session[s] EXCEPT !.etape = "mois", !.reste = <<c>>, !.fin = c]
  <2>1. session' = [session EXCEPT ![s] = e]
    BY <1>1, <1>8 DEF LireCourante, Avant, Types
  <2>2. /\ e \in Requete /\ e.ecrits = SansMontants /\ e.etape = "mois" /\ e.genre = g
        /\ e.fin = c /\ e.reste = <<c>> /\ e.nombre = n /\ e.poses = session[s].poses
    BY <1>1, <1>2, Singleton DEF Requete, Etapes
  <2>. HIDE DEF e
  <2>3. Types' /\ Cle' /\ Faites' /\ session'[s] = e /\ AuTarif(s)'
    BY <1>4, <2>1, <2>2
  <2>4. Couvert(s, c)'
    <3>1. 1 \in DOMAIN e.reste /\ e.reste[1] = c
      BY <1>1, <2>2, Singleton
    <3>. QED  BY <2>3, <3>1 DEF Couvert
  <2>5. Controle(s)' /\ Initiation(s)' /\ Paiement(s)' /\ Page(s)'
    BY <1>1, <1>2, <1>5, <1>8, <2>2, <2>3, <2>4 DEF Controle, Initiation, Paiement, Page
  <2>. QED  BY <2>3, <2>5 DEF Tient, Reglee
<1>9. CASE montant[c] = Absent /\ g = "page" /\ session[s].premier > c
  <2>. DEFINE p == session[s].premier
              e == [session[s] EXCEPT !.etape = "mois", !.reste = <<p>>]
  <2>1. session' = [session EXCEPT ![s] = e]
    <3>1. ~(p <= c)
      BY <1>1, <1>3, <1>9 DEF LesMois
    <3>2. session' = [session EXCEPT ![s].etape = "mois", ![s].reste = <<p>>]
      BY <1>1, <1>9, <3>1 DEF LireCourante
    <3>. QED  BY <3>2 DEF Avant, Types
  <2>2. p \in vus[s].premiers /\ p \in LesMois
    BY <1>3, <1>9
  <2>3. /\ e \in Requete /\ e.ecrits = SansMontants /\ e.etape = "mois" /\ e.genre = "page"
        /\ e.fin = 0 /\ e.reste = <<p>> /\ e.poses = session[s].poses
    BY <1>2, <1>3, <1>9, <2>2, Singleton DEF Requete, Etapes
  <2>. HIDE DEF e, p
  <2>4. Types' /\ Cle' /\ Faites' /\ session'[s] = e /\ AuTarif(s)'
    BY <1>4, <2>1, <2>3
  <2>5. p \in vus'[s].premiers
    BY <2>2, <2>3, <2>4, Memoire DEF Avant
  <2>6. Controle(s)' /\ Initiation(s)' /\ Paiement(s)'
    BY <1>2, <1>5, <2>3, <2>4 DEF Controle, Initiation, Paiement
  <2>7. \A m \in LesMois : ~Tenu(s, m)'
    BY <2>3, <2>4, MainsVides
  <2>8. p..0 = {} /\ \A i \in DOMAIN <<p>> : p <= <<p>>[i]
    BY <2>2 DEF LesMois
  <2>9. Page(s)'
    BY <2>2, <2>3, <2>4, <2>5, <2>7, <2>8 DEF Page
  <2>. QED  BY <2>4, <2>6, <2>9 DEF Tient, Reglee
<1>10. CASE montant[c] = Absent /\ g = "page" /\ session[s].premier <= c
  <2>. DEFINE e == [session[s] EXCEPT !.etape = "suite"]
  <2>1. session' = [session EXCEPT ![s] = e]
    BY <1>1, <1>3, <1>10 DEF LesMois, LireCourante, Avant, Types
  <2>2. /\ e \in Requete /\ e.ecrits = SansMontants /\ e.etape = "suite" /\ e.genre = "page"
        /\ e.fin = 0 /\ e.premier = session[s].premier /\ e.poses = session[s].poses
    BY <1>2, <1>3, <1>10 DEF Requete, Etapes
  <2>. HIDE DEF e
  <2>3. Types' /\ Cle' /\ Faites' /\ session'[s] = e /\ AuTarif(s)'
    BY <1>4, <2>1, <2>2
  <2>4. vus[s].premiers \subseteq vus'[s].premiers
    BY <2>2, <2>3, Memoire DEF Avant
  <2>5. Controle(s)' /\ Initiation(s)' /\ Paiement(s)' /\ Page(s)'
    BY <1>2, <1>3, <1>5, <1>10, <2>2, <2>3, <2>4 DEF Controle, Initiation, Paiement, Page
  <2>. QED  BY <2>3, <2>5 DEF Tient, Reglee
<1>. QED  BY <1>6, <1>7, <1>8, <1>9, <1>10, <1>1 DEF LireCourante

LEMMA PasLireRegle ==
  ASSUME NEW s \in Sessions, Avant(s), LireRegle(s)
  PROVE  Tient(s)
<1>1. PICK c \in LesMois : c = Mois(jour)
  BY MoisDate DEF Avant, Types
<1>2. PICK r \in ReglesA(jour) :
        session' = [session EXCEPT ![s].etape = "mois", ![s].fin = c,
                                   ![s].reste = Suite(PremierMois(r, validation), c)]
  BY <1>1 DEF LireRegle
<1>3. PICK p \in PremiersDits : p \in LesMois /\ p = PremierMois(r, validation)
  BY PremierDit DEF Avant
<1>4. /\ session[s] \in Requete /\ session[s].etape = "suite" /\ session[s].genre = "page"
      /\ session[s].ecrits = SansMontants /\ \A m \in session[s].poses : montant[m] # Absent
  BY DEF LireRegle, Avant, Types, Reglee, Controle, Initiation
<1>5. p \in vus[s].premiers
  BY <1>3, <1>4 DEF Avant, Note
<1>6. /\ Suite(p, c) \in Seq(LesMois)
      /\ \A i \in DOMAIN Suite(p, c) : p <= Suite(p, c)[i]
      /\ \A m \in p..c : \E i \in DOMAIN Suite(p, c) : Suite(p, c)[i] = m
  <2>1. p \in Nat /\ c \in Nat
    BY <1>1, <1>3, HypCalendrier DEF LesMois
  <2>2. CASE p > c
    <3>1. Suite(p, c) = MoisDe(p, p) /\ p..c = {}
      BY <2>1, <2>2 DEF Suite
    <3>2. p..p \subseteq LesMois /\ p <= p + 1 /\ p..p = {p}
      BY <1>3, <2>1 DEF LesMois
    <3>3. MoisDe(p, p) \in Seq(LesMois) /\ \A i \in DOMAIN MoisDe(p, p) : MoisDe(p, p)[i] \in p..p
      BY <2>1, <3>2, MoisDeExact
    <3>. QED  BY <2>1, <3>1, <3>2, <3>3
  <2>3. CASE ~(p > c)
    <3>1. Suite(p, c) = MoisDe(p, c) /\ p <= c
      BY <2>1, <2>3 DEF Suite
    <3>2. p..c \subseteq LesMois /\ p <= c + 1
      BY <1>1, <1>3, <2>1, <3>1, HypCalendrier DEF LesMois
    <3>3. /\ MoisDe(p, c) \in Seq(LesMois)
          /\ \A i \in DOMAIN MoisDe(p, c) : MoisDe(p, c)[i] \in p..c
          /\ \A m \in p..c : \E i \in DOMAIN MoisDe(p, c) : MoisDe(p, c)[i] = m
      BY <2>1, <3>2, MoisDeExact
    <3>. QED  BY <2>1, <3>1, <3>3
  <2>. QED  BY <2>2, <2>3
<1>. DEFINE e == [session[s] EXCEPT !.etape = "mois", !.fin = c, !.reste = Suite(p, c)]
<1>7. session' = [session EXCEPT ![s] = e]
  BY <1>2, <1>3 DEF Avant, Types
<1>8. /\ e \in Requete /\ e.ecrits = SansMontants /\ e.etape = "mois" /\ e.genre = "page"
      /\ e.fin = c /\ e.reste = Suite(p, c) /\ e.poses = session[s].poses
  BY <1>4, <1>6 DEF Requete, Etapes
<1>. HIDE DEF e
<1>9. Types' /\ Cle' /\ Faites' /\ session'[s] = e
  BY <1>7, <1>8, Discret DEF Avant, LireRegle
<1>10. p \in vus'[s].premiers
  BY <1>5, <1>8, <1>9, Memoire DEF Avant
<1>11. AuTarif(s)' /\ \A m \in LesMois : ~Tenu(s, m)'
  BY <1>8, <1>9, MainsVides
<1>12. \A m \in p..c : Couvert(s, m)'
  BY <1>6, <1>8, <1>9 DEF Couvert
<1>13. montant' = montant
  BY DEF LireRegle
<1>14. Controle(s)' /\ Initiation(s)' /\ Paiement(s)'
  BY <1>4, <1>8, <1>9, <1>13 DEF Controle, Initiation, Paiement
<1>15. Page(s)'
  BY <1>3, <1>6, <1>8, <1>9, <1>10, <1>11, <1>12 DEF Page
<1>. QED  BY <1>9, <1>11, <1>14, <1>15 DEF Tient, Reglee

\* A request that leaves the head of its queue, which has a row, keeps its months.
LEMMA TeteFaite ==
  ASSUME NEW s \in Sessions, NEW h \in LesMois, h = Head(session[s].reste),
         Types, Reglee(s), Noter,
         session[s].etape \in {"mois", "inserer"}, session[s].reste # << >>,
         session'[s].etape = "mois", session'[s].genre = session[s].genre,
         session'[s].fin = session[s].fin, session'[s].nombre = session[s].nombre,
         session'[s].prix = session[s].prix, session'[s].poses = session[s].poses,
         session'[s].reste = Tail(session[s].reste),
         session[s].genre = "paiement" => session'[s].ecrits = session[s].ecrits,
         \A m \in LesMois : m # h => (Tenu(s, m)' <=> Tenu(s, m)),
         Tenu(s, h) => Tenu(s, h)',
         montant' = montant, montant[h] # Absent \/ Tenu(s, h)'
  PROVE  Controle(s)' /\ Initiation(s)' /\ Paiement(s)' /\ Page(s)'
<1>. DEFINE q == session[s].reste
<1>1. /\ q \in Seq(LesMois) /\ session[s].fin \in LesMois \cup {0}
      /\ session[s].nombre \in Periodes \cup {1}
  BY DEF Types, Requete
<1>2. /\ Head(q) \in LesMois /\ Head(q) = q[1] /\ 1 \in DOMAIN q
      /\ \A i \in DOMAIN q : q[i] = Head(q) \/ \E k \in DOMAIN Tail(q) : Tail(q)[k] = q[i]
      /\ \A k \in DOMAIN Tail(q) : \E i \in DOMAIN q : q[i] = Tail(q)[k]
  BY <1>1, TeteEtReste
<1>3. ASSUME NEW m \in LesMois, Couvert(s, m)
      PROVE  Couvert(s, m)'
  <2>1. CASE montant[m] # Absent \/ Tenu(s, m)
    BY <2>1 DEF Couvert, Tenu
  <2>2. ASSUME NEW i \in DOMAIN q, q[i] = m
        PROVE  Couvert(s, m)'
    <3>1. CASE m = h
      BY <3>1 DEF Couvert, Tenu
    <3>2. CASE m # h
      <4>1. PICK k \in DOMAIN Tail(q) : Tail(q)[k] = m
        BY <1>2, <2>2, <3>2
      <4>. QED  BY <4>1 DEF Couvert
    <3>. QED  BY <3>1, <3>2
  <2>. QED  BY <1>3, <2>1, <2>2 DEF Couvert
<1>4. session[s].genre # "aucun"
  BY RienAuRepos DEF Reglee, Controle
<1>5. Controle(s)'
  BY <1>4 DEF Controle
<1>6. Paiement(s)'
  BY <1>2 DEF Reglee, Paiement
<1>7. Initiation(s)'
  <2>1. session[s].genre = "initier" => Couvert(s, session[s].fin)'
    BY <1>3 DEF Reglee, Initiation
  <2>2. ASSUME session[s].genre = "commande"
        PROVE  /\ session[s].prix \in vus'[s].jours
               /\ \A m \in Periode(session[s].fin, session[s].nombre) : Couvert(s, m)'
    <3>1. session[s].prix \in vus'[s].jours
      BY <2>2, Memoire DEF Reglee, Initiation, AuJour
    <3>2. session[s].fin \in LesMois /\ DansHorizon(session[s].fin, session[s].nombre)
      BY <2>2 DEF Reglee, Initiation
    <3>3. Periode(session[s].fin, session[s].nombre) \subseteq LesMois
      BY <1>1, <3>2, PeriodeExacte
    <3>. QED  BY <1>3, <2>2, <3>1, <3>3 DEF Reglee, Initiation
  <2>. QED  BY <2>1, <2>2 DEF Reglee, Initiation
<1>8. Page(s)'
  <2>1. SUFFICES ASSUME session[s].genre = "page"
                 PROVE  Page(s)'
    BY DEF Page
  <2>2. PICK p \in vus[s].premiers :
          /\ p \in LesMois
          /\ \A m \in LesMois : Tenu(s, m) => p <= m
          /\ \A i \in DOMAIN q : p <= q[i]
          /\ \A m \in p..session[s].fin : Couvert(s, m)
    BY <2>1 DEF Reglee, Page
  <2>3. \A m \in LesMois : Tenu(s, m)' => p <= m
    BY <1>2, <2>2
  <2>4. \A k \in DOMAIN Tail(q) : p <= Tail(q)[k]
    BY <1>2, <2>2
  <2>5. \A m \in p..session[s].fin : Couvert(s, m)'
    BY <1>3, <2>2, MoisFactures
  <2>6. p \in vus'[s].premiers
    BY <2>1, <2>2, Memoire
  <2>. QED  BY <2>1, <2>2, <2>3, <2>4, <2>5, <2>6 DEF Page
<1>. QED  BY <1>5, <1>6, <1>7, <1>8

LEMMA PasLireMois ==
  ASSUME NEW s \in Sessions, Avant(s), LireMois(s)
  PROVE  Tient(s)
<1>. DEFINE q == session[s].reste
            g == session[s].genre
<1>1. PICK m \in LesMois : m = Head(q)
  BY TeteEtReste DEF Avant, Types, Requete, LireMois
<1>2. /\ session[s] \in Requete /\ session[s].etape = "mois" /\ q # << >>
      /\ q \in Seq(LesMois) /\ Tail(q) \in Seq(LesMois)
      /\ g \in Genres \ {"aucun"}
  BY TeteEtReste, RienAuRepos DEF Avant, Types, Requete, Reglee, Controle, LireMois
<1>3. montant' = montant
  BY DEF LireMois
<1>4. CASE Vu(s, m)
  <2>. DEFINE e == [session[s] EXCEPT !.reste = Tail(q)]
  <2>1. session' = [session EXCEPT ![s] = e]
    BY <1>1, <1>4 DEF LireMois, Avant, Types
  <2>2. /\ e \in Requete /\ e.ecrits = session[s].ecrits /\ e.etape = "mois"
        /\ e.genre = g /\ e.fin = session[s].fin /\ e.reste = Tail(q)
        /\ e.nombre = session[s].nombre /\ e.prix = session[s].prix /\ e.poses = session[s].poses
    BY <1>2 DEF Requete
  <2>. HIDE DEF e
  <2>3. Types' /\ Cle' /\ Faites' /\ session'[s] = e
    BY <2>1, <2>2, Discret DEF Avant, LireMois
  <2>4. \A k \in LesMois : Tenu(s, k)' <=> Tenu(s, k)
    BY <2>2, <2>3 DEF Tenu
  <2>5. Controle(s)' /\ Initiation(s)' /\ Paiement(s)' /\ Page(s)'
    <3>1. montant[m] # Absent \/ Tenu(s, m)'
      BY <1>4, <2>4 DEF Vu
    <3>. QED  BY <1>1, <1>2, <1>3, <2>2, <2>3, <2>4, <3>1, TeteFaite DEF Avant
  <2>6. AuTarif(s)'
    <3>1. \A k : Admis(s, k) \subseteq Admis(s, k)'
      BY <1>2, <2>2, <2>3, AdmisDure DEF Avant
    <3>. QED  BY <2>2, <2>3, <2>4, <3>1 DEF Avant, Reglee, AuTarif
  <2>. QED  BY <2>3, <2>5, <2>6 DEF Tient, Reglee
<1>5. CASE ~Vu(s, m)
  <2>1. PICK p \in PrixDe(s, m) : session' = [session EXCEPT ![s].etape = "inserer", ![s].prix = p]
    BY <1>1, <1>5 DEF LireMois
  <2>2. g # "paiement"
    <3>1. montant[m] = Absent
      BY <1>5 DEF Vu
    <3>2. 1 \in DOMAIN q /\ q[1] = m
      BY <1>1, <1>2, TeteEtReste
    <3>. QED  BY <3>1, <3>2 DEF Avant, Reglee, Paiement
  <2>3. /\ p # Absent /\ p \in Prix0 /\ p \in Admis(s, m)
        /\ g = "commande" => p = session[s].prix
    <3>1. CASE g = "commande"
      BY <2>1, <3>1, TarifsPositifs DEF PrixDe, Admis, Avant, Reglee, Initiation
    <3>2. CASE g = "manuel"
      BY <2>1, <3>2 DEF PrixDe, Admis, Prix0, Absent
    <3>3. CASE g \in AuMois
      <4>1. p \in TarifsA(Premier(m))
        BY <2>1, <3>3 DEF PrixDe, Prix, AuMois
      <4>2. <<m, p>> \in vus[s].prix
        BY <3>3, <4>1 DEF Avant, Note, PrixDits
      <4>3. p \in Tarif
        BY <4>1, TarifsConnus DEF Avant
      <4>. QED  BY <3>3, <4>2, <4>3, TarifsPositifs DEF Admis, AuMois, Tarif
    <3>. QED  BY <1>2, <2>2, <3>1, <3>2, <3>3 DEF Genres, AuMois
  <2>. DEFINE e == [session[s] EXCEPT !.etape = "inserer", !.prix = p]
  <2>4. session' = [session EXCEPT ![s] = e]
    BY <2>1 DEF Avant, Types
  <2>5. /\ e \in Requete /\ e.ecrits = session[s].ecrits /\ e.etape = "inserer" /\ e.prix = p
        /\ e.genre = g /\ e.fin = session[s].fin /\ e.reste = q
        /\ e.nombre = session[s].nombre /\ e.poses = session[s].poses
    BY <1>2, <2>3 DEF Requete, Etapes
  <2>. HIDE DEF e
  <2>6. Types' /\ Cle' /\ Faites' /\ session'[s] = e
    BY <2>4, <2>5, Discret DEF Avant, LireMois
  <2>7. \A k : Admis(s, k) \subseteq Admis(s, k)'
    BY <1>2, <2>5, <2>6, AdmisDure DEF Avant
  <2>8. \A k \in LesMois : Tenu(s, k)' <=> Tenu(s, k)
    BY <2>5, <2>6 DEF Tenu
  <2>9. \A k \in LesMois : Couvert(s, k) => Couvert(s, k)'
    BY <1>3, <2>5, <2>6, <2>8 DEF Couvert
  <2>10. Controle(s)' /\ Paiement(s)'
    BY <1>1, <1>2, <2>2, <2>3, <2>5, <2>6, <2>7 DEF Controle, Paiement
  <2>11. Initiation(s)'
    <3>1. ASSUME g = "initier" PROVE Couvert(s, session[s].fin)'
      <4>1. session[s].fin \in LesMois /\ Couvert(s, session[s].fin)
        BY <1>2, <3>1 DEF Avant, Reglee, Initiation
      <4>. QED  BY <2>5, <2>6, <2>9, <4>1
    <3>2. ASSUME g = "commande"
          PROVE  /\ session[s].prix \in vus'[s].jours
                 /\ \A k \in Periode(session[s].fin, session[s].nombre) : Couvert(s, k)'
      <4>1. session[s].prix \in vus'[s].jours
        BY <2>5, <2>6, <3>2, Memoire DEF Avant, Reglee, Initiation, AuJour
      <4>2. session[s].fin \in LesMois /\ DansHorizon(session[s].fin, session[s].nombre)
        BY <1>2, <3>2 DEF Avant, Reglee, Initiation
      <4>3. session[s].nombre \in Periodes \cup {1}
        BY <1>2 DEF Requete
      <4>4. Periode(session[s].fin, session[s].nombre) \subseteq LesMois
        BY <4>2, <4>3, PeriodeExacte
      <4>. QED  BY <2>9, <3>2, <4>1, <4>4 DEF Avant, Reglee, Initiation
    <3>. QED  BY <1>2, <1>3, <2>3, <2>5, <2>6, <3>1, <3>2 DEF Avant, Reglee, Initiation
  <2>12. AuTarif(s)'
    BY <2>5, <2>6, <2>7, <2>8 DEF Avant, Reglee, AuTarif
  <2>13. Page(s)'
    <3>1. SUFFICES ASSUME g = "page"
                   PROVE  Page(s)'
      BY <2>5, <2>6 DEF Page
    <3>2. PICK d \in vus[s].premiers :
            /\ d \in LesMois
            /\ \A k \in LesMois : Tenu(s, k) => d <= k
            /\ \A i \in DOMAIN q : d <= q[i]
            /\ \A k \in d..session[s].fin : Couvert(s, k)
      BY <1>2, <3>1 DEF Page, Reglee, Avant
    <3>3. \A k \in d..session[s].fin : Couvert(s, k)'
      BY <2>9, <3>2, MoisFactures DEF Avant
    <3>4. d \in vus'[s].premiers
      BY <2>5, <2>6, <3>1, Memoire DEF Avant
    <3>. QED  BY <2>5, <2>6, <2>8, <3>2, <3>3, <3>4 DEF Page
  <2>. QED  BY <2>6, <2>10, <2>11, <2>12, <2>13 DEF Tient, Reglee
<1>. QED  BY <1>4, <1>5

LEMMA PasInserer ==
  ASSUME NEW s \in Sessions, Avant(s), Inserer(s)
  PROVE  Tient(s)
<1>. DEFINE q == session[s].reste
            p == session[s].prix
<1>1. /\ session[s] \in Requete /\ session[s].etape = "inserer"
      /\ q # << >> /\ p # Absent /\ p \in Admis(s, Head(q))
  BY DEF Avant, Types, Reglee, Controle, Inserer
<1>2. PICK m \in LesMois : m = Head(q)
  BY <1>1, TeteEtReste DEF Requete
<1>3. Tail(q) \in Seq(LesMois) /\ p \in Prix0
  BY <1>1, TeteEtReste DEF Requete
<1>4. CASE montant[m] # Absent
  <2>1. session' = [session EXCEPT ![s] = Repos]
    BY <1>2, <1>4 DEF Inserer
  <2>2. Types' /\ Cle' /\ Faites' /\ session'[s] = Repos
    BY <2>1, Discret, RienAuRepos DEF Avant, Inserer
  <2>. QED  BY <2>2, Repose DEF Tient
<1>5. CASE montant[m] = Absent
  <2>. DEFINE e == [session[s] EXCEPT !.etape = "mois", !.reste = Tail(q),
                                     !.ecrits = [session[s].ecrits EXCEPT ![m] = p]]
  <2>1. session' = [session EXCEPT ![s] = e]
    BY <1>1, <1>2, <1>5 DEF Inserer, Avant, Types, Requete
  <2>2. /\ e \in Requete /\ e.ecrits = [session[s].ecrits EXCEPT ![m] = p] /\ e.etape = "mois"
        /\ e.genre = session[s].genre /\ e.fin = session[s].fin /\ e.reste = Tail(q)
        /\ e.nombre = session[s].nombre /\ e.prix = p /\ e.poses = session[s].poses
    BY <1>1, <1>2, <1>3 DEF Requete, Etapes
  <2>. HIDE DEF e
  <2>3. session' \in [Sessions -> Requete] /\ session'[s] = e
    BY <2>1, <2>2 DEF Avant, Types
  <2>4. Types'
    BY <2>3 DEF Avant, Types, Inserer, Parametres
  <2>5. montant' = montant /\ commandes' = commandes
    BY DEF Inserer
  <2>6. \A k \in LesMois : Tenu(s, k)' <=> Tenu(s, k) \/ k = m
    BY <1>1, <1>2, <2>2, <2>3 DEF Tenu, Requete
  <2>7. \A t \in Sessions \ {s} : \A k \in LesMois : Tenu(t, k)' <=> Tenu(t, k)
    BY <2>1 DEF Tenu, Avant, Types
  <2>8. \A t \in Sessions \ {s} : ~Tenu(t, m)
    BY <1>2 DEF Inserer, Attente
  <2>9. Cle' /\ Faites'
    BY <1>5, <2>5, <2>6, <2>7, <2>8 DEF Cle, Faites, Avant
  <2>10. session[s].genre \in Genres \ {"aucun", "paiement"}
    BY <1>1, RienAuRepos DEF Avant, Reglee, Controle, Paiement, Requete
  <2>11. Controle(s)' /\ Initiation(s)' /\ Paiement(s)' /\ Page(s)'
    BY <1>1, <1>2, <2>2, <2>3, <2>5, <2>6, <2>10, TeteFaite DEF Avant
  <2>12. \A k : Admis(s, k) \subseteq Admis(s, k)'
    BY <2>2, <2>3, <2>10, AdmisDure DEF Avant
  <2>13. AuTarif(s)'
    BY <1>1, <1>2, <2>2, <2>3, <2>6, <2>12 DEF AuTarif, Avant, Reglee, Requete
  <2>. QED  BY <2>3, <2>4, <2>9, <2>11, <2>13 DEF Tient, Reglee
<1>. QED  BY <1>4, <1>5

\* A commit: the months held get a row, no row goes, and the key stays unique.
LEMMA CleApresCommit ==
  ASSUME Types, Cle, NEW s \in Sessions, NEW e \in Requete, e.ecrits = SansMontants,
         session' = [session EXCEPT ![s] = e],
         \A m \in LesMois : montant[m] = Absent /\ ~Tenu(s, m) => montant'[m] = Absent
  PROVE  Cle'
<1>1. session'[s] = e
  BY DEF Types
<1>2. \A m \in LesMois : ~Tenu(s, m)'
  BY <1>1, MainsVides
<1>3. \A t \in Sessions \ {s} : \A m \in LesMois : Tenu(t, m)' <=> Tenu(t, m)
  BY DEF Tenu, Types
<1>4. SUFFICES ASSUME NEW t \in Sessions, NEW m \in LesMois, Tenu(t, m)'
               PROVE  montant'[m] = Absent /\ \A u \in Sessions \ {t} : ~Tenu(u, m)'
  BY DEF Cle
<1>5. t # s /\ Tenu(t, m)
  BY <1>2, <1>3, <1>4
<1>6. montant[m] = Absent /\ \A u \in Sessions \ {t} : ~Tenu(u, m)
  BY <1>5 DEF Cle
<1>7. montant'[m] = Absent
  BY <1>5, <1>6
<1>8. \A u \in Sessions \ {t} : ~Tenu(u, m)'
  BY <1>2, <1>3, <1>6
<1>. QED  BY <1>7, <1>8

LEMMA PasValider ==
  ASSUME NEW s \in Sessions, Avant(s), Valider(s)
  PROVE  Tient(s) /\ \A m \in LesMois : montant[m] # Absent => montant'[m] # Absent
<1>1. /\ session[s] \in Requete /\ session[s].etape = "mois" /\ session[s].reste = << >>
      /\ session[s].ecrits \in [LesMois -> Prix0] /\ montant \in [LesMois -> Prix0]
  BY DEF Avant, Types, Requete, Valider
<1>2. \A m \in LesMois : montant'[m] = IF Tenu(s, m) THEN session[s].ecrits[m] ELSE montant[m]
  BY DEF Valider
<1>3. montant' \in [LesMois -> Prix0]
  BY <1>1 DEF Valider
<1>4. \A m \in LesMois : montant[m] # Absent \/ Tenu(s, m) => montant'[m] # Absent
  BY <1>2 DEF Tenu
<1>5. Apres(s) \in Requete /\ Apres(s).ecrits = SansMontants
  <2>. DEFINE e == [session[s] EXCEPT !.etape = "prix", !.ecrits = SansMontants]
  <2>1. Repos \in Requete /\ Repos.ecrits = SansMontants /\ SansMontants \in [LesMois -> Prix0]
    BY RienAuRepos DEF Requete
  <2>2. e \in Requete /\ e.ecrits = SansMontants
    BY <1>1, <2>1 DEF Requete, Etapes
  <2>. QED  BY <2>1, <2>2 DEF Apres
<1>6. session' \in [Sessions -> Requete] /\ session'[s] = Apres(s)
  BY <1>5 DEF Avant, Types, Valider
<1>7. Types'
  BY <1>3, <1>6 DEF Avant, Types, Valider, Parametres
<1>8. Cle'
  BY <1>2, <1>5, CleApresCommit DEF Avant, Valider
<1>9. Faites'
  BY <1>4 DEF Faites, Avant, Valider
<1>10. CASE session[s].genre # "initier"
  BY <1>4, <1>6, <1>7, <1>8, <1>9, <1>10, Repose DEF Tient, Apres
<1>11. CASE session[s].genre = "initier"
  <2>. DEFINE e == Apres(s)
  <2>1. /\ e.etape = "prix" /\ e.genre = "initier" /\ e.fin = session[s].fin
        /\ e.nombre = session[s].nombre /\ e.poses = session[s].poses
    BY <1>1, <1>11 DEF Requete, Apres
  <2>. HIDE DEF e
  <2>2. /\ session[s].fin \in LesMois /\ Couvert(s, session[s].fin)
        /\ DansHorizon(session[s].fin, session[s].nombre)
        /\ \A m \in session[s].poses : m \in LesMois /\ montant[m] # Absent
    BY <1>1, <1>11 DEF Avant, Reglee, Initiation, Requete
  <2>3. montant'[session[s].fin] # Absent
    <3>1. DOMAIN session[s].reste = {}
      BY <1>1
    <3>. QED  BY <1>4, <2>2, <3>1 DEF Couvert
  <2>4. Controle(s)' /\ Initiation(s)' /\ Paiement(s)' /\ Page(s)'
    BY <1>4, <1>5, <1>6, <2>1, <2>2, <2>3 DEF Controle, Initiation, Paiement, Page, e
  <2>5. AuTarif(s)'
    BY <1>5, <1>6, MainsVides
  <2>. QED  BY <1>4, <1>7, <1>8, <1>9, <2>4, <2>5 DEF Tient, Reglee
<1>. QED  BY <1>10, <1>11

LEMMA PasLirePrix ==
  ASSUME NEW s \in Sessions, Avant(s), LirePrix(s)
  PROVE  Tient(s)
<1>1. /\ session[s] \in Requete /\ session[s].etape = "prix" /\ session[s].ecrits = SansMontants
      /\ session[s].genre = "initier" /\ montant[session[s].fin] # Absent
      /\ session[s].fin \in LesMois /\ DansHorizon(session[s].fin, session[s].nombre)
      /\ \A m \in session[s].poses : montant[m] # Absent
  BY DEF Avant, Types, Reglee, Controle, Initiation, LirePrix
<1>2. PICK v \in Prix0 : session' = [session EXCEPT ![s].etape = "reference", ![s].ancre = v]
  <2>1. PICK p \in TarifsA(jour) :
          session' = [session EXCEPT ![s].etape = "reference",
            ![s].ancre = IF p - montant[session[s].fin] \in {-1, 0, 1} THEN Absent ELSE p]
    BY DEF LirePrix
  <2>2. p \in Prix0 /\ Absent \in Prix0
    BY TarifsConnus, TarifsPositifs DEF Avant, Prix0
  <2>. QED  BY <2>1, <2>2
<1>. DEFINE e == [session[s] EXCEPT !.etape = "reference", !.ancre = v]
<1>3. session' = [session EXCEPT ![s] = e]
  BY <1>2 DEF Avant, Types
<1>4. /\ e \in Requete /\ e.ecrits = SansMontants /\ e.etape = "reference"
      /\ e.fin = session[s].fin /\ e.genre = "initier" /\ e.nombre = session[s].nombre
      /\ e.poses = session[s].poses
  BY <1>1, <1>2 DEF Requete, Etapes
<1>. HIDE DEF e
<1>5. Types' /\ Cle' /\ Faites' /\ session'[s] = e
  BY <1>3, <1>4, Discret DEF Avant, LirePrix
<1>6. montant' = montant
  BY DEF LirePrix
<1>7. Controle(s)' /\ Initiation(s)' /\ Paiement(s)' /\ Page(s)'
  BY <1>1, <1>4, <1>5, <1>6 DEF Controle, Initiation, Paiement, Page
<1>8. AuTarif(s)'
  BY <1>4, <1>5, MainsVides
<1>. QED  BY <1>5, <1>7, <1>8 DEF Tient, Reglee

LEMMA PasLireReference ==
  ASSUME NEW s \in Sessions, Avant(s), LireReference(s)
  PROVE  Tient(s)
<1>. DEFINE c == session[s].fin
            n == session[s].nombre
            q == MoisDe(c + 1, c + n - 1)
<1>1. /\ session[s] \in Requete /\ session[s].etape = "reference"
      /\ session[s].ecrits = SansMontants
      /\ session[s].genre = "initier" /\ montant[c] # Absent
      /\ c \in LesMois /\ DansHorizon(c, n) /\ n \in Periodes \cup {1}
      /\ \A m \in session[s].poses : montant[m] # Absent
  BY DEF Avant, Types, Requete, Reglee, Controle, Initiation, LireReference
<1>2. PICK p \in Tarif :
        /\ session' = [session EXCEPT ![s].etape = "mois", ![s].genre = "commande", ![s].prix = p,
                                      ![s].reste = q]
        /\ p \in JoursDits
  BY TarifsConnus DEF LireReference, JoursDits, Avant
<1>3. /\ c \in Nat /\ c + n - 1 \in Nat /\ n \in Nat \ {0}
      /\ Periode(c, n) \subseteq LesMois /\ Periode(c, n) = c..c + n - 1
  BY <1>1, PeriodeExacte
<1>4. q \in Seq(LesMois) /\ \A m \in c + 1..c + n - 1 : \E i \in DOMAIN q : q[i] = m
  <2>1. c + 1 \in Nat /\ c + 1 <= c + n - 1 + 1 /\ c + 1..c + n - 1 \subseteq LesMois
    BY <1>3
  <2>. QED  BY <1>3, <2>1, MoisDeExact
<1>. HIDE DEF q
<1>. DEFINE e == [session[s] EXCEPT !.etape = "mois", !.genre = "commande", !.prix = p, !.reste = q]
<1>5. session' = [session EXCEPT ![s] = e]
  BY <1>2 DEF Avant, Types
<1>6. /\ e \in Requete /\ e.ecrits = SansMontants /\ e.etape = "mois" /\ e.prix = p
      /\ e.fin = c /\ e.genre = "commande" /\ e.nombre = n /\ e.reste = q
      /\ e.poses = session[s].poses
  BY <1>1, <1>4, TarifsPositifs DEF Requete, Etapes, Genres
<1>. HIDE DEF e
<1>7. Types' /\ Cle' /\ Faites' /\ session'[s] = e
  BY <1>5, <1>6, Discret DEF Avant, LireReference
<1>8. montant' = montant /\ JoursDits' = JoursDits
  BY DitStable DEF LireReference, Parametres
<1>9. p \in vus'[s].jours
  BY <1>2, <1>6, <1>7, <1>8, Memoire DEF Avant, AuJour
<1>10. \A m \in Periode(c, n) : Couvert(s, m)'
  <2>1. SUFFICES ASSUME NEW m \in c..c + n - 1
                 PROVE  Couvert(s, m)'
    BY <1>3
  <2>2. m = c \/ m \in c + 1..c + n - 1
    BY <1>3
  <2>. QED  BY <1>1, <1>4, <1>6, <1>7, <1>8, <2>2 DEF Couvert
<1>11. Controle(s)' /\ Paiement(s)' /\ Page(s)'
  BY <1>6, <1>7 DEF Controle, Paiement, Page
<1>12. Initiation(s)'
  BY <1>1, <1>6, <1>7, <1>8, <1>9, <1>10 DEF Initiation
<1>13. AuTarif(s)'
  BY <1>6, <1>7, MainsVides
<1>. QED  BY <1>7, <1>11, <1>12, <1>13 DEF Tient, Reglee

LEMMA PasChiffrer ==
  ASSUME NEW s \in Sessions, Avant(s), Chiffrer(s)
  PROVE  Tient(s)
<1>. DEFINE c == session[s].fin
            n == session[s].nombre
<1>1. /\ session[s] \in Requete /\ session[s].genre = "commande" /\ session[s].reste = << >>
      /\ c \in LesMois /\ DansHorizon(c, n) /\ n \in Periodes \cup {1}
      /\ session[s].prix \in Tarif /\ session[s].prix \in vus[s].jours /\ montant[c] # Absent
      /\ \A m \in Periode(c, n) : Couvert(s, m)
  BY DEF Avant, Types, Requete, Reglee, Initiation, Chiffrer
<1>2. Periode(c, n) \subseteq LesMois
  BY <1>1, PeriodeExacte
<1>3. PICK z \in SUBSET {m \in Periode(c, n) : montant[m] = 0} :
        session' = [session EXCEPT ![s].etape = "commander", ![s].poses = z]
  BY DEF Chiffrer
<1>4. z \subseteq LesMois /\ \A m \in z : montant[m] # Absent
  BY <1>2, <1>3 DEF Absent
<1>. DEFINE e == [session[s] EXCEPT !.etape = "commander", !.poses = z]
<1>5. session' = [session EXCEPT ![s] = e]
  BY <1>3 DEF Avant, Types
<1>6. /\ e \in Requete /\ e.ecrits = session[s].ecrits /\ e.etape = "commander"
      /\ e.fin = c /\ e.genre = "commande" /\ e.nombre = n /\ e.reste = session[s].reste
      /\ e.poses = z /\ e.prix = session[s].prix
  BY <1>1, <1>4 DEF Requete, Etapes
<1>. HIDE DEF e
<1>7. Types' /\ Cle' /\ Faites' /\ session'[s] = e
  BY <1>5, <1>6, Discret DEF Avant, Chiffrer
<1>8. montant' = montant
  BY DEF Chiffrer
<1>9. \A m \in LesMois : (Tenu(s, m)' <=> Tenu(s, m)) /\ (Couvert(s, m) => Couvert(s, m)')
  BY <1>6, <1>7, <1>8 DEF Tenu, Couvert
<1>10. session[s].prix \in vus'[s].jours
  BY <1>1, <1>6, <1>7, Memoire DEF Avant, AuJour
<1>11. Controle(s)' /\ Paiement(s)' /\ Page(s)'
  BY <1>6, <1>7 DEF Controle, Paiement, Page
<1>12. Initiation(s)'
  BY <1>1, <1>2, <1>4, <1>6, <1>7, <1>8, <1>9, <1>10 DEF Initiation
<1>13. AuTarif(s)'
  <2>1. \A m : Admis(s, m) \subseteq Admis(s, m)'
    BY <1>1, <1>6, <1>7, AdmisDure DEF Avant, Genres
  <2>. QED  BY <1>6, <1>7, <1>9, <2>1 DEF Avant, Reglee, AuTarif
<1>. QED  BY <1>7, <1>11, <1>12, <1>13 DEF Tient, Reglee

\* The commit of an order writes on rows that exist, or that it makes.
LEMMA EcritureCommande ==
  ASSUME NEW s \in Sessions, Avant(s), Commander(s)
  PROVE  /\ montant' \in [LesMois -> Prix0]
         /\ \A m \in LesMois : montant[m] # Absent \/ Tenu(s, m) => montant'[m] # Absent
         /\ \A m \in LesMois : montant[m] = Absent /\ ~Tenu(s, m) => montant'[m] = Absent
         /\ \A m \in LesMois : Tenu(s, m) => montant'[m] = session[s].ecrits[m]
<1>1. /\ session[s] \in Requete /\ session[s].etape = "commander" /\ session[s].genre = "commande"
      /\ montant \in [LesMois -> Prix0] /\ session[s].ecrits \in [LesMois -> Prix0]
      /\ session[s].prix \in Prix0 /\ session[s].ancre \in Prix0
      /\ session[s].prix # Absent /\ montant[session[s].fin] # Absent
      /\ \A m \in session[s].poses : montant[m] # Absent
  BY TarifsPositifs DEF Avant, Types, Requete, Reglee, Initiation, Commander
<1>2. \A m \in LesMois : montant'[m] =
        IF Tenu(s, m) THEN session[s].ecrits[m]
        ELSE IF m = session[s].fin /\ session[s].ancre # Absent THEN session[s].ancre
        ELSE IF m \in session[s].poses THEN session[s].prix
        ELSE montant[m]
  BY DEF Commander
<1>3. montant' \in [LesMois -> Prix0]
  BY <1>1 DEF Commander
<1>4. \A m \in LesMois : montant[m] # Absent \/ Tenu(s, m) => montant'[m] # Absent
  BY <1>1, <1>2 DEF Tenu
<1>5. \A m \in LesMois : montant[m] = Absent /\ ~Tenu(s, m) => montant'[m] = Absent
  BY <1>1, <1>2
<1>. QED  BY <1>2, <1>3, <1>4, <1>5

LEMMA PasCommander ==
  ASSUME NEW s \in Sessions, Avant(s), Commander(s)
  PROVE  Tient(s) /\ \A m \in LesMois : montant[m] # Absent => montant'[m] # Absent
<1>. DEFINE c == session[s].fin
            n == session[s].nombre
<1>1. /\ session[s] \in Requete /\ session[s].genre = "commande" /\ session[s].reste = << >>
      /\ c \in LesMois /\ DansHorizon(c, n) /\ n \in Periodes \cup {1}
      /\ \A m \in Periode(c, n) : Couvert(s, m)
  BY DEF Avant, Types, Requete, Reglee, Initiation, Commander
<1>2. session' = [session EXCEPT ![s] = Repos]
  BY DEF Commander
<1>3. session' \in [Sessions -> Requete] /\ session'[s] = Repos
  BY <1>2, RienAuRepos DEF Avant, Types
<1>4. n > 1 => n \in Periodes
  BY <1>1
<1>5. commandes' \subseteq LesMois \X Periodes /\ commandes' \subseteq commandes \cup {<<c, n>>}
  BY <1>1, <1>4 DEF Commander, Avant, Types
<1>6. Types'
  BY <1>3, <1>5, EcritureCommande DEF Avant, Types, Commander, Parametres
<1>7. Cle'
  BY <1>2, EcritureCommande, CleApresCommit, RienAuRepos DEF Avant
<1>8. Faites'
  <2>1. SUFFICES ASSUME NEW k \in commandes', NEW m \in Periode(k[1], k[2])
                 PROVE  m \in LesMois /\ montant'[m] # Absent
    BY DEF Faites, Periode
  <2>2. CASE k \in commandes
    BY <2>1, <2>2, EcritureCommande DEF Avant, Faites
  <2>3. CASE k = <<c, n>>
    <3>1. m \in LesMois /\ Couvert(s, m)
      BY <1>1, <2>1, <2>3, PeriodeExacte
    <3>2. DOMAIN session[s].reste = {}
      BY <1>1
    <3>. QED  BY <3>1, <3>2, EcritureCommande DEF Couvert
  <2>. QED  BY <1>5, <2>1, <2>2, <2>3
<1>. QED  BY <1>3, <1>6, <1>7, <1>8, EcritureCommande, Repose DEF Tient

LEMMA PasAbandonner ==
  ASSUME NEW s \in Sessions, Avant(s), Abandonner(s)
  PROVE  Tient(s)
<1>1. Types' /\ Cle' /\ Faites' /\ session'[s] = Repos
  BY Discret, RienAuRepos DEF Avant, Abandonner
<1>. QED  BY <1>1, Repose DEF Tient

-----------------------------------------------------------------------------
(* Every step keeps the invariant *)

\* A step of one request, seen from the others: they do not move, and a month that
\* has a row keeps it.
LEMMA PasDUneRequete ==
  ASSUME IInv, Servir, Noter
  PROVE  \E s \in Sessions :
           /\ Tient(s)
           /\ \A t \in Sessions \ {s} : session'[t] = session[t]
           /\ \A m \in LesMois : montant[m] # Absent => montant'[m] # Absent
<1>1. PICK s \in Sessions :
        \/ Ouvrir(s)
        \/ Demander(s, "suggestion", 1)
        \/ \E n \in Periodes : Demander(s, "initier", n)
        \/ \E m \in LesMois : Viser(s, m) \/ Parcourir(s, "lot", m, 1)
        \/ \E m \in LesMois, n \in Periodes : Parcourir(s, "manuel", m, n)
        \/ \E c \in commandes : Encaisser(s, c)
        \/ LireCourante(s) \/ LireRegle(s) \/ LireMois(s) \/ Inserer(s) \/ Valider(s)
        \/ LirePrix(s) \/ LireReference(s) \/ Chiffrer(s) \/ Commander(s) \/ Abandonner(s)
  BY DEF Servir
<1>2. Avant(s)
  BY DEF Avant, IInv, Requetes
<1>3. ASSUME NEW m \in LesMois, Viser(s, m) \/ Parcourir(s, "lot", m, 1)
      PROVE  Tient(s)
  BY <1>2, <1>3, PasViser, PasParcourir
<1>4. ASSUME NEW m \in LesMois, NEW n \in Periodes, Parcourir(s, "manuel", m, n)
      PROVE  Tient(s)
  BY <1>2, <1>4, PasParcourir
<1>5. ASSUME NEW g \in {"initier", "suggestion"}, NEW n \in Periodes \cup {1}, Demander(s, g, n)
      PROVE  Tient(s)
  BY <1>2, <1>5, PasDemander
<1>6. Tient(s)
  BY <1>1, <1>2, <1>3, <1>4, <1>5, PasOuvrir, PasEncaisser, PasLireCourante, PasLireRegle,
     PasLireMois, PasInserer, PasValider, PasLirePrix, PasLireReference, PasChiffrer, PasCommander,
     PasAbandonner
<1>7. \A m \in LesMois : montant[m] # Absent => montant'[m] # Absent
  <2>1. CASE Valider(s) \/ Commander(s)
    BY <1>2, <2>1, PasValider, PasCommander
  <2>2. CASE ~(Valider(s) \/ Commander(s))
    <3>1. montant' = montant
      BY <1>1, <2>2 DEF Ouvrir, Demander, Viser, Parcourir, Encaisser, LireCourante, LireRegle,
                        LireMois, Inserer, LirePrix, LireReference, Chiffrer, Abandonner
    <3>. QED  BY <3>1
  <2>. QED  BY <2>1, <2>2
<1>8. \A t \in Sessions \ {s} : session'[t] = session[t]
  <2>1. ASSUME NEW e, session' = [session EXCEPT ![s] = e]
        PROVE  \A t \in Sessions \ {s} : session'[t] = session[t]
    BY <2>1 DEF IInv, Types
  <2>. QED  BY <1>1, <2>1 DEF Ouvrir, Demander, Viser, Parcourir, Encaisser, LireCourante, LireRegle,
                 LireMois, Inserer, Valider, LirePrix, LireReference, Chiffrer, Commander, Abandonner
<1>. QED  BY <1>6, <1>7, <1>8

LEMMA NoteSuivante ==
  ASSUME Noter
  PROVE  Note'
BY Memoire DEF Note

LEMMA Invariant == Spec => []IInv
<1>1. ASSUME Init PROVE IInv
  <2>1. Types
    BY <1>1, TypesInitiaux
  <2>2. (\A s \in Sessions : session[s] = Repos) /\ commandes = {}
    BY <1>1 DEF Init
  <2>3. \A s \in Sessions : \A m \in LesMois : ~Tenu(s, m)
    BY <2>2, RienAuRepos DEF Tenu
  <2>4. Cle /\ Note /\ Faites
    BY <2>2, <2>3, RienAuRepos DEF Cle, Note, Faites, AuMois, AuJour
  <2>5. Requetes
    BY <2>2, <2>3, RienAuRepos DEF Requetes, Reglee, Controle, Initiation, Paiement, Page, AuTarif
  <2>. QED  BY <2>1, <2>4, <2>5 DEF IInv
<1>2. ASSUME IInv, [Next]_vars PROVE IInv'
  <2>1. CASE UNCHANGED vars
    <3>1. Types' /\ Cle' /\ Faites'
      BY <1>2, <2>1 DEF IInv, vars, Types, Cle, Faites, Tenu
    <3>2. PremiersDits' = PremiersDits /\ PrixDits' = PrixDits /\ JoursDits' = JoursDits
      BY <2>1, DitStable DEF vars
    <3>3. Note'
      BY <1>2, <2>1, <3>2 DEF IInv, vars, Note
    <3>4. ASSUME NEW s \in Sessions PROVE Reglee(s)'
      <4>1. session' = session /\ montant' = montant /\ vus' = vus /\ Reglee(s)
        BY <1>2, <2>1 DEF IInv, vars, Requetes
      <4>2. Controle(s)' /\ AuTarif(s)'
        BY <4>1 DEF Reglee, Controle, AuTarif, Tenu, Admis
      <4>3. Initiation(s)' /\ Paiement(s)' /\ Page(s)'
        BY <4>1 DEF Reglee, Initiation, Paiement, Page, Couvert, Tenu
      <4>. QED  BY <4>2, <4>3 DEF Reglee
    <3>. QED  BY <3>1, <3>3, <3>4 DEF IInv, Requetes
  <2>2. CASE Administrer /\ Noter
    <3>1. session' = session /\ montant' = montant /\ commandes' = commandes
      BY <2>2 DEF Administrer, SemerTarif, SemerRegle, ValiderSemis, AbandonnerSemis,
                  ModifierTarif, ModifierRegle, Minuit
    <3>2. Types' /\ Note'
      BY <1>2, <2>2, TypesAdministrer, NoteSuivante DEF IInv
    <3>3. Cle' /\ Faites'
      BY <1>2, <3>1 DEF IInv, Cle, Faites, Tenu
    <3>4. Requetes'
      BY <1>2, <2>2, <3>1, Immobile DEF IInv, Requetes
    <3>. QED  BY <3>2, <3>3, <3>4 DEF IInv
  <2>3. CASE Servir /\ Noter
    <3>1. PICK s \in Sessions :
            /\ Tient(s)
            /\ \A t \in Sessions \ {s} : session'[t] = session[t]
            /\ \A m \in LesMois : montant[m] # Absent => montant'[m] # Absent
      BY <1>2, <2>3, PasDUneRequete
    <3>2. ASSUME NEW t \in Sessions
          PROVE  Reglee(t)'
      <4>1. CASE t = s
        BY <3>1, <4>1 DEF Tient
      <4>2. CASE t # s
        BY <1>2, <2>3, <3>1, <4>2, Immobile DEF IInv, Requetes
      <4>. QED  BY <4>1, <4>2
    <3>3. Types' /\ Cle' /\ Faites' /\ Note'
      BY <2>3, <3>1, NoteSuivante DEF Tient
    <3>. QED  BY <3>2, <3>3 DEF IInv, Requetes
  <2>. QED  BY <1>2, <2>1, <2>2, <2>3 DEF Next
<1>. QED  BY <1>1, <1>2, PTL DEF Spec

-----------------------------------------------------------------------------
(* Theorems *)

\* Types hold, and the key (adhesion, annee, mois) stays unique without a lock on
\* it: no two requests hold one month, none holds a month another committed.
THEOREM TypeCorrect == Spec => []TypeOK
<1>1. IInv => TypeOK
  <2>1. ASSUME IInv, NEW s \in Sessions
        PROVE  /\ session[s].etape \in Etapes /\ session[s].genre \in Genres
               /\ \A k \in DOMAIN session[s].reste : session[s].reste[k] \in LesMois
               /\ session[s].etape \in {"prix", "reference", "commander"} => montant[session[s].fin] # Absent
               /\ \A m \in LesMois : Tenu(s, m) => montant[m] = Absent /\ \A t \in Sessions \ {s} : ~Tenu(t, m)
    <3>1. session[s] \in Requete
      BY <2>1 DEF IInv, Types
    <3>2. session[s].reste \in Seq(LesMois)
      BY <3>1 DEF Requete
    <3>3. \A k \in DOMAIN session[s].reste : session[s].reste[k] \in LesMois
      BY <3>2
    <3>4. session[s].etape \in Etapes /\ session[s].genre \in Genres
      BY <3>1 DEF Requete
    <3>5. session[s].etape \in {"prix", "reference", "commander"} => montant[session[s].fin] # Absent
      BY <2>1 DEF IInv, Requetes, Reglee, Initiation
    <3>. QED  BY <2>1, <3>3, <3>4, <3>5 DEF IInv, Cle
  <2>2. ASSUME IInv
        PROVE  /\ \A i \in DOMAIN regles : regles[i] \in Lignes(Regles)
               /\ \A i \in DOMAIN tarifs : tarifs[i] \in Lignes(Montants \cup {Defaut})
    BY <2>2 DEF IInv, Types
  <2>. QED  BY <2>1, <2>2 DEF IInv, Types, TypeOK, Prix0
<1>. QED  BY <1>1, Invariant, PTL

\* Months are created by the commit of the request that holds them, at the amount
\* it wrote.
LEMMA Createur ==
  ASSUME IInv, [Next]_vars, NEW s \in Sessions, NEW m \in Crees(s)
  PROVE  /\ Valider(s) \/ (Commander(s) /\ session[s].genre = "commande")
         /\ m \in LesMois /\ Tenu(s, m) /\ montant'[m] = session[s].ecrits[m]
<1>1. m \in LesMois /\ Tenu(s, m) /\ montant[m] = Absent /\ montant'[m] # Absent
  BY DEF Crees
<1>2. \A t \in Sessions \ {s} : ~Tenu(t, m)
  BY <1>1 DEF IInv, Cle
<1>3. PICK t \in Sessions : Noter /\ (Valider(t) \/ Commander(t))
  <2>1. Next /\ montant' # montant
    BY <1>1 DEF vars
  <2>2. ~Administrer
    BY <2>1 DEF Administrer, SemerTarif, SemerRegle, ValiderSemis, AbandonnerSemis, ModifierTarif,
                ModifierRegle, Minuit
  <2>3. \A t \in Sessions :
          /\ ~Ouvrir(t) /\ ~LireCourante(t) /\ ~LireRegle(t) /\ ~LireMois(t) /\ ~Inserer(t)
          /\ \A g \in Genres, n \in Nat : ~Demander(t, g, n)
    BY <2>1 DEF Ouvrir, Demander, LireCourante, LireRegle, LireMois, Inserer
  <2>4. \A t \in Sessions :
          ~LirePrix(t) /\ ~LireReference(t) /\ ~Chiffrer(t) /\ ~Abandonner(t)
    BY <2>1 DEF LirePrix, LireReference, Chiffrer, Abandonner
  <2>5. \A t \in Sessions :
          (\A q \in LesMois : ~Viser(t, q)) /\ \A c \in commandes : ~Encaisser(t, c)
    BY <2>1 DEF Viser, Encaisser
  <2>6. \A t \in Sessions, g \in Genres, q \in LesMois, n \in Periodes \cup {1} :
          ~Parcourir(t, g, q, n)
    BY <2>1 DEF Parcourir
  <2>. QED  BY <2>1, <2>2, <2>3, <2>4, <2>5, <2>6, HypPeriodes DEF Next, Servir, Genres
<1>4. Avant(t)
  BY <1>3 DEF IInv, Requetes, Avant
<1>5. CASE Valider(t)
  <2>1. montant'[m] = IF Tenu(t, m) THEN session[t].ecrits[m] ELSE montant[m]
    BY <1>1, <1>5 DEF Valider
  <2>2. t = s
    BY <1>1, <1>2, <2>1
  <2>3. Valider(s)
    BY <1>5, <2>2
  <2>. QED  BY <1>1, <2>1, <2>2, <2>3
<1>6. CASE Commander(t)
  <2>1. Tenu(t, m)
    BY <1>1, <1>4, <1>6, EcritureCommande
  <2>2. t = s
    BY <1>2, <2>1
  <2>3. montant'[m] = session[s].ecrits[m]
    BY <1>1, <1>4, <1>6, <2>2, EcritureCommande
  <2>4. session[s].genre = "commande"
    BY <1>4, <1>6, <2>2 DEF Avant, Reglee, Initiation, Commander
  <2>5. Commander(s)
    BY <1>6, <2>2
  <2>. QED  BY <1>1, <2>3, <2>4, <2>5
<1>. QED  BY <1>3, <1>5, <1>6

\* A page bills no month before the first one owed by a rule that was in force
\* while it worked.
THEOREM PremierCorrect == Spec => PasAvantPremier
<1>1. ASSUME IInv, [Next]_vars
      PROVE  [\A s \in Sessions : session[s].genre = "page" =>
                \A m \in Crees(s) : \E p \in vus[s].premiers : p <= m]_vars
  <2>1. SUFFICES ASSUME NEW s \in Sessions, session[s].genre = "page", NEW m \in Crees(s)
                 PROVE  \E p \in vus[s].premiers : p <= m
    OBVIOUS
  <2>2. Valider(s) /\ m \in LesMois /\ Tenu(s, m)
    BY <1>1, <2>1, Createur
  <2>3. \E p \in vus[s].premiers : \A k \in LesMois : Tenu(s, k) => p <= k
    BY <1>1, <2>1, <2>2 DEF IInv, Requetes, Reglee, Page, Valider
  <2>. QED  BY <2>2, <2>3
<1>. QED  BY <1>1, Invariant, PTL DEF Spec, PasAvantPremier

\* A page that creates months leaves none missing between the first one owed and
\* the current one, whatever the others inserted, committed or rolled back.
THEOREM SansTrouCorrect == Spec => SansTrou
<1>1. ASSUME IInv, [Next]_vars
      PROVE  [\A s \in Sessions : session[s].genre = "page" /\ Crees(s) # {} =>
                \E p \in vus[s].premiers : \A m \in p..session[s].fin : montant'[m] # Absent]_vars
  <2>1. SUFFICES ASSUME NEW s \in Sessions, session[s].genre = "page", Crees(s) # {}
                 PROVE  \E p \in vus[s].premiers : \A m \in p..session[s].fin : montant'[m] # Absent
    OBVIOUS
  <2>2. Valider(s)
    BY <1>1, <2>1, Createur
  <2>3. PICK p \in vus[s].premiers :
          p \in LesMois /\ \A m \in p..session[s].fin : Couvert(s, m)
    BY <1>1, <2>1, <2>2 DEF IInv, Requetes, Reglee, Page, Valider
  <2>4. ASSUME NEW m \in p..session[s].fin
        PROVE  montant'[m] # Absent
    <3>1. m \in LesMois
      BY <1>1, <2>3, MoisFactures DEF IInv
    <3>2. DOMAIN session[s].reste = {}
      BY <2>2 DEF Valider
    <3>3. montant[m] # Absent \/ Tenu(s, m)
      BY <2>3, <3>2 DEF Couvert
    <3>. QED  BY <2>2, <3>1, <3>3 DEF Valider, Tenu
  <2>. QED  BY <2>3, <2>4
<1>. QED  BY <1>1, Invariant, PTL DEF Spec, SansTrou

\* The amount of a month is the one its creator may give: a tariff of the first day
\* of the month (generation, pages, suggestion, first month of an initiation), a
\* tariff of a day the request worked (the next months of an order), 0 (a period by
\* hand); and the payment of an order creates none.
THEOREM TarifCorrect == Spec => MontantDuCreateur
<1>1. ASSUME IInv, [Next]_vars
      PROVE  [\A s \in Sessions : \A m \in Crees(s) : montant'[m] \in Admis(s, m)]_vars
  <2>1. SUFFICES ASSUME NEW s \in Sessions, NEW m \in Crees(s)
                 PROVE  montant'[m] \in Admis(s, m)
    OBVIOUS
  <2>2. m \in LesMois /\ Tenu(s, m) /\ montant'[m] = session[s].ecrits[m]
    BY <1>1, <2>1, Createur
  <2>. QED  BY <1>1, <2>2 DEF IInv, Requetes, Reglee, AuTarif
<1>. QED  BY <1>1, Invariant, PTL DEF Spec, MontantDuCreateur
=============================================================================
