------------------------------ MODULE MoisDus ------------------------------
(***************************************************************************)
(* The months one validated member owes: the tariff and the rule of the    *)
(* first month (parametres_paiement, seeded and patched), and the requests *)
(* that create months: the two pages that show the state of the member,    *)
(* the initiation of a payment of one or several months, the suggestion of *)
(* periods, the generation of a month for everybody, the period paid by    *)
(* hand, and the payment of an order.                                      *)
(*                                                                         *)
(* A date is a natural number: months have J days and count from 1.  A     *)
(* request is one SQL session: what it inserted is seen by the others at   *)
(* its commit, and keeps the unique key (adhesion, annee, mois) until then.*)
(***************************************************************************)
EXTENDS Integers, Sequences

CONSTANTS
  Sessions,
  Workers,     \* processes that seed the parameters when they start
  J,           \* days of a month
  Horizon,     \* bound: the last month
  Periodes,    \* numbers of months one payment covers (1, 3, 6, 12)
  Validations, \* dates the member may have been validated on
  Regles,      \* texts of regle_date_premiere_cotisation
  Seuil,       \* the day N of those written jour_N
  Montants,    \* amounts an administrator may set
  Defaut,      \* default_cotisation_mensuelle_fcfa
  DatesModif,  \* bound: the dates an administrator writes
  MaxModifs    \* bound: modifications of the parameters

ASSUME HypCalendrier == J \in Nat \ {0} /\ Horizon \in Nat /\ Validations \subseteq 0..(Horizon - 1) * J - 1
ASSUME HypPeriodes == Periodes \subseteq Nat \ {0}
ASSUME HypRegles ==
  /\ "mois_suivant" \in Regles
  /\ DOMAIN Seuil \subseteq Regles \ {"mois_suivant"} /\ Seuil \in [DOMAIN Seuil -> Int]
ASSUME HypTarifs == Defaut \in Nat \ {0} /\ Montants \subseteq Nat \ {0}

Mois(d)    == (d \div J) + 1
Jour(d)    == (d % J) + 1
Premier(m) == (m - 1) * J
Dates      == 0..Horizon * J - 1
LesMois    == 1..Horizon
Jamais     == Horizon * J   \* date_fin_effet NULL
Absent     == -1            \* no row, nothing to write (a period by hand has 0)

ASSUME HypBornes == MaxModifs \in Nat /\ DatesModif \subseteq Dates

VARIABLES
  jour,       \* today
  validation, \* date the member was validated on
  montant,    \* cotisations_mensuelles.montant of each month
  commandes,  \* transactions_kopar of several months: the first and their number
  regles, tarifs, \* parametres_paiement, by code, in the order of insertion
  modifs,     \* parameters modified so far
  semis,      \* each process that seeds
  session,    \* each request
  vus         \* history: what the parameters said since each request began

vars == <<jour, validation, montant, commandes, regles, tarifs, modifs, semis, session, vus>>

SansMontants == [m \in LesMois |-> Absent]
Repos   == [etape |-> "repos", genre |-> "aucun", premier |-> 0, fin |-> 0, nombre |-> 1,
            reste |-> <<>>, prix |-> 0, ancre |-> Absent, poses |-> {}, ecrits |-> SansMontants]
NonSeme == [etape |-> "arrete", date |-> 0, regle |-> FALSE, tarif |-> FALSE]

-----------------------------------------------------------------------------
(* Parameters in force at a date: get_active_for_code_at.  Of the rows that  *)
(* contain the date, the latest date_effet; between equals SQL may choose.   *)

Actives(t, d)   == {i \in DOMAIN t : t[i].effet <= d /\ d <= t[i].fin}
EnVigueur(t, d) ==
  {t[i].valeur : i \in {k \in Actives(t, d) : \A l \in Actives(t, d) : t[l].effet <= t[k].effet}}

ReglesA(d) == IF Actives(regles, d) = {} THEN {"mois_suivant"} ELSE EnVigueur(regles, d)
TarifsA(d) == IF Actives(tarifs, d) = {} THEN {Defaut} ELSE EnVigueur(tarifs, d)

\* determiner_premier_mois_cotisation
\* (mutant: mois_suivant ignored)
PremierMoisCourant(r, d) ==
  IF r \in DOMAIN Seuil /\ Jour(d) > Seuil[r] THEN Mois(d) + 1 ELSE Mois(d)
PremierMois(r, d) ==
  IF r \in DOMAIN Seuil THEN IF Jour(d) <= Seuil[r] THEN Mois(d) ELSE Mois(d) + 1
  ELSE IF r = "mois_suivant" THEN Mois(d) + 1 ELSE Mois(d)

-----------------------------------------------------------------------------
(* The parameters *)

Parametre(d, v) == [effet |-> d, fin |-> Jamais, valeur |-> v]

\* seed_defaults_if_empty, at the start of a process and by --seed-defaults:
\* for each code, insert when none is active today; one commit.
SemerTarif(w) ==
  /\ semis[w].etape = "arrete"
  /\ semis' = [semis EXCEPT ![w] = [etape |-> "regle", date |-> jour, regle |-> FALSE,
                                    tarif |-> Actives(tarifs, jour) = {}]]
  /\ UNCHANGED <<jour, validation, montant, commandes, regles, tarifs, modifs, session>>

SemerRegle(w) ==
  /\ semis[w].etape = "regle"
  /\ semis' = [semis EXCEPT ![w].etape = "valider",
                            ![w].regle = Actives(regles, semis[w].date) = {}]
  /\ UNCHANGED <<jour, validation, montant, commandes, regles, tarifs, modifs, session>>

ValiderSemis(w) ==
  LET d == semis[w].date IN
  /\ semis[w].etape = "valider"
  /\ tarifs' = IF semis[w].tarif THEN Append(tarifs, Parametre(d, Defaut)) ELSE tarifs
  /\ regles' = IF semis[w].regle THEN Append(regles, Parametre(d, "mois_suivant")) ELSE regles
  /\ semis' = [semis EXCEPT ![w].etape = "fait"]
  /\ UNCHANGED <<jour, validation, montant, commandes, modifs, session>>

\* lifespan swallows what fails.
AbandonnerSemis(w) ==
  /\ semis[w].etape \in {"regle", "valider"}
  /\ semis' = [semis EXCEPT ![w].etape = "fait"]
  /\ UNCHANGED <<jour, validation, montant, commandes, regles, tarifs, modifs, session>>

\* PATCH: the columns given, the others kept; no check of the interval.
Modifiee(p, valeurs) ==
  {[p EXCEPT !.valeur = v] : v \in valeurs} \cup {[p EXCEPT !.effet = d] : d \in DatesModif}
    \cup {[p EXCEPT !.fin = d] : d \in DatesModif}

ModifierTarif(i) ==
  /\ modifs < MaxModifs /\ i \in DOMAIN tarifs
  /\ \E p \in Modifiee(tarifs[i], Montants) : tarifs' = [tarifs EXCEPT ![i] = p]
  /\ modifs' = modifs + 1
  /\ UNCHANGED <<jour, validation, montant, commandes, regles, semis, session>>

ModifierRegle(i) ==
  /\ modifs < MaxModifs /\ i \in DOMAIN regles
  /\ \E p \in Modifiee(regles[i], Regles) : regles' = [regles EXCEPT ![i] = p]
  /\ modifs' = modifs + 1
  /\ UNCHANGED <<jour, validation, montant, commandes, tarifs, semis, session>>

-----------------------------------------------------------------------------
(* The requests *)

Parametres == <<jour, validation, regles, tarifs, modifs, semis>>
Tenu(s, m) == session[s].ecrits[m] # Absent
Vu(s, m)   == montant[m] # Absent \/ Tenu(s, m)
MoisDe(premier, fin) == [k \in 1..(fin - premier + 1) |-> premier + k - 1]

\* calculer_mois_consecutifs.
Periode(premier, n)  == premier..premier + n - 1
DansHorizon(premier, n) == premier + n - 1 <= Horizon

\* A page reads the rule, then today: the first month is to come, or not.
Ouvrir(s) ==
  /\ session[s] = Repos
  /\ \E r \in ReglesA(jour) :
       session' = [session EXCEPT ![s].etape = "courante", ![s].genre = "page",
                                  ![s].premier = PremierMois(r, validation)]
  /\ UNCHANGED <<montant, commandes, Parametres>>

\* The initiation of n months from the current one, and the suggestion, look at
\* the current month only.
Demander(s, genre, n) ==
  /\ session[s] = Repos
  /\ session' = [session EXCEPT ![s].etape = "courante", ![s].genre = genre, ![s].nombre = n]
  /\ UNCHANGED <<montant, commandes, Parametres>>

\* The initiation of a month that has a row (its identifier is given).
Viser(s, m) ==
  /\ session[s] = Repos /\ montant[m] # Absent
  /\ session' = [session EXCEPT ![s].etape = "prix", ![s].genre = "initier", ![s].fin = m]
  /\ UNCHANGED <<montant, commandes, Parametres>>

\* POST generer-mois (any month) and the cron job (the current one); a period paid
\* by hand, from any month (get_or_create_for_adherent_mois).
Parcourir(s, genre, p, n) ==
  /\ session[s] = Repos /\ DansHorizon(p, n)
  /\ session' = [session EXCEPT ![s].etape = "mois", ![s].genre = genre,
                                ![s].reste = MoisDe(p, p + n - 1)]
  /\ UNCHANGED <<montant, commandes, Parametres>>

\* mark_paid_periode: the payment of an order goes through its months and would
\* create those that are missing at the amount of the first.
Encaisser(s, c) ==
  /\ session[s] = Repos /\ c \in commandes
  /\ session' = [session EXCEPT ![s].etape = "mois", ![s].genre = "paiement", ![s].fin = c[1],
                                ![s].reste = MoisDe(c[1], c[1] + c[2] - 1)]
  /\ UNCHANGED <<montant, commandes, Parametres>>

\* get_cotisation_courante.
LireCourante(s) ==
  LET c == Mois(jour)  g == session[s].genre  p == session[s].premier  n == session[s].nombre IN
  /\ session[s].etape = "courante" /\ DansHorizon(c, n)
  /\ \/ /\ montant[c] # Absent /\ g = "initier"
        /\ session' = [session EXCEPT ![s].etape = "prix", ![s].fin = c]
     \/ /\ montant[c] # Absent /\ g # "initier"
        /\ session' = [session EXCEPT ![s] = Repos]
     \/ /\ montant[c] = Absent /\ g # "page"
        /\ session' = [session EXCEPT ![s].etape = "mois", ![s].reste = <<c>>, ![s].fin = c]
     \/ /\ montant[c] = Absent /\ g = "page" /\ p > c
        /\ session' = [session EXCEPT ![s].etape = "mois", ![s].reste = <<p>>]
     \/ /\ montant[c] = Absent /\ g = "page" /\ p <= c
        /\ session' = [session EXCEPT ![s].etape = "suite"]
  /\ UNCHANGED <<montant, commandes, Parametres>>

\* generer_pour_adherent_suite_validation reads the rule and the date again.
\* (mutant: the current month is left out)
SuiteSansCourant(p, c) == MoisDe(p, IF p > c THEN p ELSE c - 1)
Suite(p, c) == MoisDe(p, IF p > c THEN p ELSE c)
LireRegle(s) ==
  /\ session[s].etape = "suite"
  /\ \E r \in ReglesA(jour) :
       session' = [session EXCEPT ![s].etape = "mois", ![s].fin = Mois(jour),
                     ![s].reste = Suite(PremierMois(r, validation), Mois(jour))]
  /\ UNCHANGED <<montant, commandes, Parametres>>

\* creer_cotisation: the row exists, or its amount is the tariff on the first of
\* its month.  An order gives its months the tariff it read, a period by hand none.
\* (mutant: the tariff of today)
PrixDuJour(m) == TarifsA(jour)
Prix(m) == TarifsA(Premier(m))
PrixDe(s, m) ==
  CASE session[s].genre = "commande" -> {session[s].prix}
    [] session[s].genre = "manuel"   -> {0}
    [] session[s].genre = "paiement" -> {montant[session[s].fin]}
    [] OTHER -> Prix(m)
LireMois(s) ==
  LET m == Head(session[s].reste) IN
  /\ session[s].etape = "mois" /\ session[s].reste # <<>>
  /\ IF Vu(s, m) THEN session' = [session EXCEPT ![s].reste = Tail(@)]
     ELSE \E p \in PrixDe(s, m) :
            session' = [session EXCEPT ![s].etape = "inserer", ![s].prix = p]
  /\ UNCHANGED <<montant, commandes, Parametres>>

\* INSERT: waits for whoever inserted the month, and fails if it committed.  The
\* request that fails rolls back all its months.
\* (mutant: the key is not unique)
AttenteSansCle(s, m) == FALSE
Attente(s, m) == \E t \in Sessions \ {s} : Tenu(t, m)
Inserer(s) ==
  LET m == Head(session[s].reste) IN
  /\ session[s].etape = "inserer" /\ ~Attente(s, m)
  /\ \/ /\ montant[m] # Absent
        /\ session' = [session EXCEPT ![s] = Repos]
     \/ /\ montant[m] = Absent
        /\ session' = [session EXCEPT ![s].etape = "mois", ![s].reste = Tail(@),
                                      ![s].ecrits[m] = session[s].prix]
  /\ UNCHANGED <<montant, commandes, Parametres>>

\* Commit.  The suggestion has none.
Apres(s) ==
  IF session[s].genre = "initier"
  THEN [session[s] EXCEPT !.etape = "prix", !.ecrits = SansMontants] ELSE Repos
Valider(s) ==
  /\ session[s].etape = "mois" /\ session[s].reste = <<>>
  /\ session[s].genre \notin {"suggestion", "commande"}
  /\ montant' = [m \in LesMois |-> IF Tenu(s, m) THEN session[s].ecrits[m] ELSE montant[m]]
  /\ session' = [session EXCEPT ![s] = Apres(s)]
  /\ UNCHANGED <<commandes, Parametres>>

\* The tariff of today goes on the first month of an initiation when it differs by
\* more than one franc; the UPDATE is committed with the order.
LirePrix(s) ==
  LET a == montant[session[s].fin] IN
  /\ session[s].etape = "prix"
  /\ \E p \in TarifsA(jour) :
       session' = [session EXCEPT ![s].etape = "reference",
                     ![s].ancre = IF p - a \in {-1, 0, 1} THEN Absent ELSE p]
  /\ UNCHANGED <<montant, commandes, Parametres>>

\* initier_paiement_cotisation_periode reads the tariff of today again, for the
\* months of the period that have no row.
LireReference(s) ==
  LET c == session[s].fin IN
  /\ session[s].etape = "reference"
  /\ \E p \in TarifsA(jour) :
       session' = [session EXCEPT ![s].etape = "mois", ![s].genre = "commande", ![s].prix = p,
                                  ![s].reste = MoisDe(c + 1, c + session[s].nombre - 1)]
  /\ UNCHANGED <<montant, commandes, Parametres>>

\* The total: it puts that tariff on the months at 0 that it counts (the others are
\* paid, or offered).
Chiffrer(s) ==
  LET nuls == {m \in Periode(session[s].fin, session[s].nombre) : montant[m] = 0} IN
  /\ session[s].etape = "mois" /\ session[s].reste = <<>> /\ session[s].genre = "commande"
  /\ \E z \in SUBSET nuls :
       session' = [session EXCEPT ![s].etape = "commander", ![s].poses = z]
  /\ UNCHANGED <<montant, commandes, Parametres>>

\* The provider has answered: the order, its months and their amounts are one commit.
\* (an order of one month is not kept: its payment meets the row it was made for)
Commander(s) ==
  LET e == session[s] IN
  /\ e.etape = "commander"
  /\ montant' = [m \in LesMois |->
       IF Tenu(s, m) THEN e.ecrits[m]
       ELSE IF m = e.fin /\ e.ancre # Absent THEN e.ancre
       ELSE IF m \in e.poses THEN e.prix
       ELSE montant[m]]
  /\ commandes' = IF e.nombre > 1 THEN commandes \cup {<<e.fin, e.nombre>>} ELSE commandes
  /\ session' = [session EXCEPT ![s] = Repos]
  /\ UNCHANGED Parametres

\* Crash, error of the provider, 409 on a paid month; end of a suggestion.
Abandonner(s) ==
  /\ session[s] # Repos
  /\ session' = [session EXCEPT ![s] = Repos]
  /\ UNCHANGED <<montant, commandes, Parametres>>

\* Midnight.
Minuit ==
  /\ jour + 1 \in Dates
  /\ jour' = jour + 1
  /\ UNCHANGED <<validation, montant, commandes, regles, tarifs, modifs, semis, session>>

-----------------------------------------------------------------------------
(* What the parameters said during a request (history, read by no action) *)

\* A month is owed by whoever was validated before it or on one of its days of
\* grace (none has more than J, whatever N says); the first one owed is the least.
Grace(r) == {d \in 1..J : IF r \in DOMAIN Seuil THEN d <= Seuil[r] ELSE r # "mois_suivant"}
Du(r, m) == validation < Premier(m) \/ validation \in {Premier(m) + d - 1 : d \in Grace(r)}
PremierDu(r) == CHOOSE m \in LesMois : Du(r, m) /\ \A k \in LesMois : Du(r, k) => m <= k

PremiersDits == {PremierDu(r) : r \in ReglesA(jour)}
PrixDits     == UNION {{<<m, p>> : p \in TarifsA(Premier(m))} : m \in LesMois}
JoursDits    == TarifsA(jour)

AuMois == {"page", "initier", "suggestion", "lot"}   \* creer_cotisation
AuJour == {"initier", "commande"}

Rien  == [premiers |-> {}, prix |-> {}, jours |-> {}]
Noter == vus' = [s \in Sessions |-> LET g == session'[s].genre IN
           [premiers |-> IF g = "page" THEN vus[s].premiers \cup PremiersDits' ELSE {},
            prix     |-> IF g \in AuMois THEN vus[s].prix \cup PrixDits' ELSE {},
            jours    |-> IF g \in AuJour THEN vus[s].jours \cup JoursDits' ELSE {}]]

-----------------------------------------------------------------------------
Init ==
  /\ validation \in Validations /\ jour = validation
  /\ montant = SansMontants /\ commandes = {}
  /\ regles = <<>> /\ tarifs = <<>> /\ modifs = 0
  /\ semis = [w \in Workers |-> NonSeme]
  /\ session = [s \in Sessions |-> Repos]
  /\ vus = [s \in Sessions |-> Rien]

Administrer ==
  \/ \E w \in Workers : SemerTarif(w) \/ SemerRegle(w) \/ ValiderSemis(w) \/ AbandonnerSemis(w)
  \/ \E i \in DOMAIN tarifs : ModifierTarif(i)
  \/ \E i \in DOMAIN regles : ModifierRegle(i)
  \/ Minuit

Servir ==
  \E s \in Sessions :
    \/ Ouvrir(s)
    \/ Demander(s, "suggestion", 1)
    \/ \E n \in Periodes : Demander(s, "initier", n)
    \/ \E m \in LesMois : Viser(s, m) \/ Parcourir(s, "lot", m, 1)
    \/ \E m \in LesMois, n \in Periodes : Parcourir(s, "manuel", m, n)
    \/ \E c \in commandes : Encaisser(s, c)
    \/ LireCourante(s) \/ LireRegle(s) \/ LireMois(s) \/ Inserer(s) \/ Valider(s)
    \/ LirePrix(s) \/ LireReference(s) \/ Chiffrer(s) \/ Commander(s) \/ Abandonner(s)

Next == (Administrer \/ Servir) /\ Noter
Spec == Init /\ [][Next]_vars

-----------------------------------------------------------------------------
(* Properties *)

Etapes == {"repos", "courante", "suite", "mois", "inserer", "prix", "reference", "commander"}
Genres == {"aucun", "page", "initier", "suggestion", "lot", "manuel", "commande", "paiement"}
Lignes(valeurs) == [effet : Dates, fin : Dates \cup {Jamais}, valeur : valeurs]

\* Types, and the unique key: no two requests hold one month, none holds a month
\* that another committed.
TypeOK ==
  /\ jour \in Dates /\ validation \in Validations /\ modifs \in 0..MaxModifs
  /\ montant \in [LesMois -> Montants \cup {Absent, 0, Defaut}]
  /\ commandes \subseteq LesMois \X Periodes
  /\ \A i \in DOMAIN regles : regles[i] \in Lignes(Regles)
  /\ \A i \in DOMAIN tarifs : tarifs[i] \in Lignes(Montants \cup {Defaut})
  /\ \A w \in Workers :
       semis[w] \in [etape : {"arrete", "regle", "valider", "fait"}, date : Dates,
                     regle : BOOLEAN, tarif : BOOLEAN]
  /\ \A s \in Sessions :
       /\ session[s].etape \in Etapes /\ session[s].genre \in Genres
       /\ \A k \in DOMAIN session[s].reste : session[s].reste[k] \in LesMois
       /\ session[s].etape \in {"prix", "reference", "commander"} => montant[session[s].fin] # Absent
       /\ \A m \in LesMois : Tenu(s, m) => montant[m] = Absent /\ \A t \in Sessions \ {s} : ~Tenu(t, m)

\* The months a request's commit creates.
Crees(s) == {m \in LesMois : Tenu(s, m) /\ montant[m] = Absent /\ montant'[m] # Absent}

\* A page bills no month before the first one the member owes by the rule in
\* force while it worked (determiner_premier_mois_cotisation, etat_cotisation_publique).
PasAvantPremier ==
  [][\A s \in Sessions : session[s].genre = "page" =>
       \A m \in Crees(s) : \E p \in vus[s].premiers : p <= m]_vars

\* A page that creates months leaves none missing between the first one owed and
\* the current one, whatever other requests inserted, committed or rolled back
\* meanwhile: a missing month would interrupt the run of unpaid months that
\* radiates (generer_pour_adherent_suite_validation).
SansTrou ==
  [][\A s \in Sessions : session[s].genre = "page" /\ Crees(s) # {} =>
       \E p \in vus[s].premiers : \A m \in p..session[s].fin : montant'[m] # Absent]_vars

\* The amount a month is created at depends on who creates it.  Generation, pages,
\* suggestion and the first month of an initiation: a tariff of its first day, not
\* of the day it is created (creer_cotisation).  The next months of an order: a
\* tariff of a day the request worked (initier_paiement_cotisation_periode).  A
\* period by hand: 0.  The payment of an order creates none: its commit had made
\* them all (mark_paid_periode prices the missing ones at the first).
Admis(s, m) ==
  CASE session[s].genre = "commande" -> vus[s].jours
    [] session[s].genre = "manuel"   -> {0}
    [] session[s].genre = "paiement" -> {}
    [] OTHER -> {p \in Montants \cup {Defaut} : <<m, p>> \in vus[s].prix}
MontantDuCreateur ==
  [][\A s \in Sessions : \A m \in Crees(s) : montant'[m] \in Admis(s, m)]_vars
=============================================================================
