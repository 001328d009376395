---------------------------- MODULE Cotisations ----------------------------
(***************************************************************************)
(* The months owed by all the validated members: the monthly batch         *)
(* (generate_monthly_dues, and its route for administrators) against the   *)
(* sessions that create or pay months of one member.                       *)
(*                                                                         *)
(* A batch is ONE SQL transaction for every member.  PostgreSQL at READ    *)
(* COMMITTED: what a transaction flushed is held (locked, or reserved by   *)
(* the unique key) until its end and seen by the others at its commit.     *)
(***************************************************************************)
EXTENDS Naturals, Sequences, FiniteSets

CONSTANTS
  Membres,   \* members whose adhesion is validee
  LotsCron,  \* runs of generate_monthly_dues
  LotsAdmin, \* runs of POST /cotisations/generer-mois
  Sessions,  \* requests and webhooks
  Parcours,  \* what they may do: <<"creer" or "payer", months in calendar order>>
  Limite,    \* LIMIT of the query that lists the overdue months (100 000)
  Rien       \* nothing flushed, no row

Mois    == {"precedent", "courant"}
Lots    == LotsCron \cup LotsAdmin
Lignes  == Membres \X Mois
Statuts == {"absente", "en_attente", "echue", "payee"}
Auteurs == Lots \cup Sessions

ASSUME HypAuteurs  == LotsCron \cap LotsAdmin = {} /\ Lots \cap Sessions = {}
ASSUME HypParcours == Parcours \subseteq {"creer", "payer"} \X Seq(Mois)
ASSUME HypLimite   == Limite \in Nat
ASSUME HypRien     == Rien \notin Statuts /\ Rien \notin Lignes

VARIABLES
  ligne,     \* cotisations_mensuelles.statut, as committed
  flushees,  \* what each transaction flushed and did not commit
  etape,     \* where each transaction is
  courante,  \* the row it is about to write
  afaire,    \* a batch: members left to generate
  listees,   \* a batch: rows of the previous month left to read
  sales,     \* a batch: rows set to echue in memory, not flushed
  tronquee,  \* a batch: LIMIT cut its list of the previous month
  objectif,  \* a session: "creer" or "payer"
  reste      \* a session: rows left

vars == <<ligne, flushees, etape, courante, afaire, listees, sales, tronquee, objectif, reste>>

Ecriture == <<flushees, etape, courante>>
Lot      == <<afaire, listees, sales, tronquee>>
Session  == <<objectif, reste>>

Tenue(c, a)     == flushees[a][c] # Rien
\* (mutant: no unique key, an INSERT blocks nobody)
LibrePourSansCle(c, a) ==
  \A b \in Auteurs \ {a} : Tenue(c, b) => ligne[c] = "absente"
LibrePour(c, a) == \A b \in Auteurs \ {a} : ~Tenue(c, b)
\* a itself sees what it flushed.
Vue(a, c) == IF Tenue(c, a) THEN flushees[a][c] ELSE ligne[c]

Vers(a, e) == etape' = [etape EXCEPT ![a] = e]
Flusher(a, c, statut) == flushees' = [flushees EXCEPT ![a][c] = statut]
Aucune == [c \in Lignes |-> Rien]

\* The end of a transaction, committed or not.
Publier(a)  == ligne' = [c \in Lignes |-> Vue(a, c)]
Terminer(a, e) ==
  /\ flushees' = [flushees EXCEPT ![a] = Aucune]
  /\ courante' = [courante EXCEPT ![a] = Rien]
  /\ Vers(a, e)
\* The unique key (adhesion_id, annee, mois): an INSERT finds the month committed.
Conflit(c) == ligne[c] # "absente"

-----------------------------------------------------------------------------
(* generer_tous_les_du_mois: the members are read once, in no given order *)
LotLancer(l) ==
  /\ etape[l] = "repos"
  /\ Vers(l, "generer")
  /\ afaire' = [afaire EXCEPT ![l] = Membres]
  /\ UNCHANGED <<ligne, flushees, courante, listees, sales, tronquee, Session>>

\* What is left of the members once the month of m is found.
\* (mutant: break instead of continue)
SuiteArretee(l, m) == {}
Suite(l, m) == afaire[l] \ {m}

LotVoir(l, m) ==
  /\ etape[l] = "generer" /\ m \in afaire[l]
  /\ IF Vue(l, <<m, "courant">>) = "absente"
     THEN /\ Vers(l, "inserer")
          /\ courante' = [courante EXCEPT ![l] = <<m, "courant">>]
          /\ UNCHANGED afaire
     ELSE /\ afaire' = [afaire EXCEPT ![l] = Suite(l, m)]
          /\ UNCHANGED <<etape, courante>>
  /\ UNCHANGED <<ligne, flushees, listees, sales, tronquee, Session>>

\* creer_cotisation: the INSERT waits for whoever is inserting the same month.
LotInserer(l) ==
  LET c == courante[l] IN
  /\ etape[l] = "inserer" /\ LibrePour(c, l) /\ ~Conflit(c)
  /\ Flusher(l, c, "en_attente")
  /\ afaire' = [afaire EXCEPT ![l] = @ \ {c[1]}]
  /\ courante' = [courante EXCEPT ![l] = Rien]
  /\ Vers(l, "generer")
  /\ UNCHANGED <<ligne, listees, sales, tronquee, Session>>

Vider(l) ==
  /\ afaire'  = [afaire EXCEPT ![l] = {}]
  /\ listees' = [listees EXCEPT ![l] = {}]
  /\ sales'   = [sales EXCEPT ![l] = {}]
  /\ tronquee' = [tronquee EXCEPT ![l] = FALSE]

\* IntegrityError: the whole batch is rolled back.
LotConflit(l) ==
  /\ etape[l] = "inserer" /\ LibrePour(courante[l], l) /\ Conflit(courante[l])
  /\ Terminer(l, "conflit")
  /\ Vider(l)
  /\ UNCHANGED <<ligne, Session>>

(* marquer_echues_du_mois_precedent: ids, then one SELECT per row *)
\* (mutant: the month of today)
MoisEchuCourant == "courant"
MoisEchu == "precedent"
\* (mutant: a first page only, as the reminders do)
AEchoirPage(l) ==
  LET s == {c \in Lignes : c[2] = MoisEchu /\ Vue(l, c) = "en_attente"} IN
  IF s = {} THEN s ELSE {CHOOSE c \in s : TRUE}
AEchoir(l) == {c \in Lignes : c[2] = MoisEchu /\ Vue(l, c) = "en_attente"}
\* ORDER BY none, LIMIT: any rows of S, as many as allowed.
Extraits(S) ==
  {T \in SUBSET S : Cardinality(T) = IF Cardinality(S) > Limite THEN Limite ELSE Cardinality(S)}

LotLister(l) ==
  /\ etape[l] = "generer" /\ afaire[l] = {} /\ l \in LotsCron
  /\ \E T \in Extraits(AEchoir(l)) :
       /\ listees' = [listees EXCEPT ![l] = T]
       /\ tronquee' = [tronquee EXCEPT ![l] = (T # AEchoir(l))]
  /\ Vers(l, "echoir")
  /\ UNCHANGED <<ligne, flushees, courante, afaire, sales, Session>>

LotLire(l, c) ==
  /\ etape[l] = "echoir" /\ c \in listees[l]
  /\ listees' = [listees EXCEPT ![l] = @ \ {c}]
  /\ sales' = [sales EXCEPT ![l] = IF Vue(l, c) = "en_attente" THEN @ \cup {c} ELSE @]
  /\ UNCHANGED <<ligne, Ecriture, afaire, tronquee, Session>>

\* The unit of work sends UPDATE ... SET statut = 'echue' WHERE id = ..., at the
\* next query or at the final flush.
LotFlush(l, c) ==
  /\ etape[l] = "echoir" /\ c \in sales[l]
  /\ sales' = [sales EXCEPT ![l] = @ \ {c}]
  /\ courante' = [courante EXCEPT ![l] = c]
  /\ Vers(l, "ecrire_echue")
  /\ UNCHANGED <<ligne, flushees, afaire, listees, tronquee, Session>>

LotEcrire(l) ==
  /\ etape[l] = "ecrire_echue" /\ LibrePour(courante[l], l)
  /\ Flusher(l, courante[l], "echue")
  /\ courante' = [courante EXCEPT ![l] = Rien]
  /\ Vers(l, "echoir")
  /\ UNCHANGED <<ligne, Lot, Session>>

LotValider(l) ==
  /\ \/ etape[l] = "echoir"
     \/ etape[l] = "generer" /\ l \in LotsAdmin
  /\ afaire[l] = {} /\ listees[l] = {} /\ sales[l] = {}
  /\ Publier(l)
  /\ Terminer(l, "fini")
  /\ UNCHANGED <<Lot, Session>>

\* A crash, or the victim PostgreSQL chooses in a deadlock.
LotAbandonner(l) ==
  /\ etape[l] \notin {"repos", "fini", "conflit"}
  /\ Terminer(l, "repos")
  /\ Vider(l)
  /\ UNCHANGED <<ligne, Session>>

-----------------------------------------------------------------------------
(* A session: creer_cotisation on the months of a member (QR page, member's  *)
(* page, initiation), or mark_paid_periode and the manual payment           *)
Commencer(s, m, p) ==
  /\ etape[s] = "repos"
  /\ Vers(s, "lire")
  /\ objectif' = [objectif EXCEPT ![s] = p[1]]
  /\ reste' = [reste EXCEPT ![s] = [i \in 1..Len(p[2]) |-> <<m, p[2][i]>>]]
  /\ UNCHANGED <<ligne, flushees, courante, Lot>>

\* A month that exists is not created again; a month that is paid is skipped
\* (mark_manuel writes it again, with the same statut).
AEcrire(s, statut) ==
  IF objectif[s] = "creer" THEN statut = "absente" ELSE statut # "payee"

Lire(s) ==
  /\ etape[s] = "lire" /\ reste[s] # << >>
  /\ LET c == Head(reste[s]) IN
     IF AEcrire(s, Vue(s, c))
     THEN /\ Vers(s, IF Vue(s, c) = "absente" THEN "inserer" ELSE "modifier")
          /\ courante' = [courante EXCEPT ![s] = c]
     ELSE UNCHANGED <<etape, courante>>
  /\ reste' = [reste EXCEPT ![s] = Tail(@)]
  /\ UNCHANGED <<ligne, flushees, Lot, objectif>>

Ecrire(s) ==
  LET c == courante[s] IN
  /\ etape[s] \in {"inserer", "modifier"} /\ LibrePour(c, s)
  /\ etape[s] = "inserer" => ~Conflit(c)
  /\ Flusher(s, c, IF objectif[s] = "creer" THEN "en_attente" ELSE "payee")
  /\ courante' = [courante EXCEPT ![s] = Rien]
  /\ Vers(s, "lire")
  /\ UNCHANGED <<ligne, Lot, Session>>

Valider(s) ==
  /\ etape[s] = "lire" /\ reste[s] = << >>
  /\ Publier(s)
  /\ Terminer(s, "repos")
  /\ UNCHANGED <<Lot, Session>>

\* A conflict on the unique key, a crash, a deadlock: rollback.
Abandonner(s) ==
  /\ etape[s] # "repos"
  /\ Terminer(s, "repos")
  /\ reste' = [reste EXCEPT ![s] = << >>]
  /\ UNCHANGED <<ligne, Lot, objectif>>

-----------------------------------------------------------------------------
(* Everyone was a member the month before; the current month is already there *)
(* for those who paid it in advance.                                        *)
Init ==
  /\ ligne \in [Lignes -> Statuts]
  /\ \A m \in Membres : /\ ligne[<<m, "precedent">>] \in {"en_attente", "payee"}
                        /\ ligne[<<m, "courant">>] \in {"absente", "payee"}
  /\ flushees = [a \in Auteurs |-> Aucune]
  /\ etape    = [a \in Auteurs |-> "repos"]
  /\ courante = [a \in Auteurs |-> Rien]
  /\ afaire   = [l \in Lots |-> {}]
  /\ listees  = [l \in Lots |-> {}]
  /\ sales    = [l \in Lots |-> {}]
  /\ tronquee = [l \in Lots |-> FALSE]
  /\ objectif = [s \in Sessions |-> "creer"]
  /\ reste    = [s \in Sessions |-> << >>]

AvancerLot(l) ==
  \/ LotLancer(l) \/ LotInserer(l) \/ LotConflit(l) \/ LotLister(l) \/ LotEcrire(l)
  \/ LotValider(l) \/ LotAbandonner(l)
  \/ \E m \in Membres : LotVoir(l, m)
  \/ \E c \in Lignes : LotLire(l, c) \/ LotFlush(l, c)

AvancerSession(s) ==
  \/ \E m \in Membres, p \in Parcours : Commencer(s, m, p)
  \/ Lire(s) \/ Ecrire(s) \/ Valider(s) \/ Abandonner(s)

Next == (\E l \in Lots : AvancerLot(l)) \/ (\E s \in Sessions : AvancerSession(s))

Spec == Init /\ [][Next]_vars

-----------------------------------------------------------------------------
(* Properties *)

\* Types; and two transactions never hold one row, whoever inserts it.
TypeOK ==
  /\ ligne \in [Lignes -> Statuts]
  /\ flushees \in [Auteurs -> [Lignes -> Statuts \cup {Rien}]]
  /\ etape \in [Auteurs -> {"repos", "generer", "inserer", "echoir", "ecrire_echue",
                            "fini", "conflit", "lire", "modifier"}]
  /\ courante \in [Auteurs -> Lignes \cup {Rien}]
  /\ afaire \in [Lots -> SUBSET Membres]
  /\ listees \in [Lots -> SUBSET Lignes] /\ sales \in [Lots -> SUBSET Lignes]
  /\ tronquee \in [Lots -> BOOLEAN]
  /\ objectif \in [Sessions -> {"creer", "payer"}]
  /\ reste \in [Sessions -> Seq(Lignes)]
  /\ \A a, b \in Auteurs : \A c \in Lignes : Tenue(c, a) /\ Tenue(c, b) => a = b

\* A batch that committed has generated the month of every member, whatever
\* the members' own pages created or paid meanwhile.
LotComplet == \A l \in Lots : etape[l] = "fini" =>
                \A m \in Membres : ligne[<<m, "courant">>] # "absente"

\* A payment of the current month is never undone by a batch or by a page that
\* would create the month.
CourantPaye ==
  [][\A m \in Membres : ligne[<<m, "courant">>] = "payee" =>
                          ligne'[<<m, "courant">>] = "payee"]_vars

\* After the batch nobody's previous month is still en_attente, unless more
\* rows were than its LIMIT when it listed them.
PrecedentSolde ==
  [][\A l \in LotsCron : LotValider(l) /\ ~tronquee[l] =>
       \A m \in Membres : ligne'[<<m, "precedent">>] # "en_attente"]_vars
=============================================================================
