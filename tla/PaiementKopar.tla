--------------------------- MODULE PaiementKopar ---------------------------
(***************************************************************************)
(* Online payment of what ONE member owes (the adhesion fee and the        *)
(* monthly cotisations) through the provider Kopar Pay.                    *)
(*                                                                         *)
(* Database: transactions_kopar rows (tx, avant), the rows that record what *)
(* is due (ligne, reference: one adhesions row, one                        *)
(* cotisations_mensuelles row per month).  Provider: orders and the        *)
(* notifications (IPN webhooks) it emits.  The code runs as SESSIONS, each *)
(* an SQLAlchemy session on PostgreSQL at READ COMMITTED: what a session   *)
(* flushed is visible to the others, and its row locks are released, only  *)
(* when it commits (Valider..., or Abandonner for a rollback).             *)
(***************************************************************************)
EXTENDS Naturals, Sequences, FiniteSets

CONSTANTS
  Ordres,          \* kopar_token of the orders the provider may create
  Refs,            \* command_ref: ADH-{id}, COT-{id}, COTP-{n}-{id}
  RefAdhesion,     \* the one that is ADH-{adhesion_id}
  Lignes,          \* the rows that record a due
  Couvre,          \* Refs -> the rows a reference pays for, in calendar order
  Precedent,       \* the row of the month before the current one
  LignesAbsentes,  \* months whose row is not generated yet at the start
  Sessions,        \* concurrent request handlers and cron runs
  Acteurs,         \* which handlers run: see ActeursPossibles
  EvolutionsKopar, \* the status changes the provider makes
  MaxPannes,       \* bound: handlers that crash or fail
  Aucun,           \* no order (a null token, a null reference)
  Manuel           \* a reference typed by a member or an administrator

Statuts          == {"new", "pending", "success", "failed", "cancelled", "refunded"}
StatutsKopar     == Statuts \cup {"canceled", "failed_orange_money_timeout", "autre"}
EnCours          == {"new", "pending"}
Finaux           == {"success", "failed", "cancelled", "refunded"}
ActeursPossibles == {"initier", "webhook", "rattrapage", "manuel", "generer",
                     "lot", "administrateur"}
EtatsLigne       == {"absente", "due", "echue", "payee"}
Roles            == {"appliquer", "initier", "manuel", "generer", "lot"}
Etapes           == {"libre", "interroger", "verrou", "lire", "ecrire",
                     "consulter", "creer", "valider"}

ASSUME HypOrdres   == Aucun \notin Ordres /\ Manuel \notin Ordres /\ Aucun # Manuel
ASSUME HypAucun    == Aucun \notin StatutsKopar
ASSUME HypRefs     == RefAdhesion \in Refs /\ Aucun \notin Refs
ASSUME HypCouvre   == Couvre \in [Refs -> Seq(Lignes)]
ASSUME HypNonVide  == \A r \in Refs : Couvre[r] # << >>

Elements(q) == {q[i] : i \in DOMAIN q}
\* The months of the member: every row but the adhesion's.
Mois == Lignes \ Elements(Couvre[RefAdhesion])

\* The calendar: the rows of every reference follow one order.
Croissante(rang, q) == \A i, j \in DOMAIN q : i < j => rang[q[i]] < rang[q[j]]
ASSUME HypOrdre    == /\ IsFiniteSet(Lignes)
                      /\ \E rang \in [Lignes -> 1..Cardinality(Lignes)] :
                           \A r \in Refs : Croissante(rang, Couvre[r])
ASSUME HypPrecedent == Precedent \in Mois
ASSUME HypAbsentes == LignesAbsentes \subseteq Lignes
ASSUME HypActeurs  == Acteurs \subseteq ActeursPossibles
ASSUME HypKopar    == EvolutionsKopar \subseteq StatutsKopar \X StatutsKopar
ASSUME HypBornes   == MaxPannes \in Nat

VARIABLES
  kopar,      \* provider: status of each order, Aucun before it exists
  refDe,      \* command_ref an order was created with
  avis,       \* notifications emitted: delivered late, twice or never
  tx,         \* transactions_kopar.statut, Aucun while the row is not there
  avant,      \* order of created_at: the rows and sessions begun before each one
  ligne,      \* cotisations_mensuelles.statut / adhesions.paiement_confirme
  reference,  \* reference_paiement of each row
  courriels,  \* history: confirmations queued since all rows of an order are paid
  annulees,   \* history: rows whose payment was undone, and not made again since
  etape,      \* where each session is
  role,       \* what it does with the rows
  cible,      \* the transaction (or the new order) it works on
  nouveau,    \* the status it applies
  demande,    \* the command_ref it initiates or pays by hand
  reste,      \* the rows it has still to visit
  lu,         \* what its SELECT returned for the row it visits
  vues,       \* rows it found paid
  ecrites,    \* rows it has flushed and keeps locked
  pannes

base  == <<kopar, refDe, avis, tx, ligne, reference, courriels, annulees>>
local == <<role, cible, nouveau, demande, avant, reste, lu, vues, ecrites>>
vars  == <<base, etape, local, pannes>>

(***************************************************************************)
(* Operators                                                               *)
(***************************************************************************)
\* (mutant: the spelling of the provider goes to the database as it is)
EnStatutBrut(s) == s

\* webhook_statut_to_enum: what the provider says, in the enum of the database.
EnStatut(s) ==
  CASE s \in Statuts                      -> s
    [] s = "canceled"                    -> "cancelled"
    [] s = "failed_orange_money_timeout" -> "failed"
    [] OTHER                             -> "pending"

\* get_by_command_ref, and matches[0] of its ORDER BY created_at DESC.
Correspondances(r) == {o \in Ordres : tx[o] # Aucun /\ refDe[o] = r}
PlusRecente(r) ==
  {o \in Correspondances(r) : Correspondances(r) \ {o} \subseteq avant[o]}

\* (mutant: the latest transaction of the member, whatever its reference)
TransactionDuMembre(o) ==
  {t \in Ordres : tx[t] # Aucun /\ \A u \in Ordres : tx[u] # Aucun => u \in avant[t] \cup {t}}

\* The row a notification for order o is applied to: found by commandRef (the
\* token is not looked at), else the adhesion's own transaction.
TransactionDuWebhook(o) ==
  IF Correspondances(refDe[o]) # {} THEN PlusRecente(refDe[o])
                                    ELSE PlusRecente(RefAdhesion)

\* (mutant: only new and pending are refused)
IgnoreSansSucces(actuel, statut) == actuel \in Finaux /\ statut \in EnCours

\* The early returns of appliquer_statut_kopar.
Ignore(actuel, statut) ==
  \/ actuel \in Finaux /\ statut \in EnCours
  \/ actuel = "success" /\ statut \in {"failed", "cancelled"}

\* (mutant: a plain SELECT)
VerrouTxOublie(s, o) == FALSE

\* SELECT ... FOR UPDATE holds from the lock to the end of the SQL transaction.
VerrouTx(s, o) ==
  /\ role[s] = "appliquer"
  /\ etape[s] \in {"lire", "ecrire", "valider"}
  /\ cible[s] = o

\* (mutant: only the first month of a period is marked, mark_paid)
SuiteUnMois(s, q) ==
  IF role[s] # "appliquer" /\ q # << >> THEN "lire"
  ELSE IF role[s] = "initier" THEN "consulter" ELSE "valider"

\* The rows an order pays for, and whether they are all recorded as paid.
LignesDe(o) == IF refDe[o] = Aucun THEN {} ELSE Elements(Couvre[refDe[o]])
Reglee(o)   == \A l \in LignesDe(o) : ligne[l] = "payee"

\* What a path that creates months visits: one, or several in calendar order.
SuitesMois == {<<l>> : l \in Mois} \cup {Couvre[r] : r \in Refs \ {RefAdhesion}}

\* What a session sees of a row: what is committed, and the INSERT the monthly
\* job made itself (no other path visits a row twice).
Vu(s, l) == IF role[s] = "lot" /\ l \in ecrites[s] THEN "due" ELSE ligne[l]

\* What the commit of a session makes of a row it flushed.
Pose(s, l) ==
  IF role[s] \in {"appliquer", "manuel"} THEN "payee"
  ELSE IF role[s] = "lot" /\ l = Precedent THEN "echue" ELSE "due"
LignesValidees(s) == [l \in Lignes |-> IF l \in ecrites[s] THEN Pose(s, l) ELSE ligne[l]]

\* History: the payments of the rows D are undone; their orders may be
\* confirmed again.
Defaire(D) ==
  /\ annulees'  = annulees \cup D
  /\ courriels' = [o \in Ordres |->
                     IF LignesDe(o) \cap D # {} THEN 0 ELSE courriels[o]]

\* After a row: the next one, or what follows the loop.
Suite(s, q) ==
  IF q # << >> THEN "lire"
  ELSE IF role[s] = "initier" THEN "consulter" ELSE "valider"

\* created_at is now() at BEGIN: a row takes the place its session had; a
\* session that ends without a row leaves none.
SansSession(s) ==
  [x \in Ordres \cup Sessions |-> IF x = s THEN {} ELSE avant[x] \ {s}]
Heriter(s, o) ==
  [x \in Ordres \cup Sessions |->
     IF x = s THEN {}
     ELSE IF x = o THEN avant[s]
     ELSE IF s \in avant[x] THEN (avant[x] \ {s}) \cup {o} ELSE avant[x]]
EnOrdre ==
  {o \in Ordres : tx[o] # Aucun} \cup
  {s \in Sessions : role[s] = "initier" /\ etape[s] # "libre"}

\* The session ends: it holds no lock and what it flushed is gone.
Liberer(s) ==
  /\ etape'   = [etape EXCEPT ![s] = "libre"]
  /\ cible'   = [cible EXCEPT ![s] = Aucun]
  /\ nouveau' = [nouveau EXCEPT ![s] = "new"]
  /\ demande' = [demande EXCEPT ![s] = RefAdhesion]
  /\ reste'   = [reste EXCEPT ![s] = << >>]
  /\ lu'      = [lu EXCEPT ![s] = "absente"]
  /\ vues'    = [vues EXCEPT ![s] = {}]
  /\ ecrites' = [ecrites EXCEPT ![s] = {}]
  /\ role'    = [role EXCEPT ![s] = "appliquer"]

Terminer(s) == Liberer(s) /\ avant' = SansSession(s)

Init ==
  /\ kopar     = [o \in Ordres |-> Aucun]
  /\ refDe     = [o \in Ordres |-> Aucun]
  /\ avis      = {}
  /\ tx        = [o \in Ordres |-> Aucun]
  /\ avant     = [x \in Ordres \cup Sessions |-> {}]
  /\ ligne     = [l \in Lignes |-> IF l \in LignesAbsentes THEN "absente" ELSE "due"]
  /\ reference \in [Lignes -> {Aucun, Manuel}]
  /\ \A l \in Lignes : reference[l] = Manuel => l \in Elements(Couvre[RefAdhesion])
  /\ courriels = [o \in Ordres |-> 0]
  /\ annulees  = {}
  /\ etape     = [s \in Sessions |-> "libre"]
  /\ role      = [s \in Sessions |-> "appliquer"]
  /\ cible     = [s \in Sessions |-> Aucun]
  /\ nouveau   = [s \in Sessions |-> "new"]
  /\ demande   = [s \in Sessions |-> RefAdhesion]
  /\ reste     = [s \in Sessions |-> << >>]
  /\ lu        = [s \in Sessions |-> "absente"]
  /\ vues      = [s \in Sessions |-> {}]
  /\ ecrites   = [s \in Sessions |-> {}]
  /\ pannes    = 0

(***************************************************************************)
(* The provider (external)                                                 *)
(***************************************************************************)
\* An order changes status and a notification is emitted for it.
KoparEvolue(o, statut) ==
  /\ <<kopar[o], statut>> \in EvolutionsKopar
  /\ kopar' = [kopar EXCEPT ![o] = statut]
  /\ avis'  = avis \cup {<<o, statut>>}
  /\ UNCHANGED <<refDe, tx, ligne, reference, courriels, annulees, etape, local, pannes>>

(***************************************************************************)
(* Applying a status: webhook and catch-up job                             *)
(***************************************************************************)
\* processer_webhook_kopar up to the call of appliquer_statut_kopar.  A bad
\* signature or an unknown transaction is answered without touching anything.
RecevoirWebhook(s) ==
  /\ "webhook" \in Acteurs
  /\ etape[s] = "libre"
  /\ \E m \in avis, t \in Ordres :
       /\ t \in TransactionDuWebhook(m[1])
       /\ cible'   = [cible EXCEPT ![s] = t]
       /\ nouveau' = [nouveau EXCEPT ![s] = EnStatut(m[2])]
  /\ role'  = [role EXCEPT ![s] = "appliquer"]
  /\ etape' = [etape EXCEPT ![s] = "verrou"]
  /\ UNCHANGED <<base, demande, avant, reste, lu, vues, ecrites, pannes>>

\* (mutant: only the transactions no notification was received for)
RattrapageListerNew(s) ==
  /\ "rattrapage" \in Acteurs
  /\ etape[s] = "libre"
  /\ \E o \in Ordres : tx[o] = "new" /\ cible' = [cible EXCEPT ![s] = o]
  /\ role'  = [role EXCEPT ![s] = "appliquer"]
  /\ etape' = [etape EXCEPT ![s] = "interroger"]
  /\ UNCHANGED <<base, nouveau, demande, avant, reste, lu, vues, ecrites, pannes>>

\* _get_pending_transactions: the candidate is remembered by its id.
RattrapageLister(s) ==
  /\ "rattrapage" \in Acteurs
  /\ etape[s] = "libre"
  /\ \E o \in Ordres : tx[o] \in EnCours /\ cible' = [cible EXCEPT ![s] = o]
  /\ role'  = [role EXCEPT ![s] = "appliquer"]
  /\ etape' = [etape EXCEPT ![s] = "interroger"]
  /\ UNCHANGED <<base, nouveau, demande, avant, reste, lu, vues, ecrites, pannes>>

\* get_transaction_detail(token): an order still under way is left for later.
RattrapageInterroger(s) ==
  /\ etape[s] = "interroger"
  /\ UNCHANGED <<base, pannes>>
  /\ \/ /\ EnStatut(kopar[cible[s]]) \in EnCours
        /\ Terminer(s)
     \/ /\ EnStatut(kopar[cible[s]]) \in Finaux
        /\ nouveau' = [nouveau EXCEPT ![s] = EnStatut(kopar[cible[s]])]
        /\ etape'   = [etape EXCEPT ![s] = "verrou"]
        /\ UNCHANGED <<role, cible, demande, avant, reste, lu, vues, ecrites>>

\* SELECT ... FOR UPDATE with populate_existing, then the early returns.
Verrouiller(s) ==
  LET o == cible[s] IN
  /\ etape[s] = "verrou"
  /\ \A t \in Sessions : ~VerrouTx(t, o)
  /\ UNCHANGED <<base, pannes>>
  /\ \/ /\ Ignore(tx[o], nouveau[s])
        /\ Terminer(s)
     \/ /\ ~Ignore(tx[o], nouveau[s])
        /\ nouveau[s] # "success"
        /\ etape' = [etape EXCEPT ![s] = "valider"]
        /\ UNCHANGED local
     \/ /\ ~Ignore(tx[o], nouveau[s])
        /\ nouveau[s] = "success"
        /\ etape' = [etape EXCEPT ![s] = "lire"]
        /\ reste' = [reste EXCEPT ![s] = Couvre[refDe[o]]]
        /\ UNCHANGED <<role, cible, nouveau, demande, avant, lu, vues, ecrites>>

(***************************************************************************)
(* Visiting the rows: mark_paid_periode, _appliquer_paiement_adhesion_     *)
(* success, the creation of months (before an initiation or not),          *)
(* mark_manuel and the monthly job                                         *)
(***************************************************************************)
\* (mutant: applying a payment writes the paid rows again)
AEcrireToujours(s, l) ==
  \/ role[s] \in {"appliquer", "manuel"}
  \/ role[s] \in {"initier", "generer"} /\ Vu(s, l) = "absente"
  \/ role[s] = "lot" /\ Vu(s, l) = (IF Len(reste[s]) > 1 THEN "absente" ELSE "due")
\* (mutant: the job marks the rows of its list without testing their status)
AEcrireEchue(s, l) ==
  \/ role[s] = "appliquer" /\ Vu(s, l) # "payee"
  \/ role[s] \in {"initier", "generer"} /\ Vu(s, l) = "absente"
  \/ role[s] = "manuel"
  \/ role[s] = "lot" /\ (Len(reste[s]) > 1 => Vu(s, l) = "absente")

\* SELECT of the next row.  Applying a payment skips a row already paid; an
\* initiation and a generation only create what is missing; a manual payment
\* looks at nothing; the job creates the month it was asked for, then takes the
\* previous month if it is en_attente (the list of ids and get_by_id read the
\* same committed row).
AEcrire(s, l) ==
  \/ role[s] = "appliquer" /\ Vu(s, l) # "payee"
  \/ role[s] \in {"initier", "generer"} /\ Vu(s, l) = "absente"
  \/ role[s] = "manuel"
  \/ role[s] = "lot" /\ Vu(s, l) = (IF Len(reste[s]) > 1 THEN "absente" ELSE "due")

LireLigne(s) ==
  LET l == Head(reste[s]) IN
  /\ etape[s] = "lire"
  /\ lu'   = [lu EXCEPT ![s] = Vu(s, l)]
  /\ vues' = [vues EXCEPT ![s] = IF Vu(s, l) = "payee" THEN @ \cup {l} ELSE @]
  /\ \/ /\ AEcrire(s, l)
        /\ etape' = [etape EXCEPT ![s] = "ecrire"]
        /\ UNCHANGED reste
     \/ /\ ~AEcrire(s, l)
        /\ reste' = [reste EXCEPT ![s] = Tail(@)]
        /\ etape' = [etape EXCEPT ![s] = Suite(s, Tail(reste[s]))]
  /\ UNCHANGED <<base, role, cible, nouveau, demande, avant, ecrites, pannes>>

\* (mutant: no unique key on adhesion_id, annee, mois)
ConflitIgnore(s) == FALSE

\* flush(): waits for the row lock (UPDATE) or for the unique key (INSERT of a
\* row read as absent); the INSERT fails once another session created the row.
Conflit(s) == lu[s] = "absente" /\ ligne[Head(reste[s])] # "absente"

EcrireLigne(s) ==
  LET l == Head(reste[s]) IN
  /\ etape[s] = "ecrire"
  /\ \A t \in Sessions \ {s} : l \notin ecrites[t]
  /\ UNCHANGED <<base, pannes>>
  /\ \/ /\ Conflit(s)
        /\ Terminer(s)
     \/ /\ ~Conflit(s)
        /\ ecrites' = [ecrites EXCEPT ![s] = @ \cup {l}]
        /\ reste'   = [reste EXCEPT ![s] = Tail(@)]
        /\ etape'   = [etape EXCEPT ![s] = Suite(s, Tail(reste[s]))]
        /\ UNCHANGED <<role, cible, nouveau, demande, avant, lu, vues>>

(***************************************************************************)
(* Commits                                                                 *)
(***************************************************************************)
\* The webhook route or the catch-up job commits: the status and every row
\* flushed, at once.  An adhesion keeps the reference typed in its form.  When
\* rows were written the handler has queued one confirmation email, sent after
\* the commit, or lost with the process.
ValiderStatut(s) ==
  LET o == cible[s]
      p == ecrites[s] IN
  /\ etape[s] = "valider" /\ role[s] = "appliquer"
  /\ tx'        = [tx EXCEPT ![o] = nouveau[s]]
  /\ ligne'     = LignesValidees(s)
  /\ reference' = [l \in Lignes |->
                     IF l \notin p \/ (refDe[o] = RefAdhesion /\ reference[l] = Manuel)
                     THEN reference[l] ELSE o]
  /\ annulees'  = annulees \ p
  /\ courriels' = [courriels EXCEPT ![o] =
                     IF p = {} THEN @
                     ELSE IF \A l \in LignesDe(o) : ligne'[l] = "payee" THEN @ + 1 ELSE 0]
  /\ Terminer(s)
  /\ UNCHANGED <<kopar, refDe, avis, pannes>>

\* (mutant: the months taken from the last to the first)
ManuelDebutInverse(s) ==
  /\ "manuel" \in Acteurs
  /\ etape[s] = "libre"
  /\ \E r \in Refs \ {RefAdhesion} :
       /\ demande' = [demande EXCEPT ![s] = r]
       /\ reste'   = [reste EXCEPT ![s] =
                        [i \in DOMAIN Couvre[r] |-> Couvre[r][Len(Couvre[r]) + 1 - i]]]
  /\ role'  = [role EXCEPT ![s] = "manuel"]
  /\ etape' = [etape EXCEPT ![s] = "lire"]
  /\ UNCHANGED <<base, cible, nouveau, avant, lu, vues, ecrites, pannes>>

\* admin_paiement_manuel_periode: every row is overwritten; the reference only
\* when the administrator typed one.
ManuelDebut(s) ==
  /\ "manuel" \in Acteurs
  /\ etape[s] = "libre"
  /\ \E r \in Refs \ {RefAdhesion} :
       /\ demande' = [demande EXCEPT ![s] = r]
       /\ reste'   = [reste EXCEPT ![s] = Couvre[r]]
  /\ role'  = [role EXCEPT ![s] = "manuel"]
  /\ etape' = [etape EXCEPT ![s] = "lire"]
  /\ UNCHANGED <<base, cible, nouveau, avant, lu, vues, ecrites, pannes>>

ValiderManuel(s) ==
  /\ etape[s] = "valider" /\ role[s] = "manuel"
  /\ ligne'    = LignesValidees(s)
  /\ annulees' = annulees \ ecrites[s]
  /\ \E saisie \in BOOLEAN :
       reference' = [l \in Lignes |->
                       IF l \in ecrites[s] /\ saisie THEN Manuel ELSE reference[l]]
  /\ Terminer(s)
  /\ UNCHANGED <<kopar, refDe, avis, tx, courriels, pannes>>

\* confirm_payment: one UPDATE of the adhesion and a commit, whatever the row
\* holds: the flag, set or cleared, and the reference typed, or none.
ConfirmerPaiement(l) ==
  /\ "administrateur" \in Acteurs
  /\ l \in Elements(Couvre[RefAdhesion]) /\ ligne[l] # "absente"
  /\ \A t \in Sessions : l \notin ecrites[t]
  /\ \E oui \in BOOLEAN, saisie \in {Aucun, Manuel} :
       /\ ligne'     = [ligne EXCEPT ![l] = IF oui THEN "payee" ELSE "due"]
       /\ reference' = [reference EXCEPT ![l] = saisie]
       /\ IF oui THEN annulees' = annulees \ {l} /\ UNCHANGED courriels
                 ELSE Defaire({l} \cap {m \in Lignes : ligne[m] = "payee"})
  /\ UNCHANGED <<kopar, refDe, avis, tx, etape, local, pannes>>

(***************************************************************************)
(* Creating months, and the monthly job                                    *)
(***************************************************************************)
\* creer_cotisation up to its commit: the QR page and the "cotisation du mois"
\* route for one month, the admin route generer-mois, the months of a new
\* member.
GenererDebut(s) ==
  /\ "generer" \in Acteurs
  /\ etape[s] = "libre"
  /\ \E q \in SuitesMois : reste' = [reste EXCEPT ![s] = q]
  /\ role'  = [role EXCEPT ![s] = "generer"]
  /\ etape' = [etape EXCEPT ![s] = "lire"]
  /\ UNCHANGED <<base, cible, nouveau, demande, avant, lu, vues, ecrites, pannes>>

\* generate_monthly_dues: in ONE SQL transaction, the month asked for (--annee,
\* --mois; none if the member is not validated), then
\* marquer_echues_du_mois_precedent.
LotDebut(s) ==
  /\ "lot" \in Acteurs
  /\ etape[s] = "libre"
  /\ \E q \in {<<Precedent>>} \cup {<<l, Precedent>> : l \in Mois} :
       reste' = [reste EXCEPT ![s] = q]
  /\ role'  = [role EXCEPT ![s] = "lot"]
  /\ etape' = [etape EXCEPT ![s] = "lire"]
  /\ UNCHANGED <<base, cible, nouveau, demande, avant, lu, vues, ecrites, pannes>>

\* The commit of either.  The UPDATE of the previous month is by id: it
\* overwrites a payment committed since the row was read.
ValiderMois(s) ==
  /\ etape[s] = "valider" /\ role[s] \in {"generer", "lot"}
  /\ ligne' = LignesValidees(s)
  /\ Defaire({l \in ecrites[s] : ligne[l] = "payee"})
  /\ Terminer(s)
  /\ UNCHANGED <<kopar, refDe, avis, tx, reference, pannes>>

(***************************************************************************)
(* Initiating a payment                                                    *)
(***************************************************************************)
\* _calculer_paiement_adhesion_confirme: paid, or a reference was typed, or a
\* transaction succeeded (the flag may have been cleared by hand since).
AdhesionConfirmee ==
  \/ \A l \in Elements(Couvre[RefAdhesion]) : ligne[l] = "payee" \/ reference[l] # Aucun
  \/ \E o \in Ordres : refDe[o] = RefAdhesion /\ tx[o] = "success"

\* The reference carries the id of the first row, so that row exists.  The only
\* route that starts a period of several months wants the adhesion paid.
InitierDebut(s) ==
  /\ "initier" \in Acteurs
  /\ etape[s] = "libre"
  /\ \E r \in Refs :
       /\ ligne[Head(Couvre[r])] # "absente"
       /\ Len(Couvre[r]) > 1 => AdhesionConfirmee
       /\ demande' = [demande EXCEPT ![s] = r]
       /\ reste'   = [reste EXCEPT ![s] = Couvre[r]]
  /\ avant' = [avant EXCEPT ![s] = EnOrdre]
  /\ role'  = [role EXCEPT ![s] = "initier"]
  /\ etape' = [etape EXCEPT ![s] = "lire"]
  /\ UNCHANGED <<base, cible, nouveau, lu, vues, ecrites, pannes>>

\* 409 when everything is paid; else the latest transaction of the reference,
\* whatever its status, is handed out again; else a new order is asked for.
\* Only the single-row routes have the force flag.
DejaPaye(s) == Elements(Couvre[demande[s]]) \subseteq vues[s]

Consulter(s) ==
  /\ etape[s] = "consulter"
  /\ UNCHANGED <<base, pannes>>
  /\ \/ /\ DejaPaye(s)
        /\ Terminer(s)
     \/ /\ ~DejaPaye(s) \/ Len(Couvre[demande[s]]) = 1
        /\ etape' = [etape EXCEPT ![s] =
                       IF Correspondances(demande[s]) # {} THEN "valider" ELSE "creer"]
        /\ UNCHANGED local

\* creer_transaction: the provider records the order at once.
CreerOrdre(s) ==
  /\ etape[s] = "creer"
  /\ \E o \in Ordres :
       /\ kopar[o] = Aucun
       /\ kopar' = [kopar EXCEPT ![o] = "new"]
       /\ refDe' = [refDe EXCEPT ![o] = demande[s]]
       /\ cible' = [cible EXCEPT ![s] = o]
  /\ etape' = [etape EXCEPT ![s] = "valider"]
  /\ UNCHANGED <<avis, tx, ligne, reference, courriels, annulees, role, nouveau,
                 demande, avant, reste, lu, vues, ecrites, pannes>>

\* KoparError: the route answers with an error and commits nothing.
RefusKopar(s) ==
  /\ etape[s] = "creer"
  /\ Terminer(s)
  /\ UNCHANGED <<base, pannes>>

\* The route commits: the transaction row, if an order was created, and the
\* months inserted on the way.
ValiderInitiation(s) ==
  LET o == cible[s] IN
  /\ etape[s] = "valider" /\ role[s] = "initier"
  /\ tx'    = [p \in Ordres |-> IF p = o THEN "new" ELSE tx[p]]
  /\ avant' = IF o = Aucun THEN SansSession(s) ELSE Heriter(s, o)
  /\ ligne' = LignesValidees(s)
  /\ Liberer(s)
  /\ UNCHANGED <<kopar, refDe, avis, reference, courriels, annulees, pannes>>

\* A crash, an HTTP failure of the provider, a timeout: the SQL transaction is
\* rolled back, an order already created stays at the provider.
Abandonner(s) ==
  /\ etape[s] # "libre"
  /\ pannes < MaxPannes
  /\ pannes' = pannes + 1
  /\ Terminer(s)
  /\ UNCHANGED base

\* s waits for t: for the row it is about to write, or for the lock of the
\* transaction.
AttendApres(s, t) ==
  \/ /\ etape[s] = "ecrire"
     /\ Head(reste[s]) \in ecrites[t]
     /\ s # t
  \/ etape[s] = "verrou" /\ VerrouTx(t, cible[s])
EnCercle(s) ==
  \E G \in SUBSET Sessions : s \in G /\ \A t \in G : \E u \in G : AttendApres(t, u)

\* PostgreSQL finds a circle of waits and aborts one of its transactions.
Victime(s) ==
  /\ EnCercle(s)
  /\ Terminer(s)
  /\ UNCHANGED <<base, pannes>>

(***************************************************************************)
(* Specification                                                           *)
(***************************************************************************)
Appliquer(s) ==
  RattrapageInterroger(s) \/ Verrouiller(s) \/ ValiderStatut(s)

Initier(s) ==
  Consulter(s) \/ CreerOrdre(s) \/ RefusKopar(s) \/ ValiderInitiation(s)

\* The steps of a session under way.
Avancer(s) ==
  \/ Appliquer(s) \/ LireLigne(s) \/ EcrireLigne(s) \/ Initier(s)
  \/ ValiderManuel(s) \/ ValiderMois(s)

Commencer(s) ==
  \/ RecevoirWebhook(s) \/ RattrapageLister(s) \/ ManuelDebut(s)
  \/ InitierDebut(s) \/ GenererDebut(s) \/ LotDebut(s)

Next ==
  \/ \E o \in Ordres, statut \in StatutsKopar : KoparEvolue(o, statut)
  \/ \E l \in Lignes : ConfirmerPaiement(l)
  \/ \E s \in Sessions : Commencer(s) \/ Avancer(s) \/ Abandonner(s) \/ Victime(s)

Spec == Init /\ [][Next]_vars

\* The catch-up job runs every five minutes and visits every candidate; the
\* handlers under way are scheduled; PostgreSQL queues lock requests, hence
\* strong fairness where a lock is awaited, and breaks the circles.  Nothing is
\* fair about the provider, the members, the administrators or the network.
Fairness ==
  /\ WF_vars(\E s \in Sessions : Victime(s))
  /\ \A s \in Sessions :
       /\ WF_vars(Avancer(s))
       /\ SF_vars(Verrouiller(s))
       /\ SF_vars(EcrireLigne(s))
       /\ \A o \in Ordres : SF_vars(RattrapageLister(s) /\ cible'[s] = o)

FairSpec == Spec /\ Fairness
-----------------------------------------------------------------------------
(***************************************************************************)
(* Properties                                                              *)
(***************************************************************************)
TypeOK ==
  /\ kopar     \in [Ordres -> StatutsKopar \cup {Aucun}]
  /\ refDe     \in [Ordres -> Refs \cup {Aucun}]
  /\ avis      \subseteq Ordres \X StatutsKopar
  /\ tx        \in [Ordres -> Statuts \cup {Aucun}]
  /\ avant     \in [Ordres \cup Sessions -> SUBSET (Ordres \cup Sessions)]
  /\ ligne     \in [Lignes -> EtatsLigne]
  /\ reference \in [Lignes -> Ordres \cup {Aucun, Manuel}]
  /\ courriels \in [Ordres -> Nat]
  /\ annulees  \subseteq Lignes
  /\ etape     \in [Sessions -> Etapes]
  /\ role      \in [Sessions -> Roles]
  /\ cible     \in [Sessions -> Ordres \cup {Aucun}]
  /\ nouveau   \in [Sessions -> Statuts]
  /\ demande   \in [Sessions -> Refs]
  /\ reste     \in [Sessions -> Seq(Lignes)]
  /\ lu        \in [Sessions -> EtatsLigne]
  /\ vues      \in [Sessions -> SUBSET Lignes]
  /\ ecrites   \in [Sessions -> SUBSET Lignes]
  /\ pannes    \in 0..MaxPannes

\* Every row an order pays for is recorded as paid, or was and has been undone.
Soldee(o) == \A l \in LignesDe(o) : ligne[l] = "payee" \/ l \in annulees

\* A transaction recorded as paid has settled every row it covers: the status
\* and the months of a quarter are never seen apart, whatever crashes and
\* whoever else writes the same rows (mark_paid_periode, one commit).  Only a
\* row paid and then undone is missing (see AnnulationsConnues).
SuccesRegle == \A o \in Ordres : tx[o] = "success" => Soldee(o)

\* The receipt printed on a row leads back to a transaction that covers this
\* row and whose status is final: no month is marked by a transaction rolled
\* back, still pending, or made for other months.  A row that carries a receipt
\* and is not paid is one whose payment was undone.
ReferenceJustifiee ==
  \A l \in Lignes, o \in Ordres : reference[l] = o =>
    /\ ligne[l] = "payee" \/ l \in annulees
    /\ tx[o] \in Finaux
    /\ l \in LignesDe(o)

\* Once the rows of an order are paid and confirmed, no second confirmation is
\* queued, however often the webhook is redelivered and the catch-up job meets
\* it (appliquer_statut_kopar: "pas de double marquage / double email"), unless
\* the payment of one of these rows was undone in between.
UnSeulCourriel == \A o \in Ordres : courriels[o] <= 1

\* Handlers that wait for one another in a circle have the monthly job among
\* them: every other path takes the rows of a member in calendar order, after
\* the transaction row; the job keeps the month it inserts and then asks for an
\* earlier one.
InterblocageDuLot ==
  \A G \in SUBSET Sessions : G # {} /\ (\A s \in G : role[s] # "lot") =>
    \E s \in G : \A t \in G : ~AttendApres(s, t)

\* A final status is never taken back to new/pending, and a success is only
\* ever replaced by a refund, in whatever order notifications and catch-up
\* answers arrive.
FinalProtege ==
  [][\A o \in Ordres :
       /\ tx[o] \in Finaux   => tx'[o] \in Finaux
       /\ tx[o] = "success"  => tx'[o] \in {"success", "refunded"}]_tx

\* The commit of a monthly job that had read the previous month unpaid.
EcraseParLot(l) ==
  /\ l = Precedent /\ ligne'[l] = "echue"
  /\ \E s \in Sessions : /\ role[s] = "lot" /\ etape[s] = "valider"
                         /\ l \in ecrites[s] \ vues[s]
                         /\ etape'[s] = "libre"

\* What is recorded as paid becomes unpaid in two ways only: the administrator
\* clears the flag of an adhesion, or a monthly job overwrites the previous
\* month when its payment is recorded between the read and the write of the job
\* (marquer_echues_du_mois_precedent).  A row never disappears.
AnnulationsConnues ==
  [][\A l \in Lignes :
       /\ ligne[l] = "payee" /\ ligne'[l] # "payee" =>
            (l \notin Mois /\ ligne'[l] = "due") \/ EcraseParLot(l)
       /\ ligne[l] # "absente" => ligne'[l] # "absente"]_ligne

\* What the provider collected for an order still under way here is recorded,
\* even if every webhook is lost; unless it is refunded, or a late failure
\* notice is recorded first: the catch-up job does not look at such an order
\* any more, and only a notification can tell that it was paid after all.
EncaissementAbouti ==
  \A o \in Ordres :
    (tx[o] \in EnCours /\ kopar[o] = "success") ~>
      \/ tx[o] = "success" /\ Soldee(o)
      \/ kopar[o] = "refunded" \/ tx[o] \in {"failed", "cancelled"}

Percu(o) == kopar[o] \in {"success", "refunded"}

\* A row whose receipt is an order was paid by that order: the provider did
\* collect it.  True while a reference has one order; with two, a webhook, which
\* finds its transaction by commandRef only, may credit the wrong one.
ReferenceEncaissee == \A l \in Lignes, o \in Ordres : reference[l] = o => Percu(o)

\* However many orders there are, a receipt stands for money: the provider
\* collected its order, or another one for the same reference, or (the receipt
\* being the adhesion's, which a notification of an unknown reference falls back
\* on) some order of the member.
RecuGage ==
  \A l \in Lignes, o \in Ordres : reference[l] = o =>
    \E p \in Ordres : Percu(p) /\ (p = o \/ refDe[p] = refDe[o] \/ refDe[o] = RefAdhesion)

(***************************************************************************)
(* The register this implements                                            *)
(***************************************************************************)
StatutAbstrait(st) ==
  CASE st \in EnCours                  -> "ouverte"
    [] st = "success"                  -> "reglee"
    [] st \in {"failed", "cancelled"}  -> "echouee"
    [] st = "refunded"                 -> "remboursee"
    [] OTHER                           -> "aucune"

Registre == INSTANCE RegistrePaiements WITH
  objet  <- [o \in Ordres |-> LignesDe(o)],
  statut <- [o \in Ordres |-> StatutAbstrait(tx[o])],
  payees <- {l \in Lignes : ligne[l] = "payee"}

\* The handlers, interleaved at every SELECT, flush and commit, look like a
\* register where each payment is one step: every row of the order at once, a
\* paid row lost by an undoing only, one email per order until then.
RaffineRegistre == Registre!Spec
=============================================================================
