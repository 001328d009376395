------------------------------ MODULE Impayes ------------------------------
(***************************************************************************)
(* Unpaid months: the candidates to radiation (RadiationService), the job  *)
(* (apply_radiations) and the route (apply-massive) that radiate them one  *)
(* by one, and the emails of send_payment_reminders, against payments and  *)
(* administrators.                                                         *)
(*                                                                         *)
(* A batch uses one SQL session and commits after each member.  The search *)
(* returns plain records, so apply_radiation reads the adhesion and its    *)
(* account again.  A statement that fails leaves the session unusable      *)
(* until a rollback: the job rolls back after a failure, the route never.  *)
(***************************************************************************)
EXTENDS Integers, FiniteSets

CONSTANTS
  Membres,
  Jobs,      \* runs of apply_radiations --apply
  Massifs,   \* runs of POST /radiations/apply-massive
  Rappels,   \* runs of send_payment_reminders
  Present,   \* the month of as_of, counted from the first one
  Horizon,   \* the last month paid in advance
  Delai,     \* RADIATION_DELAI_MOIS_IMPAYES_CONSECUTIFS
  Historiques, \* months of a member to start from
  Limites,   \* values of --limit (0: none)
  LimiteRappels, \* LIMIT of the query of the reminders (100 000)
  MaxLances, \* bound: batches and reminders started
  MaxPayes   \* bound: months paid

ASSUME HypMois == /\ Present \in Nat \ {0} /\ Horizon \in Nat /\ Present < Horizon
                  /\ Delai \in Nat \ {0}
ASSUME HypLimites == 0 \in Limites /\ Limites \subseteq Nat /\ LimiteRappels \in Nat
ASSUME HypMembres == IsFiniteSet(Membres)
ASSUME HypLots == Jobs \cap Massifs = {} /\ (Jobs \cup Massifs) \cap Rappels = {}

Lots    == Jobs \cup Massifs
Mois    == 1..Horizon
Statuts == {"validee", "autre", "radiee", "supprimee"}
StatutsMois == {"absent", "en_attente", "echue", "payee"}

ASSUME HypHistoriques == Historiques \subseteq [Mois -> StatutsMois]

VARIABLES
  mois,    \* cotisations_mensuelles.statut of each member and month
  statut,  \* adhesions.statut ("autre": neither validee nor radiee)
  compte,  \* users.is_active ("sans": no account)
  lot,     \* each batch of radiations
  rappel   \* each run of the reminders

vars == <<mois, statut, compte, lot, rappel>>

LotRepos == [etape |-> "repos", vus |-> {}, comptes |-> {}, limite |-> 0, candidats |-> {},
             cibles |-> {}, reste |-> {}, faits |-> {}, erreurs |-> {},
             morte |-> FALSE,  \* a statement failed and nobody rolled back
             pannes |-> {},    \* members at whose turn a statement failed
             perdus |-> {}]    \* members who found the session unusable
RappelRepos == [etape |-> "repos", reste |-> {}, dus |-> {}, ecrits |-> {}, rates |-> {},
                tronque |-> FALSE]
Lancable == Cardinality({b \in Lots : lot[b] # LotRepos}
                        \cup {p \in Rappels : rappel[p] # RappelRepos}) < MaxLances

-----------------------------------------------------------------------------
(* Who is a candidate *)

Impaye(s) == s \in {"en_attente", "echue"}

\* From the present month backwards, until a month that is paid or has no row.
\* (mutant: months without a row are jumped over)
SerieTrouee(m) ==
  LET serie[k \in 0..Present] ==
        IF k = 0 \/ mois[m][k] = "payee" THEN 0
        ELSE IF mois[m][k] = "absent" THEN serie[k - 1] ELSE 1 + serie[k - 1]
  IN serie[Present]
Serie(m) ==
  LET serie[k \in 0..Present] ==
        IF k = 0 THEN 0 ELSE IF Impaye(mois[m][k]) THEN 1 + serie[k - 1] ELSE 0
  IN serie[Present]

\* A recruit with no more than Delai rows is protected.
Candidat(m) ==
  /\ Cardinality({k \in Mois : mois[m][k] # "absent"}) > Delai
  /\ Serie(m) >= Delai

\* A query without ORDER BY, or a loop that stops at n: any n of S (0: all).
Extraits(S, n) ==
  {T \in SUBSET S : Cardinality(T) = IF n > 0 /\ Cardinality(S) > n THEN n ELSE Cardinality(S)}

-----------------------------------------------------------------------------
(* A batch of radiations *)

\* SELECT adhesions validees, with their accounts and roles.
LotLister(b) ==
  LET vus == {m \in Membres : statut[m] = "validee"} IN
  /\ lot[b].etape = "repos" /\ Lancable
  /\ lot' = [lot EXCEPT ![b].etape = "lire", ![b].vus = vus,
                        ![b].comptes = {m \in vus : compte[m] # "sans"}]
  /\ UNCHANGED <<mois, statut, compte, rappel>>

\* SELECT cotisations, then the candidates one by one until --limit.  The test of
\* the privileged roles reads r.value on a UserRole, which has none: AttributeError
\* at the first candidate with an account (which has a role).
\* The job radiates the candidates, the route those or the ids it was given.
LotLireMois(b, demandes, n) ==
  LET candidats == {m \in lot[b].vus : Candidat(m)} IN
  /\ lot[b].etape = "lire"
  /\ IF b \in Jobs THEN demandes = {} ELSE n = 0
  /\ \/ /\ candidats \cap lot[b].comptes # {}
        /\ lot' = [lot EXCEPT ![b].etape = "erreur"]
     \/ \E C \in Extraits(candidats, n) :
          LET cibles == IF demandes = {} THEN C ELSE demandes IN
          /\ C \cap lot[b].comptes = {}
          /\ lot' = [lot EXCEPT ![b].etape = "appliquer", ![b].vus = {}, ![b].comptes = {},
                                ![b].limite = n, ![b].candidats = C,
                                ![b].cibles = cibles, ![b].reste = cibles]
  /\ UNCHANGED <<mois, statut, compte, rappel>>

\* apply_radiation: 404 when deleted, 409 when radiated already, or rejected since
\* the search when the radiation is automatic.
Automatique(b, m) == m \in lot[b].candidats
Refuse(b, m) ==
  \/ statut[m] \in {"supprimee", "radiee"}
  \/ Automatique(b, m) /\ statut[m] # "validee"

\* The radiation, then a read for the email: if it fails, the job has already
\* counted a success, the route reports an error; neither rolls back.
Radier(b, m, panne) ==
  LET compteRendu == ~panne \/ b \in Jobs IN
  /\ lot[b].etape = "appliquer" /\ m \in lot[b].reste /\ ~lot[b].morte /\ ~Refuse(b, m)
  /\ statut' = [statut EXCEPT ![m] = "radiee"]
  /\ compte' = IF compte[m] = "sans" THEN compte ELSE [compte EXCEPT ![m] = "desactive"]
  /\ lot' = [lot EXCEPT ![b].reste = @ \ {m}, ![b].morte = panne,
                        ![b].pannes  = IF panne THEN @ \cup {m} ELSE @,
                        ![b].faits   = IF compteRendu THEN @ \cup {m} ELSE @,
                        ![b].erreurs = IF compteRendu THEN @ ELSE @ \cup {m}]
  /\ UNCHANGED <<mois, rappel>>

\* What is left after a member that fails.
\* (mutant: the member is tried again)
SuiteReprise(b, m) == lot[b].reste
Suite(b, m) == lot[b].reste \ {m}

\* (mutant: nobody rolls back)
SessionSansRollback(b, cause) == cause # "refus"
SessionMorte(b, cause) == b \notin Jobs /\ cause # "refus"

\* Refused, or a statement fails before the commit, or the session was unusable.
EchecRadier(b, m, cause) ==
  /\ lot[b].etape = "appliquer" /\ m \in lot[b].reste
  /\ lot[b].morte <=> cause = "session"
  /\ cause = "refus" => Refuse(b, m)
  /\ lot' = [lot EXCEPT ![b].reste = Suite(b, m), ![b].erreurs = @ \cup {m},
                        ![b].pannes = IF cause = "sql" THEN @ \cup {m} ELSE @,
                        ![b].perdus = IF cause = "session" THEN @ \cup {m} ELSE @,
                        ![b].morte  = SessionMorte(b, cause)]
  /\ UNCHANGED <<mois, statut, compte, rappel>>

LotFinir(b) ==
  /\ lot[b].etape = "appliquer" /\ lot[b].reste = {}
  /\ lot' = [lot EXCEPT ![b].etape = "fini"]
  /\ UNCHANGED <<mois, statut, compte, rappel>>

-----------------------------------------------------------------------------
(* debut_mois and relance: the members who have not paid the month.  The     *)
(* flags relance_envoyee_n filter nobody: send_email_best_effort returns     *)
(* None, so they are never set                                               *)

\* (mutant: a page of the list, LIMIT 1)
ImpayesPage(p) ==
  LET s == {m \in Membres : mois[m][Present] = "en_attente"} IN
  IF s = {} THEN s ELSE {CHOOSE m \in s : TRUE}
ImpayesDuMois(p) == {m \in Membres : mois[m][Present] = "en_attente"}

RappelLister(p) ==
  /\ rappel[p].etape = "repos" /\ Lancable
  /\ \E T \in Extraits(ImpayesDuMois(p), LimiteRappels) :
       rappel' = [rappel EXCEPT ![p].etape = "envoyer", ![p].reste = T,
                    ![p].dus = {m \in Membres : mois[m][Present] = "en_attente"},
                    ![p].tronque = (T # ImpayesDuMois(p))]
  /\ UNCHANGED <<mois, statut, compte, lot>>

\* The adhesion is read again: a deleted one, or one without an email, is skipped;
\* a radiated one is not, nor is a month paid since.  A send that fails says nothing.
RappelEnvoyer(p, m, parti) ==
  /\ rappel[p].etape = "envoyer" /\ m \in rappel[p].reste
  /\ rappel' = [rappel EXCEPT ![p].reste = @ \ {m},
        ![p].ecrits = IF statut[m] # "supprimee" /\ parti THEN @ \cup {m} ELSE @,
        ![p].rates  = IF statut[m] # "supprimee" /\ ~parti THEN @ \cup {m} ELSE @]
  /\ UNCHANGED <<mois, statut, compte, lot>>

RappelFinir(p) ==
  /\ rappel[p].etape = "envoyer" /\ rappel[p].reste = {}
  /\ rappel' = [rappel EXCEPT ![p].etape = "fini"]
  /\ UNCHANGED <<mois, statut, compte, lot>>

-----------------------------------------------------------------------------
(* Members and administrators *)

Payer(m, k) ==
  /\ mois[m][k] # "payee" /\ statut[m] # "supprimee"
  /\ Cardinality({c \in Membres \X Mois : mois[c[1]][c[2]] = "payee"}) < MaxPayes
  /\ mois' = [mois EXCEPT ![m][k] = "payee"]
  /\ UNCHANGED <<statut, compte, lot, rappel>>

\* Another decision on the adhesion, a rehabilitation, a deletion.
ChangerStatut(m, s) ==
  /\ statut[m] # "supprimee" /\ s # statut[m]
  /\ s = "validee" => statut[m] = "radiee"
  /\ statut' = [statut EXCEPT ![m] = s]
  /\ compte' = IF compte[m] = "sans" THEN compte
               ELSE IF s = "radiee" THEN [compte EXCEPT ![m] = "desactive"]
               ELSE IF s = "validee" THEN [compte EXCEPT ![m] = "actif"] ELSE compte
  /\ UNCHANGED <<mois, lot, rappel>>

\* A first login.
OuvrirCompte(m) ==
  /\ statut[m] = "validee" /\ compte[m] = "sans"
  /\ compte' = [compte EXCEPT ![m] = "actif"]
  /\ UNCHANGED <<mois, statut, lot, rappel>>

Init ==
  /\ mois \in [Membres -> Historiques]
  /\ statut = [m \in Membres |-> "validee"]
  /\ compte \in [Membres -> {"sans", "actif"}]
  /\ lot    = [b \in Lots |-> LotRepos]
  /\ rappel = [p \in Rappels |-> RappelRepos]

AvancerLot(b) ==
  \/ LotLister(b) \/ LotFinir(b)
  \/ \E demandes \in SUBSET Membres, n \in Limites : LotLireMois(b, demandes, n)
  \/ \E m \in Membres : \/ \E panne \in BOOLEAN : Radier(b, m, panne)
                        \/ \E cause \in {"refus", "sql", "session"} : EchecRadier(b, m, cause)

AvancerRappel(p) ==
  \/ RappelLister(p) \/ RappelFinir(p)
  \/ \E m \in Membres, parti \in BOOLEAN : RappelEnvoyer(p, m, parti)

Next ==
  \/ \E b \in Lots : AvancerLot(b)
  \/ \E p \in Rappels : AvancerRappel(p)
  \/ \E m \in Membres : \/ OuvrirCompte(m)
                        \/ \E k \in Mois : Payer(m, k)
                        \/ \E s \in Statuts : ChangerStatut(m, s)

Spec == Init /\ [][Next]_vars

-----------------------------------------------------------------------------
(* Properties *)

\* Types; and a batch deals with each member it was to radiate once, by a
\* radiation or by an error.
TypeOK ==
  /\ mois \in [Membres -> [Mois -> StatutsMois]]
  /\ statut \in [Membres -> Statuts]
  /\ compte \in [Membres -> {"sans", "actif", "desactive"}]
  /\ lot \in [Lots -> [etape : {"repos", "lire", "appliquer", "fini", "erreur"},
                       vus : SUBSET Membres, comptes : SUBSET Membres, limite : Limites,
                       candidats : SUBSET Membres, cibles : SUBSET Membres,
                       reste : SUBSET Membres, faits : SUBSET Membres,
                       erreurs : SUBSET Membres, morte : BOOLEAN,
                       pannes : SUBSET Membres, perdus : SUBSET Membres]]
  /\ rappel \in [Rappels -> [etape : {"repos", "envoyer", "fini"}, reste : SUBSET Membres,
                             dus : SUBSET Membres, ecrits : SUBSET Membres,
                             rates : SUBSET Membres, tronque : BOOLEAN]]
  /\ \A b \in Lots : LET l == lot[b] IN
       l.faits \cap l.erreurs = {} /\ (l.faits \cup l.erreurs) \cap l.reste = {}

\* The rule of list_candidates: more than Delai months generated, and each of the
\* Delai months up to the present one generated and not paid.
Redevable(m) ==
  /\ \E S \in SUBSET Mois : Cardinality(S) = Delai + 1 /\ \A k \in S : mois[m][k] # "absent"
  /\ \A k \in (Present - Delai + 1)..Present : k \in Mois /\ Impaye(mois[m][k])

\* A batch that gets past the search holds members who owe, and all of them unless
\* --limit cut the list, whatever the gaps in their months, the months paid in
\* advance or the payments made since the adhesions were read.
CandidatsExacts ==
  [][\A b \in Lots : lot[b].etape = "lire" /\ lot'[b].etape = "appliquer" =>
       LET redevables == {m \in lot[b].vus : Redevable(m)}
           l == lot'[b] IN
       /\ l.candidats \subseteq redevables
       /\ \/ l.candidats = redevables
          \/ l.limite > 0 /\ Cardinality(l.candidats) = l.limite]_vars

\* "Commit par adhesion pour ne pas casser le lot": a finished batch radiated or
\* reported everyone it was to radiate; and in the job, which rolls back after an
\* error, only the read that follows a radiation can cost another member his turn,
\* and one member each time.
LotEntier ==
  \A b \in Lots : LET l == lot[b] IN
    /\ l.etape = "fini" => l.cibles = l.faits \cup l.erreurs
    /\ b \in Jobs => Cardinality(l.perdus) <= Cardinality(l.pannes \cap l.faits)

\* A run of the reminders whose list LIMIT did not cut has tried to write to every
\* member whose month was pending when it started, save the deleted ones; no run
\* writes to anyone else.
RappelComplet ==
  \A p \in Rappels : LET q == rappel[p] IN
    /\ q.ecrits \cup q.rates \subseteq q.dus
    /\ q.etape = "fini" /\ ~q.tronque =>
         \A m \in q.dus \ (q.ecrits \cup q.rates) : statut[m] = "supprimee"

\* The documentation: whoever leaves Delai months unpaid is radiated
\* automatically.  (The search for candidates fails when one has an account.)
RegleRadiation ==
  [][\A b \in Jobs : lot[b].etape = "lire" /\ lot'[b].etape # "lire" =>
       {m \in lot[b].vus : Redevable(m)} \subseteq lot'[b].cibles]_vars
=============================================================================
