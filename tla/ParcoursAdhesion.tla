-------------------------- MODULE ParcoursAdhesion --------------------------
(***************************************************************************)
(* The life of an adhesion after its deposit: validation by the accueil,   *)
(* then by the directoire, which creates the member's account; rejection,  *)
(* request of a complement, manual radiation, rehabilitation; the account  *)
(* also made at a first login or by a script, and edited by administrators.*)
(*                                                                         *)
(* One SQL session per request, PostgreSQL at READ COMMITTED: a request    *)
(* checks what it read, then updates; the UPDATE waits for the row, and    *)
(* evaluates its own WHERE on the row as committed then.  Objects once     *)
(* loaded are not refreshed by a later SELECT of the session.              *)
(***************************************************************************)
EXTENDS Naturals, FiniteSets

CONSTANTS
  Adhesions, \* rows of adhesions that may be inserted
  Comptes,   \* rows of users that may be inserted
  Emails,
  Requetes,
  Aucun

Statuts == {"en_attente", "validee_accueil", "validee", "rejetee", "complement", "radiee"}
Decisions == {"accueil", "directoire", "rejeter", "refus_admin", "complement",
              "radier", "rehabiliter"}
Operations == Decisions \cup {"connexion", "peupler"}
LignesCompte == [email : Emails \cup {Aucun}, lien : Adhesions \cup {Aucun}, actif : BOOLEAN]

ASSUME HypAucun == /\ Aucun \notin Adhesions \cup Comptes \cup Emails
                   /\ Aucun \notin Statuts \cup {"supprimee"} \cup Operations
                   /\ Aucun \notin LignesCompte

VARIABLES
  adhesion, \* statut (Aucun: no such row; "supprimee": soft delete) and email
  compte,   \* users: email (Aucun: no such row), adhesion_id, is_active
  req,      \* each request: what it loaded, what it flushed
  histoire  \* what was decided: read by no action

vars == <<adhesion, compte, req, histoire>>

SansAdhesion == [statut |-> Aucun, email |-> Aucun]
SansCompte   == [email |-> Aucun, lien |-> Aucun, actif |-> FALSE]
Repos == [etape |-> "repos", op |-> Aucun, a |-> Aucun, email |-> Aucun,
          c |-> Aucun, lu |-> SansCompte, statut |-> Aucun, ecrit |-> Aucun]

Vivante(a) == adhesion[a].statut \in Statuts
Existe(c)  == compte[c].email # Aucun
Parle(r, e) == req' = [req EXCEPT ![r].etape = e]
Finir(r)    == req' = [req EXCEPT ![r] = Repos]

\* Rows a transaction flushed and did not commit: `statut` for its adhesion,
\* `ecrit` for the account c.
TientAdhesion(a) == \E r \in Requetes : req[r].a = a /\ req[r].statut # Aucun
TientCompte(c)   == \E r \in Requetes : req[r].c = c /\ req[r].ecrit # Aucun

-----------------------------------------------------------------------------
(* Decisions on an adhesion *)

\* The check each handler makes on the row it read.
Admissible(op, s) ==
  CASE op = "accueil"     -> s \in {"en_attente", "complement"}
    [] op = "directoire"  -> s = "validee_accueil"
    [] op = "rejeter"     -> s \in {"en_attente", "validee_accueil"}
    [] op = "radier"      -> s # "radiee"
    [] op = "rehabiliter" -> s = "radiee"
    [] OTHER              -> TRUE

Cible(op) ==
  CASE op = "accueil"                    -> "validee_accueil"
    [] op \in {"directoire", "rehabiliter"} -> "validee"
    [] op \in {"rejeter", "refus_admin"} -> "rejetee"
    [] op = "complement"                 -> "complement"
    [] op = "radier"                     -> "radiee"

Lire(r, op, a) ==
  /\ req[r].etape = "repos"
  /\ Vivante(a) /\ Admissible(op, adhesion[a].statut)
  /\ req' = [req EXCEPT ![r] =
       [Repos EXCEPT !.op = op, !.a = a, !.email = adhesion[a].email,
                     !.etape = IF op \in {"radier", "rehabiliter"} THEN "compte" ELSE "ecrire"]]
  /\ UNCHANGED <<adhesion, compte, histoire>>

\* selectinload(Adhesion.user_account): a second SELECT.
LireCompte(r) ==
  /\ req[r].etape = "compte"
  /\ \/ \E c \in Comptes : /\ Existe(c) /\ compte[c].lien = req[r].a
                           /\ req' = [req EXCEPT ![r].etape = "ecrire", ![r].c = c,
                                                 ![r].lu = compte[c]]
     \/ /\ \A c \in Comptes : Existe(c) => compte[c].lien # req[r].a
        /\ Parle(r, "ecrire")
  /\ UNCHANGED <<adhesion, compte, histoire>>

\* The WHERE of the UPDATE.  accueil and directoire test the statut again; the
\* others only that the row is not deleted; the ORM only the id.
\* (mutant: the directoire too trusts the row it read)
TouchesSansStatut(r) ==
  LET s == adhesion[req[r].a].statut IN
  CASE req[r].op = "accueil"                   -> Admissible("accueil", s)
    [] req[r].op \in {"radier", "rehabiliter"} -> TRUE
    [] OTHER                                   -> s \in Statuts
Touches(r) ==
  LET s == adhesion[req[r].a].statut IN
  CASE req[r].op \in {"accueil", "directoire"} -> Admissible(req[r].op, s)
    [] req[r].op \in {"radier", "rehabiliter"} -> TRUE
    [] OTHER                                   -> s \in Statuts

\* The account of a radiation, as flushed: is_active is written only if it
\* differs from what was loaded; an account deleted meanwhile is an error.
CompteEcrit(r) ==
  LET actif == req[r].op = "rehabiliter" IN
  IF actif = req[r].lu.actif THEN Aucun ELSE [compte[req[r].c] EXCEPT !.actif = actif]
CompteParti(r) ==
  req[r].c # Aucun /\ req[r].lu.actif # (req[r].op = "rehabiliter") /\ ~Existe(req[r].c)

\* No row touched (404), or an account gone (500): rollback.
Ecrire(r) ==
  /\ req[r].etape = "ecrire" /\ ~TientAdhesion(req[r].a)
  /\ req[r].c # Aucun => ~TientCompte(req[r].c)
  /\ IF ~Touches(r) \/ CompteParti(r) THEN Finir(r)
     ELSE req' = [req EXCEPT
            ![r].statut = Cible(req[r].op),
            ![r].etape  = IF req[r].op = "directoire" THEN "assurer" ELSE "valider",
            ![r].ecrit  = IF req[r].c = Aucun THEN Aucun ELSE CompteEcrit(r)]
  /\ UNCHANGED <<adhesion, compte, histoire>>

-----------------------------------------------------------------------------
(* The account: ensure_militant_account_for, in the directoire's transaction; *)
(* or a first login (_try_create_login_militant_on_the_fly); or the script   *)
(* seed_militants_articles                                                   *)

\* (mutant: any adhesion of that email)
ReconnuSansStatut(a, e) == Vivante(a) /\ adhesion[a].email = e
Reconnu(a, e) == adhesion[a].statut = "validee" /\ adhesion[a].email = e

Connecter(r, e, a) ==
  /\ req[r].etape = "repos"
  /\ \A c \in Comptes : compte[c].email # e
  /\ Reconnu(a, e)
  /\ req' = [req EXCEPT ![r] = [Repos EXCEPT !.op = "connexion", !.a = a, !.email = e,
                                             !.etape = "assurer"]]
  /\ UNCHANGED <<adhesion, compte, histoire>>

\* The validated adhesions without account; one transaction makes all their
\* accounts, followed here on one of them.
Peupler(r, a) ==
  /\ req[r].etape = "repos"
  /\ adhesion[a].statut = "validee" /\ \A c \in Comptes : compte[c].lien # a
  /\ req' = [req EXCEPT ![r] = [Repos EXCEPT !.op = "peupler", !.a = a, !.etape = "assurer",
                                             !.email = adhesion[a].email]]
  /\ UNCHANGED <<adhesion, compte, histoire>>

\* get_by_email: an account that exists is linked if it was not; a first login
\* ends there if it is disabled.
Assurer(r) ==
  LET e == req[r].email IN
  /\ req[r].etape = "assurer"
  /\ \/ /\ \A c \in Comptes : compte[c].email # e
        /\ Parle(r, "creer")
     \/ \E c \in Comptes : /\ compte[c].email = e
                           /\ IF compte[c].lien # Aucun
                              THEN req' = [req EXCEPT ![r].etape = "valider", ![r].c = c]
                              ELSE IF req[r].op = "connexion" /\ ~compte[c].actif THEN Finir(r)
                              ELSE req' = [req EXCEPT ![r].etape = "lier", ![r].c = c]
  /\ UNCHANGED <<adhesion, compte, histoire>>

\* The unique indexes on users.email and users.adhesion_id: an INSERT or UPDATE
\* waits for a transaction writing the same value, and fails if it is committed
\* (a = Aucun: NULL, which is never a duplicate).
\* (mutant: adhesion_id is not unique)
PrisSansLien(e, a, sauf) == \E c \in Comptes \ sauf : compte[c].email = e
Pris(e, a, sauf) ==
  \E c \in Comptes \ sauf : Existe(c) /\ (compte[c].email = e \/ (a # Aucun /\ compte[c].lien = a))
EnCours(e, a) ==
  \E r \in Requetes :
    /\ req[r].ecrit # Aucun
    /\ req[r].ecrit.email = e \/ (a # Aucun /\ req[r].ecrit.lien = a)

Creer(r, c) ==
  /\ req[r].etape = "creer" /\ ~EnCours(req[r].email, req[r].a)
  /\ ~Existe(c) /\ ~TientCompte(c)
  /\ IF Pris(req[r].email, req[r].a, {}) THEN Finir(r)
     ELSE req' = [req EXCEPT ![r].etape = "valider", ![r].c = c,
            ![r].ecrit = [email |-> req[r].email, lien |-> req[r].a, actif |-> TRUE]]
  /\ UNCHANGED <<adhesion, compte, histoire>>

Lier(r) ==
  LET c == req[r].c IN
  /\ req[r].etape = "lier" /\ ~TientCompte(c) /\ ~EnCours(Aucun, req[r].a)
  /\ IF ~Existe(c) \/ Pris(compte[c].email, req[r].a, {c}) THEN Finir(r)
     ELSE req' = [req EXCEPT ![r].etape = "valider",
                             ![r].ecrit = [compte[c] EXCEPT !.lien = req[r].a]]
  /\ UNCHANGED <<adhesion, compte, histoire>>

-----------------------------------------------------------------------------
(* The end of a request *)

Decider(a, op) ==
  histoire' = [histoire EXCEPT ![a].derniere = op, ![a].reconnue = @ \/ Cible(op) = "validee"]

\* (mutant: the validation is committed before the account is ensured)
PretAvantCompte(r) == req[r].etape \in {"valider", "assurer"}
Pret(r) == req[r].etape = "valider"

Valider(r) ==
  /\ Pret(r)
  /\ IF req[r].statut = Aucun THEN UNCHANGED <<adhesion, histoire>>
     ELSE /\ adhesion' = [adhesion EXCEPT ![req[r].a].statut =
                            IF @ \in Statuts THEN req[r].statut ELSE @]
          /\ Decider(req[r].a, req[r].op)
  /\ compte' = IF req[r].ecrit = Aucun THEN compte
               ELSE [compte EXCEPT ![req[r].c] = req[r].ecrit]
  /\ Finir(r)

\* A crash, an email that cannot be built, a client that hangs up: rollback.
Abandonner(r) ==
  /\ req[r].etape # "repos"
  /\ Finir(r)
  /\ UNCHANGED <<adhesion, compte, histoire>>

-----------------------------------------------------------------------------
(* A deposit (module Depot), administrators, and the script that rebuilds    *)
(* adhesions from users; each one commits at once                           *)

EmailLibre(e, sauf) == \A a \in Adhesions \ sauf : adhesion[a].email # e
Deposer(a, e) ==
  /\ adhesion[a] = SansAdhesion /\ EmailLibre(e, {})
  /\ adhesion' = [adhesion EXCEPT ![a] = [statut |-> "en_attente", email |-> e]]
  /\ UNCHANGED <<compte, req, histoire>>

\* admin_update_info: the email of the adhesion, not the one of the account.
Corriger(a, e) ==
  /\ Vivante(a) /\ ~TientAdhesion(a) /\ EmailLibre(e, {a})
  /\ adhesion' = [adhesion EXCEPT ![a].email = e]
  /\ UNCHANGED <<compte, req, histoire>>

\* admin_soft_delete; an account linked to it keeps the link.
Supprimer(a) ==
  /\ Vivante(a) /\ ~TientAdhesion(a)
  /\ adhesion' = [adhesion EXCEPT ![a] = [SansAdhesion EXCEPT !.statut = "supprimee"]]
  /\ UNCHANGED <<compte, req, histoire>>

CreerCompte(c, e) ==
  /\ ~Existe(c) /\ ~TientCompte(c) /\ ~Pris(e, Aucun, {}) /\ ~EnCours(e, Aucun)
  /\ compte' = [compte EXCEPT ![c] = [email |-> e, lien |-> Aucun, actif |-> TRUE]]
  /\ UNCHANGED <<adhesion, req, histoire>>

ModifierCompte(c, e) ==
  /\ Existe(c) /\ ~TientCompte(c)
  /\ \A d \in Comptes \ {c} : compte[d].email # e
  /\ ~EnCours(e, Aucun)
  /\ compte' = [compte EXCEPT ![c].email = e]
  /\ UNCHANGED <<adhesion, req, histoire>>

SupprimerCompte(c) ==
  /\ Existe(c) /\ ~TientCompte(c)
  /\ compte' = [compte EXCEPT ![c] = SansCompte]
  /\ UNCHANGED <<adhesion, req, histoire>>

\* rebuild_adhesions_from_users: one adhesion for every account without one, with
\* the statut asked for, any of them, or validee if the account is one of the
\* `connus` (committees, staff); all of them or none.
SansLien == {c \in Comptes : Existe(c) /\ compte[c].lien = Aucun}
Reconstruite(a, lignes) == \E c \in SansLien : lignes[c] = a
Rebati(a, lignes, connus, s) ==
  LET c == CHOOSE c \in SansLien : lignes[c] = a IN
  [statut |-> IF c \in connus THEN "validee" ELSE s, email |-> compte[c].email]
\* An adhesion may be born validated by the accueil, which decided nothing.
Naissance(statut) ==
  [derniere |-> IF statut = "validee_accueil" THEN "script" ELSE Aucun,
   reconnue |-> statut = "validee"]

Reconstruire(lignes, connus, s) ==
  /\ SansLien # {}
  /\ \A c \in SansLien : /\ ~TientCompte(c) /\ adhesion[lignes[c]] = SansAdhesion
                         /\ EmailLibre(compte[c].email, {})
                         /\ \A d \in SansLien \ {c} : lignes[d] # lignes[c]
  /\ adhesion' = [a \in Adhesions |->
       IF Reconstruite(a, lignes) THEN Rebati(a, lignes, connus, s) ELSE adhesion[a]]
  /\ histoire' = [a \in Adhesions |->
       IF Reconstruite(a, lignes) THEN Naissance(Rebati(a, lignes, connus, s).statut)
       ELSE histoire[a]]
  /\ compte' = [c \in Comptes |-> IF c \in SansLien THEN [compte[c] EXCEPT !.lien = lignes[c]]
                                  ELSE compte[c]]
  /\ UNCHANGED req

Init ==
  /\ adhesion = [a \in Adhesions |-> SansAdhesion]
  /\ compte   = [c \in Comptes |-> SansCompte]
  /\ req      = [r \in Requetes |-> Repos]
  /\ histoire = [a \in Adhesions |-> [derniere |-> Aucun, reconnue |-> FALSE]]

Avancer(r) ==
  \/ \E op \in Decisions, a \in Adhesions : Lire(r, op, a)
  \/ \E e \in Emails, a \in Adhesions : Connecter(r, e, a)
  \/ \E a \in Adhesions : Peupler(r, a)
  \/ \E c \in Comptes : Creer(r, c)
  \/ LireCompte(r) \/ Ecrire(r) \/ Assurer(r) \/ Lier(r) \/ Valider(r) \/ Abandonner(r)

Next ==
  \/ \E r \in Requetes : Avancer(r)
  \/ \E a \in Adhesions, e \in Emails : Deposer(a, e) \/ Corriger(a, e)
  \/ \E c \in Comptes, e \in Emails : CreerCompte(c, e) \/ ModifierCompte(c, e)
  \/ \E a \in Adhesions : Supprimer(a)
  \/ \E c \in Comptes : SupprimerCompte(c)
  \/ \E lignes \in [Comptes -> Adhesions], connus \in SUBSET Comptes, s \in Statuts :
       Reconstruire(lignes, connus, s)

Spec == Init /\ [][Next]_vars

-----------------------------------------------------------------------------
(* Properties *)

\* Types; and, whatever validations, first logins and administrators race, no
\* two accounts share an email or an adhesion.
TypeOK ==
  /\ adhesion \in [Adhesions -> [statut : Statuts \cup {"supprimee", Aucun},
                                 email : Emails \cup {Aucun}]]
  /\ compte \in [Comptes -> LignesCompte]
  /\ \A r \in Requetes : req[r].op \in Operations \cup {Aucun}
  /\ \A c, d \in Comptes : Existe(c) /\ Existe(d) /\ c # d =>
       /\ compte[c].email # compte[d].email
       /\ compte[c].lien = Aucun \/ compte[c].lien # compte[d].lien

\* The two levels: when the directoire's validation commits, the last decision
\* committed on the adhesion is the accueil's, although the handler checked the
\* statut before and rejections do not test it when they write; or nobody decided
\* yet, and the script rebuilt the adhesion as validated by the accueil.
DeuxNiveaux ==
  [][\A r \in Requetes : Valider(r) /\ req[r].op = "directoire" =>
       histoire[req[r].a].derniere \in {"accueil", "script"}]_vars

\* An account is created for an adhesion only if it was recognised (validee) by
\* then: the first login cannot anticipate the directoire.
CompteReconnu ==
  [][\A c \in Comptes : ~Existe(c) /\ compte'[c].lien # Aucun =>
       histoire'[compte'[c].lien].reconnue]_vars

\* A validation of the directoire is committed with the account of its email or
\* not at all, whatever conflict, crash or rival request: the account was there
\* when it was looked for, or appears at that commit, linked and active.
ValidationEntiere ==
  [][\A r \in Requetes : Valider(r) /\ req[r].op = "directoire" =>
       \/ \E c \in Comptes : /\ ~Existe(c) /\ compte'[c].actif
                             /\ compte'[c].email = req[r].email /\ compte'[c].lien = req[r].a
       \/ req[r].c # Aucun /\ (Existe(req[r].c) \/ req[r].ecrit = Aucun)]_vars
=============================================================================
