-------------------------- MODULE RefreshSessions --------------------------
(***************************************************************************)
(* The refresh sessions of ONE account: login, rotation of the refresh     *)
(* token, logout, detection of reuse, and the account being disabled       *)
(* (radiation) and enabled again meanwhile.  No statement of the code      *)
(* reaches the sessions of two accounts.                                   *)
(*                                                                         *)
(* A request is one HTTP call with its own SQL transaction on PostgreSQL   *)
(* at READ COMMITTED.  Rows it inserts or updates are visible to the       *)
(* others at its commit; rows it updates stay locked until then; an UPDATE *)
(* of many rows only sees those committed when it starts.                  *)
(***************************************************************************)
EXTENDS Naturals, FiniteSets

CONSTANTS
  Requetes,      \* calls to /auth/login, /auth/refresh and /auth/logout under way
  Jetons,        \* refresh tokens: new_refresh_token never draws one twice
  MaxRadiations, \* bound: how many times the account is disabled
  Aucun          \* no token, no request

ASSUME HypRequetes == IsFiniteSet(Requetes) /\ Requetes # {} /\ Aucun \notin Requetes
ASSUME HypJetons   == Aucun \notin Jetons
ASSUME HypBorne    == MaxRadiations \in Nat

VARIABLES
  lignes,     \* refresh_token_sessions, as committed
  verrou,     \* the request that holds the lock of each row
  etape,      \* where each request is
  jeton,      \* the token it presented
  vues,       \* rows its UPDATE of all the sessions saw when it started
  actif,      \* users.is_active
  radiations, \* times the account was disabled (bounded)
  nees        \* sessions opened since the account is disabled (history)

vars == <<lignes, verrou, etape, jeton, vues, actif, radiations, nees>>

Etapes == {"repos", "compte", "tourner", "creer", "refuser", "revoquer_tout",
           "revoquer", "connexion"}

Lignes == [existe: BOOLEAN, revoque: BOOLEAN, tourne: BOOLEAN, expire: BOOLEAN,
           parent: Jetons \cup {Aucun}]
\* parent: the token that was rotated into this one (history: the code keeps no link).
Ligne(existe, parent) ==
  [existe |-> existe, revoque |-> FALSE, tourne |-> FALSE, expire |-> FALSE,
   parent |-> parent]

Existants == {j \in Jetons : lignes[j].existe}
Vivants   == {j \in Existants :
                ~(lignes[j].revoque \/ lignes[j].tourne \/ lignes[j].expire)}
\* The tokens obtained with j.
Suivants(j) == {k \in Existants : lignes[k].parent = j}

\* Where the request goes after reading the row.
\* (mutant: a rotated token is accepted)
SuiteSansRotation(l) ==
  CASE l.revoque -> "refuser"
    [] ~l.revoque /\ l.expire -> "revoquer"
    [] OTHER -> "compte"
SuiteDe(l) ==
  CASE l.revoque \/ l.tourne -> "refuser"
    [] ~(l.revoque \/ l.tourne) /\ l.expire -> "revoquer"
    [] OTHER -> "compte"

\* ... and after reading the account.
\* (mutant: rotation does not look at is_active)
SuiteCompteSansGarde(a) == "tourner"
SuiteCompte(a) == IF a THEN "tourner" ELSE "refuser"

\* (mutant: the transaction is not ended)
LibererOublie(r) == verrou
Liberer(r) == [j \in Jetons |-> IF verrou[j] = r THEN Aucun ELSE verrou[j]]
Terminer(r) ==
  /\ etape' = [etape EXCEPT ![r] = "repos"]
  /\ jeton' = [jeton EXCEPT ![r] = Aucun]
  /\ vues'  = [vues EXCEPT ![r] = {}]
\* An UPDATE on the row of j that is still to change waits for its lock.
Disponible(j) == verrou[j] = Aucun

(* A new session row, inserted and committed. *)
Ouvrir(j, parent, rotation) ==
  /\ ~lignes[j].existe
  /\ lignes' = [k \in Jetons |->
                  IF k = j THEN Ligne(TRUE, parent)
                  ELSE IF k = parent THEN [lignes[k] EXCEPT !.tourne = rotation]
                  ELSE lignes[k]]
  /\ nees' = IF actif THEN nees ELSE nees + 1

-----------------------------------------------------------------------------
(* AuthService.refresh *)
Presenter(r, j) ==
  /\ etape[r] = "repos" /\ lignes[j].existe
  /\ etape' = [etape EXCEPT ![r] = SuiteDe(lignes[j])]
  /\ jeton' = [jeton EXCEPT ![r] = j]
  /\ UNCHANGED <<lignes, verrou, vues, actif, radiations, nees>>

LireCompte(r) ==
  /\ etape[r] = "compte"
  /\ etape' = [etape EXCEPT ![r] = SuiteCompte(actif)]
  /\ UNCHANGED <<lignes, verrou, jeton, vues, actif, radiations, nees>>

\* mark_rotated: UPDATE ... WHERE rotated_at IS NULL.  A row already rotated
\* is neither waited for nor locked, and the count of rows is ignored.
Tourner(r) ==
  /\ etape[r] = "tourner"
  /\ lignes[jeton[r]].tourne \/ Disponible(jeton[r])
  /\ verrou' = IF lignes[jeton[r]].tourne THEN verrou
               ELSE [verrou EXCEPT ![jeton[r]] = r]
  /\ etape' = [etape EXCEPT ![r] = "creer"]
  /\ UNCHANGED <<lignes, jeton, vues, actif, radiations, nees>>

ValiderRotation(r, k) ==
  /\ etape[r] = "creer"
  /\ Ouvrir(k, jeton[r], TRUE)
  /\ verrou' = Liberer(r)
  /\ Terminer(r)
  /\ UNCHANGED <<actif, radiations>>

\* revoke_all_for_user: the rows it will revoke are those committed by now ...
ARevoquer(r) == {j \in Existants : ~lignes[j].revoque}
DebutRevoquerTout(r) ==
  /\ etape[r] = "refuser"
  /\ etape' = [etape EXCEPT ![r] = "revoquer_tout"]
  /\ vues'  = [vues EXCEPT ![r] = ARevoquer(r)]
  /\ UNCHANGED <<lignes, verrou, jeton, actif, radiations, nees>>

\* ... once nobody holds one of them; then commit, and 401 or 403.
FinRevoquerTout(r) ==
  /\ etape[r] = "revoquer_tout"
  /\ \A j \in vues[r] : Disponible(j)
  /\ lignes' = [j \in Jetons |->
                  IF j \in vues[r] THEN [lignes[j] EXCEPT !.revoque = TRUE]
                  ELSE lignes[j]]
  /\ Terminer(r)
  /\ UNCHANGED <<verrou, actif, radiations, nees>>

-----------------------------------------------------------------------------
(* AuthService.logout: get_by_token_hash, then the same revoke as an expired token *)
Deconnecter(r, j) ==
  /\ etape[r] = "repos" /\ lignes[j].existe
  /\ etape' = [etape EXCEPT ![r] = "revoquer"]
  /\ jeton' = [jeton EXCEPT ![r] = j]
  /\ UNCHANGED <<lignes, verrou, vues, actif, radiations, nees>>

\* revoke: UPDATE ... WHERE revoked_at IS NULL, then commit.
Revoquer(r) ==
  /\ etape[r] = "revoquer"
  /\ lignes[jeton[r]].revoque \/ Disponible(jeton[r])
  /\ lignes' = [lignes EXCEPT ![jeton[r]].revoque = TRUE]
  /\ Terminer(r)
  /\ UNCHANGED <<verrou, actif, radiations, nees>>

-----------------------------------------------------------------------------
(* AuthService.login, with the right password *)
Connecter(r) ==
  /\ etape[r] = "repos" /\ actif
  /\ etape' = [etape EXCEPT ![r] = "connexion"]
  /\ UNCHANGED <<lignes, verrou, jeton, vues, actif, radiations, nees>>

ValiderConnexion(r, k) ==
  /\ etape[r] = "connexion"
  /\ Ouvrir(k, Aucun, FALSE)
  /\ Terminer(r)
  /\ UNCHANGED <<verrou, actif, radiations>>

\* Crash, lost connection, exception: rollback.
Abandonner(r) ==
  /\ etape[r] # "repos"
  /\ verrou' = Liberer(r)
  /\ Terminer(r)
  /\ UNCHANGED <<lignes, actif, radiations, nees>>

-----------------------------------------------------------------------------
(* Time: every session lives as long, so none expires before its parent. *)
Expirer(j) ==
  /\ lignes[j].existe /\ ~lignes[j].expire
  /\ lignes[j].parent # Aucun => lignes[lignes[j].parent].expire
  /\ lignes' = [lignes EXCEPT ![j].expire = TRUE]
  /\ UNCHANGED <<verrou, etape, jeton, vues, actif, radiations, nees>>

(* RadiationService: the sessions of the account are not touched. *)
Radier ==
  /\ actif /\ radiations < MaxRadiations
  /\ actif' = FALSE /\ radiations' = radiations + 1 /\ nees' = 0
  /\ UNCHANGED <<lignes, verrou, etape, jeton, vues>>

Rehabiliter ==
  /\ ~actif
  /\ actif' = TRUE /\ nees' = 0
  /\ UNCHANGED <<lignes, verrou, etape, jeton, vues, radiations>>

-----------------------------------------------------------------------------
Init ==
  /\ lignes = [j \in Jetons |-> Ligne(FALSE, Aucun)]
  /\ verrou = [j \in Jetons |-> Aucun]
  /\ etape  = [r \in Requetes |-> "repos"]
  /\ jeton  = [r \in Requetes |-> Aucun]
  /\ vues   = [r \in Requetes |-> {}]
  /\ actif = TRUE /\ radiations = 0 /\ nees = 0

Requete(r) ==
  \/ LireCompte(r) \/ Tourner(r) \/ DebutRevoquerTout(r) \/ FinRevoquerTout(r)
  \/ Revoquer(r) \/ Connecter(r) \/ Abandonner(r)
  \/ \E j \in Jetons : \/ Presenter(r, j) \/ Deconnecter(r, j)
                       \/ ValiderRotation(r, j) \/ ValiderConnexion(r, j)

Next ==
  \/ \E r \in Requetes : Requete(r)
  \/ \E j \in Jetons : Expirer(j)
  \/ Radier \/ Rehabiliter

Spec == Init /\ [][Next]_vars

-----------------------------------------------------------------------------
(* Properties *)

Tenu(j) == verrou[j] # Aucun => etape[verrou[j]] = "creer" /\ jeton[verrou[j]] = j

\* Types; and a row is locked only by a request that rotates it and has not
\* committed: no path of the code ends with a lock held.
TypeOK ==
  /\ lignes \in [Jetons -> Lignes]
  /\ verrou \in [Jetons -> Requetes \cup {Aucun}]
  /\ etape \in [Requetes -> Etapes]
  /\ jeton \in [Requetes -> Jetons \cup {Aucun}]
  /\ vues \in [Requetes -> SUBSET Jetons]
  /\ actif \in BOOLEAN /\ radiations \in 0..MaxRadiations /\ nees \in Nat
  /\ \A j \in Jetons : Tenu(j)

\* The code does not stop two requests from rotating one token (mark_rotated
\* ignores its row count), but it bounds the damage: a token is exchanged at
\* most once by each request that was under way, however often it is presented
\* and whatever commits, crashes or is revoked in between.
UsagesBornes == \A j \in Jetons : Cardinality(Suivants(j)) <= Cardinality(Requetes)

\* Once an account is disabled, the only sessions still opened are those of
\* requests that had already passed the check of is_active (login 67, refresh
\* 125): never more than there are requests, until it is enabled again.
RadiationContient == ~actif => nees <= Cardinality(Requetes)
=============================================================================
