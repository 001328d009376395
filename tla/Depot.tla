------------------------------- MODULE Depot -------------------------------
(***************************************************************************)
(* Submitting an adhesion: the code sent to an email and its verification  *)
(* (services/email_otp.py), then POST /adhesions with its Idempotency-Key  *)
(* (AdhesionService.create), against administrators who edit or delete.    *)
(*                                                                         *)
(* One SQL session per request, PostgreSQL at READ COMMITTED.  The row of  *)
(* a code is locked from its DELETE to the end of the transaction; the     *)
(* INSERT of an adhesion is committed at once.                             *)
(***************************************************************************)
EXTENDS Naturals, FiniteSets

CONSTANTS
  Emails,
  Cnis,      \* identity cards
  Cartes,    \* voter cards
  Formes,    \* the forms that are filled: email, CNI and, if any, voter card
  Cles,      \* values of the header Idempotency-Key
  Codes,     \* codes the generator draws, each once
  Adhesions, \* rows that may be inserted
  Requetes,
  MaxEssais, \* OTP_MAX_ATTEMPTS
  Aucun      \* no code, no key, no voter card, nobody

Pieces   == Cnis \X (Cartes \cup {Aucun})
Payloads == Emails \X Pieces

ASSUME HypFormes == Formes \subseteq Payloads
ASSUME HypMax    == MaxEssais \in Nat \ {0}
ASSUME HypAucun  == Aucun \notin Emails \cup Cnis \cup Cartes \cup Cles \cup Codes \cup Adhesions \cup Requetes

VARIABLES
  otp,      \* email_otps: one row per email, code = Aucun when there is none
  tient,    \* who deleted the row of an email and has not committed
  recus,    \* <<email, code>>: codes that reached an address
  adhesion, \* adhesions: identifiers, key, and the payload it came from
  req       \* each request: where it is, what was submitted, what it loaded

vars == <<otp, tient, recus, adhesion, req>>

Ages     == {"recent", "valable", "perime"}
SansCode == [code |-> Aucun, essais |-> 0, age |-> "perime"]
\* `origine`: the form of a row that has a key (idempotency_hash).
SansAdhesion(etat) ==
  [etat |-> etat, email |-> Aucun, pieces |-> Aucun, cle |-> Aucun, origine |-> Aucun]

Etapes == {"repos", "charger", "envoyer", "enregistrer", "controler", "compter", "cle",
           "verifier", "effacer", "email", "cni", "carte", "inserer", "repondu"}
\* `lu`: attempts loaded (Aucun: no row); `rep`: the adhesion answered.
Repos == [etape |-> "repos", email |-> Aucun, pieces |-> Aucun, cle |-> Aucun, code |-> Aucun,
          lu |-> Aucun, rep |-> Aucun]

Vivante(a) == adhesion[a].etat = "vivante"
MemeCni(p, q)   == p[1] = q[1]
MemeCarte(p, q) == p[2] # Aucun /\ p[2] = q[2]
Vers(r, e) == req' = [req EXCEPT ![r].etape = e]
Finir(r)   == req' = [req EXCEPT ![r] = Repos]
\* Locks of r released at the end of its transaction.
Relacher(r) == tient' = [e \in Emails |-> IF tient[e] = r THEN Aucun ELSE tient[e]]

-----------------------------------------------------------------------------
(* POST /adhesions/email-otp *)

DemanderCode(r, e) ==
  /\ req[r].etape = "repos"
  /\ ~\E a \in Adhesions : Vivante(a) /\ adhesion[a].email = e
  /\ req' = [req EXCEPT ![r] = [Repos EXCEPT !.etape = "charger", !.email = e]]
  /\ UNCHANGED <<otp, tient, recus, adhesion>>

\* session.get: the row stays in the session, the cooldown is tested on it.
ChargerCode(r) ==
  LET ligne == otp[req[r].email] IN
  /\ req[r].etape = "charger"
  /\ IF ligne.age = "recent" THEN Finir(r)
     ELSE req' = [req EXCEPT ![r].etape = "envoyer",
                             ![r].lu = IF ligne.code = Aucun THEN Aucun ELSE ligne.essais]
  /\ UNCHANGED <<otp, tient, recus, adhesion>>

\* The email leaves first (a failure ends the request: Abandonner).
EnvoyerCode(r, c) ==
  /\ req[r].etape = "envoyer"
  /\ \A p \in recus : p[2] # c
  /\ recus' = recus \cup {<<req[r].email, c>>}
  /\ req' = [req EXCEPT ![r].etape = "enregistrer", ![r].code = c]
  /\ UNCHANGED <<otp, tient, adhesion>>

\* INSERT if no row was loaded, else UPDATE of the row loaded, by its key; the
\* ORM writes attempts = 0 only if it had loaded another value.  The row may
\* have appeared (IntegrityError) or left (StaleDataError) meanwhile: 500.
EnregistrerCode(r) ==
  LET e == req[r].email IN
  /\ req[r].etape = "enregistrer" /\ tient[e] = Aucun
  /\ otp' = IF (req[r].lu = Aucun) # (otp[e].code = Aucun) THEN otp
            ELSE [otp EXCEPT ![e] =
                    [code |-> req[r].code, age |-> "recent",
                     essais |-> IF req[r].lu = 0 THEN @.essais ELSE 0]]
  /\ Finir(r)
  /\ UNCHANGED <<tient, recus, adhesion>>

-----------------------------------------------------------------------------
(* verify_email_otp: POST /verify-email-otp, or the head of a submission *)

Verifier(r, e, c) ==
  /\ req[r].etape = "repos"
  /\ req' = [req EXCEPT ![r] = [Repos EXCEPT !.etape = "controler", !.email = e, !.code = c]]
  /\ UNCHANGED <<otp, tient, recus, adhesion>>

\* Absent, expired, or too many attempts.
\* (mutant: the attempts are not looked at)
InutilisableSansLimite(ligne) == ligne.code = Aucun \/ ligne.age = "perime"
Inutilisable(ligne) ==
  ligne.code = Aucun \/ ligne.age = "perime" \/ ligne.essais >= MaxEssais

\* (mutant: the code itself is not compared)
BonCodeQuelconque(r) == TRUE
BonCode(r) == otp[req[r].email].code = req[r].code

ControlerCode(r) ==
  LET ligne == otp[req[r].email] IN
  /\ req[r].etape \in {"controler", "verifier"}
  /\ \/ Inutilisable(ligne) /\ Finir(r)
     \/ /\ ~Inutilisable(ligne) /\ ~BonCode(r)
        /\ req' = [req EXCEPT ![r].etape = "compter", ![r].lu = ligne.essais]
     \/ /\ ~Inutilisable(ligne) /\ BonCode(r)
        /\ IF req[r].etape = "verifier" THEN Vers(r, "effacer") ELSE Finir(r)
  /\ UNCHANGED <<otp, tient, recus, adhesion>>

\* UPDATE ... SET attempts = <loaded + 1>, then 400; 500 if the row left.
CompterEchec(r) ==
  LET e == req[r].email IN
  /\ req[r].etape = "compter" /\ tient[e] = Aucun
  /\ otp' = IF otp[e].code = Aucun THEN otp
            ELSE [otp EXCEPT ![e].essais = req[r].lu + 1]
  /\ Finir(r)
  /\ UNCHANGED <<tient, recus, adhesion>>

-----------------------------------------------------------------------------
(* POST /adhesions *)

Deposer(r, p, k, c) ==
  /\ req[r].etape = "repos"
  /\ req' = [req EXCEPT ![r] =
       [Repos EXCEPT !.etape = IF k = Aucun THEN "verifier" ELSE "cle",
                     !.email = p[1], !.pieces = p[2], !.cle = k, !.code = c]]
  /\ UNCHANGED <<otp, tient, recus, adhesion>>

\* The live adhesion deposited with a key.
AvecCle(k) == {a \in Adhesions : Vivante(a) /\ adhesion[a].cle = k}

\* The hash of the payload: the form without the code.
\* (mutant: the key alone is compared)
RejeuSansHash(r, a) == TRUE
Rejeu(r, a) == adhesion[a].origine = <<req[r].email, req[r].pieces>>

\* A key already used answers its adhesion, or 409 with another payload.
LireCle(r) ==
  LET deja == AvecCle(req[r].cle) IN
  /\ req[r].etape = "cle"
  /\ \/ deja = {} /\ Vers(r, "verifier")
     \/ \E a \in deja : ~Rejeu(r, a) /\ Finir(r)
     \/ \E a \in deja : Rejeu(r, a) /\ req' = [req EXCEPT ![r].etape = "repondu", ![r].rep = a]
  /\ UNCHANGED <<otp, tient, recus, adhesion>>

\* session.delete, sent by the autoflush of the next query: the row is locked,
\* and leaves at the commit.  A row already gone is only a warning.
\* (mutant: the deletion is committed by the verification)
EffacerCodeAussitot(r) ==
  LET e == req[r].email IN
  /\ req[r].etape = "effacer" /\ tient[e] = Aucun
  /\ otp' = [otp EXCEPT ![e] = SansCode]
  /\ Vers(r, "email")
  /\ UNCHANGED <<tient, recus, adhesion>>
EffacerCode(r) ==
  LET e == req[r].email IN
  /\ req[r].etape = "effacer" /\ tient[e] = Aucun
  /\ tient' = IF otp[e].code = Aucun THEN tient ELSE [tient EXCEPT ![e] = r]
  /\ Vers(r, "email")
  /\ UNCHANGED <<otp, recus, adhesion>>

\* get_conflict_by_email, _by_cni, _by_carte_electeur: 409 and rollback.  Each
\* SELECT sees what is committed when it runs.
EnConflit(r, a) == LET q == req[r] IN
  \/ q.etape = "email" /\ adhesion[a].email = q.email
  \/ q.etape = "cni"   /\ MemeCni(adhesion[a].pieces, q.pieces)
  \/ q.etape = "carte" /\ MemeCarte(adhesion[a].pieces, q.pieces)

Controles == {"email", "cni", "carte"}
Suivant == [email |-> "cni", cni |-> "carte", carte |-> "inserer"]

ChercherConflit(r) ==
  /\ req[r].etape \in Controles
  /\ IF \E a \in Adhesions : Vivante(a) /\ EnConflit(r, a) THEN Finir(r) /\ Relacher(r)
     ELSE Vers(r, Suivant[req[r].etape]) /\ UNCHANGED tient
  /\ UNCHANGED <<otp, recus, adhesion>>

\* The unique indexes on email, cni and carte_electeur (rows not deleted), and on
\* the key.
\* (mutant: the checks before the INSERT are thought to be enough)
UniqueSansIndex(e, p, k, sauf) == TRUE
Unique(e, p, k, sauf) ==
  \A a \in Adhesions \ sauf : Vivante(a) =>
    /\ adhesion[a].email # e
    /\ ~MemeCni(adhesion[a].pieces, p) /\ ~MemeCarte(adhesion[a].pieces, p)
    /\ k # Aucun => adhesion[a].cle # k

\* The rows whose deletion is committed with the adhesion.
Effaces(r) == {e \in Emails : tient[e] = r}

InsererEtValider(r, a) ==
  LET f == req[r] IN
  /\ f.etape = "inserer" /\ adhesion[a].etat = "libre"
  /\ Unique(f.email, f.pieces, f.cle, {})
  /\ adhesion' = [adhesion EXCEPT ![a] =
       [etat |-> "vivante", email |-> f.email, pieces |-> f.pieces, cle |-> f.cle,
        origine |-> IF f.cle = Aucun THEN Aucun ELSE <<f.email, f.pieces>>]]
  /\ otp' = [e \in Emails |-> IF e \in Effaces(r) THEN SansCode ELSE otp[e]]
  /\ req' = [req EXCEPT ![r].etape = "repondu", ![r].rep = a]
  /\ Relacher(r)
  /\ UNCHANGED recus

Repondre(r) ==
  /\ req[r].etape = "repondu"
  /\ Finir(r)
  /\ UNCHANGED <<otp, tient, recus, adhesion>>

\* IntegrityError, a failure to send or to save a file, a crash: rollback.
Abandonner(r) ==
  /\ req[r].etape \notin {"repos", "repondu"}
  /\ Finir(r)
  /\ Relacher(r)
  /\ UNCHANGED <<otp, recus, adhesion>>

-----------------------------------------------------------------------------
(* Time, and administrators *)

Vieillir(e) ==
  /\ otp[e].code # Aucun /\ otp[e].age # "perime"
  /\ otp' = [otp EXCEPT ![e].age = IF @ = "recent" THEN "valable" ELSE "perime"]
  /\ UNCHANGED <<tient, recus, adhesion, req>>

\* admin_soft_delete: the key is freed with the identifiers.
Supprimer(a) ==
  /\ Vivante(a)
  /\ adhesion' = [adhesion EXCEPT ![a] = SansAdhesion("supprimee")]
  /\ UNCHANGED <<otp, tient, recus, req>>

\* admin_update_info: the check before and the index refuse the same values.
\* (mutant: neither is made)
CorrigerSansControle(a, e, p) ==
  /\ Vivante(a)
  /\ adhesion' = [adhesion EXCEPT ![a].email = e, ![a].pieces = p]
  /\ UNCHANGED <<otp, tient, recus, req>>
Corriger(a, e, p) ==
  /\ Vivante(a) /\ Unique(e, p, Aucun, {a})
  /\ adhesion' = [adhesion EXCEPT ![a].email = e, ![a].pieces = p]
  /\ UNCHANGED <<otp, tient, recus, req>>

Init ==
  /\ otp      = [e \in Emails |-> SansCode]
  /\ tient    = [e \in Emails |-> Aucun]
  /\ recus    = {}
  /\ adhesion = [a \in Adhesions |-> SansAdhesion("libre")]
  /\ req      = [r \in Requetes |-> Repos]

\* A guess is any code, drawn for this address, for another one or for nobody.
Avancer(r) ==
  \/ \E e \in Emails : DemanderCode(r, e) \/ \E c \in Codes : Verifier(r, e, c)
  \/ \E c \in Codes : EnvoyerCode(r, c)
  \/ \E p \in Formes, k \in Cles \cup {Aucun}, c \in Codes : Deposer(r, p, k, c)
  \/ \E a \in Adhesions : InsererEtValider(r, a)
  \/ ChargerCode(r) \/ EnregistrerCode(r) \/ ControlerCode(r) \/ CompterEchec(r)
  \/ LireCle(r) \/ EffacerCode(r) \/ ChercherConflit(r) \/ Repondre(r) \/ Abandonner(r)

Next ==
  \/ \E r \in Requetes : Avancer(r)
  \/ \E e \in Emails : Vieillir(e)
  \/ \E a \in Adhesions : Supprimer(a) \/ \E f \in Formes : Corriger(a, f[1], f[2])

Spec == Init /\ [][Next]_vars

-----------------------------------------------------------------------------
(* Properties *)

\* Types; and the counter never passes OTP_MAX_ATTEMPTS, though concurrent
\* requests write back attempts they read before each other.
TypeOK ==
  /\ otp \in [Emails -> [code : Codes \cup {Aucun}, essais : 0..MaxEssais, age : Ages]]
  /\ tient \in [Emails -> Requetes \cup {Aucun}]
  /\ recus \in SUBSET (Emails \X Codes)
  /\ adhesion \in [Adhesions ->
       [etat : {"libre", "vivante", "supprimee"}, email : Emails \cup {Aucun},
        pieces : Pieces \cup {Aucun}, cle : Cles \cup {Aucun}, origine : Payloads \cup {Aucun}]]
  /\ req \in [Requetes ->
       [etape : Etapes, email : Emails \cup {Aucun}, pieces : Pieces \cup {Aucun},
        cle : Cles \cup {Aucun}, code : Codes \cup {Aucun},
        lu : 0..MaxEssais \cup {Aucun}, rep : Adhesions \cup {Aucun}]]

\* Two adhesions that are not deleted never share an email, a CNI, a voter
\* card or a key,
\* whatever submissions and corrections race between the checks and the INSERT.
SansDoublon ==
  \A a, b \in Adhesions : Vivante(a) /\ Vivante(b) /\ a # b =>
    /\ adhesion[a].email # adhesion[b].email
    /\ ~MemeCni(adhesion[a].pieces, adhesion[b].pieces)
    /\ ~MemeCarte(adhesion[a].pieces, adhesion[b].pieces)
    /\ adhesion[a].cle = Aucun \/ adhesion[a].cle # adhesion[b].cle

\* Whoever is answered 200 is answered the adhesion made of his own form (it may
\* have been deleted since), also when the key was used before.
CleIdempotente ==
  \A r \in Requetes : LET q == req[r] IN
    q.etape = "repondu" =>
      adhesion[q.rep].origine \in {<<q.email, q.pieces>>, Aucun}

\* The docstring of verify_email_otp: the code stays valid if the creation fails.
\* It leaves the table only with an adhesion of its email in the same commit.
CodeParti ==
  [][\A e \in Emails : otp[e].code # Aucun /\ otp'[e].code = Aucun =>
       \E a \in Adhesions : /\ adhesion[a].etat = "libre"
                            /\ adhesion'[a].etat = "vivante" /\ adhesion'[a].email = e]_vars

\* An adhesion is inserted for an address only with a code that had reached it:
\* no interleaving of a resend, a verification and a deletion lets another one in.
EmailProuve ==
  [][\A a \in Adhesions : adhesion[a].etat = "libre" /\ adhesion'[a].etat = "vivante" =>
       \E r \in Requetes : <<adhesion'[a].email, req[r].code>> \in recus /\ req'[r].rep = a]_vars

-----------------------------------------------------------------------------
(* Depot implements RegistreAdhesions *)

Registre == INSTANCE RegistreAdhesions WITH
  dossier <- [a \in Adhesions |-> [etat |-> adhesion[a].etat, email |-> adhesion[a].email,
                                   pieces |-> adhesion[a].pieces, cle |-> adhesion[a].cle]],
  code    <- [e \in Emails |-> otp[e].code]

\* The requests, interleaved at every SELECT, flush and commit, failing at any of
\* them or repeated, look like a desk where a deposit is one step: identifiers
\* free, a code received, and the code gone with it (AdhesionService.create).
RaffineRegistre == Registre!Spec
=============================================================================
