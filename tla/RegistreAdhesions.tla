------------------------- MODULE RegistreAdhesions -------------------------
(***************************************************************************)
(* What the desk of adhesions promises, without requests, locks, retries   *)
(* or failures: depositing an adhesion is one step, which checks that the  *)
(* identifiers are free, that the address received a code, and takes the   *)
(* code away with it.                                                      *)
(***************************************************************************)
CONSTANTS Emails, Cnis, Cartes, Cles, Codes, Adhesions, Aucun

VARIABLES
  dossier, \* the adhesions
  code,    \* the code an email may use, or Aucun
  recus    \* <<email, code>>: codes that reached an address

vars == <<dossier, code, recus>>

Pieces == Cnis \X (Cartes \cup {Aucun})
Dossier(etat, e, p, k) == [etat |-> etat, email |-> e, pieces |-> p, cle |-> k]

\* No other live adhesion has the email, the CNI, the voter card or the key.
Libre(e, p, k, sauf) ==
  \A a \in Adhesions \ sauf : dossier[a].etat = "vivante" =>
    /\ dossier[a].email # e
    /\ dossier[a].pieces[1] # p[1]
    /\ p[2] # Aucun => dossier[a].pieces[2] # p[2]
    /\ k # Aucun => dossier[a].cle # k

Init ==
  /\ dossier = [a \in Adhesions |-> Dossier("libre", Aucun, Aucun, Aucun)]
  /\ code    = [e \in Emails |-> Aucun]
  /\ recus   = {}

\* A code leaves for an address; no two are the same.
Envoyer(e, c) ==
  /\ \A p \in recus : p[2] # c
  /\ recus' = recus \cup {<<e, c>>}
  /\ UNCHANGED <<dossier, code>>

\* An email may use a code it received, perhaps not the last one.
Admettre(e, c) ==
  /\ <<e, c>> \in recus
  /\ code' = [code EXCEPT ![e] = c]
  /\ UNCHANGED <<dossier, recus>>

\* The code leaves with the adhesion; it may have left with an earlier one, for
\* which it was accepted at the same time.
Deposer(a) ==
  /\ dossier[a].etat = "libre"
  /\ \E e \in Emails, p \in Pieces, k \in Cles \cup {Aucun} :
       /\ Libre(e, p, k, {})
       /\ \E c \in Codes : <<e, c>> \in recus
       /\ dossier' = [dossier EXCEPT ![a] = Dossier("vivante", e, p, k)]
       /\ code' \in {code, [code EXCEPT ![e] = Aucun]}
  /\ UNCHANGED recus

\* The administrators.
Supprimer(a) ==
  /\ dossier[a].etat = "vivante"
  /\ dossier' = [dossier EXCEPT ![a] = Dossier("supprimee", Aucun, Aucun, Aucun)]
  /\ UNCHANGED <<code, recus>>

Corriger(a) ==
  /\ dossier[a].etat = "vivante"
  /\ \E e \in Emails, p \in Pieces :
       /\ Libre(e, p, Aucun, {a})
       /\ dossier' = [dossier EXCEPT ![a] = Dossier("vivante", e, p, dossier[a].cle)]
  /\ UNCHANGED <<code, recus>>

Next ==
  \/ \E e \in Emails, c \in Codes : Envoyer(e, c) \/ Admettre(e, c)
  \/ \E a \in Adhesions : Deposer(a) \/ Supprimer(a) \/ Corriger(a)

Spec == Init /\ [][Next]_vars
=============================================================================
