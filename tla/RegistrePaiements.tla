------------------------- MODULE RegistrePaiements -------------------------
(***************************************************************************)
(* What the payment subsystem promises about one member's dues, without    *)
(* sessions, locks, notifications or retries: an order covers rows, and    *)
(* recording it as paid settles all of them in one step.  Only an undoing   *)
(* takes a payment back.                                                   *)
(***************************************************************************)
EXTENDS Naturals

CONSTANTS Ordres, Lignes

VARIABLES
  objet,     \* the rows an order pays for, {} before it is created
  statut,    \* how its transaction stands
  payees,    \* the rows recorded as paid
  annulees,  \* the rows whose payment was undone, and not made again since
  courriels  \* confirmations of each order since its rows are all paid

vars == <<objet, statut, payees, annulees, courriels>>

Init ==
  /\ objet     = [o \in Ordres |-> {}]
  /\ statut    = [o \in Ordres |-> "aucune"]
  /\ payees    = {}
  /\ annulees  = {}
  /\ courriels = [o \in Ordres |-> 0]

\* A member asks for an order; the transaction is recorded or never is.
Commander(o) ==
  /\ objet[o] = {}
  /\ \E S \in SUBSET Lignes : S # {} /\ objet' = [objet EXCEPT ![o] = S]
  /\ UNCHANGED <<statut, payees, annulees, courriels>>

Ouvrir(o) ==
  /\ objet[o] # {} /\ statut[o] = "aucune"
  /\ statut' = [statut EXCEPT ![o] = "ouverte"]
  /\ UNCHANGED <<objet, payees, annulees, courriels>>

\* The order is paid: everything it covers is, whatever it was before, but for
\* rows undone meanwhile, which may stay undone.  If they are all paid now, the
\* member may be told, once.
Encaisser(o) ==
  /\ statut[o] # "aucune"
  /\ statut' = [statut EXCEPT ![o] = "reglee"]
  /\ \E A \in SUBSET annulees :
       /\ annulees \ A \subseteq objet[o]
       /\ annulees' = A
       /\ payees'   = payees \cup (objet[o] \ A)
  /\ \/ UNCHANGED courriels
     \/ /\ courriels[o] = 0 /\ objet[o] \subseteq payees'
        /\ courriels' = [courriels EXCEPT ![o] = 1]
  /\ UNCHANGED objet

\* Without payment: a failure never replaces a success.
Echouer(o) ==
  /\ statut[o] \notin {"aucune", "reglee"}
  /\ statut' = [statut EXCEPT ![o] = "echouee"]
  /\ UNCHANGED <<objet, payees, annulees, courriels>>

\* A refund leaves the rows to an administrator.
Rembourser(o) ==
  /\ statut[o] # "aucune"
  /\ statut' = [statut EXCEPT ![o] = "remboursee"]
  /\ UNCHANGED <<objet, payees, annulees, courriels>>

\* An administrator records payments received by hand.
Saisir ==
  /\ \E S \in SUBSET Lignes : payees' = payees \cup S /\ annulees' = annulees \ S
  /\ UNCHANGED <<objet, statut, courriels>>

\* The payment of a row is undone: its orders may be confirmed again.
Annuler(l) ==
  /\ l \in payees
  /\ payees'    = payees \ {l}
  /\ annulees'  = annulees \cup {l}
  /\ courriels' = [o \in Ordres |-> IF l \in objet[o] THEN 0 ELSE courriels[o]]
  /\ UNCHANGED <<objet, statut>>

Next ==
  \/ Saisir
  \/ \E l \in Lignes : Annuler(l)
  \/ \E o \in Ordres :
       \/ Commander(o) \/ Ouvrir(o) \/ Encaisser(o)
       \/ Echouer(o) \/ Rembourser(o)

Spec == Init /\ [][Next]_vars
=============================================================================
