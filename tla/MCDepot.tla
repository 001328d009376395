------------------------------ MODULE MCDepot ------------------------------
(***************************************************************************)
(* Instances of Depot for TLC.                                             *)
(***************************************************************************)
EXTENDS Depot, TLC

CONSTANTS e1, e2, n1, n2, v1

\* Two forms share the voter card, two have none; each other pair shares the
\* email, the CNI or nothing.
QuatreFormes == {<<e1, <<n1, v1>>>>, <<e2, <<n2, v1>>>>,
                 <<e1, <<n2, Aucun>>>>, <<e2, <<n1, Aucun>>>>}

\* Exchanging both the emails and the CNIs exchanges the forms.
Echange  == (e1 :> e2) @@ (e2 :> e1) @@ (n1 :> n2) @@ (n2 :> n1)
Symetrie == {Echange} \cup Permutations(Requetes)
            \cup Permutations(Adhesions) \cup Permutations(Codes)
=============================================================================
