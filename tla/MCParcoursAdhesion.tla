------------------------- MODULE MCParcoursAdhesion -------------------------
(***************************************************************************)
(* Instances of ParcoursAdhesion for TLC.                                  *)
(***************************************************************************)
EXTENDS ParcoursAdhesion, TLC

Symetrie == Permutations(Adhesions) \cup Permutations(Comptes) \cup Permutations(Emails)
            \cup Permutations(Requetes)
=============================================================================
