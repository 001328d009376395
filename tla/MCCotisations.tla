--------------------------- MODULE MCCotisations ---------------------------
(***************************************************************************)
(* Instances of Cotisations for TLC.                                       *)
(***************************************************************************)
EXTENDS Cotisations, TLC

\* The member's pages create the current month; he pays the previous month,
\* the current one, or both at once.
TousParcours ==
  {<<"creer", <<"courant">>>>, <<"payer", <<"precedent">>>>,
   <<"payer", <<"courant">>>>, <<"payer", <<"precedent", "courant">>>>}
\* Nobody touches the current month.
ParcoursPrecedent == {<<"payer", <<"precedent">>>>}

Symetrie == Permutations(Membres) \cup Permutations(Sessions)
=============================================================================
