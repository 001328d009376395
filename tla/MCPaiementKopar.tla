-------------------------- MODULE MCPaiementKopar --------------------------
(***************************************************************************)
(* Instances of PaiementKopar for TLC.                                     *)
(***************************************************************************)
EXTENDS PaiementKopar, TLC

CONSTANTS adh, m1, m2, ADH, COT, COTP

\* The adhesion fee, one month, and a period of two months starting with it.
MCLignes == {adh, m1, m2}
MCRefs   == {ADH, COT, COTP}
MCCouvre == ADH :> <<adh>> @@ COT :> <<m1>> @@ COTP :> <<m1, m2>>

\* Only the month and the period.
CotRefs   == {ADH, COTP}
CotCouvre == ADH :> <<adh>> @@ COTP :> <<m1, m2>>

\* Status changes of an order: paid at once, or after a failure, or after a status
\* the code does not know,
EvolutionsReprise ==
  {<<"new", "success">>, <<"new", "failed">>, <<"failed", "success">>,
   <<"new", "autre">>, <<"autre", "success">>}
\* ... and the few that matter to the interleavings of the handlers.
EvolutionsCourtes ==
  {<<"new", "success">>, <<"new", "canceled">>, <<"success", "refunded">>}
EvolutionsSucces == {<<"new", "success">>}

Symetrie == Permutations(Sessions) \cup Permutations(Ordres)
=============================================================================
