----------------------------- MODULE MCImpayes -----------------------------
(***************************************************************************)
(* Instances of Impayes for TLC: three months, the third is the present    *)
(* one, a fourth may be paid in advance; two unpaid months radiate.        *)
(***************************************************************************)
EXTENDS Impayes, TLC

\* Overdue; a first month never generated; a month missing; a recruit; up to date.
Departs ==
  {<<"payee", "echue", "en_attente", "absent">>, <<"absent", "echue", "en_attente", "absent">>,
   <<"echue", "absent", "en_attente", "payee">>, <<"echue", "echue", "absent", "payee">>}

Symetrie == Permutations(Membres)
=============================================================================
