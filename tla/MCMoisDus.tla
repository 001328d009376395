----------------------------- MODULE MCMoisDus -----------------------------
(***************************************************************************)
(* Instance of MoisDus for TLC: two months of two days, a member validated *)
(* on the first day of the first.                                          *)
(***************************************************************************)
EXTENDS MoisDus, TLC

MCSeuil == "jour_1" :> 1

Symetrie == Permutations(Sessions)
=============================================================================
