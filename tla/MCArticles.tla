----------------------------- MODULE MCArticles -----------------------------
(***************************************************************************)
(* Instances of Articles for TLC.                                          *)
(***************************************************************************)
EXTENDS Articles, TLC

Symetrie == Permutations(Requetes) \cup Permutations(Likes) \cup Permutations(Commentaires)
=============================================================================
