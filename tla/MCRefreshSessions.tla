------------------------- MODULE MCRefreshSessions -------------------------
(***************************************************************************)
(* Instances of RefreshSessions for TLC.                                   *)
(***************************************************************************)
EXTENDS RefreshSessions, TLC

\* Requests are interchangeable, and so are tokens.
Symetrie == Permutations(Requetes) \cup Permutations(Jetons)
=============================================================================
