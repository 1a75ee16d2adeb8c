--------------------------- MODULE MCPublication ---------------------------
(***************************************************************************)
(* Model-checking instance of Publication.  The requests are alike, so     *)
(* they are symmetric; no liveness is checked.                             *)
(***************************************************************************)
EXTENDS Publication, TLC

MCSymmetry == Permutations(Tasks)

=============================================================================
