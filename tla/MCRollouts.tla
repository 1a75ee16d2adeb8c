------------------------------ MODULE MCRollouts ------------------------------
(***************************************************************************)
(* Model-checking instances of Rollouts.  Either the second bundle is      *)
(* newer than the first, or both are of one version.                       *)
(***************************************************************************)
EXTENDS Rollouts

MCVersions == {[b \in Bundles |-> b], [b \in Bundles |-> 1]}

=============================================================================
