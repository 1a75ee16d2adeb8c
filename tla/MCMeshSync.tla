------------------------------ MODULE MCMeshSync ------------------------------
(***************************************************************************)
(* Instances of MeshSync for TLC.                                          *)
(***************************************************************************)
EXTENDS MeshSync
=============================================================================
