------------------------------ MODULE MCRecords ------------------------------
(***************************************************************************)
(* Instances of Records for TLC.                                           *)
(***************************************************************************)
EXTENDS Records

MCSites == {1, 2}
MCSites3 == {1, 2, 3}
=============================================================================
