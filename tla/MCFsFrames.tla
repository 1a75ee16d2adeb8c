------------------------------ MODULE MCFsFrames ------------------------------
(***************************************************************************)
(* Instances of FsFrames for TLC.                                          *)
(***************************************************************************)
EXTENDS FsFrames
=============================================================================
