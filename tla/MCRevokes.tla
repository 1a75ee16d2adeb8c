------------------------------- MODULE MCRevokes -------------------------------
(***************************************************************************)
(* Model-checking instances of Revokes: two sends before the revoke is     *)
(* given up are enough for a task to act on a count that is out of date.   *)
(***************************************************************************)
EXTENDS Revokes

=============================================================================
