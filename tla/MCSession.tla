------------------------------ MODULE MCSession ------------------------------
(***************************************************************************)
(* Session with one permission request, two identities for turns, and      *)
(* small limits.                                                           *)
(***************************************************************************)
EXTENDS Session

CONSTANTS p1

MCPerms == {p1}
MCTurns == {1, 2}

=============================================================================
