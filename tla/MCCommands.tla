------------------------------ MODULE MCCommands ------------------------------
(***************************************************************************)
(* Model-checking instances of Commands: a timeout of two, a skew of one,  *)
(* and clocks that agree or differ by one or two either way.               *)
(***************************************************************************)
EXTENDS Commands

MCOffsets == {-2, -1, 0, 1, 2}

=============================================================================
