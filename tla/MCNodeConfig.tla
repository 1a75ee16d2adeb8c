---------------------------- MODULE MCNodeConfig ----------------------------
(***************************************************************************)
(* Model-checking instance of NodeConfig.  Versions 1 and 2 differ in a    *)
(* live key; 3 changes a restart-only key to a value a start dies of; 4    *)
(* does not load; 5 is version 1 with a retired harness.  The live keys of *)
(* 2 cannot be laid over another version.                                  *)
(***************************************************************************)
EXTENDS NodeConfig

MCMigrate == [f \in Files |-> IF f = 5 THEN 1 ELSE f]
MCRestartKeys == [f \in Files |-> CASE f = 3 -> 2 [] f = 5 -> 3 [] OTHER -> 1]

=============================================================================
