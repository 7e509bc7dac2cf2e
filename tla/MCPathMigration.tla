-------------------------- MODULE MCPathMigration --------------------------
(***************************************************************************)
(* PathMigration with a vault whose name holds an underscore, a directory  *)
(* the underscore matches and one it does not (my_vault, my-vault, notes). *)
(***************************************************************************)
EXTENDS PathMigration

CONSTANTS my_vault, my_hyphen_vault, notes

MCDirs == {my_vault, my_hyphen_vault, notes}

MCSimilar ==
    [d \in MCDirs |-> IF d = my_vault THEN {my_vault, my_hyphen_vault} ELSE {d}]

=============================================================================
