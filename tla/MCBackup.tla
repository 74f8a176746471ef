-------------------------------- MODULE MCBackup --------------------------------
(* The commands are interchangeable. *)
EXTENDS Backup, TLC

Symmetry == Permutations(Runs)

================================================================================
