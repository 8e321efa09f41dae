------------------------------ MODULE MCBackup ------------------------------
(* An instance of Backup for TLC. *)
EXTENDS Backup, TLC

\* Runs of the commands are interchangeable, and so are snapshot ids.
Symmetry == Permutations(Commands) \cup Permutations(SnapIds)
=============================================================================
