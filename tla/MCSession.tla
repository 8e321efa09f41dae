------------------------------ MODULE MCSession ------------------------------
(* Instances of Session for TLC. *)
EXTENDS Session, TLC

\* The tasks of the application are interchangeable.
Symmetry == Permutations(Callers)
===============================================================================
