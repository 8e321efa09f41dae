------------------------------ MODULE MCStudio ------------------------------
(* An instance of Studio for TLC. *)
EXTENDS Studio, TLC

CONSTANTS d1, d2, x1

\* The documents of the sample data, in the order of their statements, and an index.
SampleDocs == <<d1, d2>>
SampleIndexes == <<x1>>

\* Clients are interchangeable, and so are windows.
Symmetry == Permutations(Clients) \cup Permutations(Windows)
=============================================================================
