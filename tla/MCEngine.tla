------------------------------- MODULE MCEngine -------------------------------
(***************************************************************************)
(* Instances of Engine for TLC: two tasks, two ids, two field values, and  *)
(* the filters and assignments below.                                      *)
(***************************************************************************)
EXTENDS Engine

CONSTANTS t1, t2, d1, d2, a, b

\* Each id has one task that inserts it, as when the server generates ids.
OwnIds == [t \in Tasks |-> IF t = t1 THEN {d1} ELSE {d2}]
\* Every task may insert every id, as when clients choose them.
SharedIds == [t \in Tasks |-> Ids]

All == [match |-> Docs, err |-> {}, keys |-> {}]
\* field == a: one key is looked up.
EqualsA == [match |-> {a}, err |-> {}, keys |-> {a}]
\* field <= b: every key up to b; it holds for a document without the field too.
UpToB == [match |-> Docs, err |-> {}, keys |-> {a, b}]
\* A comparison that fails on b, and holds for a.
FailsOnB == [match |-> {a}, err |-> {b}, keys |-> {}]

Set(v) == [value |-> v, outcome |-> "ok"]
\* SET id = ...: the first assignment fails.
SetId == [value |-> b, outcome |-> "error"]
\* SET field = b, id = ...: the second assignment fails.
SetThenId == [value |-> b, outcome |-> "partial"]

\* a is a String that parses as the Uuid b.
AParsesAsB == [v \in Values |-> b]

PlainFilters == {EqualsA, UpToB}
MixedFilters == {All, FailsOnB}
OneAssignment == {Set(b)}
ErrorAssignments == {Set(b), SetId}
MixedAssignments == {Set(b), SetThenId}
===============================================================================
