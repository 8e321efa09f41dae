------------------------------- MODULE MCQuery -------------------------------
(***************************************************************************)
(* Values for the runs of module Query.                                    *)
(***************************************************************************)
EXTENDS Query

I(k) == [t |-> "int", n |-> k]
F(k) == [t |-> "float", n |-> k]
S(k) == [t |-> "string", n |-> k]

MinusEight == -8

TwoIds == {S(1), S(2)}

\* An index on the id is empty, of whichever kind.
Kinds == [path |-> {"hash", "ordered"}, id |-> {"ordered"}]

\* 4 and 4.0, a string, and what arithmetic makes of them where Int is -8..7
\* and an f64 has the integers up to 4: 5, which is rounded to 4.0, 0.0 and -0.0.
MixedLiterals == {I(4), F(16), S(1)}
Numbers == {I(4)}
MixedValues == MixedLiterals \cup {I(5), F(0), F(-1), I(-8)}
MixedOperands == {I(1), I(4), I(0), I(-1), S(0)}
==============================================================================
