------------------------------ MODULE MCParser ------------------------------
(***************************************************************************)
(* Where typing starts, for TLC: from nothing, inside each statement and   *)
(* inside the expressions that need many tokens.                           *)
(***************************************************************************)
EXTENDS Parser

\* Single tokens, and operators and keywords together with what follows them,
\* so that a parser that stops before such a pair is seen to.
Typed ==
  {<<t>> : t \in
    {"x", "1", "-1", "1.1", "huge", "s", "/", "==", "OR", "AND", "=", "BETWEEN", "IN", "-", "*",
     "NOT", "(", ")", ".", ",", "[", "]", "{", "}", ":", "WHERE", "SORT", "DESC", "VALUES", "SET",
     "INDEX", "TYPE", "HASH"}}
  \cup {<<t, "x">> : t \in {"||", "&&", "=", ">", "+", ".", "!", "WHERE", "SORT"}}
  \cup {<<",", "1">>, <<"LIMIT", "1">>, <<"OFFSET", "1">>}

Starts ==
  {<<>>} \cup {<<verb>> : verb \in Verbs} \cup
  {<<"x", "BETWEEN", "x">>, <<"x", "IN", "(">>, <<"NOT", "x">>, <<"-", "x", "*", "(">>,
   <<"x", "OR", "x">>,
   <<"FIND", "x", "WHERE", "x">>, <<"FIND", "x", "SORT", "x">>, <<"FIND", "x", "LIMIT", "1">>,
   <<"UPDATE", "x", "SET", "x", "=", "x">>, <<"REMOVE", "x">>,
   <<"INSERT", "INTO", "x", "VALUES">>, <<"INSERT", "x", "VALUES", "(", "{", "x", ":">>,
   <<"CREATE", "INDEX", "x">>, <<"DROP", "INDEX", "x">>,
   <<"{", "x", ":", "1", ",">>, <<"{", "_id", ":">>, <<"{", "_id", ":", "1">>, <<"{", "s", ":", "[">>}
=============================================================================
