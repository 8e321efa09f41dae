------------------------------- MODULE Parser -------------------------------
(***************************************************************************)
(* The NQL parser (nova-query, parser.rs) and the statements the client's  *)
(* CollectionHandle builds for it (nova-client, collection.rs).            *)
(*                                                                         *)
(* Tokens are those of module Lexer, which reads the text that is parsed.  *)
(* A tree is a tuple: a label, then its children.  The code in the first   *)
(* half is compared with the grammar in the second.                        *)
(***************************************************************************)
EXTENDS Lexer, FiniteSets

SE == INSTANCE SequencesExt

CONSTANTS
  \* The runs of tokens that may be typed at once.
  Phrases,
  \* The texts typing starts from, and how many phrases are added at most.
  Openings, MaxTyped

VARIABLES
  \* The text so far, as a sequence of tokens without the final Eof.
  tokens,
  \* The phrases that may still be typed.
  budget

vars == <<tokens, budget>>

Names == {"x"}
Strings == {"s", "_id", "id", "another string"}
Literals == {"NULL", "TRUE", "FALSE", "1", "-1", "1.1"} \cup Strings

\* The binary operators of each level that loops, and the level its operands
\* are parsed at.
Ops == [or |-> {"OR", "||"}, and |-> {"AND", "&&"},
        add |-> {"+", "-"}, mul |-> {"*", "/", "%"}]
Operand == [or |-> "and", and |-> "cmp", add |-> "mul", mul |-> "unary"]
CmpOps == {"==", "=", "!=", ">", ">=", "<", "<="}

\* BinaryOp and UnaryOp: the label of a node for a token.
Label(op) == CASE op \in {"OR", "||"} -> "Or" [] op \in {"AND", "&&"} -> "And"
               [] op \in {"==", "="} -> "Eq" [] op \in {"NOT", "!"} -> "Not"
               [] OTHER -> op

None == <<"None">>

-----------------------------------------------------------------------------
(* Results and the cursor.  A parse that fails keeps the position of the   *)
(* token it cannot use.                                                    *)

Ok(p, t) == [ok |-> TRUE, pos |-> p, tree |-> t]
Fail(p) == [ok |-> FALSE, pos |-> p, tree |-> None]

\* The ? operator: go on with the result, or return the error.
Then(r, Continue(_)) == IF r.ok THEN Continue(r) ELSE r

expect(kinds, ts, p) ==
  IF Peek(ts, p) \in kinds THEN Ok(p + 1, <<Peek(ts, p)>>) ELSE Fail(p)

expect_identifier(ts, p) == expect(Names, ts, p)

parse_usize(ts, p) == expect({"1"}, ts, p)

-----------------------------------------------------------------------------
(* Expressions and values.                                                 *)

RECURSIVE parse(_, _, _), PathRest(_, _), ChainRest(_, _, _), Items(_, _, _, _)

PathRest(ts, r) ==
  IF Peek(ts, r.pos) = "."
    THEN LET sub == expect_identifier(ts, r.pos + 1)
         IN IF sub.ok THEN PathRest(ts, Ok(sub.pos, Append(r.tree, sub.tree))) ELSE sub
    ELSE r

parse_field_path(ts, p) ==
  LET name == expect_identifier(ts, p)
  IN IF name.ok THEN PathRest(ts, Ok(name.pos, <<"Field", name.tree>>)) ELSE name

\* Mutant: the operand on the right takes the rest of the chain.
ChainRest_Right(level, ts, left) ==
  IF left.ok /\ Peek(ts, left.pos) \in Ops[level]
    THEN LET right == parse(level, ts, left.pos + 1)
         IN IF right.ok
              THEN Ok(right.pos, <<Label(Peek(ts, left.pos)), left.tree, right.tree>>)
              ELSE right
    ELSE left

\* The while loop of parse_or, parse_and, parse_additive and
\* parse_multiplicative.
ChainRest(level, ts, left) ==
  IF left.ok /\ Peek(ts, left.pos) \in Ops[level]
    THEN LET right == parse(Operand[level], ts, left.pos + 1)
         IN IF right.ok
              THEN ChainRest(level, ts,
                     Ok(right.pos, <<Label(Peek(ts, left.pos)), left.tree, right.tree>>))
              ELSE right
    ELSE left

\* kind ("," kind)*, after the elements in acc.
Items(kind, ts, p, acc) ==
  LET item == parse(kind, ts, p)
  IN IF ~item.ok THEN item
     ELSE IF Peek(ts, item.pos) = ","
       THEN Items(kind, ts, item.pos + 1, Append(acc, item.tree))
       ELSE Ok(item.pos, Append(acc, item.tree))

\* A list that may be empty, up to its closing token.
Enclosed(kind, close, ts, p) ==
  IF Peek(ts, p) = close THEN Ok(p + 1, <<>>)
  ELSE Then(Items(kind, ts, p, <<>>), LAMBDA l :
         Then(expect({close}, ts, l.pos), LAMBDA c : Ok(c.pos, l.tree)))

parse_comparison(ts, p) ==
  Then(parse("add", ts, p), LAMBDA left :
    LET op == Peek(ts, left.pos)
        next == left.pos + 1
    IN CASE op \in CmpOps ->
              Then(parse("add", ts, next), LAMBDA right :
                Ok(right.pos, <<Label(op), left.tree, right.tree>>))
         [] op = "BETWEEN" ->
              Then(parse("add", ts, next), LAMBDA min :
                Then(expect({"AND"}, ts, min.pos), LAMBDA a :
                  Then(parse("add", ts, a.pos), LAMBDA max :
                    Ok(max.pos, <<"Between", left.tree, min.tree, max.tree>>))))
         [] op = "IN" ->
              Then(expect({"("}, ts, next), LAMBDA o :
                Then(Enclosed("or", ")", ts, o.pos), LAMBDA list :
                  Ok(list.pos, <<"In", left.tree>> \o list.tree)))
         [] OTHER -> left)

parse_unary(ts, p) ==
  IF Peek(ts, p) \in {"NOT", "!", "-"}
    THEN Then(parse("unary", ts, p + 1), LAMBDA e : Ok(e.pos, <<Label(Peek(ts, p)), e.tree>>))
    ELSE parse("primary", ts, p)

parse_primary(ts, p) ==
  LET t == Peek(ts, p)
  IN CASE t \in Names -> parse_field_path(ts, p)
       [] t = "(" -> Then(parse("or", ts, p + 1), LAMBDA e :
                       Then(expect({")"}, ts, e.pos), LAMBDA c : Ok(c.pos, e.tree)))
       [] OTHER -> parse("value", ts, p)

\* Mutant: the first one stays.
MapOf_First(entries) ==
  {entries[k] : k \in {k \in DOMAIN entries :
     \A m \in DOMAIN entries : m < k => entries[m][1] # entries[k][1]}}

\* map.insert: of several values for a key the last one stays.
MapOf(entries) ==
  {entries[k] : k \in {k \in DOMAIN entries :
     \A m \in DOMAIN entries : m > k => entries[m][1] # entries[k][1]}}

parse_value_literal(ts, p) ==
  LET t == Peek(ts, p)
  IN CASE t \in Literals -> Ok(p + 1, <<t>>)
       [] t = "[" -> Then(Enclosed("value", "]", ts, p + 1), LAMBDA l :
                       Ok(l.pos, <<"Array">> \o l.tree))
       [] t = "{" -> Then(Enclosed("entry", "}", ts, p + 1), LAMBDA l :
                       Ok(l.pos, <<"Object", MapOf(l.tree)>>))
       [] OTHER -> Fail(p)

\* key ":" value of an object.
parse_entry(ts, p) ==
  Then(expect(Names \cup Strings, ts, p), LAMBDA key :
    Then(expect({":"}, ts, key.pos), LAMBDA c :
      Then(parse("value", ts, c.pos), LAMBDA v : Ok(v.pos, <<key.tree, v.tree>>))))

\* field "=" expr of SET.
parse_assignment(ts, p) ==
  Then(parse_field_path(ts, p), LAMBDA field :
    Then(expect({"=", "=="}, ts, field.pos), LAMBDA e :
      Then(parse("or", ts, e.pos), LAMBDA expr :
        Ok(expr.pos, <<"Assign", field.tree, expr.tree>>))))

parse(kind, ts, p) ==
  CASE kind \in DOMAIN Ops -> ChainRest(kind, ts, parse(Operand[kind], ts, p))
    [] kind = "cmp" -> parse_comparison(ts, p)
    [] kind = "unary" -> parse_unary(ts, p)
    [] kind = "primary" -> parse_primary(ts, p)
    [] kind = "value" -> parse_value_literal(ts, p)
    [] kind = "entry" -> parse_entry(ts, p)
    [] kind = "assign" -> parse_assignment(ts, p)

-----------------------------------------------------------------------------
(* Statements.                                                             *)

parse_where(ts, p) == IF Peek(ts, p) = "WHERE" THEN parse("or", ts, p + 1) ELSE Ok(p, None)

parse_sort(ts, p) ==
  IF Peek(ts, p) # "SORT" THEN Ok(p, None)
  ELSE Then(parse_field_path(ts, p + 1), LAMBDA field :
         LET direction == Peek(ts, field.pos)
         IN IF direction \in {"ASC", "DESC"}
              THEN Ok(field.pos + 1, <<"Sort", field.tree, <<direction>>>>)
              ELSE Ok(field.pos, <<"Sort", field.tree, <<"ASC">>>>))

parse_bound(keyword, ts, p) ==
  IF Peek(ts, p) = keyword THEN parse_usize(ts, p + 1) ELSE Ok(p, None)

parse_find(ts) ==
  Then(expect_identifier(ts, 2), LAMBDA c :
    Then(parse_where(ts, c.pos), LAMBDA f :
      Then(parse_sort(ts, f.pos), LAMBDA s :
        Then(parse_bound("LIMIT", ts, s.pos), LAMBDA l :
          Then(parse_bound("OFFSET", ts, l.pos), LAMBDA o :
            Ok(o.pos, <<"FIND", c.tree, f.tree, s.tree, l.tree, o.tree>>))))))

\* What becomes of the key _id is in Query's NewDocs.
parse_insert(ts) ==
  Then(expect_identifier(ts, IF Peek(ts, 2) = "INTO" THEN 3 ELSE 2), LAMBDA c :
    Then(expect({"VALUES"}, ts, c.pos), LAMBDA v :
      LET has_paren == Peek(ts, v.pos) = "("
      IN Then(parse("value", ts, IF has_paren THEN v.pos + 1 ELSE v.pos), LAMBDA d :
           Then(IF has_paren THEN expect({")"}, ts, d.pos) ELSE d, LAMBDA e :
             IF d.tree[1] = "Object" THEN Ok(e.pos, <<"INSERT", c.tree, d.tree>>)
                                     ELSE Fail(e.pos)))))

parse_update(ts) ==
  Then(expect_identifier(ts, 2), LAMBDA c :
    Then(expect({"SET"}, ts, c.pos), LAMBDA s :
      Then(Items("assign", ts, s.pos, <<>>), LAMBDA a :
        Then(parse_where(ts, a.pos), LAMBDA f :
          Ok(f.pos, <<"UPDATE", c.tree, a.tree, f.tree>>)))))

\* parse_remove, parse_watch, parse_count and parse_exists.
parse_filtered(ts) ==
  Then(expect_identifier(ts, 2), LAMBDA c :
    Then(parse_where(ts, c.pos), LAMBDA f : Ok(f.pos, <<ts[1], c.tree, f.tree>>)))

parse_index_target(ts) ==
  Then(expect({"INDEX"}, ts, 2), LAMBDA i :
    Then(expect_identifier(ts, i.pos), LAMBDA c :
      Then(IF Peek(ts, c.pos) = "." THEN parse_field_path(ts, c.pos + 1)
           ELSE Then(expect_identifier(ts, c.pos), LAMBDA n : Ok(n.pos, <<"Field", n.tree>>)),
           LAMBDA f : Ok(f.pos, <<ts[1], c.tree, f.tree>>))))

parse_create_index(ts) ==
  Then(parse_index_target(ts), LAMBDA t :
    IF Peek(ts, t.pos) = "TYPE"
      THEN Then(expect({"HASH", "ORDERED"}, ts, t.pos + 1), LAMBDA k :
             Ok(k.pos, Append(t.tree, k.tree)))
      ELSE Ok(t.pos, Append(t.tree, <<"ORDERED">>)))

parse_drop_index(ts) == parse_index_target(ts)

Filtered == {"REMOVE", "WATCH", "COUNT", "EXISTS"}
Transaction == {"BEGIN", "COMMIT", "ROLLBACK"}
Verbs == {"FIND", "INSERT", "UPDATE", "CREATE", "DROP"} \cup Filtered \cup Transaction

\* It returns at the end of a statement, wherever the end of the text is.
parse_statement(ts) ==
  LET verb == Peek(ts, 1)
  IN CASE verb = "FIND" -> parse_find(ts)
       [] verb = "INSERT" -> parse_insert(ts)
       [] verb = "UPDATE" -> parse_update(ts)
       [] verb \in Filtered -> parse_filtered(ts)
       [] verb = "CREATE" -> parse_create_index(ts)
       [] verb = "DROP" -> parse_drop_index(ts)
       [] verb \in Transaction -> Ok(2, <<verb>>)
       [] OTHER -> Fail(1)

-----------------------------------------------------------------------------
(* The client's CollectionHandle: the text of each method for an argument  *)
(* f, the payloads it takes for an answer, and those the server sends.     *)
(* The rest of what the caller hands over is a record v: the characters of *)
(* an id, how the values of a document print, and what follows the last    *)
(* token of an argument.                                                   *)

FilterMethods == {"find", "update", "remove", "count", "exists", "watch"}
PathMethods == {"create_index", "drop_index"}
PlainMethods == {"find_all", "find_by_id", "count_all", "watch_all"}

\* A token of a document as serde_json prints it.  "odd" is a float that takes an
\* exponent (1e16) and a string with a control character (\u0001, \b).
Json(token, odd) ==
  CASE token = "1.1" /\ odd -> <<"1", "x">>
    [] token = "s" /\ odd -> <<"\"", "\\", "x", "\"">>
    [] token = "_id" -> <<"\"", "_id", "\"">>
    [] OTHER -> Chars(token)

Words(ws) == SE!FlattenSeq([k \in DOMAIN ws |-> <<ws[k], " ">>])

\* The id stands between quotes as it is.
Text(m, f, v) ==
  LET arg == Spell(f, 1) \o v.remark
      json == SE!FlattenSeq([k \in DOMAIN f |-> Json(f[k], v.odd)])
      id_part == <<"\"", "_id", "\"", ":", " ", "\"">> \o v.id \o <<"\"">>
      fields_inner == IF json = <<"{", "}">> THEN <<"{">> ELSE SE!Front(json) \o <<",", " ">>
  IN CASE m = "insert" -> Words(<<"INSERT", "INTO", "x", "VALUES">>)
                            \o <<"(">> \o fields_inner \o id_part \o <<"}", ")">>
       [] m = "find" -> Words(<<"FIND", "x", "WHERE">>) \o arg
       [] m = "find_all" -> <<"FIND", " ", "x">>
       [] m = "find_by_id" ->
            Words(<<"FIND", "x", "WHERE", "x">>) \o <<"=", "=", " ", "\"">> \o v.id \o <<"\"">>
       [] m = "update" -> Words(<<"UPDATE", "x", "SET", "x", "=">>) \o arg
                            \o <<" ", "WHERE", " ">> \o arg
       [] m = "remove" -> Words(<<"REMOVE", "x", "WHERE">>) \o arg
       [] m = "count" -> Words(<<"COUNT", "x", "WHERE">>) \o arg
       [] m = "count_all" -> <<"COUNT", " ", "x">>
       [] m = "exists" -> Words(<<"EXISTS", "x", "WHERE">>) \o arg
       [] m = "create_index" -> Words(<<"CREATE", "INDEX">>) \o <<"x", ".">> \o arg
                                  \o <<" ", "TYPE", " ", "HASH">>
       [] m = "drop_index" -> Words(<<"DROP", "INDEX">>) \o <<"x", ".">> \o arg
       [] m = "watch" -> Words(<<"WATCH", "x", "WHERE">>) \o arg
       [] m = "watch_all" -> <<"WATCH", " ", "x">>

Accepts(m) ==
  CASE m = "insert" -> {"Records", "Success"}
    [] m \in {"find", "find_all", "find_by_id"} -> {"Records"}
    [] m \in {"update", "remove", "create_index", "drop_index"} -> {"Success"}
    [] m \in {"count", "count_all"} -> {"Count"}
    [] m = "exists" -> {"Exists"}
    [] m \in {"watch", "watch_all"} -> {"WatchAck"}

Payload(verb) ==
  CASE verb \in {"FIND", "INSERT"} -> "Records"
    [] verb = "COUNT" -> "Count"
    [] verb = "EXISTS" -> "Exists"
    [] verb = "WATCH" -> "WatchAck"
    [] OTHER -> "Success"

-----------------------------------------------------------------------------
(* The grammar: the trees of the tokens from i to j as a kind of phrase.   *)

RECURSIVE Derives(_, _, _, _), DerivesItems(_, _, _, _)

DerivesItems(kind, ts, i, j) ==
  {<<e>> : e \in Derives(kind, ts, i, j)} \cup
  UNION {{<<e>> \o rest : e \in Derives(kind, ts, i, k - 1),
                          rest \in DerivesItems(kind, ts, k + 1, j)} :
         k \in {k \in i..j : ts[k] = ","}}

DerivesList(kind, ts, i, j) ==
  IF i > j THEN {<<>>} ELSE DerivesItems(kind, ts, i, j)

DerivesPath(ts, i, j) ==
  IF /\ (j - i) % 2 = 0
     /\ \A k \in i..j : ts[k] \in (IF (k - i) % 2 = 0 THEN Names ELSE {"."})
    THEN {<<"Field">> \o [n \in 1..((j - i) \div 2 + 1) |-> <<ts[i + 2 * (n - 1)]>>]}
    ELSE {}

\* The phrases l op r with an operator of ops.
DerivesBinary(ops, leftKind, rightKind, ts, i, j) ==
  UNION {{<<Label(ts[k]), l, r>> : l \in Derives(leftKind, ts, i, k - 1),
                                   r \in Derives(rightKind, ts, k + 1, j)} :
         k \in {k \in i..j : ts[k] \in ops}}

DerivesBetween(ts, i, j) ==
  UNION {{<<"Between", e, min, max>> : e \in Derives("add", ts, i, k - 1),
            min \in Derives("add", ts, k + 1, m - 1), max \in Derives("add", ts, m + 1, j)} :
         <<k, m>> \in {km \in (i..j) \X (i..j) :
                         km[1] < km[2] /\ ts[km[1]] = "BETWEEN" /\ ts[km[2]] = "AND"}}

DerivesIn(ts, i, j) ==
  UNION {{<<"In", e>> \o list : e \in Derives("add", ts, i, k - 1),
                                list \in DerivesList("or", ts, k + 2, j - 1)} :
         k \in {k \in i..(j - 2) : ts[k] = "IN" /\ ts[k + 1] = "(" /\ ts[j] = ")"}}

Wrapped(open, close, ts, i, j) == i < j /\ ts[i] = open /\ ts[j] = close

Derives(kind, ts, i, j) ==
  IF i > j THEN {}
  ELSE
  CASE kind \in DOMAIN Ops ->
         Derives(Operand[kind], ts, i, j) \cup DerivesBinary(Ops[kind], kind, Operand[kind], ts, i, j)
    [] kind = "cmp" ->
         Derives("add", ts, i, j) \cup DerivesBinary(CmpOps, "add", "add", ts, i, j)
           \cup DerivesBetween(ts, i, j) \cup DerivesIn(ts, i, j)
    [] kind = "unary" ->
         Derives("primary", ts, i, j) \cup
         (IF ts[i] \in {"NOT", "!", "-"}
            THEN {<<Label(ts[i]), e>> : e \in Derives("unary", ts, i + 1, j)} ELSE {})
    [] kind = "primary" ->
         DerivesPath(ts, i, j) \cup Derives("value", ts, i, j) \cup
         (IF Wrapped("(", ")", ts, i, j) THEN Derives("or", ts, i + 1, j - 1) ELSE {})
    [] kind = "value" ->
         (IF i = j /\ ts[i] \in Literals THEN {<<ts[i]>>} ELSE {}) \cup
         (IF Wrapped("[", "]", ts, i, j)
            THEN {<<"Array">> \o l : l \in DerivesList("value", ts, i + 1, j - 1)} ELSE {}) \cup
         (IF Wrapped("{", "}", ts, i, j)
            THEN {<<"Object", MapOf(l)>> : l \in DerivesList("entry", ts, i + 1, j - 1)} ELSE {})
    [] kind = "entry" ->
         IF i < j /\ ts[i] \in Names \cup Strings /\ ts[i + 1] = ":"
           THEN {<<<<ts[i]>>, v>> : v \in Derives("value", ts, i + 2, j)} ELSE {}
    [] kind = "assign" ->
         UNION {{<<"Assign", f, e>> : f \in DerivesPath(ts, i, k - 1),
                                      e \in Derives("or", ts, k + 1, j)} :
                k \in {k \in (i + 1)..j : ts[k] \in {"=", "=="}}}
    [] kind = "sort" ->
         {<<"Sort", f, <<"ASC">>>> : f \in DerivesPath(ts, i, j)} \cup
         (IF ts[j] \in {"ASC", "DESC"}
            THEN {<<"Sort", f, <<ts[j]>>>> : f \in DerivesPath(ts, i, j - 1)} ELSE {})
    [] kind = "usize" -> IF i = j /\ ts[i] = "1" THEN {<<"1">>} ELSE {}

\* A clause that may be absent.
Clause(keyword, kind, ts, i, j) ==
  IF i > j THEN {None}
  ELSE IF ts[i] = keyword THEN Derives(kind, ts, i + 1, j) ELSE {}

DerivesFind(ts, n) ==
  UNION {{<<"FIND", <<ts[2]>>, f, s, l, o>> :
            f \in Clause("WHERE", "or", ts, 3, a), s \in Clause("SORT", "sort", ts, a + 1, b),
            l \in Clause("LIMIT", "usize", ts, b + 1, c),
            o \in Clause("OFFSET", "usize", ts, c + 1, n)} :
         <<a, b, c>> \in {q \in (2..n) \X (2..n) \X (2..n) : q[1] <= q[2] /\ q[2] <= q[3]}}

DerivesInsert(ts, n) ==
  LET c == IF ts[2] = "INTO" THEN 3 ELSE 2
  IN IF n < c + 2 \/ ts[c] \notin Names \/ ts[c + 1] # "VALUES" THEN {}
     ELSE {<<"INSERT", <<ts[c]>>, d>> : d \in {v \in
             Derives("value", ts, c + 2, n) \cup
             (IF Wrapped("(", ")", ts, c + 2, n) THEN Derives("value", ts, c + 3, n - 1) ELSE {}) :
             v[1] = "Object"}}

DerivesUpdate(ts, n) ==
  IF n < 3 \/ ts[3] # "SET" THEN {}
  ELSE UNION {{<<"UPDATE", <<ts[2]>>, a, f>> : a \in DerivesItems("assign", ts, 4, k),
                                               f \in Clause("WHERE", "or", ts, k + 1, n)} :
              k \in 4..n}

DerivesIndex(ts, n) ==
  IF n < 4 \/ ts[2] # "INDEX" \/ ts[3] \notin Names THEN {}
  ELSE LET last == IF ts[1] = "CREATE" /\ ts[n - 1] = "TYPE" /\ ts[n] \in {"HASH", "ORDERED"}
                     THEN n - 2 ELSE n
           type == IF ts[1] = "DROP" THEN <<>>
                   ELSE <<IF last = n THEN <<"ORDERED">> ELSE <<ts[n]>>>>
       IN {<<ts[1], <<ts[3]>>, f>> \o type :
             f \in (IF ts[4] = "." THEN DerivesPath(ts, 5, last)
                    ELSE IF last = 4 THEN DerivesPath(ts, 4, 4) ELSE {})}

\* The trees of a whole text as a statement.
Statements(ts) ==
  LET n == Len(ts)
  IN IF n = 0 THEN {}
     ELSE IF ts[1] \in Transaction THEN (IF n = 1 THEN {<<ts[1]>>} ELSE {})
     ELSE IF n = 1 THEN {}
     ELSE IF ts[1] = "INSERT" THEN DerivesInsert(ts, n)
     ELSE IF ts[1] \in {"CREATE", "DROP"} THEN DerivesIndex(ts, n)
     ELSE IF ts[2] \notin Names THEN {}
     ELSE CASE ts[1] = "FIND" -> DerivesFind(ts, n)
            [] ts[1] = "UPDATE" -> DerivesUpdate(ts, n)
            [] ts[1] \in Filtered -> {<<ts[1], <<ts[2]>>, f>> : f \in Clause("WHERE", "or", ts, 3, n)}
            [] OTHER -> {}

-----------------------------------------------------------------------------
(* Typing: a text that begins with a verb is a statement, any other one an *)
(* expression that a method of the client may get for an argument.         *)

\* parse_nql, from the characters of the tokens.
Result(ts) ==
  LET read == tokenize(Spell(ts, 1))
  IN IF ~read.ok THEN Fail(1)
     ELSE IF Peek(read.tokens, 1) \in Verbs \cup {"Eof"} THEN parse_statement(read.tokens)
     ELSE parse("or", read.tokens, 1)

Meanings(ts) ==
  IF Peek(ts, 1) \in Verbs \cup {"Eof"} THEN Statements(ts) ELSE Derives("or", ts, 1, Len(ts))

Init == tokens \in Openings /\ budget = MaxTyped

\* Another phrase, as long as the parser has read everything: what comes after
\* the token it stopped at makes no difference to it.
Type ==
  /\ budget > 0 /\ Result(tokens).pos > Len(tokens)
  /\ \E phrase \in Phrases : tokens' = tokens \o phrase
  /\ budget' = budget - 1

Next == Type

Spec == Init /\ [][Next]_vars

-----------------------------------------------------------------------------
(* Properties.                                                             *)

\* What the parser accepts, with its precedences, associativity and one token
\* of lookahead, is a phrase of the grammar up to the place where it stops, and
\* the tree it builds is the only one the grammar gives: BETWEEN takes its own
\* AND, NOT binds tighter than comparisons, operators of a level lean left.
Sound ==
  LET r == Result(tokens)
  IN r.ok => Meanings(SubSeq(tokens, 1, r.pos - 1)) = {r.tree}

\* The parser accepts every text of the grammar, and if only a beginning of the
\* text is a statement it does not stop before the end of it: no clause in its
\* place, and no operand, is left unread.  (A number that does not fit is
\* refused with all of its text.)
Complete ==
  LET r == Result(tokens)
  IN /\ Meanings(tokens) # {} => r.ok
     /\ (\E k \in DOMAIN tokens : tokens[k] = "huge")
          \/ \A n \in r.pos..Len(tokens) : Meanings(SubSeq(tokens, 1, n)) = {}

\* What a caller of the method wants, for an argument whose tree is t and an id.
Wanted(m, t, id) ==
  CASE m = "insert" ->
         <<"INSERT", <<"x">>, <<"Object", {e \in t[2] : e[1] # <<"_id">>}
                                           \cup {<<<<"_id">>, <<StringKind(id)>>>>}>>>>
    [] m = "find" -> <<"FIND", <<"x">>, t, None, None, None>>
    [] m = "find_all" -> <<"FIND", <<"x">>, None, None, None, None>>
    [] m = "find_by_id" ->
         <<"FIND", <<"x">>, <<"Eq", <<"Field", <<"x">>>>, <<StringKind(id)>>>>, None, None, None>>
    [] m = "update" -> <<"UPDATE", <<"x">>, <<<<"Assign", <<"Field", <<"x">>>>, t>>>>, t>>
    [] m = "remove" -> <<"REMOVE", <<"x">>, t>>
    [] m = "count" -> <<"COUNT", <<"x">>, t>>
    [] m = "count_all" -> <<"COUNT", <<"x">>, None>>
    [] m = "exists" -> <<"EXISTS", <<"x">>, t>>
    [] m = "create_index" -> <<"CREATE", <<"x">>, t, <<"HASH">>>>
    [] m = "drop_index" -> <<"DROP", <<"x">>, t>>
    [] m = "watch" -> <<"WATCH", <<"x">>, t>>
    [] m = "watch_all" -> <<"WATCH", <<"x">>, None>>

\* Ids: one of letters, one with a quote and one with a backslash in it.
Ids == {<<"x">>, <<"x", "\"">>, <<"\\", "x">>}

\* What a caller may hand over beside the argument.
Given(m) ==
  [id : IF m \in {"insert", "find_by_id"} THEN Ids ELSE {<<"x">>},
   odd : IF m = "insert" THEN BOOLEAN ELSE {FALSE},
   remark : IF m \in FilterMethods \cup PathMethods THEN {<<>>, <<" ", "-", "-", "x">>} ELSE {<<>>}]

\* Every method of CollectionHandle, given an expression, a path or a document that is
\* complete in itself, sends a text that the parser reads to its end as the statement
\* meant, whatever the argument is made of, and the server answers that statement with
\* a payload the method takes.  But an id with a quote or a backslash in it is refused
\* or taken for another; a float that prints with an exponent makes the parser refuse
\* the document, and a string with a control character may become another one; and an
\* argument in front of WHERE or TYPE that ends in a comment takes the rest with it.
BuilderMeans ==
  LET arg == Result(tokens)
      complete == arg.ok /\ arg.pos > Len(tokens) /\ tokens[1] \notin Verbs
      methods ==
        (IF tokens = <<>> THEN PlainMethods ELSE {})  \* they take no argument
        \cup (IF complete THEN FilterMethods ELSE {})
        \cup (IF complete /\ DerivesPath(tokens, 1, Len(tokens)) # {} THEN PathMethods ELSE {})
        \cup (IF complete /\ Wrapped("{", "}", tokens, 1, Len(tokens))
                 /\ Derives("value", tokens, 1, Len(tokens)) # {}
                 /\ \A k \in DOMAIN tokens : tokens[k] \notin Names  \* JSON has no bare keys
              THEN {"insert"} ELSE {})
  IN \A m \in methods : \A v \in Given(m) :
       LET read == tokenize(Text(m, tokens, v))
           meant == /\ read.ok
                    /\ parse_statement(read.tokens)
                         = Ok(Len(read.tokens) + 1, Wanted(m, arg.tree, v.id))
                    /\ Payload(read.tokens[1]) \in Accepts(m)
           has(values) == v.odd /\ \E k \in DOMAIN tokens : tokens[k] \in values
           swallows == v.remark # <<>> /\ m \in {"update", "create_index"}
       IN IF v.id # <<"x">> \/ has({"1.1"}) \/ swallows THEN ~meant
          ELSE ~has({"s"}) => meant
=============================================================================
