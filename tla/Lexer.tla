------------------------------- MODULE Lexer -------------------------------
(***************************************************************************)
(* The NQL lexer (nova-query, lexer.rs): from characters to tokens.        *)
(*                                                                         *)
(* A character is a string: a symbol, a space, a line end, a stretch of    *)
(* digits, which is "1" unless it is beyond an i64 ("huge"), or a stretch  *)
(* of letters, which is "x" unless it means something.                     *)
(* A token is a string that stands for its kind: "x" for any identifier,   *)
(* "1", "-1" and "1.1" for an integer, one with a sign and a float, "s",   *)
(* "id" and "_id" for strings.  Text is spelled here as tightly as it can be.   *)
(***************************************************************************)
EXTENDS Naturals, Sequences

Keywords ==
  {"FIND", "INSERT", "INTO", "VALUES", "UPDATE", "SET", "REMOVE", "WATCH", "COUNT", "EXISTS",
   "CREATE", "DROP", "INDEX", "TYPE", "WHERE", "SORT", "LIMIT", "OFFSET", "ASC", "DESC", "AND",
   "OR", "NOT", "IN", "BETWEEN", "BEGIN", "COMMIT", "ROLLBACK", "HASH", "ORDERED", "TRUE",
   "FALSE", "NULL"}
Letters == Keywords \cup {"x", "_id", "n"}
Digits == {"1", "huge"}
Blank == {" ", "\n"}
Quotes == {"\"", "'"}
\* The symbols of one and of two characters.
Symbols == {"+", "-", "*", "/", "%", "(", ")", "{", "}", "[", "]", ",", ":", ".", "=", "!", ">", "<"}
Pairs == {<<"=", "=", "==">>, <<"!", "=", "!=">>, <<">", "=", ">=">>, <<"<", "=", "<=">>,
          <<"&", "&", "&&">>, <<"|", "|", "||">>}

Peek(ts, p) == IF p <= Len(ts) THEN ts[p] ELSE "Eof"

\* The first place from p on that has none of these characters.
After(chars, text, p) ==
  CHOOSE q \in p..(Len(text) + 1) :
    Peek(text, q) \notin chars /\ \A r \in p..(q - 1) : text[r] \in chars

-----------------------------------------------------------------------------
(* One token, or what stands between two: where it ends, and the tokens it *)
(* gives (at most one).                                                    *)

Skip(q) == [ok |-> TRUE, end |-> q, out |-> <<>>]
Emit(q, token) == [ok |-> TRUE, end |-> q, out |-> <<token>>]
Unexpected == [ok |-> FALSE, end |-> 0, out |-> <<>>]

\* Mutant: a comment does not end with its line.
Comment_Unended(text, p) == Skip(Len(text) + 1)

\* A comment takes the end of its line with it.
Comment(text, p) ==
  LET ends == {q \in p..Len(text) : text[q] = "\n"}
  IN Skip(IF ends = {} THEN Len(text) + 1 ELSE 1 + CHOOSE q \in ends : \A r \in ends : q <= r)

\* An unknown escape is the character itself, a quote and a backslash included.
Unescape(c) == IF c = "n" THEN "\n" ELSE c

\* The strings that are spelled here, and an id; the parser tells "_id" from all others.
Content == [s |-> <<"x", "\"", "\n">>, _id |-> <<"_id">>, id |-> <<"x">>]

StringKind(content) ==
  IF \E kind \in DOMAIN Content : Content[kind] = content
    THEN CHOOSE kind \in DOMAIN Content : Content[kind] = content
    ELSE "another string"

RECURSIVE StringLit(_, _, _, _)

\* The content up to the same quote that is not escaped.
StringLit(quote, text, p, content) ==
  CASE Peek(text, p) = "Eof" -> Unexpected
    [] text[p] = quote -> Emit(p + 1, StringKind(content))
    [] text[p] = "\\" /\ p < Len(text) ->
         StringLit(quote, text, p + 2, Append(content, Unescape(text[p + 1])))
    [] OTHER -> StringLit(quote, text, p + 1, Append(content, text[p]))

\* Digits, and one dot if it stands between digits.  An integer has to fit.
Number(text, p) ==
  LET start == IF text[p] = "-" THEN p + 1 ELSE p
      whole == After(Digits, text, start)
      float == Peek(text, whole) = "." /\ Peek(text, whole + 1) \in Digits
  IN IF float THEN Emit(After(Digits, text, whole + 1), "1.1")
     ELSE IF \E q \in start..(whole - 1) : text[q] = "huge" THEN Unexpected
     ELSE Emit(whole, IF text[p] = "-" THEN "-1" ELSE "1")

\* Letters and digits: a keyword or an identifier.
Word(text, p) ==
  LET q == After(Letters \cup Digits, text, p)
  IN Emit(q, IF q = p + 1 /\ text[p] \in Keywords THEN text[p] ELSE "x")

\* A symbol, with its second character if that belongs to it.
Symbol(text, p) ==
  LET pair == {q \in Pairs : q[1] = text[p] /\ q[2] = Peek(text, p + 1)}
  IN IF pair # {} THEN Emit(p + 2, (CHOOSE q \in pair : TRUE)[3])
     ELSE IF text[p] \in Symbols THEN Emit(p + 1, text[p]) ELSE Unexpected

\* The branches of the loop, in their order.
Lexeme(text, p) ==
  CASE text[p] \in Blank -> Skip(p + 1)
    [] text[p] \in {"-", "/"} /\ Peek(text, p + 1) = text[p] -> Comment(text, p)
    [] text[p] \in Quotes -> StringLit(text[p], text, p + 1, <<>>)
    [] text[p] \in Digits \/ (text[p] = "-" /\ Peek(text, p + 1) \in Digits) -> Number(text, p)
    [] text[p] \in Letters -> Word(text, p)
    [] OTHER -> Symbol(text, p)

RECURSIVE Tokens(_, _, _)

Tokens(text, p, out) ==
  IF p > Len(text) THEN [ok |-> TRUE, tokens |-> out]
  ELSE LET l == Lexeme(text, p)
       IN IF l.ok THEN Tokens(text, l.end, out \o l.out) ELSE [ok |-> FALSE, tokens |-> <<>>]

tokenize(text) == Tokens(text, 1, <<>>)

-----------------------------------------------------------------------------
(* Spelling tokens.  A string has a quote and a line end in it, escaped.   *)

Chars(token) ==
  CASE token = "s" -> <<"\"", "x", "\\", "\"", "\\", "n", "\"">>
    [] token = "_id" -> <<"'", "_id", "'">>
    [] token = "-1" -> <<"-", "1">>
    [] token = "1.1" -> <<"1", ".", "1">>
    [] \E q \in Pairs : q[3] = token -> SubSeq(CHOOSE q \in Pairs : q[3] = token, 1, 2)
    [] OTHER -> <<token>>

\* The pairs of tokens that would become something else if they touched.
Touchy(a, b) ==
  \/ a \in Letters \ {"_id"} /\ b \in (Letters \ {"_id"}) \cup Digits \cup {"1.1"}
  \/ a \in Digits \cup {"-1", "1.1", "."} /\ b \in Digits \cup {"1.1"}
  \/ a = "-" /\ b \in Digits \cup {"-", "-1", "1.1"}
  \/ a = "/" /\ b = "/"
  \/ a \in {"=", "!", ">", "<"} /\ b \in {"=", "=="}

\* What may stand between two tokens: a space, or a comment with a quote in it.
Separator(k) == IF k % 2 = 0 THEN <<" ">> ELSE <<" ", "-", "-", "'", "\n">>

RECURSIVE Spell(_, _)

\* The characters of the tokens from the k-th on, separated only where needed.
Spell(ts, k) ==
  IF k > Len(ts) THEN <<>>
  ELSE Chars(ts[k])
         \o (IF k < Len(ts) /\ Touchy(ts[k], ts[k + 1]) THEN Separator(k) ELSE <<>>)
         \o Spell(ts, k + 1)
=============================================================================
