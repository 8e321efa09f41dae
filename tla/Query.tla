------------------------------- MODULE Query -------------------------------
(***************************************************************************)
(* Values, filters, secondary indexes and the query planner: nova-core     *)
(* (value.rs, document.rs), nova-query (evaluator.rs, planner.rs),         *)
(* nova-index and the parts of the engine that use them.  Statements run   *)
(* one at a time; module Engine has their interleavings.                   *)
(*                                                                         *)
(* Filters compare one path, or the id, with literals, and combine such    *)
(* comparisons.  A scalar is a record: its type t and a number n.  An Int  *)
(* has n in MinInt..MaxInt; a Float is a multiple of 1/2 and has n = 4 *   *)
(* its value, which is even, or n = -1 if it is -0.0, so that the order of *)
(* the numbers n is f64::total_cmp; a string is n times one letter.        *)
(* Integers beyond Mantissa in size lose their last bit as an f64, the way *)
(* those beyond 2^53 do.  There is no NaN, infinity, Bytes, Array, Object, *)
(* Timestamp or Uuid.                                                      *)
(***************************************************************************)
EXTENDS Integers, FiniteSets, SequencesExt

CONSTANTS
  \* The ids of documents, which are strings.
  Ids,
  \* The literals of statements, and all the values a path may come to hold:
  \* an UPDATE that would leave Values is not taken.
  Literals, Values,
  \* The literals a new document may hold inside an object.
  Nested,
  \* What an UPDATE adds to, subtracts from, multiplies or divides a path by.
  Operands,
  \* For each field the kinds of index CREATE INDEX may ask for.
  IndexTypes,
  \* The numbers of an Int, and the largest with an exact f64.
  MinInt, MaxInt, Mantissa,
  \* Markers: no field, no document, no index.
  Missing, NoDoc, None

Scalars ==
  [t : {"null"}, n : {0}] \cup [t : {"bool"}, n : {0, 1}]
    \cup [t : {"int"}, n : MinInt..MaxInt]
    \cup [t : {"float"}, n : {-1} \cup {2 * k : k \in (2 * MinInt)..(2 * MaxInt + 2)}]
    \cup [t : {"string"}, n : Nat]

ASSUME QueryConstants ==
  /\ MinInt \in Int /\ MinInt < 0 /\ MaxInt \in Nat /\ Mantissa \in Nat \ {0}
  /\ \A v \in Literals \cup Values \cup Ids \cup Operands : v \in Scalars
  /\ Nested \subseteq Literals /\ Literals \subseteq Values /\ \A v \in Literals : v.n >= 0
  /\ \A i \in Ids : i.t = "string"
  /\ IndexTypes \in [{"path", "id"} -> SUBSET {"hash", "ordered"}]
  /\ Missing \notin Values /\ None \notin {"hash", "ordered"}
  /\ NoDoc \notin [nested : Values \cup {Missing}, flat : Values \cup {Missing}]

VARIABLES
  \* For each id its document: the value found by following the path through
  \* objects, and the one stored under the path's text as a plain key.
  docs,
  \* For each field its index: a kind and the pairs of key and id it holds.
  index,
  \* History: whether all that was entered into the index on the path since it
  \* was created is ordinary.
  ordinary

vars == <<docs, index, ordinary>>

-----------------------------------------------------------------------------
(* Values.                                                                 *)

Tag(v) == CASE v.t = "null" -> 0 [] v.t = "bool" -> 1
            [] v.t \in {"int", "float"} -> 2 [] v.t = "string" -> 3

\* `i as f64`, times 4: to the nearest, ties to the even multiple.
AsF64(i) ==
  4 * (IF i \in -Mantissa..Mantissa \/ i % 2 = 0 THEN i
       ELSE IF (i - 1) % 4 = 0 THEN i - 1 ELSE i + 1)

\* What v is compared by when its partner is w: two Ints as integers, numbers
\* of different types as f64.
Key(v, w) ==
  IF v.t = "int" THEN (IF w.t = "int" THEN 4 * v.n ELSE AsF64(v.n)) ELSE v.n

\* Ord::cmp.
Less(v, w) == Tag(v) < Tag(w) \/ (Tag(v) = Tag(w) /\ Key(v, w) < Key(w, v))

CmpEqual(v, w) == ~Less(v, w) /\ ~Less(w, v)

\* The zeros are one number.
Unsigned(n) == IF n = -1 THEN 0 ELSE n

\* PartialEq::eq.
Eq(v, w) ==
  /\ Tag(v) = Tag(w)
  /\ IF Tag(v) = 2 THEN Unsigned(Key(v, w)) = Unsigned(Key(w, v)) ELSE v.n = w.n

\* A cast to i64 saturates.
AsI64(n) ==
  LET i == n \div 4 IN IF i < MinInt THEN MinInt ELSE IF i > MaxInt THEN MaxInt ELSE i

\* Mutant: the bits of every Float are hashed.
Hash_Bits(v) == <<Tag(v), v.t = "float", v.n>>

\* Hash::hash: a Float that is a whole number as the integer it is.
Hash(v) ==
  IF /\ v.t = "float" /\ Unsigned(v.n) % 4 = 0
     /\ AsF64(MinInt) <= Unsigned(v.n) /\ Unsigned(v.n) <= AsF64(MaxInt)
  THEN <<2, FALSE, AsI64(Unsigned(v.n))>>
  ELSE <<Tag(v), v.t = "float", v.n>>

\* The two kinds of numbers on which the three do not agree.
Rounded(v) == v.t = "int" /\ AsF64(v.n) # 4 * v.n
NegativeZero(v) == v.t = "float" /\ v.n = -1

Ordinary(v) == ~Rounded(v) /\ ~NegativeZero(v)

-----------------------------------------------------------------------------
(* Documents.                                                              *)

\* get_path, or else the plain key.
Get(d) == IF d.nested # Missing THEN d.nested ELSE d.flat

\* What an index sees: the id is not among the fields of a document.
IndexedValue(f, d) == IF f = "id" THEN Missing ELSE Get(d)

\* What a filter sees: the id is a string, a missing field is null.
FieldValue(f, i) ==
  IF f = "id" THEN i
  ELSE IF Get(docs[i]) = Missing THEN [t |-> "null", n |-> 0] ELSE Get(docs[i])

Stored == {i \in Ids : docs[i] # NoDoc}

\* The values the documents hold.
Kept == {Get(docs[i]) : i \in Stored} \ {Missing}

-----------------------------------------------------------------------------
(* Indexes.                                                                *)

NoIndex == [type |-> None, entries |-> {}]

\* Two keys are one key of the map.
SameKey(type, k, v) ==
  IF type = "hash" THEN Hash(k) = Hash(v) /\ Eq(k, v) ELSE CmpEqual(k, v)

\* The key under which the map has v, if it has: of two Ints that are one key
\* with a Float the first.
Slot(x, v) ==
  LET same == {k \in {e[1] : e \in x.entries} : SameKey(x.type, k, v)}
  IN {k \in same : \A j \in same : ~Less(j, k)}

\* insert: a key that is there stays as it was written first.
IdxInsert(x, v, i) ==
  [x EXCEPT !.entries = @ \cup {<<k, i>> : k \in IF Slot(x, v) = {} THEN {v} ELSE Slot(x, v)}]

IdxRemove(x, v, i) == [x EXCEPT !.entries = @ \ {<<k, i>> : k \in Slot(x, v)}]

on_insert(d, i) ==
  [f \in DOMAIN index |->
     IF index[f].type = None \/ IndexedValue(f, d) = Missing THEN index[f]
     ELSE IdxInsert(index[f], IndexedValue(f, d), i)]

on_remove(d, i) ==
  [f \in DOMAIN index |->
     IF index[f].type = None \/ IndexedValue(f, d) = Missing THEN index[f]
     ELSE IdxRemove(index[f], IndexedValue(f, d), i)]

\* The two values are compared as Options.
SameOption(v, w) == IF Missing \in {v, w} THEN v = w ELSE Eq(v, w)

\* Mutant: no test for equality, and the old key is removed last.
Reindex_InsertFirst(x, old, new, i) ==
  LET y == IF new = Missing THEN x ELSE IdxInsert(x, new, i)
  IN IF old = Missing THEN y ELSE IdxRemove(y, old, i)

Reindex(x, old, new, i) ==
  IF SameOption(old, new) THEN x
  ELSE LET y == IF old = Missing THEN x ELSE IdxRemove(x, old, i)
       IN IF new = Missing THEN y ELSE IdxInsert(y, new, i)

on_update(before, after, i) ==
  [f \in DOMAIN index |->
     IF index[f].type = None THEN index[f]
     ELSE Reindex(index[f], IndexedValue(f, before), IndexedValue(f, after), i)]

-----------------------------------------------------------------------------
(* Filters and plans.                                                      *)

Fields == {"path", "id"}

CmpOps == {"eq", "ne", "gt", "ge", "lt", "le"}

\* An expression without one inside: a comparison with its field on the left or on
\* the right, BETWEEN, IN a list, a field alone, and its negation.
Atoms ==
  [op : CmpOps, field : Fields, a : Literals, side : {"left"}]
    \cup [op : CmpOps, field : {"path"}, a : Literals, side : {"right"}]
    \cup [op : {"between"}, field : Fields, a : Literals, b : Literals]
    \cup [op : {"in"}, field : {"path"}, list : {{a, b} : a, b \in Literals}]
    \cup [op : {"field", "negate"}, field : Fields]

\* What the boolean operators are applied to: results of every type and errors.
Logicals == [op : {"field", "negate"}, field : {"path"}]

Filters ==
  Atoms \cup [op : {"not"}, arg : Logicals]
    \cup [op : {"and", "or"}, left : Logicals, right : Logicals]

Bool(b) == [t |-> "bool", n |-> IF b THEN 1 ELSE 0]

\* The result of an expression that is refused.
Refused == [t |-> "error", n |-> 0]

is_truthy(v) ==
  v.t # "null" /\ (IF v.t = "float" THEN Unsigned(v.n) ELSE v.n) # 0

\* A release build wraps.
Wrap(n) == ((n - MinInt) % (MaxInt - MinInt + 1)) + MinInt

NegateFloat(n) == IF n = 0 THEN -1 ELSE IF n = -1 THEN 0 ELSE -n

Negate(v) ==
  CASE v.t = "int" -> [v EXCEPT !.n = Wrap(-@)]
    [] v.t = "float" -> [v EXCEPT !.n = NegateFloat(@)]
    [] OTHER -> Refused

\* `v op w`, compared through Less and Eq.
Compare(op, v, w) ==
  CASE op = "eq" -> Eq(v, w)
    [] op = "ne" -> ~Eq(v, w)
    [] op = "gt" -> Less(w, v)
    [] op = "ge" -> ~Less(v, w)
    [] op = "lt" -> Less(v, w)
    [] op = "le" -> ~Less(w, v)

\* Evaluator::eval of an atom where its field has the value v.
EvalAtom(q, v) ==
  CASE q.op = "field" -> v
    [] q.op = "negate" -> Negate(v)
    [] q.op = "between" -> Bool(~Less(v, q.a) /\ ~Less(q.b, v))
    [] q.op = "in" -> Bool(\E w \in q.list : Eq(v, w))
    [] OTHER -> Bool(IF q.side = "left" THEN Compare(q.op, v, q.a) ELSE Compare(q.op, q.a, v))

\* Evaluator::eval on a document.  AND and OR do not evaluate their right side
\* when the left one decides.
Eval(q, i) ==
  LET On(r) == EvalAtom(r, FieldValue(r.field, i))
  IN CASE q.op = "not" ->
            IF On(q.arg) = Refused THEN Refused ELSE Bool(~is_truthy(On(q.arg)))
       [] q.op \in {"and", "or"} ->
            IF On(q.left) = Refused THEN Refused
            ELSE IF is_truthy(On(q.left)) = (q.op = "or") THEN Bool(q.op = "or")
            ELSE IF On(q.right) = Refused THEN Refused ELSE Bool(is_truthy(On(q.right)))
       [] OTHER -> On(q)

\* What COUNT, EXISTS, UPDATE and REMOVE go by.
Scan(q) == {i \in Stored : LET v == Eval(q, i) IN v # Refused /\ is_truthy(v)}

\* COUNT evaluates every document.
CountFails(q) == \E i \in Stored : Eval(q, i) = Refused

\* QueryPlanner::plan.  A range has its field on the left.
Plan(q) ==
  LET type == index[q.field].type
  IN IF q.op = "eq" /\ type # None THEN "lookup"
     ELSE IF \/ q.op \in {"gt", "ge", "lt", "le"} /\ q.side = "left" /\ type = "ordered"
             \/ q.op = "between" /\ type = "ordered" THEN "range"
     ELSE "scan"

\* The ends of an IndexRange.
Unbounded == [bound |-> "unbounded"]
Included(v) == [bound |-> "included", value |-> v]
Excluded(v) == [bound |-> "excluded", value |-> v]

\* Mutant: a range that starts at the literal leaves it out.
RangeOf_GtEqExcluded(q) ==
  CASE q.op \in {"gt", "ge"} -> [start |-> Excluded(q.a), end |-> Unbounded]
    [] q.op = "lt" -> [start |-> Unbounded, end |-> Excluded(q.a)]
    [] q.op = "le" -> [start |-> Unbounded, end |-> Included(q.a)]
    [] q.op = "between" -> [start |-> Included(q.a), end |-> Included(q.b)]

\* The range a filter is planned as.
RangeOf(q) ==
  CASE q.op = "gt" -> [start |-> Excluded(q.a), end |-> Unbounded]
    [] q.op = "ge" -> [start |-> Included(q.a), end |-> Unbounded]
    [] q.op = "lt" -> [start |-> Unbounded, end |-> Excluded(q.a)]
    [] q.op = "le" -> [start |-> Unbounded, end |-> Included(q.a)]
    [] q.op = "between" -> [start |-> Included(q.a), end |-> Included(q.b)]

\* BTreeMap::range: from the place of the one end to that of the other.
Starts(x, s, k) ==
  \/ s.bound = "unbounded"
  \/ s.bound = "included" /\ ~Less(k, s.value)
  \/ s.bound = "excluded" /\ ~Less(k, s.value) /\ k \notin Slot(x, s.value)

Ends(x, e, k) ==
  \/ e.bound = "unbounded"
  \/ e.bound = "included" /\ (Less(k, e.value) \/ k \in Slot(x, e.value))
  \/ e.bound = "excluded" /\ Less(k, e.value)

InRange(x, range, k) == Starts(x, range.start, k) /\ Ends(x, range.end, k)

\* The candidates: entries of the index, or the documents with no key.
Candidates(q) ==
  LET x == index[q.field]
  IN CASE Plan(q) = "lookup" -> {e \in x.entries : e[1] \in Slot(x, q.a)}
       [] Plan(q) = "range" -> {e \in x.entries : InRange(x, RangeOf(q), e[1])}
       [] Plan(q) = "scan" -> {<<Missing, i>> : i \in Stored}

\* execute_find: the candidates that are stored and pass the filter, each as
\* often as it is a candidate.
Find(q) ==
  LET passing == Scan(q)
      found == {e \in Candidates(q) : e[2] \in passing}
  IN [i \in {e[2] : e \in found} |-> Cardinality({e \in found : e[2] = i})]

FindFails(q) == \E e \in Candidates(q) : e[2] \in Stored /\ Eval(q, e[2]) = Refused

\* BTreeMap::range panics on bounds in the wrong order; scan asks before whether
\* the map is empty.
FindPanics(q) ==
  /\ Plan(q) = "range" /\ index[q.field].entries # {}
  /\ LET r == RangeOf(q)
     IN Unbounded \notin {r.start, r.end} /\ Less(r.end.value, r.start.value)

\* SORT, if there is one.  It does not know the id, as an index does not.
Sorts == {None} \cup [field : Fields, dir : {"asc", "desc"}]

SortKey(f, i) ==
  LET v == IndexedValue(f, docs[i]) IN IF v = Missing THEN [t |-> "null", n |-> 0] ELSE v

\* i is sorted in front of j.
Precedes(sort, i, j) ==
  /\ sort # None
  /\ IF sort.dir = "asc" THEN Less(SortKey(sort.field, i), SortKey(sort.field, j))
     ELSE Less(SortKey(sort.field, j), SortKey(sort.field, i))

\* sort_by is stable: what it does not tell apart stays in the order in which the
\* candidates came, first before second.
InFront(sort, first, i, j) ==
  Precedes(sort, i, j) \/ (~Precedes(sort, j, i) /\ first[i] < first[j])

Sorted(results, sort, first) ==
  CHOOSE s \in SetToSeqs(results) :
    \A m, n \in DOMAIN s : m < n => InFront(sort, first, s[m], s[n])

\* OFFSET and LIMIT cut a piece out of the sorted results.
Page(sorted, off, limit) ==
  LET end == IF limit = None \/ off + limit > Len(sorted) THEN Len(sorted) ELSE off + limit
  IN IF off >= Len(sorted) THEN <<>> ELSE SubSeq(sorted, off + 1, end)

-----------------------------------------------------------------------------
(* Statements.                                                             *)

Init ==
  /\ docs = [i \in Ids |-> NoDoc]
  /\ index = [f \in Fields |-> NoIndex]
  /\ ordinary = TRUE

\* The value v, if there is one, is entered into the index on the path.
Enters(v) ==
  ordinary' = (index["path"].type = None \/ (ordinary /\ (v = Missing \/ Ordinary(v))))

\* New documents: with a literal where the path leads, or under its text.
NewDocs ==
  [nested : Nested \cup {Missing}, flat : {Missing}]
    \cup [nested : {Missing}, flat : Literals]

InsertDocument(i, d) ==
  /\ docs[i] = NoDoc
  /\ docs' = [docs EXCEPT ![i] = d]
  /\ index' = on_insert(d, i)
  /\ Enters(Get(d))

RemoveDocument(i) ==
  /\ docs[i] # NoDoc
  /\ docs' = [docs EXCEPT ![i] = NoDoc]
  /\ index' = on_remove(docs[i], i)
  /\ UNCHANGED ordinary

\* apply_assignments writes under the text of the path.
Assign(d, v) == [d EXCEPT !.flat = v]

\* UPDATE of one document with a value that was evaluated.
Update(i, v) ==
  /\ docs[i] # NoDoc /\ v \in Values
  /\ docs' = [docs EXCEPT ![i] = Assign(@, v)]
  /\ index' = on_update(docs[i], docs'[i], i)
  /\ Enters(Get(docs'[i]))

\* Truncated towards zero.
Quotient(a, b) ==
  LET q == (IF a < 0 THEN -a ELSE a) \div (IF b < 0 THEN -b ELSE b)
  IN IF (a < 0) = (b < 0) THEN q ELSE -q

\* The quotient of two i64 that is none panics in every build.
Panics(op, v, w) ==
  v.t = "int" /\ w.t = "int" /\ op \in {"divide", "modulo"} /\ v.n = MinInt /\ w.n = -1

OnInts(op, a, b) ==
  LET Wrapped(n) == [t |-> "int", n |-> Wrap(n)]
  IN CASE op = "plus" -> Wrapped(a + b)
       [] op = "minus" -> Wrapped(a - b)
       [] op = "multiply" -> Wrapped(a * b)
       [] op = "divide" -> IF b = 0 THEN Refused ELSE Wrapped(Quotient(a, b))
       [] op = "modulo" -> IF b = 0 THEN Refused ELSE Wrapped(a - b * Quotient(a, b))

\* The sum of two Floats: a zero is -0.0 if both are.
Sum(x, y) ==
  LET n == Unsigned(x) + Unsigned(y) IN IF n = 0 /\ x = -1 /\ y = -1 THEN -1 ELSE n

\* A product or quotient is a zero with the sign that those of x and y give.
Signed(n, x, y) == IF n = 0 /\ (x < 0) # (y < 0) THEN -1 ELSE n

\* Two numbers that are not both Ints, as Floats.  The infinities, NaN and what
\* is no multiple of 1/2 are left out: None.
OnFloats(op, x, y) ==
  LET a == Unsigned(x)  b == Unsigned(y)
      Float(n) == IF n # -1 /\ n % 2 = 1 THEN None ELSE [t |-> "float", n |-> n]
  IN CASE op = "plus" -> Float(Sum(x, y))
       [] op = "minus" -> Float(Sum(x, NegateFloat(y)))
       [] op = "multiply" -> IF (a * b) % 8 # 0 THEN None ELSE Float(Signed((a * b) \div 4, x, y))
       [] op = "divide" -> IF b = 0 \/ b * Quotient(4 * a, b) # 4 * a THEN None
                            ELSE Float(Signed(Quotient(4 * a, b), x, y))
       [] op = "modulo" -> Refused

\* Evaluator::eval of `v op w`.
Arithmetic(op, v, w) ==
  CASE v.t = "int" /\ w.t = "int" -> OnInts(op, v.n, w.n)
    [] Tag(v) = 2 /\ Tag(w) = 2 /\ "float" \in {v.t, w.t} ->
         OnFloats(op, IF v.t = "int" THEN AsF64(v.n) ELSE v.n,
                      IF w.t = "int" THEN AsF64(w.n) ELSE w.n)
    [] op = "plus" /\ v.t = "string" /\ w.t = "string" -> [v EXCEPT !.n = @ + w.n]
    [] OTHER -> Refused

\* UPDATE of one document with an expression that evaluates to v.  One that is
\* refused leaves everything as it was.
Assigns(i, v) ==
  \/ v \in Values /\ Update(i, v)
  \/ v = Refused /\ UNCHANGED vars

\* SET path = -path.
UpdateNegated(i) == docs[i] # NoDoc /\ Assigns(i, Negate(FieldValue("path", i)))

\* SET path = path op w.
UpdateArithmetic(i, op, w) ==
  /\ docs[i] # NoDoc
  /\ LET v == FieldValue("path", i)
     IN IF Panics(op, v, w) THEN UNCHANGED vars
        ELSE Assigns(i, Arithmetic(op, v, w))

\* Every document that has the field is entered.  The HashMap of documents is
\* traversed in any order, so any of the values that are one key may become it.
Built(f, type) ==
  LET having == {i \in Stored : IndexedValue(f, docs[i]) # Missing}
      keys == {IndexedValue(f, docs[i]) : i \in having}
      first == {r \in [keys -> keys] : \A v, w \in keys :
                  SameKey(type, r[v], v) /\ (SameKey(type, v, w) => r[v] = r[w])}
  IN {{<<r[IndexedValue(f, docs[i])], i>> : i \in having} : r \in first}

CreateIndex(f, type) ==
  /\ \E built \in Built(f, type) :
       index' = [index EXCEPT ![f] = [type |-> type, entries |-> built]]
  /\ ordinary' = IF f = "path" THEN \A v \in Kept : Ordinary(v) ELSE ordinary
  /\ UNCHANGED docs

\* Without an index there is an error, and nothing changes.
DropIndex(f) ==
  /\ index' = [index EXCEPT ![f] = NoIndex]
  /\ ordinary' = (f = "path" \/ ordinary) /\ UNCHANGED docs

Next ==
  \/ \E i \in Ids :
       \/ \E d \in NewDocs : InsertDocument(i, d)
       \/ \E v \in Literals : Update(i, v)
       \/ UpdateNegated(i)
       \/ \E op \in {"plus", "minus", "multiply", "divide", "modulo"}, w \in Operands :
            UpdateArithmetic(i, op, w)
       \/ RemoveDocument(i)
  \/ \E f \in Fields : (\E type \in IndexTypes[f] : CreateIndex(f, type)) \/ DropIndex(f)

Spec == Init /\ [][Next]_vars

-----------------------------------------------------------------------------
(* Properties.                                                             *)

\* The documents a FIND finds: all that a scan finds, or with an index those of
\* them that have the field.  The others, which match as null, it misses, and
\* every document when the field is the id.
Owed(q) ==
  IF Plan(q) = "scan" THEN Scan(q)
  ELSE {i \in Scan(q) : IndexedValue(q.field, docs[i]) # Missing}

\* The index on the path has seen ordinary numbers only, and so has the filter.
Trusted(q) ==
  Plan(q) # "scan" /\ q.field = "path" =>
    /\ ordinary /\ Ordinary(q.a)
    /\ q.op = "between" => Ordinary(q.b)

\* The p-th document of a page is the one of rank off + p among all results, and
\* the page has as many as there are, up to limit.
RightPage(page, results, sort, off, limit) ==
  /\ ToSet(page) \subseteq results /\ IsInjective(page)
  /\ \A p \in DOMAIN page :
       /\ Cardinality({i \in results : Precedes(sort, i, page[p])}) < off + p
       /\ off + p <= Cardinality({i \in results : ~Precedes(sort, page[p], i)})
  /\ limit # None => Len(page) <= limit
  /\ Len(page) = limit \/ off + Len(page) >= Cardinality(results)

\* A FIND of ordinary numbers that does not panic fails where COUNT fails, and
\* else finds each document it owes, once: the bounds of a range say the same of
\* the keys, which may have been written as an Int or a Float, as the evaluator
\* says of the documents.
FindsOwed ==
  \A q \in Filters :
    Trusted(q) /\ ~FindPanics(q) =>
      /\ Find(q) = [i \in Owed(q) |-> 1]
      /\ FindFails(q) = CountFails(q)

\* Results are sorted, and cut where OFFSET and LIMIT say, unless cmp does not
\* order them.  (Every set of results is also all that is stored in some state.)
PagesRight ==
  LET most == Cardinality(Stored)
  IN (\A v \in Kept : ~Rounded(v)) =>
     \A sort \in Sorts, first \in Injection(Stored, 1..Cardinality(Stored)) :
       LET sorted == Sorted(Stored, sort, first)
       IN \A off \in 0..most, limit \in {None} \cup (0..most) :
            RightPage(Page(sorted, off, limit), Stored, sort, off, limit)

\* A FIND that goes through an index finds what a scan would but for the documents
\* without the field, on ordinary numbers; and it is sorted and cut as asked.
FindExact == FindsOwed /\ PagesRight

\* As long as it is given ordinary numbers, every entry of an index can be found
\* again with the value its document has now, each document has one, and nothing
\* else is in the index: a key written as an Int that now stands for a Float does
\* not get lost.
EntriesExact ==
  index["path"].type # None /\ ordinary =>
    \A i \in Ids :
      LET mine == {e \in index["path"].entries : e[2] = i}
      IN IF docs[i] = NoDoc \/ (docs[i] # NoDoc /\ Get(docs[i]) = Missing) THEN mine = {}
         ELSE /\ Cardinality(mine) = 1
              /\ \A e \in mine : SameKey(index["path"].type, e[1], Get(docs[i]))

\* Two zeros of which one is -0.0.
OtherZero(v, w) ==
  LET IsZero(u) == u.t \in {"int", "float"} /\ (u.n = 0 \/ NegativeZero(u))
  IN IsZero(v) /\ IsZero(w) /\ NegativeZero(v) # NegativeZero(w)

\* An Int that equals a Float only by rounding: cast back, that is another Int.
ByRounding(v, w) ==
  v.t = "int" /\ w.t = "float" /\ AsF64(v.n) = w.n /\ AsI64(w.n) # v.n

\* Two Ints, the first the larger, that a Float between them equals by rounding.
Between(v, w, u) ==
  /\ v.t = "int" /\ w.t = "float" /\ u.t = "int" /\ u.n < v.n
  /\ AsF64(v.n) = w.n /\ AsF64(u.n) = w.n

\* Over the values documents hold and the literals, three definitions fit together
\* except in three cases, and in these they never do.  cmp has the equality of ==,
\* but for -0.0 and the other zeros.  Equal values have one hash, as a HashMap
\* requires, but for an Int and the Float it is rounded to.  cmp is transitive, as a
\* BTreeMap and a sort require, but for a Float that two Ints are rounded to.
ValuesConsistent ==
  \A v \in Kept, w, u \in Kept \cup Literals :
    /\ CmpEqual(v, w) <=> Eq(v, w) /\ ~OtherZero(v, w)
    /\ Eq(v, w) => (Hash(v) = Hash(w) <=> ~ByRounding(v, w) /\ ~ByRounding(w, v))
    /\ ~Less(w, v) /\ ~Less(u, w) => (~Less(u, v) <=> ~Between(v, w, u))
=============================================================================
