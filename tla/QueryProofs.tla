----------------------------- MODULE QueryProofs -----------------------------
(***************************************************************************)
(* Theorems about values, indexes and the planner: where equality, order   *)
(* and hash agree, and where not; as long as it is given ordinary values,  *)
(* an index holds what the documents hold, and a FIND through it answers   *)
(* as a scan, sorted and cut into the pages that were asked for.           *)
(***************************************************************************)
EXTENDS Query, SequenceLemmas, FiniteSetTheorems, TLAPS

-----------------------------------------------------------------------------
(* Values.                                                                 *)

Plain == {v \in Values : Ordinary(v)}

\* What values are ordered by within their kind: whatever they are compared with,
\* unless they are rounded for it.
Rank(v) == IF v.t = "int" THEN 4 * v.n ELSE v.n

Same(v, w) == Tag(v) = Tag(w) /\ Rank(v) = Rank(w)

LEMMA ValueTypes ==
  ASSUME NEW v \in Values
  PROVE  /\ v = [t |-> v.t, n |-> v.n] /\ v.n \in Int /\ Rank(v) \in Int
         /\ v.t \in {"null", "bool", "int", "float", "string"}
         /\ v.t = "int" => v.n \in MinInt..MaxInt
         /\ v.t \notin {"int", "float"} => v.n \in Nat
         /\ Tag(v) \in 0..3 /\ (Tag(v) = 2 <=> v.t \in {"int", "float"})
         /\ v.t \notin {"int", "float"} => \A w \in Values : Tag(w) = Tag(v) => w.t = v.t
<1>1. MinInt \in Int /\ MaxInt \in Nat /\ Mantissa \in Nat /\ \A w \in Values : w \in Scalars
  BY QueryConstants
<1>2. ASSUME NEW w \in Values
      PROVE  /\ w = [t |-> w.t, n |-> w.n] /\ w.n \in Int
             /\ w.t \in {"null", "bool", "int", "float", "string"}
             /\ w.t = "int" => w.n \in MinInt..MaxInt
             /\ w.t \in {"null", "bool", "string"} => w.n \in Nat
  <2>1. w \in Scalars
    BY <1>1
  <2>2. CASE w \in [t : {"null"}, n : {0}] \cup [t : {"bool"}, n : {0, 1}] \cup [t : {"string"}, n : Nat]
    BY <2>2
  <2>3. CASE w \in [t : {"int"}, n : MinInt..MaxInt]
    BY <1>1, <2>3
  <2>4. CASE w \in [t : {"float"}, n : {-1} \cup {2 * k : k \in (2 * MinInt)..(2 * MaxInt + 2)}]
    <3>1. \A k \in (2 * MinInt)..(2 * MaxInt + 2) : 2 * k \in Int
      BY <1>1
    <3> QED BY <2>4, <3>1
  <2> QED BY <2>1, <2>2, <2>3, <2>4 DEF Scalars
<1>3. \A w \in Values :
        /\ w.t = "null" => Tag(w) = 0
        /\ w.t = "bool" => Tag(w) = 1
        /\ w.t \in {"int", "float"} => Tag(w) = 2
        /\ w.t = "string" => Tag(w) = 3
  BY DEF Tag
<1>4. Rank(v) \in Int
  BY <1>2 DEF Rank
<1>6. Tag(v) \in 0..3 /\ (Tag(v) = 2 <=> v.t \in {"int", "float"})
  BY <1>2, <1>3
<1>7. v.t \notin {"int", "float"} => \A w \in Values : Tag(w) = Tag(v) => w.t = v.t
  BY <1>2, <1>3
<1> QED BY <1>2, <1>4, <1>6, <1>7

LEMMA PlainRank ==
  ASSUME NEW v \in Plain
  PROVE  v \in Values /\ Rank(v) # -1 /\ (v.t = "int" => AsF64(v.n) = 4 * v.n)
<1>1. v \in Values /\ (v.t = "int" => AsF64(v.n) = 4 * v.n) /\ (v.t = "float" => v.n # -1)
  BY DEF Plain, Ordinary, Rounded, NegativeZero
<1>2. CASE v.t = "int"
  <2>1. v.n \in Int /\ Rank(v) = 4 * v.n
    BY <1>1, <1>2, ValueTypes DEF Rank
  <2>2. 4 * v.n # -1
    BY <2>1
  <2> QED BY <1>1, <2>1, <2>2
<1>3. CASE v.t = "float"
  BY <1>1, <1>3 DEF Rank
<1>4. CASE v.t \notin {"int", "float"}
  <2>1. v.n \in Nat /\ Rank(v) = v.n
    BY <1>1, <1>4, ValueTypes DEF Rank
  <2> QED BY <1>1, <2>1
<1> QED BY <1>2, <1>3, <1>4

LEMMA KeyIs ==
  ASSUME NEW v, NEW w, ~Rounded(v)
  PROVE  Key(v, w) = Rank(v)
BY DEF Key, Rank, Rounded

LEMMA LessIs ==
  ASSUME NEW v \in Plain, NEW w \in Plain
  PROVE  Less(v, w) <=> Tag(v) < Tag(w) \/ (Tag(v) = Tag(w) /\ Rank(v) < Rank(w))
<1>1. ~Rounded(v) /\ ~Rounded(w)
  BY DEF Plain, Ordinary
<1> QED BY <1>1, KeyIs DEF Less

LEMMA CmpIs ==
  ASSUME NEW v \in Plain, NEW w \in Plain
  PROVE  CmpEqual(v, w) <=> Same(v, w)
<1>1. /\ Tag(v) \in 0..3 /\ Rank(v) \in Int /\ Tag(w) \in 0..3 /\ Rank(w) \in Int
  BY ValueTypes, PlainRank
<1> QED BY <1>1, LessIs DEF CmpEqual, Same

LEMMA EqIs ==
  ASSUME NEW v \in Plain, NEW w \in Plain
  PROVE  Eq(v, w) <=> Same(v, w)
<1>1. CASE Tag(v) = 2 /\ Tag(w) = 2
  <2>1. Unsigned(Rank(v)) = Rank(v) /\ Unsigned(Rank(w)) = Rank(w)
    BY PlainRank DEF Unsigned
  <2>2. Key(v, w) = Rank(v) /\ Key(w, v) = Rank(w)
    BY KeyIs DEF Plain, Ordinary
  <2> QED BY <1>1, <2>1, <2>2 DEF Eq, Same
<1>2. CASE Tag(v) # 2 /\ Tag(w) = Tag(v)
  <2>1. Rank(v) = v.n /\ Rank(w) = w.n
    BY <1>2, ValueTypes, PlainRank DEF Rank
  <2> QED BY <1>2, <2>1 DEF Eq, Same
<1>3. CASE Tag(w) # Tag(v)
  BY <1>3 DEF Eq, Same
<1> QED BY <1>1, <1>2, <1>3

\* Rounding moves an integer by one at most.
LEMMA Nearest ==
  ASSUME NEW i \in Int
  PROVE  AsF64(i) \in {4 * i - 4, 4 * i, 4 * i + 4}
<1>1. Mantissa \in Nat
  BY QueryConstants
<1> QED BY <1>1 DEF AsF64

\* It keeps their order.
LEMMA Monotone ==
  ASSUME NEW i \in Int, NEW j \in Int, i <= j
  PROVE  AsF64(i) \in Int /\ AsF64(j) \in Int /\ AsF64(i) <= AsF64(j)
<1>1. /\ AsF64(i) \in {4 * i - 4, 4 * i, 4 * i + 4} /\ AsF64(j) \in {4 * j - 4, 4 * j, 4 * j + 4}
  BY Nearest
<1>2. CASE i = j
  BY <1>1, <1>2
<1>3. CASE j = i + 1
  <2>1. i % 2 = 0 \/ j % 2 = 0
    BY <1>3
  <2>2. AsF64(i) = 4 * i \/ AsF64(j) = 4 * j
    BY <2>1 DEF AsF64
  <2> QED BY <1>1, <1>3, <2>2
<1>4. CASE j > i + 1
  BY <1>1, <1>4
<1> QED BY <1>2, <1>3, <1>4

\* Only zero becomes zero.
LEMMA OnlyZero ==
  ASSUME NEW i \in Int
  PROVE  AsF64(i) = 0 <=> i = 0
<1>1. Mantissa \in Nat \ {0}
  BY QueryConstants
<1> QED BY <1>1 DEF AsF64

\* A Float that is the f64 of an Int is hashed as the Int it is cast to.
LEMMA HashOfWhole ==
  ASSUME NEW k \in MinInt..MaxInt, NEW y \in Values, y.t = "float", Unsigned(y.n) = AsF64(k)
  PROVE  Hash(y) = <<2, FALSE, AsI64(AsF64(k))>>
<1>1. /\ MinInt \in Int /\ MaxInt \in Nat /\ Mantissa \in Nat /\ k \in Int
      /\ MinInt <= k /\ k <= MaxInt
  BY QueryConstants
<1>2. PICK f : f = AsF64(k)
  OBVIOUS
<1>3. f \in Int /\ f % 4 = 0
  <2>1. PICK g : g = (IF k \in -Mantissa..Mantissa \/ k % 2 = 0 THEN k
                      ELSE IF (k - 1) % 4 = 0 THEN k - 1 ELSE k + 1)
    OBVIOUS
  <2>2. g \in Int /\ f = 4 * g
    BY <1>1, <1>2, <2>1 DEF AsF64
  <2>3. (4 * g) % 4 = 0
    BY <2>2
  <2> QED BY <2>2, <2>3
<1>4. AsF64(MinInt) <= f /\ f <= AsF64(MaxInt)
  BY <1>1, <1>2, Monotone
<1> QED BY <1>2, <1>3, <1>4 DEF Hash

\* What an Int and a Float that are equal are hashed as.
LEMMA HashPair ==
  ASSUME NEW x \in Values, NEW y \in Values, x.t = "int", y.t = "float", Eq(x, y)
  PROVE  /\ Hash(x) = <<2, FALSE, x.n>> /\ Unsigned(y.n) = AsF64(x.n)
         /\ Hash(y) = <<2, FALSE, AsI64(AsF64(x.n))>>
<1>1. PICK k : k = x.n
  OBVIOUS
<1>2. k \in MinInt..MaxInt /\ k \in Int /\ y.n \in Int /\ Tag(x) = 2 /\ Tag(y) = 2
  BY <1>1, ValueTypes, QueryConstants
<1>3. Key(x, y) = AsF64(k) /\ Key(y, x) = y.n
  BY <1>1 DEF Key
<1>4. AsF64(k) \in Int /\ AsF64(k) # -1 /\ Unsigned(AsF64(k)) = AsF64(k)
  BY <1>2, Nearest DEF Unsigned
<1>5. Unsigned(y.n) = AsF64(k)
  BY <1>2, <1>3, <1>4 DEF Eq
<1>6. Hash(x) = <<2, FALSE, k>>
  BY <1>1, <1>2 DEF Hash
<1> QED BY <1>1, <1>2, <1>5, <1>6, HashOfWhole

\* Ordinary values that are equal have one hash.
LEMMA HashIs ==
  ASSUME NEW v \in Plain, NEW w \in Plain, Same(v, w)
  PROVE  Hash(v) = Hash(w)
<1>0. v \in Values /\ w \in Values
  BY PlainRank
<1>1. CASE v.t = w.t
  <2>1. v.n = w.n
    <3>1. v.n \in Int /\ w.n \in Int
      BY <1>0, ValueTypes
    <3> QED BY <1>1, <3>1 DEF Same, Rank
  <2>2. v = w
    BY <1>0, <1>1, <2>1, ValueTypes
  <2> QED BY <2>2
<1>2. ASSUME NEW x \in Plain, NEW y \in Plain, x.t = "int", y.t = "float", Same(x, y)
      PROVE  Hash(x) = Hash(y)
  <2>1. x \in Values /\ y \in Values /\ AsF64(x.n) = 4 * x.n /\ Eq(x, y)
    BY <1>2, PlainRank, EqIs
  <2>2. PICK k : k = x.n
    OBVIOUS
  <2>3. k \in MinInt..MaxInt /\ MinInt \in Int /\ MaxInt \in Nat
    BY <1>2, <2>1, <2>2, ValueTypes, QueryConstants
  <2>4. AsI64(4 * k) = k
    <3>1. (4 * k) \div 4 = k
      BY <2>3
    <3> QED BY <2>3, <3>1 DEF AsI64
  <2> QED BY <1>2, <2>1, <2>2, <2>4, HashPair
<1>3. Same(w, v)
  BY DEF Same
<1>4. CASE v.t # w.t
  <2>1. Tag(v) = 2
    BY <1>0, <1>4, ValueTypes DEF Same
  <2>2. v.t \in {"int", "float"} /\ w.t \in {"int", "float"}
    BY <1>0, <2>1, ValueTypes DEF Same
  <2> QED BY <1>2, <1>3, <1>4, <2>2
<1> QED BY <1>1, <1>4

\* Both kinds of index have one key for the same values.
LEMMA SameKeyIs ==
  ASSUME NEW v \in Plain, NEW w \in Plain, NEW type \in {"hash", "ordered"}
  PROVE  SameKey(type, v, w) <=> Same(v, w)
BY CmpIs, EqIs, HashIs DEF SameKey

-----------------------------------------------------------------------------
(* Types.                                                                  *)

Docs == [nested : Values \cup {Missing}, flat : Values \cup {Missing}]
Indexes == [type : {None, "hash", "ordered"}, entries : SUBSET (Values \X Ids)]

TypeInv ==
  /\ docs \in [Ids -> {NoDoc} \cup Docs]
  /\ index \in [Fields -> Indexes]
  /\ ordinary \in BOOLEAN

\* What each id has under the path, if it has a document and that has the path.
Held == [i \in Ids |-> IF docs[i] = NoDoc THEN Missing ELSE Get(docs[i])]

\* All is ordinary, every entry is under the key of what its document has, no key is
\* there twice, and no document is missing.
Exact(x, held) ==
  /\ x.entries \subseteq Plain \X Ids /\ held \in [Ids -> Plain \cup {Missing}]
  /\ \A e \in x.entries : held[e[2]] # Missing /\ Same(e[1], held[e[2]])
  /\ \A e, g \in x.entries : Same(e[1], g[1]) => e[1] = g[1]
  /\ \A i \in Ids : held[i] # Missing => \E e \in x.entries : e[2] = i

\* The index on the id is empty, the one on the path is exact as long as it is given
\* ordinary values.
IndexInv ==
  /\ index["id"].entries = {}
  /\ index["path"].type # None /\ ordinary => Exact(index["path"], Held)

LEMMA SlotIs ==
  ASSUME NEW x \in Indexes, x.type # None, x.entries \subseteq Plain \X Ids, NEW v \in Plain
  PROVE  /\ Slot(x, v) = {k \in {e[1] : e \in x.entries} : Same(k, v)}
         /\ Slot(x, v) \subseteq Plain
<1>1. x.type \in {"hash", "ordered"}
  BY DEF Indexes
<1>2. PICK same : same = {k \in {e[1] : e \in x.entries} : SameKey(x.type, k, v)}
  OBVIOUS
<1>3. \A k \in {e[1] : e \in x.entries} : k \in Plain /\ (SameKey(x.type, k, v) <=> Same(k, v))
  BY <1>1, SameKeyIs
<1>4. same = {k \in {e[1] : e \in x.entries} : Same(k, v)} /\ same \subseteq Plain
  BY <1>2, <1>3
<1>5. ASSUME NEW j \in same, NEW k \in same PROVE ~Less(j, k)
  <2>1. Same(j, v) /\ Same(k, v) /\ j \in Plain /\ k \in Plain
    BY <1>4
  <2>2. Tag(j) \in 0..3 /\ Rank(j) \in Int
    BY <2>1, ValueTypes, PlainRank
  <2> QED BY <2>1, <2>2, LessIs DEF Same
<1>6. Slot(x, v) = {k \in same : \A j \in same : ~Less(j, k)}
  BY <1>2 DEF Slot
<1> QED BY <1>4, <1>5, <1>6

\* What is done to an index leaves an index of its kind.
LEMMA MapTypes ==
  ASSUME NEW x \in Indexes, NEW i \in Ids
  PROVE  /\ \A v \in Values : IdxInsert(x, v, i) \in Indexes /\ IdxInsert(x, v, i).type = x.type
         /\ \A v : IdxRemove(x, v, i) \in Indexes /\ IdxRemove(x, v, i).type = x.type
         /\ \A old : \A new \in Values \cup {Missing} :
              Reindex(x, old, new, i) \in Indexes /\ Reindex(x, old, new, i).type = x.type
<1>1. ASSUME NEW y \in Indexes, NEW v \in Values
      PROVE  IdxInsert(y, v, i) \in Indexes /\ IdxInsert(y, v, i).type = y.type
  <2>1. PICK K : K = IF Slot(y, v) = {} THEN {v} ELSE Slot(y, v)
    OBVIOUS
  <2>2. Slot(y, v) \subseteq {e[1] : e \in y.entries} /\ y.entries \subseteq Values \X Ids
    BY DEF Slot, Indexes
  <2>3. K \subseteq Values
    BY <2>1, <2>2
  <2>4. IdxInsert(y, v, i) = [y EXCEPT !.entries = y.entries \cup {<<k, i>> : k \in K}]
    BY <2>1 DEF IdxInsert
  <2> QED BY <2>2, <2>3, <2>4 DEF Indexes
<1>2. ASSUME NEW y \in Indexes, NEW v
      PROVE  IdxRemove(y, v, i) \in Indexes /\ IdxRemove(y, v, i).type = y.type
  BY DEF IdxRemove, Indexes
<1>3. ASSUME NEW old, NEW new \in Values \cup {Missing}
      PROVE  Reindex(x, old, new, i) \in Indexes /\ Reindex(x, old, new, i).type = x.type
  <2>1. PICK y : y = IF old = Missing THEN x ELSE IdxRemove(x, old, i)
    OBVIOUS
  <2>2. y \in Indexes /\ y.type = x.type
    BY <1>2, <2>1
  <2>3. Reindex(x, old, new, i) \in {x, y} \/ (new \in Values /\ Reindex(x, old, new, i) = IdxInsert(y, new, i))
    BY <2>1 DEF Reindex
  <2> QED BY <1>1, <2>2, <2>3
<1> QED BY <1>1, <1>2, <1>3

LEMMA InsertExact ==
  ASSUME NEW x \in Indexes, x.type # None, NEW held, Exact(x, held),
         NEW i \in Ids, held[i] = Missing, NEW v \in Plain
  PROVE  Exact(IdxInsert(x, v, i), [held EXCEPT ![i] = v])
<1>1. PICK y, h, K : /\ y = IdxInsert(x, v, i) /\ h = [held EXCEPT ![i] = v]
                     /\ K = IF Slot(x, v) = {} THEN {v} ELSE Slot(x, v)
  OBVIOUS
<1>2. /\ x.entries \subseteq Plain \X Ids /\ held \in [Ids -> Plain \cup {Missing}]
      /\ v # Missing /\ h \in [Ids -> Plain \cup {Missing}]
  BY <1>1, QueryConstants DEF Exact, Plain
<1>3. K # {} /\ K \subseteq Plain /\ \A k \in K : Same(k, v)
  BY <1>1, <1>2, SlotIs DEF Same
<1>4. \A e \in x.entries : Same(e[1], v) => e[1] \in K
  BY <1>1, <1>2, SlotIs
<1>5. \A k1, k2 \in K : k1 = k2
  <2>1. CASE Slot(x, v) = {}
    BY <1>1, <2>1
  <2>2. CASE Slot(x, v) # {}
    <3>1. \A k \in K : \E e \in x.entries : k = e[1] /\ Same(k, v)
      BY <1>1, <1>2, <2>2, SlotIs
    <3> QED BY <3>1 DEF Exact, Same
  <2> QED BY <2>1, <2>2
<1>6. y = [x EXCEPT !.entries = x.entries \cup {<<k, i>> : k \in K}]
  BY <1>1 DEF IdxInsert
<1>7. y.entries = x.entries \cup {<<k, i>> : k \in K} /\ y.entries \subseteq Plain \X Ids
  BY <1>2, <1>3, <1>6 DEF Indexes
<1>8. h[i] = v /\ \A j \in Ids \ {i} : h[j] = held[j]
  BY <1>1, <1>2
<1>9. \A e \in x.entries : e[2] \in Ids \ {i}
  BY <1>2 DEF Exact
<1>10. \A e \in y.entries : h[e[2]] # Missing /\ Same(e[1], h[e[2]])
  <2> SUFFICES ASSUME NEW e \in y.entries PROVE h[e[2]] # Missing /\ Same(e[1], h[e[2]])
    OBVIOUS
  <2>1. CASE e \in x.entries
    BY <1>8, <1>9, <2>1 DEF Exact
  <2>2. CASE e \in {<<k, i>> : k \in K}
    BY <1>2, <1>3, <1>8, <2>2
  <2> QED BY <1>7, <2>1, <2>2
<1>11. ASSUME NEW e \in y.entries, NEW g \in y.entries, Same(e[1], g[1]) PROVE e[1] = g[1]
  <2>1. \A a \in {<<k, i>> : k \in K} : a[1] \in K
    OBVIOUS
  <2>2. CASE e[1] \in K
    <3>1. Same(g[1], v) /\ Same(e[1], v)
      BY <1>3, <1>11, <2>2 DEF Same
    <3>2. g[1] \in K
      BY <1>4, <1>7, <2>1, <3>1
    <3> QED BY <1>5, <2>2, <3>2
  <2>3. CASE g[1] \in K
    <3>1. Same(e[1], v)
      BY <1>3, <1>11, <2>3 DEF Same
    <3>2. e[1] \in K
      BY <1>4, <1>7, <2>1, <3>1
    <3> QED BY <1>5, <2>3, <3>2
  <2>4. CASE e[1] \notin K /\ g[1] \notin K
    BY <1>7, <1>11, <2>1, <2>4 DEF Exact
  <2> QED BY <2>2, <2>3, <2>4
<1>12. ASSUME NEW j \in Ids, h[j] # Missing PROVE \E e \in y.entries : e[2] = j
  <2>1. CASE j = i
    <3>1. PICK k \in K : TRUE
      BY <1>3
    <3>2. <<k, i>> \in y.entries /\ <<k, i>>[2] = i
      BY <1>7
    <3> QED BY <2>1, <3>2
  <2>2. CASE j # i
    BY <1>7, <1>8, <1>12, <2>2 DEF Exact
  <2> QED BY <2>1, <2>2
<1> QED BY <1>1, <1>2, <1>7, <1>10, <1>11, <1>12 DEF Exact

LEMMA RemoveExact ==
  ASSUME NEW x \in Indexes, x.type # None, NEW held, Exact(x, held), NEW i \in Ids, held[i] # Missing
  PROVE  Exact(IdxRemove(x, held[i], i), [held EXCEPT ![i] = Missing])
<1>1. PICK y, h, v : y = IdxRemove(x, held[i], i) /\ h = [held EXCEPT ![i] = Missing] /\ v = held[i]
  OBVIOUS
<1>2. /\ x.entries \subseteq Plain \X Ids /\ held \in [Ids -> Plain \cup {Missing}]
      /\ v \in Plain /\ h \in [Ids -> Plain \cup {Missing}]
  BY <1>1 DEF Exact
<1>3. y = [x EXCEPT !.entries = x.entries \ {<<k, i>> : k \in Slot(x, v)}]
  BY <1>1 DEF IdxRemove
<1>4. y.entries = x.entries \ {<<k, i>> : k \in Slot(x, v)} /\ y.entries \subseteq Plain \X Ids
  BY <1>2, <1>3 DEF Indexes
<1>5. h[i] = Missing /\ \A j \in Ids \ {i} : h[j] = held[j]
  BY <1>1, <1>2
<1>6. \A e \in x.entries : e[2] = i => e \in {<<k, i>> : k \in Slot(x, v)}
  <2> SUFFICES ASSUME NEW e \in x.entries, e[2] = i PROVE e \in {<<k, i>> : k \in Slot(x, v)}
    OBVIOUS
  <2>1. e = <<e[1], i>> /\ Same(e[1], v)
    BY <1>1, <1>2 DEF Exact
  <2> QED BY <1>2, <2>1, SlotIs
<1>7. \A e \in y.entries : e \in x.entries /\ e[2] \in Ids \ {i}
  BY <1>2, <1>4, <1>6
<1>8. ASSUME NEW j \in Ids, h[j] # Missing PROVE \E e \in y.entries : e[2] = j
  <2>1. j # i /\ held[j] # Missing
    BY <1>5, <1>8
  <2>2. PICK e \in x.entries : e[2] = j
    BY <2>1 DEF Exact
  <2>3. e \in y.entries
    BY <1>4, <2>1, <2>2
  <2> QED BY <2>2, <2>3
<1>9. \A e \in y.entries : h[e[2]] # Missing /\ Same(e[1], h[e[2]])
  BY <1>5, <1>7 DEF Exact
<1>10. \A e, g \in y.entries : Same(e[1], g[1]) => e[1] = g[1]
  BY <1>7 DEF Exact
<1> QED BY <1>1, <1>2, <1>4, <1>8, <1>9, <1>10 DEF Exact

\* on_update moves an entry to the key of the new value.
LEMMA ReindexExact ==
  ASSUME NEW x \in Indexes, x.type # None, NEW held, Exact(x, held),
         NEW i \in Ids, NEW new \in Plain \cup {Missing}
  PROVE  Exact(Reindex(x, held[i], new, i), [held EXCEPT ![i] = new])
<1>1. PICK old, h : old = held[i] /\ h = [held EXCEPT ![i] = new]
  OBVIOUS
<1>2. /\ held \in [Ids -> Plain \cup {Missing}] /\ old \in Plain \cup {Missing} /\ Missing \notin Plain
      /\ h \in [Ids -> Plain \cup {Missing}]
  BY <1>1, QueryConstants DEF Exact, Plain
<1>3. h[i] = new /\ \A j \in Ids \ {i} : h[j] = held[j]
  BY <1>1, <1>2
<1>4. CASE SameOption(old, new)
  <2>1. (old = Missing <=> new = Missing) /\ (old # Missing => Same(old, new))
    <3>1. CASE old = Missing \/ new = Missing
      BY <1>2, <1>4, <3>1 DEF SameOption
    <3>2. CASE old # Missing /\ new # Missing
      BY <1>2, <1>4, <3>2, EqIs DEF SameOption
    <3> QED BY <3>1, <3>2
  <2>2. Reindex(x, old, new, i) = x
    BY <1>4 DEF Reindex
  <2>3. \A j \in Ids : (held[j] = Missing <=> h[j] = Missing) /\ (held[j] # Missing => Same(held[j], h[j]))
    BY <1>1, <1>3, <2>1 DEF Same
  <2>4. \A e \in x.entries : e[2] \in Ids
    BY DEF Indexes
  <2>5. Exact(x, h)
    BY <1>2, <2>3, <2>4 DEF Exact, Same
  <2> QED BY <1>1, <2>2, <2>5
<1>5. CASE ~SameOption(old, new)
  <2>1. PICK y, m : /\ y = IF old = Missing THEN x ELSE IdxRemove(x, old, i)
                    /\ m = [held EXCEPT ![i] = Missing]
    OBVIOUS
  <2>2. y \in Indexes /\ y.type = x.type /\ Exact(y, m) /\ m[i] = Missing
    <3>1. m[i] = Missing /\ y \in Indexes /\ y.type = x.type
      BY <1>2, <2>1, MapTypes
    <3>2. CASE old = Missing
      <4>1. m = held
        BY <1>1, <1>2, <2>1, <3>2
      <4> QED BY <2>1, <3>1, <3>2, <4>1
    <3>3. CASE old # Missing
      BY <1>1, <2>1, <3>1, <3>3, RemoveExact, ZenonT(60)
    <3> QED BY <3>2, <3>3
  <2>3. Reindex(x, old, new, i) = IF new = Missing THEN y ELSE IdxInsert(y, new, i)
    BY <1>5, <2>1 DEF Reindex
  <2>4. CASE new = Missing
    <3>1. m = h
      BY <1>1, <2>1, <2>4
    <3> QED BY <1>1, <2>2, <2>3, <2>4, <3>1
  <2>5. CASE new # Missing
    <3>1. new \in Plain
      BY <2>5
    <3>2. y.type # None
      BY <2>2
    <3>3. Exact(IdxInsert(y, new, i), [m EXCEPT ![i] = new])
      BY <2>2, <3>1, <3>2, InsertExact
    <3>4. [m EXCEPT ![i] = new] = h
      BY <1>1, <1>2, <2>1
    <3> QED BY <1>1, <2>2, <2>3, <2>5, <3>3, <3>4
  <2> QED BY <2>4, <2>5
<1> QED BY <1>4, <1>5

-----------------------------------------------------------------------------
(* Statements.                                                             *)

LEMMA HeldTypes ==
  ASSUME TypeInv
  PROVE  /\ Held \in [Ids -> Values \cup {Missing}]
         /\ \A i \in Ids : docs[i] # NoDoc => docs[i] \in Docs /\ Held[i] = Get(docs[i])
         /\ \A i \in Ids : docs[i] = NoDoc => Held[i] = Missing
         /\ \A d \in Docs : Get(d) \in Values \cup {Missing} /\ d # NoDoc
<1>1. \A d \in Docs : Get(d) \in Values \cup {Missing} /\ d # NoDoc
  BY QueryConstants DEF Docs, Get
<1>2. \A i \in Ids : docs[i] # NoDoc => docs[i] \in Docs
  BY DEF TypeInv
<1> QED BY <1>1, <1>2 DEF Held

\* An index after a statement that changed the document of one id.
LEMMA DocumentStep ==
  ASSUME TypeInv, IndexInv, NEW i \in Ids, NEW d \in {NoDoc} \cup Docs,
         docs' = [docs EXCEPT ![i] = d],
         NEW new, new = (IF d = NoDoc THEN Missing ELSE Get(d)),
         index' \in [Fields -> Indexes], index'["id"].entries = index["id"].entries,
         index'["path"].type = index["path"].type, ordinary' \in BOOLEAN,
         index["path"].type # None /\ ordinary' => Exact(index'["path"], [Held EXCEPT ![i] = new])
  PROVE  TypeInv' /\ IndexInv'
<1>1. docs' \in [Ids -> {NoDoc} \cup Docs]
  BY DEF TypeInv
<1>2. Held' = [Held EXCEPT ![i] = new]
  BY DEF TypeInv, Held
<1> QED BY <1>1, <1>2 DEF TypeInv, IndexInv

\* What is entered is ordinary, or the index is no longer relied on.
LEMMA EntersIs ==
  ASSUME TypeInv, IndexInv, NEW v \in Values \cup {Missing}, Enters(v)
  PROVE  /\ ordinary' \in BOOLEAN
         /\ index["path"].type # None /\ ordinary' =>
              ordinary /\ v \in Plain \cup {Missing} /\ Exact(index["path"], Held)
<1>1. ordinary' \in BOOLEAN
  BY DEF Enters, TypeInv
<1>2. ASSUME index["path"].type # None, ordinary'
      PROVE  ordinary /\ v \in Plain \cup {Missing} /\ Exact(index["path"], Held)
  <2>1. ordinary /\ (v = Missing \/ Ordinary(v))
    BY <1>2 DEF Enters
  <2> QED BY <1>2, <2>1 DEF Plain, IndexInv
<1> QED BY <1>1, <1>2

LEMMA IndexInit == Init => TypeInv /\ IndexInv
BY DEF Init, TypeInv, IndexInv, NoIndex, Fields, Indexes

LEMMA InsertStep ==
  ASSUME TypeInv, IndexInv, NEW i \in Ids, NEW d \in NewDocs, InsertDocument(i, d)
  PROVE  TypeInv' /\ IndexInv'
<1>1. PICK x, y, new : x = index["path"] /\ y = index["id"] /\ new = Get(d)
  OBVIOUS
<1>2. x \in Indexes /\ y \in Indexes /\ DOMAIN index = Fields
  BY <1>1 DEF TypeInv, Fields
<1>3. d \in Docs
  BY QueryConstants DEF NewDocs, Docs
<1>4. new \in Values \cup {Missing} /\ d # NoDoc /\ Held \in [Ids -> Values \cup {Missing}] /\ Held[i] = Missing
  BY <1>1, <1>3, HeldTypes DEF InsertDocument
<1>5. index' = [f \in Fields |-> IF f = "id" THEN y
                                 ELSE IF x.type = None \/ new = Missing THEN x ELSE IdxInsert(x, new, i)]
  BY <1>1, <1>2 DEF InsertDocument, on_insert, IndexedValue, Fields
<1>6. index'["id"] = y /\ index'["path"] = IF x.type = None \/ new = Missing THEN x ELSE IdxInsert(x, new, i)
  BY <1>5 DEF Fields
<1>7. index'["path"] \in Indexes /\ index'["path"].type = x.type
  BY <1>2, <1>4, <1>6, MapTypes
<1>8. /\ ordinary' \in BOOLEAN
      /\ x.type # None /\ ordinary' => new \in Plain \cup {Missing} /\ Exact(x, Held)
  BY <1>1, <1>4, EntersIs DEF InsertDocument
<1>9. ASSUME x.type # None, ordinary' PROVE Exact(index'["path"], [Held EXCEPT ![i] = new])
  <2>1. new \in Plain \cup {Missing} /\ Exact(x, Held)
    BY <1>8, <1>9
  <2>2. CASE new = Missing
    <3>1. [Held EXCEPT ![i] = new] = Held
      BY <1>4, <2>2
    <3> QED BY <1>6, <2>1, <2>2, <3>1
  <2>3. CASE new # Missing
    <3>1. Exact(IdxInsert(x, new, i), [Held EXCEPT ![i] = new])
      BY <1>2, <1>4, <1>9, <2>1, <2>3, InsertExact
    <3> QED BY <1>6, <1>9, <2>3, <3>1
  <2> QED BY <2>2, <2>3
<1>10. index' \in [Fields -> Indexes]
  BY <1>2, <1>5, <1>6, <1>7 DEF Fields
<1>11. docs' = [docs EXCEPT ![i] = d] /\ new = (IF d = NoDoc THEN Missing ELSE Get(d))
  BY <1>1, <1>4 DEF InsertDocument
<1> QED BY <1>1, <1>3, <1>6, <1>7, <1>8, <1>9, <1>10, <1>11, DocumentStep

LEMMA RemoveStep ==
  ASSUME TypeInv, IndexInv, NEW i \in Ids, RemoveDocument(i)
  PROVE  TypeInv' /\ IndexInv'
<1>1. PICK x, y, old : x = index["path"] /\ y = index["id"] /\ old = Get(docs[i])
  OBVIOUS
<1>2. x \in Indexes /\ y \in Indexes /\ DOMAIN index = Fields
  BY <1>1 DEF TypeInv, Fields
<1>3. Held \in [Ids -> Values \cup {Missing}] /\ Held[i] = old
  BY <1>1, HeldTypes DEF RemoveDocument
<1>4. index' = [f \in Fields |-> IF f = "id" THEN y
                                 ELSE IF x.type = None \/ old = Missing THEN x ELSE IdxRemove(x, old, i)]
  BY <1>1, <1>2 DEF RemoveDocument, on_remove, IndexedValue, Fields
<1>5. index'["id"] = y /\ index'["path"] = IF x.type = None \/ old = Missing THEN x ELSE IdxRemove(x, old, i)
  BY <1>4 DEF Fields
<1>6. index'["path"] \in Indexes /\ index'["path"].type = x.type
  BY <1>2, <1>5, MapTypes
<1>7. ordinary' = ordinary /\ ordinary \in BOOLEAN
  BY DEF RemoveDocument, TypeInv
<1>8. ASSUME x.type # None, ordinary' PROVE Exact(index'["path"], [Held EXCEPT ![i] = Missing])
  <2>1. Exact(x, Held)
    BY <1>1, <1>7, <1>8 DEF IndexInv
  <2>2. CASE old = Missing
    <3>1. [Held EXCEPT ![i] = Missing] = Held
      BY <1>3, <2>2
    <3> QED BY <1>5, <2>1, <2>2, <3>1
  <2>3. CASE old # Missing
    <3>1. Exact(IdxRemove(x, Held[i], i), [Held EXCEPT ![i] = Missing])
      BY <1>2, <1>3, <1>8, <2>1, <2>3, RemoveExact
    <3> QED BY <1>3, <1>5, <1>8, <2>3, <3>1
  <2> QED BY <2>2, <2>3
<1>9. index' \in [Fields -> Indexes]
  BY <1>2, <1>4, <1>5, <1>6 DEF Fields
<1>10. docs' = [docs EXCEPT ![i] = NoDoc] /\ Missing = (IF NoDoc = NoDoc THEN Missing ELSE Get(NoDoc))
  BY DEF RemoveDocument
<1> QED BY <1>1, <1>5, <1>6, <1>7, <1>8, <1>9, <1>10, DocumentStep

LEMMA UpdateStep ==
  ASSUME TypeInv, IndexInv, NEW i \in Ids, NEW v \in Values, Update(i, v)
  PROVE  TypeInv' /\ IndexInv'
<1>1. PICK x, y, d, old, new : /\ x = index["path"] /\ y = index["id"] /\ d = Assign(docs[i], v)
                               /\ old = Get(docs[i]) /\ new = Get(d)
  OBVIOUS
<1>2. x \in Indexes /\ y \in Indexes /\ DOMAIN index = Fields
  BY <1>1 DEF TypeInv, Fields
<1>3. docs[i] \in Docs /\ d \in Docs
  <2>1. docs[i] \in Docs
    BY HeldTypes DEF Update
  <2> QED BY <1>1, <2>1 DEF Assign, Docs
<1>4. Held \in [Ids -> Values \cup {Missing}] /\ Held[i] = old /\ new \in Values \cup {Missing} /\ d # NoDoc
  BY <1>1, <1>3, HeldTypes DEF Update
<1>5. docs' = [docs EXCEPT ![i] = d] /\ docs'[i] = d
  BY <1>1 DEF Update, TypeInv
<1>6. index' = [f \in Fields |-> IF f = "id" THEN y
                                 ELSE IF x.type = None THEN x ELSE Reindex(x, old, new, i)]
  <2>1. index' = on_update(docs[i], d, i)
    BY <1>5 DEF Update
  <2>2. Reindex(y, Missing, Missing, i) = y
    BY DEF Reindex, SameOption
  <2> QED BY <1>1, <1>2, <2>1, <2>2 DEF on_update, IndexedValue, Fields
<1>7. index'["id"] = y /\ index'["path"] = IF x.type = None THEN x ELSE Reindex(x, old, new, i)
  BY <1>6 DEF Fields
<1>8. index'["path"] \in Indexes /\ index'["path"].type = x.type
  BY <1>2, <1>4, <1>7, MapTypes
<1>9. /\ ordinary' \in BOOLEAN
      /\ x.type # None /\ ordinary' => new \in Plain \cup {Missing} /\ Exact(x, Held)
  <2>1. Enters(new)
    BY <1>1, <1>5 DEF Update
  <2> QED BY <1>1, <1>4, <2>1, EntersIs
<1>10. ASSUME x.type # None, ordinary' PROVE Exact(index'["path"], [Held EXCEPT ![i] = new])
  <2>1. Exact(Reindex(x, Held[i], new, i), [Held EXCEPT ![i] = new])
    BY <1>2, <1>9, <1>10, ReindexExact
  <2> QED BY <1>4, <1>7, <1>10, <2>1
<1>11. index' \in [Fields -> Indexes]
  BY <1>2, <1>6, <1>7, <1>8 DEF Fields
<1>12. new = (IF d = NoDoc THEN Missing ELSE Get(d))
  BY <1>1, <1>4
<1> QED BY <1>1, <1>3, <1>5, <1>7, <1>8, <1>9, <1>10, <1>11, <1>12, DocumentStep

\* CREATE INDEX enters every document, each value under one key.
LEMMA BuiltExact ==
  ASSUME TypeInv, NEW type \in {"hash", "ordered"}, NEW f \in Fields, NEW built \in Built(f, type),
         NEW x, x = [type |-> type, entries |-> built]
  PROVE  /\ x \in Indexes /\ (f = "id" => built = {})
         /\ f = "path" /\ (\A v \in Kept : Ordinary(v)) => Exact(x, Held)
<1>1. PICK having, keys : /\ having = {i \in Stored : IndexedValue(f, docs[i]) # Missing}
                          /\ keys = {IndexedValue(f, docs[i]) : i \in having}
  OBVIOUS
<1>2. PICK r \in [keys -> keys] :
        /\ \A v, w \in keys : SameKey(type, r[v], v) /\ (SameKey(type, v, w) => r[v] = r[w])
        /\ built = {<<r[IndexedValue(f, docs[i])], i>> : i \in having}
  BY <1>1 DEF Built
<1>3. CASE f = "id"
  <2>1. having = {}
    BY <1>1, <1>3 DEF IndexedValue
  <2>2. built = {}
    BY <1>2, <2>1
  <2> QED BY <1>3, <2>2 DEF Indexes
<1>4. CASE f = "path"
  <2>1. /\ having = {i \in Ids : Held[i] # Missing} /\ \A i \in having : IndexedValue(f, docs[i]) = Held[i]
        /\ keys \subseteq Values
    <3>1. \A i \in Stored : IndexedValue(f, docs[i]) = Held[i] /\ Held[i] \in Values \cup {Missing}
      BY <1>4, HeldTypes DEF IndexedValue, Stored
    <3>2. \A i \in Ids : i \in Stored \/ Held[i] = Missing
      BY HeldTypes DEF Stored
    <3>3. having = {i \in Ids : Held[i] # Missing}
      BY <1>1, <3>1, <3>2 DEF Stored
    <3> QED BY <1>1, <3>1, <3>3
  <2>2. built = {<<r[Held[i]], i>> : i \in having} /\ \A i \in having : Held[i] \in keys
    BY <1>1, <1>2, <2>1
  <2>3. x.entries = built /\ x.type = type /\ x \in Indexes
    BY <2>1, <2>2 DEF Indexes
  <2>4. \A e \in built : \E i \in having : e = <<r[Held[i]], i>>
    BY <2>2
  <2> SUFFICES ASSUME \A v \in Kept : Ordinary(v) PROVE Exact(x, Held)
    BY <1>4, <2>3
  <2>5. keys \subseteq Plain /\ Held \in [Ids -> Plain \cup {Missing}]
    <3>1. \A i \in Ids : Held[i] # Missing => Held[i] \in Kept
      BY HeldTypes DEF Kept, Stored
    <3>2. \A i \in Ids : Held[i] \in Plain \cup {Missing}
      BY <3>1, HeldTypes DEF Plain
    <3>3. keys = {Held[i] : i \in having}
      BY <1>1, <2>1
    <3> QED BY <2>1, <3>2, <3>3, HeldTypes
  <2>6. \A v \in keys : r[v] \in keys /\ Same(r[v], v)
    BY <1>2, <2>5, SameKeyIs
  <2>7. \A v, w \in keys : Same(v, w) => r[v] = r[w]
    BY <1>2, <2>5, SameKeyIs
  <2>8. built \subseteq Plain \X Ids
    BY <2>1, <2>2, <2>6, <2>5
  <2>9. \A e \in built : Held[e[2]] # Missing /\ Same(e[1], Held[e[2]])
    BY <2>1, <2>2, <2>6, <2>4
  <2>10. ASSUME NEW e \in built, NEW g \in built, Same(e[1], g[1]) PROVE e[1] = g[1]
    <3>1. PICK i \in having : e[1] = r[Held[i]]
      BY <2>4
    <3>2. PICK j \in having : g[1] = r[Held[j]]
      BY <2>4
    <3>3. Same(Held[i], Held[j])
      BY <2>2, <2>6, <2>10, <3>1, <3>2 DEF Same
    <3> QED BY <2>2, <2>7, <3>1, <3>2, <3>3
  <2>11. ASSUME NEW i \in Ids, Held[i] # Missing PROVE \E e \in built : e[2] = i
    <3>1. <<r[Held[i]], i>> \in built /\ <<r[Held[i]], i>>[2] = i
      BY <2>1, <2>2, <2>11
    <3> QED BY <3>1
  <2> QED BY <2>3, <2>9, <2>10, <2>11, <2>5, <2>8 DEF Exact
<1> QED BY <1>3, <1>4 DEF Fields

LEMMA IndexStep ==
  ASSUME TypeInv, IndexInv, [Next]_vars
  PROVE  TypeInv' /\ IndexInv'
<1>1. ASSUME UNCHANGED vars PROVE TypeInv' /\ IndexInv'
  BY <1>1 DEF TypeInv, IndexInv, Held, vars
<1>2. ASSUME NEW i \in Ids, NEW d \in NewDocs, InsertDocument(i, d) PROVE TypeInv' /\ IndexInv'
  BY <1>2, InsertStep
<1>3. ASSUME NEW i \in Ids, RemoveDocument(i) PROVE TypeInv' /\ IndexInv'
  BY <1>3, RemoveStep
<1>4. ASSUME NEW i \in Ids, NEW v, Update(i, v) PROVE TypeInv' /\ IndexInv'
  <2>1. v \in Values
    BY <1>4 DEF Update
  <2> QED BY <1>4, <2>1, UpdateStep
<1>5. ASSUME NEW i \in Ids, NEW v, Assigns(i, v) PROVE TypeInv' /\ IndexInv'
  BY <1>1, <1>4, <1>5 DEF Assigns
<1>6. ASSUME NEW i \in Ids, UpdateNegated(i) PROVE TypeInv' /\ IndexInv'
  BY <1>5, <1>6 DEF UpdateNegated
<1>7. ASSUME NEW i \in Ids, NEW op, NEW w, UpdateArithmetic(i, op, w) PROVE TypeInv' /\ IndexInv'
  <2>1. PICK v, z : v = FieldValue("path", i) /\ z = Arithmetic(op, v, w)
    OBVIOUS
  <2>2. UNCHANGED vars \/ Assigns(i, z)
    BY <1>7, <2>1 DEF UpdateArithmetic
  <2> QED BY <1>1, <1>5, <2>2
<1>8. ASSUME NEW f \in Fields, NEW x \in Indexes, docs' = docs, index' = [index EXCEPT ![f] = x],
             ordinary' \in BOOLEAN, f = "id" => x.entries = {} /\ ordinary' = ordinary,
             f = "path" /\ x.type # None /\ ordinary' => Exact(x, Held)
      PROVE  TypeInv' /\ IndexInv'
  <2>1. index' \in [Fields -> Indexes] /\ index'[f] = x /\ \A g \in Fields \ {f} : index'[g] = index[g]
    BY <1>8 DEF TypeInv
  <2>2. Held' = Held
    BY <1>8 DEF Held
  <2>3. "id" \in Fields /\ "path" \in Fields
    BY DEF Fields
  <2>4. index'["id"].entries = {}
    BY <1>8, <2>1, <2>3 DEF IndexInv
  <2>5. index'["path"].type # None /\ ordinary' => Exact(index'["path"], Held)
    <3>1. CASE f = "path"
      BY <1>8, <2>1, <3>1
    <3>2. CASE f = "id"
      BY <1>8, <2>1, <2>3, <3>2 DEF IndexInv
    <3> QED BY <3>1, <3>2 DEF Fields
  <2> QED BY <1>8, <2>1, <2>2, <2>4, <2>5 DEF TypeInv, IndexInv
<1>9. ASSUME NEW f \in Fields, NEW type \in IndexTypes[f], CreateIndex(f, type) PROVE TypeInv' /\ IndexInv'
  <2>1. type \in {"hash", "ordered"}
    BY QueryConstants DEF Fields
  <2>2. PICK built \in Built(f, type) : index' = [index EXCEPT ![f] = [type |-> type, entries |-> built]]
    BY <1>9 DEF CreateIndex
  <2>3. PICK x : x = [type |-> type, entries |-> built]
    OBVIOUS
  <2>4. /\ x \in Indexes /\ (f = "id" => built = {}) /\ x.entries = built
        /\ f = "path" /\ (\A v \in Kept : Ordinary(v)) => Exact(x, Held)
    BY <2>1, <2>3, BuiltExact
  <2>5. /\ ordinary' = IF f = "path" THEN \A v \in Kept : Ordinary(v) ELSE ordinary
        /\ docs' = docs
    BY <1>9 DEF CreateIndex
  <2>6. ordinary' \in BOOLEAN
    BY <2>5 DEF TypeInv
  <2>7. f = "id" => x.entries = {} /\ ordinary' = ordinary
    BY <2>4, <2>5
  <2>8. f = "path" /\ x.type # None /\ ordinary' => Exact(x, Held)
    BY <2>4, <2>5
  <2>9. index' = [index EXCEPT ![f] = x]
    BY <2>2, <2>3
  <2> QED BY <1>8, <2>4, <2>5, <2>6, <2>7, <2>8, <2>9
<1>10. ASSUME NEW f \in Fields, DropIndex(f) PROVE TypeInv' /\ IndexInv'
  <2>1. NoIndex \in Indexes /\ NoIndex.entries = {} /\ NoIndex.type = None
    BY DEF NoIndex, Indexes
  <2>2. /\ docs' = docs /\ index' = [index EXCEPT ![f] = NoIndex]
        /\ ordinary' \in BOOLEAN /\ (f = "id" => ordinary' = ordinary)
    BY <1>10 DEF DropIndex, TypeInv
  <2> QED BY <1>8, <2>1, <2>2
<1> QED BY <1>1, <1>2, <1>3, <1>4, <1>6, <1>7, <1>9, <1>10 DEF Next, vars

LEMMA IndexHolds == Spec => [](TypeInv /\ IndexInv)
<1>1. Init => TypeInv /\ IndexInv
  BY IndexInit
<1>2. TypeInv /\ IndexInv /\ [Next]_vars => TypeInv' /\ IndexInv'
  BY IndexStep
<1> QED BY <1>1, <1>2, PTL DEF Spec

-----------------------------------------------------------------------------
(* What the statements see.                                                *)

\* What two values are compared by.
LEMMA KeyTypes ==
  ASSUME NEW v \in Values, NEW w \in Values
  PROVE  /\ Key(v, w) \in Int
         /\ v.t = "int" /\ w.t = "int" => Key(v, w) = 4 * v.n
         /\ v.t = "int" /\ w.t # "int" => Key(v, w) = AsF64(v.n)
         /\ v.t # "int" => Key(v, w) = v.n
         /\ Key(v, w) = -1 /\ Tag(v) = 2 <=> NegativeZero(v)
         /\ Key(v, w) = 0 /\ Tag(v) = 2 <=> v.t \in {"int", "float"} /\ v.n = 0
<1>1. v.n \in Int /\ (Tag(v) = 2 <=> v.t \in {"int", "float"})
  BY ValueTypes
<1>2. /\ AsF64(v.n) \in Int /\ AsF64(v.n) # -1 /\ (AsF64(v.n) = 0 <=> v.n = 0)
      /\ 4 * v.n \in Int /\ 4 * v.n # -1 /\ (4 * v.n = 0 <=> v.n = 0)
  BY <1>1, Nearest, OnlyZero
<1> QED BY <1>1, <1>2 DEF Key, NegativeZero

\* Where the order and equality part: -0.0.
LEMMA OrderEquality ==
  ASSUME NEW v \in Values, NEW w \in Values
  PROVE  CmpEqual(v, w) <=> Eq(v, w) /\ ~OtherZero(v, w)
<1>1. Tag(v) \in Int /\ Tag(w) \in Int /\ Key(v, w) \in Int /\ Key(w, v) \in Int
  BY ValueTypes, KeyTypes
<1>2. CmpEqual(v, w) <=> Tag(v) = Tag(w) /\ Key(v, w) = Key(w, v)
  BY <1>1 DEF CmpEqual, Less
<1>3. CASE Tag(v) # Tag(w)
  BY <1>2, <1>3 DEF Eq
<1>4. CASE Tag(v) = Tag(w) /\ Tag(v) # 2
  <2>1. v.t \notin {"int", "float"} /\ w.t \notin {"int", "float"}
    BY <1>4, ValueTypes
  <2>2. Key(v, w) = v.n /\ Key(w, v) = w.n /\ ~OtherZero(v, w)
    BY <2>1, KeyTypes DEF OtherZero
  <2> QED BY <1>2, <1>4, <2>2 DEF Eq
<1>5. CASE Tag(v) = 2 /\ Tag(w) = 2
  <2>1. Eq(v, w) <=> Unsigned(Key(v, w)) = Unsigned(Key(w, v))
    BY <1>5 DEF Eq
  <2>2. /\ Key(v, w) = -1 <=> NegativeZero(v)
        /\ Key(w, v) = -1 <=> NegativeZero(w)
        /\ Key(v, w) = 0 <=> v.t \in {"int", "float"} /\ v.n = 0
        /\ Key(w, v) = 0 <=> w.t \in {"int", "float"} /\ w.n = 0
    BY <1>5, KeyTypes
  <2>3. /\ NegativeZero(v) => v.t \in {"int", "float"} /\ v.n = -1
        /\ NegativeZero(w) => w.t \in {"int", "float"} /\ w.n = -1
    BY DEF NegativeZero
  <2>4. OtherZero(v, w) <=> /\ Key(v, w) \in {0, -1} /\ Key(w, v) \in {0, -1}
                            /\ (Key(v, w) = -1) # (Key(w, v) = -1)
    <3>1. OtherZero(v, w) <=> /\ v.t \in {"int", "float"} /\ (v.n = 0 \/ NegativeZero(v))
                              /\ w.t \in {"int", "float"} /\ (w.n = 0 \/ NegativeZero(w))
                              /\ NegativeZero(v) # NegativeZero(w)
      BY DEF OtherZero
    <3>2. (NegativeZero(v) # NegativeZero(w)) <=> ((Key(v, w) = -1) # (Key(w, v) = -1))
      <4>1. NegativeZero(v) \in BOOLEAN /\ NegativeZero(w) \in BOOLEAN
        BY DEF NegativeZero
      <4> QED BY <2>2, <4>1
    <3> QED BY <2>2, <2>3, <3>1, <3>2
  <2> QED BY <1>1, <1>2, <1>5, <2>1, <2>4 DEF Unsigned
<1> QED BY <1>3, <1>4, <1>5

\* Where equality and the hash part: an Int and the Float it is rounded to.
LEMMA EqualityHash ==
  ASSUME NEW v \in Values, NEW w \in Values, Eq(v, w)
  PROVE  Hash(v) = Hash(w) <=> ~ByRounding(v, w) /\ ~ByRounding(w, v)
<1>1. ASSUME NEW x \in Values, NEW y \in Values, x.t = "int", y.t = "float", Eq(x, y)
      PROVE  Hash(x) = Hash(y) <=> ~ByRounding(x, y)
  <2>1. PICK k : k = x.n
    OBVIOUS
  <2>2. k \in Int /\ k \in MinInt..MaxInt /\ MinInt \in Int /\ MaxInt \in Nat /\ y.n \in Int
    BY <1>1, <2>1, ValueTypes, QueryConstants
  <2>3. /\ Hash(x) = <<2, FALSE, k>> /\ Hash(y) = <<2, FALSE, AsI64(AsF64(k))>>
        /\ Unsigned(y.n) = AsF64(k)
    BY <1>1, <2>1, HashPair
  <2>4. CASE y.n # -1
    <3>1. y.n = AsF64(k)
      BY <2>3, <2>4 DEF Unsigned
    <3> QED BY <1>1, <2>1, <2>3, <3>1 DEF ByRounding
  <2>5. CASE y.n = -1
    <3>1. AsF64(k) = 0 /\ k = 0
      BY <2>2, <2>3, <2>5, OnlyZero DEF Unsigned
    <3>2. AsI64(0) = 0
      <4>1. 0 \div 4 = 0
        OBVIOUS
      <4> QED BY <2>2, <3>1, <4>1 DEF AsI64
    <3> QED BY <1>1, <2>1, <2>3, <2>5, <3>1, <3>2 DEF ByRounding
  <2> QED BY <2>4, <2>5
<1>2. Tag(v) = Tag(w)
  BY DEF Eq
<1>3. CASE v = w
  BY <1>3 DEF ByRounding
<1>4. CASE v # w /\ v.t = w.t
  <2>1. v.n # w.n /\ v.n \in Int /\ w.n \in Int
    BY <1>4, ValueTypes
  <2>2. v.t = "float" /\ w.t = "float" /\ Unsigned(v.n) = Unsigned(w.n)
    <3>1. CASE Tag(v) # 2
      BY <2>1, <3>1 DEF Eq
    <3>2. CASE Tag(v) = 2 /\ v.t = "int"
      <4>1. Key(v, w) = 4 * v.n /\ Key(w, v) = 4 * w.n
        BY <1>4, <3>2, KeyTypes
      <4>2. 4 * v.n # -1 /\ 4 * w.n # -1 /\ 4 * v.n # 4 * w.n
        BY <2>1
      <4> QED BY <3>2, <4>1, <4>2 DEF Eq, Unsigned
    <3>3. CASE Tag(v) = 2 /\ v.t = "float"
      <4>1. Key(v, w) = v.n /\ Key(w, v) = w.n
        BY <1>4, <3>3, KeyTypes
      <4> QED BY <1>4, <3>3, <4>1 DEF Eq
    <3> QED BY <3>1, <3>2, <3>3, ValueTypes
  <2>3. Unsigned(v.n) = 0 /\ Unsigned(w.n) = 0
    BY <2>1, <2>2 DEF Unsigned
  <2>4. 0 \in MinInt..MaxInt /\ 0 \in Int /\ AsF64(0) = 0
    BY QueryConstants, OnlyZero
  <2>5. Hash(v) = Hash(w)
    BY <2>2, <2>3, <2>4, HashOfWhole
  <2> QED BY <2>2, <2>5 DEF ByRounding
<1>5. CASE v.t = "int" /\ w.t = "float"
  BY <1>1, <1>5 DEF ByRounding
<1>6. CASE v.t = "float" /\ w.t = "int"
  <2>1. Eq(w, v)
    BY DEF Eq
  <2> QED BY <1>1, <1>6, <2>1 DEF ByRounding
<1>7. v.t = w.t \/ (v.t = "int" /\ w.t = "float") \/ (v.t = "float" /\ w.t = "int")
  BY <1>2, ValueTypes
<1> QED BY <1>3, <1>4, <1>5, <1>6, <1>7

\* Where the order is not transitive: a Float that two Ints are rounded to.
LEMMA OrderTransitive ==
  ASSUME NEW v \in Values, NEW w \in Values, NEW u \in Values, ~Less(w, v), ~Less(u, w)
  PROVE  Less(u, v) <=> Between(v, w, u)
<1>1. \A x \in {v, w, u} : Tag(x) \in Int /\ x.n \in Int /\ (Tag(x) = 2 <=> x.t \in {"int", "float"})
  BY ValueTypes
<1>2. Tag(v) <= Tag(w) /\ Tag(w) <= Tag(u)
  BY <1>1 DEF Less
<1>3. CASE Tag(v) # Tag(u)
  <2>1. ~Less(u, v)
    BY <1>1, <1>2, <1>3 DEF Less
  <2> QED BY <1>1, <1>3, <2>1 DEF Between
<1>4. CASE Tag(v) = Tag(u)
  <2>1. Tag(w) = Tag(v)
    BY <1>1, <1>2, <1>4
  <2>2. /\ Key(v, w) <= Key(w, v) /\ Key(w, u) <= Key(u, w)
        /\ Less(u, v) <=> Key(u, v) < Key(v, u)
    <3>1. Key(v, w) \in Int /\ Key(w, v) \in Int /\ Key(w, u) \in Int /\ Key(u, w) \in Int
      BY KeyTypes
    <3> QED BY <1>1, <1>4, <2>1, <3>1 DEF Less
  <2>3. PICK a, b, c : a = v.n /\ b = w.n /\ c = u.n
    OBVIOUS
  <2>4. PICK A, B, C : A = AsF64(a) /\ B = AsF64(b) /\ C = AsF64(c)
    OBVIOUS
  <2>5. /\ a \in Int /\ b \in Int /\ c \in Int /\ A \in Int /\ B \in Int /\ C \in Int
        /\ (a <= b => A <= B) /\ (b <= c => B <= C) /\ (c <= a => C <= A)
    BY <1>1, <2>3, <2>4, Monotone
  <2>6. /\ Key(v, w) = IF v.t = "int" THEN (IF w.t = "int" THEN 4 * a ELSE A) ELSE a
        /\ Key(v, u) = IF v.t = "int" THEN (IF u.t = "int" THEN 4 * a ELSE A) ELSE a
        /\ Key(w, v) = IF w.t = "int" THEN (IF v.t = "int" THEN 4 * b ELSE B) ELSE b
        /\ Key(w, u) = IF w.t = "int" THEN (IF u.t = "int" THEN 4 * b ELSE B) ELSE b
        /\ Key(u, v) = IF u.t = "int" THEN (IF v.t = "int" THEN 4 * c ELSE C) ELSE c
        /\ Key(u, w) = IF u.t = "int" THEN (IF w.t = "int" THEN 4 * c ELSE C) ELSE c
    BY <2>3, <2>4 DEF Key
  <2>7. Between(v, w, u) <=> /\ v.t = "int" /\ w.t # "int" /\ u.t = "int"
                             /\ c < a /\ A = b /\ C = b
    BY <1>1, <2>1, <2>3, <2>4 DEF Between
  <2>8. CASE v.t = "int"
    <3>1. CASE w.t = "int"
      BY <2>2, <2>5, <2>6, <2>7, <2>8, <3>1
    <3>2. CASE w.t # "int"
      BY <2>2, <2>5, <2>6, <2>7, <2>8, <3>2
    <3> QED BY <3>1, <3>2
  <2>9. CASE v.t # "int"
    <3>1. CASE w.t = "int"
      BY <2>2, <2>5, <2>6, <2>7, <2>9, <3>1
    <3>2. CASE w.t # "int"
      BY <2>2, <2>5, <2>6, <2>7, <2>9, <3>2
    <3> QED BY <3>1, <3>2
  <2> QED BY <2>8, <2>9
<1> QED BY <1>3, <1>4

\* Over all that documents hold, whatever UPDATE has computed, equality, order and
\* hash fit together but for -0.0 and for Ints that a Float equals by rounding; and
\* there they do not, so that value.rs has no total order and no consistent hash.
THEOREM ValuesCorrect == Spec => []ValuesConsistent
<1>1. TypeInv => ValuesConsistent
  <2> SUFFICES ASSUME TypeInv, NEW v \in Kept, NEW w \in Kept \cup Literals, NEW u \in Kept \cup Literals
               PROVE  /\ CmpEqual(v, w) <=> Eq(v, w) /\ ~OtherZero(v, w)
                      /\ Eq(v, w) => (Hash(v) = Hash(w) <=> ~ByRounding(v, w) /\ ~ByRounding(w, v))
                      /\ ~Less(w, v) /\ ~Less(u, w) => (~Less(u, v) <=> ~Between(v, w, u))
    BY DEF ValuesConsistent
  <2>1. Kept \subseteq Values /\ Literals \subseteq Values
    BY HeldTypes, QueryConstants DEF Kept, Stored
  <2>2. v \in Values /\ w \in Values /\ u \in Values
    BY <2>1
  <2> QED BY <2>2, OrderEquality, EqualityHash, OrderTransitive
<1> QED BY <1>1, IndexHolds, PTL

\* As long as it is given ordinary numbers, an index holds one entry for each document
\* that has its field and nothing else, under a key that the value of now is found
\* by: for both kinds of index, any mixture of types and any sequence of statements.
THEOREM EntriesCorrect == Spec => []EntriesExact
<1>1. TypeInv /\ IndexInv => EntriesExact
  <2> SUFFICES ASSUME TypeInv, IndexInv, index["path"].type # None, ordinary, NEW i \in Ids,
                      NEW mine, mine = {e \in index["path"].entries : e[2] = i}
               PROVE  IF docs[i] = NoDoc \/ (docs[i] # NoDoc /\ Get(docs[i]) = Missing) THEN mine = {}
                      ELSE /\ Cardinality(mine) = 1
                           /\ \A e \in mine : SameKey(index["path"].type, e[1], Get(docs[i]))
    BY DEF EntriesExact
  <2>1. PICK x : x = index["path"]
    OBVIOUS
  <2>2. /\ x \in Indexes /\ x.type \in {"hash", "ordered"} /\ Exact(x, Held)
        /\ x.entries \subseteq Plain \X Ids /\ Held \in [Ids -> Plain \cup {Missing}]
    BY <2>1 DEF TypeInv, IndexInv, Fields, Indexes, Exact
  <2>3. CASE Held[i] = Missing
    <3>1. mine = {}
      BY <2>1, <2>2, <2>3 DEF Exact
    <3> QED BY <2>3, <3>1, HeldTypes
  <2>4. CASE Held[i] # Missing
    <3>1. docs[i] # NoDoc /\ Get(docs[i]) = Held[i] /\ Held[i] \in Plain
      BY <2>2, <2>4, HeldTypes
    <3>2. PICK e \in x.entries : e[2] = i
      BY <2>2, <2>4 DEF Exact
    <3>3. \A g \in mine : g = e
      <4> SUFFICES ASSUME NEW g \in mine PROVE g = e
        OBVIOUS
      <4>1. g \in x.entries /\ g[2] = i
        BY <2>1
      <4>2. Same(g[1], e[1])
        BY <2>2, <3>2, <4>1 DEF Exact, Same
      <4>3. g[1] = e[1]
        BY <2>2, <3>2, <4>1, <4>2 DEF Exact
      <4> QED BY <2>2, <3>2, <4>1, <4>3
    <3>4. mine = {e}
      BY <2>1, <3>2, <3>3
    <3>5. Cardinality(mine) = 1
      BY <3>4, FS_Singleton
    <3>6. e[1] \in Plain /\ Same(e[1], Held[i])
      BY <2>2, <3>2 DEF Exact
    <3>7. SameKey(x.type, e[1], Held[i])
      BY <2>2, <3>1, <3>6, SameKeyIs
    <3> QED BY <2>1, <2>4, <3>1, <3>4, <3>5, <3>7
  <2> QED BY <2>3, <2>4
<1> QED BY <1>1, IndexHolds, PTL

-----------------------------------------------------------------------------
(* Plans.                                                                  *)

\* The truth of a comparison or a BETWEEN of the value v.
Holds(q, v) ==
  IF q.op = "between" THEN ~Less(v, q.a) /\ ~Less(q.b, v)
  ELSE IF q.side = "left" THEN Compare(q.op, v, q.a) ELSE Compare(q.op, q.a, v)

Ranged == {"eq", "gt", "ge", "lt", "le", "between"}

LEMMA TruthOf == ASSUME NEW b \in BOOLEAN PROVE (is_truthy(Bool(b)) <=> b) /\ Bool(b) # Refused
<1>1. Bool(b).t = "bool" /\ Bool(b).n = IF b THEN 1 ELSE 0
  BY DEF Bool
<1> QED BY <1>1 DEF is_truthy, Refused

LEMMA EvalIs ==
  ASSUME NEW q \in Filters, q.op \in Ranged
  PROVE  /\ q.field \in Fields /\ q.a \in Values /\ (q.op = "between" => q.b \in Values)
         /\ \A v : EvalAtom(q, v) = Bool(Holds(q, v)) /\ Holds(q, v) \in BOOLEAN
         /\ \A i : Eval(q, i) = EvalAtom(q, FieldValue(q.field, i))
<1>1. q \in Atoms
  BY DEF Filters, Ranged
<1>2. q.field \in Fields /\ q.a \in Literals /\ (q.op = "between" => q.b \in Literals)
  BY <1>1 DEF Atoms, Ranged, Fields, CmpOps
<1>3. q.a \in Values /\ (q.op = "between" => q.b \in Values)
  BY <1>2, QueryConstants
<1>4. \A v : EvalAtom(q, v) = Bool(Holds(q, v))
  BY DEF EvalAtom, Holds, Ranged
<1>5. \A v, w : \A op \in Ranged \ {"between"} : Compare(op, v, w) \in BOOLEAN
  <2>1. \A v, w : Less(v, w) \in BOOLEAN /\ Eq(v, w) \in BOOLEAN
    BY DEF Less, Eq
  <2> SUFFICES ASSUME NEW v, NEW w, NEW op \in Ranged \ {"between"}
               PROVE  Compare(op, v, w) \in BOOLEAN
    OBVIOUS
  <2>2. /\ Less(v, w) \in BOOLEAN /\ Less(w, v) \in BOOLEAN /\ Eq(v, w) \in BOOLEAN
        /\ (~Less(v, w)) \in BOOLEAN /\ (~Less(w, v)) \in BOOLEAN
    BY <2>1
  <2>3. CASE op = "eq"
    BY <2>2, <2>3 DEF Compare
  <2>4. CASE op = "gt"
    BY <2>2, <2>4 DEF Compare
  <2>5. CASE op = "ge"
    BY <2>2, <2>5 DEF Compare
  <2>6. CASE op = "lt"
    BY <2>2, <2>6 DEF Compare
  <2>7. CASE op = "le"
    BY <2>2, <2>7 DEF Compare
  <2> QED BY <2>3, <2>4, <2>5, <2>6, <2>7 DEF Ranged
<1>6. \A v : Holds(q, v) \in BOOLEAN
  BY <1>5 DEF Holds
<1>7. \A i : Eval(q, i) = EvalAtom(q, FieldValue(q.field, i))
  BY DEF Eval, Ranged
<1> QED BY <1>2, <1>3, <1>4, <1>6, <1>7

\* A filter of ordinary literals does not tell the same values apart.
LEMMA HoldsIs ==
  ASSUME NEW q, q.op \in Ranged, q.a \in Plain, q.op = "between" => q.b \in Plain
  PROVE  /\ \A v, w \in Plain : Same(v, w) => (Holds(q, v) <=> Holds(q, w))
         /\ q.op = "eq" => \A v \in Plain : Holds(q, v) <=> Same(v, q.a)
<1>1. ASSUME NEW v \in Plain, NEW w \in Plain, Same(v, w) PROVE Holds(q, v) <=> Holds(q, w)
  <2>1. \A c \in Plain : (Less(v, c) <=> Less(w, c)) /\ (Less(c, v) <=> Less(c, w))
                         /\ (Eq(v, c) <=> Eq(w, c)) /\ (Eq(c, v) <=> Eq(c, w))
    <3> SUFFICES ASSUME NEW c \in Plain
                 PROVE  /\ (Less(v, c) <=> Less(w, c)) /\ (Less(c, v) <=> Less(c, w))
                        /\ (Eq(v, c) <=> Eq(w, c)) /\ (Eq(c, v) <=> Eq(c, w))
      OBVIOUS
    <3>1. (Less(v, c) <=> Less(w, c)) /\ (Less(c, v) <=> Less(c, w))
      BY <1>1, LessIs DEF Same
    <3>2. (Eq(v, c) <=> Eq(w, c)) /\ (Eq(c, v) <=> Eq(c, w))
      BY <1>1, EqIs DEF Same
    <3> QED BY <3>1, <3>2
  <2>2. \A op \in Ranged \ {"between"} : \A c \in Plain :
          (Compare(op, v, c) <=> Compare(op, w, c)) /\ (Compare(op, c, v) <=> Compare(op, c, w))
    BY <2>1 DEF Compare, Ranged
  <2> QED BY <2>1, <2>2 DEF Holds
<1>2. ASSUME q.op = "eq", NEW v \in Plain PROVE Holds(q, v) <=> Same(v, q.a)
  <2>1. (Eq(v, q.a) <=> Same(v, q.a)) /\ (Eq(q.a, v) <=> Same(v, q.a))
    BY EqIs DEF Same
  <2> QED BY <1>2, <2>1 DEF Holds, Compare
<1> QED BY <1>1, <1>2

\* The ends of a range stand where the comparisons say.
LEMMA RangeIs ==
  ASSUME NEW x \in Indexes, x.type # None, x.entries \subseteq Plain \X Ids,
         NEW q, q.op \in Ranged \ {"eq"}, q.op # "between" => q.side = "left",
         q.a \in Plain, q.op = "between" => q.b \in Plain, NEW e \in x.entries
  PROVE  InRange(x, RangeOf(q), e[1]) <=> Holds(q, e[1])
<1>1. PICK k : k = e[1]
  OBVIOUS
<1>2. k \in Plain /\ \A v \in Plain : k \in Slot(x, v) <=> Same(k, v)
  BY <1>1, SlotIs
<1>3. \A v \in Plain : /\ k \in Slot(x, v) <=> ~Less(k, v) /\ ~Less(v, k)
                       /\ ~(Less(k, v) /\ Less(v, k))
  <2> SUFFICES ASSUME NEW v \in Plain
               PROVE  /\ k \in Slot(x, v) <=> ~Less(k, v) /\ ~Less(v, k)
                      /\ ~(Less(k, v) /\ Less(v, k))
    OBVIOUS
  <2>1. Tag(k) \in Int /\ Rank(k) \in Int /\ Tag(v) \in Int /\ Rank(v) \in Int
    BY <1>2, ValueTypes, PlainRank
  <2> QED BY <1>2, <2>1, LessIs DEF Same
<1>4. \A v \in Plain : /\ Starts(x, Included(v), k) <=> ~Less(k, v)
                       /\ Starts(x, Excluded(v), k) <=> Less(v, k)
                       /\ Ends(x, Included(v), k) <=> ~Less(v, k)
                       /\ Ends(x, Excluded(v), k) <=> Less(k, v)
  BY <1>3 DEF Starts, Ends, Included, Excluded
<1>5. Starts(x, Unbounded, k) /\ Ends(x, Unbounded, k)
  BY DEF Starts, Ends, Unbounded
<1>6. CASE q.op = "gt"
  BY <1>1, <1>4, <1>5, <1>6 DEF InRange, RangeOf, Holds, Compare
<1>7. CASE q.op = "ge"
  BY <1>1, <1>4, <1>5, <1>7 DEF InRange, RangeOf, Holds, Compare
<1>8. CASE q.op = "lt"
  BY <1>1, <1>4, <1>5, <1>8 DEF InRange, RangeOf, Holds, Compare
<1>9. CASE q.op = "le"
  BY <1>1, <1>4, <1>5, <1>9 DEF InRange, RangeOf, Holds, Compare
<1>10. CASE q.op = "between"
  BY <1>1, <1>4, <1>5, <1>10 DEF InRange, RangeOf, Holds
<1> QED BY <1>6, <1>7, <1>8, <1>9, <1>10 DEF Ranged

\* What the index gives for a filter: one entry for each document that has the field
\* and passes.
LEMMA CandidatesAre ==
  ASSUME TypeInv, IndexInv, NEW q \in Filters, Plan(q) # "scan", Trusted(q)
  PROVE  /\ q.op \in Ranged
         /\ \A e \in Candidates(q) : e[2] \in Owed(q)
         /\ \A e, g \in Candidates(q) : e[2] = g[2] => e = g
         /\ \A i \in Owed(q) : \E e \in Candidates(q) : e[2] = i
<1>1. PICK x : x = index[q.field]
  OBVIOUS
<1>2. /\ q.op \in Ranged /\ x.type # None
      /\ \/ Plan(q) = "lookup" /\ q.op = "eq"
         \/ Plan(q) = "range" /\ q.op # "eq" /\ (q.op # "between" => q.side = "left")
  BY <1>1, QueryConstants DEF Plan, Ranged
<1>3. q.field \in Fields /\ q.a \in Values /\ (q.op = "between" => q.b \in Values) /\ x \in Indexes
  <2>1. q.field \in Fields /\ q.a \in Values /\ (q.op = "between" => q.b \in Values)
    BY <1>2, EvalIs
  <2> QED BY <1>1, <2>1 DEF TypeInv
<1>4. /\ Candidates(q) \subseteq x.entries
      /\ Owed(q) = {i \in Scan(q) : IndexedValue(q.field, docs[i]) # Missing}
  BY <1>1, <1>2 DEF Candidates, Owed
<1>5. CASE q.field = "id"
  <2>1. x.entries = {}
    BY <1>1, <1>5 DEF IndexInv
  <2>2. \A i : IndexedValue(q.field, docs[i]) = Missing
    BY <1>5 DEF IndexedValue
  <2> QED BY <1>2, <1>4, <2>1, <2>2
<1>6. CASE q.field = "path"
  <2>1. ordinary /\ q.a \in Plain /\ (q.op = "between" => q.b \in Plain)
    BY <1>3, <1>6 DEF Trusted, Plain
  <2>2. Exact(x, Held) /\ x.entries \subseteq Plain \X Ids /\ Held \in [Ids -> Plain \cup {Missing}]
    BY <1>1, <1>2, <1>6, <2>1 DEF IndexInv, Exact
  <2>3. Candidates(q) = {e \in x.entries : Holds(q, e[1])}
    <3>1. CASE Plan(q) = "lookup" /\ q.op = "eq"
      <4>1. \A e \in x.entries : e[1] \in Slot(x, q.a) <=> Holds(q, e[1])
        BY <1>2, <1>3, <2>1, <2>2, <3>1, SlotIs, HoldsIs
      <4>2. Candidates(q) = {e \in x.entries : e[1] \in Slot(x, q.a)}
        BY <1>1, <3>1 DEF Candidates
      <4> QED BY <4>1, <4>2
    <3>2. CASE Plan(q) = "range" /\ q.op # "eq" /\ (q.op # "between" => q.side = "left")
      <4>1. \A e \in x.entries : InRange(x, RangeOf(q), e[1]) <=> Holds(q, e[1])
        BY <1>2, <1>3, <2>1, <2>2, <3>2, RangeIs
      <4>2. Candidates(q) = {e \in x.entries : InRange(x, RangeOf(q), e[1])}
        BY <1>1, <3>2 DEF Candidates
      <4> QED BY <4>1, <4>2
    <3> QED BY <1>2, <3>1, <3>2
  <2>4. ASSUME NEW e \in x.entries
        PROVE  /\ e[2] \in Ids /\ Held[e[2]] # Missing
               /\ Holds(q, e[1]) <=> Holds(q, Held[e[2]])
    <3>1. e[1] \in Plain /\ e[2] \in Ids /\ Held[e[2]] # Missing /\ Same(e[1], Held[e[2]])
      BY <2>2 DEF Exact
    <3>2. Held[e[2]] \in Plain
      BY <2>2, <3>1
    <3> QED BY <1>2, <2>1, <3>1, <3>2, HoldsIs
  <2>5. Owed(q) = {i \in Ids : Held[i] # Missing /\ Holds(q, Held[i])}
    <3>1. \A i \in Ids : Held[i] # Missing <=> i \in Stored /\ IndexedValue(q.field, docs[i]) # Missing
      BY <1>6, HeldTypes DEF IndexedValue, Stored
    <3>2. ASSUME NEW i \in Ids, Held[i] # Missing PROVE i \in Scan(q) <=> Holds(q, Held[i])
      <4>1. FieldValue(q.field, i) = Held[i] /\ i \in Stored
        BY <1>6, <3>2, HeldTypes DEF FieldValue, Stored
      <4>2. Eval(q, i) = Bool(Holds(q, Held[i])) /\ Holds(q, Held[i]) \in BOOLEAN
        BY <1>2, <4>1, EvalIs
      <4> QED BY <4>1, <4>2, TruthOf DEF Scan
    <3>3. Scan(q) \subseteq Stored /\ Stored \subseteq Ids
      BY DEF Scan, Stored
    <3> QED BY <1>4, <3>1, <3>2, <3>3
  <2>6. \A e \in Candidates(q) : e[2] \in Owed(q)
    BY <2>3, <2>4, <2>5
  <2>7. ASSUME NEW e \in Candidates(q), NEW g \in Candidates(q), e[2] = g[2] PROVE e = g
    <3>1. e \in x.entries /\ g \in x.entries
      BY <1>4
    <3>2. Same(e[1], g[1])
      BY <2>2, <2>7, <3>1 DEF Exact, Same
    <3>3. e[1] = g[1]
      BY <2>2, <3>1, <3>2 DEF Exact
    <3> QED BY <2>2, <2>7, <3>1, <3>3
  <2>8. ASSUME NEW i \in Owed(q) PROVE \E e \in Candidates(q) : e[2] = i
    <3>1. PICK e \in x.entries : e[2] = i
      BY <2>2, <2>5 DEF Exact
    <3> QED BY <2>3, <2>4, <2>5, <3>1
  <2> QED BY <1>2, <2>6, <2>7, <2>8
<1> QED BY <1>3, <1>5, <1>6 DEF Fields

\* What FIND makes of candidates among which every document that is owed is once.
LEMMA FindIs ==
  ASSUME NEW q, \A e \in Candidates(q) : e[2] \in Scan(q) => e[2] \in Owed(q),
         \A e, g \in Candidates(q) : e[2] = g[2] => e = g,
         \A i \in Owed(q) : \E e \in Candidates(q) : e[2] = i
  PROVE  Find(q) = [i \in Owed(q) |-> 1]
<1>1. PICK found : found = {e \in Candidates(q) : e[2] \in Scan(q)}
  OBVIOUS
<1>2. Owed(q) \subseteq Scan(q)
  BY DEF Owed
<1>3. {e[2] : e \in found} = Owed(q)
  BY <1>1, <1>2
<1>4. ASSUME NEW i \in Owed(q) PROVE Cardinality({e \in found : e[2] = i}) = 1
  <2>1. PICK e \in found : e[2] = i
    BY <1>3
  <2>2. {g \in found : g[2] = i} = {e}
    BY <1>1, <2>1
  <2> QED BY <2>2, FS_Singleton
<1>5. Find(q) = [i \in {e[2] : e \in found} |-> Cardinality({e \in found : e[2] = i})]
  BY <1>1 DEF Find
<1> QED BY <1>3, <1>4, <1>5

\* FIND finds what it owes: an index has the documents that a scan would find.
LEMMA OwedFound ==
  ASSUME TypeInv, IndexInv
  PROVE  FindsOwed
<1> SUFFICES ASSUME NEW q \in Filters, Trusted(q)
             PROVE  Find(q) = [i \in Owed(q) |-> 1] /\ FindFails(q) = CountFails(q)
  BY DEF FindsOwed
<1>1. CASE Plan(q) = "scan"
  <2>1. Candidates(q) = {<<Missing, i>> : i \in Stored} /\ Owed(q) = Scan(q)
    BY <1>1 DEF Candidates, Owed
  <2>2. Scan(q) \subseteq Stored
    BY DEF Scan
  <2>3. \A e \in Candidates(q) : e = <<Missing, e[2]>> /\ e[2] \in Stored
    BY <2>1
  <2>4. \A i \in Stored : <<Missing, i>> \in Candidates(q) /\ <<Missing, i>>[2] = i
    BY <2>1
  <2>5. Find(q) = [i \in Owed(q) |-> 1]
    <3>1. \A e, g \in Candidates(q) : e[2] = g[2] => e = g
      BY <2>3
    <3>2. \A i \in Owed(q) : \E e \in Candidates(q) : e[2] = i
      BY <2>1, <2>2, <2>4
    <3> QED BY <2>1, <3>1, <3>2, FindIs
  <2>6. FindFails(q) = CountFails(q)
    BY <2>3, <2>4 DEF FindFails, CountFails
  <2> QED BY <2>5, <2>6
<1>2. CASE Plan(q) # "scan"
  <2>1. /\ q.op \in Ranged
        /\ \A e \in Candidates(q) : e[2] \in Owed(q)
        /\ \A e, g \in Candidates(q) : e[2] = g[2] => e = g
        /\ \A i \in Owed(q) : \E e \in Candidates(q) : e[2] = i
    BY <1>2, CandidatesAre
  <2>2. Find(q) = [i \in Owed(q) |-> 1]
    BY <2>1, FindIs
  <2>3. \A i : Eval(q, i) # Refused
    <3> SUFFICES ASSUME NEW i PROVE Eval(q, i) # Refused
      OBVIOUS
    <3>1. PICK v : v = FieldValue(q.field, i)
      OBVIOUS
    <3>2. Eval(q, i) = Bool(Holds(q, v)) /\ Holds(q, v) \in BOOLEAN
      BY <2>1, <3>1, EvalIs
    <3> QED BY <3>2, TruthOf
  <2>4. FindFails(q) = FALSE /\ CountFails(q) = FALSE
    BY <2>3 DEF FindFails, CountFails
  <2> QED BY <2>2, <2>4
<1> QED BY <1>1, <1>2

-----------------------------------------------------------------------------
(* Sorting and pages.                                                      *)

\* What a document without the field is sorted by.
Null == [t |-> "null", n |-> 0]

\* No value is rounded when it is compared.
Sortable == \A v \in Kept : ~Rounded(v)

LEMMA SortValues ==
  ASSUME NEW v \in Values \cup {Null}, NEW w \in Values \cup {Null}, ~Rounded(v), ~Rounded(w)
  PROVE  /\ Tag(v) \in Int /\ Rank(v) \in Int /\ Tag(w) \in Int /\ Rank(w) \in Int
         /\ Less(v, w) <=> Tag(v) < Tag(w) \/ (Tag(v) = Tag(w) /\ Rank(v) < Rank(w))
<1>1. Tag(Null) = 0 /\ Rank(Null) = 0
  BY DEF Null, Tag, Rank
<1>2. \A u \in Values \cup {Null} : Tag(u) \in Int /\ Rank(u) \in Int
  BY <1>1, ValueTypes
<1> QED BY <1>2, KeyIs DEF Less

LEMMA SortKeys ==
  ASSUME TypeInv, Sortable, NEW f \in Fields, NEW i \in Stored
  PROVE  SortKey(f, i) \in Values \cup {Null} /\ ~Rounded(SortKey(f, i))
<1>1. docs[i] \in Docs /\ i \in Ids
  BY DEF TypeInv, Stored
<1>2. Get(docs[i]) \in Values \cup {Missing} /\ (Get(docs[i]) # Missing => Get(docs[i]) \in Kept)
  BY <1>1 DEF Get, Docs, Kept
<1>3. ~Rounded(Null)
  BY DEF Null, Rounded
<1>4. SortKey(f, i) = Null \/ (Get(docs[i]) # Missing /\ SortKey(f, i) = Get(docs[i]))
  BY DEF SortKey, IndexedValue, Null
<1> QED BY <1>2, <1>3, <1>4 DEF Sortable

\* SORT is a strict order of the documents by their keys.
LEMMA PrecedesOrders ==
  ASSUME TypeInv, Sortable, NEW sort \in Sorts
  PROVE  \A i, j, k \in Stored :
           /\ ~(Precedes(sort, i, j) /\ Precedes(sort, j, i))
           /\ Precedes(sort, i, k) => Precedes(sort, i, j) \/ Precedes(sort, j, k)
<1> SUFFICES ASSUME NEW i \in Stored, NEW j \in Stored, NEW k \in Stored
             PROVE  /\ ~(Precedes(sort, i, j) /\ Precedes(sort, j, i))
                    /\ Precedes(sort, i, k) => Precedes(sort, i, j) \/ Precedes(sort, j, k)
  OBVIOUS
<1>1. CASE sort = None
  BY <1>1 DEF Precedes
<1>2. CASE sort # None
  <2>1. sort.field \in Fields
    BY <1>2 DEF Sorts
  <2>2. PICK u, v, w : /\ u = SortKey(sort.field, i) /\ v = SortKey(sort.field, j)
                       /\ w = SortKey(sort.field, k)
    OBVIOUS
  <2>3. \A x \in {u, v, w} : x \in Values \cup {Null} /\ ~Rounded(x)
    BY <2>1, <2>2, SortKeys
  <2>4. \A x, y \in {u, v, w} :
          /\ Tag(x) \in Int /\ Rank(x) \in Int
          /\ Less(x, y) <=> Tag(x) < Tag(y) \/ (Tag(x) = Tag(y) /\ Rank(x) < Rank(y))
    BY <2>3, SortValues
  <2>5. /\ ~(Less(u, v) /\ Less(v, u))
        /\ Less(u, w) => Less(u, v) \/ Less(v, w)
        /\ Less(w, u) => Less(w, v) \/ Less(v, u)
    BY <2>4
  <2>6. /\ Precedes(sort, i, j) <=> IF sort.dir = "asc" THEN Less(u, v) ELSE Less(v, u)
        /\ Precedes(sort, j, i) <=> IF sort.dir = "asc" THEN Less(v, u) ELSE Less(u, v)
        /\ Precedes(sort, i, k) <=> IF sort.dir = "asc" THEN Less(u, w) ELSE Less(w, u)
        /\ Precedes(sort, j, k) <=> IF sort.dir = "asc" THEN Less(v, w) ELSE Less(w, v)
    BY <1>2, <2>2 DEF Precedes
  <2> QED BY <2>5, <2>6
<1> QED BY <1>1, <1>2

\* With the order of the candidates it is total, so that there is one sorted list.
LEMMA SortedIs ==
  ASSUME TypeInv, Sortable, IsFiniteSet(Stored), NEW sort \in Sorts,
         NEW first \in Injection(Stored, 1..Cardinality(Stored)),
         NEW s, s = Sorted(Stored, sort, first)
  PROVE  /\ s \in [1..Cardinality(Stored) -> Stored] /\ IsInjective(s)
         /\ \A m, n \in 1..Cardinality(Stored) : m < n => InFront(sort, first, s[m], s[n])
<1>1. PICK S, N : S = Stored /\ N = Cardinality(S)
  OBVIOUS
<1>2. N \in Nat /\ IsFiniteSet(S)
  BY <1>1, FS_CardinalityType
<1>3. /\ \A i \in S : first[i] \in Int
      /\ \A i, j \in S : first[i] = first[j] => i = j
  BY <1>1, <1>2 DEF Injection, IsInjective
<1>4. /\ \A i, j \in S : ~(Precedes(sort, i, j) /\ Precedes(sort, j, i))
      /\ \A i, j, k \in S : Precedes(sort, i, k) => Precedes(sort, i, j) \/ Precedes(sort, j, k)
  BY <1>1, PrecedesOrders
<1>5. \A i \in S : ~InFront(sort, first, i, i)
  BY <1>3, <1>4 DEF InFront
<1>6. ASSUME NEW i \in S, NEW j \in S, NEW k \in S,
             InFront(sort, first, i, j), InFront(sort, first, j, k)
      PROVE  InFront(sort, first, i, k)
  <2>1. CASE Precedes(sort, i, j) \/ Precedes(sort, j, k)
    <3>1. Precedes(sort, i, k)
      BY <1>4, <1>6, <2>1 DEF InFront
    <3> QED BY <3>1 DEF InFront
  <2>2. CASE ~Precedes(sort, i, j) /\ ~Precedes(sort, j, k)
    <3>1. /\ ~Precedes(sort, j, i) /\ ~Precedes(sort, k, j)
          /\ first[i] < first[j] /\ first[j] < first[k]
      BY <1>6, <2>2 DEF InFront
    <3>2. ~Precedes(sort, k, i)
      BY <1>4, <3>1
    <3>3. first[i] < first[k]
      BY <1>3, <3>1
    <3> QED BY <3>2, <3>3 DEF InFront
  <2> QED BY <2>1, <2>2
<1>7. ASSUME NEW i \in S, NEW j \in S, i # j
      PROVE  InFront(sort, first, i, j) \/ InFront(sort, first, j, i)
  <2>1. first[i] < first[j] \/ first[j] < first[i]
    BY <1>3, <1>7
  <2> QED BY <2>1 DEF InFront
<1>8. PICK below : below = [j \in S |-> {i \in S : InFront(sort, first, i, j)}]
  OBVIOUS
<1>9. Ordered(S, below)
  <2>1. \A i, j \in S : i \in below[j] <=> InFront(sort, first, i, j)
    BY <1>8
  <2>2. below \in [S -> SUBSET S]
    BY <1>8
  <2> QED BY <1>5, <1>6, <1>7, <2>1, <2>2 DEF Ordered
<1>10. PICK z \in [1..N -> S] : \A m, n \in 1..N : m < n => z[m] \in below[z[n]]
  BY <1>1, <1>2, <1>9, Listing
<1>11. \A m, n \in 1..N : m < n => InFront(sort, first, z[m], z[n])
  BY <1>8, <1>10
<1>12. \A m, n \in 1..N : m # n => z[m] # z[n]
  <2> SUFFICES ASSUME NEW m \in 1..N, NEW n \in 1..N, m # n PROVE z[m] # z[n]
    OBVIOUS
  <2>1. m < n \/ n < m
    BY <1>2
  <2>2. z[m] \in S /\ z[n] \in S
    BY <1>10
  <2> QED BY <1>5, <1>11, <2>1, <2>2
<1>13. z \in SetToSeqs(S) /\ DOMAIN z = 1..N
  BY <1>1, <1>10, <1>12 DEF SetToSeqs
<1>14. /\ s \in SetToSeqs(S)
       /\ \A m, n \in DOMAIN s : m < n => InFront(sort, first, s[m], s[n])
  <2>1. \E y \in SetToSeqs(S) : \A m, n \in DOMAIN y : m < n => InFront(sort, first, y[m], y[n])
    BY <1>11, <1>13
  <2> QED BY <1>1, <2>1 DEF Sorted
<1>15. s \in [1..N -> S] /\ \A m, n \in 1..N : m # n => s[m] # s[n]
  BY <1>1, <1>14 DEF SetToSeqs
<1> QED BY <1>1, <1>14, <1>15 DEF IsInjective

\* A page of it, and where its documents stand.
LEMMA PageIs ==
  ASSUME TypeInv, Sortable, IsFiniteSet(Stored), NEW sort \in Sorts,
         NEW off \in Nat, NEW limit \in {None} \cup Nat,
         NEW first \in Injection(Stored, 1..Cardinality(Stored))
  PROVE  RightPage(Page(Sorted(Stored, sort, first), off, limit), Stored, sort, off, limit)
<1>1. PICK S, N, s, page : /\ S = Stored /\ N = Cardinality(S) /\ s = Sorted(S, sort, first)
                           /\ page = Page(s, off, limit)
  OBVIOUS
<1>2. N \in Nat /\ IsFiniteSet(S)
  BY <1>1, FS_CardinalityType
<1>3. /\ s \in [1..N -> S] /\ IsInjective(s)
      /\ \A m, n \in 1..N : m < n => InFront(sort, first, s[m], s[n])
  BY <1>1, SortedIs
<1>4. s \in Seq(S) /\ Len(s) = N
  BY <1>2, <1>3, FunctionIsSeq
<1>5. PICK end : end = IF limit = None \/ off + limit > N THEN N ELSE off + limit
  OBVIOUS
<1>6. page = IF off >= N THEN <<>> ELSE SubSeq(s, off + 1, end)
  BY <1>1, <1>4, <1>5 DEF Page
<1>7. PICK c : c = IF off >= N THEN 0 ELSE end - off
  OBVIOUS
<1>8. /\ c \in Nat /\ (c # 0 => off + c <= N) /\ (limit # None => c <= limit)
      /\ c = limit \/ off + c >= N
  BY <1>2, <1>5, <1>7
<1>9. page \in Seq(S) /\ Len(page) = c /\ \A p \in 1..c : page[p] = s[off + p]
  <2>1. CASE off >= N
    BY <1>6, <1>7, <2>1, EmptySeq
  <2>2. CASE ~(off >= N)
    <3>1. end \in off..N /\ c = end - off
      BY <1>2, <1>5, <1>7, <2>2
    <3>2. \A k \in (off + 1)..end : s[k] \in S
      BY <1>2, <1>3, <3>1
    <3>3. /\ SubSeq(s, off + 1, end) \in Seq(S)
          /\ Len(SubSeq(s, off + 1, end)) = IF off + 1 <= end THEN end - (off + 1) + 1 ELSE 0
          /\ \A k \in 1..(end - (off + 1) + 1) : SubSeq(s, off + 1, end)[k] = s[off + 1 + k - 1]
      BY <1>4, <3>1, <3>2, SubSeqProperties
    <3> QED BY <1>6, <2>2, <3>1, <3>3
  <2> QED BY <2>1, <2>2
<1>10. DOMAIN page = 1..c
  BY <1>8, <1>9, LenProperties
<1>11. \A p \in 1..c : off + p \in 1..N /\ page[p] = s[off + p] /\ page[p] \in S
  <2>1. \A p \in 1..c : off + p \in 1..N
    BY <1>2, <1>8
  <2> QED BY <1>3, <1>9, <2>1
<1>12. ToSet(page) \subseteq S
  BY <1>10, <1>11 DEF ToSet
<1>13. IsInjective(page)
  <2> SUFFICES ASSUME NEW p \in 1..c, NEW r \in 1..c, page[p] = page[r] PROVE p = r
    BY <1>10 DEF IsInjective
  <2>1. off + p = off + r
    BY <1>3, <1>11 DEF IsInjective
  <2> QED BY <1>8, <2>1
<1>14. \A i, j \in S : ~(Precedes(sort, i, j) /\ Precedes(sort, j, i))
  BY <1>1, PrecedesOrders
<1>15. ASSUME NEW p \in 1..c
       PROVE  /\ Cardinality({i \in S : Precedes(sort, i, page[p])}) < off + p
              /\ off + p <= Cardinality({i \in S : ~Precedes(sort, page[p], i)})
  <2>1. PICK k : k = off + p
    OBVIOUS
  <2>2. k \in 1..N /\ page[p] = s[k] /\ s[k] \in S
    BY <1>11, <2>1
  <2>3. PICK A, B : A = {i \in S : Precedes(sort, i, s[k])} /\ B = {i \in S : ~Precedes(sort, s[k], i)}
    OBVIOUS
  <2>4. ASSUME NEW n \in 1..N, s[n] \in A PROVE n < k
    <3> SUFFICES ASSUME ~(n < k) PROVE FALSE
      OBVIOUS
    <3>1. s[n] \in S /\ Precedes(sort, s[n], s[k])
      BY <2>3, <2>4
    <3>2. n # k
      BY <1>14, <3>1
    <3>3. k < n
      BY <1>2, <2>2, <3>2
    <3>4. InFront(sort, first, s[k], s[n])
      BY <1>3, <2>2, <3>3
    <3> QED BY <1>14, <2>2, <3>1, <3>4 DEF InFront
  <2>5. ASSUME NEW m \in 1..k PROVE s[m] \in B
    <3>1. m \in 1..N /\ s[m] \in S
      BY <1>2, <1>3, <2>2
    <3>2. ~Precedes(sort, s[k], s[m])
      <4>1. CASE m = k
        BY <1>14, <2>2, <4>1
      <4>2. CASE m # k
        <5>1. m < k
          BY <2>2, <4>2
        <5>2. InFront(sort, first, s[m], s[k])
          BY <1>3, <2>2, <3>1, <5>1
        <5> QED BY <1>14, <2>2, <3>1, <5>2 DEF InFront
      <4> QED BY <4>1, <4>2
    <3> QED BY <2>3, <3>1, <3>2
  <2>6. A \in SUBSET S /\ B \in SUBSET S
    BY <2>3
  <2>7. Cardinality(A) < k
    BY <1>1, <1>2, <1>3, <2>2, <2>4, <2>6, FirstPart
  <2>8. k <= Cardinality(B)
    BY <1>1, <1>2, <1>3, <2>2, <2>5, <2>6, FirstPart
  <2> QED BY <2>1, <2>2, <2>3, <2>7, <2>8
<1>16. RightPage(page, S, sort, off, limit)
  <2>1. \A p \in DOMAIN page :
          /\ Cardinality({i \in S : Precedes(sort, i, page[p])}) < off + p
          /\ off + p <= Cardinality({i \in S : ~Precedes(sort, page[p], i)})
    BY <1>10, <1>15
  <2>2. /\ limit # None => Len(page) <= limit
        /\ Len(page) = limit \/ off + Len(page) >= Cardinality(S)
    BY <1>1, <1>8, <1>9
  <2> QED BY <1>12, <1>13, <2>1, <2>2 DEF RightPage
<1> QED BY <1>1, <1>16

\* There are never more than finitely many documents.
LEMMA StoredStep ==
  ASSUME TypeInv, IsFiniteSet(Stored), [Next]_vars
  PROVE  IsFiniteSet(Stored')
<1>1. ASSUME docs' = docs PROVE IsFiniteSet(Stored')
  BY <1>1 DEF Stored
<1>2. ASSUME NEW i \in Ids, NEW d, docs' = [docs EXCEPT ![i] = d] PROVE IsFiniteSet(Stored')
  <2>1. IsFiniteSet(Stored \cup {i})
    BY FS_AddElement
  <2>2. Stored' \in SUBSET (Stored \cup {i})
    BY <1>2 DEF Stored, TypeInv
  <2> QED BY <2>1, <2>2, FS_Subset
<1>3. ASSUME NEW i \in Ids, NEW v, Update(i, v) PROVE IsFiniteSet(Stored')
  BY <1>2, <1>3 DEF Update
<1>4. ASSUME NEW i \in Ids, NEW v, Assigns(i, v) PROVE IsFiniteSet(Stored')
  BY <1>1, <1>3, <1>4 DEF Assigns, vars
<1>5. ASSUME NEW i \in Ids, UpdateNegated(i) PROVE IsFiniteSet(Stored')
  BY <1>4, <1>5 DEF UpdateNegated
<1>6. ASSUME NEW i \in Ids, NEW op, NEW w, UpdateArithmetic(i, op, w) PROVE IsFiniteSet(Stored')
  <2>1. PICK v, z : v = FieldValue("path", i) /\ z = Arithmetic(op, v, w)
    OBVIOUS
  <2>2. docs' = docs \/ Assigns(i, z)
    BY <1>6, <2>1 DEF UpdateArithmetic, vars
  <2> QED BY <1>1, <1>4, <2>2
<1>7. ASSUME NEW i \in Ids, NEW d, InsertDocument(i, d) \/ RemoveDocument(i) PROVE IsFiniteSet(Stored')
  BY <1>2, <1>7 DEF InsertDocument, RemoveDocument
<1>8. ASSUME NEW f, NEW type, CreateIndex(f, type) \/ DropIndex(f) PROVE IsFiniteSet(Stored')
  BY <1>1, <1>8 DEF CreateIndex, DropIndex
<1> QED BY <1>1, <1>3, <1>5, <1>6, <1>7, <1>8 DEF Next, vars

\* A FIND of ordinary numbers that does not panic answers and fails as a scan would
\* (but for documents without the field), each document once, for every filter and
\* whichever index its plan goes through: the bounds the planner gives mean what the
\* evaluator says.  SORT, OFFSET and LIMIT give out, in whatever order the documents
\* came, the ones that stand at those places, if no value is rounded.
THEOREM FindCorrect == Spec => []FindExact
<1>1. Init => IsFiniteSet(Stored)
  <2>1. Init => Stored = {}
    BY DEF Init, Stored
  <2> QED BY <2>1, FS_EmptySet
<1>2. TypeInv /\ IsFiniteSet(Stored) /\ [Next]_vars => IsFiniteSet(Stored)'
  BY StoredStep
<1>3. TypeInv /\ IndexInv /\ IsFiniteSet(Stored) => FindExact
  <2> SUFFICES ASSUME TypeInv, IndexInv, IsFiniteSet(Stored) PROVE FindExact
    OBVIOUS
  <2>1. FindsOwed
    BY OwedFound
  <2>2. Cardinality(Stored) \in Nat
    BY FS_CardinalityType
  <2>3. PagesRight
    <3> SUFFICES ASSUME Sortable, NEW sort \in Sorts, NEW off \in 0..Cardinality(Stored),
                        NEW limit \in {None} \cup (0..Cardinality(Stored)),
                        NEW first \in Injection(Stored, 1..Cardinality(Stored))
                 PROVE  RightPage(Page(Sorted(Stored, sort, first), off, limit), Stored, sort, off, limit)
      BY DEF PagesRight, Sortable
    <3>1. off \in Nat /\ limit \in {None} \cup Nat
      BY <2>2
    <3> QED BY <3>1, PageIs
  <2> QED BY <2>1, <2>3 DEF FindExact
<1> QED BY <1>1, <1>2, <1>3, IndexHolds, PTL DEF Spec
==============================================================================
