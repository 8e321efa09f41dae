--------------------------- MODULE SequenceLemmas ---------------------------
(***************************************************************************)
(* Sequences element by element: what Append, Tail and a prefix do to the  *)
(* elements of a sequence, for the proofs about the queues of the system;  *)
(* and the places of the elements of a finite set that is put in order.    *)
(***************************************************************************)
EXTENDS Integers, Sequences, FiniteSets, FiniteSetTheorems, SequenceTheorems, TLAPS

\* x is an element of the sequence s.
Has(s, x) == \E k \in 1..Len(s) : s[k] = x

Distinct(s) == \A j, k \in 1..Len(s) : s[j] = s[k] => j = k

LEMMA AppendAt ==
  ASSUME NEW S, NEW s \in Seq(S), NEW x \in S
  PROVE  /\ Append(s, x) \in Seq(S) /\ Len(s) \in Nat /\ Len(Append(s, x)) = Len(s) + 1
         /\ \A k \in 1..Len(s) : Append(s, x)[k] = s[k]
         /\ Append(s, x)[Len(s) + 1] = x
BY AppendProperties, LenProperties

LEMMA TailAt ==
  ASSUME NEW S, NEW s \in Seq(S), s # <<>>
  PROVE  /\ Tail(s) \in Seq(S) /\ Len(s) \in Nat \ {0} /\ Len(Tail(s)) = Len(s) - 1
         /\ \A k \in 1..Len(Tail(s)) : Tail(s)[k] = s[k + 1]
         /\ Head(s) = s[1] /\ s[1] \in S
BY HeadTailProperties, LenProperties, ElementOfSeq, EmptySeq

LEMMA PrefixAt ==
  ASSUME NEW S, NEW s \in Seq(S), NEW n \in 0..Len(s)
  PROVE  /\ SubSeq(s, 1, n) \in Seq(S) /\ Len(s) \in Nat /\ Len(SubSeq(s, 1, n)) = n
         /\ \A k \in 1..n : SubSeq(s, 1, n)[k] = s[k]
<1>1. Len(s) \in Nat
  BY LenProperties
<1>2. \A k \in 1..n : s[k] \in S
  BY <1>1, ElementOfSeq
<1> QED BY <1>1, <1>2, SubSeqProperties

\* What is left of a sequence without its first n elements.
LEMMA SuffixAt ==
  ASSUME NEW S, NEW s \in Seq(S), NEW n \in 0..Len(s)
  PROVE  /\ SubSeq(s, n + 1, Len(s)) \in Seq(S) /\ Len(s) \in Nat
         /\ Len(SubSeq(s, n + 1, Len(s))) = Len(s) - n
         /\ \A k \in 1..(Len(s) - n) : SubSeq(s, n + 1, Len(s))[k] = s[n + k]
<1>1. Len(s) \in Nat
  BY LenProperties
<1>2. \A k \in (n + 1)..Len(s) : s[k] \in S
  BY <1>1, ElementOfSeq
<1>3. /\ SubSeq(s, n + 1, Len(s)) \in Seq(S)
      /\ Len(SubSeq(s, n + 1, Len(s))) = IF n + 1 <= Len(s) THEN Len(s) - (n + 1) + 1 ELSE 0
      /\ \A k \in 1..(Len(s) - (n + 1) + 1) : SubSeq(s, n + 1, Len(s))[k] = s[n + 1 + k - 1]
  BY <1>1, <1>2, SubSeqProperties
<1> QED BY <1>1, <1>3

\* Two sequences, one behind the other.
LEMMA ConcatAt ==
  ASSUME NEW S, NEW s \in Seq(S), NEW r \in Seq(S)
  PROVE  /\ s \o r \in Seq(S) /\ Len(s) \in Nat /\ Len(r) \in Nat
         /\ Len(s \o r) = Len(s) + Len(r)
         /\ \A k \in 1..Len(s) : (s \o r)[k] = s[k]
         /\ \A k \in 1..Len(r) : (s \o r)[Len(s) + k] = r[k]
<1>1. Len(s) \in Nat /\ Len(r) \in Nat
  BY LenProperties
<1>2. /\ s \o r \in Seq(S) /\ Len(s \o r) = Len(s) + Len(r)
      /\ \A i \in 1..(Len(s) + Len(r)) : (s \o r)[i] = IF i <= Len(s) THEN s[i] ELSE r[i - Len(s)]
  BY ConcatProperties
<1> QED BY <1>1, <1>2

\* One element of a sequence is replaced.
LEMMA ExceptAt ==
  ASSUME NEW S, NEW s \in Seq(S), NEW k \in 1..Len(s), NEW x \in S
  PROVE  /\ [s EXCEPT ![k] = x] \in Seq(S) /\ Len(s) \in Nat
         /\ Len([s EXCEPT ![k] = x]) = Len(s)
         /\ [s EXCEPT ![k] = x][k] = x
         /\ \A j \in 1..Len(s) : j # k => [s EXCEPT ![k] = x][j] = s[j]
BY ExceptSeq, LenProperties

LEMMA FunctionIsSeq ==
  ASSUME NEW S, NEW n \in Nat, NEW f \in [1..n -> S]
  PROVE  f \in Seq(S) /\ Len(f) = n
<1>1. f \in Seq(S)
  BY SeqDef
<1>2. DOMAIN f = 1..n /\ DOMAIN f = 1..Len(f) /\ Len(f) \in Nat
  BY <1>1, LenProperties
<1> QED BY <1>1, <1>2

LEMMA HasAppend ==
  ASSUME NEW S, NEW s \in Seq(S), NEW x \in S, NEW y
  PROVE  Has(Append(s, x), y) <=> Has(s, y) \/ y = x
<1>1. /\ Len(s) \in Nat /\ Len(Append(s, x)) = Len(s) + 1
      /\ \A k \in 1..Len(s) : Append(s, x)[k] = s[k]
      /\ Append(s, x)[Len(s) + 1] = x
  BY AppendAt
<1>2. ASSUME Has(Append(s, x), y) PROVE Has(s, y) \/ y = x
  <2>1. PICK k \in 1..(Len(s) + 1) : Append(s, x)[k] = y
    BY <1>1, <1>2 DEF Has
  <2> QED BY <1>1, <2>1 DEF Has
<1>3. ASSUME Has(s, y) \/ y = x PROVE Has(Append(s, x), y)
  <2>1. CASE Has(s, y)
    <3>1. PICK k \in 1..Len(s) : s[k] = y
      BY <2>1 DEF Has
    <3>2. k \in 1..Len(Append(s, x)) /\ Append(s, x)[k] = y
      BY <1>1, <3>1
    <3> QED BY <3>2 DEF Has
  <2>2. CASE y = x
    <3>1. Len(s) + 1 \in 1..Len(Append(s, x)) /\ Append(s, x)[Len(s) + 1] = y
      BY <1>1, <2>2
    <3> QED BY <3>1 DEF Has
  <2> QED BY <1>3, <2>1, <2>2
<1> QED BY <1>2, <1>3

LEMMA HasTail ==
  ASSUME NEW S, NEW s \in Seq(S), s # <<>>, NEW y, Has(Tail(s), y)
  PROVE  Has(s, y)
<1>1. /\ Len(s) \in Nat \ {0} /\ Len(Tail(s)) = Len(s) - 1
      /\ \A k \in 1..Len(Tail(s)) : Tail(s)[k] = s[k + 1]
  BY TailAt
<1>2. PICK k \in 1..Len(Tail(s)) : Tail(s)[k] = y
  BY DEF Has
<1>3. k + 1 \in 1..Len(s) /\ s[k + 1] = y
  BY <1>1, <1>2
<1> QED BY <1>3 DEF Has

LEMMA DistinctAppend ==
  ASSUME NEW S, NEW s \in Seq(S), NEW x \in S, Distinct(s), ~Has(s, x)
  PROVE  Distinct(Append(s, x))
<1>1. /\ Len(s) \in Nat /\ Len(Append(s, x)) = Len(s) + 1
      /\ \A k \in 1..Len(s) : Append(s, x)[k] = s[k]
      /\ Append(s, x)[Len(s) + 1] = x
  BY AppendAt
<1> QED BY <1>1 DEF Distinct, Has

LEMMA DistinctTail ==
  ASSUME NEW S, NEW s \in Seq(S), s # <<>>, Distinct(s)
  PROVE  Distinct(Tail(s)) /\ ~Has(Tail(s), Head(s))
<1>1. /\ Len(s) \in Nat \ {0} /\ Len(Tail(s)) = Len(s) - 1 /\ Head(s) = s[1]
      /\ \A k \in 1..Len(Tail(s)) : Tail(s)[k] = s[k + 1]
  BY TailAt
<1>2. Distinct(Tail(s))
  <2> SUFFICES ASSUME NEW j \in 1..Len(Tail(s)), NEW k \in 1..Len(Tail(s)),
                      Tail(s)[j] = Tail(s)[k]
               PROVE  j = k
    BY DEF Distinct
  <2>1. j + 1 \in 1..Len(s) /\ k + 1 \in 1..Len(s) /\ s[j + 1] = s[k + 1]
    BY <1>1
  <2>2. j + 1 = k + 1
    BY <2>1 DEF Distinct
  <2> QED BY <1>1, <2>2
<1>3. ~Has(Tail(s), Head(s))
  <2> SUFFICES ASSUME NEW k \in 1..Len(Tail(s)), Tail(s)[k] = s[1]
               PROVE  FALSE
    BY <1>1 DEF Has
  <2>1. k + 1 \in 1..Len(s) /\ 1 \in 1..Len(s) /\ s[k + 1] = s[1]
    BY <1>1
  <2>2. k + 1 = 1
    BY <2>1 DEF Distinct
  <2> QED BY <1>1, <2>2
<1> QED BY <1>2, <1>3

\* A finite set with a strict total order, given as the set of the elements in
\* front of each one: their number is the place of the element, counted from 0.
Ordered(S, below) ==
  /\ below \in [S -> SUBSET S]
  /\ \A x \in S : x \notin below[x]
  /\ \A x, y \in S : y \in below[x] => below[y] \subseteq below[x]
  /\ \A x, y \in S : x # y => x \in below[y] \/ y \in below[x]

LEMMA Places ==
  ASSUME NEW S, IsFiniteSet(S), NEW below, Ordered(S, below)
  PROVE  /\ Cardinality(S) \in Nat
         /\ \A x \in S : Cardinality(below[x]) \in 0..(Cardinality(S) - 1)
         /\ \A x, y \in S : x \in below[y] => Cardinality(below[x]) < Cardinality(below[y])
         /\ \A n \in 1..Cardinality(S) : \E x \in S : Cardinality(below[x]) = n - 1
<1>1. Cardinality(S) \in Nat
  BY FS_CardinalityType
<1>2. ASSUME NEW T \in SUBSET S, NEW x \in S, x \in T, x \notin below[x], below[x] \subseteq T
      PROVE  /\ Cardinality(T) \in Nat /\ Cardinality(below[x]) \in Nat
             /\ Cardinality(below[x]) < Cardinality(T)
  <2>1. IsFiniteSet(T) /\ below[x] \in SUBSET T
    BY <1>2, FS_Subset
  <2>2. IsFiniteSet(below[x]) /\ Cardinality(below[x]) <= Cardinality(T)
        /\ (Cardinality(T) = Cardinality(below[x]) => T = below[x])
    BY <2>1, FS_Subset
  <2>3. Cardinality(T) \in Nat /\ Cardinality(below[x]) \in Nat
    BY <2>1, <2>2, FS_CardinalityType
  <2> QED BY <1>2, <2>2, <2>3
<1>3. ASSUME NEW x \in S PROVE Cardinality(below[x]) \in 0..(Cardinality(S) - 1)
  <2>1. x \notin below[x] /\ below[x] \subseteq S
    BY DEF Ordered
  <2>2. Cardinality(below[x]) \in Nat /\ Cardinality(below[x]) < Cardinality(S)
    BY <1>2, <2>1
  <2> QED BY <1>1, <2>2
<1>4. ASSUME NEW x \in S, NEW y \in S, x \in below[y]
      PROVE  Cardinality(below[x]) < Cardinality(below[y])
  <2>1. below[y] \in SUBSET S /\ x \notin below[x] /\ below[x] \subseteq below[y]
    BY <1>4 DEF Ordered
  <2> QED BY <1>2, <1>4, <2>1
<1> DEFINE f == [x \in S |-> Cardinality(below[x]) + 1]
<1>5. f \in [S -> 1..Cardinality(S)]
  BY <1>1, <1>3
<1>6. ASSUME NEW x \in S, NEW y \in S, f[x] = f[y] PROVE x = y
  <2>1. Cardinality(below[x]) \in Nat /\ Cardinality(below[y]) \in Nat
    BY <1>1, <1>3
  <2>2. Cardinality(below[x]) = Cardinality(below[y])
    BY <1>6, <2>1
  <2>3. x \notin below[y] /\ y \notin below[x]
    BY <1>4, <2>1, <2>2
  <2> QED BY <2>3 DEF Ordered
<1>7. f \in Injection(S, 1..Cardinality(S))
  BY <1>5, <1>6 DEF Injection, IsInjective
<1>8. IsFiniteSet(1..Cardinality(S)) /\ Cardinality(1..Cardinality(S)) = Cardinality(S)
  BY <1>1, FS_Interval
<1>9. f \in Surjection(S, 1..Cardinality(S))
  <2> HIDE DEF f
  <2> QED BY <1>7, <1>8, FS_Injection
<1>10. ASSUME NEW n \in 1..Cardinality(S) PROVE \E x \in S : Cardinality(below[x]) = n - 1
  <2>1. PICK x \in S : f[x] = n
    BY <1>9 DEF Surjection
  <2>2. Cardinality(below[x]) \in Nat
    BY <1>1, <1>3
  <2> QED BY <1>1, <2>1, <2>2
<1> QED BY <1>1, <1>3, <1>4, <1>10

\* The elements can be listed in that order.
LEMMA Listing ==
  ASSUME NEW S, IsFiniteSet(S), NEW below, Ordered(S, below)
  PROVE  \E s \in [1..Cardinality(S) -> S] :
           \A m, n \in 1..Cardinality(S) : m < n => s[m] \in below[s[n]]
<1>1. /\ Cardinality(S) \in Nat
      /\ \A x \in S : Cardinality(below[x]) \in 0..(Cardinality(S) - 1)
      /\ \A x, y \in S : x \in below[y] => Cardinality(below[x]) < Cardinality(below[y])
      /\ \A n \in 1..Cardinality(S) : \E x \in S : Cardinality(below[x]) = n - 1
  BY Places
<1> DEFINE s == [n \in 1..Cardinality(S) |-> CHOOSE x \in S : Cardinality(below[x]) = n - 1]
<1>2. \A n \in 1..Cardinality(S) : s[n] \in S /\ Cardinality(below[s[n]]) = n - 1
  BY <1>1
<1>3. ASSUME NEW m \in 1..Cardinality(S), NEW n \in 1..Cardinality(S), m < n
      PROVE  s[m] \in below[s[n]]
  <2>1. s[m] \in S /\ s[n] \in S /\ Cardinality(below[s[m]]) < Cardinality(below[s[n]])
    BY <1>1, <1>2, <1>3
  <2>2. s[m] # s[n] /\ s[n] \notin below[s[m]]
    BY <1>1, <2>1
  <2> HIDE DEF s
  <2> QED BY <2>1, <2>2 DEF Ordered
<1>4. s \in [1..Cardinality(S) -> S]
  BY <1>2
<1> HIDE DEF s
<1> QED BY <1>3, <1>4

\* Such a list has every element; a set that holds the first k of them has at least
\* k elements, and one that holds neither the k-th nor one behind it fewer than k.
LEMMA FirstPart ==
  ASSUME NEW S, IsFiniteSet(S), NEW s \in [1..Cardinality(S) -> S], IsInjective(s),
         NEW k \in 1..Cardinality(S), NEW T \in SUBSET S
  PROVE  /\ \A x \in S : \E n \in 1..Cardinality(S) : s[n] = x
         /\ (\A m \in 1..k : s[m] \in T) => k <= Cardinality(T)
         /\ (\A n \in 1..Cardinality(S) : s[n] \in T => n < k) => Cardinality(T) < k
<1>1. Cardinality(S) \in Nat /\ IsFiniteSet(T) /\ Cardinality(T) \in Nat
  BY FS_CardinalityType, FS_Subset
<1>2. \A m, n \in 1..Cardinality(S) : s[m] = s[n] => m = n
  BY DEF IsInjective
<1>3. \A x \in S : \E n \in 1..Cardinality(S) : s[n] = x
  <2>1. s \in Injection(1..Cardinality(S), S)
    BY DEF Injection
  <2>2. Cardinality(1..Cardinality(S)) = Cardinality(S)
    BY <1>1, FS_Interval
  <2>3. s \in Surjection(1..Cardinality(S), S)
    BY <2>1, <2>2, FS_Injection
  <2> QED BY <2>3 DEF Surjection
<1>4. ASSUME \A m \in 1..k : s[m] \in T PROVE k <= Cardinality(T)
  <2> DEFINE f == [m \in 1..k |-> s[m]]
  <2>1. f \in Injection(1..k, T)
    BY <1>1, <1>2, <1>4 DEF Injection, IsInjective
  <2>2. Cardinality(1..k) = k
    BY <1>1, FS_Interval
  <2> HIDE DEF f
  <2> QED BY <1>1, <2>1, <2>2, FS_Injection
<1>5. ASSUME \A n \in 1..Cardinality(S) : s[n] \in T => n < k PROVE Cardinality(T) < k
  <2> DEFINE g == [x \in T |-> CHOOSE n \in 1..Cardinality(S) : s[n] = x]
  <2>1. \A x \in T : g[x] \in 1..(k - 1) /\ s[g[x]] = x
    <3> SUFFICES ASSUME NEW x \in T PROVE g[x] \in 1..(k - 1) /\ s[g[x]] = x
      OBVIOUS
    <3>1. g[x] \in 1..Cardinality(S) /\ s[g[x]] = x
      BY <1>3
    <3>2. g[x] < k
      BY <1>5, <3>1
    <3> HIDE DEF g
    <3> QED BY <1>1, <3>1, <3>2
  <2>2. g \in [T -> 1..(k - 1)]
    BY <2>1
  <2>3. g \in Injection(T, 1..(k - 1))
    <3> HIDE DEF g
    <3> QED BY <2>1, <2>2 DEF Injection, IsInjective
  <2>4. IsFiniteSet(1..(k - 1)) /\ Cardinality(1..(k - 1)) = k - 1
    <3>1. PICK h : h = k - 1 /\ h \in Nat
      BY <1>1
    <3>2. IsFiniteSet(1..h) /\ Cardinality(1..h) = h
      BY <3>1, FS_Interval
    <3> QED BY <3>1, <3>2
  <2>5. Cardinality(T) <= Cardinality(1..(k - 1))
    <3> HIDE DEF g
    <3> QED BY <2>3, <2>4, FS_Injection
  <2> QED BY <1>1, <2>4, <2>5
<1> QED BY <1>3, <1>4, <1>5
=============================================================================
