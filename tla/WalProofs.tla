------------------------------ MODULE WalProofs ------------------------------
(***************************************************************************)
(* Theorems about the write-ahead log: what is sealed is durable, what is  *)
(* acknowledged stays and can be recovered, no sequence number is given    *)
(* twice, replay keeps the order of acknowledgements, a segment outgrows   *)
(* its limit by a bounded amount; and the log implements DurableLog.       *)
(***************************************************************************)
EXTENDS Wal, SequenceLemmas, FiniteSetTheorems, NaturalsInduction, WellFoundedInduction, TLAPS

-----------------------------------------------------------------------------
(* Least and greatest numbers of a set.                                    *)

LEMMA LeastExists ==
  ASSUME NEW T, T \subseteq Nat, T # {}
  PROVE  \E x \in T : \A y \in T : x <= y
<1>1. PICK R : R = OpToRel(<, Nat)
  BY Zenon
<1>2. IsWellFoundedOn(R, Nat)
  BY <1>1, NatLessThanWellFounded, Zenon
<1>3. PICK x \in T : \A y \in T : ~(<<y, x>> \in R)
  BY <1>2, WFMin
<1>4. ASSUME NEW y \in T PROVE x <= y
  <2>1. <<y, x>> \in R <=> y < x
    BY <1>1 DEF OpToRel
  <2> QED BY <1>3, <2>1
<1> QED BY <1>3, <1>4

LEMMA GreatestExists ==
  ASSUME NEW N \in Nat, NEW T, T \subseteq 0..N, T # {}
  PROVE  \E x \in T : \A y \in T : y <= x
<1> DEFINE U == {n \in Nat : \A y \in T : y <= n}
<1>1. N \in U /\ U \subseteq Nat /\ U # {}
  OBVIOUS
<1>2. PICK m \in U : \A n \in U : m <= n
  BY <1>1, LeastExists
<1>3. m \in T
  <2> SUFFICES ASSUME m \notin T PROVE FALSE
    OBVIOUS
  <2>1. PICK y \in T : TRUE
    OBVIOUS
  <2>2. y <= m /\ y # m /\ y \in Nat /\ m \in Nat
    BY <2>1, <1>2
  <2>3. m - 1 \in Nat /\ \A z \in T : z <= m - 1
    BY <2>2, <1>2
  <2>4. m - 1 \in U
    BY <2>3
  <2> QED BY <1>2, <2>2, <2>4
<1> QED BY <1>2, <1>3

LEMMA MaxOfIs ==
  ASSUME NEW T, NEW x \in T, T \subseteq Nat, \A y \in T : y <= x
  PROVE  MaxOf(T) = x
<1>1. \E z \in T : \A y \in T : y <= z
  OBVIOUS
<1>2. MaxOf(T) \in T /\ \A y \in T : y <= MaxOf(T)
  BY <1>1 DEF MaxOf
<1>3. MaxOf(T) <= x /\ x <= MaxOf(T) /\ x \in Nat /\ MaxOf(T) \in Nat
  BY <1>2
<1> QED BY <1>3

LEMMA MaxOfBounds ==
  ASSUME NEW N \in Nat, NEW T, T \subseteq 0..N, T # {}
  PROVE  MaxOf(T) \in T /\ \A y \in T : y <= MaxOf(T)
BY GreatestExists DEF MaxOf

LEMMA MinOfBounds ==
  ASSUME NEW T, T \subseteq Nat, T # {}
  PROVE  MinOf(T) \in T /\ \A y \in T : MinOf(T) <= y
BY LeastExists DEF MinOf

-----------------------------------------------------------------------------
(* Reading a segment.                                                      *)

\* The i-th three cells of x are those of one record.
IsRecord(x, i) ==
  /\ x[3 * i - 2].part = 1 /\ x[3 * i - 1].part = 2 /\ x[3 * i].part = 3
  /\ x[3 * i - 2].rec = x[3 * i].rec /\ x[3 * i - 1].rec = x[3 * i].rec

LEMMA EncodeCells ==
  ASSUME NEW r \in 1..MaxSeq
  PROVE  /\ Encode(r) \in Seq(Cells) /\ Len(Encode(r)) = 3
         /\ \A p \in 1..3 : Encode(r)[p] = [rec |-> r, part |-> p]
<1>1. Encode(r) = [p \in 1..3 |-> [rec |-> r, part |-> p]]
  BY DEF Encode, Parts, RecLen
<1>2. \A p \in 1..3 : [rec |-> r, part |-> p] \in Cells
  BY DEF Cells, Parts, RecLen
<1> QED BY <1>1, <1>2

LEMMA CellFields ==
  ASSUME NEW c \in Cells
  PROVE  /\ c.rec \in 1..MaxSeq /\ c.part \in 1..3 /\ c = [rec |-> c.rec, part |-> c.part]
BY DEF Cells, Parts, RecLen

LEMMA RunIs ==
  ASSUME NEW x \in Seq(Cells), NEW n \in Nat
  PROVE  RunOf(x, n) <=> 3 * n <= Len(x) /\ \A i \in 1..n : IsRecord(x, i)
<1>1. Len(x) \in Nat /\ \A k \in 1..Len(x) : x[k] \in Cells
  BY LenProperties, ElementOfSeq
<1>2. ASSUME NEW i \in Nat, 3 * (i + 1) <= Len(x)
      PROVE  SubSeq(x, i * 3 + 1, (i + 1) * 3) = Encode(x[i * 3 + 1].rec) <=> IsRecord(x, i + 1)
  <2>1. PICK u, v, w, y, m : u = x[3 * i + 1] /\ v = x[3 * i + 2] /\ w = x[3 * i + 3]
                              /\ m = 3 * i /\ y = SubSeq(x, i * 3 + 1, (i + 1) * 3)
    OBVIOUS
  <2>2. m \in Nat /\ i * 3 + 1 = m + 1 /\ (i + 1) * 3 = m + 3 /\ m + 3 <= Len(x) /\ m = 3 * i
    BY <1>2, <2>1
  <2>3. u \in Cells /\ v \in Cells /\ w \in Cells
    BY <1>1, <2>1, <2>2
  <2>4. \A k \in (m + 1)..(m + 3) : x[k] \in Cells
    BY <1>1, <2>2
  <2>5. /\ SubSeq(x, m + 1, m + 3) \in Seq(Cells)
        /\ Len(SubSeq(x, m + 1, m + 3)) = IF m + 1 <= m + 3 THEN (m + 3) - (m + 1) + 1 ELSE 0
        /\ \A k \in 1..((m + 3) - (m + 1) + 1) : SubSeq(x, m + 1, m + 3)[k] = x[m + 1 + k - 1]
    BY <2>2, <2>4, SubSeqProperties
  <2>6. /\ y \in Seq(Cells) /\ Len(y) = 3 /\ y[1] = u /\ y[2] = v /\ y[3] = w
    BY <2>1, <2>2, <2>5
  <2>7. PICK r : r = u.rec
    OBVIOUS
  <2>8. /\ r \in 1..MaxSeq /\ Encode(r) \in Seq(Cells) /\ Len(Encode(r)) = 3
        /\ \A p \in 1..3 : Encode(r)[p] = [rec |-> r, part |-> p]
    BY <2>3, <2>7, CellFields, EncodeCells
  <2>9. y = Encode(r) <=> \A p \in 1..3 : y[p] = [rec |-> r, part |-> p]
    <3>1. ASSUME \A p \in 1..3 : y[p] = [rec |-> r, part |-> p] PROVE y = Encode(r)
      <4>1. y \in Seq(Cells) /\ Encode(r) \in Seq(Cells) /\ Len(y) = Len(Encode(r))
            /\ \A p \in 1..Len(y) : y[p] = Encode(r)[p]
        BY <2>6, <2>8, <3>1
      <4> QED BY <4>1, SeqEqual
    <3> QED BY <2>8, <3>1
  <2>10. (\A p \in 1..3 : y[p] = [rec |-> r, part |-> p])
           <=> /\ u = [rec |-> r, part |-> 1] /\ v = [rec |-> r, part |-> 2]
               /\ w = [rec |-> r, part |-> 3]
    BY <2>6
  <2>11. (/\ u = [rec |-> r, part |-> 1] /\ v = [rec |-> r, part |-> 2]
          /\ w = [rec |-> r, part |-> 3])
           <=> /\ u.part = 1 /\ v.part = 2 /\ w.part = 3 /\ u.rec = w.rec /\ v.rec = w.rec
    BY <2>3, <2>7, CellFields
  <2>12. 3 * (i + 1) - 2 = 3 * i + 1 /\ 3 * (i + 1) - 1 = 3 * i + 2 /\ 3 * (i + 1) = 3 * i + 3
    OBVIOUS
  <2>13. IsRecord(x, i + 1)
           <=> /\ u.part = 1 /\ v.part = 2 /\ w.part = 3 /\ u.rec = w.rec /\ v.rec = w.rec
    BY <2>1, <2>12 DEF IsRecord
  <2>14. x[i * 3 + 1].rec = r
    BY <2>1, <2>2, <2>7
  <2> QED BY <2>1, <2>9, <2>10, <2>11, <2>13, <2>14
<1>3. RunOf(x, n) <=>
        /\ n * 3 <= Len(x)
        /\ \A i \in 0..(n - 1) : SubSeq(x, i * 3 + 1, (i + 1) * 3) = Encode(x[i * 3 + 1].rec)
  BY DEF RunOf, RecLen
<1>4. ASSUME 3 * n <= Len(x)
      PROVE  (\A i \in 0..(n - 1) : SubSeq(x, i * 3 + 1, (i + 1) * 3) = Encode(x[i * 3 + 1].rec))
               <=> \A i \in 1..n : IsRecord(x, i)
  <2>1. \A i \in 0..(n - 1) : i \in Nat /\ 3 * (i + 1) <= Len(x)
    BY <1>1, <1>4
  <2>2. (\A i \in 0..(n - 1) : SubSeq(x, i * 3 + 1, (i + 1) * 3) = Encode(x[i * 3 + 1].rec))
          <=> \A i \in 0..(n - 1) : IsRecord(x, i + 1)
    BY <1>2, <2>1
  <2>3. ASSUME \A i \in 0..(n - 1) : IsRecord(x, i + 1), NEW i \in 1..n PROVE IsRecord(x, i)
    <3>1. i - 1 \in 0..(n - 1) /\ (i - 1) + 1 = i
      OBVIOUS
    <3> QED BY <2>3, <3>1
  <2>4. ASSUME \A i \in 1..n : IsRecord(x, i), NEW i \in 0..(n - 1) PROVE IsRecord(x, i + 1)
    <3>1. i + 1 \in 1..n
      OBVIOUS
    <3> QED BY <2>4, <3>1
  <2> QED BY <2>2, <2>3, <2>4
<1>5. n * 3 = 3 * n
  OBVIOUS
<1> QED BY <1>3, <1>4, <1>5

\* The first n records decode if n is not above ValidCount.
LEMMA CountIs ==
  ASSUME NEW x \in Seq(Cells)
  PROVE  /\ ValidCount(x) \in Nat /\ 3 * ValidCount(x) <= Len(x) /\ Len(x) \in Nat
         /\ \A i \in 1..ValidCount(x) : IsRecord(x, i)
         /\ \A n \in Nat : 3 * n <= Len(x) /\ (\A i \in 1..n : IsRecord(x, i)) => n <= ValidCount(x)
<1>1. Len(x) \in Nat
  BY LenProperties
<1> DEFINE T == {n \in 0..Len(x) : RunOf(x, n)}
<1>2. RunOf(x, 0)
  <2>1. 3 * 0 <= Len(x) /\ \A i \in 1..0 : IsRecord(x, i)
    BY <1>1
  <2> QED BY <2>1, RunIs
<1>3. T \subseteq 0..Len(x) /\ 0 \in T
  BY <1>1, <1>2
<1>4. PICK m \in T : \A n \in T : n <= m
  BY <1>1, <1>3, GreatestExists
<1>5. \A n \in Nat : RunOf(x, n) => n \in T
  BY <1>1, RunIs
<1>6. m \in 0..Len(x) /\ RunOf(x, m) /\ ~RunOf(x, m + 1)
  <2>1. m \in 0..Len(x) /\ RunOf(x, m)
    BY <1>4
  <2>2. m + 1 \in Nat /\ ~(m + 1 <= m)
    BY <2>1
  <2> QED BY <1>4, <1>5, <2>1, <2>2
<1>7. PICK v : v = ValidCount(x)
  OBVIOUS
<1>8. v \in 0..Len(x) /\ RunOf(x, v) /\ ~RunOf(x, v + 1)
  BY <1>6, <1>7 DEF ValidCount
<1>9. v \in Nat /\ v + 1 \in Nat
  BY <1>1, <1>8
<1>10. 3 * v <= Len(x) /\ \A i \in 1..v : IsRecord(x, i)
  BY <1>8, <1>9, RunIs
<1>11. ASSUME NEW n \in Nat, 3 * n <= Len(x), \A i \in 1..n : IsRecord(x, i)
       PROVE  n <= v
  <2> SUFFICES ASSUME ~(n <= v) PROVE FALSE
    OBVIOUS
  <2>1. 3 * (v + 1) <= Len(x) /\ \A i \in 1..(v + 1) : i \in 1..n
    BY <1>1, <1>9, <1>11
  <2>2. RunOf(x, v + 1)
    BY <1>9, <1>11, <2>1, RunIs
  <2> QED BY <1>8, <2>2
<1> QED BY <1>1, <1>7, <1>9, <1>10, <1>11

\* x is a first part of y.
Begins(x, y) == Len(x) <= Len(y) /\ \A k \in 1..Len(x) : x[k] = y[k]

\* The records of a first part are the first records.
LEMMA PrefixCount ==
  ASSUME NEW x \in Seq(Cells), NEW y \in Seq(Cells), Begins(x, y)
  PROVE  /\ \A n \in Nat : n <= ValidCount(x) <=> 3 * n <= Len(x) /\ n <= ValidCount(y)
         /\ ValidCount(x) <= ValidCount(y)
         /\ \A i \in 1..ValidCount(x) : i \in 1..ValidCount(y) /\ x[i * RecLen] = y[i * RecLen]
<1>1. PICK v, w, m, l : v = ValidCount(x) /\ w = ValidCount(y) /\ m = Len(x) /\ l = Len(y)
  OBVIOUS
<1>2. /\ v \in Nat /\ 3 * v <= m /\ m \in Nat /\ \A i \in 1..v : IsRecord(x, i)
      /\ \A n \in Nat : 3 * n <= m /\ (\A i \in 1..n : IsRecord(x, i)) => n <= v
  BY <1>1, CountIs
<1>3. /\ w \in Nat /\ 3 * w <= l /\ l \in Nat /\ \A i \in 1..w : IsRecord(y, i)
      /\ \A n \in Nat : 3 * n <= l /\ (\A i \in 1..n : IsRecord(y, i)) => n <= w
  BY <1>1, CountIs
<1>4. m <= l /\ \A k \in 1..m : x[k] = y[k]
  BY <1>1 DEF Begins
<1>5. ASSUME NEW i \in Nat \ {0}, 3 * i <= m
      PROVE  (IsRecord(x, i) <=> IsRecord(y, i)) /\ x[i * RecLen] = y[i * RecLen]
  <2>1. 3 * i - 2 \in 1..m /\ 3 * i - 1 \in 1..m /\ 3 * i \in 1..m
    BY <1>2, <1>5
  <2>2. i * RecLen = 3 * i
    BY DEF RecLen
  <2>3. x[3 * i - 2] = y[3 * i - 2] /\ x[3 * i - 1] = y[3 * i - 1] /\ x[3 * i] = y[3 * i]
    BY <1>4, <2>1
  <2> QED BY <2>2, <2>3 DEF IsRecord
<1>6. ASSUME NEW n \in Nat, n <= v PROVE 3 * n <= m /\ n <= w
  <2>1. 3 * n <= m /\ 3 * n <= l
    BY <1>2, <1>3, <1>4, <1>6
  <2>2. ASSUME NEW i \in 1..n PROVE IsRecord(y, i)
    <3>1. i \in 1..v /\ i \in Nat \ {0} /\ 3 * i <= m
      BY <1>2, <1>6
    <3> QED BY <1>2, <1>5, <3>1
  <2> QED BY <1>3, <2>1, <2>2
<1>7. ASSUME NEW n \in Nat, n <= w, 3 * n <= m PROVE n <= v
  <2>1. ASSUME NEW i \in 1..n PROVE IsRecord(x, i)
    <3>1. i \in 1..w /\ i \in Nat \ {0} /\ 3 * i <= m
      BY <1>2, <1>3, <1>7
    <3> QED BY <1>3, <1>5, <3>1
  <2> QED BY <1>2, <1>7, <2>1
<1>8. v <= w
  BY <1>2, <1>6
<1>9. ASSUME NEW i \in 1..v PROVE i \in 1..w /\ x[i * RecLen] = y[i * RecLen]
  <2>1. i \in Nat \ {0} /\ 3 * i <= m /\ i \in 1..w
    BY <1>2, <1>3, <1>8
  <2> QED BY <1>5, <2>1
<1> QED BY <1>1, <1>6, <1>7, <1>8, <1>9

\* What x \o Encode(r), or a first part of it, has more than x: at most the
\* record r, and that only if x had whole records and nothing else.
LEMMA GrownCount ==
  ASSUME NEW x \in Seq(Cells), NEW y \in Seq(Cells), NEW r \in 1..MaxSeq,
         Begins(x, y), Begins(y, x \o Encode(r))
  PROVE  \A i \in 1..ValidCount(y) :
           \/ i \in 1..ValidCount(x) /\ y[i * RecLen] = x[i * RecLen]
           \/ /\ i = ValidCount(x) + 1 /\ Len(x) = RecLen * ValidCount(x)
              /\ Len(y) = Len(x) + RecLen /\ y[i * RecLen].rec = r
<1>1. PICK v, w, m, l : v = ValidCount(x) /\ w = ValidCount(y) /\ m = Len(x) /\ l = Len(y)
  OBVIOUS
<1>2. v \in Nat /\ 3 * v <= m /\ m \in Nat /\ w \in Nat /\ 3 * w <= l /\ l \in Nat
  BY <1>1, CountIs
<1>3. \A i \in 1..w : IsRecord(y, i)
  BY <1>1, CountIs
<1>4. \A n \in Nat : n <= v <=> 3 * n <= m /\ n <= w
  BY <1>1, PrefixCount
<1>5. \A i \in 1..v : i \in 1..w /\ x[i * RecLen] = y[i * RecLen]
  BY <1>1, PrefixCount
<1>6. PICK e, z : e = Encode(r) /\ z = x \o e
  OBVIOUS
<1>7. e \in Seq(Cells) /\ Len(e) = 3 /\ \A p \in 1..3 : e[p] = [rec |-> r, part |-> p]
  BY <1>6, EncodeCells
<1>8. Len(z) = m + 3 /\ \A p \in 1..3 : z[m + p] = [rec |-> r, part |-> p]
  <2>1. /\ Len(x \o e) = Len(x) + Len(e)
        /\ \A p \in 1..Len(e) : (x \o e)[Len(x) + p] = e[p]
    <3>1. x \in Seq(Cells) /\ e \in Seq(Cells)
      BY <1>7
    <3> QED BY <3>1, ConcatAt
  <2> QED BY <1>1, <1>6, <1>7, <2>1
<1>9. l <= m + 3 /\ \A k \in 1..l : y[k] = z[k]
  BY <1>1, <1>6, <1>8 DEF Begins
<1>10. ASSUME NEW i \in 1..w, i \notin 1..v
       PROVE  i = v + 1 /\ m = 3 * v /\ l = m + 3 /\ y[3 * i].rec = r
  <2>1. PICK k : k = v + 1
    OBVIOUS
  <2>2. k \in 1..w /\ k \in Nat /\ ~(k <= v)
    BY <1>2, <1>10, <2>1
  <2>3. 3 * k > m /\ 3 * k <= l
    BY <1>2, <1>4, <2>2
  <2>4. IsRecord(y, k)
    BY <1>3, <2>2
  <2>5. m = 3 * k - 3 \/ m = 3 * k - 2 \/ m = 3 * k - 1
    BY <1>2, <2>1, <2>3
  <2>6. m + 1 \in 1..l /\ 1 \in 1..3
    BY <1>2, <2>2, <2>3
  <2>7. y[m + 1] = [rec |-> r, part |-> 1]
    BY <1>8, <1>9, <2>6
  <2>8. y[m + 1].part = 1
    BY <2>7
  <2>9. m # 3 * k - 2
    <3> SUFFICES ASSUME m = 3 * k - 2 PROVE FALSE
      OBVIOUS
    <3>1. m + 1 = 3 * k - 1
      BY <2>2
    <3> QED BY <2>4, <2>8, <3>1 DEF IsRecord
  <2>10. m # 3 * k - 1
    <3> SUFFICES ASSUME m = 3 * k - 1 PROVE FALSE
      OBVIOUS
    <3>1. m + 1 = 3 * k
      BY <2>2
    <3> QED BY <2>4, <2>8, <3>1 DEF IsRecord
  <2>11. m = 3 * v /\ l = m + 3 /\ i = v + 1
    BY <1>2, <1>9, <1>10, <2>1, <2>2, <2>3, <2>5, <2>9, <2>10
  <2>12. 3 * i = m + 3 /\ 3 * i \in 1..l /\ 3 \in 1..3
    BY <1>2, <2>11
  <2>13. y[3 * i] = [rec |-> r, part |-> 3]
    BY <1>8, <1>9, <2>12
  <2> QED BY <2>11, <2>13
<1>11. \A i \in 1..w : i * RecLen = 3 * i
  BY DEF RecLen
<1>12. RecLen = 3
  BY DEF RecLen
<1> QED BY <1>1, <1>5, <1>10, <1>11, <1>12

LEMMA BeginsSame == ASSUME NEW x \in Seq(Cells) PROVE Begins(x, x)
BY LenProperties DEF Begins

\* An initial segment of a sequence, and a sequence with more behind it.
LEMMA BeginsPrefix ==
  ASSUME NEW x \in Seq(Cells), NEW n \in 0..Len(x)
  PROVE  SubSeq(x, 1, n) \in Seq(Cells) /\ Len(SubSeq(x, 1, n)) = n /\ Begins(SubSeq(x, 1, n), x)
<1>1. /\ SubSeq(x, 1, n) \in Seq(Cells) /\ Len(x) \in Nat /\ Len(SubSeq(x, 1, n)) = n
      /\ \A k \in 1..n : SubSeq(x, 1, n)[k] = x[k]
  BY PrefixAt
<1> QED BY <1>1 DEF Begins

LEMMA BeginsConcat ==
  ASSUME NEW x \in Seq(Cells), NEW y \in Seq(Cells)
  PROVE  x \o y \in Seq(Cells) /\ Len(x \o y) = Len(x) + Len(y) /\ Begins(x, x \o y)
<1>1. /\ x \o y \in Seq(Cells) /\ Len(x) \in Nat /\ Len(y) \in Nat
      /\ Len(x \o y) = Len(x) + Len(y) /\ \A k \in 1..Len(x) : (x \o y)[k] = x[k]
  BY ConcatAt
<1> QED BY <1>1 DEF Begins

LEMMA BeginsTransitive ==
  ASSUME NEW x \in Seq(Cells), NEW y \in Seq(Cells), NEW z \in Seq(Cells),
         Begins(x, y), Begins(y, z)
  PROVE  Begins(x, z)
<1>1. Len(x) \in Nat /\ Len(y) \in Nat /\ Len(z) \in Nat
  BY LenProperties
<1> QED BY <1>1 DEF Begins

\* Two first parts of a sequence: the shorter is a first part of the longer.
LEMMA BeginsBoth ==
  ASSUME NEW x \in Seq(Cells), NEW y \in Seq(Cells), NEW z \in Seq(Cells),
         Begins(x, z), Begins(y, z), Len(x) <= Len(y)
  PROVE  Begins(x, y)
<1>1. Len(x) \in Nat /\ Len(y) \in Nat /\ Len(z) \in Nat
  BY LenProperties
<1> QED BY <1>1 DEF Begins

\* A sequence cut in two and put together again.
LEMMA CutConcat ==
  ASSUME NEW x \in Seq(Cells), NEW n \in 0..Len(x)
  PROVE  /\ SubSeq(x, 1, n) \o SubSeq(x, n + 1, Len(x)) = x
         /\ SubSeq(x, n + 1, Len(x)) \in Seq(Cells)
<1>1. PICK u, v, l : u = SubSeq(x, 1, n) /\ v = SubSeq(x, n + 1, Len(x)) /\ l = Len(x)
  OBVIOUS
<1>2. u \in Seq(Cells) /\ l \in Nat /\ Len(u) = n /\ \A k \in 1..n : u[k] = x[k]
  BY <1>1, PrefixAt
<1>3. v \in Seq(Cells) /\ Len(v) = l - n /\ \A k \in 1..(l - n) : v[k] = x[n + k]
  BY <1>1, SuffixAt
<1>4. PICK z : z = u \o v
  OBVIOUS
<1>5. /\ z \in Seq(Cells) /\ Len(z) = Len(u) + Len(v)
      /\ \A k \in 1..Len(u) : z[k] = u[k]
      /\ \A k \in 1..Len(v) : z[Len(u) + k] = v[k]
  <2>1. /\ u \o v \in Seq(Cells) /\ Len(u \o v) = Len(u) + Len(v)
        /\ \A k \in 1..Len(u) : (u \o v)[k] = u[k]
        /\ \A k \in 1..Len(v) : (u \o v)[Len(u) + k] = v[k]
    <3>1. u \in Seq(Cells) /\ v \in Seq(Cells)
      BY <1>2, <1>3
    <3> QED BY ONLY <3>1, ConcatAt
  <2> QED BY <1>4, <2>1
<1>6. n \in Nat /\ Len(z) = l
  BY <1>1, <1>2, <1>3, <1>5
<1>7. ASSUME NEW k \in 1..l PROVE z[k] = x[k]
  <2>1. CASE k <= n
    BY <1>2, <1>5, <1>6, <2>1
  <2>2. CASE k > n
    <3>1. PICK j : j = k - n
      OBVIOUS
    <3>2. j \in 1..(l - n) /\ n + j = k
      BY <1>2, <1>6, <2>2, <3>1
    <3>3. z[n + j] = v[j] /\ v[j] = x[n + j]
      BY <1>2, <1>3, <1>5, <3>2
    <3> QED BY <3>2, <3>3
  <2> QED BY <1>6, <2>1, <2>2
<1> QED BY <1>1, <1>3, <1>4, <1>5, <1>6, <1>7, SeqEqual

-----------------------------------------------------------------------------
(* The inductive invariants.                                               *)

\* Threads are in append only while the log is open, with a number of their
\* own, and one at a time beyond write_all; the writer has the last segment.
Placed ==
  /\ files \in [Segments -> Seq(Cells)]
  /\ \A t \in Threads : pc[t] # "idle" => status = "up" /\ seqOf[t] \in 1..MaxSeq
  /\ \A t, u \in Threads : pc[t] = "sync" /\ pc[u] = "sync" => t = u
  /\ status # "up" => buf = <<>>
  /\ Segments # {} => writerSeg \in Segments
  /\ \A s \in Segments : s <= writerSeg
  /\ writerSeg <= current_segment_index

TypeInv == TypeOK /\ Placed

\* A record of the log.
Logged(r) == \E s \in Segments : \E i \in 1..Count(s) : Rec(s, i) = r

Before(t) == pc[t] \in {"check", "rotate", "write"}

\* No number is in use twice: neither by two records, nor by a record and a
\* thread that will write one; and the counter is beyond all of them.
UniqueInv ==
  /\ \A s1, s2 \in Segments : \A i \in 1..Count(s1), j \in 1..Count(s2) :
       Rec(s1, i) = Rec(s2, j) => s1 = s2 /\ i = j
  /\ status = "up" =>
       /\ \A s \in Segments : \A i \in 1..Count(s) : Rec(s, i) <= current_sequence
       /\ \A t \in Threads : Before(t) => seqOf[t] <= current_sequence /\ ~Logged(seqOf[t])
       /\ \A t, u \in Threads : Before(t) /\ Before(u) /\ seqOf[t] = seqOf[u] => t = u
  /\ status = "recovering" =>
       \A s \in Segments \ recTodo : \A i \in 1..Count(s) : Rec(s, i) <= max_sequence

\* A write never stops after less than a magic, no fault of the test kit tears
\* a record, and a failing write leaves what it did not write in the buffer.
CleanWrites ==
  /\ 1 \notin TornCuts
  /\ "partial_write" \notin NovaFaults
  /\ "write" \in IoErrors => ~Direct

\* Whole records only; and then perhaps the first two cells of another.
Tidy(x) == Len(x) = RecLen * ValidCount(x)
Sane(x) ==
  \/ Tidy(x)
  \/ /\ Len(x) = RecLen * ValidCount(x) + 2
     /\ x[Len(x) - 1].part = 1 /\ x[Len(x)].part = 2

\* x may end after its n-th cell.
CutAt(x, n) == n = 0 \/ x[n].part # 1

Torn == status \in {"down", "recovering", "failed"} /\ (status = "recovering" => writerSeg \in recTodo)

TidyInv ==
  /\ status # "corrupt" /\ nova_fault # "partial_write"
  /\ \A s \in Segments \ {writerSeg} : Tidy(files[s])
  /\ writerSeg \in Segments =>
       /\ Sane(Stream)
       /\ Torn \/ Tidy(Stream)
       /\ CutAt(files[writerSeg], FileLen)
       /\ CutAt(files[writerSeg], synced[writerSeg])

\* The thread that has the mutex wrote the last record, and under
\* SyncMode::Always flushed it.
LastInv ==
  \A t \in Threads : pc[t] = "sync" =>
    /\ Stream # <<>> /\ Stream[Len(Stream)].rec = seqOf[t]
    /\ sync_mode = "Always" => buf = <<>>

\* Acknowledged records are in the log, and under SyncMode::Always durable.
AckedInv ==
  \A r \in acked : \E s \in Segments : \E i \in 1..Count(s) :
    /\ Rec(s, i) = r
    /\ sync_mode = "Always" => i * RecLen <= synced[s]

\* What was acknowledged when a number was handed out is in front of it.
OrderInv ==
  /\ \A s \in Segments : \A i \in 1..Count(s) : \A r \in before[Rec(s, i)] :
       \E s1 \in Segments : \E j \in 1..Count(s1) : Rec(s1, j) = r /\ Earlier(s1, j, s, i)
  /\ \A t \in Threads : Before(t) => \A r \in before[seqOf[t]] : Logged(r)

\* What was replayed is in segments that the scan has left behind.
ReplayInv ==
  /\ ReplayRespectsOrder
  /\ status = "recovering" =>
       \A k \in 1..Len(replayed) : \E s \in Segments \ recTodo : \E i \in 1..Count(s) :
         replayed[k] = Rec(s, i) /\ \A s2 \in recTodo : s < s2
  /\ status = "up" => \A k \in 1..Len(replayed) : replayed[k] <= current_sequence

\* The acknowledged records of a segment fit its limit together with those that
\* threads past the size test may still add; the counter is not behind them.
Counted(s) == acked \cap {StreamOf(s)[i].rec : i \in 1..Len(StreamOf(s))}
Writers == {t \in Threads : pc[t] \in {"write", "sync"}}
SizeInv ==
  /\ \A s \in Segments : RecLen * Cardinality(Counted(s))
                           <= SegmentSizeLimit + (Cardinality(Threads) - 1) * RecLen
  /\ status = "up" =>
       /\ RecLen * Cardinality(Counted(writerSeg)) <= current_segment_size
       /\ RecLen * (Cardinality(Counted(writerSeg)) + Cardinality(Writers))
            <= SegmentSizeLimit + (Cardinality(Threads) - 1) * RecLen

-----------------------------------------------------------------------------
(* What the steps do to the disk and to the streams.                       *)

LEMMA WalTypes ==
  ASSUME TypeInv
  PROVE  /\ \A s \in Segments : /\ s \in Nat /\ files[s] \in Seq(Cells) /\ Len(files[s]) \in Nat
                                /\ synced[s] \in 0..Len(files[s])
         /\ buf \in Seq(Cells) /\ Len(buf) \in Nat /\ writerSeg \in Nat
<1>1. \A s \in Segments : s \in Nat /\ files[s] \in Seq(Cells) /\ Len(files[s]) \in Nat
  BY LenProperties DEF TypeInv, TypeOK
<1>2. \A s \in Segments : synced[s] \in 0..Len(files[s])
  BY <1>1 DEF TypeInv, TypeOK
<1> QED BY <1>1, <1>2, LenProperties DEF TypeInv, TypeOK

LEMMA StreamTypes ==
  ASSUME TypeInv, writerSeg \in Segments
  PROVE  /\ Stream \in Seq(Cells) /\ Len(Stream) \in Nat /\ FileLen \in Nat
         /\ Len(Stream) = FileLen + Len(buf) /\ FileLen <= Len(Stream)
         /\ Begins(files[writerSeg], Stream)
<1>1. /\ files[writerSeg] \in Seq(Cells) /\ Len(files[writerSeg]) \in Nat
      /\ buf \in Seq(Cells) /\ Len(buf) \in Nat
  BY WalTypes
<1>2. /\ files[writerSeg] \o buf \in Seq(Cells)
      /\ Len(files[writerSeg] \o buf) = Len(files[writerSeg]) + Len(buf)
      /\ Begins(files[writerSeg], files[writerSeg] \o buf)
  BY <1>1, BeginsConcat
<1> QED BY <1>1, <1>2 DEF Stream, FileLen

LEMMA StreamOfTypes ==
  ASSUME TypeInv, NEW s \in Segments
  PROVE  StreamOf(s) \in Seq(Cells) /\ Begins(files[s], StreamOf(s))
<1>1. CASE s = writerSeg
  BY <1>1, StreamTypes DEF StreamOf
<1>2. CASE s # writerSeg
  BY <1>2, WalTypes, BeginsSame DEF StreamOf
<1> QED BY <1>1, <1>2

\* Put writes a part of a stream and keeps the rest.
LEMMA PutEffect ==
  ASSUME TypeInv, writerSeg \in Segments, NEW z \in Seq(Cells), NEW n \in 0..Len(z),
         Put(z, n), writerSeg' = writerSeg
  PROVE  /\ Segments' = Segments /\ files' \in [Segments -> Seq(Cells)] /\ buf' \in Seq(Cells)
         /\ \A s \in Segments \ {writerSeg} : files'[s] = files[s]
         /\ files'[writerSeg] = SubSeq(z, 1, n) /\ Len(files'[writerSeg]) = n
         /\ Begins(files'[writerSeg], z)
         /\ Stream' = z
<1>1. PICK f, b : f = SubSeq(z, 1, n) /\ b = SubSeq(z, n + 1, Len(z))
  OBVIOUS
<1>2. f \in Seq(Cells) /\ Len(f) = n /\ Begins(f, z)
  BY <1>1, BeginsPrefix
<1>3. f \o b = z /\ b \in Seq(Cells)
  BY <1>1, CutConcat
<1>4. files' = [files EXCEPT ![writerSeg] = f] /\ buf' = b
  BY <1>1 DEF Put
<1>5. files \in [Segments -> Seq(Cells)]
  BY DEF TypeInv, Placed
<1>6. /\ Segments' = Segments /\ files' \in [Segments -> Seq(Cells)] /\ files'[writerSeg] = f
      /\ \A s \in Segments \ {writerSeg} : files'[s] = files[s]
  BY <1>2, <1>4, <1>5 DEF Segments
<1>7. Stream' = z
  BY <1>3, <1>4, <1>6 DEF Stream
<1> QED BY <1>1, <1>2, <1>3, <1>4, <1>6, <1>7

LEMMA CutsIn ==
  ASSUME NEW z \in Seq(Cells), NEW lo \in 0..Len(z), NEW n \in Cuts(z, lo)
  PROVE  /\ n \in 0..Len(z) /\ lo <= n
         /\ n = lo \/ n = Len(z) \/ (n # 0 /\ z[n].part \in TornCuts \cup {3})
<1>1. Len(z) \in Nat
  BY LenProperties
<1> QED BY <1>1 DEF Cuts, RecLen

\* write_all and its error returns: the stream is extended by some of the
\* record, and the file by some of the stream.
LEMMA WriteEffect ==
  ASSUME TypeInv, NEW t \in Threads, Write(t) \/ PartialWrite(t) \/ WriteFails(t)
  PROVE  /\ writerSeg \in Segments /\ status = "up" /\ seqOf[t] \in 1..MaxSeq
         /\ pc[t] = "write" /\ pc' \in {[pc EXCEPT ![t] = "sync"], [pc EXCEPT ![t] = "idle"]}
         /\ Segments' = Segments /\ files' \in [Segments -> Seq(Cells)] /\ buf' \in Seq(Cells)
         /\ \A s \in Segments \ {writerSeg} : files'[s] = files[s]
         /\ Begins(files[writerSeg], files'[writerSeg])
         /\ Stream' \in Seq(Cells)
         /\ Begins(Stream, Stream') /\ Begins(Stream', Stream \o Encode(seqOf[t]))
         /\ UNCHANGED <<synced, writerSeg, atomics, poisoned, seqOf, status,
                        settings, recovery, acked, before, halts>>
<1>1. /\ pc[t] = "write" /\ pc' \in {[pc EXCEPT ![t] = "sync"], [pc EXCEPT ![t] = "idle"]}
      /\ UNCHANGED <<synced, writerSeg, atomics, poisoned, seqOf, status,
                     settings, recovery, acked, before, halts>>
  BY DEF Write, PartialWrite, WriteFails, Goto
<1>2. status = "up" /\ seqOf[t] \in 1..MaxSeq /\ writerSeg \in Segments
  BY <1>1 DEF TypeInv, TypeOK, Placed
<1>3. PICK S, e, Z, f, L, M : /\ S = Stream /\ e = Encode(seqOf[t]) /\ Z = S \o e
                              /\ f = files[writerSeg] /\ L = Len(S) /\ M = FileLen
  OBVIOUS
<1>4. S \in Seq(Cells) /\ L \in Nat /\ M \in Nat /\ M = Len(f) /\ M <= L /\ f \in Seq(Cells)
      /\ Begins(f, S)
  BY <1>2, <1>3, StreamTypes, WalTypes DEF FileLen
<1>5. e \in Seq(Cells) /\ Len(e) = 3
  BY <1>2, <1>3, EncodeCells
<1>6. Z \in Seq(Cells) /\ Len(Z) = L + 3 /\ Begins(S, Z)
  <2>1. S \o e \in Seq(Cells) /\ Len(S \o e) = Len(S) + Len(e) /\ Begins(S, S \o e)
    BY <1>4, <1>5, BeginsConcat
  <2> QED BY <1>3, <1>5, <2>1
<1>7. Begins(f, Z) /\ Begins(S, S) /\ Begins(Z, Z)
  BY <1>4, <1>6, BeginsTransitive, BeginsSame
<1> DEFINE Goal == /\ Segments' = Segments /\ files' \in [Segments -> Seq(Cells)] /\ buf' \in Seq(Cells)
                   /\ \A s \in Segments \ {writerSeg} : files'[s] = files[s]
                   /\ Begins(f, files'[writerSeg])
                   /\ Stream' \in Seq(Cells)
                   /\ Begins(S, Stream') /\ Begins(Stream', Z)
\* Some cells of a stream between S and Z are put in the file.
<1>8. ASSUME NEW z \in Seq(Cells), Begins(f, z), Begins(S, z), Begins(z, Z),
             NEW n \in 0..Len(z), M <= n, Put(z, n)
      PROVE  Goal
  <2>1. writerSeg' = writerSeg
    BY <1>1
  <2>2. /\ Segments' = Segments /\ files' \in [Segments -> Seq(Cells)] /\ buf' \in Seq(Cells)
        /\ \A s \in Segments \ {writerSeg} : files'[s] = files[s]
        /\ Len(files'[writerSeg]) = n /\ Begins(files'[writerSeg], z) /\ Stream' = z
    BY <1>2, <1>8, <2>1, PutEffect
  <2>3. files'[writerSeg] \in Seq(Cells)
    BY <1>2, <2>2
  <2>4. Begins(f, files'[writerSeg])
    BY <1>4, <1>8, <2>2, <2>3, BeginsBoth
  <2>5. Stream' \in Seq(Cells) /\ Begins(S, Stream') /\ Begins(Stream', Z)
    BY <1>8, <2>2
  <2> QED BY <2>2, <2>4, <2>5
<1> HIDE DEF Goal
<1>9. ASSUME Write(t) PROVE Goal
  <2>1. PICK n : n = WrittenThrough
    OBVIOUS
  <2>2. n \in {M, L, L + 3}
    BY <1>3, <2>1 DEF WrittenThrough, RecLen
  <2>3. Put(Z, n) /\ n \in 0..Len(Z) /\ M <= n
    BY <1>3, <1>4, <1>6, <1>9, <2>1, <2>2 DEF Write
  <2> QED BY <1>6, <1>7, <1>8, <2>3
<1>10. ASSUME PartialWrite(t) PROVE Goal
  <2>1. PICK d, z : d = SubSeq(e, 1, 2) /\ z = S \o d
    OBVIOUS
  <2>2. 2 \in 0..Len(e)
    BY <1>5
  <2>3. d \in Seq(Cells) /\ Len(d) = 2 /\ \A k \in 1..2 : d[k] = e[k]
    BY <1>5, <2>1, <2>2, PrefixAt
  <2>4. /\ z \in Seq(Cells) /\ Len(z) = L + 2 /\ Begins(S, z)
        /\ \A k \in 1..L : z[k] = S[k]
        /\ \A k \in 1..2 : z[L + k] = d[k]
    <3>1. /\ S \o d \in Seq(Cells) /\ Len(S \o d) = Len(S) + Len(d)
          /\ \A k \in 1..Len(S) : (S \o d)[k] = S[k]
          /\ \A k \in 1..Len(d) : (S \o d)[Len(S) + k] = d[k]
      <4>1. S \in Seq(Cells) /\ d \in Seq(Cells)
        BY <1>4, <2>3
      <4> QED BY <4>1, ConcatAt
    <3>2. Begins(S, S \o d)
      BY <1>4, <2>3, BeginsConcat
    <3> QED BY <1>3, <2>1, <2>3, <3>1, <3>2
  <2>5. /\ \A k \in 1..L : Z[k] = S[k]
        /\ \A k \in 1..3 : Z[L + k] = e[k]
    <3>1. /\ \A k \in 1..Len(S) : (S \o e)[k] = S[k]
          /\ \A k \in 1..Len(e) : (S \o e)[Len(S) + k] = e[k]
      BY <1>4, <1>5, ConcatAt
    <3> QED BY <1>3, <1>5, <3>1
  <2>6. ASSUME NEW k \in 1..(L + 2) PROVE z[k] = Z[k]
    <3>1. CASE k <= L
      BY <1>4, <2>4, <2>5, <3>1
    <3>2. CASE k = L + 1
      <4>1. z[L + 1] = d[1] /\ Z[L + 1] = e[1]
        BY <2>4, <2>5
      <4> QED BY <2>3, <3>2, <4>1
    <3>3. CASE k = L + 2
      <4>1. z[L + 2] = d[2] /\ Z[L + 2] = e[2]
        BY <2>4, <2>5
      <4> QED BY <2>3, <3>3, <4>1
    <3> QED BY <1>4, <3>1, <3>2, <3>3
  <2>7. Begins(z, Z)
    BY <1>4, <1>6, <2>4, <2>6 DEF Begins
  <2>8. Put(z, Len(z))
    BY <1>3, <1>10, <2>1 DEF PartialWrite, RecLen
  <2>9. Begins(f, z)
    BY <1>4, <2>4, BeginsTransitive
  <2>10. Len(z) \in 0..Len(z) /\ M <= Len(z)
    BY <1>4, <2>4
  <2> QED BY <1>8, <2>4, <2>7, <2>8, <2>9, <2>10
<1>11. ASSUME WriteFails(t) PROVE Goal
  <2>1. CASE UNCHANGED <<files, buf>>
    <3>1. Stream' = S /\ files' = files /\ buf' = buf
      BY <1>1, <1>3, <2>1 DEF Stream
    <3>2. files \in [Segments -> Seq(Cells)] /\ Begins(f, f)
      BY <1>4, BeginsSame DEF TypeInv, Placed
    <3>3. Segments' = Segments /\ \A s \in Segments \ {writerSeg} : files'[s] = files[s]
      BY <3>1 DEF Segments
    <3>4. files' \in [Segments -> Seq(Cells)] /\ buf' \in Seq(Cells)
      BY <3>1, <3>2, WalTypes
    <3>5. Begins(f, files'[writerSeg])
      BY <1>3, <3>1, <3>2
    <3>6. Stream' \in Seq(Cells) /\ Begins(S, Stream') /\ Begins(Stream', Z)
      BY <1>4, <1>6, <1>7, <3>1
    <3> QED BY <3>3, <3>4, <3>5, <3>6 DEF Goal
  <2>2. CASE \E n \in ShortWrites(Stream, FileLen) : Put(Stream, n)
    <3>1. PICK n \in Cuts(S, M) : Put(S, n)
      BY <1>3, <2>2 DEF ShortWrites
    <3>2. n \in 0..Len(S) /\ M <= n
      BY <1>3, <1>4, <3>1, CutsIn
    <3> QED BY <1>4, <1>6, <1>7, <1>8, <3>1, <3>2
  <2>3. CASE /\ \E n \in ShortWrites(Z, Len(Stream)) :
                  files' = [files EXCEPT ![writerSeg] = SubSeq(Z, 1, n)]
             /\ buf' = <<>>
    <3>1. PICK n \in Cuts(Z, L) : files' = [files EXCEPT ![writerSeg] = SubSeq(Z, 1, n)]
      BY <1>3, <2>3 DEF ShortWrites
    <3>2. n \in 0..Len(Z) /\ L <= n /\ n \in Nat
      BY <1>4, <1>6, <3>1, CutsIn
    <3>3. PICK g : g = SubSeq(Z, 1, n)
      OBVIOUS
    <3>4. g \in Seq(Cells) /\ Len(g) = n /\ Begins(g, Z)
      BY <1>6, <3>2, <3>3, BeginsPrefix
    <3>5. Begins(S, g) /\ Begins(f, g)
      <4>1. Begins(S, g)
        BY <1>3, <1>4, <1>6, <3>2, <3>4, BeginsBoth
      <4> QED BY <1>4, <3>4, <4>1, BeginsTransitive
    <3>6. /\ Segments' = Segments /\ files' \in [Segments -> Seq(Cells)] /\ files'[writerSeg] = g
          /\ \A s \in Segments \ {writerSeg} : files'[s] = files[s]
      BY <1>2, <3>1, <3>3, <3>4 DEF Segments, TypeInv, Placed
    <3>7. g \o <<>> = g
      BY <3>4, ConcatEmptySeq
    <3>8. Stream' = g
      BY <1>1, <2>3, <3>6, <3>7 DEF Stream
    <3>9. buf' \in Seq(Cells)
      BY <2>3
    <3>10. Begins(f, files'[writerSeg])
      BY <3>5, <3>6
    <3>11. Stream' \in Seq(Cells) /\ Begins(S, Stream') /\ Begins(Stream', Z)
      BY <3>4, <3>5, <3>8
    <3> QED BY <3>6, <3>9, <3>10, <3>11 DEF Goal
  <2>4. CASE \E n \in ShortWrites(Z, IF Overflows THEN Len(Stream) ELSE FileLen) : Put(Z, n)
    <3>1. PICK m : m = IF Overflows THEN L ELSE M
      OBVIOUS
    <3>2. PICK n \in Cuts(Z, m) : Put(Z, n)
      BY <1>3, <2>4, <3>1 DEF ShortWrites
    <3>3. m \in 0..Len(Z) /\ M <= m /\ m \in Nat
      BY <1>4, <1>6, <3>1
    <3>4. n \in 0..Len(Z) /\ m <= n
      BY <1>6, <3>2, <3>3, CutsIn
    <3>5. M <= n
      BY <1>4, <1>6, <3>3, <3>4
    <3> QED BY <1>6, <1>7, <1>8, <3>2, <3>4, <3>5
  <2> QED BY <1>3, <1>11, <2>1, <2>2, <2>3, <2>4 DEF WriteFails
<1>12. Goal
  BY <1>9, <1>10, <1>11
<1> QED BY <1>1, <1>2, <1>3, <1>12 DEF Goal

\* The error returns of rotate_segment: the file gets more of its stream.
LEMMA RotateFailsEffect ==
  ASSUME TypeInv, NEW t \in Threads, RotateFails(t)
  PROVE  /\ writerSeg \in Segments /\ status = "up" /\ pc[t] = "rotate"
         /\ pc' = [pc EXCEPT ![t] = "idle"]
         /\ Segments' = Segments /\ files' \in [Segments -> Seq(Cells)] /\ buf' \in Seq(Cells)
         /\ \A s \in Segments \ {writerSeg} : files'[s] = files[s]
         /\ Begins(files[writerSeg], files'[writerSeg]) /\ Stream' = Stream
         /\ \/ FileLen' = FileLen \/ FileLen' = Len(Stream)
            \/ FileLen' # 0 /\ Stream[FileLen'].part \in TornCuts \cup {3}
         /\ \/ synced' = synced
            \/ synced' = [synced EXCEPT ![writerSeg] = Len(Stream)] /\ files'[writerSeg] = Stream
         /\ current_segment_index' \in {current_segment_index, current_segment_index + 1}
         /\ UNCHANGED <<writerSeg, current_segment_size, current_sequence, poisoned, seqOf,
                        status, settings, recovery, acked, before, halts>>
<1>1. /\ pc[t] = "rotate" /\ pc' = [pc EXCEPT ![t] = "idle"]
      /\ current_segment_index' \in {current_segment_index, current_segment_index + 1}
      /\ UNCHANGED <<writerSeg, current_segment_size, current_sequence, poisoned, seqOf,
                     status, settings, recovery, acked, before, halts>>
  BY DEF RotateFails, Goto, disk, writer
<1>2. status = "up" /\ writerSeg \in Segments
  BY <1>1 DEF TypeInv, TypeOK, Placed
<1>3. PICK S, f, L, M : S = Stream /\ f = files[writerSeg] /\ L = Len(S) /\ M = FileLen
  OBVIOUS
<1>4. S \in Seq(Cells) /\ L \in Nat /\ M \in Nat /\ M = Len(f) /\ M <= L /\ f \in Seq(Cells)
      /\ Begins(f, S)
  BY <1>2, <1>3, StreamTypes, WalTypes DEF FileLen
<1> DEFINE Goal == /\ Segments' = Segments /\ files' \in [Segments -> Seq(Cells)] /\ buf' \in Seq(Cells)
                   /\ \A s \in Segments \ {writerSeg} : files'[s] = files[s]
                   /\ Begins(f, files'[writerSeg]) /\ Stream' = S
                   /\ \/ FileLen' = M \/ FileLen' = L
                      \/ FileLen' # 0 /\ S[FileLen'].part \in TornCuts \cup {3}
<1>5. ASSUME NEW n \in Cuts(S, M), Put(S, n) PROVE Goal /\ files'[writerSeg] = SubSeq(S, 1, n)
  <2>1. writerSeg' = writerSeg
    BY <1>1
  <2>2. n \in 0..Len(S) /\ M <= n /\ (n = M \/ n = L \/ (n # 0 /\ S[n].part \in TornCuts \cup {3}))
    <3>1. M \in 0..Len(S)
      BY <1>3, <1>4
    <3> QED BY <1>3, <1>4, <3>1, CutsIn
  <2>3. /\ Segments' = Segments /\ files' \in [Segments -> Seq(Cells)] /\ buf' \in Seq(Cells)
        /\ \A s \in Segments \ {writerSeg} : files'[s] = files[s]
        /\ files'[writerSeg] = SubSeq(S, 1, n)
        /\ Len(files'[writerSeg]) = n /\ Begins(files'[writerSeg], S) /\ Stream' = S
    BY <1>2, <1>4, <1>5, <2>1, <2>2, PutEffect
  <2>4. files'[writerSeg] \in Seq(Cells)
    BY <1>2, <2>3
  <2>5. Begins(f, files'[writerSeg])
    BY <1>4, <2>2, <2>3, <2>4, BeginsBoth
  <2>6. FileLen' = n
    BY <2>1, <2>3 DEF FileLen
  <2> QED BY <2>2, <2>3, <2>5, <2>6
<1> HIDE DEF Goal
<1>6. L \in Cuts(S, M) /\ SubSeq(S, 1, L) = S
  <2>1. L \in 0..Len(S) /\ L = Len(S)
    BY <1>3, <1>4
  <2>2. SubSeq(S, 1, L) \in Seq(Cells) /\ Len(SubSeq(S, 1, L)) = L /\ Begins(SubSeq(S, 1, L), S)
    BY <1>4, <2>1, BeginsPrefix
  <2>3. SubSeq(S, 1, L) = S
    <3>1. \A k \in 1..Len(S) : SubSeq(S, 1, L)[k] = S[k]
      BY <2>1, <2>2 DEF Begins
    <3> QED BY <1>4, <2>1, <2>2, <3>1, SeqEqual
  <2> QED BY <1>3, <2>3 DEF Cuts
<1>7. CASE UNCHANGED <<disk, writer, current_segment_index>>
  <2>1. Stream' = S /\ files' = files /\ buf' = buf /\ synced' = synced /\ writerSeg' = writerSeg
    BY <1>3, <1>7 DEF Stream, disk, writer
  <2>2. files \in [Segments -> Seq(Cells)] /\ Begins(f, f)
    BY <1>4, BeginsSame DEF TypeInv, Placed
  <2>3. Segments' = Segments /\ \A s \in Segments \ {writerSeg} : files'[s] = files[s]
    BY <2>1 DEF Segments
  <2>4. files' \in [Segments -> Seq(Cells)] /\ buf' \in Seq(Cells)
    BY <2>1, <2>2, WalTypes
  <2>5. Begins(f, files'[writerSeg]) /\ FileLen' = M
    BY <1>3, <2>1, <2>2 DEF FileLen
  <2>6. Goal
    BY <2>1, <2>3, <2>4, <2>5 DEF Goal
  <2> QED BY <1>1, <1>2, <1>3, <2>1, <2>6 DEF Goal
<1>8. CASE /\ \E n \in ShortWrites(Stream, FileLen) : Put(Stream, n)
           /\ UNCHANGED <<synced, writerSeg, current_segment_index>>
  <2>1. PICK n \in Cuts(S, M) : Put(S, n)
    BY <1>3, <1>8 DEF ShortWrites
  <2>2. Goal
    BY <1>5, <2>1
  <2> QED BY <1>1, <1>2, <1>3, <1>8, <2>2 DEF Goal
<1>9. CASE /\ Put(Stream, Len(Stream))
           /\ UNCHANGED <<synced, writerSeg, current_segment_index>>
  <2>1. Put(S, L)
    BY <1>3, <1>9
  <2>2. Goal
    BY <1>5, <1>6, <2>1
  <2> QED BY <1>1, <1>2, <1>3, <1>9, <2>2 DEF Goal
<1>10. CASE /\ Put(Stream, Len(Stream))
            /\ synced' = [synced EXCEPT ![writerSeg] = Len(Stream)]
  <2>1. Put(S, L)
    BY <1>3, <1>10
  <2>2. Goal /\ files'[writerSeg] = S
    BY <1>5, <1>6, <2>1
  <2> QED BY <1>1, <1>2, <1>3, <1>10, <2>2 DEF Goal
<1> QED BY <1>7, <1>8, <1>9, <1>10 DEF RotateFails

\* What is not open has no buffer: its streams are its files.
LEMMA ClosedStreams ==
  ASSUME TypeInv, buf = <<>>
  PROVE  \A s \in Segments : StreamOf(s) = files[s]
<1> SUFFICES ASSUME NEW s \in Segments PROVE StreamOf(s) = files[s]
  OBVIOUS
<1>1. files[s] \in Seq(Cells)
  BY WalTypes
<1>2. files[s] \o <<>> = files[s]
  BY <1>1, ConcatEmptySeq
<1> QED BY <1>2 DEF StreamOf, Stream

LEMMA RotateEffect ==
  ASSUME TypeInv, NEW t \in Threads, RotateSegment(t), NEW n, n = current_segment_index + 1
  PROVE  /\ writerSeg \in Segments /\ status = "up" /\ pc[t] = "rotate"
         /\ pc' = [pc EXCEPT ![t] = "write"]
         /\ n \in Nat /\ n \notin Segments /\ writerSeg < n /\ Segments' = Segments \cup {n}
         /\ files' \in [Segments \cup {n} -> Seq(Cells)] /\ synced' \in [Segments \cup {n} -> Nat]
         /\ files'[n] = <<>> /\ synced'[n] = 0
         /\ files'[writerSeg] = Stream /\ synced'[writerSeg] = Len(Stream)
         /\ \A s \in Segments \ {writerSeg} : files'[s] = files[s] /\ synced'[s] = synced[s]
         /\ writerSeg' = n /\ buf' = <<>> /\ current_segment_index' = n /\ current_segment_size' = 0
         /\ Stream' = <<>> /\ StreamOf(n)' = <<>>
         /\ \A s \in Segments : StreamOf(s)' = StreamOf(s)
         /\ UNCHANGED <<current_sequence, poisoned, seqOf, status, settings,
                        recovery, acked, before, halts>>
<1>1. /\ pc[t] = "rotate" /\ pc' = [pc EXCEPT ![t] = "write"]
      /\ files' = [s \in Segments \cup {n} |->
                     IF s = n THEN <<>> ELSE IF s = writerSeg THEN Stream ELSE files[s]]
      /\ synced' = [s \in Segments \cup {n} |->
                     IF s = n THEN 0 ELSE IF s = writerSeg THEN Len(Stream) ELSE synced[s]]
      /\ writerSeg' = n /\ buf' = <<>> /\ current_segment_index' = n /\ current_segment_size' = 0
      /\ UNCHANGED <<current_sequence, poisoned, seqOf, status, settings,
                     recovery, acked, before, halts>>
  BY DEF RotateSegment, Goto, SealedLen
<1>2. status = "up" /\ writerSeg \in Segments /\ n \in Nat /\ writerSeg < n
  BY <1>1 DEF TypeInv, TypeOK, Placed
<1>3. n \notin Segments
  BY <1>2 DEF TypeInv, TypeOK, Placed
<1>4. Stream \in Seq(Cells) /\ Len(Stream) \in Nat
  BY <1>2, StreamTypes
<1>5. <<>> \in Seq(Cells) /\ 0 \in Nat
  BY EmptySeq
<1>6. \A s \in Segments : files[s] \in Seq(Cells) /\ synced[s] \in Nat
  BY WalTypes DEF TypeInv, TypeOK
<1>7. Segments' = Segments \cup {n}
  BY <1>1 DEF Segments
<1>8. files' \in [Segments \cup {n} -> Seq(Cells)]
  BY <1>1, <1>4, <1>5, <1>6
<1>9. synced' \in [Segments \cup {n} -> Nat]
  BY <1>1, <1>4, <1>5, <1>6
<1>10. /\ files'[n] = <<>> /\ synced'[n] = 0
       /\ files'[writerSeg] = Stream /\ synced'[writerSeg] = Len(Stream)
       /\ \A s \in Segments \ {writerSeg} : files'[s] = files[s] /\ synced'[s] = synced[s]
  BY <1>1, <1>2, <1>3
<1>11. Stream' = <<>>
  <2>1. <<>> \o <<>> = <<>>
    BY <1>5, ConcatEmptySeq
  <2> QED BY <1>1, <1>10, <2>1 DEF Stream
<1>12. StreamOf(n)' = <<>>
  BY <1>1, <1>11 DEF StreamOf
<1>13. ASSUME NEW s \in Segments PROVE StreamOf(s)' = StreamOf(s)
  <2>1. s # writerSeg'
    BY <1>1, <1>3
  <2>2. StreamOf(s)' = files'[s]
    BY <2>1 DEF StreamOf
  <2> QED BY <1>10, <2>2 DEF StreamOf
<1> QED BY <1>1, <1>2, <1>3, <1>7, <1>8, <1>9, <1>10, <1>11, <1>12, <1>13

\* A crash, a power loss and a shutdown: of the segment being written, what is
\* durable stays, and what else stays is a first part of the stream.
LEMMA HaltEffect ==
  ASSUME TypeInv, ProcessCrash \/ PowerLoss \/ Shutdown
  PROVE  /\ Segments' = Segments /\ files' \in [Segments -> Seq(Cells)]
         /\ synced' \in [Segments -> Nat] /\ writerSeg' = writerSeg
         /\ \A s \in Segments \ {writerSeg} : files'[s] = files[s] /\ synced'[s] = synced[s]
         /\ writerSeg \in Segments =>
              /\ Begins(files'[writerSeg], Stream)
              /\ synced[writerSeg] <= synced'[writerSeg]
              /\ synced'[writerSeg] <= Len(files'[writerSeg])
              /\ \/ files'[writerSeg] = files[writerSeg] /\ synced'[writerSeg] = synced[writerSeg]
                 \/ /\ synced'[writerSeg] = Len(files'[writerSeg])
                    /\ synced'[writerSeg] \in Cuts(files[writerSeg], synced[writerSeg])
                    /\ Begins(files'[writerSeg], files[writerSeg])
                 \/ /\ files'[writerSeg] = Stream /\ synced'[writerSeg] = synced[writerSeg]
                    /\ status = "up"
         /\ status' \in {"down", "stopped"}
         /\ status' = "stopped" => status = "up" /\ files'[writerSeg] = Stream
         /\ acked' \subseteq acked /\ (sync_mode = "Always" => acked' = acked)
         /\ sync_mode # "Always" => (acked' = acked /\ Shutdown) \/ acked' = acked \cap Present'
         /\ pc' = [t \in Threads |-> "idle"] /\ buf' = <<>> /\ recTodo' = {}
         /\ poisoned' = FALSE /\ halts' \in 0..MaxHalts
         /\ UNCHANGED <<atomics, seqOf, settings, replayed, max_sequence, before>>
<1>1. /\ pc' = [t \in Threads |-> "idle"] /\ buf' = <<>> /\ recTodo' = {} /\ writerSeg' = writerSeg
      /\ poisoned' = FALSE /\ status' \in {"down", "stopped"}
      /\ UNCHANGED <<atomics, seqOf, settings, replayed, max_sequence, before>>
  BY DEF ProcessCrash, PowerLoss, Shutdown, Halt
<1>2. halts' \in 0..MaxHalts
  BY BoundsAreNat DEF ProcessCrash, PowerLoss, Shutdown, TypeInv, TypeOK
<1>3. /\ acked' \subseteq acked /\ (sync_mode = "Always" => acked' = acked)
      /\ sync_mode # "Always" => (acked' = acked /\ Shutdown) \/ acked' = acked \cap Present'
  BY DEF ProcessCrash, PowerLoss, Shutdown, Surviving
<1>4. files \in [Segments -> Seq(Cells)] /\ synced \in [Segments -> Nat]
  BY DEF TypeInv, TypeOK, Placed
<1>5. \A s \in Segments : /\ files[s] \in Seq(Cells) /\ Len(files[s]) \in Nat
                          /\ synced[s] \in 0..Len(files[s])
  BY WalTypes
<1>6. CASE ProcessCrash
  <2>1. files' = files /\ synced' = synced /\ Segments' = Segments /\ status' = "down"
    BY <1>6 DEF ProcessCrash, disk, Segments, Halt
  <2>2. ASSUME writerSeg \in Segments PROVE Begins(files'[writerSeg], Stream)
    BY <2>1, <2>2, StreamTypes
  <2> QED BY <1>1, <1>2, <1>3, <1>4, <1>5, <2>1, <2>2
<1>7. CASE PowerLoss
  <2>0. writerSeg \in Segments /\ status' = "down"
    BY <1>7 DEF PowerLoss, Halt
  <2>1. PICK f, m : f = files[writerSeg] /\ m = synced[writerSeg]
    OBVIOUS
  <2>2. PICK n \in Cuts(f, m) : /\ files' = [files EXCEPT ![writerSeg] = SubSeq(f, 1, n)]
                                /\ synced' = [synced EXCEPT ![writerSeg] = n]
    BY <1>7, <2>1 DEF PowerLoss
  <2>3. f \in Seq(Cells) /\ Len(f) \in Nat /\ m \in 0..Len(f)
    BY <1>5, <2>0, <2>1
  <2>4. n \in 0..Len(f) /\ m <= n /\ n \in Nat
    BY <2>2, <2>3, CutsIn
  <2>5. PICK g : g = SubSeq(f, 1, n)
    OBVIOUS
  <2>6. g \in Seq(Cells) /\ Len(g) = n /\ Begins(g, f)
    BY <2>3, <2>4, <2>5, BeginsPrefix
  <2>7. Begins(g, Stream)
    <3>1. Stream \in Seq(Cells) /\ Begins(f, Stream)
      BY <2>0, <2>1, StreamTypes
    <3> QED BY <2>3, <2>6, <3>1, BeginsTransitive
  <2>8. Segments' = Segments /\ files' \in [Segments -> Seq(Cells)] /\ files'[writerSeg] = g
    BY <1>4, <2>0, <2>2, <2>5, <2>6 DEF Segments
  <2>9. synced' \in [Segments -> Nat] /\ synced'[writerSeg] = n
    BY <1>4, <2>0, <2>2, <2>4
  <2>10. \A s \in Segments \ {writerSeg} : files'[s] = files[s] /\ synced'[s] = synced[s]
    BY <1>4, <2>2
  <2>11. /\ synced'[writerSeg] \in Cuts(files[writerSeg], synced[writerSeg])
         /\ Begins(files'[writerSeg], files[writerSeg])
         /\ synced'[writerSeg] = Len(files'[writerSeg]) /\ Begins(files'[writerSeg], Stream)
         /\ synced[writerSeg] <= synced'[writerSeg] /\ synced'[writerSeg] <= Len(files'[writerSeg])
    <3>1. n \in Cuts(f, m) /\ Begins(g, f) /\ n = Len(g) /\ Begins(g, Stream) /\ m <= n /\ n <= Len(g)
      BY <2>2, <2>4, <2>6, <2>7
    <3>2. files'[writerSeg] = g /\ synced'[writerSeg] = n /\ files[writerSeg] = f /\ synced[writerSeg] = m
      BY <2>1, <2>8, <2>9
    <3> QED BY ONLY <3>1, <3>2
  <2> QED BY <1>1, <1>2, <1>3, <2>0, <2>8, <2>9, <2>10, <2>11
<1>8. CASE Shutdown
  <2>1. /\ status = "up" /\ status' = "stopped" /\ synced' = synced
        /\ files' = [files EXCEPT ![writerSeg] = Stream]
    BY <1>8 DEF Shutdown, Halt
  <2>2. writerSeg \in Segments
    BY <2>1 DEF TypeInv, TypeOK
  <2>3. PICK S : S = Stream
    OBVIOUS
  <2>4. S \in Seq(Cells) /\ Len(S) \in Nat /\ Begins(S, S) /\ Len(files[writerSeg]) <= Len(S)
    BY <2>2, <2>3, StreamTypes, BeginsSame DEF FileLen
  <2>5. /\ Segments' = Segments /\ files' \in [Segments -> Seq(Cells)] /\ files'[writerSeg] = S
        /\ \A s \in Segments \ {writerSeg} : files'[s] = files[s]
    BY <1>4, <2>1, <2>2, <2>3, <2>4 DEF Segments
  <2>6. /\ Begins(files'[writerSeg], Stream) /\ files'[writerSeg] = Stream
        /\ synced'[writerSeg] = synced[writerSeg] /\ synced[writerSeg] <= synced'[writerSeg]
        /\ synced'[writerSeg] <= Len(files'[writerSeg])
    BY <1>5, <2>1, <2>2, <2>3, <2>4, <2>5
  <2> QED BY <1>1, <1>2, <1>3, <1>4, <2>1, <2>5, <2>6
<1> QED BY <1>6, <1>7, <1>8

LEMMA RecordsAt ==
  ASSUME NEW x \in Seq(Cells)
  PROVE  /\ Records(x) \in Seq(1..MaxSeq) /\ Len(Records(x)) = ValidCount(x)
         /\ \A i \in 1..ValidCount(x) : Records(x)[i] = x[i * RecLen].rec
         /\ RecordsIn(x) \subseteq 1..MaxSeq
         /\ \A i \in 1..ValidCount(x) : i * RecLen \in 1..Len(x) /\ x[i * RecLen] \in Cells
         /\ \A r : r \in RecordsIn(x) <=> \E i \in 1..ValidCount(x) : x[i * RecLen].rec = r
<1>1. ValidCount(x) \in Nat /\ 3 * ValidCount(x) <= Len(x) /\ Len(x) \in Nat
  BY CountIs
<1>2. ASSUME NEW i \in 1..ValidCount(x)
      PROVE  i * RecLen \in 1..Len(x) /\ x[i * RecLen] \in Cells /\ x[i * RecLen].rec \in 1..MaxSeq
  <2>1. i * RecLen = 3 * i /\ 3 * i \in 1..Len(x)
    BY <1>1 DEF RecLen
  <2>2. x[i * RecLen] \in Cells
    BY <2>1, ElementOfSeq
  <2> QED BY <2>1, <2>2, CellFields
<1>3. Records(x) = [i \in 1..ValidCount(x) |-> x[i * RecLen].rec]
  BY DEF Records
<1>4. Records(x) \in Seq(1..MaxSeq) /\ Len(Records(x)) = ValidCount(x)
  <2>1. PICK c, g : c = ValidCount(x) /\ g = Records(x)
    OBVIOUS
  <2>2. c \in Nat /\ g \in [1..c -> 1..MaxSeq]
    BY <1>1, <1>2, <1>3, <2>1
  <2>3. g \in Seq(1..MaxSeq)
    <3>1. Seq(1..MaxSeq) = UNION {[1..n -> 1..MaxSeq] : n \in Nat}
      BY SeqDef, Zenon
    <3>2. PICK F : F = [1..c -> 1..MaxSeq] /\ g \in F
      BY <2>2
    <3>3. F \in {[1..n -> 1..MaxSeq] : n \in Nat}
      BY <2>2, <3>2, Zenon
    <3> QED BY ONLY <3>1, <3>2, <3>3, Zenon
  <2>4. Len(g) \in Nat /\ DOMAIN g = 1..Len(g) /\ DOMAIN g = 1..c
    BY <2>2, <2>3, LenProperties
  <2> QED BY <2>1, <2>2, <2>3, <2>4
<1>5. \A i \in 1..ValidCount(x) : Records(x)[i] = x[i * RecLen].rec
  BY <1>3
<1>6. \A r : r \in RecordsIn(x) <=> \E i \in 1..ValidCount(x) : x[i * RecLen].rec = r
  BY DEF RecordsIn
<1> QED BY <1>2, <1>4, <1>5, <1>6

\* recover_segment: it takes the first of the segments that are left.
LEMMA RecoverEffect ==
  ASSUME TypeInv, RecoverSegment
  PROVE  \E s \in recTodo :
         /\ s \in Segments /\ \A y \in recTodo : s <= y
         /\ status = "recovering" /\ buf = <<>>
         /\ Segments' = Segments /\ files' \in [Segments -> Seq(Cells)] /\ synced' \in [Segments -> Nat]
         /\ \A u \in Segments \ {s} : files'[u] = files[u] /\ synced'[u] = synced[u]
         /\ Begins(files'[s], files[s]) /\ ValidCount(files'[s]) = ValidCount(files[s])
         /\ \/ /\ "torn" \in TailOutcomes(files[s])
               /\ files'[s] = SubSeq(files[s], 1, RecLen * ValidCount(files[s]))
               /\ Len(files'[s]) = RecLen * ValidCount(files[s])
               /\ synced'[s] = RecLen * ValidCount(files[s])
               /\ status' = "recovering" /\ recTodo' = recTodo \ {s}
            \/ /\ "eof" \in TailOutcomes(files[s]) /\ UNCHANGED disk
               /\ status' = "recovering" /\ recTodo' = recTodo \ {s}
            \/ /\ "corrupt" \in TailOutcomes(files[s]) /\ UNCHANGED disk
               /\ status' = "corrupt" /\ recTodo' = {}
         /\ replayed' = replayed \o Records(files[s]) /\ replayed' \in Seq(1..MaxSeq)
         /\ max_sequence' \in 0..MaxSeq /\ max_sequence <= max_sequence'
         /\ \A i \in 1..ValidCount(files[s]) : files[s][i * RecLen].rec <= max_sequence'
         /\ UNCHANGED <<writer, atomics, poisoned, threads, settings, acked, before, halts>>
<1>1. PICK s : s = NextSegment
  OBVIOUS
<1>2. status = "recovering" /\ recTodo # {} /\ recTodo \subseteq Segments /\ Segments \subseteq Nat
  BY DEF RecoverSegment, TypeInv, TypeOK
<1>3. s \in recTodo /\ \A y \in recTodo : s <= y
  <2>1. recTodo \subseteq Nat
    BY <1>2
  <2> QED BY <1>1, <1>2, <2>1, MinOfBounds DEF NextSegment
<1>4. s \in Segments /\ buf = <<>>
  BY <1>2, <1>3 DEF TypeInv, Placed
<1>5. PICK f, c : f = files[s] /\ c = ValidCount(f)
  OBVIOUS
<1>6. f \in Seq(Cells) /\ c \in Nat /\ 3 * c <= Len(f) /\ Len(f) \in Nat
  BY <1>4, <1>5, WalTypes, CountIs
<1>7. Records(f) \in Seq(1..MaxSeq) /\ Len(Records(f)) = c /\ RecordsIn(f) \subseteq 1..MaxSeq
  BY <1>5, <1>6, RecordsAt
<1>8. /\ replayed' = replayed \o Records(f)
      /\ max_sequence' = MaxOf({max_sequence} \cup RecordsIn(f))
      /\ UNCHANGED <<writer, atomics, poisoned, threads, settings, acked, before, halts>>
  BY <1>1, <1>5 DEF RecoverSegment
<1>9. replayed' \in Seq(1..MaxSeq)
  <2>1. replayed \in Seq(1..MaxSeq)
    BY DEF TypeInv, TypeOK
  <2> QED BY <1>7, <1>8, <2>1, ConcatProperties
<1>10. /\ max_sequence' \in 0..MaxSeq /\ max_sequence <= max_sequence'
       /\ \A i \in 1..c : f[i * RecLen].rec <= max_sequence'
  <2>1. PICK T : T = {max_sequence} \cup RecordsIn(f)
    OBVIOUS
  <2>2. max_sequence \in 0..MaxSeq /\ MaxSeq \in Nat
    BY BoundsAreNat DEF TypeInv, TypeOK
  <2>3. T \subseteq 0..MaxSeq /\ T # {} /\ max_sequence \in T
    BY <1>7, <2>1, <2>2
  <2>4. MaxOf(T) \in T /\ \A y \in T : y <= MaxOf(T)
    BY <2>2, <2>3, MaxOfBounds
  <2>5. \A i \in 1..c : f[i * RecLen].rec \in T
    BY <1>5, <2>1 DEF RecordsIn
  <2> QED BY <1>8, <2>1, <2>3, <2>4, <2>5
<1>11. files \in [Segments -> Seq(Cells)] /\ synced \in [Segments -> Nat]
  BY DEF TypeInv, TypeOK, Placed
<1>12. PICK tail \in TailOutcomes(f) :
           IF tail = "torn"
           THEN /\ files' = [files EXCEPT ![s] = SubSeq(f, 1, RecLen * Len(Records(f)))]
                /\ synced' = [synced EXCEPT ![s] = RecLen * Len(Records(f))]
                /\ status' = status /\ recTodo' = recTodo \ {s}
           ELSE /\ UNCHANGED disk
                /\ status' = IF tail = "corrupt" THEN "corrupt" ELSE status
                /\ recTodo' = IF tail = "corrupt" THEN {} ELSE recTodo \ {s}
  BY <1>1, <1>5 DEF RecoverSegment
<1>13. tail \in {"torn", "corrupt", "eof"}
  BY <1>12 DEF TailOutcomes
<1>14. CASE tail = "torn"
  <2>1. PICK g, m : m = 3 * c /\ g = SubSeq(f, 1, m)
    OBVIOUS
  <2>2. m \in 0..Len(f) /\ m = 3 * c /\ m \in Nat
    BY <1>6, <2>1
  <2>3. g \in Seq(Cells) /\ Len(g) = m /\ Begins(g, f)
    BY <1>6, <2>1, <2>2, BeginsPrefix
  <2>4. ValidCount(g) = c
    <3>1. /\ \A n \in Nat : n <= ValidCount(g) <=> 3 * n <= Len(g) /\ n <= c
          /\ ValidCount(g) <= c
      BY <1>5, <1>6, <2>3, PrefixCount
    <3>2. ValidCount(g) \in Nat
      BY <2>3, CountIs
    <3>3. c <= ValidCount(g)
      BY <1>6, <2>2, <2>3, <3>1
    <3> QED BY <1>6, <3>1, <3>2, <3>3
  <2>5. files' = [files EXCEPT ![s] = g] /\ synced' = [synced EXCEPT ![s] = m]
        /\ status' = "recovering" /\ recTodo' = recTodo \ {s}
    BY <1>2, <1>7, <1>12, <1>14, <2>1 DEF RecLen
  <2>6. /\ Segments' = Segments /\ files' \in [Segments -> Seq(Cells)] /\ files'[s] = g
        /\ \A u \in Segments \ {s} : files'[u] = files[u]
    BY <1>4, <1>11, <2>3, <2>5 DEF Segments
  <2>7. /\ synced' \in [Segments -> Nat] /\ synced'[s] = m
        /\ \A u \in Segments \ {s} : synced'[u] = synced[u]
    BY <1>4, <1>11, <2>2, <2>5
  <2>8. "torn" \in TailOutcomes(files[s])
    BY <1>5, <1>12, <1>14
  <2>9. Begins(files'[s], files[s]) /\ ValidCount(files'[s]) = ValidCount(files[s])
    BY <1>5, <2>3, <2>4, <2>6
  <2>10. /\ files'[s] = SubSeq(files[s], 1, RecLen * ValidCount(files[s]))
         /\ Len(files'[s]) = RecLen * ValidCount(files[s])
         /\ synced'[s] = RecLen * ValidCount(files[s])
    BY <1>5, <2>1, <2>3, <2>6, <2>7 DEF RecLen
  <2>11. /\ replayed' = replayed \o Records(files[s])
         /\ \A i \in 1..ValidCount(files[s]) : files[s][i * RecLen].rec <= max_sequence'
    BY <1>5, <1>8, <1>10
  <2> QED BY <1>2, <1>3, <1>4, <1>8, <1>9, <1>10, <2>5, <2>6, <2>7, <2>8, <2>9, <2>10, <2>11
<1>15. CASE tail # "torn"
  <2>1. files' = files /\ synced' = synced /\ Segments' = Segments /\ UNCHANGED disk
    BY <1>12, <1>15 DEF disk, Segments
  <2>2. Begins(files'[s], files[s]) /\ ValidCount(files'[s]) = ValidCount(files[s])
    BY <1>5, <1>6, <2>1, BeginsSame
  <2>3. /\ replayed' = replayed \o Records(files[s])
        /\ \A i \in 1..ValidCount(files[s]) : files[s][i * RecLen].rec <= max_sequence'
    BY <1>5, <1>8, <1>10
  <2>4. \/ /\ "eof" \in TailOutcomes(files[s]) /\ UNCHANGED disk
           /\ status' = "recovering" /\ recTodo' = recTodo \ {s}
        \/ /\ "corrupt" \in TailOutcomes(files[s]) /\ UNCHANGED disk
           /\ status' = "corrupt" /\ recTodo' = {}
    BY <1>2, <1>5, <1>12, <1>13, <1>15, <2>1
  <2> QED BY <1>2, <1>3, <1>4, <1>8, <1>9, <1>10, <1>11, <2>1, <2>2, <2>3, <2>4
<1> QED BY <1>14, <1>15

\* recover_segment gives up for another reason than WalCorrupted: the disk stays,
\* or one segment was cut behind its last whole record.
LEMMA RecoverFailsEffect ==
  ASSUME TypeInv, RecoverFails
  PROVE  /\ status = "recovering" /\ buf = <<>> /\ status' = "failed" /\ recTodo' = {}
         /\ Segments' = Segments /\ files' \in [Segments -> Seq(Cells)] /\ synced' \in [Segments -> Nat]
         /\ \A u \in Segments :
              /\ Begins(files'[u], files[u]) /\ ValidCount(files'[u]) = ValidCount(files[u])
              /\ synced'[u] <= Len(files'[u])
              /\ \/ files'[u] = files[u] /\ synced'[u] = synced[u]
                 \/ /\ Len(files'[u]) = RecLen * ValidCount(files[u])
                    /\ synced'[u] \in {synced[u], Len(files'[u])}
              /\ \A n \in Nat : n <= Len(files'[u]) /\ n <= synced[u] => n <= synced'[u]
              /\ synced[u] = Len(files[u]) => synced'[u] = Len(files'[u])
         /\ UNCHANGED <<writer, atomics, poisoned, threads, settings, replayed, max_sequence, acked, before, halts>>
<1>1. /\ status = "recovering" /\ recTodo # {} /\ status' = "failed" /\ recTodo' = {}
      /\ UNCHANGED <<writer, atomics, poisoned, threads, settings, replayed, max_sequence, acked, before, halts>>
  BY DEF RecoverFails
<1>2. buf = <<>>
  BY <1>1 DEF TypeInv, Placed
<1>3. files \in [Segments -> Seq(Cells)] /\ synced \in [Segments -> Nat]
  BY DEF TypeInv, TypeOK, Placed
<1>4. \A u \in Segments : /\ files[u] \in Seq(Cells) /\ Len(files[u]) \in Nat /\ synced[u] \in 0..Len(files[u])
                          /\ Begins(files[u], files[u])
  BY WalTypes, BeginsSame
<1>5. CASE UNCHANGED disk
  <2>1. files' = files /\ synced' = synced /\ Segments' = Segments
    BY <1>5 DEF disk, Segments
  <2> QED BY <1>1, <1>2, <1>3, <1>4, <2>1
<1>6. ASSUME NEW s, s = NextSegment, NEW m, m = RecLen * ValidCount(files[s]),
             files' = [files EXCEPT ![s] = SubSeq(@, 1, m)],
             synced' = [synced EXCEPT ![s] = MinOf({@, m})]
      PROVE  /\ Segments' = Segments /\ files' \in [Segments -> Seq(Cells)] /\ synced' \in [Segments -> Nat]
             /\ \A u \in Segments :
                  /\ Begins(files'[u], files[u]) /\ ValidCount(files'[u]) = ValidCount(files[u])
                  /\ synced'[u] <= Len(files'[u])
                  /\ \/ files'[u] = files[u] /\ synced'[u] = synced[u]
                     \/ /\ Len(files'[u]) = RecLen * ValidCount(files[u])
                        /\ synced'[u] \in {synced[u], Len(files'[u])}
                  /\ \A n \in Nat : n <= Len(files'[u]) /\ n <= synced[u] => n <= synced'[u]
                  /\ synced[u] = Len(files[u]) => synced'[u] = Len(files'[u])
  <2>1. recTodo \subseteq Segments /\ Segments \subseteq Nat
    BY DEF TypeInv, TypeOK
  <2>2. s \in Segments
    <3>1. recTodo \subseteq Nat
      BY <2>1
    <3> QED BY <1>1, <1>6, <2>1, <3>1, MinOfBounds DEF NextSegment
  <2>3. PICK f, g, x, y, c : /\ f = files[s] /\ g = SubSeq(f, 1, m) /\ x = synced[s] /\ y = MinOf({x, m})
                             /\ c = ValidCount(f)
    OBVIOUS
  <2>4. f \in Seq(Cells) /\ c \in Nat /\ 3 * c <= Len(f) /\ Len(f) \in Nat /\ m = 3 * c /\ x \in 0..Len(f)
    BY <1>4, <1>6, <2>2, <2>3, CountIs DEF RecLen
  <2>5. m \in 0..Len(f) /\ m \in Nat /\ x \in Nat
    BY <2>4
  <2>6. g \in Seq(Cells) /\ Len(g) = m /\ Begins(g, f)
    BY <2>3, <2>4, <2>5, BeginsPrefix
  <2>7. ValidCount(g) = c
    <3>1. /\ \A n \in Nat : n <= ValidCount(g) <=> 3 * n <= Len(g) /\ n <= c
          /\ ValidCount(g) <= c
      BY <2>3, <2>4, <2>6, PrefixCount
    <3>2. ValidCount(g) \in Nat
      BY <2>6, CountIs
    <3>3. c <= ValidCount(g)
      BY <2>4, <2>6, <3>1
    <3> QED BY <2>4, <3>1, <3>2, <3>3
  <2>8. y \in {x, m} /\ y <= x /\ y <= m
    <3>1. {x, m} \subseteq Nat /\ {x, m} # {}
      BY <2>5
    <3> QED BY <2>3, <3>1, MinOfBounds
  <2>9. /\ Segments' = Segments /\ files' \in [Segments -> Seq(Cells)] /\ files'[s] = g
        /\ \A u \in Segments \ {s} : files'[u] = files[u]
    BY <1>3, <1>6, <2>2, <2>3, <2>6 DEF Segments
  <2>10. /\ synced' \in [Segments -> Nat] /\ synced'[s] = y
         /\ \A u \in Segments \ {s} : synced'[u] = synced[u]
    BY <1>3, <1>6, <2>2, <2>3, <2>5, <2>8
  <2>11. /\ Begins(g, f) /\ ValidCount(g) = c /\ y <= Len(g)
         /\ Len(g) = RecLen * c /\ y \in {x, Len(g)}
         /\ \A n \in Nat : n <= Len(g) /\ n <= x => n <= y
         /\ x = Len(f) => y = Len(g)
    BY <2>4, <2>5, <2>6, <2>7, <2>8 DEF RecLen
  <2>12. ASSUME NEW u \in Segments
         PROVE  /\ Begins(files'[u], files[u]) /\ ValidCount(files'[u]) = ValidCount(files[u])
                /\ synced'[u] <= Len(files'[u])
                /\ \/ files'[u] = files[u] /\ synced'[u] = synced[u]
                   \/ /\ Len(files'[u]) = RecLen * ValidCount(files[u])
                      /\ synced'[u] \in {synced[u], Len(files'[u])}
                /\ \A n \in Nat : n <= Len(files'[u]) /\ n <= synced[u] => n <= synced'[u]
                /\ synced[u] = Len(files[u]) => synced'[u] = Len(files'[u])
    <3>1. CASE u = s
      BY <2>3, <2>9, <2>10, <2>11, <3>1
    <3>2. CASE u # s
      BY <1>4, <2>9, <2>10, <3>2
    <3> QED BY <3>1, <3>2
  <2> QED BY <2>9, <2>10, <2>12
<1>7. CASE ~UNCHANGED disk
  <2>1. PICK s, m : s = NextSegment /\ m = RecLen * ValidCount(files[s])
    OBVIOUS
  <2>2. /\ files' = [files EXCEPT ![s] = SubSeq(@, 1, m)]
        /\ synced' = [synced EXCEPT ![s] = MinOf({@, m})]
    BY <1>7, <2>1 DEF RecoverFails
  <2> QED BY <1>1, <1>2, <1>6, <2>1, <2>2
<1> QED BY <1>5, <1>7

\* A step of the scan, whatever comes of it, keeps every whole record, and as
\* durable as it was.
Scanning == RecoverSegment \/ RecoverFails

LEMMA ScanEffect ==
  ASSUME TypeInv, Scanning
  PROVE  /\ status = "recovering" /\ status' # "up" /\ buf = <<>> /\ buf' = <<>> /\ writerSeg' = writerSeg
         /\ Segments' = Segments /\ files' \in [Segments -> Seq(Cells)]
         /\ \A u \in Segments :
              /\ Begins(files'[u], files[u]) /\ ValidCount(files'[u]) = ValidCount(files[u])
              /\ \A i \in 1..ValidCount(files[u]) : i * RecLen <= synced[u] => i * RecLen <= synced'[u]
         /\ UNCHANGED <<atomics, poisoned, pc, seqOf, settings, acked, before, halts>>
<1>0. \A u \in Segments : /\ files[u] \in Seq(Cells) /\ Len(files[u]) \in Nat /\ synced[u] \in Nat
                          /\ Begins(files[u], files[u])
                          /\ ValidCount(files[u]) \in Nat /\ RecLen * ValidCount(files[u]) <= Len(files[u])
  <2>1. \A u \in Segments : files[u] \in Seq(Cells) /\ Len(files[u]) \in Nat /\ synced[u] \in 0..Len(files[u])
    BY WalTypes
  <2> QED BY <2>1, BeginsSame, CountIs DEF RecLen
<1>1. CASE RecoverSegment
  <2>1. PICK s \in recTodo :
         /\ s \in Segments /\ status = "recovering" /\ buf = <<>>
         /\ Segments' = Segments /\ files' \in [Segments -> Seq(Cells)]
         /\ \A u \in Segments \ {s} : files'[u] = files[u] /\ synced'[u] = synced[u]
         /\ Begins(files'[s], files[s]) /\ ValidCount(files'[s]) = ValidCount(files[s])
         /\ \/ synced'[s] = RecLen * ValidCount(files[s]) /\ status' = "recovering"
            \/ UNCHANGED disk /\ status' \in {"recovering", "corrupt"}
         /\ UNCHANGED <<writer, atomics, poisoned, threads, settings, acked, before, halts>>
    BY <1>1, RecoverEffect
  <2>2. ASSUME NEW u \in Segments, NEW i \in 1..ValidCount(files[u]), i * RecLen <= synced[u]
        PROVE  i * RecLen <= synced'[u]
    <3>1. CASE synced'[u] = synced[u]
      BY <2>2, <3>1
    <3>2. CASE u = s /\ synced'[s] = RecLen * ValidCount(files[s])
      BY <1>0, <2>2, <3>2 DEF RecLen
    <3> QED BY <2>1, <3>1, <3>2 DEF disk
  <2>3. \A u \in Segments : Begins(files'[u], files[u]) /\ ValidCount(files'[u]) = ValidCount(files[u])
    BY <1>0, <2>1
  <2> QED BY <2>1, <2>2, <2>3 DEF writer, threads
<1>2. CASE RecoverFails
  <2>1. /\ status = "recovering" /\ buf = <<>> /\ status' = "failed"
        /\ Segments' = Segments /\ files' \in [Segments -> Seq(Cells)]
        /\ \A u \in Segments :
              /\ Begins(files'[u], files[u]) /\ ValidCount(files'[u]) = ValidCount(files[u])
              /\ \/ files'[u] = files[u] /\ synced'[u] = synced[u]
                 \/ Len(files'[u]) = RecLen * ValidCount(files[u])
              /\ \A n \in Nat : n <= Len(files'[u]) /\ n <= synced[u] => n <= synced'[u]
        /\ UNCHANGED <<writer, atomics, poisoned, threads, settings, acked, before, halts>>
    BY <1>2, RecoverFailsEffect
  <2>2. ASSUME NEW u \in Segments, NEW i \in 1..ValidCount(files[u]), i * RecLen <= synced[u]
        PROVE  i * RecLen <= synced'[u]
    <3>1. CASE synced'[u] = synced[u]
      BY <2>2, <3>1
    <3>2. CASE Len(files'[u]) = RecLen * ValidCount(files[u])
      <4>1. i * RecLen \in Nat /\ i * RecLen <= RecLen * ValidCount(files[u])
        BY <1>0, <2>2 DEF RecLen
      <4> QED BY <2>1, <2>2, <3>2, <4>1
    <3> QED BY <2>1, <3>1, <3>2
  <2> QED BY <2>1, <2>2 DEF writer, threads
<1> QED BY <1>1, <1>2 DEF Scanning

\* open: the disk stays, or segment 0 is created on an empty one.
LEMMA OpenEffect ==
  ASSUME TypeInv, Open
  PROVE  /\ \/ /\ Segments # {} /\ files' = files /\ synced' = synced /\ writerSeg' = writerSeg
            \/ /\ Segments = {} /\ writerSeg' = 0
               /\ files' = [u \in {0} |-> <<>>] /\ synced' = [u \in {0} |-> 0]
         /\ status = "recovering" /\ recTodo = {} /\ status' = "up" /\ buf = <<>>
         /\ current_segment_index' = writerSeg' /\ writerSeg' \in Segments'
         /\ current_segment_size' = Len(files'[writerSeg'])
         /\ current_sequence' = max_sequence
         /\ UNCHANGED <<buf, poisoned, threads, settings, recovery, acked, before, halts>>
<1>1. PICK last : last = IF Segments = {} THEN 0 ELSE MaxOf(Segments)
  OBVIOUS
<1>2. /\ status = "recovering" /\ recTodo = {}
      /\ files' = [u \in Segments \cup {last} |-> IF u \in Segments THEN files[u] ELSE <<>>]
      /\ synced' = [u \in Segments \cup {last} |-> IF u \in Segments THEN synced[u] ELSE 0]
      /\ writerSeg' = last /\ current_segment_index' = last
      /\ current_segment_size' = Len(files'[last])
      /\ current_sequence' = max_sequence
      /\ status' = "up"
      /\ UNCHANGED <<buf, poisoned, threads, settings, recovery, acked, before, halts>>
  BY <1>1 DEF Open, InitialSize, RestoredSequence
<1>3. buf = <<>>
  BY <1>2 DEF TypeInv, Placed
<1>4. writerSeg' \in Segments'
  BY <1>2 DEF Segments
<1>5. current_segment_index' = writerSeg' /\ current_segment_size' = Len(files'[writerSeg'])
  BY <1>2
<1>6. CASE Segments = {}
  <2>1. last = 0 /\ Segments \cup {last} = {0}
    BY <1>1, <1>6
  <2>2. files' = [u \in {0} |-> <<>>]
    BY <1>2, <1>6, <2>1
  <2>3. synced' = [u \in {0} |-> 0]
    BY <1>2, <1>6, <2>1
  <2> QED BY <1>2, <1>3, <1>4, <1>5, <1>6, <2>1, <2>2, <2>3
<1>7. CASE Segments # {}
  <2>1. Segments \subseteq Nat /\ writerSeg \in Segments /\ \A s \in Segments : s <= writerSeg
    BY <1>7 DEF TypeInv, TypeOK, Placed
  <2>2. last = writerSeg
    BY <1>1, <1>7, <2>1, MaxOfIs
  <2>3. Segments \cup {last} = Segments
    BY <2>1, <2>2
  <2>4. files \in [Segments -> Seq(Cells)] /\ synced \in [Segments -> Nat]
    BY DEF TypeInv, TypeOK, Placed
  <2>5. files' = files
    BY <1>2, <2>3, <2>4
  <2>6. synced' = synced
    BY <1>2, <2>3, <2>4
  <2> QED BY <1>2, <1>3, <1>4, <1>5, <1>7, <2>2, <2>5, <2>6
<1> QED BY <1>6, <1>7

-----------------------------------------------------------------------------
(* Types, and durability of the segments that are left.                    *)

LEMMA TypeInit == Init => TypeInv /\ SealedSegmentsDurable
<1> SUFFICES ASSUME Init PROVE TypeInv /\ SealedSegmentsDurable
  OBVIOUS
<1>1. Segments = {} /\ files \in [Segments -> Seq(Cells)] /\ synced \in [Segments -> Nat]
  BY DEF Init, Segments
<1>2. before \in [1..MaxSeq -> SUBSET (1..MaxSeq)] /\ MaxSeq \in Nat /\ MaxHalts \in Nat
  BY BoundsAreNat DEF Init
<1>3. /\ pc \in [Threads -> {"idle", "check", "rotate", "write", "sync"}] /\ seqOf \in [Threads -> 0..MaxSeq]
      /\ \A t \in Threads : pc[t] = "idle"
  BY <1>2 DEF Init
<1>4. buf \in Seq(Cells) /\ replayed \in Seq(1..MaxSeq)
  BY EmptySeq DEF Init
<1>5. sync_mode \in {"Always", "None"} /\ nova_fault = "none"
  BY SyncModeValues DEF Init
<1>6. TypeOK
  <2>1. /\ writerSeg \in Nat /\ current_segment_index \in Nat /\ current_segment_size \in Nat
        /\ current_sequence \in 0..MaxSeq /\ max_sequence \in 0..MaxSeq /\ halts \in 0..MaxHalts
    BY <1>2 DEF Init
  <2>2. /\ poisoned \in BOOLEAN /\ status = "down" /\ recTodo = {} /\ acked = {}
    BY DEF Init
  <2> QED BY <1>1, <1>2, <1>3, <1>4, <1>5, <2>1, <2>2 DEF TypeOK
<1>7. Placed
  BY <1>1, <1>3 DEF Init, Placed
<1> QED BY <1>1, <1>6, <1>7 DEF TypeInv, SealedSegmentsDurable

\* The threads of append move on their own.
LEMMA ThreadMoves ==
  ASSUME TypeInv, NEW t \in Threads, NEW loc \in {"idle", "check", "rotate", "write", "sync"},
         pc' = [pc EXCEPT ![t] = loc], seqOf' = seqOf, status' = status,
         pc[t] # "idle" \/ loc = "idle", loc = "sync" => LockFree
  PROVE  /\ pc' \in [Threads -> {"idle", "check", "rotate", "write", "sync"}]
         /\ \A u \in Threads : pc'[u] # "idle" => status' = "up" /\ seqOf'[u] \in 1..MaxSeq
         /\ \A u, v \in Threads : pc'[u] = "sync" /\ pc'[v] = "sync" => u = v
<1>1. pc \in [Threads -> {"idle", "check", "rotate", "write", "sync"}]
  BY DEF TypeInv, TypeOK
<1>2. \A u \in Threads : pc'[u] = IF u = t THEN loc ELSE pc[u]
  BY <1>1
<1>3. \A u \in Threads : pc'[u] # "idle" => pc[u] # "idle"
  BY <1>2
<1>4. \A u \in Threads : pc'[u] # "idle" => status' = "up" /\ seqOf'[u] \in 1..MaxSeq
  BY <1>3 DEF TypeInv, Placed
<1>5. \A u, v \in Threads : pc'[u] = "sync" /\ pc'[v] = "sync" => u = v
  BY <1>2 DEF TypeInv, Placed, LockFree
<1> QED BY <1>1, <1>4, <1>5

LEMMA TypeStep ==
  ASSUME TypeInv, SealedSegmentsDurable, [Next]_vars
  PROVE  TypeInv' /\ SealedSegmentsDurable'
<1> USE DEF SealedSegmentsDurable
<1>0. /\ files \in [Segments -> Seq(Cells)] /\ synced \in [Segments -> Nat]
      /\ \A s \in Segments : s \in Nat /\ synced[s] <= Len(files[s]) /\ Len(files[s]) \in Nat
      /\ \A s \in Segments : s <= writerSeg
      /\ MaxSeq \in Nat /\ MaxHalts \in Nat
  BY BoundsAreNat, WalTypes DEF TypeInv, TypeOK, Placed
<1>1. ASSUME NEW t \in Threads, NextSequence(t) PROVE TypeInv' /\ SealedSegmentsDurable'
  <2>1. /\ status = "up" /\ current_sequence + 1 \in 1..MaxSeq
        /\ current_sequence' = current_sequence + 1
        /\ seqOf' = [seqOf EXCEPT ![t] = current_sequence + 1]
        /\ before' = [before EXCEPT ![current_sequence + 1] = acked]
        /\ pc' = [pc EXCEPT ![t] = "check"]
        /\ UNCHANGED <<files, synced, writerSeg, buf, current_segment_index, current_segment_size,
                       poisoned, status, sync_mode, nova_fault, recTodo, replayed, max_sequence,
                       acked, halts>>
    BY <1>0, <1>1 DEF NextSequence, Goto, disk, writer, settings, recovery, TypeInv, TypeOK
  <2>2. pc' \in [Threads -> {"idle", "check", "rotate", "write", "sync"}] /\ seqOf' \in [Threads -> 0..MaxSeq]
    BY <1>0, <2>1 DEF TypeInv, TypeOK
  <2>3. before' \in [1..MaxSeq -> SUBSET (1..MaxSeq)]
    BY <2>1 DEF TypeInv, TypeOK
  <2>4. Segments' = Segments
    BY <2>1 DEF Segments
  <2>5. \A u \in Threads : /\ pc'[u] = IF u = t THEN "check" ELSE pc[u]
                           /\ seqOf'[u] = IF u = t THEN current_sequence + 1 ELSE seqOf[u]
    BY <2>1 DEF TypeInv, TypeOK
  <2>6. TypeOK'
    BY <2>1, <2>2, <2>3, <2>4 DEF TypeInv, TypeOK
  <2>7. Placed'
    <3>1. \A u \in Threads : pc'[u] # "idle" => status' = "up" /\ seqOf'[u] \in 1..MaxSeq
      BY <2>1, <2>5 DEF TypeInv, Placed
    <3>2. \A u, v \in Threads : pc'[u] = "sync" /\ pc'[v] = "sync" => u = v
      BY <2>5 DEF TypeInv, Placed
    <3> QED BY <2>1, <2>4, <3>1, <3>2 DEF TypeInv, Placed
  <2> QED BY <2>1, <2>4, <2>6, <2>7 DEF TypeInv
\* Steps of append that change no file.
<1>2. ASSUME NEW t \in Threads, CheckSize(t) \/ SyncFails(t) PROVE TypeInv' /\ SealedSegmentsDurable'
  <2>1. PICK loc \in {"idle", "rotate", "write"} :
        /\ pc[t] # "idle" /\ pc' = [pc EXCEPT ![t] = loc]
        /\ UNCHANGED <<files, synced, writerSeg, buf, atomics, poisoned, seqOf, status,
                       sync_mode, nova_fault, recTodo, replayed, max_sequence, acked, before, halts>>
    BY <1>2 DEF CheckSize, SyncFails, Goto, disk, writer, settings, recovery
  <2>2. /\ pc' \in [Threads -> {"idle", "check", "rotate", "write", "sync"}]
        /\ \A u \in Threads : pc'[u] # "idle" => status' = "up" /\ seqOf'[u] \in 1..MaxSeq
        /\ \A u, v \in Threads : pc'[u] = "sync" /\ pc'[v] = "sync" => u = v
    BY <2>1, ThreadMoves
  <2>3. Segments' = Segments
    BY <2>1 DEF Segments
  <2> QED BY <2>1, <2>2, <2>3 DEF TypeInv, TypeOK, Placed, atomics
<1>3. ASSUME NEW t \in Threads, Sync(t) PROVE TypeInv' /\ SealedSegmentsDurable'
  <2>1. /\ pc[t] = "sync" /\ pc' = [pc EXCEPT ![t] = "idle"]
        /\ synced' \in {synced, [synced EXCEPT ![writerSeg] = FileLen]}
        /\ current_segment_size' = current_segment_size + 3
        /\ acked' \in {acked, acked \cup {seqOf[t]}} /\ poisoned' \in {poisoned, TRUE}
        /\ UNCHANGED <<files, writerSeg, buf, current_segment_index, current_sequence, seqOf, status,
                       sync_mode, nova_fault, recTodo, replayed, max_sequence, before, halts>>
    BY <1>3 DEF Sync, Goto, writer, settings, recovery, RecLen
  <2>2. /\ pc' \in [Threads -> {"idle", "check", "rotate", "write", "sync"}]
        /\ \A u \in Threads : pc'[u] # "idle" => status' = "up" /\ seqOf'[u] \in 1..MaxSeq
        /\ \A u, v \in Threads : pc'[u] = "sync" /\ pc'[v] = "sync" => u = v
    BY <2>1, ThreadMoves
  <2>3. Segments' = Segments
    BY <2>1 DEF Segments
  <2>4. seqOf[t] \in 1..MaxSeq /\ writerSeg \in Segments /\ FileLen = Len(files[writerSeg])
    BY <2>1 DEF TypeInv, TypeOK, Placed, FileLen
  <2>5. acked' \subseteq 1..MaxSeq /\ poisoned' \in BOOLEAN /\ current_segment_size' \in Nat
    <3>1. acked \subseteq 1..MaxSeq /\ poisoned \in BOOLEAN /\ current_segment_size \in Nat
      BY DEF TypeInv, TypeOK
    <3>2. poisoned' \in BOOLEAN
      BY <2>1, <3>1, Zenon
    <3>3. acked' \subseteq 1..MaxSeq /\ current_segment_size' \in Nat
      BY <2>1, <2>4, <3>1
    <3> QED BY <3>2, <3>3
  <2>6. /\ synced' \in [Segments -> Nat] /\ \A s \in Segments : synced'[s] <= Len(files[s])
        /\ \A s \in Segments \ {writerSeg} : synced'[s] = synced[s]
    BY <1>0, <2>1, <2>4
  <2>7. TypeOK'
    BY <2>1, <2>2, <2>3, <2>5, <2>6 DEF TypeInv, TypeOK
  <2>8. Placed'
    BY <2>1, <2>2, <2>3 DEF TypeInv, Placed
  <2>9. SealedSegmentsDurable'
    BY <2>1, <2>3, <2>6
  <2> QED BY <2>7, <2>8, <2>9 DEF TypeInv
<1>4. ASSUME NEW t \in Threads, Write(t) \/ PartialWrite(t) \/ WriteFails(t)
      PROVE  TypeInv' /\ SealedSegmentsDurable'
  <2>1. /\ writerSeg \in Segments /\ status = "up" /\ seqOf[t] \in 1..MaxSeq /\ pc[t] = "write"
        /\ pc' \in {[pc EXCEPT ![t] = "sync"], [pc EXCEPT ![t] = "idle"]}
        /\ Segments' = Segments /\ files' \in [Segments -> Seq(Cells)] /\ buf' \in Seq(Cells)
        /\ \A s \in Segments \ {writerSeg} : files'[s] = files[s]
        /\ Begins(files[writerSeg], files'[writerSeg])
        /\ UNCHANGED <<synced, writerSeg, atomics, poisoned, seqOf, status,
                       settings, recovery, acked, before, halts>>
    BY <1>4, WriteEffect
  <2>2. LockFree
    BY <1>4 DEF Write, PartialWrite, WriteFails
  <2>3. PICK loc \in {"sync", "idle"} : pc' = [pc EXCEPT ![t] = loc]
    BY <2>1
  <2>4. /\ pc' \in [Threads -> {"idle", "check", "rotate", "write", "sync"}]
        /\ \A u \in Threads : pc'[u] # "idle" => status' = "up" /\ seqOf'[u] \in 1..MaxSeq
        /\ \A u, v \in Threads : pc'[u] = "sync" /\ pc'[v] = "sync" => u = v
    <3>1. pc[t] # "idle" /\ seqOf' = seqOf /\ status' = status
      BY <2>1
    <3> QED BY <2>2, <2>3, <3>1, ThreadMoves
  <2>5. \A s \in Segments : files'[s] \in Seq(Cells) /\ Len(files'[s]) \in Nat
    BY <2>1, LenProperties
  <2>6. \A s \in Segments : synced'[s] <= Len(files'[s])
    <3>1. synced' = synced /\ Len(files[writerSeg]) <= Len(files'[writerSeg])
      BY <2>1 DEF Begins
    <3> QED BY <1>0, <2>1, <2>5, <3>1
  <2>7. TypeOK'
    BY <2>1, <2>4, <2>5, <2>6 DEF TypeInv, TypeOK, atomics, settings, recovery
  <2>8. Placed'
    BY <2>1, <2>4 DEF TypeInv, Placed, atomics
  <2>9. SealedSegmentsDurable'
    BY <2>1
  <2> QED BY <2>7, <2>8, <2>9 DEF TypeInv
<1>5. ASSUME NEW t \in Threads, RotateFails(t) PROVE TypeInv' /\ SealedSegmentsDurable'
  <2>1. /\ writerSeg \in Segments /\ status = "up" /\ pc[t] = "rotate"
        /\ pc' = [pc EXCEPT ![t] = "idle"]
        /\ Segments' = Segments /\ files' \in [Segments -> Seq(Cells)] /\ buf' \in Seq(Cells)
        /\ \A s \in Segments \ {writerSeg} : files'[s] = files[s]
        /\ Begins(files[writerSeg], files'[writerSeg])
        /\ \/ synced' = synced
           \/ synced' = [synced EXCEPT ![writerSeg] = Len(Stream)] /\ files'[writerSeg] = Stream
        /\ current_segment_index' \in {current_segment_index, current_segment_index + 1}
        /\ UNCHANGED <<writerSeg, current_segment_size, current_sequence, poisoned, seqOf,
                       status, settings, recovery, acked, before, halts>>
    BY <1>5, RotateFailsEffect
  <2>2. /\ pc' \in [Threads -> {"idle", "check", "rotate", "write", "sync"}]
        /\ \A u \in Threads : pc'[u] # "idle" => status' = "up" /\ seqOf'[u] \in 1..MaxSeq
        /\ \A u, v \in Threads : pc'[u] = "sync" /\ pc'[v] = "sync" => u = v
    BY <2>1, ThreadMoves
  <2>3. \A s \in Segments : files'[s] \in Seq(Cells) /\ Len(files'[s]) \in Nat
    BY <2>1, LenProperties
  <2>4. /\ synced' \in [Segments -> Nat] /\ \A s \in Segments : synced'[s] <= Len(files'[s])
        /\ \A s \in Segments \ {writerSeg} : synced'[s] = synced[s]
    <3>1. Len(files[writerSeg]) <= Len(files'[writerSeg])
      BY <2>1 DEF Begins
    <3>2. Len(Stream) \in Nat
      BY <2>1, StreamTypes
    <3>3. CASE synced' = synced
      BY <1>0, <2>1, <2>3, <3>1, <3>3
    <3>4. CASE synced' = [synced EXCEPT ![writerSeg] = Len(Stream)] /\ files'[writerSeg] = Stream
      BY <1>0, <2>1, <2>3, <3>2, <3>4
    <3> QED BY <2>1, <3>3, <3>4
  <2>5. current_segment_index' \in Nat /\ writerSeg' <= current_segment_index'
    BY <2>1 DEF TypeInv, TypeOK, Placed
  <2>6. TypeOK'
    BY <2>1, <2>2, <2>3, <2>4, <2>5 DEF TypeInv, TypeOK, settings, recovery
  <2>7. Placed'
    BY <2>1, <2>2, <2>5 DEF TypeInv, Placed
  <2>8. SealedSegmentsDurable'
    BY <2>1, <2>4
  <2> QED BY <2>6, <2>7, <2>8 DEF TypeInv
<1>6. ASSUME NEW t \in Threads, RotateSegment(t) PROVE TypeInv' /\ SealedSegmentsDurable'
  <2>0. PICK n : n = current_segment_index + 1
    OBVIOUS
  <2>1. /\ writerSeg \in Segments /\ status = "up" /\ pc[t] = "rotate"
        /\ pc' = [pc EXCEPT ![t] = "write"]
        /\ n \in Nat /\ n \notin Segments /\ writerSeg < n /\ Segments' = Segments \cup {n}
        /\ files' \in [Segments \cup {n} -> Seq(Cells)] /\ synced' \in [Segments \cup {n} -> Nat]
        /\ files'[n] = <<>> /\ synced'[n] = 0
        /\ files'[writerSeg] = Stream /\ synced'[writerSeg] = Len(Stream)
        /\ \A s \in Segments \ {writerSeg} : files'[s] = files[s] /\ synced'[s] = synced[s]
        /\ writerSeg' = n /\ buf' = <<>> /\ current_segment_index' = n /\ current_segment_size' = 0
        /\ UNCHANGED <<current_sequence, poisoned, seqOf, status, settings,
                       recovery, acked, before, halts>>
    BY <1>6, <2>0, RotateEffect
  <2>2. /\ pc' \in [Threads -> {"idle", "check", "rotate", "write", "sync"}]
        /\ \A u \in Threads : pc'[u] # "idle" => status' = "up" /\ seqOf'[u] \in 1..MaxSeq
        /\ \A u, v \in Threads : pc'[u] = "sync" /\ pc'[v] = "sync" => u = v
    BY <2>1, ThreadMoves
  <2>3. \A s \in Segments' : files'[s] \in Seq(Cells) /\ Len(files'[s]) \in Nat
    BY <2>1, LenProperties
  <2>4. \A s \in Segments' : s \in Nat /\ synced'[s] <= Len(files'[s]) /\ s <= n
    <3>1. \A s \in Segments : s <= n
      BY <1>0, <2>1
    <3>2. Len(Stream) \in Nat
      BY <2>1, StreamTypes
    <3>3. synced'[n] <= Len(files'[n]) /\ synced'[writerSeg] <= Len(files'[writerSeg])
      <4>1. Len(<<>>) = 0
        OBVIOUS
      <4> QED BY <2>1, <3>2, <4>1
    <3>4. \A s \in Segments \ {writerSeg} : synced'[s] <= Len(files'[s])
      BY <1>0, <2>1
    <3> QED BY <1>0, <2>1, <3>1, <3>3, <3>4
  <2>5. buf' \in Seq(Cells) /\ recTodo' \subseteq Segments'
    BY <2>1, EmptySeq DEF TypeInv, TypeOK, recovery
  <2>6. TypeOK'
    BY <2>1, <2>2, <2>3, <2>4, <2>5 DEF TypeInv, TypeOK, settings, recovery
  <2>7. Placed'
    BY <2>1, <2>2, <2>4 DEF TypeInv, Placed
  <2>8. SealedSegmentsDurable'
    BY <2>1
  <2> QED BY <2>6, <2>7, <2>8 DEF TypeInv
<1>7. ASSUME ProcessCrash \/ PowerLoss \/ Shutdown PROVE TypeInv' /\ SealedSegmentsDurable'
  <2>1. /\ Segments' = Segments /\ files' \in [Segments -> Seq(Cells)]
        /\ synced' \in [Segments -> Nat] /\ writerSeg' = writerSeg
        /\ \A s \in Segments \ {writerSeg} : files'[s] = files[s] /\ synced'[s] = synced[s]
        /\ writerSeg \in Segments => synced'[writerSeg] <= Len(files'[writerSeg])
        /\ status' \in {"down", "stopped"} /\ acked' \subseteq acked
        /\ pc' = [t \in Threads |-> "idle"] /\ buf' = <<>> /\ recTodo' = {}
        /\ poisoned' = FALSE /\ halts' \in 0..MaxHalts
        /\ UNCHANGED <<atomics, seqOf, settings, replayed, max_sequence, before>>
    BY <1>7, HaltEffect
  <2>2. \A s \in Segments' : files'[s] \in Seq(Cells) /\ synced'[s] <= Len(files'[s])
    BY <1>0, <2>1
  <2>3. buf' \in Seq(Cells) /\ recTodo' \subseteq Segments' /\ acked' \subseteq 1..MaxSeq
    BY <2>1, EmptySeq DEF TypeInv, TypeOK
  <2>4. pc' \in [Threads -> {"idle", "check", "rotate", "write", "sync"}] /\ \A t \in Threads : pc'[t] = "idle"
    BY <2>1
  <2>5. TypeOK'
    BY <2>1, <2>2, <2>3, <2>4 DEF TypeInv, TypeOK, atomics, settings
  <2>6. Placed'
    BY <2>1, <2>4 DEF TypeInv, Placed, atomics
  <2>7. SealedSegmentsDurable'
    BY <2>1
  <2> QED BY <2>5, <2>6, <2>7 DEF TypeInv
<1>8. ASSUME Start PROVE TypeInv' /\ SealedSegmentsDurable'
  <2>1. /\ status # "up" /\ status' = "recovering" /\ nova_fault' \in NovaFaults
        /\ recTodo' = Segments /\ replayed' = <<>> /\ max_sequence' = 0
        /\ UNCHANGED <<files, synced, writerSeg, buf, atomics, poisoned, pc, seqOf, sync_mode,
                       acked, before, halts>>
    BY <1>8 DEF Start, disk, writer, threads
  <2>2. Segments' = Segments /\ replayed' \in Seq(1..MaxSeq) /\ max_sequence' \in 0..MaxSeq
    BY <1>0, <2>1, EmptySeq DEF Segments
  <2>3. nova_fault' \in {"none", "partial_write", "crash_after_wal"}
    BY <2>1, FaultValues
  <2>4. TypeOK'
    BY <2>1, <2>2, <2>3 DEF TypeInv, TypeOK, atomics
  <2>5. Placed'
    BY <2>1, <2>2 DEF TypeInv, Placed, atomics
  <2> QED BY <2>1, <2>2, <2>4, <2>5 DEF TypeInv
<1>9. ASSUME RecoverSegment PROVE TypeInv' /\ SealedSegmentsDurable'
  <2>1. PICK s \in recTodo :
         /\ s \in Segments /\ status = "recovering"
         /\ Segments' = Segments /\ files' \in [Segments -> Seq(Cells)] /\ synced' \in [Segments -> Nat]
         /\ \A u \in Segments \ {s} : files'[u] = files[u] /\ synced'[u] = synced[u]
         /\ \/ /\ Len(files'[s]) = RecLen * ValidCount(files[s])
               /\ synced'[s] = RecLen * ValidCount(files[s])
               /\ status' = "recovering" /\ recTodo' = recTodo \ {s}
            \/ /\ UNCHANGED disk
               /\ status' = "recovering" /\ recTodo' = recTodo \ {s}
            \/ /\ UNCHANGED disk
               /\ status' = "corrupt" /\ recTodo' = {}
         /\ replayed' \in Seq(1..MaxSeq) /\ max_sequence' \in 0..MaxSeq
         /\ UNCHANGED <<writer, atomics, poisoned, threads, settings, acked, before, halts>>
    BY <1>9, RecoverEffect
  <2>2. UNCHANGED disk \/ (Len(files'[s]) = synced'[s])
    BY <2>1
  <2>3. recTodo' \subseteq Segments /\ status' \in {"recovering", "corrupt"}
    BY <2>1 DEF TypeInv, TypeOK
  <2>4. \A u \in Segments : files'[u] \in Seq(Cells) /\ Len(files'[u]) \in Nat /\ synced'[u] \in Nat
    BY <2>1, LenProperties
  <2>5. \A u \in Segments : synced'[u] <= Len(files'[u])
    BY <1>0, <2>1, <2>2, <2>4 DEF disk
  <2>6. UNCHANGED <<writerSeg, buf, atomics, poisoned, pc, seqOf, sync_mode, nova_fault, acked, before, halts>>
    BY <2>1 DEF writer, threads, settings
  <2>7. TypeOK'
    BY <2>1, <2>3, <2>4, <2>5, <2>6 DEF TypeInv, TypeOK, atomics
  <2>8. Placed'
    BY <2>1, <2>3, <2>6 DEF TypeInv, Placed, atomics
  <2>9. SealedSegmentsDurable'
    BY <2>1, <2>2, <2>6 DEF disk
  <2> QED BY <2>7, <2>8, <2>9 DEF TypeInv
<1>10. ASSUME Open PROVE TypeInv' /\ SealedSegmentsDurable'
  <2>1. /\ \/ /\ Segments # {} /\ files' = files /\ synced' = synced /\ writerSeg' = writerSeg
           \/ /\ Segments = {} /\ writerSeg' = 0
              /\ files' = [u \in {0} |-> <<>>] /\ synced' = [u \in {0} |-> 0]
        /\ status = "recovering" /\ recTodo = {} /\ status' = "up" /\ buf = <<>>
        /\ current_segment_index' = writerSeg' /\ writerSeg' \in Segments'
        /\ current_segment_size' = Len(files'[writerSeg'])
        /\ current_sequence' = max_sequence
        /\ UNCHANGED <<buf, poisoned, pc, seqOf, sync_mode, nova_fault, recTodo, replayed, max_sequence,
                       acked, before, halts>>
    BY <1>10, OpenEffect DEF threads, settings, recovery
  <2>2. /\ Segments' \subseteq Nat /\ files' \in [Segments' -> Seq(Cells)] /\ synced' \in [Segments' -> Nat]
        /\ \A s \in Segments' : synced'[s] <= Len(files'[s]) /\ s <= writerSeg'
        /\ writerSeg' \in Nat
        /\ \A s \in Segments' \ {writerSeg'} : synced'[s] = Len(files'[s])
    <3>1. CASE Segments # {} /\ files' = files /\ synced' = synced /\ writerSeg' = writerSeg
      <4>1. Segments' = Segments
        BY <3>1 DEF Segments
      <4> QED BY <1>0, <3>1, <4>1, WalTypes
    <3>2. CASE /\ writerSeg' = 0
               /\ files' = [u \in {0} |-> <<>>] /\ synced' = [u \in {0} |-> 0]
      <4>1. Segments' = {0} /\ <<>> \in Seq(Cells) /\ Len(<<>>) = 0
        BY <3>2, EmptySeq DEF Segments
      <4>2. files'[0] = <<>> /\ synced'[0] = 0
        BY <3>2
      <4>3. files' \in [Segments' -> Seq(Cells)] /\ synced' \in [Segments' -> Nat]
        BY <3>2, <4>1
      <4> QED BY <3>2, <4>1, <4>2, <4>3
    <3> QED BY <2>1, <3>1, <3>2
  <2>3. current_segment_size' \in Nat
    BY <2>1, <2>2, LenProperties
  <2>4. \A t \in Threads : pc[t] = "idle"
    BY <2>1 DEF TypeInv, Placed
  <2>5. \A s \in Segments' : files'[s] \in Seq(Cells)
    BY <2>2
  <2>6. TypeOK'
    BY <2>1, <2>2, <2>3, <2>5 DEF TypeInv, TypeOK
  <2>7. Placed'
    BY <2>1, <2>2, <2>4 DEF Placed
  <2> QED BY <2>2, <2>6, <2>7 DEF TypeInv
<1>11. ASSUME UNCHANGED vars PROVE TypeInv' /\ SealedSegmentsDurable'
  BY <1>11 DEF vars, disk, writer, atomics, threads, settings, recovery, TypeInv, TypeOK, Placed, Segments
<1>12. ASSUME RecoverFails PROVE TypeInv' /\ SealedSegmentsDurable'
  <2>1. /\ status = "recovering" /\ status' = "failed" /\ recTodo' = {} /\ buf = <<>>
        /\ Segments' = Segments /\ files' \in [Segments -> Seq(Cells)] /\ synced' \in [Segments -> Nat]
        /\ \A u \in Segments : /\ synced'[u] <= Len(files'[u])
                               /\ synced[u] = Len(files[u]) => synced'[u] = Len(files'[u])
        /\ UNCHANGED <<writerSeg, buf, atomics, poisoned, pc, seqOf, sync_mode, nova_fault, replayed,
                       max_sequence, acked, before, halts>>
    BY <1>12, RecoverFailsEffect DEF writer, threads, settings
  <2>2. TypeOK'
    BY <2>1 DEF TypeInv, TypeOK, atomics
  <2>3. Placed'
    BY <2>1 DEF TypeInv, Placed, atomics
  <2>4. SealedSegmentsDurable'
    BY <1>0, <2>1 DEF SealedSegmentsDurable
  <2> QED BY <2>2, <2>3, <2>4 DEF TypeInv
<1> QED BY <1>1, <1>2, <1>3, <1>4, <1>5, <1>6, <1>7, <1>8, <1>9, <1>10, <1>11, <1>12 DEF Next, AppendStep

\* Every segment that rotate_segment has left, in whatever state the failures
\* and errors of the model put it, has no byte that a power loss could take:
\* what PowerLoss takes from the segment being written is all there is to take.
THEOREM SealedCorrect == Spec => []SealedSegmentsDurable
<1>1. Init => TypeInv /\ SealedSegmentsDurable
  BY TypeInit
<1>2. TypeInv /\ SealedSegmentsDurable /\ [Next]_vars => TypeInv' /\ SealedSegmentsDurable'
  BY TypeStep
<1> QED BY <1>1, <1>2, PTL DEF Spec

\* The type invariant on its own, for the theorems below.
LEMMA TypesHold == Spec => [](TypeInv /\ SealedSegmentsDurable)
<1>1. Init => TypeInv /\ SealedSegmentsDurable
  BY TypeInit
<1>2. TypeInv /\ SealedSegmentsDurable /\ [Next]_vars => TypeInv' /\ SealedSegmentsDurable'
  BY TypeStep
<1> QED BY <1>1, <1>2, PTL DEF Spec

-----------------------------------------------------------------------------
(* What the steps do to the records.                                       *)

\* The streams stay, and a new one is empty.
SameStreams ==
  /\ Segments \subseteq Segments'
  /\ \A s \in Segments : StreamOf(s)' = StreamOf(s)
  /\ \A s \in Segments' \ Segments : StreamOf(s)' = <<>>

\* Of every stream a first part stays.
CutStreams ==
  /\ Segments' = Segments
  /\ \A s \in Segments : Begins(StreamOf(s)', StreamOf(s))

Halting == ProcessCrash \/ PowerLoss \/ Shutdown
Writing(t) == Write(t) \/ PartialWrite(t) \/ WriteFails(t)
Moving(t) == NextSequence(t) \/ CheckSize(t) \/ RotateSegment(t) \/ RotateFails(t) \/ Sync(t) \/ SyncFails(t)

LEMMA SameStep ==
  ASSUME TypeInv, (\E t \in Threads : Moving(t)) \/ Start \/ Open \/ UNCHANGED vars
  PROVE  SameStreams
<1>1. CASE UNCHANGED <<files, buf, writerSeg>>
  BY <1>1 DEF SameStreams, StreamOf, Stream, Segments
<1>2. ASSUME NEW t \in Threads, RotateFails(t) PROVE SameStreams
  <2>1. /\ Segments' = Segments /\ writerSeg' = writerSeg
        /\ \A s \in Segments \ {writerSeg} : files'[s] = files[s]
        /\ Stream' = Stream
    BY <1>2, RotateFailsEffect
  <2>2. ASSUME NEW s \in Segments PROVE StreamOf(s)' = StreamOf(s)
    BY <2>1 DEF StreamOf
  <2> QED BY <2>1, <2>2 DEF SameStreams
<1>3. ASSUME NEW t \in Threads, RotateSegment(t) PROVE SameStreams
  <2>1. PICK n : n = current_segment_index + 1
    OBVIOUS
  <2>2. /\ Segments' = Segments \cup {n} /\ StreamOf(n)' = <<>>
        /\ \A s \in Segments : StreamOf(s)' = StreamOf(s)
    BY <1>3, <2>1, RotateEffect
  <2> QED BY <2>2 DEF SameStreams
<1>4. CASE Open
  <2>1. /\ \/ /\ files' = files /\ writerSeg' = writerSeg
           \/ /\ Segments = {} /\ writerSeg' = 0 /\ files' = [u \in {0} |-> <<>>]
        /\ buf' = <<>> /\ buf = <<>>
    BY <1>4, OpenEffect
  <2>2. CASE files' = files /\ writerSeg' = writerSeg
    BY <1>1, <2>1, <2>2
  <2>3. CASE Segments = {} /\ writerSeg' = 0 /\ files' = [u \in {0} |-> <<>>]
    <3>1. Segments' = {0} /\ files'[0] = <<>>
      BY <2>3 DEF Segments
    <3>2. <<>> \o <<>> = <<>>
      BY EmptySeq, ConcatEmptySeq
    <3>3. \A s \in Segments' : StreamOf(s)' = <<>>
      BY <2>1, <2>3, <3>1, <3>2 DEF StreamOf, Stream
    <3> QED BY <2>3, <3>3 DEF SameStreams
  <2> QED BY <2>1, <2>2, <2>3
<1>5. ASSUME NEW t \in Threads, NextSequence(t) \/ CheckSize(t) \/ Sync(t) \/ SyncFails(t)
      PROVE  UNCHANGED <<files, buf, writerSeg>>
  BY <1>5 DEF NextSequence, CheckSize, Sync, SyncFails, disk, writer
<1>6. Start \/ UNCHANGED vars => UNCHANGED <<files, buf, writerSeg>>
  BY DEF Start, vars, disk, writer
<1> QED BY <1>1, <1>2, <1>3, <1>4, <1>5, <1>6 DEF Moving

LEMMA CutStep ==
  ASSUME TypeInv, TypeInv', Halting \/ Scanning
  PROVE  CutStreams
<1>0. buf' = <<>> /\ writerSeg' = writerSeg /\ Segments' = Segments
  <2>1. CASE Halting
    BY <2>1, HaltEffect DEF Halting
  <2>2. CASE Scanning
    BY <2>2, ScanEffect
  <2> QED BY <2>1, <2>2
<1>1. \A s \in Segments : StreamOf(s)' = files'[s]
  <2> SUFFICES ASSUME NEW s \in Segments PROVE StreamOf(s)' = files'[s]
    OBVIOUS
  <2>1. files'[s] \in Seq(Cells)
    BY <1>0 DEF TypeInv, TypeOK
  <2>2. files'[s] \o <<>> = files'[s]
    BY <2>1, ConcatEmptySeq
  <2> QED BY <1>0, <2>2 DEF StreamOf, Stream
<1>2. ASSUME NEW s \in Segments PROVE Begins(files'[s], StreamOf(s))
  <2>1. files[s] \in Seq(Cells) /\ files'[s] \in Seq(Cells) /\ StreamOf(s) \in Seq(Cells)
        /\ Begins(files[s], StreamOf(s)) /\ Begins(files[s], files[s])
    BY <1>0, StreamOfTypes, BeginsSame DEF TypeInv, TypeOK
  <2>2. CASE Halting
    <3>1. CASE s = writerSeg
      BY <2>2, <3>1, HaltEffect DEF StreamOf, Halting
    <3>2. CASE s # writerSeg
      BY <2>1, <2>2, <3>2, HaltEffect DEF Halting
    <3> QED BY <3>1, <3>2
  <2>3. CASE Scanning
    <3>1. Begins(files'[s], files[s])
      BY <2>3, ScanEffect
    <3> QED BY <2>1, <3>1, BeginsTransitive
  <2> QED BY <2>2, <2>3
<1> QED BY <1>0, <1>1, <1>2 DEF CutStreams

LEMMA NextStreamTypes ==
  ASSUME TypeInv', NEW s \in Segments'
  PROVE  StreamOf(s)' \in Seq(Cells) /\ files'[s] \in Seq(Cells) /\ Begins(files'[s], StreamOf(s)')
<1>1. files'[s] \in Seq(Cells) /\ buf' \in Seq(Cells)
  BY DEF TypeInv, TypeOK
<1>2. files'[s] \o buf' \in Seq(Cells) /\ Begins(files'[s], files'[s] \o buf') /\ Begins(files'[s], files'[s])
  BY <1>1, BeginsConcat, BeginsSame
<1> QED BY <1>1, <1>2 DEF StreamOf, Stream

\* No record is new and none moves, unless a record is written.
LEMMA OldRecords ==
  ASSUME TypeInv, TypeInv', SameStreams \/ CutStreams,
         NEW s \in Segments', NEW i \in 1..(Count(s)')
  PROVE  s \in Segments /\ i \in 1..Count(s) /\ Rec(s, i)' = Rec(s, i)
<1>1. PICK z : z = StreamOf(s)'
  OBVIOUS
<1>2. z \in Seq(Cells) /\ i \in 1..ValidCount(z) /\ Rec(s, i)' = z[i * RecLen].rec
  <2>1. StreamOf(s)' \in Seq(Cells)
    BY NextStreamTypes
  <2> QED BY <1>1, <2>1 DEF Count, Rec
<1>3. z # <<>>
  <2> SUFFICES ASSUME z = <<>> PROVE FALSE
    OBVIOUS
  <2>1. ValidCount(z) \in Nat /\ 3 * ValidCount(z) <= Len(z) /\ Len(z) = 0
    BY <1>2, CountIs
  <2> QED BY <1>2, <2>1
<1>4. s \in Segments /\ Begins(z, StreamOf(s))
  <2>1. CASE SameStreams
    <3>1. s \in Segments
      BY <1>1, <1>3, <2>1 DEF SameStreams
    <3>2. z = StreamOf(s) /\ StreamOf(s) \in Seq(Cells)
      BY <1>1, <2>1, <3>1, StreamOfTypes DEF SameStreams
    <3> QED BY <3>1, <3>2, BeginsSame
  <2>2. CASE CutStreams
    BY <1>1, <2>2 DEF CutStreams
  <2> QED BY <2>1, <2>2
<1>5. StreamOf(s) \in Seq(Cells)
  BY <1>4, StreamOfTypes
<1>6. i \in 1..ValidCount(StreamOf(s)) /\ z[i * RecLen] = StreamOf(s)[i * RecLen]
  BY <1>2, <1>4, <1>5, PrefixCount
<1> QED BY <1>2, <1>4, <1>6 DEF Count, Rec

LEMMA WriteRecords ==
  ASSUME TypeInv, TypeInv', NEW t \in Threads, Writing(t),
         NEW s \in Segments', NEW i \in 1..(Count(s)')
  PROVE  /\ s \in Segments
         /\ \/ i \in 1..Count(s) /\ Rec(s, i)' = Rec(s, i)
            \/ /\ s = writerSeg /\ i = Count(s) + 1 /\ Rec(s, i)' = seqOf[t]
               /\ Len(Stream) = RecLen * Count(s)
<1>1. PICK z, S, r : z = StreamOf(s)' /\ S = Stream /\ r = seqOf[t]
  OBVIOUS
<1>2. z \in Seq(Cells) /\ i \in 1..ValidCount(z) /\ Rec(s, i)' = z[i * RecLen].rec
  <2>1. StreamOf(s)' \in Seq(Cells)
    BY NextStreamTypes
  <2> QED BY <1>1, <2>1 DEF Count, Rec
<1>3. /\ writerSeg \in Segments /\ Segments' = Segments /\ writerSeg' = writerSeg /\ r \in 1..MaxSeq
      /\ \A u \in Segments \ {writerSeg} : files'[u] = files[u]
      /\ Begins(S, Stream') /\ Begins(Stream', S \o Encode(r))
  BY <1>1, WriteEffect DEF Writing
<1>4. s \in Segments /\ StreamOf(s) \in Seq(Cells)
  BY <1>3, StreamOfTypes
<1>5. CASE s = writerSeg
  <2>1. z = Stream' /\ StreamOf(s) = S /\ S \in Seq(Cells)
    BY <1>1, <1>3, <1>4, <1>5 DEF StreamOf
  <2>2. Begins(S, z) /\ Begins(z, S \o Encode(r))
    BY <1>3, <2>1
  <2>3. \/ i \in 1..ValidCount(S) /\ z[i * RecLen] = S[i * RecLen]
        \/ /\ i = ValidCount(S) + 1 /\ Len(S) = RecLen * ValidCount(S)
           /\ Len(z) = Len(S) + RecLen /\ z[i * RecLen].rec = r
    BY <1>2, <1>3, <2>1, <2>2, GrownCount
  <2> QED BY <1>1, <1>2, <1>4, <1>5, <2>1, <2>3 DEF Count, Rec
<1>6. CASE s # writerSeg
  <2>1. z = StreamOf(s)
    BY <1>1, <1>3, <1>4, <1>6 DEF StreamOf
  <2> QED BY <1>2, <1>4, <2>1 DEF Count, Rec
<1> QED BY <1>5, <1>6

-----------------------------------------------------------------------------
(* Sequence numbers.                                                       *)

LEMMA UniqueInit == Init => UniqueInv
<1> SUFFICES ASSUME Init PROVE UniqueInv
  OBVIOUS
<1>1. Segments = {} /\ status = "down"
  BY DEF Init, Segments
<1> QED BY <1>1 DEF UniqueInv

\* A step that writes no record: the records and the threads before it.
LEMMA QuietUnique ==
  ASSUME TypeInv, TypeInv', UniqueInv, SameStreams \/ CutStreams,
         status' = "up" => /\ \A s \in Segments : \A i \in 1..Count(s) : Rec(s, i) <= current_sequence'
                           /\ \A u \in Threads : Before(u)' => seqOf'[u] <= current_sequence' /\ ~Logged(seqOf'[u])
                           /\ \A u, v \in Threads : Before(u)' /\ Before(v)' /\ seqOf'[u] = seqOf'[v] => u = v,
         status' = "recovering" =>
           \A s \in Segments \ recTodo' : \A i \in 1..Count(s) : Rec(s, i) <= max_sequence'
  PROVE  UniqueInv'
<1>1. \A s \in Segments' : \A i \in 1..(Count(s)') :
        s \in Segments /\ i \in 1..Count(s) /\ Rec(s, i)' = Rec(s, i)
  BY OldRecords
<1>2. ASSUME NEW s1 \in Segments', NEW s2 \in Segments', NEW i \in 1..(Count(s1)'),
             NEW j \in 1..(Count(s2)'), Rec(s1, i)' = Rec(s2, j)'
      PROVE  s1 = s2 /\ i = j
  <2>1. /\ s1 \in Segments /\ i \in 1..Count(s1) /\ Rec(s1, i)' = Rec(s1, i)
        /\ s2 \in Segments /\ j \in 1..Count(s2) /\ Rec(s2, j)' = Rec(s2, j)
    BY <1>1
  <2>2. Rec(s1, i) = Rec(s2, j)
    BY <1>2, <2>1
  <2> QED BY <2>1, <2>2 DEF UniqueInv
<1>3. ASSUME status' = "up" PROVE \A s \in Segments' : \A i \in 1..(Count(s)') : Rec(s, i)' <= current_sequence'
  BY <1>1, <1>3
<1>4. ASSUME status' = "up", NEW u \in Threads, Before(u)'
      PROVE  seqOf'[u] <= current_sequence' /\ ~(\E s \in Segments' : \E i \in 1..(Count(s)') : Rec(s, i)' = seqOf'[u])
  <2>1. seqOf'[u] <= current_sequence' /\ ~Logged(seqOf'[u])
    BY <1>4
  <2>2. ~(\E s \in Segments : \E i \in 1..Count(s) : Rec(s, i) = seqOf'[u])
    BY <2>1 DEF Logged
  <2> QED BY <1>1, <2>1, <2>2
<1>5. ASSUME status' = "recovering"
      PROVE  \A s \in Segments' \ recTodo' : \A i \in 1..(Count(s)') : Rec(s, i)' <= max_sequence'
  BY <1>1, <1>5
<1> QED BY <1>2, <1>3, <1>4, <1>5 DEF UniqueInv, Logged

LEMMA UniqueStep ==
  ASSUME TypeInv, TypeInv', UniqueInv, [Next]_vars
  PROVE  UniqueInv'
<1>0. /\ pc \in [Threads -> {"idle", "check", "rotate", "write", "sync"}]
      /\ \A s \in Segments : \A i \in 1..Count(s) : Rec(s, i) \in Nat
      /\ current_sequence \in Nat
      /\ \A s1, s2 \in Segments : \A i \in 1..Count(s1), j \in 1..Count(s2) :
           Rec(s1, i) = Rec(s2, j) => s1 = s2 /\ i = j
  <2>1. ASSUME NEW s \in Segments, NEW i \in 1..Count(s) PROVE Rec(s, i) \in Nat
    <3>1. StreamOf(s) \in Seq(Cells)
      BY StreamOfTypes
    <3>2. StreamOf(s)[i * RecLen] \in Cells
      BY <3>1, RecordsAt DEF Count
    <3> QED BY <3>2, CellFields DEF Rec
  <2>2. pc \in [Threads -> {"idle", "check", "rotate", "write", "sync"}] /\ current_sequence \in 0..MaxSeq
    BY DEF TypeInv, TypeOK
  <2> QED BY <2>1, <2>2 DEF UniqueInv
<1>1. ASSUME NEW t \in Threads, NextSequence(t) PROVE UniqueInv'
  <2>1. /\ status = "up" /\ current_sequence' = current_sequence + 1 /\ status' = status
        /\ seqOf' = [seqOf EXCEPT ![t] = current_sequence + 1]
        /\ pc' = [pc EXCEPT ![t] = "check"] /\ pc[t] = "idle"
    BY <1>1 DEF NextSequence, Goto
  <2>2. SameStreams
    BY <1>1, SameStep DEF Moving
  <2>3. /\ seqOf'[t] = current_sequence + 1
        /\ \A u \in Threads \ {t} : seqOf'[u] = seqOf[u] /\ pc'[u] = pc[u]
    BY <1>0, <2>1 DEF TypeInv, TypeOK
  <2>4. /\ \A s \in Segments : \A i \in 1..Count(s) : Rec(s, i) <= current_sequence
        /\ \A u \in Threads : Before(u) => seqOf[u] <= current_sequence /\ ~Logged(seqOf[u]) /\ seqOf[u] \in Nat
        /\ \A u, v \in Threads : Before(u) /\ Before(v) /\ seqOf[u] = seqOf[v] => u = v
    <3>1. \A u \in Threads : seqOf[u] \in 0..MaxSeq
      BY DEF TypeInv, TypeOK
    <3> QED BY <2>1, <3>1 DEF UniqueInv
  <2>5. \A s \in Segments : \A i \in 1..Count(s) : Rec(s, i) <= current_sequence'
    BY <1>0, <2>1, <2>4
  <2>6. ~Logged(current_sequence + 1)
    <3>1. \A s \in Segments : \A i \in 1..Count(s) : Rec(s, i) # current_sequence + 1
      BY <1>0, <2>4
    <3> QED BY <3>1 DEF Logged
  <2>7. ASSUME NEW u \in Threads, Before(u)' PROVE seqOf'[u] <= current_sequence' /\ ~Logged(seqOf'[u])
    <3>1. CASE u = t
      BY <1>0, <2>1, <2>3, <2>6, <3>1
    <3>2. CASE u # t
      <4>1. Before(u) /\ seqOf'[u] = seqOf[u]
        BY <2>3, <2>7, <3>2 DEF Before
      <4> QED BY <1>0, <2>1, <2>4, <4>1
    <3> QED BY <3>1, <3>2
  <2>8. ASSUME NEW u \in Threads, NEW v \in Threads, Before(u)', Before(v)', seqOf'[u] = seqOf'[v]
        PROVE  u = v
    <3>1. \A w \in Threads \ {t} : Before(w)' => Before(w) /\ seqOf'[w] = seqOf[w] /\ seqOf'[w] # seqOf'[t]
      <4> SUFFICES ASSUME NEW w \in Threads \ {t}, Before(w)'
                   PROVE  Before(w) /\ seqOf'[w] = seqOf[w] /\ seqOf'[w] # seqOf'[t]
        OBVIOUS
      <4>1. Before(w) /\ seqOf'[w] = seqOf[w]
        BY <2>3 DEF Before
      <4>2. seqOf[w] <= current_sequence /\ seqOf[w] \in Nat
        BY <2>4, <4>1
      <4> QED BY <1>0, <2>3, <4>1, <4>2
    <3> QED BY <2>4, <2>8, <3>1
  <2> QED BY <2>1, <2>2, <2>5, <2>7, <2>8, QuietUnique
\* Steps of append that give no number and write no record.
<1>2. ASSUME NEW t \in Threads,
             CheckSize(t) \/ RotateSegment(t) \/ RotateFails(t) \/ Sync(t) \/ SyncFails(t)
      PROVE  UniqueInv'
  <2>1. /\ SameStreams /\ status' = status /\ seqOf' = seqOf /\ current_sequence' = current_sequence
        /\ pc[t] # "idle"
    <3>1. SameStreams
      BY <1>2, SameStep DEF Moving
    <3> QED BY <1>2, <3>1 DEF CheckSize, RotateSegment, RotateFails, Sync, SyncFails, atomics
  <2>2. status = "up"
    BY <2>1 DEF TypeInv, Placed
  <2>3. \A u \in Threads : Before(u)' => Before(u)
    <3>1. PICK loc : pc' = [pc EXCEPT ![t] = loc] /\ (loc # "idle" => Before(t))
      BY <1>2 DEF CheckSize, RotateSegment, RotateFails, Sync, SyncFails, Goto, Before
    <3> QED BY <1>0, <3>1 DEF Before
  <2>4. /\ \A s \in Segments : \A i \in 1..Count(s) : Rec(s, i) <= current_sequence'
        /\ \A u \in Threads : Before(u)' => seqOf'[u] <= current_sequence' /\ ~Logged(seqOf'[u])
        /\ \A u, v \in Threads : Before(u)' /\ Before(v)' /\ seqOf'[u] = seqOf'[v] => u = v
    BY <2>1, <2>2, <2>3 DEF UniqueInv
  <2> QED BY <2>1, <2>2, <2>4, QuietUnique
<1>3. ASSUME NEW t \in Threads, Writing(t) PROVE UniqueInv'
  <2>1. /\ status = "up" /\ pc[t] = "write" /\ status' = "up" /\ Segments' = Segments
        /\ pc' \in {[pc EXCEPT ![t] = "sync"], [pc EXCEPT ![t] = "idle"]}
        /\ seqOf' = seqOf /\ current_sequence' = current_sequence
    BY <1>3, WriteEffect DEF atomics, Writing
  <2>2. /\ \A s \in Segments : \A i \in 1..Count(s) : Rec(s, i) <= current_sequence
        /\ \A u \in Threads : Before(u) => seqOf[u] <= current_sequence /\ ~Logged(seqOf[u])
        /\ \A u, v \in Threads : Before(u) /\ Before(v) /\ seqOf[u] = seqOf[v] => u = v
    BY <2>1 DEF UniqueInv
  <2>3. Before(t) /\ seqOf[t] <= current_sequence
        /\ \A s \in Segments : \A i \in 1..Count(s) : Rec(s, i) # seqOf[t]
    BY <2>1, <2>2 DEF Before, Logged
  <2>4. \A s \in Segments' : \A i \in 1..(Count(s)') :
          /\ s \in Segments
          /\ \/ i \in 1..Count(s) /\ Rec(s, i)' = Rec(s, i)
             \/ s = writerSeg /\ i = Count(s) + 1 /\ Rec(s, i)' = seqOf[t]
    BY <1>3, WriteRecords
  <2>5. ASSUME NEW s1 \in Segments', NEW s2 \in Segments', NEW i \in 1..(Count(s1)'),
               NEW j \in 1..(Count(s2)'), Rec(s1, i)' = Rec(s2, j)'
        PROVE  s1 = s2 /\ i = j
    <3>1. \/ s1 \in Segments /\ i \in 1..Count(s1) /\ Rec(s1, i)' = Rec(s1, i) /\ Rec(s1, i)' # seqOf[t]
          \/ s1 = writerSeg /\ i = Count(s1) + 1 /\ Rec(s1, i)' = seqOf[t]
      BY <2>3, <2>4
    <3>2. \/ s2 \in Segments /\ j \in 1..Count(s2) /\ Rec(s2, j)' = Rec(s2, j) /\ Rec(s2, j)' # seqOf[t]
          \/ s2 = writerSeg /\ j = Count(s2) + 1 /\ Rec(s2, j)' = seqOf[t]
      BY <2>3, <2>4
    <3> QED BY <1>0, <2>5, <3>1, <3>2
  <2>6. \A s \in Segments' : \A i \in 1..(Count(s)') : Rec(s, i)' <= current_sequence'
    BY <2>1, <2>2, <2>3, <2>4
  <2>7. \A u \in Threads : Before(u)' => Before(u) /\ u # t
    BY <1>0, <2>1 DEF Before
  <2>8. ASSUME NEW u \in Threads, Before(u)'
        PROVE  seqOf'[u] <= current_sequence' /\ ~(\E s \in Segments' : \E i \in 1..(Count(s)') : Rec(s, i)' = seqOf'[u])
    <3>1. Before(u) /\ seqOf'[u] = seqOf[u] /\ seqOf[u] # seqOf[t]
      BY <2>1, <2>2, <2>3, <2>7, <2>8
    <3>2. \A s \in Segments : \A i \in 1..Count(s) : Rec(s, i) # seqOf[u]
      BY <2>2, <3>1 DEF Logged
    <3> QED BY <2>1, <2>2, <2>4, <3>1, <3>2
  <2>9. \A u, v \in Threads : Before(u)' /\ Before(v)' /\ seqOf'[u] = seqOf'[v] => u = v
    BY <2>1, <2>2, <2>7
  <2> QED BY <2>1, <2>5, <2>6, <2>8, <2>9 DEF UniqueInv, Logged
<1>4. ASSUME Halting PROVE UniqueInv'
  <2>1. CutStreams /\ status' \in {"down", "stopped"}
    BY <1>4, CutStep, HaltEffect DEF Halting
  <2> QED BY <2>1, QuietUnique
<1>5. ASSUME Start PROVE UniqueInv'
  <2>1. SameStreams /\ status' = "recovering" /\ recTodo' = Segments
    BY <1>5, SameStep DEF Start
  <2> QED BY <2>1, QuietUnique
<1>6. ASSUME RecoverSegment PROVE UniqueInv'
  <2>1. CutStreams
    BY <1>6, CutStep DEF Scanning
  <2>2. PICK s \in recTodo :
         /\ s \in Segments /\ status = "recovering" /\ buf = <<>>
         /\ status' = "recovering" => recTodo' = recTodo \ {s}
         /\ status' \in {"recovering", "corrupt"}
         /\ max_sequence' \in 0..MaxSeq /\ max_sequence <= max_sequence'
         /\ \A i \in 1..ValidCount(files[s]) : files[s][i * RecLen].rec <= max_sequence'
    BY <1>6, RecoverEffect
  <2>3. StreamOf(s) = files[s]
    BY <2>2, ClosedStreams
  <2>4. \A i \in 1..Count(s) : Rec(s, i) <= max_sequence'
    BY <2>2, <2>3 DEF Count, Rec
  <2>5. max_sequence \in Nat /\ max_sequence' \in Nat
    BY BoundsAreNat, <2>2 DEF TypeInv, TypeOK
  <2>6. ASSUME NEW u \in Segments \ (recTodo \ {s}), NEW i \in 1..Count(u) PROVE Rec(u, i) <= max_sequence'
    <3>1. CASE u = s
      BY <2>4, <3>1
    <3>2. CASE u # s
      <4>1. Rec(u, i) <= max_sequence /\ Rec(u, i) \in Nat
        BY <1>0, <2>2, <3>2 DEF UniqueInv
      <4> QED BY <2>2, <2>5, <4>1
    <3> QED BY <3>1, <3>2
  <2> QED BY <2>1, <2>2, <2>6, QuietUnique
<1>7. ASSUME Open PROVE UniqueInv'
  <2>1. SameStreams
    BY <1>7, SameStep
  <2>2. /\ status = "recovering" /\ recTodo = {} /\ status' = "up" /\ current_sequence' = max_sequence
        /\ pc' = pc
    BY <1>7, OpenEffect DEF threads
  <2>3. \A s \in Segments : \A i \in 1..Count(s) : Rec(s, i) <= current_sequence'
    BY <2>2 DEF UniqueInv
  <2>4. \A u \in Threads : ~(Before(u)')
    BY <2>2 DEF TypeInv, Placed, Before
  <2> QED BY <2>1, <2>2, <2>3, <2>4, QuietUnique
<1>8. ASSUME UNCHANGED vars PROVE UniqueInv'
  <2>1. /\ SameStreams /\ status' = status /\ pc' = pc /\ seqOf' = seqOf /\ recTodo' = recTodo
        /\ current_sequence' = current_sequence /\ max_sequence' = max_sequence
    <3>1. SameStreams
      BY <1>8, SameStep
    <3> QED BY <1>8, <3>1 DEF vars, threads, atomics, recovery
  <2>2. \A u \in Threads : Before(u)' => Before(u)
    BY <2>1 DEF Before
  <2>3. status' = "up" =>
        /\ \A s \in Segments : \A i \in 1..Count(s) : Rec(s, i) <= current_sequence'
        /\ \A u \in Threads : Before(u)' => seqOf'[u] <= current_sequence' /\ ~Logged(seqOf'[u])
        /\ \A u, v \in Threads : Before(u)' /\ Before(v)' /\ seqOf'[u] = seqOf'[v] => u = v
    BY <2>1, <2>2 DEF UniqueInv
  <2>4. status' = "recovering" => \A s \in Segments \ recTodo' : \A i \in 1..Count(s) : Rec(s, i) <= max_sequence'
    BY <2>1 DEF UniqueInv
  <2> QED BY <2>1, <2>3, <2>4, QuietUnique
<1>9. ASSUME RecoverFails PROVE UniqueInv'
  <2>1. CutStreams /\ status' = "failed"
    BY <1>9, CutStep DEF Scanning, RecoverFails
  <2> QED BY <2>1, QuietUnique
<1> QED BY <1>1, <1>2, <1>3, <1>4, <1>5, <1>6, <1>7, <1>8, <1>9 DEF Next, AppendStep, Writing, Halting

\* No two whole records of the files have the same number: although the counter
\* restarts from what recovery could read, although rotations, failing writes
\* and partial writes leave records behind that were never acknowledged, and
\* whatever order the threads reach the file in.
THEOREM UniqueCorrect == Spec => []SequencesUnique
<1>1. Init => UniqueInv
  BY UniqueInit
<1>2. TypeInv /\ TypeInv' /\ UniqueInv /\ [Next]_vars => UniqueInv'
  BY UniqueStep
<1>3. TypeInv /\ UniqueInv => SequencesUnique
  <2> SUFFICES ASSUME TypeInv, UniqueInv, NEW s1 \in Segments, NEW s2 \in Segments,
                      NEW i \in 1..ValidCount(files[s1]), NEW j \in 1..ValidCount(files[s2]),
                      files[s1][i * RecLen].rec = files[s2][j * RecLen].rec
               PROVE  s1 = s2 /\ i = j
    BY DEF SequencesUnique
  <2>1. ASSUME NEW s \in Segments, NEW k \in 1..ValidCount(files[s])
        PROVE  k \in 1..Count(s) /\ Rec(s, k) = files[s][k * RecLen].rec
    <3>1. files[s] \in Seq(Cells) /\ StreamOf(s) \in Seq(Cells) /\ Begins(files[s], StreamOf(s))
      BY StreamOfTypes, WalTypes
    <3>2. k \in 1..ValidCount(StreamOf(s)) /\ files[s][k * RecLen] = StreamOf(s)[k * RecLen]
      BY <2>1, <3>1, PrefixCount
    <3> QED BY <3>2 DEF Count, Rec
  <2>2. i \in 1..Count(s1) /\ j \in 1..Count(s2) /\ Rec(s1, i) = Rec(s2, j)
    BY <2>1
  <2> QED BY <2>2 DEF UniqueInv
<1> QED BY <1>1, <1>2, <1>3, TypesHold, PTL DEF Spec

-----------------------------------------------------------------------------
(* Whole records and torn tails.                                           *)

LEMMA EmptyTidy == Tidy(<<>>) /\ ValidCount(<<>>) = 0
<1>1. <<>> \in Seq(Cells) /\ Len(<<>>) = 0
  BY EmptySeq
<1>2. ValidCount(<<>>) \in Nat /\ 3 * ValidCount(<<>>) <= Len(<<>>)
  BY <1>1, CountIs
<1> QED BY <1>1, <1>2 DEF Tidy, RecLen

\* Between whole records x may be cut.
LEMMA TidyCut ==
  ASSUME NEW x \in Seq(Cells), Tidy(x)
  PROVE  CutAt(x, Len(x)) /\ Sane(x)
<1>1. /\ ValidCount(x) \in Nat /\ Len(x) \in Nat
      /\ \A i \in 1..ValidCount(x) : IsRecord(x, i)
  BY CountIs
<1>2. Len(x) = 3 * ValidCount(x)
  BY DEF Tidy, RecLen
<1>3. CASE ValidCount(x) = 0
  BY <1>2, <1>3 DEF CutAt, Sane
<1>4. CASE ValidCount(x) # 0
  <2>1. IsRecord(x, ValidCount(x))
    BY <1>1, <1>4
  <2> QED BY <1>2, <2>1 DEF IsRecord, CutAt, Sane
<1> QED BY <1>3, <1>4

\* One more whole record.
LEMMA TidyGrow ==
  ASSUME NEW x \in Seq(Cells), NEW r \in 1..MaxSeq, Tidy(x)
  PROVE  /\ Tidy(x \o Encode(r)) /\ x \o Encode(r) \in Seq(Cells)
         /\ x \o Encode(r) # <<>> /\ (x \o Encode(r))[Len(x \o Encode(r))].rec = r
<1>1. PICK e, z, m, v : e = Encode(r) /\ z = x \o e /\ m = Len(x) /\ v = ValidCount(x)
  OBVIOUS
<1>2. e \in Seq(Cells) /\ Len(e) = 3 /\ \A p \in 1..3 : e[p] = [rec |-> r, part |-> p]
  BY <1>1, EncodeCells
<1>3. /\ x \o e \in Seq(Cells) /\ Len(x \o e) = Len(x) + Len(e)
      /\ \A k \in 1..Len(x) : (x \o e)[k] = x[k]
      /\ \A p \in 1..Len(e) : (x \o e)[Len(x) + p] = e[p]
  <2>1. x \in Seq(Cells) /\ e \in Seq(Cells)
    BY <1>2
  <2> QED BY <2>1, ConcatAt
<1>4. /\ z \in Seq(Cells) /\ Len(z) = m + 3 /\ (\A k \in 1..m : z[k] = x[k])
      /\ \A p \in 1..3 : z[m + p] = [rec |-> r, part |-> p]
  BY <1>1, <1>2, <1>3
<1>5. v \in Nat /\ m \in Nat /\ m = 3 * v /\ \A i \in 1..v : IsRecord(x, i)
  BY <1>1, CountIs DEF Tidy, RecLen
<1>6. \A i \in 1..v : IsRecord(z, i)
  <2> SUFFICES ASSUME NEW i \in 1..v PROVE IsRecord(z, i)
    OBVIOUS
  <2>1. 3 * i - 2 \in 1..m /\ 3 * i - 1 \in 1..m /\ 3 * i \in 1..m
    BY <1>5
  <2>2. IsRecord(x, i)
    BY <1>5
  <2> QED BY <1>4, <2>1, <2>2 DEF IsRecord
<1>7. IsRecord(z, v + 1) /\ z[m + 3].rec = r
  <2>1. 3 * (v + 1) - 2 = m + 1 /\ 3 * (v + 1) - 1 = m + 2 /\ 3 * (v + 1) = m + 3
    BY <1>5
  <2>2. /\ z[m + 1] = [rec |-> r, part |-> 1] /\ z[m + 2] = [rec |-> r, part |-> 2]
        /\ z[m + 3] = [rec |-> r, part |-> 3]
    BY <1>4
  <2> QED BY <2>1, <2>2 DEF IsRecord
<1>8. \A i \in 1..(v + 1) : IsRecord(z, i)
  BY <1>5, <1>6, <1>7
<1>9. ValidCount(z) \in Nat /\ 3 * ValidCount(z) <= Len(z) /\ v + 1 <= ValidCount(z)
  <2>1. v + 1 \in Nat /\ 3 * (v + 1) <= Len(z)
    BY <1>4, <1>5
  <2>2. /\ ValidCount(z) \in Nat /\ 3 * ValidCount(z) <= Len(z)
        /\ \A n \in Nat : 3 * n <= Len(z) /\ (\A i \in 1..n : IsRecord(z, i)) => n <= ValidCount(z)
    BY <1>4, CountIs
  <2> QED BY <1>8, <2>1, <2>2
<1>10. Len(z) = 3 * ValidCount(z)
  <2>1. PICK c, l : c = ValidCount(z) /\ l = Len(z)
    OBVIOUS
  <2>2. c \in Nat /\ v \in Nat /\ 3 * c <= l /\ v + 1 <= c /\ l = 3 * v + 3
    BY <1>4, <1>5, <1>9, <2>1
  <2>3. l = 3 * c
    BY ONLY <2>2
  <2> QED BY <2>1, <2>3
<1>11. z # <<>>
  BY <1>4, <1>5
<1> QED BY <1>1, <1>4, <1>7, <1>10, <1>11 DEF Tidy, RecLen

\* A first part that does not end after the first cell of a record.
LEMMA SanePrefix ==
  ASSUME NEW x \in Seq(Cells), NEW y \in Seq(Cells), Begins(x, y), Sane(y), CutAt(x, Len(x))
  PROVE  Sane(x)
<1>1. PICK c, v, n, l : c = ValidCount(x) /\ v = ValidCount(y) /\ n = Len(x) /\ l = Len(y)
  OBVIOUS
<1>2. /\ c \in Nat /\ v \in Nat /\ n \in Nat /\ l \in Nat /\ 3 * c <= n /\ 3 * v <= l
      /\ \A i \in 1..v : IsRecord(y, i)
  BY <1>1, CountIs
<1>3. \A k \in Nat : k <= c <=> 3 * k <= n /\ k <= v
  BY <1>1, PrefixCount
<1>4. n <= l /\ \A k \in 1..n : x[k] = y[k]
  BY <1>1 DEF Begins
<1>5. n = 0 \/ x[n].part # 1
  BY <1>1 DEF CutAt
<1>6. l = 3 * v \/ (l = 3 * v + 2 /\ y[l - 1].part = 1 /\ y[l].part = 2)
  BY <1>1 DEF Sane, Tidy, RecLen
<1>7. c <= v /\ n - 3 * c \in Nat
  BY <1>2, <1>3
<1>8. CASE c = v
  <2>1. n = 3 * c \/ n = 3 * c + 1 \/ n = 3 * c + 2
    <3>1. l <= 3 * v + 2 /\ n <= l
      BY <1>2, <1>4, <1>6
    <3>2. n <= 3 * c + 2 /\ 3 * c <= n /\ n \in Nat /\ c \in Nat
      BY <1>2, <1>8, <3>1
    <3> QED BY ONLY <3>2
  <2>2. n # 3 * c + 1
    <3> SUFFICES ASSUME n = 3 * c + 1 PROVE FALSE
      OBVIOUS
    <3>1. l = 3 * v + 2 /\ n = l - 1 /\ n \in 1..n
      BY <1>2, <1>4, <1>6, <1>8
    <3>2. x[n] = y[n] /\ y[n].part = 1
      BY <1>2, <1>4, <1>6, <1>8, <3>1
    <3> QED BY <1>2, <1>5, <3>2
  <2>3. ASSUME n = 3 * c + 2 PROVE x[n - 1].part = 1 /\ x[n].part = 2
    <3>1. l = 3 * v + 2 /\ n = l /\ n \in 1..n /\ n - 1 \in 1..n
      BY <1>2, <1>4, <1>6, <1>8, <2>3
    <3>2. y[l - 1].part = 1 /\ y[l].part = 2
      BY <1>2, <1>6, <3>1
    <3> QED BY <1>4, <3>1, <3>2
  <2> QED BY <1>1, <2>1, <2>2, <2>3 DEF Sane, Tidy, RecLen
<1>9. CASE c < v
  <2>1. PICK k : k = c + 1
    OBVIOUS
  <2>2. k \in 1..v /\ k \in Nat /\ ~(k <= c) /\ k <= v /\ 3 * k > n
    BY <1>2, <1>3, <1>9, <2>1
  <2>3. IsRecord(y, k)
    BY <1>2, <2>2
  <2>4. n = 3 * k - 3 \/ n = 3 * k - 2 \/ n = 3 * k - 1
    BY <1>2, <2>1, <2>2
  <2>5. n # 3 * k - 2
    <3> SUFFICES ASSUME n = 3 * k - 2 PROVE FALSE
      OBVIOUS
    <3>1. n \in 1..n /\ n # 0
      BY <1>2, <2>2
    <3>2. x[n].part = 1
      BY <1>4, <2>3, <3>1 DEF IsRecord
    <3> QED BY <1>5, <3>1, <3>2
  <2>6. ASSUME n = 3 * k - 1 PROVE n = 3 * c + 2 /\ x[n - 1].part = 1 /\ x[n].part = 2
    <3>1. n \in 1..n /\ n - 1 \in 1..n /\ n - 1 = 3 * k - 2 /\ n = 3 * c + 2
      BY <1>2, <2>1, <2>2, <2>6
    <3>2. y[n - 1].part = 1 /\ y[n].part = 2
      BY <2>3, <2>6, <3>1 DEF IsRecord
    <3> QED BY <1>4, <3>1, <3>2
  <2>7. ASSUME n = 3 * k - 3 PROVE n = 3 * c
    BY <1>2, <2>1, <2>7
  <2> QED BY <1>1, <2>4, <2>5, <2>6, <2>7 DEF Sane, Tidy, RecLen
<1> QED BY <1>2, <1>7, <1>8, <1>9

\* What decode says at the end of whole records, and at a torn one.
LEMMA TailIs ==
  ASSUME NEW x \in Seq(Cells), Sane(x)
  PROVE  TailOutcomes(x) = IF Tidy(x) THEN {"eof"} ELSE {"torn"}
<1>1. PICK v, l, rest : v = ValidCount(x) /\ l = Len(x) /\ rest = SubSeq(x, v * 3 + 1, l)
  OBVIOUS
<1>2. v \in Nat /\ l \in Nat /\ 3 * v <= l
  BY <1>1, CountIs
<1>3. l = 3 * v \/ (l = 3 * v + 2 /\ x[l - 1].part = 1 /\ x[l].part = 2)
  BY <1>1 DEF Sane, Tidy, RecLen
<1>4. /\ rest \in Seq(Cells) /\ Len(rest) = l - 3 * v
      /\ \A k \in 1..(l - 3 * v) : rest[k] = x[3 * v + k]
  <2>1. 3 * v \in 0..Len(x) /\ v * 3 = 3 * v
    BY <1>1, <1>2
  <2>2. /\ SubSeq(x, 3 * v + 1, Len(x)) \in Seq(Cells)
        /\ Len(SubSeq(x, 3 * v + 1, Len(x))) = Len(x) - 3 * v
        /\ \A k \in 1..(Len(x) - 3 * v) : SubSeq(x, 3 * v + 1, Len(x))[k] = x[3 * v + k]
    BY <2>1, SuffixAt
  <2> QED BY <1>1, <2>1, <2>2
<1>5. TailOutcomes(x) = IF Len(rest) <= 1 THEN {"eof"}
                        ELSE IF [i \in 1..2 |-> rest[i].part] # <<1, 2>> THEN {"corrupt"}
                        ELSE IF Len(rest) = 2 THEN {"torn"}
                        ELSE {"torn", "corrupt"}
  BY <1>1 DEF TailOutcomes, RecLen
<1>6. CASE l = 3 * v
  <2>1. Len(rest) = 0 /\ Tidy(x)
    BY <1>1, <1>2, <1>4, <1>6 DEF Tidy, RecLen
  <2> QED BY <1>5, <2>1
<1>7. CASE l = 3 * v + 2 /\ x[l - 1].part = 1 /\ x[l].part = 2
  <2>1. Len(rest) = 2 /\ ~Tidy(x)
    <3>1. Len(rest) = 2 /\ Len(x) # 3 * v
      <4>1. v \in Nat /\ l = 3 * v + 2 /\ Len(rest) = l - 3 * v /\ Len(x) = l
        BY <1>1, <1>2, <1>4, <1>7
      <4> QED BY ONLY <4>1
    <3> QED BY <1>1, <3>1 DEF Tidy, RecLen
  <2>2. rest[1] = x[l - 1] /\ rest[2] = x[l]
    <3>1. rest[1] = x[3 * v + 1] /\ rest[2] = x[3 * v + 2]
      BY <1>2, <1>4, <1>7
    <3>2. 3 * v + 1 = l - 1 /\ 3 * v + 2 = l
      BY <1>2, <1>7
    <3> QED BY <3>1, <3>2
  <2>3. [i \in 1..2 |-> rest[i].part] = <<1, 2>>
    <3>1. rest[1].part = 1 /\ rest[2].part = 2
      BY <1>7, <2>2
    <3> QED BY <3>1
  <2> QED BY <1>5, <2>1, <2>3
<1> QED BY <1>3, <1>6, <1>7

\* With CleanWrites, write_all and its error returns add a whole record or
\* nothing, and a file ends where a cut may be.
LEMMA CleanWriteEffect ==
  ASSUME CleanWrites, TypeInv, nova_fault # "partial_write", NEW t \in Threads, Writing(t),
         NEW S, S = Stream, NEW Z, Z = S \o Encode(seqOf[t])
  PROVE  /\ Stream' = S \/ Stream' = Z
         /\ \/ FileLen' = FileLen \/ FileLen' = Len(S) \/ FileLen' = Len(Stream')
            \/ FileLen' # 0 /\ Stream'[FileLen'].part # 1
         /\ \/ pc' = [pc EXCEPT ![t] = "idle"]
            \/ /\ pc' = [pc EXCEPT ![t] = "sync"] /\ Stream' = Z
               /\ sync_mode = "Always" => buf' = <<>>
<1>1. /\ writerSeg \in Segments /\ seqOf[t] \in 1..MaxSeq /\ writerSeg' = writerSeg
  BY WriteEffect DEF Writing
<1>2. PICK e, L, M : e = Encode(seqOf[t]) /\ L = Len(S) /\ M = FileLen
  OBVIOUS
<1>3. S \in Seq(Cells) /\ L \in Nat /\ M \in Nat /\ M <= L
  BY <1>1, <1>2, StreamTypes
<1>4. e \in Seq(Cells) /\ Len(e) = 3
  BY <1>1, <1>2, EncodeCells
<1>5. Z \in Seq(Cells) /\ Len(Z) = L + 3
  <2>1. S \o e \in Seq(Cells) /\ Len(S \o e) = Len(S) + Len(e)
    BY <1>3, <1>4, BeginsConcat
  <2> QED BY <1>2, <1>4, <2>1
<1>6. ASSUME NEW z \in Seq(Cells), NEW n \in 0..Len(z), Put(z, n)
      PROVE  Stream' = z /\ FileLen' = n
  <2>1. Len(files'[writerSeg]) = n /\ Stream' = z
    BY <1>1, <1>6, PutEffect
  <2> QED BY <1>1, <2>1 DEF FileLen
<1>7. \A c \in TornCuts \cup {3} : c # 1
  BY DEF CleanWrites
<1>8. CASE Write(t)
  <2>1. PICK n : n = WrittenThrough
    OBVIOUS
  <2>2. n \in {M, L, L + 3} /\ (sync_mode = "Always" => n = L + 3)
    BY <1>2, <2>1 DEF WrittenThrough, RecLen
  <2>3. Put(Z, n) /\ n \in 0..Len(Z)
    BY <1>2, <1>3, <1>5, <1>8, <2>1, <2>2 DEF Write
  <2>4. Stream' = Z /\ FileLen' = n
    BY <1>5, <1>6, <2>3
  <2>5. sync_mode = "Always" => buf' = <<>>
    <3> SUFFICES ASSUME sync_mode = "Always" PROVE buf' = <<>>
      OBVIOUS
    <3>1. buf' = SubSeq(Z, L + 3 + 1, L + 3)
      BY <1>5, <2>2, <2>3 DEF Put
    <3>2. L + 3 \in 0..Len(Z) /\ L + 3 = Len(Z)
      BY <1>3, <1>5
    <3>3. SubSeq(Z, L + 3 + 1, Len(Z)) \in Seq(Cells) /\ Len(SubSeq(Z, L + 3 + 1, Len(Z))) = Len(Z) - (L + 3)
      BY <1>5, <3>2, SuffixAt
    <3>4. buf' \in Seq(Cells) /\ Len(buf') = 0
      BY <1>3, <1>5, <3>1, <3>3
    <3> QED BY <3>4, EmptySeq
  <2>6. pc' = [pc EXCEPT ![t] = "sync"]
    BY <1>8 DEF Write, Goto
  <2> QED BY <1>2, <1>5, <2>2, <2>4, <2>5, <2>6
<1>9. CASE PartialWrite(t)
  BY <1>9 DEF PartialWrite
<1>10. CASE WriteFails(t)
  <2>0. pc' = [pc EXCEPT ![t] = "idle"]
    BY <1>10 DEF WriteFails, Goto
  <2>1. CASE UNCHANGED <<files, buf>>
    BY <1>1, <2>0, <2>1 DEF Stream, FileLen
  <2>2. ASSUME NEW z \in Seq(Cells), z = S \/ z = Z, NEW m \in 0..Len(z), m = M \/ m = L,
               NEW n \in Cuts(z, m), Put(z, n)
        PROVE  /\ Stream' = S \/ Stream' = Z
               /\ \/ FileLen' = FileLen \/ FileLen' = Len(S) \/ FileLen' = Len(Stream')
                  \/ FileLen' # 0 /\ Stream'[FileLen'].part # 1
    <3>1. n \in 0..Len(z) /\ (n = m \/ n = Len(z) \/ (n # 0 /\ z[n].part \in TornCuts \cup {3}))
      BY <2>2, CutsIn
    <3>2. Stream' = z /\ FileLen' = n
      BY <1>6, <2>2, <3>1
    <3> QED BY <1>2, <1>7, <2>2, <3>1, <3>2
  <2>3. CASE \E n \in ShortWrites(Stream, FileLen) : Put(Stream, n)
    <3>1. PICK n \in Cuts(S, M) : Put(S, n)
      BY <1>2, <2>3 DEF ShortWrites
    <3>2. M \in 0..Len(S)
      BY <1>2, <1>3
    <3> QED BY <1>3, <2>0, <2>2, <3>1, <3>2
  <2>4. CASE \E n \in ShortWrites(Z, IF Overflows THEN Len(Stream) ELSE FileLen) : Put(Z, n)
    <3>1. PICK m : m = IF Overflows THEN L ELSE M
      OBVIOUS
    <3>2. PICK n \in Cuts(Z, m) : Put(Z, n)
      BY <1>2, <2>4, <3>1 DEF ShortWrites
    <3>3. m \in 0..Len(Z) /\ (m = L \/ m = M)
      BY <1>3, <1>5, <3>1
    <3> QED BY <1>5, <2>0, <2>2, <3>2, <3>3
  <2>5. "write" \in IoErrors => ~Direct
    BY DEF CleanWrites
  <2> QED BY <1>10, <2>1, <2>3, <2>4, <2>5 DEF WriteFails
<1> QED BY <1>8, <1>9, <1>10 DEF Writing

LEMMA TidyInit == Init => TidyInv
<1> SUFFICES ASSUME Init PROVE TidyInv
  OBVIOUS
<1>1. Segments = {} /\ status = "down" /\ nova_fault = "none"
  BY DEF Init, Segments
<1> QED BY <1>1 DEF TidyInv

\* The parts of TidyInv from the files.
LEMMA TidyFrom ==
  ASSUME TypeInv', status' # "corrupt", nova_fault' # "partial_write",
         \A s \in Segments' \ {writerSeg'} : Tidy(files'[s]),
         NEW S, S = Stream', NEW f, f = files'[writerSeg'],
         writerSeg' \in Segments' =>
            /\ Sane(S) /\ (Torn' \/ Tidy(S)) /\ CutAt(f, Len(f)) /\ CutAt(f, synced'[writerSeg'])
  PROVE  TidyInv'
<1>1. FileLen' = Len(f)
  BY DEF FileLen
<1> QED BY <1>1 DEF TidyInv

LEMMA TidyStep ==
  ASSUME CleanWrites, TypeInv, TypeInv', TidyInv, [Next]_vars
  PROVE  TidyInv'
<1>0. /\ status # "corrupt" /\ nova_fault # "partial_write"
      /\ \A s \in Segments \ {writerSeg} : Tidy(files[s])
      /\ \A c \in TornCuts \cup {3} : c # 1
  BY DEF TidyInv, CleanWrites
\* The segment being written.
<1>1. PICK w, S, f, m : w = writerSeg /\ S = Stream /\ f = files[w] /\ m = synced[w]
  OBVIOUS
<1>2. ASSUME w \in Segments
      PROVE  /\ S \in Seq(Cells) /\ f \in Seq(Cells) /\ Len(S) \in Nat /\ Len(f) \in Nat
             /\ m \in 0..Len(f) /\ Begins(f, S) /\ Len(f) <= Len(S) /\ FileLen = Len(f)
             /\ Sane(S) /\ (Torn \/ Tidy(S)) /\ CutAt(f, Len(f)) /\ CutAt(f, m)
  <2>1. /\ S \in Seq(Cells) /\ f \in Seq(Cells) /\ Len(S) \in Nat /\ Len(f) \in Nat
        /\ m \in 0..Len(f) /\ Begins(f, S) /\ Len(f) <= Len(S) /\ FileLen = Len(f)
    BY <1>1, <1>2, StreamTypes, WalTypes DEF FileLen
  <2>2. Sane(S) /\ (Torn \/ Tidy(S)) /\ CutAt(f, Len(f)) /\ CutAt(f, m)
    BY <1>1, <1>2 DEF TidyInv, FileLen
  <2> QED BY <2>1, <2>2
<1>3. ASSUME status = "up" PROVE w \in Segments /\ Tidy(S)
  <2>1. w \in Segments /\ ~Torn
    BY <1>1, <1>3 DEF TypeInv, TypeOK, Torn
  <2> QED BY <1>2, <2>1
\* A cut of a longer file where the shorter could be cut.
<1>4. ASSUME NEW x \in Seq(Cells), NEW y \in Seq(Cells), Begins(x, y), NEW n \in 0..Len(x), CutAt(x, n)
      PROVE  CutAt(y, n)
  <2>1. Len(x) \in Nat
    BY <1>4, LenProperties
  <2> QED BY <1>4, <2>1 DEF CutAt, Begins
<1>5. ASSUME NEW t \in Threads, NextSequence(t) \/ CheckSize(t) \/ SyncFails(t) PROVE TidyInv'
  <2>1. UNCHANGED <<files, synced, writerSeg, buf, status, nova_fault, recTodo>>
    BY <1>5 DEF NextSequence, CheckSize, SyncFails, disk, writer, settings, recovery
  <2> QED BY <2>1 DEF TidyInv, Torn, Stream, FileLen, Segments
<1>6. ASSUME NEW t \in Threads, Sync(t) PROVE TidyInv'
  <2>1. /\ UNCHANGED <<files, writerSeg, buf, status, nova_fault, recTodo>>
        /\ synced' = synced \/ synced' = [synced EXCEPT ![writerSeg] = FileLen]
        /\ pc[t] = "sync"
    BY <1>6 DEF Sync, writer, settings, recovery
  <2>2. Stream' = S /\ files'[writerSeg'] = f /\ Segments' = Segments /\ w \in Segments /\ Tidy(S)
    <3>1. status = "up"
      BY <2>1 DEF TypeInv, Placed
    <3> QED BY <1>1, <1>3, <2>1, <3>1 DEF Stream, Segments
  <2>3. synced'[writerSeg'] = m \/ synced'[writerSeg'] = Len(f)
    <3>1. synced \in [Segments -> Nat]
      BY DEF TypeInv, TypeOK
    <3> QED BY <1>1, <1>2, <2>1, <2>2, <3>1
  <2>4. \A s \in Segments' \ {writerSeg'} : Tidy(files'[s])
    BY <1>0, <2>1, <2>2
  <2> QED BY <1>0, <1>2, <2>1, <2>2, <2>3, <2>4, TidyFrom
<1>7. ASSUME NEW t \in Threads, RotateFails(t) PROVE TidyInv'
  <2>1. /\ w \in Segments /\ status = "up"
        /\ Segments' = Segments /\ files' \in [Segments -> Seq(Cells)]
        /\ \A s \in Segments \ {w} : files'[s] = files[s]
        /\ Begins(f, files'[w]) /\ Stream' = S
        /\ \/ FileLen' = FileLen \/ FileLen' = Len(S)
           \/ FileLen' # 0 /\ S[FileLen'].part \in TornCuts \cup {3}
        /\ \/ synced' = synced
           \/ synced' = [synced EXCEPT ![w] = Len(S)] /\ files'[w] = S
        /\ writerSeg' = w /\ status' = status /\ nova_fault' = nova_fault
    BY <1>1, <1>7, RotateFailsEffect DEF settings
  <2>2. Tidy(S) /\ CutAt(S, Len(S)) /\ Sane(S)
    BY <1>2, <1>3, <2>1, TidyCut
  <2>3. PICK g : g = files'[w]
    OBVIOUS
  <2>4. g \in Seq(Cells) /\ Len(g) \in Nat /\ FileLen' = Len(g) /\ Begins(f, g) /\ Begins(g, S)
    <3>1. g \in Seq(Cells) /\ Len(g) \in Nat /\ FileLen' = Len(g) /\ Begins(f, g)
      BY <2>1, <2>3, LenProperties DEF FileLen
    <3>2. Begins(files'[w], StreamOf(w)')
      BY <2>1, NextStreamTypes
    <3>3. StreamOf(w)' = S
      BY <2>1 DEF StreamOf
    <3> QED BY <2>3, <3>1, <3>2, <3>3
  <2>5. CutAt(g, Len(g))
    <3>1. CASE Len(g) = Len(f)
      <4>1. Len(f) \in 0..Len(f)
        BY <1>2, <2>1
      <4> QED BY <1>2, <1>4, <2>1, <2>4, <3>1, <4>1
    <3>2. CASE Len(g) = Len(S)
      BY <2>2, <2>4, <3>2 DEF CutAt, Begins
    <3>3. CASE Len(g) # 0 /\ S[Len(g)].part \in TornCuts \cup {3}
      <4>1. Len(g) \in 1..Len(g)
        BY <2>4, <3>3
      <4> QED BY <1>0, <2>4, <3>3, <4>1 DEF CutAt, Begins
    <3> QED BY <1>2, <2>1, <2>4, <3>1, <3>2, <3>3
  <2>6. CutAt(g, synced'[w])
    <3>1. CASE synced' = synced
      BY <1>1, <1>2, <1>4, <2>1, <2>4, <3>1
    <3>2. CASE synced' = [synced EXCEPT ![w] = Len(S)] /\ files'[w] = S
      <4>1. synced'[w] = Len(S) /\ g = S
        <5>1. synced \in [Segments -> Nat]
          BY DEF TypeInv, TypeOK
        <5> QED BY <2>1, <2>3, <3>2, <5>1
      <4> QED BY <2>2, <4>1
    <3> QED BY <2>1, <3>1, <3>2
  <2>7. \A s \in Segments' \ {writerSeg'} : Tidy(files'[s])
    BY <1>0, <1>1, <2>1
  <2>8. g = files'[writerSeg'] /\ CutAt(g, synced'[writerSeg'])
    BY <2>1, <2>3, <2>6
  <2> QED BY <1>0, <2>1, <2>2, <2>5, <2>7, <2>8, TidyFrom
<1>8. ASSUME NEW t \in Threads, RotateSegment(t) PROVE TidyInv'
  <2>0. PICK n : n = current_segment_index + 1
    OBVIOUS
  <2>1. /\ w \in Segments /\ status = "up" /\ n \notin Segments /\ Segments' = Segments \cup {n}
        /\ files'[n] = <<>> /\ synced'[n] = 0 /\ files'[w] = S
        /\ \A s \in Segments \ {w} : files'[s] = files[s]
        /\ writerSeg' = n /\ Stream' = <<>> /\ status' = status /\ nova_fault' = nova_fault
    BY <1>1, <1>8, <2>0, RotateEffect DEF settings
  <2>2. Tidy(S)
    BY <1>3, <2>1
  <2>3. \A s \in Segments' \ {writerSeg'} : Tidy(files'[s])
    BY <1>0, <1>1, <2>1, <2>2
  <2>4. Len(<<>>) = 0 /\ CutAt(<<>>, 0) /\ Tidy(<<>>) /\ Sane(<<>>)
    BY EmptyTidy DEF CutAt, Sane
  <2>5. PICK e : e = <<>>
    OBVIOUS
  <2>6. e = Stream' /\ e = files'[writerSeg'] /\ Sane(e) /\ Tidy(e) /\ CutAt(e, Len(e))
        /\ CutAt(e, synced'[writerSeg'])
    BY <2>1, <2>4, <2>5
  <2> QED BY <1>0, <2>1, <2>3, <2>6, TidyFrom
<1>9. ASSUME NEW t \in Threads, Writing(t) PROVE TidyInv'
  <2>1. PICK Z, r : r = seqOf[t] /\ Z = S \o Encode(seqOf[t])
    OBVIOUS
  <2>2. /\ w \in Segments /\ status = "up" /\ r \in 1..MaxSeq
        /\ Segments' = Segments /\ files' \in [Segments -> Seq(Cells)]
        /\ \A s \in Segments \ {w} : files'[s] = files[s]
        /\ Begins(f, files'[w])
        /\ synced' = synced /\ writerSeg' = w /\ status' = status /\ nova_fault' = nova_fault
    BY <1>1, <1>9, <2>1, WriteEffect DEF settings, Writing
  <2>3. /\ Stream' = S \/ Stream' = Z
        /\ \/ FileLen' = FileLen \/ FileLen' = Len(S) \/ FileLen' = Len(Stream')
           \/ FileLen' # 0 /\ Stream'[FileLen'].part # 1
    BY <1>0, <1>1, <1>9, <2>1, CleanWriteEffect
  <2>4. Tidy(S) /\ Tidy(Z) /\ S \in Seq(Cells) /\ Z \in Seq(Cells)
    BY <1>2, <1>3, <2>1, <2>2, TidyGrow
  <2>5. PICK z, g : z = Stream' /\ g = files'[w]
    OBVIOUS
  <2>6. z \in Seq(Cells) /\ Tidy(z) /\ Sane(z) /\ CutAt(z, Len(z)) /\ CutAt(S, Len(S))
    BY <2>3, <2>4, <2>5, TidyCut
  <2>7. g \in Seq(Cells) /\ Len(g) \in Nat /\ FileLen' = Len(g) /\ Begins(f, g) /\ Begins(g, z)
    <3>1. g \in Seq(Cells) /\ Len(g) \in Nat /\ FileLen' = Len(g) /\ Begins(f, g)
      BY <2>2, <2>5, LenProperties DEF FileLen
    <3>2. Begins(files'[w], StreamOf(w)')
      BY <2>2, NextStreamTypes
    <3>3. StreamOf(w)' = z
      BY <2>2, <2>5 DEF StreamOf
    <3> QED BY <2>5, <3>1, <3>2, <3>3
  <2>8. CutAt(g, Len(g))
    <3>1. CASE Len(g) = Len(f)
      <4>1. Len(f) \in 0..Len(f)
        BY <1>2, <2>2
      <4> QED BY <1>2, <1>4, <2>2, <2>7, <3>1, <4>1
    <3>2. CASE Len(g) = Len(S)
      <4>1. Begins(S, z)
        BY <1>1, <1>9, <2>2, <2>5, WriteEffect DEF Writing
      <4>2. Len(S) \in 0..Len(S)
        BY <1>2, <2>2
      <4>3. CutAt(z, Len(g))
        BY <1>4, <2>4, <2>6, <3>2, <4>1, <4>2
      <4> QED BY <2>7, <4>3 DEF CutAt, Begins
    <3>3. CASE Len(g) = Len(z)
      BY <2>6, <2>7, <3>3 DEF CutAt, Begins
    <3>4. CASE Len(g) # 0 /\ z[Len(g)].part # 1
      <4>1. Len(g) \in 1..Len(g)
        BY <2>7, <3>4
      <4> QED BY <2>7, <3>4, <4>1 DEF CutAt, Begins
    <3> QED BY <1>2, <2>2, <2>3, <2>5, <2>7, <3>1, <3>2, <3>3, <3>4
  <2>9. CutAt(g, synced'[w])
    BY <1>1, <1>2, <1>4, <2>2, <2>7
  <2>10. \A s \in Segments' \ {writerSeg'} : Tidy(files'[s])
    BY <1>0, <1>1, <2>2
  <2>11. g = files'[writerSeg'] /\ CutAt(g, synced'[writerSeg'])
    BY <2>2, <2>5, <2>9
  <2> QED BY <1>0, <2>2, <2>5, <2>6, <2>8, <2>10, <2>11, TidyFrom
<1>10. ASSUME Halting PROVE TidyInv'
  <2>1. /\ Segments' = Segments /\ files' \in [Segments -> Seq(Cells)] /\ writerSeg' = w
        /\ \A s \in Segments \ {w} : files'[s] = files[s]
        /\ w \in Segments =>
             /\ Begins(files'[w], S)
             /\ \/ files'[w] = f /\ synced'[w] = m
                \/ /\ synced'[w] = Len(files'[w]) /\ synced'[w] \in Cuts(f, m)
                   /\ Begins(files'[w], f)
                \/ files'[w] = S /\ synced'[w] = m /\ status = "up"
        /\ status' \in {"down", "stopped"} /\ nova_fault' = nova_fault
        /\ status' = "stopped" => status = "up" /\ files'[w] = S
        /\ buf' = <<>>
    BY <1>1, <1>10, HaltEffect DEF Halting, settings
  <2>2. PICK g : g = files'[w]
    OBVIOUS
  <2>3. \A s \in Segments' \ {writerSeg'} : Tidy(files'[s])
    BY <1>0, <1>1, <2>1
  <2>4. ASSUME w \in Segments
        PROVE  g = Stream' /\ Sane(g) /\ (Torn' \/ Tidy(g)) /\ CutAt(g, Len(g)) /\ CutAt(g, synced'[w])
    <3>1. g \in Seq(Cells) /\ Len(g) \in Nat /\ Begins(g, S)
      BY <2>1, <2>2, <2>4, LenProperties
    <3>2. g = Stream'
      <4>1. g \o <<>> = g
        BY <3>1, ConcatEmptySeq
      <4> QED BY <2>1, <2>2, <4>1 DEF Stream
    <3>3. CutAt(g, Len(g)) /\ CutAt(g, synced'[w])
      <4>1. CASE g = f /\ synced'[w] = m
        BY <1>2, <2>4, <4>1
      <4>2. CASE synced'[w] = Len(g) /\ synced'[w] \in Cuts(f, m) /\ Begins(g, f)
        <5>1. PICK k : k = Len(g)
          OBVIOUS
        <5>2. k = m \/ k = Len(f) \/ (k # 0 /\ f[k].part \in TornCuts \cup {3})
          BY <1>2, <2>4, <4>2, <5>1, CutsIn
        <5>3. CutAt(f, k)
          BY <1>0, <1>2, <2>4, <5>2 DEF CutAt
        <5>4. k \in Nat /\ (k # 0 => k \in 1..Len(g) /\ g[k] = f[k])
          BY <3>1, <4>2, <5>1 DEF Begins
        <5> QED BY <4>2, <5>1, <5>3, <5>4 DEF CutAt
      <4>3. CASE g = S /\ synced'[w] = m /\ status = "up"
        BY <1>2, <1>3, <1>4, <2>4, <4>3, TidyCut
      <4> QED BY <2>1, <2>2, <2>4, <4>1, <4>2, <4>3
    <3>4. Sane(g)
      BY <1>2, <2>4, <3>1, <3>3, SanePrefix
    <3>5. Torn' \/ Tidy(g)
      BY <1>3, <2>1, <2>2 DEF Torn
    <3> QED BY <3>2, <3>3, <3>4, <3>5
  <2>5. PICK z : z = Stream'
    OBVIOUS
  <2>6. writerSeg' \in Segments' => /\ Sane(z) /\ (Torn' \/ Tidy(z)) /\ CutAt(g, Len(g))
                                    /\ CutAt(g, synced'[writerSeg'])
    BY <2>1, <2>4, <2>5
  <2>7. status' # "corrupt" /\ nova_fault' # "partial_write" /\ g = files'[writerSeg']
    BY <1>0, <2>1, <2>2
  <2> QED BY <2>3, <2>5, <2>6, <2>7, TidyFrom
<1>11. ASSUME Start PROVE TidyInv'
  <2>1. /\ UNCHANGED <<files, synced, writerSeg, buf>> /\ status' = "recovering"
        /\ recTodo' = Segments /\ nova_fault' # "partial_write"
    BY <1>11 DEF Start, disk, writer, CleanWrites
  <2>2. Stream' = S /\ files'[writerSeg'] = f /\ Segments' = Segments /\ synced'[writerSeg'] = m /\ writerSeg' = w
    BY <1>1, <2>1 DEF Stream, Segments
  <2>3. w \in Segments => Torn'
    BY <2>1, <2>2 DEF Torn
  <2>4. \A s \in Segments' \ {writerSeg'} : Tidy(files'[s])
    BY <1>0, <2>1, <2>2
  <2> QED BY <1>2, <2>1, <2>2, <2>3, <2>4, TidyFrom
<1>12. ASSUME RecoverSegment PROVE TidyInv'
  <2>1. PICK s \in recTodo :
         /\ s \in Segments /\ status = "recovering" /\ buf = <<>>
         /\ Segments' = Segments /\ files' \in [Segments -> Seq(Cells)]
         /\ \A u \in Segments \ {s} : files'[u] = files[u] /\ synced'[u] = synced[u]
         /\ ValidCount(files'[s]) = ValidCount(files[s])
         /\ \/ /\ "torn" \in TailOutcomes(files[s])
               /\ Len(files'[s]) = RecLen * ValidCount(files[s])
               /\ synced'[s] = RecLen * ValidCount(files[s])
               /\ status' = "recovering" /\ recTodo' = recTodo \ {s}
            \/ /\ "eof" \in TailOutcomes(files[s]) /\ UNCHANGED disk
               /\ status' = "recovering" /\ recTodo' = recTodo \ {s}
            \/ /\ "corrupt" \in TailOutcomes(files[s]) /\ UNCHANGED disk
               /\ status' = "corrupt" /\ recTodo' = {}
         /\ writerSeg' = w /\ buf' = <<>> /\ nova_fault' = nova_fault
    BY <1>1, <1>12, RecoverEffect DEF writer, settings
  <2>2. /\ w \in Segments /\ S = f /\ Sane(files[s]) /\ files[s] \in Seq(Cells)
        /\ (s # w => Tidy(files[s]))
    <3>1. w \in Segments
      BY <1>1, <2>1 DEF TypeInv, Placed
    <3>2. S = f
      BY <1>1, <2>1, <3>1, ClosedStreams DEF StreamOf
    <3>3. files[s] \in Seq(Cells)
      BY <2>1, WalTypes
    <3>4. CASE s = w
      BY <1>1, <1>2, <3>1, <3>2, <3>3, <3>4
    <3>5. CASE s # w
      BY <1>0, <1>1, <2>1, <3>1, <3>2, <3>3, <3>5, TidyCut
    <3> QED BY <3>4, <3>5
  <2>3. TailOutcomes(files[s]) = IF Tidy(files[s]) THEN {"eof"} ELSE {"torn"}
    BY <2>2, TailIs
  <2>4. status' = "recovering" /\ recTodo' = recTodo \ {s} /\ Tidy(files'[s])
    <3>1. CASE Tidy(files[s])
      BY <2>1, <2>3, <3>1 DEF disk
    <3>2. CASE ~Tidy(files[s])
      BY <2>1, <2>3, <3>2 DEF Tidy
    <3> QED BY <3>1, <3>2
  <2>5. \A u \in Segments' \ {writerSeg'} : Tidy(files'[u])
    BY <1>0, <1>1, <2>1, <2>4
  <2>6. PICK g : g = files'[w]
    OBVIOUS
  <2>7. g \in Seq(Cells) /\ g = Stream'
    <3>1. g \in Seq(Cells)
      BY <2>1, <2>2, <2>6
    <3>2. g \o <<>> = g
      BY <3>1, ConcatEmptySeq
    <3> QED BY <2>1, <2>6, <3>1, <3>2 DEF Stream
  <2>8. Sane(g) /\ (Torn' \/ Tidy(g)) /\ CutAt(g, Len(g)) /\ CutAt(g, synced'[w])
    <3>1. CASE s = w
      <4>1. Tidy(g) /\ Sane(g) /\ CutAt(g, Len(g))
        BY <2>4, <2>6, <2>7, <3>1, TidyCut
      <4>2. CutAt(g, synced'[w])
        <5>1. CASE UNCHANGED disk
          BY <1>1, <1>2, <2>2, <2>6, <5>1 DEF disk
        <5>2. CASE Len(files'[s]) = RecLen * ValidCount(files[s]) /\ synced'[s] = RecLen * ValidCount(files[s])
          BY <2>6, <3>1, <4>1, <5>2
        <5> QED BY <2>1, <5>1, <5>2
      <4> QED BY <4>1, <4>2
    <3>2. CASE s # w
      <4>1. g = f /\ synced'[w] = m
        BY <1>1, <2>1, <2>2, <2>6, <3>2
      <4>2. Torn => Torn'
        BY <1>1, <2>1, <2>4, <3>2 DEF Torn
      <4> QED BY <1>2, <2>2, <4>1, <4>2
    <3> QED BY <3>1, <3>2
  <2>9. g = files'[writerSeg'] /\ CutAt(g, synced'[writerSeg'])
    BY <2>1, <2>6, <2>8
  <2> QED BY <1>0, <2>1, <2>4, <2>5, <2>7, <2>8, <2>9, TidyFrom
<1>13. ASSUME Open PROVE TidyInv'
  <2>1. /\ \/ /\ Segments # {} /\ files' = files /\ synced' = synced /\ writerSeg' = w
           \/ /\ Segments = {} /\ writerSeg' = 0
              /\ files' = [u \in {0} |-> <<>>] /\ synced' = [u \in {0} |-> 0]
        /\ status = "recovering" /\ recTodo = {} /\ status' = "up"
        /\ buf' = <<>> /\ buf = <<>> /\ nova_fault' = nova_fault
    BY <1>1, <1>13, OpenEffect DEF settings
  <2>2. CASE Segments # {} /\ files' = files /\ synced' = synced /\ writerSeg' = w
    <3>1. w \in Segments /\ ~Torn
      BY <1>1, <2>1, <2>2 DEF TypeInv, Placed, Torn
    <3>2. Stream' = S /\ files'[writerSeg'] = f /\ Segments' = Segments /\ synced'[writerSeg'] = m
      BY <1>1, <2>1, <2>2 DEF Stream, Segments
    <3>3. \A s \in Segments' \ {writerSeg'} : Tidy(files'[s])
      BY <1>0, <1>1, <2>2, <3>2
    <3> QED BY <1>0, <1>2, <2>1, <3>1, <3>2, <3>3, TidyFrom
  <2>3. CASE /\ writerSeg' = 0
             /\ files' = [u \in {0} |-> <<>>] /\ synced' = [u \in {0} |-> 0]
    <3>1. Segments' = {0} /\ files'[0] = <<>> /\ synced'[0] = 0
      BY <2>3 DEF Segments
    <3>2. <<>> \o <<>> = <<>>
      BY EmptySeq, ConcatEmptySeq
    <3>3. PICK e : e = <<>>
      OBVIOUS
    <3>4. Len(<<>>) = 0 /\ CutAt(<<>>, 0) /\ Tidy(<<>>) /\ Sane(<<>>)
      BY EmptyTidy DEF CutAt, Sane
    <3>5. e = Stream' /\ e = files'[writerSeg'] /\ Sane(e) /\ Tidy(e) /\ CutAt(e, Len(e))
          /\ CutAt(e, synced'[writerSeg'])
      BY <2>1, <2>3, <3>1, <3>2, <3>3, <3>4 DEF Stream
    <3>6. \A s \in Segments' \ {writerSeg'} : Tidy(files'[s])
      BY <2>3, <3>1
    <3> QED BY <1>0, <2>1, <3>5, <3>6, TidyFrom
  <2> QED BY <2>1, <2>2, <2>3
<1>14. ASSUME UNCHANGED vars PROVE TidyInv'
  BY <1>14 DEF vars, disk, writer, settings, recovery, TidyInv, Torn, Stream, FileLen, Segments
<1>15. ASSUME RecoverFails PROVE TidyInv'
  <2>1. /\ status = "recovering" /\ buf = <<>> /\ status' = "failed" /\ recTodo' = {}
        /\ Segments' = Segments /\ files' \in [Segments -> Seq(Cells)]
        /\ \A u \in Segments :
              /\ ValidCount(files'[u]) = ValidCount(files[u])
              /\ \/ files'[u] = files[u] /\ synced'[u] = synced[u]
                 \/ /\ Len(files'[u]) = RecLen * ValidCount(files[u])
                    /\ synced'[u] \in {synced[u], Len(files'[u])}
              /\ synced'[u] <= Len(files'[u]) /\ Begins(files'[u], files[u])
        /\ writerSeg' = w /\ buf' = <<>> /\ nova_fault' = nova_fault
    BY <1>1, <1>15, RecoverFailsEffect DEF writer, settings
  <2>2. \A u \in Segments' \ {writerSeg'} : Tidy(files'[u])
    BY <1>0, <1>1, <2>1 DEF Tidy
  <2>3. PICK g : g = files'[w]
    OBVIOUS
  <2>4. ASSUME w \in Segments
        PROVE  g = Stream' /\ Sane(g) /\ CutAt(g, Len(g)) /\ CutAt(g, synced'[w])
    <3>1. g \in Seq(Cells) /\ g \o <<>> = g
      BY <2>1, <2>3, <2>4, ConcatEmptySeq
    <3>2. g = Stream'
      BY <2>1, <2>3, <3>1 DEF Stream
    <3>3. S = f
      BY <1>1, <2>1, <2>4, ClosedStreams DEF StreamOf
    <3>4. CASE g = f /\ synced'[w] = m
      BY <1>2, <2>4, <3>2, <3>3, <3>4
    <3>5. CASE Len(g) = RecLen * ValidCount(f) /\ synced'[w] \in {m, Len(g)}
      <4>1. Tidy(g)
        BY <1>1, <2>1, <2>3, <2>4, <3>5 DEF Tidy
      <4>2. Sane(g) /\ CutAt(g, Len(g))
        BY <3>1, <4>1, TidyCut
      <4>3. CASE synced'[w] = m
        <5>1. CutAt(f, m) /\ Begins(g, f) /\ m <= Len(g) /\ m \in Nat
          BY <1>1, <1>2, <2>1, <2>3, <2>4, <4>3, WalTypes
        <5>2. m = 0 \/ (m \in 1..Len(g) /\ g[m] = f[m])
          BY <3>1, <5>1, LenProperties DEF Begins
        <5> QED BY <3>2, <4>2, <4>3, <5>1, <5>2 DEF CutAt
      <4> QED BY <3>2, <3>5, <4>2, <4>3
    <3> QED BY <1>1, <2>1, <2>3, <2>4, <3>4, <3>5
  <2>5. Torn'
    BY <2>1 DEF Torn
  <2>6. PICK z : z = Stream'
    OBVIOUS
  <2>7. writerSeg' \in Segments' => /\ Sane(z) /\ (Torn' \/ Tidy(z)) /\ CutAt(g, Len(g))
                                    /\ CutAt(g, synced'[writerSeg'])
    BY <2>1, <2>4, <2>5, <2>6
  <2>8. status' # "corrupt" /\ nova_fault' # "partial_write" /\ g = files'[writerSeg']
    BY <1>0, <2>1, <2>3
  <2> QED BY <2>2, <2>6, <2>7, <2>8, TidyFrom
<1> QED BY <1>5, <1>6, <1>7, <1>8, <1>9, <1>10, <1>11, <1>12, <1>13, <1>14, <1>15
        DEF Next, AppendStep, Writing, Halting

-----------------------------------------------------------------------------
(* What recovery reports as corrupt.                                       *)

\* Every cell begins a record or continues the one in front of it.
Runs(x) ==
  \A k \in 1..Len(x) : \/ x[k].part = 1
                       \/ /\ k > 1 /\ x[k].part = x[k - 1].part + 1 /\ x[k].rec = x[k - 1].rec

RunsInv ==
  /\ \A s \in Segments : Runs(StreamOf(s))
  /\ CorruptOnlyBuried

LEMMA RunsPrefix ==
  ASSUME NEW x \in Seq(Cells), NEW y \in Seq(Cells), Begins(x, y), Runs(y)
  PROVE  Runs(x)
<1>1. Len(x) \in Nat /\ Len(y) \in Nat /\ Len(x) <= Len(y) /\ \A k \in 1..Len(x) : x[k] = y[k]
  BY LenProperties DEF Begins
<1> SUFFICES ASSUME NEW k \in 1..Len(x)
             PROVE  \/ x[k].part = 1
                    \/ /\ k > 1 /\ x[k].part = x[k - 1].part + 1 /\ x[k].rec = x[k - 1].rec
  BY DEF Runs
<1>2. /\ k \in 1..Len(y) /\ x[k] = y[k]
      /\ k > 1 => k - 1 \in 1..Len(x)
  BY <1>1
<1> QED BY <1>1, <1>2 DEF Runs

LEMMA RunsGrow ==
  ASSUME NEW x \in Seq(Cells), NEW r \in 1..MaxSeq, Runs(x)
  PROVE  x \o Encode(r) \in Seq(Cells) /\ Runs(x \o Encode(r))
<1>1. PICK e, z, m : e = Encode(r) /\ z = x \o e /\ m = Len(x)
  OBVIOUS
<1>2. e \in Seq(Cells) /\ Len(e) = 3 /\ \A p \in 1..3 : e[p] = [rec |-> r, part |-> p]
  BY <1>1, EncodeCells
<1>3. /\ x \o e \in Seq(Cells) /\ Len(x \o e) = Len(x) + Len(e) /\ Len(x) \in Nat
      /\ \A k \in 1..Len(x) : (x \o e)[k] = x[k]
      /\ \A p \in 1..Len(e) : (x \o e)[Len(x) + p] = e[p]
  <2>1. x \in Seq(Cells) /\ e \in Seq(Cells)
    BY <1>2
  <2> QED BY <2>1, ConcatAt
<1>4. /\ z \in Seq(Cells) /\ m \in Nat /\ Len(z) = m + 3 /\ (\A k \in 1..m : z[k] = x[k])
      /\ \A p \in 1..3 : z[m + p] = [rec |-> r, part |-> p]
  BY <1>1, <1>2, <1>3
<1>5. ASSUME NEW k \in 1..(m + 3)
      PROVE  \/ z[k].part = 1
             \/ /\ k > 1 /\ z[k].part = z[k - 1].part + 1 /\ z[k].rec = z[k - 1].rec
  <2>1. CASE k <= m
    <3>1. k \in 1..m /\ (k > 1 => k - 1 \in 1..m)
      BY <1>4, <2>1
    <3> QED BY <1>1, <1>4, <3>1 DEF Runs
  <2>2. CASE k > m
    <3>1. PICK p : p = k - m
      OBVIOUS
    <3>2. p \in 1..3 /\ k = m + p /\ (p > 1 => p - 1 \in 1..3 /\ k - 1 = m + (p - 1) /\ k > 1)
      BY <1>4, <2>2, <3>1
    <3>3. z[k].part = p /\ z[k].rec = r
      <4>1. z[k] = [rec |-> r, part |-> p]
        BY <1>4, <3>2
      <4> QED BY <4>1
    <3>4. p > 1 => z[k - 1].part = p - 1 /\ z[k - 1].rec = r
      BY <1>4, <3>2
    <3>5. p = 1 \/ (p > 1 /\ p = (p - 1) + 1)
      BY <3>2
    <3> QED BY <3>2, <3>3, <3>4, <3>5
  <2> QED BY <1>4, <2>1, <2>2
<1> QED BY <1>1, <1>4, <1>5 DEF Runs

\* In a segment made of first parts of records, the place where decoding stops
\* is the end, or an unfinished record with another one right behind it.
LEMMA CorruptTail ==
  ASSUME NEW x \in Seq(Cells), Runs(x), "corrupt" \in TailOutcomes(x)
  PROVE  Buried(x)
<1>1. PICK v, l, rest : v = ValidCount(x) /\ l = Len(x) /\ rest = SubSeq(x, v * 3 + 1, l)
  OBVIOUS
<1>2. v \in Nat /\ l \in Nat /\ 3 * v <= l /\ \A i \in 1..v : IsRecord(x, i)
  BY <1>1, CountIs
<1>3. /\ rest \in Seq(Cells) /\ Len(rest) = l - 3 * v
      /\ \A k \in 1..(l - 3 * v) : rest[k] = x[3 * v + k]
  <2>1. 3 * v \in 0..Len(x) /\ v * 3 = 3 * v
    BY <1>1, <1>2
  <2>2. /\ SubSeq(x, 3 * v + 1, Len(x)) \in Seq(Cells)
        /\ Len(SubSeq(x, 3 * v + 1, Len(x))) = Len(x) - 3 * v
        /\ \A k \in 1..(Len(x) - 3 * v) : SubSeq(x, 3 * v + 1, Len(x))[k] = x[3 * v + k]
    BY <2>1, SuffixAt
  <2> QED BY <1>1, <2>1, <2>2
<1>4. TailOutcomes(x) = IF Len(rest) <= 1 THEN {"eof"}
                        ELSE IF [i \in 1..2 |-> rest[i].part] # <<1, 2>> THEN {"corrupt"}
                        ELSE IF Len(rest) = 2 THEN {"torn"}
                        ELSE {"torn", "corrupt"}
  BY <1>1 DEF TailOutcomes, RecLen
<1>5. PICK m : m = 3 * v
  OBVIOUS
<1>6. m \in Nat /\ m + 2 <= l /\ m + 1 \in 1..l /\ m + 2 \in 1..l
  <2>1. ~(Len(rest) <= 1)
    BY <1>4
  <2> QED BY <1>2, <1>3, <1>5, <2>1
<1>7. \A k \in 1..l : x[k] \in Cells /\ x[k].part \in 1..3
  BY <1>1, ElementOfSeq, CellFields
<1>8. x[m + 1].part = 1
  <2>1. \/ x[m + 1].part = 1
        \/ m + 1 > 1 /\ x[m + 1].part = x[m].part + 1
    <3>1. (m + 1) - 1 = m
      BY <1>6
    <3> QED BY <1>1, <1>6, <3>1 DEF Runs
  <2>2. CASE m + 1 > 1 /\ x[m + 1].part = x[m].part + 1
    <3>1. v \in 1..v /\ 3 * v = m
      BY <1>2, <1>5, <1>6, <2>2
    <3>2. x[m].part = 3
      BY <1>2, <3>1 DEF IsRecord
    <3> QED BY <1>6, <1>7, <2>2, <3>2
  <2> QED BY <2>1, <2>2
<1>9. \/ x[m + 2].part = 1
      \/ x[m + 2].part = 2 /\ x[m + 2].rec = x[m + 1].rec
  <2>1. (m + 2) - 1 = m + 1 /\ m + 2 > 1
    BY <1>6
  <2> QED BY <1>1, <1>6, <1>8, <2>1 DEF Runs
<1>10. CASE x[m + 2].part = 1
  <2>1. m + 1 \in 1..(Len(x) - 1) /\ (m + 1) + 1 = m + 2
    BY <1>1, <1>6
  <2> QED BY <1>8, <1>10, <2>1 DEF Buried, RecLen
<1>11. CASE x[m + 2].part = 2 /\ x[m + 2].rec = x[m + 1].rec
  <2>1. m + 3 \in 1..l
    <3>1. rest[1] = x[m + 1] /\ rest[2] = x[m + 2]
      <4>1. 1 \in 1..(l - 3 * v) /\ 2 \in 1..(l - 3 * v)
        BY <1>2, <1>5, <1>6
      <4> QED BY <1>3, <1>5, <4>1
    <3>2. [i \in 1..2 |-> rest[i].part] = <<1, 2>>
      BY <1>8, <1>11, <3>1
    <3>3. Len(rest) # 2 /\ Len(rest) # 1 /\ Len(rest) # 0
      BY <1>4, <3>2
    <3> QED BY <1>2, <1>3, <1>5, <1>6, <3>3
  <2>2. \/ x[m + 3].part = 1
        \/ x[m + 3].part = 3 /\ x[m + 3].rec = x[m + 2].rec
    <3>1. (m + 3) - 1 = m + 2 /\ m + 3 > 1
      BY <1>6
    <3> QED BY <1>1, <1>11, <2>1, <3>1 DEF Runs
  <2>3. CASE x[m + 3].part = 1
    <3>1. m + 2 \in 1..(Len(x) - 1) /\ (m + 2) + 1 = m + 3
      BY <1>1, <1>6, <2>1
    <3> QED BY <1>11, <2>3, <3>1 DEF Buried, RecLen
  <2>4. CASE x[m + 3].part = 3 /\ x[m + 3].rec = x[m + 2].rec
    <3>1. 3 * (v + 1) - 2 = m + 1 /\ 3 * (v + 1) - 1 = m + 2 /\ 3 * (v + 1) = m + 3 /\ v + 1 \in Nat
      BY <1>2, <1>5
    <3>2. IsRecord(x, v + 1)
      BY <1>8, <1>11, <2>4, <3>1 DEF IsRecord
    <3>3. \A i \in 1..(v + 1) : IsRecord(x, i)
      BY <1>2, <3>2
    <3>4. 3 * (v + 1) <= Len(x)
      BY <1>1, <2>1, <3>1
    <3>5. v + 1 <= ValidCount(x)
      BY <3>1, <3>3, <3>4, CountIs
    <3> QED BY <1>1, <1>2, <3>5
  <2> QED BY <2>2, <2>3, <2>4
<1> QED BY <1>9, <1>10, <1>11

LEMMA RunsInit == Init => RunsInv
BY DEF Init, RunsInv, CorruptOnlyBuried, Segments

LEMMA RunsStep ==
  ASSUME TypeInv, TypeInv', RunsInv, [Next]_vars
  PROVE  RunsInv'
<1>1. ASSUME SameStreams PROVE \A s \in Segments' : Runs(StreamOf(s)')
  <2>1. Runs(<<>>)
    BY EmptySeq DEF Runs
  <2> QED BY <1>1, <2>1 DEF SameStreams, RunsInv
<1>2. ASSUME CutStreams PROVE \A s \in Segments' : Runs(StreamOf(s)')
  <2> SUFFICES ASSUME NEW s \in Segments' PROVE Runs(StreamOf(s)')
    OBVIOUS
  <2>1. s \in Segments /\ Begins(StreamOf(s)', StreamOf(s))
    BY <1>2 DEF CutStreams
  <2>2. StreamOf(s) \in Seq(Cells) /\ StreamOf(s)' \in Seq(Cells) /\ Runs(StreamOf(s))
    BY <2>1, StreamOfTypes, NextStreamTypes DEF RunsInv
  <2> QED BY <2>1, <2>2, RunsPrefix
<1>3. ASSUME NEW t \in Threads, Writing(t) PROVE \A s \in Segments' : Runs(StreamOf(s)')
  <2>1. /\ writerSeg \in Segments /\ seqOf[t] \in 1..MaxSeq /\ Segments' = Segments /\ writerSeg' = writerSeg
        /\ \A s \in Segments \ {writerSeg} : files'[s] = files[s]
        /\ Stream' \in Seq(Cells) /\ Begins(Stream', Stream \o Encode(seqOf[t]))
    BY <1>3, WriteEffect DEF Writing
  <2>2. PICK S, Z, y : S = Stream /\ Z = S \o Encode(seqOf[t]) /\ y = Stream'
    OBVIOUS
  <2>3. S \in Seq(Cells) /\ Runs(S)
    BY <2>1, <2>2, StreamTypes DEF RunsInv, StreamOf
  <2>4. Z \in Seq(Cells) /\ Runs(Z)
    BY <2>1, <2>2, <2>3, RunsGrow
  <2>5. Runs(y)
    BY <2>1, <2>2, <2>4, RunsPrefix
  <2> SUFFICES ASSUME NEW s \in Segments' PROVE Runs(StreamOf(s)')
    OBVIOUS
  <2>6. CASE s = writerSeg
    BY <2>1, <2>2, <2>5, <2>6 DEF StreamOf
  <2>7. CASE s # writerSeg
    <3>1. StreamOf(s)' = StreamOf(s)
      BY <2>1, <2>7 DEF StreamOf
    <3> QED BY <2>1, <3>1 DEF RunsInv
  <2> QED BY <2>6, <2>7
<1>4. ASSUME status' = "corrupt" PROVE \E s \in Segments' : Buried(files'[s])
  <2>1. ASSUME NEW t \in Threads, NextSequence(t) \/ AppendStep(t) PROVE FALSE
    <3>1. status' = status /\ (pc[t] # "idle" \/ status = "up")
      BY <2>1 DEF NextSequence, AppendStep, CheckSize, RotateSegment, RotateFails, Write, PartialWrite,
                  WriteFails, Sync, SyncFails
    <3> QED BY <1>4, <3>1 DEF TypeInv, Placed
  <2>2. CASE RecoverSegment
    <3>1. PICK s \in recTodo : /\ s \in Segments /\ buf = <<>>
                               /\ "corrupt" \in TailOutcomes(files[s]) /\ UNCHANGED disk
      BY <1>4, <2>2, RecoverEffect
    <3>2. files[s] \in Seq(Cells) /\ StreamOf(s) = files[s]
      BY <3>1, WalTypes, ClosedStreams
    <3>3. Buried(files[s])
      BY <3>1, <3>2, CorruptTail DEF RunsInv
    <3> QED BY <3>1, <3>3 DEF disk, Segments
  <2>3. ASSUME Halting \/ Start \/ RecoverFails \/ Open PROVE FALSE
    BY <1>4, <2>3 DEF Halting, ProcessCrash, PowerLoss, Shutdown, Halt, Start, RecoverFails, Open
  <2>4. CASE UNCHANGED vars
    BY <1>4, <2>4 DEF vars, disk, Segments, RunsInv, CorruptOnlyBuried
  <2> QED BY <2>1, <2>2, <2>3, <2>4 DEF Next, Halting
<1>5. \A s \in Segments' : Runs(StreamOf(s)')
  <2>1. CASE (\E t \in Threads : Moving(t)) \/ Start \/ Open \/ UNCHANGED vars
    BY <1>1, <2>1, SameStep
  <2>2. CASE Halting \/ Scanning
    BY <1>2, <2>2, CutStep
  <2> QED BY <1>3, <2>1, <2>2 DEF Next, AppendStep, Moving, Writing, Halting, Scanning
<1> QED BY <1>4, <1>5 DEF RunsInv, CorruptOnlyBuried

\* Whatever the faults are (writes torn inside a magic, failing writes that lose
\* their rest, partial_write), recovery ends in WalCorrupted only on a log in
\* which an append went behind an unfinished record: a segment that is merely
\* cut off at its end never keeps a server from starting.
THEOREM BuriedCorrect == Spec => []CorruptOnlyBuried
<1>1. Init => RunsInv
  BY RunsInit
<1>2. TypeInv /\ TypeInv' /\ RunsInv /\ [Next]_vars => RunsInv'
  BY RunsStep
<1>3. RunsInv => CorruptOnlyBuried
  BY DEF RunsInv
<1> QED BY <1>1, <1>2, <1>3, TypesHold, PTL DEF Spec

-----------------------------------------------------------------------------
(* Acknowledged records.                                                   *)

LEMMA LastInit == Init => LastInv
BY DEF Init, LastInv

LEMMA LastStep ==
  ASSUME CleanWrites, TypeInv, TypeInv', TidyInv, LastInv, [Next]_vars
  PROVE  LastInv'
<1> SUFFICES ASSUME NEW u \in Threads, pc'[u] = "sync"
             PROVE  /\ Stream' # <<>> /\ Stream'[Len(Stream')].rec = seqOf'[u]
                    /\ sync_mode' = "Always" => buf' = <<>>
  BY DEF LastInv
<1>0. pc \in [Threads -> {"idle", "check", "rotate", "write", "sync"}] /\ seqOf \in [Threads -> 0..MaxSeq]
  BY DEF TypeInv, TypeOK
<1>1. CASE /\ pc[u] = "sync" /\ seqOf'[u] = seqOf[u] /\ sync_mode' = sync_mode
           /\ UNCHANGED <<files, buf, writerSeg>>
  <2>1. Stream' = Stream
    BY <1>1 DEF Stream
  <2> QED BY <1>1, <2>1 DEF LastInv
<1>2. ASSUME NEW t \in Threads, NextSequence(t) \/ CheckSize(t) \/ Sync(t) \/ SyncFails(t)
      PROVE  /\ pc[u] = "sync" /\ seqOf'[u] = seqOf[u] /\ sync_mode' = sync_mode
             /\ UNCHANGED <<files, buf, writerSeg>>
  <2>1. /\ UNCHANGED <<files, buf, writerSeg>> /\ sync_mode' = sync_mode
        /\ \E loc \in {"check", "rotate", "write", "idle"} : pc' = [pc EXCEPT ![t] = loc]
        /\ seqOf' = seqOf \/ (pc[t] = "idle" /\ seqOf' = [seqOf EXCEPT ![t] = current_sequence + 1])
    BY <1>2 DEF NextSequence, CheckSize, Sync, SyncFails, Goto, disk, writer, settings
  <2>2. pc[u] = "sync" /\ u # t
    BY <1>0, <2>1
  <2> QED BY <1>0, <2>1, <2>2
<1>3. ASSUME NEW t \in Threads, RotateSegment(t) \/ RotateFails(t) PROVE FALSE
  <2>1. LockFree /\ \E loc \in {"write", "idle"} : pc' = [pc EXCEPT ![t] = loc]
    BY <1>3 DEF RotateSegment, RotateFails, Goto
  <2> QED BY <1>0, <2>1 DEF LockFree
<1>4. ASSUME NEW t \in Threads, Writing(t)
      PROVE  /\ Stream' # <<>> /\ Stream'[Len(Stream')].rec = seqOf'[u]
             /\ sync_mode' = "Always" => buf' = <<>>
  <2>1. LockFree
    BY <1>4 DEF Writing, Write, PartialWrite, WriteFails
  <2>2. PICK S, Z, r : S = Stream /\ Z = S \o Encode(seqOf[t]) /\ r = seqOf[t]
    OBVIOUS
  <2>3. \/ pc' = [pc EXCEPT ![t] = "idle"]
        \/ /\ pc' = [pc EXCEPT ![t] = "sync"] /\ Stream' = Z
           /\ sync_mode = "Always" => buf' = <<>>
    <3>1. nova_fault # "partial_write"
      BY DEF TidyInv
    <3> QED BY <1>4, <2>2, <3>1, CleanWriteEffect
  <2>4. u = t /\ Stream' = Z /\ (sync_mode = "Always" => buf' = <<>>)
    BY <1>0, <2>1, <2>3 DEF LockFree
  <2>5. writerSeg \in Segments /\ status = "up" /\ r \in 1..MaxSeq /\ seqOf' = seqOf /\ sync_mode' = sync_mode
    BY <1>4, <2>2, WriteEffect DEF Writing, settings
  <2>6. S \in Seq(Cells) /\ Tidy(S)
    BY <2>2, <2>5, StreamTypes DEF TidyInv, Torn
  <2>7. Z # <<>> /\ Z[Len(Z)].rec = r
    BY <2>2, <2>5, <2>6, TidyGrow
  <2> QED BY <2>2, <2>4, <2>5, <2>7
<1>5. ASSUME Halting PROVE FALSE
  BY <1>5, HaltEffect DEF Halting
<1>6. ASSUME Start \/ RecoverSegment \/ RecoverFails \/ Open PROVE FALSE
  <2>1. pc' = pc /\ status # "up"
    BY <1>6 DEF Start, RecoverSegment, RecoverFails, Open, threads
  <2> QED BY <2>1 DEF TypeInv, Placed
<1>7. ASSUME UNCHANGED vars
      PROVE  /\ pc[u] = "sync" /\ seqOf'[u] = seqOf[u] /\ sync_mode' = sync_mode
             /\ UNCHANGED <<files, buf, writerSeg>>
  BY <1>7 DEF vars, disk, writer, threads, settings
<1> QED BY <1>1, <1>2, <1>3, <1>4, <1>5, <1>6, <1>7 DEF Next, AppendStep, Writing, Halting

\* A record stays where it is if its stream grows, or is cut behind it.
LEMMA KeptRecord ==
  ASSUME TypeInv, TypeInv', NEW s \in Segments, s \in Segments', NEW i \in 1..Count(s),
         \/ Begins(StreamOf(s), StreamOf(s)')
         \/ Begins(StreamOf(s)', StreamOf(s)) /\ i * RecLen <= Len(StreamOf(s)')
  PROVE  i \in 1..(Count(s)') /\ Rec(s, i)' = Rec(s, i)
<1>1. PICK x, y : x = StreamOf(s) /\ y = StreamOf(s)'
  OBVIOUS
<1>2. x \in Seq(Cells) /\ y \in Seq(Cells) /\ i \in 1..ValidCount(x) /\ Rec(s, i) = x[i * RecLen].rec
  BY <1>1, StreamOfTypes, NextStreamTypes DEF Count, Rec
<1>3. Count(s)' = ValidCount(y) /\ Rec(s, i)' = y[i * RecLen].rec
  BY <1>1 DEF Count, Rec
<1>4. CASE Begins(x, y)
  BY <1>2, <1>3, <1>4, PrefixCount
<1>5. CASE Begins(y, x) /\ i * RecLen <= Len(y)
  <2>1. ValidCount(x) \in Nat /\ ValidCount(y) \in Nat /\ i \in Nat /\ i <= ValidCount(x)
    BY <1>2, CountIs
  <2>2. 3 * i <= Len(y)
    BY <1>5, <2>1 DEF RecLen
  <2>3. \A n \in Nat : n <= ValidCount(y) <=> 3 * n <= Len(y) /\ n <= ValidCount(x)
    BY <1>2, <1>5, PrefixCount
  <2>4. i \in 1..ValidCount(y)
    BY <1>2, <2>1, <2>2, <2>3
  <2>5. \A k \in 1..ValidCount(y) : y[k * RecLen] = x[k * RecLen]
    BY <1>2, <1>5, PrefixCount
  <2> QED BY <1>2, <1>3, <2>4, <2>5
<1> QED BY <1>1, <1>4, <1>5

LEMMA AckedInit == Init => AckedInv
BY DEF Init, AckedInv

LEMMA AckedStep ==
  ASSUME CleanWrites, TypeInv, TypeInv', TidyInv, LastInv, AckedInv, [Next]_vars
  PROVE  AckedInv'
<1> SUFFICES ASSUME NEW r \in acked'
             PROVE  \E s \in Segments' : \E i \in 1..(Count(s)') :
                      /\ Rec(s, i)' = r
                      /\ sync_mode' = "Always" => i * RecLen <= synced'[s]
  BY DEF AckedInv
<1>0. /\ \A s \in Segments : s \in Nat /\ synced[s] \in Nat /\ Len(files[s]) \in Nat /\ synced[s] <= Len(files[s])
      /\ \A s \in Segments : StreamOf(s) \in Seq(Cells) /\ Begins(StreamOf(s), StreamOf(s)) /\ Len(StreamOf(s)) \in Nat
      /\ \A s \in Segments : \A i \in 1..Count(s) : i * RecLen \in Nat /\ i * RecLen <= Len(StreamOf(s))
  <2>1. \A s \in Segments : s \in Nat /\ synced[s] \in Nat /\ Len(files[s]) \in Nat /\ synced[s] <= Len(files[s])
    BY WalTypes
  <2>2. ASSUME NEW s \in Segments
        PROVE  StreamOf(s) \in Seq(Cells) /\ Begins(StreamOf(s), StreamOf(s)) /\ Len(StreamOf(s)) \in Nat
    BY StreamOfTypes, BeginsSame, LenProperties
  <2>3. ASSUME NEW s \in Segments, NEW i \in 1..Count(s)
        PROVE  i * RecLen \in Nat /\ i * RecLen <= Len(StreamOf(s))
    <3>1. i * RecLen \in 1..Len(StreamOf(s))
      BY <2>2, RecordsAt DEF Count
    <3> QED BY <2>2, <3>1
  <2> QED BY <2>1, <2>2, <2>3
\* An old record whose stream is not cut.
<1>1. ASSUME r \in acked, Segments \subseteq Segments', sync_mode' = sync_mode,
             \A s \in Segments : /\ StreamOf(s)' = StreamOf(s) \/ Begins(StreamOf(s), StreamOf(s)')
                                 /\ \A i \in 1..Count(s) : i * RecLen <= synced[s] => i * RecLen <= synced'[s]
      PROVE  \E s \in Segments' : \E i \in 1..(Count(s)') :
               Rec(s, i)' = r /\ (sync_mode' = "Always" => i * RecLen <= synced'[s])
  <2>1. PICK s \in Segments : \E i \in 1..Count(s) :
               Rec(s, i) = r /\ (sync_mode = "Always" => i * RecLen <= synced[s])
    BY <1>1 DEF AckedInv
  <2>2. PICK i \in 1..Count(s) : Rec(s, i) = r /\ (sync_mode = "Always" => i * RecLen <= synced[s])
    BY <2>1
  <2>3. s \in Segments' /\ Begins(StreamOf(s), StreamOf(s)')
    BY <1>0, <1>1
  <2>4. i \in 1..(Count(s)') /\ Rec(s, i)' = Rec(s, i)
    BY <2>3, KeptRecord
  <2>5. sync_mode' = "Always" => i * RecLen <= synced'[s]
    BY <1>1, <2>2
  <2> QED BY <2>2, <2>3, <2>4, <2>5
<1> DEFINE Goal == \E s \in Segments' : \E i \in 1..(Count(s)') :
                     /\ Rec(s, i)' = r
                     /\ sync_mode' = "Always" => i * RecLen <= synced'[s]
<1> HIDE DEF Goal
<1>2. ASSUME r \in acked, SameStreams, sync_mode' = sync_mode,
             \A s \in Segments : \A i \in 1..Count(s) : i * RecLen <= synced[s] => i * RecLen <= synced'[s]
      PROVE  Goal
  BY <1>1, <1>2 DEF SameStreams, Goal
<1>3. ASSUME r \in acked, SameStreams, sync_mode' = sync_mode, \A s \in Segments : synced'[s] = synced[s]
      PROVE  Goal
  BY <1>2, <1>3
<1>4. ASSUME NEW t \in Threads, NextSequence(t) \/ CheckSize(t) \/ SyncFails(t) PROVE Goal
  <2>1. SameStreams
    BY <1>4, SameStep DEF Moving
  <2>2. acked' = acked /\ synced' = synced /\ sync_mode' = sync_mode
    BY <1>4 DEF NextSequence, CheckSize, SyncFails, disk, settings
  <2> QED BY <1>3, <2>1, <2>2
<1>5. ASSUME NEW t \in Threads, RotateFails(t) PROVE Goal
  <2>1. SameStreams
    BY <1>5, SameStep DEF Moving
  <2>2. /\ acked' = acked /\ sync_mode' = sync_mode /\ writerSeg \in Segments
        /\ synced' = synced \/ synced' = [synced EXCEPT ![writerSeg] = Len(Stream)]
    BY <1>5, RotateFailsEffect DEF settings
  <2>3. synced \in [Segments -> Nat] /\ StreamOf(writerSeg) = Stream
    BY DEF TypeInv, TypeOK, StreamOf
  <2>4. ASSUME NEW s \in Segments, NEW i \in 1..Count(s), i * RecLen <= synced[s]
        PROVE  i * RecLen <= synced'[s]
    <3>1. i * RecLen <= Len(StreamOf(s))
      BY <1>0
    <3>2. synced'[s] = synced[s] \/ (s = writerSeg /\ synced'[s] = Len(Stream))
      BY <2>2, <2>3
    <3> QED BY <2>3, <2>4, <3>1, <3>2
  <2> QED BY <1>2, <2>1, <2>2, <2>4
<1>6. ASSUME NEW t \in Threads, RotateSegment(t) PROVE Goal
  <2>0. PICK n : n = current_segment_index + 1
    OBVIOUS
  <2>1. SameStreams
    BY <1>6, SameStep DEF Moving
  <2>2. /\ acked' = acked /\ sync_mode' = sync_mode
        /\ synced'[writerSeg] = Len(Stream)
        /\ \A s \in Segments \ {writerSeg} : synced'[s] = synced[s]
    BY <1>6, <2>0, RotateEffect DEF settings
  <2>3. ASSUME NEW s \in Segments, NEW i \in 1..Count(s), i * RecLen <= synced[s]
        PROVE  i * RecLen <= synced'[s]
    <3>1. i * RecLen <= Len(StreamOf(s))
      BY <1>0
    <3> QED BY <2>2, <2>3, <3>1 DEF StreamOf
  <2> QED BY <1>2, <2>1, <2>2, <2>3
<1>7. ASSUME NEW t \in Threads, Sync(t) PROVE Goal
  <2>1. /\ pc[t] = "sync" /\ sync_mode' = sync_mode /\ files' = files /\ buf' = buf /\ writerSeg' = writerSeg
        /\ synced' = IF sync_mode = "Always" THEN [synced EXCEPT ![writerSeg] = FileLen] ELSE synced
        /\ acked' = acked \/ acked' = acked \cup {seqOf[t]}
    BY <1>7 DEF Sync, writer, settings
  <2>2. SameStreams
    BY <1>7, SameStep DEF Moving
  <2>3. status = "up" /\ writerSeg \in Segments /\ synced \in [Segments -> Nat]
    BY <2>1 DEF TypeInv, TypeOK, Placed
  <2>4. \A s \in Segments : synced[s] <= synced'[s] /\ synced'[s] \in Nat
    BY <1>0, <2>1, <2>3 DEF FileLen
  <2>5. CASE r \in acked
    <3>1. ASSUME NEW s \in Segments, NEW i \in 1..Count(s), i * RecLen <= synced[s]
          PROVE  i * RecLen <= synced'[s]
      BY <1>0, <2>4, <3>1
    <3> QED BY <1>2, <2>1, <2>2, <2>5, <3>1
  <2>6. CASE r = seqOf[t]
    <3>1. PICK S, w, c : S = Stream /\ w = writerSeg /\ c = ValidCount(S)
      OBVIOUS
    <3>2. S \in Seq(Cells) /\ Len(S) \in Nat /\ Tidy(S) /\ S # <<>> /\ S[Len(S)].rec = r
          /\ (sync_mode = "Always" => buf = <<>>)
      <4>1. Tidy(S)
        BY <2>3, <3>1 DEF TidyInv, Torn
      <4> QED BY <2>1, <2>3, <2>6, <3>1, <4>1, StreamTypes DEF LastInv
    <3>3. c \in Nat /\ Len(S) = c * RecLen /\ c \in 1..c
      <4>1. c \in Nat /\ Len(S) = RecLen * c
        BY <3>1, <3>2, CountIs DEF Tidy
      <4>2. Len(S) # 0
        BY <3>2, EmptySeq
      <4> QED BY <4>1, <4>2 DEF RecLen
    <3>4. StreamOf(w)' = S /\ w \in Segments' /\ StreamOf(w) = S
      BY <2>1, <2>2, <2>3, <3>1 DEF SameStreams, StreamOf
    <3>5. c \in 1..(Count(w)') /\ Rec(w, c)' = r
      BY <3>1, <3>2, <3>3, <3>4 DEF Count, Rec
    <3>6. ASSUME sync_mode = "Always" PROVE c * RecLen <= synced'[w]
      <4>1. synced'[w] = FileLen
        BY <2>1, <2>3, <3>1, <3>6
      <4>2. files[w] = S
        BY <2>3, <3>1, <3>2, <3>4, <3>6, ClosedStreams
      <4> QED BY <3>1, <3>2, <3>3, <4>1, <4>2 DEF FileLen
    <3> QED BY <2>1, <3>4, <3>5, <3>6 DEF Goal
  <2> QED BY <2>1, <2>5, <2>6
<1>8. ASSUME NEW t \in Threads, Writing(t) PROVE Goal
  <2>1. /\ Segments' = Segments /\ writerSeg' = writerSeg /\ synced' = synced /\ acked' = acked
        /\ sync_mode' = sync_mode /\ Begins(Stream, Stream')
        /\ \A s \in Segments \ {writerSeg} : files'[s] = files[s]
    BY <1>8, WriteEffect DEF Writing, settings
  <2>2. \A s \in Segments : StreamOf(s)' = StreamOf(s) \/ Begins(StreamOf(s), StreamOf(s)')
    BY <2>1 DEF StreamOf
  <2> QED BY <1>1, <2>1, <2>2 DEF Goal
<1>9. ASSUME Halting PROVE Goal
  <2>1. CutStreams
    BY <1>9, CutStep
  <2>2. /\ Segments' = Segments /\ writerSeg' = writerSeg /\ sync_mode' = sync_mode
        /\ \A s \in Segments \ {writerSeg} : files'[s] = files[s] /\ synced'[s] = synced[s]
        /\ writerSeg \in Segments =>
             synced[writerSeg] <= synced'[writerSeg] /\ synced'[writerSeg] <= Len(files'[writerSeg])
        /\ acked' \subseteq acked
        /\ sync_mode # "Always" => (acked' = acked /\ Shutdown) \/ acked' = acked \cap Present'
        /\ buf' = <<>>
    BY <1>9, HaltEffect DEF Halting, settings
  <2>3. \A s \in Segments : StreamOf(s)' = files'[s] /\ Len(files'[s]) \in Nat /\ synced'[s] \in Nat
    <3> SUFFICES ASSUME NEW s \in Segments
                 PROVE  StreamOf(s)' = files'[s] /\ Len(files'[s]) \in Nat /\ synced'[s] \in Nat
      OBVIOUS
    <3>1. files'[s] \in Seq(Cells) /\ synced' \in [Segments -> Nat]
      BY <2>2 DEF TypeInv, TypeOK
    <3>2. files'[s] \o <<>> = files'[s]
      BY <3>1, ConcatEmptySeq
    <3> QED BY <2>2, <3>1, <3>2, LenProperties DEF StreamOf, Stream
  <2>4. CASE sync_mode = "Always"
    <3>1. PICK s \in Segments : \E i \in 1..Count(s) :
               Rec(s, i) = r /\ (sync_mode = "Always" => i * RecLen <= synced[s])
      BY <2>2 DEF AckedInv
    <3>2. PICK i \in 1..Count(s) : Rec(s, i) = r /\ i * RecLen <= synced[s]
      BY <2>4, <3>1
    <3>3. synced[s] <= synced'[s] /\ synced'[s] <= Len(files'[s])
      BY <1>0, <2>2
    <3>4. i * RecLen <= synced'[s] /\ i * RecLen <= Len(StreamOf(s)') /\ Begins(StreamOf(s)', StreamOf(s))
      <4>1. i * RecLen <= synced'[s] /\ i * RecLen <= Len(files'[s])
        BY <1>0, <2>3, <3>2, <3>3
      <4> QED BY <2>1, <2>3, <4>1 DEF CutStreams
    <3>5. i \in 1..(Count(s)') /\ Rec(s, i)' = Rec(s, i)
      BY <2>2, <3>4, KeptRecord
    <3> QED BY <2>2, <3>2, <3>4, <3>5 DEF Goal
  <2>5. CASE sync_mode # "Always" /\ acked' = acked /\ Shutdown
    <3>1. status = "up" /\ files'[writerSeg] = Stream /\ synced' = synced
      <4>1. files' = [files EXCEPT ![writerSeg] = Stream] /\ status = "up" /\ synced' = synced
        BY <2>5 DEF Shutdown
      <4>2. files \in [Segments -> Seq(Cells)] /\ writerSeg \in Segments
        BY <4>1 DEF TypeInv, TypeOK, Placed
      <4> QED BY <4>1, <4>2
    <3>2. \A s \in Segments : StreamOf(s)' = StreamOf(s)
      BY <2>2, <2>3, <3>1 DEF StreamOf
    <3> QED BY <1>1, <2>2, <2>5, <3>1, <3>2 DEF Goal
  <2>6. CASE sync_mode # "Always" /\ acked' = acked \cap Present'
    <3>1. PICK s \in Segments' : r \in RecordsIn(files'[s])
      BY <2>6 DEF Present
    <3>2. PICK i \in 1..ValidCount(files'[s]) : files'[s][i * RecLen].rec = r
      BY <3>1 DEF RecordsIn
    <3>3. i \in 1..(Count(s)') /\ Rec(s, i)' = r
      BY <2>2, <2>3, <3>2 DEF Count, Rec
    <3> QED BY <2>2, <2>6, <3>3 DEF Goal
  <2> QED BY <2>2, <2>4, <2>5, <2>6
<1>10. ASSUME Start PROVE Goal
  <2>1. SameStreams
    BY <1>10, SameStep
  <2>2. acked' = acked /\ synced' = synced /\ sync_mode' = sync_mode
    BY <1>10 DEF Start, disk
  <2> QED BY <1>3, <2>1, <2>2
<1>11. ASSUME Scanning PROVE Goal
  <2>1. CutStreams
    BY <1>11, CutStep
  <2>2. /\ buf = <<>> /\ buf' = <<>> /\ Segments' = Segments /\ acked' = acked /\ sync_mode' = sync_mode
        /\ status = "recovering"
        /\ \A u \in Segments :
              /\ ValidCount(files'[u]) = ValidCount(files[u])
              /\ \A i \in 1..ValidCount(files[u]) : i * RecLen <= synced[u] => i * RecLen <= synced'[u]
    BY <1>11, ScanEffect DEF settings
  <2>3. PICK s \in Segments : \E i \in 1..Count(s) :
             Rec(s, i) = r /\ (sync_mode = "Always" => i * RecLen <= synced[s])
    BY <2>2 DEF AckedInv
  <2>4. PICK i \in 1..Count(s) : Rec(s, i) = r /\ (sync_mode = "Always" => i * RecLen <= synced[s])
    BY <2>3
  <2>5. StreamOf(s) = files[s] /\ Count(s) = ValidCount(files[s])
    BY <2>2, ClosedStreams DEF Count
  <2>6. StreamOf(s)' = files'[s] /\ files'[s] \in Seq(Cells) /\ Len(files'[s]) \in Nat
    <3>1. files'[s] \in Seq(Cells)
      BY <2>2 DEF TypeInv, TypeOK
    <3>2. files'[s] \o <<>> = files'[s]
      BY <3>1, ConcatEmptySeq
    <3> QED BY <2>2, <3>1, <3>2, LenProperties DEF StreamOf, Stream
  <2>7. ValidCount(files'[s]) = ValidCount(files[s])
    BY <2>2
  <2>8. i * RecLen <= Len(StreamOf(s)') /\ Begins(StreamOf(s)', StreamOf(s))
    <3>1. i * RecLen \in 1..Len(files'[s])
      BY <2>5, <2>6, <2>7, RecordsAt
    <3> QED BY <2>1, <2>6, <3>1 DEF CutStreams
  <2>9. i \in 1..(Count(s)') /\ Rec(s, i)' = Rec(s, i)
    BY <2>2, <2>8, KeptRecord
  <2>10. i * RecLen <= synced[s] => i * RecLen <= synced'[s]
    BY <2>2, <2>4, <2>5
  <2> QED BY <2>2, <2>4, <2>9, <2>10 DEF Goal
<1>12. ASSUME Open PROVE Goal
  <2>1. SameStreams
    BY <1>12, SameStep
  <2>2. acked' = acked /\ sync_mode' = sync_mode /\ (Segments = {} \/ synced' = synced)
    BY <1>12, OpenEffect DEF settings
  <2> QED BY <1>3, <2>1, <2>2
<1>13. ASSUME UNCHANGED vars PROVE Goal
  <2>1. SameStreams
    BY <1>13, SameStep
  <2>2. acked' = acked /\ synced' = synced /\ sync_mode' = sync_mode
    BY <1>13 DEF vars, disk, settings
  <2> QED BY <1>3, <2>1, <2>2
<1>14. Goal
  BY <1>4, <1>5, <1>6, <1>7, <1>8, <1>9, <1>10, <1>11, <1>12, <1>13
     DEF Next, AppendStep, Writing, Halting, Scanning
<1> QED BY <1>14 DEF Goal

AcksInv == TypeInv /\ SealedSegmentsDurable /\ TidyInv /\ LastInv /\ AckedInv

LEMMA AcksHold ==
  ASSUME CleanWrites
  PROVE  Spec => []AcksInv
<1>1. Init => AcksInv
  BY TypeInit, TidyInit, LastInit, AckedInit DEF AcksInv
<1>2. AcksInv /\ [Next]_vars => AcksInv'
  <2> SUFFICES ASSUME AcksInv, [Next]_vars PROVE AcksInv'
    OBVIOUS
  <2>1. TypeInv /\ SealedSegmentsDurable /\ TidyInv /\ LastInv /\ AckedInv
    BY DEF AcksInv
  <2>2. TypeInv' /\ SealedSegmentsDurable'
    BY <2>1, TypeStep
  <2>3. TidyInv'
    BY <2>1, <2>2, TidyStep
  <2>4. LastInv'
    BY <2>1, <2>2, LastStep
  <2>5. AckedInv'
    BY <2>1, <2>2, AckedStep
  <2> QED BY <2>2, <2>3, <2>4, <2>5 DEF AcksInv
<1> QED BY <1>1, <1>2, PTL DEF Spec

\* As long as no write stops inside a magic, what append acknowledged under
\* SyncMode::Always can be decoded from durable bytes ever after: a torn record
\* is always behind it, and recovery cuts only what is behind the last whole
\* record.
THEOREM AckedCorrect ==
  ASSUME CleanWrites
  PROVE  Spec => []AckedDurable
<1>1. AcksInv => AckedDurable
  <2> SUFFICES ASSUME TypeInv, AckedInv, sync_mode = "Always", NEW r \in acked PROVE r \in DurableRecords
    BY DEF AcksInv, AckedDurable
  <2>1. PICK s \in Segments : \E i \in 1..Count(s) : Rec(s, i) = r /\ i * RecLen <= synced[s]
    BY DEF AckedInv
  <2>2. PICK i \in 1..Count(s) : Rec(s, i) = r /\ i * RecLen <= synced[s]
    BY <2>1
  <2>3. PICK x, y, f : x = SubSeq(f, 1, synced[s]) /\ f = files[s] /\ y = StreamOf(s)
    OBVIOUS
  <2>4. f \in Seq(Cells) /\ y \in Seq(Cells) /\ Begins(f, y) /\ synced[s] \in 0..Len(f)
    BY <2>3, StreamOfTypes, WalTypes
  <2>5. x \in Seq(Cells) /\ Len(x) = synced[s] /\ Begins(x, f)
    BY <2>3, <2>4, BeginsPrefix
  <2>6. Begins(x, y)
    BY <2>4, <2>5, BeginsTransitive
  <2>7. /\ \A n \in Nat : n <= ValidCount(x) <=> 3 * n <= Len(x) /\ n <= ValidCount(y)
        /\ \A k \in 1..ValidCount(x) : x[k * RecLen] = y[k * RecLen]
    BY <2>4, <2>5, <2>6, PrefixCount
  <2>8. i \in Nat /\ i <= ValidCount(y) /\ 3 * i <= Len(x) /\ ValidCount(y) \in Nat /\ ValidCount(x) \in Nat /\ 1 <= i
    <3>1. ValidCount(y) \in Nat /\ ValidCount(x) \in Nat
      BY <2>4, <2>5, CountIs
    <3>2. i \in 1..ValidCount(y)
      BY <2>2, <2>3 DEF Count
    <3> QED BY <2>2, <2>5, <3>1, <3>2 DEF RecLen
  <2>9. i \in 1..ValidCount(x)
    BY <2>7, <2>8
  <2>10. x[i * RecLen].rec = r
    BY <2>2, <2>3, <2>7, <2>9 DEF Rec
  <2>11. r \in RecordsIn(x)
    BY <2>9, <2>10 DEF RecordsIn
  <2> QED BY <2>3, <2>11 DEF DurableRecords
<1> QED BY <1>1, AcksHold, PTL

-----------------------------------------------------------------------------
(* The order of replay.                                                    *)

LEMMA OrderInit == Init => OrderInv /\ ReplayInv
<1> SUFFICES ASSUME Init PROVE OrderInv /\ ReplayInv
  OBVIOUS
<1>1. Segments = {} /\ status = "down" /\ \A t \in Threads : pc[t] = "idle"
  BY DEF Init, Segments
<1>2. Len(replayed) = 0
  BY DEF Init
<1>3. OrderInv
  BY <1>1 DEF OrderInv, Before
<1>4. ReplayRespectsOrder
  BY <1>2 DEF ReplayRespectsOrder
<1> QED BY <1>1, <1>3, <1>4 DEF ReplayInv

\* No record is new; and with a record that stays, those in front of it stay.
LEMMA KeptOrder ==
  ASSUME TypeInv, TypeInv', OrderInv, SameStreams \/ CutStreams,
         NEW B, \A s \in Segments : \A i \in 1..Count(s) : B[Rec(s, i)] = before[Rec(s, i)],
         B = before',
         \A s1, s \in Segments : \A j \in 1..Count(s1), i \in 1..Count(s) :
           Earlier(s1, j, s, i) /\ i \in 1..(Count(s)') /\ s \in Segments' =>
             s1 \in Segments' /\ j \in 1..(Count(s1)') /\ Rec(s1, j)' = Rec(s1, j)
  PROVE  \A s \in Segments' : \A i \in 1..(Count(s)') : \A r \in before'[Rec(s, i)'] :
           \E s1 \in Segments' : \E j \in 1..(Count(s1)') : Rec(s1, j)' = r /\ Earlier(s1, j, s, i)
<1> SUFFICES ASSUME NEW s \in Segments', NEW i \in 1..(Count(s)'), NEW r \in before'[Rec(s, i)']
             PROVE  \E s1 \in Segments' : \E j \in 1..(Count(s1)') : Rec(s1, j)' = r /\ Earlier(s1, j, s, i)
  OBVIOUS
<1>1. s \in Segments /\ i \in 1..Count(s) /\ Rec(s, i)' = Rec(s, i)
  BY OldRecords
<1>2. r \in before[Rec(s, i)]
  BY <1>1
<1>3. PICK s1 \in Segments : \E j \in 1..Count(s1) : Rec(s1, j) = r /\ Earlier(s1, j, s, i)
  BY <1>1, <1>2 DEF OrderInv
<1>4. PICK j \in 1..Count(s1) : Rec(s1, j) = r /\ Earlier(s1, j, s, i)
  BY <1>3
<1>5. s1 \in Segments' /\ j \in 1..(Count(s1)') /\ Rec(s1, j)' = Rec(s1, j)
  BY <1>1, <1>4
<1> QED BY <1>4, <1>5

\* Where streams stay, so do their records.
LEMMA SameRecords ==
  ASSUME TypeInv, TypeInv', SameStreams, NEW s \in Segments, NEW i \in 1..Count(s)
  PROVE  s \in Segments' /\ i \in 1..(Count(s)') /\ Rec(s, i)' = Rec(s, i)
<1>1. s \in Segments' /\ StreamOf(s)' = StreamOf(s)
  BY DEF SameStreams
<1> QED BY <1>1 DEF Count, Rec

\* A failure or a recovery cuts the last segment only, and from behind: what is
\* in front of a record that is left is left too.
LEMMA FrontKept ==
  ASSUME TypeInv, TypeInv', Halting \/ Scanning,
         NEW s1 \in Segments, NEW s \in Segments, NEW j \in 1..Count(s1), NEW i \in 1..Count(s),
         Earlier(s1, j, s, i), i \in 1..(Count(s)')
  PROVE  s1 \in Segments' /\ j \in 1..(Count(s1)') /\ Rec(s1, j)' = Rec(s1, j)
<1>1. CutStreams
  BY CutStep
<1>2. s1 \in Segments' /\ s \in Segments'
  BY <1>1 DEF CutStreams
<1>3. Count(s1)' \in Nat /\ Count(s)' \in Nat
  <2>1. StreamOf(s1)' \in Seq(Cells) /\ StreamOf(s)' \in Seq(Cells)
    BY <1>2, NextStreamTypes
  <2> QED BY <2>1, CountIs DEF Count
<1>4. ASSUME s1 # writerSeg PROVE Count(s1)' = Count(s1)
  <2>1. CASE Halting
    <3>1. files'[s1] = files[s1] /\ writerSeg' = writerSeg
      BY <1>4, <2>1, HaltEffect DEF Halting
    <3> QED BY <1>4, <3>1 DEF Count, StreamOf
  <2>2. CASE Scanning
    <3>1. ValidCount(files'[s1]) = ValidCount(files[s1]) /\ writerSeg' = writerSeg
      BY <2>2, ScanEffect
    <3> QED BY <1>4, <3>1 DEF Count, StreamOf
  <2> QED BY <2>1, <2>2
<1>5. j \in 1..(Count(s1)')
  <2>1. CASE s1 = s /\ j < i
    BY <1>3, <2>1
  <2>2. CASE s1 < s
    <3>1. s <= writerSeg /\ s1 \in Nat /\ s \in Nat /\ writerSeg \in Nat
      BY WalTypes DEF TypeInv, Placed
    <3>2. s1 # writerSeg
      BY <2>2, <3>1
    <3> QED BY <1>4, <3>2
  <2> QED BY <2>1, <2>2 DEF Earlier
<1> QED BY <1>1, <1>2, <1>5, OldRecords

LEMMA OrderStep ==
  ASSUME TypeInv, TypeInv', UniqueInv, AckedInv, OrderInv, [Next]_vars
  PROVE  OrderInv'
<1>0. /\ pc \in [Threads -> {"idle", "check", "rotate", "write", "sync"}]
      /\ seqOf \in [Threads -> 0..MaxSeq] /\ before \in [1..MaxSeq -> SUBSET (1..MaxSeq)]
      /\ \A s \in Segments : \A i \in 1..Count(s) : Rec(s, i) \in Nat /\ Count(s) \in Nat
      /\ current_sequence \in Nat /\ Segments \subseteq Nat /\ writerSeg \in Nat
  <2>1. ASSUME NEW s \in Segments, NEW i \in 1..Count(s) PROVE Rec(s, i) \in Nat /\ Count(s) \in Nat
    <3>1. StreamOf(s) \in Seq(Cells)
      BY StreamOfTypes
    <3>2. StreamOf(s)[i * RecLen] \in Cells /\ Count(s) \in Nat
      BY <3>1, RecordsAt, CountIs DEF Count
    <3> QED BY <3>2, CellFields DEF Rec
  <2>2. current_sequence \in 0..MaxSeq /\ MaxSeq \in Nat
    BY BoundsAreNat DEF TypeInv, TypeOK
  <2>3. current_sequence \in Nat
    BY <2>2
  <2> QED BY <2>1, <2>2, <2>3 DEF TypeInv, TypeOK
\* Steps that keep the streams, the numbers and the history.
<1>1. ASSUME SameStreams, before' = before,
             \A u \in Threads : Before(u)' => Before(u) /\ seqOf'[u] = seqOf[u]
      PROVE  OrderInv'
  <2>1. \A s \in Segments : \A i \in 1..Count(s) :
          s \in Segments' /\ i \in 1..(Count(s)') /\ Rec(s, i)' = Rec(s, i)
    BY <1>1, SameRecords
  <2>2. \A s \in Segments' : \A i \in 1..(Count(s)') : \A r \in before'[Rec(s, i)'] :
           \E s1 \in Segments' : \E j \in 1..(Count(s1)') : Rec(s1, j)' = r /\ Earlier(s1, j, s, i)
    BY <1>1, <2>1, KeptOrder
  <2>3. ASSUME NEW u \in Threads, Before(u)', NEW r \in before'[seqOf'[u]]
        PROVE  \E s \in Segments' : \E i \in 1..(Count(s)') : Rec(s, i)' = r
    <3>1. Logged(r)
      BY <1>1, <2>3 DEF OrderInv
    <3>2. PICK s \in Segments : \E i \in 1..Count(s) : Rec(s, i) = r
      BY <3>1 DEF Logged
    <3>3. PICK i \in 1..Count(s) : Rec(s, i) = r
      BY <3>2
    <3> QED BY <2>1, <3>3
  <2> QED BY <2>2, <2>3 DEF OrderInv, Logged, Earlier
<1>2. ASSUME NEW t \in Threads, NextSequence(t) PROVE OrderInv'
  <2>1. PICK q : q = current_sequence + 1
    OBVIOUS
  <2>2. /\ status = "up" /\ seqOf' = [seqOf EXCEPT ![t] = q] /\ before' = [before EXCEPT ![q] = acked]
        /\ pc' = [pc EXCEPT ![t] = "check"] /\ q \in 1..MaxSeq
    BY <1>0, <1>2, <2>1, BoundsAreNat DEF NextSequence, Goto
  <2>3. SameStreams
    BY <1>2, SameStep DEF Moving
  <2>4. /\ \A s \in Segments : \A i \in 1..Count(s) : Rec(s, i) <= current_sequence
        /\ \A u \in Threads : Before(u) => seqOf[u] <= current_sequence
    BY <2>2 DEF UniqueInv
  <2>5. \A s \in Segments : \A i \in 1..Count(s) : Rec(s, i) # q /\ before'[Rec(s, i)] = before[Rec(s, i)]
    <3>1. \A s \in Segments : \A i \in 1..Count(s) : Rec(s, i) # q
      BY <1>0, <2>1, <2>4
    <3>2. \A x : x # q => before'[x] = before[x]
      BY <1>0, <2>2
    <3> QED BY <3>1, <3>2
  <2>6. \A s \in Segments : \A i \in 1..Count(s) :
          s \in Segments' /\ i \in 1..(Count(s)') /\ Rec(s, i)' = Rec(s, i)
    BY <2>3, SameRecords
  <2>7. PICK B : B = before'
    OBVIOUS
  <2>8. \A s \in Segments' : \A i \in 1..(Count(s)') : \A r \in before'[Rec(s, i)'] :
           \E s1 \in Segments' : \E j \in 1..(Count(s1)') : Rec(s1, j)' = r /\ Earlier(s1, j, s, i)
    BY <2>3, <2>5, <2>6, <2>7, KeptOrder
  <2>9. ASSUME NEW u \in Threads, Before(u)', NEW r \in before'[seqOf'[u]]
        PROVE  \E s \in Segments' : \E i \in 1..(Count(s)') : Rec(s, i)' = r
    <3>1. \E s \in Segments : \E i \in 1..Count(s) : Rec(s, i) = r
      <4>1. CASE u = t
        <5>1. r \in acked
          BY <1>0, <2>2, <2>9, <4>1
        <5> QED BY <5>1 DEF AckedInv
      <4>2. CASE u # t
        <5>1. Before(u) /\ seqOf'[u] = seqOf[u]
          BY <1>0, <2>2, <2>9, <4>2 DEF Before
        <5>2. seqOf[u] # q
          <6>1. seqOf[u] <= current_sequence /\ seqOf[u] \in 0..MaxSeq
            BY <1>0, <2>4, <5>1
          <6> QED BY <1>0, <2>1, <6>1
        <5>3. r \in before[seqOf[u]]
          BY <1>0, <2>2, <2>9, <5>1, <5>2
        <5> QED BY <5>1, <5>3 DEF OrderInv, Logged
      <4> QED BY <4>1, <4>2
    <3>2. PICK s \in Segments : \E i \in 1..Count(s) : Rec(s, i) = r
      BY <3>1
    <3>3. PICK i \in 1..Count(s) : Rec(s, i) = r
      BY <3>2
    <3> QED BY <2>6, <3>3
  <2> QED BY <2>8, <2>9 DEF OrderInv, Logged, Earlier
<1>3. ASSUME NEW t \in Threads,
             CheckSize(t) \/ RotateSegment(t) \/ RotateFails(t) \/ Sync(t) \/ SyncFails(t)
      PROVE  OrderInv'
  <2>1. SameStreams
    BY <1>3, SameStep DEF Moving
  <2>2. before' = before /\ seqOf' = seqOf
    BY <1>3 DEF CheckSize, RotateSegment, RotateFails, Sync, SyncFails
  <2>3. \A u \in Threads : Before(u)' => Before(u)
    <3>1. PICK loc : pc' = [pc EXCEPT ![t] = loc] /\ (loc # "idle" => Before(t))
      BY <1>3 DEF CheckSize, RotateSegment, RotateFails, Sync, SyncFails, Goto, Before
    <3> QED BY <1>0, <3>1 DEF Before
  <2> QED BY <1>1, <2>1, <2>2, <2>3
<1>4. ASSUME NEW t \in Threads, Writing(t) PROVE OrderInv'
  <2>1. /\ status = "up" /\ pc[t] = "write" /\ Segments' = Segments /\ writerSeg \in Segments
        /\ pc' \in {[pc EXCEPT ![t] = "sync"], [pc EXCEPT ![t] = "idle"]}
        /\ seqOf' = seqOf /\ before' = before /\ writerSeg' = writerSeg /\ Begins(Stream, Stream')
        /\ \A s \in Segments \ {writerSeg} : files'[s] = files[s]
    BY <1>4, WriteEffect DEF Writing
  <2>2. \A s \in Segments : \A i \in 1..Count(s) : i \in 1..(Count(s)') /\ Rec(s, i)' = Rec(s, i)
    <3> SUFFICES ASSUME NEW s \in Segments, NEW i \in 1..Count(s)
                 PROVE  i \in 1..(Count(s)') /\ Rec(s, i)' = Rec(s, i)
      OBVIOUS
    <3>1. StreamOf(s)' = StreamOf(s) \/ Begins(StreamOf(s), StreamOf(s)')
      BY <2>1 DEF StreamOf
    <3>2. Begins(StreamOf(s), StreamOf(s)')
      BY <3>1, StreamOfTypes, BeginsSame
    <3> QED BY <2>1, <3>2, KeptRecord
  <2>3. Before(t)
    BY <2>1 DEF Before
  <2>4. ASSUME NEW s \in Segments', NEW i \in 1..(Count(s)'), NEW r \in before'[Rec(s, i)']
        PROVE  \E s1 \in Segments' : \E j \in 1..(Count(s1)') : Rec(s1, j)' = r /\ Earlier(s1, j, s, i)
    <3>1. /\ s \in Segments
          /\ \/ i \in 1..Count(s) /\ Rec(s, i)' = Rec(s, i)
             \/ s = writerSeg /\ i = Count(s) + 1 /\ Rec(s, i)' = seqOf[t]
      BY <1>4, WriteRecords
    <3>2. \E s1 \in Segments : \E j \in 1..Count(s1) : Rec(s1, j) = r /\ Earlier(s1, j, s, i)
      <4>1. CASE i \in 1..Count(s) /\ Rec(s, i)' = Rec(s, i)
        BY <2>1, <2>4, <3>1, <4>1 DEF OrderInv
      <4>2. CASE s = writerSeg /\ i = Count(s) + 1 /\ Rec(s, i)' = seqOf[t]
        <5>1. Logged(r)
          BY <2>1, <2>3, <2>4, <4>2 DEF OrderInv
        <5>2. PICK s1 \in Segments : \E j \in 1..Count(s1) : Rec(s1, j) = r
          BY <5>1 DEF Logged
        <5>3. PICK j \in 1..Count(s1) : Rec(s1, j) = r
          BY <5>2
        <5>4. s1 <= writerSeg /\ s1 \in Nat /\ writerSeg \in Nat /\ Count(s1) \in Nat
          BY <1>0, <5>3 DEF TypeInv, Placed
        <5>5. Earlier(s1, j, s, i)
          BY <4>2, <5>3, <5>4 DEF Earlier
        <5> QED BY <5>3, <5>5
      <4> QED BY <3>1, <4>1, <4>2
    <3>3. PICK s1 \in Segments : \E j \in 1..Count(s1) : Rec(s1, j) = r /\ Earlier(s1, j, s, i)
      BY <3>2
    <3>4. PICK j \in 1..Count(s1) : Rec(s1, j) = r /\ Earlier(s1, j, s, i)
      BY <3>3
    <3> QED BY <2>1, <2>2, <3>4
  <2>5. ASSUME NEW u \in Threads, Before(u)', NEW r \in before'[seqOf'[u]]
        PROVE  \E s \in Segments' : \E i \in 1..(Count(s)') : Rec(s, i)' = r
    <3>1. Before(u)
      BY <1>0, <2>1, <2>5 DEF Before
    <3>2. \E s \in Segments : \E i \in 1..Count(s) : Rec(s, i) = r
      BY <2>1, <2>5, <3>1 DEF OrderInv, Logged
    <3>3. PICK s \in Segments : \E i \in 1..Count(s) : Rec(s, i) = r
      BY <3>2
    <3>4. PICK i \in 1..Count(s) : Rec(s, i) = r
      BY <3>3
    <3> QED BY <2>1, <2>2, <3>4
  <2> QED BY <2>4, <2>5 DEF OrderInv, Logged, Earlier
\* A crash cuts the last segment only, and cuts it from behind.
<1>5. ASSUME Halting \/ Scanning PROVE OrderInv'
  <2>1. CutStreams /\ before' = before
    <3>1. CutStreams
      BY <1>5, CutStep
    <3> QED BY <1>5, <3>1 DEF Halting, ProcessCrash, PowerLoss, Shutdown, Halt,
                                Scanning, RecoverSegment, RecoverFails
  <2>2. \A u \in Threads : ~(Before(u)')
    <3>1. CASE Halting
      BY <3>1, HaltEffect DEF Halting, Before
    <3>2. CASE Scanning
      BY <3>2, ScanEffect DEF Before, TypeInv, Placed
    <3> QED BY <1>5, <3>1, <3>2
  <2>3. \A s1, s \in Segments : \A j \in 1..Count(s1), i \in 1..Count(s) :
          Earlier(s1, j, s, i) /\ i \in 1..(Count(s)') =>
            s1 \in Segments' /\ j \in 1..(Count(s1)') /\ Rec(s1, j)' = Rec(s1, j)
    BY <1>5, FrontKept
  <2>4. \A s \in Segments' : \A i \in 1..(Count(s)') : \A r \in before'[Rec(s, i)'] :
           \E s1 \in Segments' : \E j \in 1..(Count(s1)') : Rec(s1, j)' = r /\ Earlier(s1, j, s, i)
    <3>1. PICK B : B = before' /\ B = before
      BY <2>1
    <3> QED BY <2>1, <2>3, <3>1, KeptOrder
  <2> QED BY <2>2, <2>4 DEF OrderInv, Earlier
<1>6. ASSUME Start \/ Open \/ UNCHANGED vars PROVE OrderInv'
  <2>1. SameStreams
    BY <1>6, SameStep
  <2>2. before' = before /\ seqOf' = seqOf /\ pc' = pc
    BY <1>6 DEF Start, Open, vars, threads
  <2> QED BY <1>1, <2>1, <2>2 DEF Before
<1> QED BY <1>2, <1>3, <1>4, <1>5, <1>6 DEF Next, AppendStep, Writing, Halting, Scanning

LEMMA ReplayStep ==
  ASSUME TypeInv, TypeInv', UniqueInv, OrderInv, ReplayInv, [Next]_vars
  PROVE  ReplayInv'
<1>0. /\ ReplayRespectsOrder /\ replayed \in Seq(1..MaxSeq) /\ Len(replayed) \in Nat
      /\ \A k \in 1..Len(replayed) : replayed[k] \in 1..MaxSeq
      /\ current_sequence \in Nat /\ Segments \subseteq Nat /\ before \in [1..MaxSeq -> SUBSET (1..MaxSeq)]
  <2>1. replayed \in Seq(1..MaxSeq) /\ current_sequence \in 0..MaxSeq /\ MaxSeq \in Nat
    BY BoundsAreNat DEF TypeInv, TypeOK
  <2>2. Len(replayed) \in Nat /\ \A k \in 1..Len(replayed) : replayed[k] \in 1..MaxSeq
    BY <2>1, LenProperties, ElementOfSeq
  <2>3. ReplayRespectsOrder
    BY DEF ReplayInv
  <2>4. Segments \subseteq Nat /\ before \in [1..MaxSeq -> SUBSET (1..MaxSeq)]
    BY DEF TypeInv, TypeOK
  <2>5. current_sequence \in Nat
    BY <2>1
  <2> QED BY <2>1, <2>2, <2>3, <2>4, <2>5
\* Steps that replay nothing and keep the history.
<1>1. ASSUME replayed' = replayed, before' = before, status' # "recovering",
             status' = "up" => \A k \in 1..Len(replayed) : replayed[k] <= current_sequence'
      PROVE  ReplayInv'
  <2>1. ReplayRespectsOrder'
    BY <1>0, <1>1 DEF ReplayRespectsOrder
  <2> QED BY <1>1, <2>1 DEF ReplayInv
<1>2. ASSUME NEW t \in Threads, NextSequence(t) PROVE ReplayInv'
  <2>1. PICK q : q = current_sequence + 1
    OBVIOUS
  <2>2. /\ status = "up" /\ status' = "up" /\ before' = [before EXCEPT ![q] = acked]
        /\ replayed' = replayed /\ current_sequence' = q
    BY <1>2, <2>1 DEF NextSequence, recovery
  <2>3. \A k \in 1..Len(replayed) : replayed[k] <= current_sequence /\ replayed[k] \in Nat
    BY <1>0, <2>2 DEF ReplayInv
  <2>4. \A k \in 1..Len(replayed) : replayed[k] # q /\ replayed[k] <= q
    BY <1>0, <2>1, <2>3
  <2>5. \A k \in 1..Len(replayed) : before'[replayed[k]] = before[replayed[k]]
    BY <1>0, <2>2, <2>4
  <2>6. ReplayRespectsOrder'
    BY <1>0, <2>2, <2>5 DEF ReplayRespectsOrder
  <2> QED BY <2>2, <2>4, <2>6 DEF ReplayInv
<1>3. ASSUME NEW t \in Threads, AppendStep(t) PROVE ReplayInv'
  <2>1. /\ pc[t] # "idle" /\ status' = status /\ before' = before /\ replayed' = replayed
        /\ current_sequence' = current_sequence
    BY <1>3 DEF AppendStep, CheckSize, RotateSegment, RotateFails, Write, PartialWrite, WriteFails,
                Sync, SyncFails, recovery, atomics
  <2>2. status = "up"
    BY <2>1 DEF TypeInv, Placed
  <2> QED BY <1>1, <2>1, <2>2 DEF ReplayInv
<1>4. ASSUME Halting PROVE ReplayInv'
  <2>1. status' \in {"down", "stopped"} /\ before' = before /\ replayed' = replayed
    BY <1>4, HaltEffect DEF Halting
  <2> QED BY <1>1, <2>1
<1>5. ASSUME Start PROVE ReplayInv'
  <2>1. replayed' = <<>> /\ status' = "recovering"
    BY <1>5 DEF Start
  <2>2. Len(replayed') = 0
    BY <2>1
  <2> QED BY <2>1, <2>2 DEF ReplayInv, ReplayRespectsOrder
<1>6. ASSUME RecoverSegment PROVE ReplayInv'
  <2>1. PICK s \in recTodo :
         /\ s \in Segments /\ (\A y \in recTodo : s <= y)
         /\ status = "recovering" /\ buf = <<>> /\ Segments' = Segments
         /\ \A u \in Segments \ {s} : files'[u] = files[u]
         /\ ValidCount(files'[s]) = ValidCount(files[s])
         /\ status' = "recovering" => recTodo' = recTodo \ {s}
         /\ status' \in {"recovering", "corrupt"}
         /\ replayed' = replayed \o Records(files[s])
         /\ before' = before /\ writerSeg' = writerSeg
    BY <1>6, RecoverEffect DEF writer
  <2>2. CutStreams
    BY <1>6, CutStep DEF Scanning
  <2>3. PICK f, c, n, R : f = files[s] /\ c = Count(s) /\ n = Len(replayed) /\ R = Records(f)
    OBVIOUS
  <2>4. StreamOf(s) = f /\ f \in Seq(Cells) /\ c = ValidCount(f) /\ c \in Nat /\ s \in Nat
    <3>1. StreamOf(s) = f
      BY <2>1, <2>3, ClosedStreams
    <3>2. f \in Seq(Cells) /\ s \in Nat
      BY <2>1, <2>3, WalTypes
    <3> QED BY <2>3, <3>1, <3>2, CountIs DEF Count
  <2>5. R \in Seq(1..MaxSeq) /\ Len(R) = c /\ \A i \in 1..c : R[i] = Rec(s, i)
    BY <2>3, <2>4, RecordsAt DEF Rec
  <2>6. /\ replayed' = replayed \o R /\ Len(replayed') = n + c /\ n \in Nat
        /\ \A k \in 1..n : replayed'[k] = replayed[k]
        /\ \A k \in 1..c : replayed'[n + k] = Rec(s, k)
    <3>1. /\ Len(replayed \o R) = Len(replayed) + Len(R)
          /\ \A k \in 1..Len(replayed) : (replayed \o R)[k] = replayed[k]
          /\ \A k \in 1..Len(R) : (replayed \o R)[Len(replayed) + k] = R[k]
      <4>1. replayed \in Seq(1..MaxSeq) /\ R \in Seq(1..MaxSeq)
        BY <1>0, <2>5
      <4> QED BY <4>1, ConcatAt
    <3> QED BY <1>0, <2>1, <2>3, <2>5, <3>1
\* Every record of the scan, old or new, is of a segment that is done.
  <2>7. ASSUME NEW k \in 1..n
        PROVE  \E u \in Segments \ recTodo : \E i \in 1..Count(u) :
                 replayed[k] = Rec(u, i) /\ \A y \in recTodo : u < y
    BY <2>1, <2>3 DEF ReplayInv
  <2>8. ASSUME NEW k \in 1..(n + c)
        PROVE  \/ k \in 1..n /\ replayed'[k] = replayed[k]
               \/ k - n \in 1..c /\ replayed'[k] = Rec(s, k - n)
    <3>1. CASE k <= n
      BY <2>4, <2>6, <3>1
    <3>2. CASE ~(k <= n)
      <4>1. PICK i : i = k - n
        OBVIOUS
      <4>2. i \in 1..c /\ n + i = k
        BY <2>4, <2>6, <3>2, <4>1
      <4> QED BY <2>6, <4>1, <4>2
    <3> QED BY <3>1, <3>2
  <2>9. ReplayRespectsOrder'
    <3> SUFFICES ASSUME NEW k \in 1..(n + c), NEW l \in 1..(n + c), k < l,
                        replayed'[l] \in before[replayed'[k]]
                 PROVE  FALSE
      BY <2>1, <2>6 DEF ReplayRespectsOrder
    <3>1. CASE l \in 1..n
      <4>1. k \in 1..n
        BY <2>4, <2>6, <3>1
      <4> QED BY <1>0, <2>3, <2>6, <3>1, <4>1 DEF ReplayRespectsOrder
    <3>2. CASE l \notin 1..n
      <4>1. l - n \in 1..c /\ replayed'[l] = Rec(s, l - n)
        BY <2>8, <3>2
      <4>2. PICK j \in 1..Count(s) : replayed'[l] = Rec(s, j) /\ j = l - n
        BY <2>3, <4>1
\* Where the record at k is, this one is not in front of it.
      <4>3. ASSUME NEW u \in Segments, NEW i \in 1..Count(u), replayed'[k] = Rec(u, i), ~Earlier(s, j, u, i)
            PROVE  FALSE
        <5>1. PICK s1 \in Segments : \E j1 \in 1..Count(s1) : Rec(s1, j1) = Rec(s, j) /\ Earlier(s1, j1, u, i)
          BY <4>2, <4>3 DEF OrderInv
        <5>2. PICK j1 \in 1..Count(s1) : Rec(s1, j1) = Rec(s, j) /\ Earlier(s1, j1, u, i)
          BY <5>1
        <5>3. s1 = s /\ j1 = j
          BY <2>1, <5>2 DEF UniqueInv
        <5> QED BY <4>3, <5>2, <5>3
      <4>4. CASE k \in 1..n /\ replayed'[k] = replayed[k]
        <5>1. PICK u \in Segments \ recTodo : \E i \in 1..Count(u) :
                 replayed[k] = Rec(u, i) /\ \A y \in recTodo : u < y
          BY <2>7, <4>4
        <5>2. PICK i \in 1..Count(u) : replayed[k] = Rec(u, i)
          BY <5>1
        <5>3. u < s /\ u \in Nat /\ s \in Nat
          BY <1>0, <2>4, <5>1
        <5>4. ~Earlier(s, j, u, i)
          BY <5>3 DEF Earlier
        <5> QED BY <4>3, <4>4, <5>2, <5>4
      <4>5. CASE k - n \in 1..c /\ replayed'[k] = Rec(s, k - n)
        <5>1. PICK i \in 1..Count(s) : replayed'[k] = Rec(s, i) /\ i = k - n
          BY <2>3, <4>5
        <5>2. i < j
          BY <2>4, <2>6, <4>2, <5>1
        <5>3. ~Earlier(s, j, s, i)
          <6>1. i \in Nat /\ j \in Nat
            BY <2>3, <2>4
          <6> QED BY <2>4, <5>2, <6>1 DEF Earlier
        <5> QED BY <2>1, <4>3, <5>1, <5>3
      <4> QED BY <2>8, <4>4, <4>5
    <3> QED BY <3>1, <3>2
  <2>10. \A u \in Segments : \A i \in 1..Count(u) :
           u \in Segments' /\ i \in 1..(Count(u)') /\ Rec(u, i)' = Rec(u, i)
    <3> SUFFICES ASSUME NEW u \in Segments, NEW i \in 1..Count(u)
                 PROVE  u \in Segments' /\ i \in 1..(Count(u)') /\ Rec(u, i)' = Rec(u, i)
      OBVIOUS
    <3>1. StreamOf(u) = files[u] /\ u \in Segments'
      BY <2>1, ClosedStreams
    <3>2. StreamOf(u)' = files'[u]
      <4>1. buf' = <<>> /\ files'[u] \in Seq(Cells)
        <5>1. buf' = <<>>
          BY <1>6, <2>1 DEF RecoverSegment, writer
        <5> QED BY <3>1, <5>1, NextStreamTypes
      <4>2. files'[u] \o <<>> = files'[u]
        BY <4>1, ConcatEmptySeq
      <4> QED BY <4>1, <4>2 DEF StreamOf, Stream
    <3>3. Count(u)' = Count(u)
      <4>1. ValidCount(files'[u]) = ValidCount(files[u])
        BY <2>1
      <4> QED BY <3>1, <3>2, <4>1 DEF Count
    <3>4. i \in 1..(Count(u)')
      BY <3>3
    <3> QED BY <2>2, <3>1, <3>4, OldRecords
  <2>11. ASSUME status' = "recovering", NEW k \in 1..(n + c)
         PROVE  \E u \in Segments' \ recTodo' : \E i \in 1..(Count(u)') :
                  replayed'[k] = Rec(u, i)' /\ \A y \in recTodo' : u < y
    <3>1. recTodo' = recTodo \ {s} /\ recTodo \subseteq Segments /\ Segments' = Segments
      BY <2>1, <2>11 DEF TypeInv, TypeOK
    <3>2. CASE k \in 1..n /\ replayed'[k] = replayed[k]
      <4>1. PICK u \in Segments \ recTodo : \E i \in 1..Count(u) :
               replayed[k] = Rec(u, i) /\ \A y \in recTodo : u < y
        BY <2>7, <3>2
      <4>2. PICK i \in 1..Count(u) : replayed[k] = Rec(u, i) /\ \A y \in recTodo : u < y
        BY <4>1
      <4> QED BY <2>10, <3>1, <3>2, <4>2
    <3>3. CASE k - n \in 1..c /\ replayed'[k] = Rec(s, k - n)
      <4>1. PICK i \in 1..Count(s) : replayed'[k] = Rec(s, i)
        BY <2>3, <3>3
      <4>2. \A y \in recTodo' : s < y
        <5>1. \A y \in recTodo : s <= y /\ y \in Nat
          BY <1>0, <2>1, <3>1
        <5> QED BY <2>4, <3>1, <5>1
      <4>3. s \in Segments' \ recTodo'
        BY <2>1, <3>1
      <4> QED BY <2>1, <2>10, <4>1, <4>2, <4>3
    <3> QED BY <2>8, <3>2, <3>3
  <2> QED BY <2>1, <2>6, <2>9, <2>11 DEF ReplayInv
<1>7. ASSUME Open PROVE ReplayInv'
  <2>1. /\ status = "recovering" /\ recTodo = {} /\ status' = "up" /\ current_sequence' = max_sequence
        /\ replayed' = replayed /\ before' = before
    BY <1>7, OpenEffect DEF recovery
  <2>2. \A k \in 1..Len(replayed) : replayed[k] <= current_sequence'
    <3> SUFFICES ASSUME NEW k \in 1..Len(replayed) PROVE replayed[k] <= current_sequence'
      OBVIOUS
    <3>1. PICK u \in Segments \ recTodo : \E i \in 1..Count(u) : replayed[k] = Rec(u, i)
      BY <2>1 DEF ReplayInv
    <3>2. PICK i \in 1..Count(u) : replayed[k] = Rec(u, i)
      BY <3>1
    <3> QED BY <2>1, <3>2 DEF UniqueInv
  <2> QED BY <1>1, <2>1, <2>2
<1>8. ASSUME UNCHANGED vars PROVE ReplayInv'
  <2>1. /\ files' = files /\ buf' = buf /\ writerSeg' = writerSeg /\ replayed' = replayed /\ before' = before
        /\ status' = status /\ recTodo' = recTodo /\ current_sequence' = current_sequence
    BY <1>8 DEF vars, disk, writer, recovery, atomics
  <2>2. Segments' = Segments /\ \A u \in Segments : StreamOf(u)' = StreamOf(u)
    BY <2>1 DEF Segments, StreamOf, Stream
  <2>3. \A u \in Segments : Count(u)' = Count(u) /\ \A i \in 1..Count(u) : Rec(u, i)' = Rec(u, i)
    BY <2>2 DEF Count, Rec
  <2>4. ReplayRespectsOrder'
    BY <1>0, <2>1 DEF ReplayRespectsOrder
  <2>5. status' = "up" => \A k \in 1..Len(replayed') : replayed'[k] <= current_sequence'
    BY <2>1 DEF ReplayInv
  <2>6. ASSUME status' = "recovering", NEW k \in 1..Len(replayed')
        PROVE  \E u \in Segments' \ recTodo' : \E i \in 1..(Count(u)') :
                 replayed'[k] = Rec(u, i)' /\ \A y \in recTodo' : u < y
    <3>1. PICK u \in Segments \ recTodo : \E i \in 1..Count(u) :
             replayed[k] = Rec(u, i) /\ \A y \in recTodo : u < y
      BY <2>1, <2>6 DEF ReplayInv
    <3>2. PICK i \in 1..Count(u) : replayed[k] = Rec(u, i) /\ \A y \in recTodo : u < y
      BY <3>1
    <3> QED BY <2>1, <2>2, <2>3, <3>2
  <2> QED BY <2>4, <2>5, <2>6 DEF ReplayInv
<1>9. ASSUME RecoverFails PROVE ReplayInv'
  <2>1. status' = "failed" /\ before' = before /\ replayed' = replayed
    BY <1>9 DEF RecoverFails
  <2> QED BY <1>1, <2>1
<1> QED BY <1>2, <1>3, <1>4, <1>5, <1>6, <1>7, <1>8, <1>9 DEF Next, Halting

LogInv == AcksInv /\ UniqueInv /\ OrderInv /\ ReplayInv

LEMMA LogHolds ==
  ASSUME CleanWrites
  PROVE  Spec => []LogInv
<1>1. Init => UniqueInv /\ OrderInv /\ ReplayInv
  BY UniqueInit, OrderInit
<1>2. AcksInv /\ AcksInv' /\ UniqueInv /\ OrderInv /\ ReplayInv /\ [Next]_vars
        => UniqueInv' /\ OrderInv' /\ ReplayInv'
  <2> SUFFICES ASSUME AcksInv, AcksInv', UniqueInv, OrderInv, ReplayInv, [Next]_vars
               PROVE  UniqueInv' /\ OrderInv' /\ ReplayInv'
    OBVIOUS
  <2>1. TypeInv /\ TypeInv' /\ AckedInv
    BY DEF AcksInv
  <2> QED BY <2>1, UniqueStep, OrderStep, ReplayStep
<1>3. AcksInv /\ UniqueInv /\ OrderInv /\ ReplayInv => LogInv
  BY DEF LogInv
<1> QED BY <1>1, <1>2, <1>3, AcksHold, PTL DEF Spec

\* As long as no write stops inside a magic, recovery replays a record after
\* everything that was acknowledged before its append began, although appends
\* reach the file in any order of their numbers and failures cut the log.
THEOREM ReplayCorrect ==
  ASSUME CleanWrites
  PROVE  Spec => []ReplayRespectsOrder
<1>1. LogInv => ReplayRespectsOrder
  BY DEF LogInv, ReplayInv
<1> QED BY <1>1, LogHolds, PTL

-----------------------------------------------------------------------------
(* The size of a segment.                                                  *)

\* The limit of SegmentSizeBound, in cells.
Bound == SegmentSizeLimit + (Cardinality(Threads) - 1) * RecLen

LEMMA Sizes ==
  ASSUME TypeInv
  PROVE  /\ \A s : IsFiniteSet(Counted(s)) /\ Cardinality(Counted(s)) \in Nat
         /\ IsFiniteSet(Writers) /\ Cardinality(Writers) \in Nat
         /\ Cardinality(Writers) <= Cardinality(Threads)
         /\ Cardinality(Threads) \in Nat \ {0} /\ SegmentSizeLimit \in Nat /\ SegmentSizeLimit >= 3
         /\ Bound = SegmentSizeLimit + 3 * Cardinality(Threads) - 3 /\ current_segment_size \in Nat
<1>1. IsFiniteSet(acked)
  <2>1. acked \in SUBSET (1..MaxSeq) /\ MaxSeq \in Nat
    BY BoundsAreNat DEF TypeInv, TypeOK
  <2>2. IsFiniteSet(1..MaxSeq)
    BY <2>1, FS_Interval
  <2> QED BY <2>1, <2>2, FS_Subset
<1>2. \A s : IsFiniteSet(Counted(s)) /\ Cardinality(Counted(s)) \in Nat
  <2> SUFFICES ASSUME NEW s PROVE IsFiniteSet(Counted(s)) /\ Cardinality(Counted(s)) \in Nat
    OBVIOUS
  <2>1. Counted(s) \in SUBSET acked
    BY DEF Counted
  <2>2. IsFiniteSet(Counted(s))
    BY <1>1, <2>1, FS_Subset
  <2> QED BY <2>2, FS_CardinalityType
<1>3. IsFiniteSet(Threads) /\ Cardinality(Threads) \in Nat \ {0}
  BY ThreadsFinite, FS_CardinalityType, FS_EmptySet
<1>4. Writers \in SUBSET Threads
  BY DEF Writers
<1>5. IsFiniteSet(Writers) /\ Cardinality(Writers) \in Nat /\ Cardinality(Writers) <= Cardinality(Threads)
  BY <1>3, <1>4, FS_Subset, FS_CardinalityType
<1>6. SegmentSizeLimit \in Nat /\ SegmentSizeLimit >= 3
  BY LimitHoldsARecord DEF RecLen
<1>7. Bound = SegmentSizeLimit + 3 * Cardinality(Threads) - 3
  BY <1>3, <1>6 DEF Bound, RecLen
<1>8. current_segment_size \in Nat
  BY DEF TypeInv, TypeOK
<1> QED BY <1>2, <1>3, <1>5, <1>6, <1>7, <1>8

\* The same for the state after a step.
LEMMA NextSizes ==
  ASSUME TypeInv'
  PROVE  /\ \A s : IsFiniteSet(Counted(s)') /\ Cardinality(Counted(s)') \in Nat
         /\ Cardinality(Writers') \in Nat /\ Cardinality(Writers') <= Cardinality(Threads)
<1>1. IsFiniteSet(acked')
  <2>1. acked' \in SUBSET (1..MaxSeq) /\ MaxSeq \in Nat
    BY BoundsAreNat DEF TypeInv, TypeOK
  <2>2. IsFiniteSet(1..MaxSeq)
    BY <2>1, FS_Interval
  <2> QED BY <2>1, <2>2, FS_Subset
<1>2. \A s : IsFiniteSet(Counted(s)') /\ Cardinality(Counted(s)') \in Nat
  <2> SUFFICES ASSUME NEW s PROVE IsFiniteSet(Counted(s)') /\ Cardinality(Counted(s)') \in Nat
    OBVIOUS
  <2>1. Counted(s)' \in SUBSET (acked')
    BY DEF Counted
  <2>2. IsFiniteSet(Counted(s)')
    BY <1>1, <2>1, FS_Subset
  <2> QED BY <2>2, FS_CardinalityType
<1>3. IsFiniteSet(Threads) /\ Writers' \in SUBSET Threads
  BY ThreadsFinite DEF Writers
<1> QED BY <1>2, <1>3, FS_Subset, FS_CardinalityType

\* SizeInv in numbers.
LEMMA SizeInNumbers ==
  SizeInv <=> /\ \A s \in Segments : 3 * Cardinality(Counted(s)) <= Bound
              /\ status = "up" =>
                   /\ 3 * Cardinality(Counted(writerSeg)) <= current_segment_size
                   /\ 3 * (Cardinality(Counted(writerSeg)) + Cardinality(Writers)) <= Bound
BY DEF SizeInv, Bound, RecLen

\* Every cell of whole records is of one of the records.
LEMMA TidyCells ==
  ASSUME NEW x \in Seq(Cells), Tidy(x), NEW k \in 1..Len(x)
  PROVE  \E i \in 1..ValidCount(x) : x[k].rec = x[i * RecLen].rec
<1>1. PICK v : v = ValidCount(x)
  OBVIOUS
<1>2. v \in Nat /\ Len(x) = 3 * v /\ k \in Nat /\ 1 <= k /\ k <= 3 * v /\ \A i \in 1..v : IsRecord(x, i)
  BY <1>1, CountIs DEF Tidy, RecLen
<1>3. PICK i \in 1..v : k = 3 * i - 2 \/ k = 3 * i - 1 \/ k = 3 * i
  <2>1. PICK j : j = (k + 2) \div 3
    OBVIOUS
  <2>2. j \in Nat /\ 3 * j <= k + 2 /\ k + 2 < 3 * j + 3
    BY <1>2, <2>1
  <2>3. j \in 1..v /\ (k = 3 * j - 2 \/ k = 3 * j - 1 \/ k = 3 * j)
    BY <1>2, <2>2
  <2> QED BY <2>3
<1>4. IsRecord(x, i) /\ i * RecLen = 3 * i
  BY <1>2 DEF RecLen
<1>5. x[k].rec = x[i * RecLen].rec
  BY <1>3, <1>4 DEF IsRecord
<1> QED BY <1>1, <1>5

\* A first part of a stream, and fewer acknowledgements, count no more.
LEMMA CountedLess ==
  ASSUME TypeInv, TypeInv', NEW s \in Segments, s \in Segments', acked' \subseteq acked,
         Begins(StreamOf(s)', StreamOf(s))
  PROVE  Counted(s)' \subseteq Counted(s)
<1>1. PICK x, y : x = StreamOf(s)' /\ y = StreamOf(s)
  OBVIOUS
<1>2. x \in Seq(Cells) /\ y \in Seq(Cells) /\ Len(x) \in Nat /\ Len(y) \in Nat /\ Begins(x, y)
  BY <1>1, StreamOfTypes, NextStreamTypes, LenProperties
<1>3. \A k \in 1..Len(x) : k \in 1..Len(y) /\ x[k] = y[k]
  BY <1>2 DEF Begins
<1>4. {x[k].rec : k \in 1..Len(x)} \subseteq {y[k].rec : k \in 1..Len(y)}
  BY <1>3
<1>5. Counted(s)' = acked' \cap {x[k].rec : k \in 1..Len(x)} /\ Counted(s) = acked \cap {y[k].rec : k \in 1..Len(y)}
  BY <1>1 DEF Counted
<1> QED BY <1>4, <1>5

LEMMA SmallerSize ==
  ASSUME TypeInv, TypeInv', NEW s, Counted(s)' \subseteq Counted(s)
  PROVE  Cardinality(Counted(s)') <= Cardinality(Counted(s))
<1>1. PICK A, B : A = Counted(s)' /\ B = Counted(s)
  OBVIOUS
<1>2. IsFiniteSet(B) /\ A \in SUBSET B
  BY <1>1, Sizes
<1>3. Cardinality(A) <= Cardinality(B)
  BY <1>2, FS_Subset
<1> QED BY <1>1, <1>3

LEMMA SizeInit == Init => SizeInv
<1> SUFFICES ASSUME Init PROVE SizeInv
  OBVIOUS
<1>1. Segments = {} /\ status = "down"
  BY DEF Init, Segments
<1> QED BY <1>1 DEF SizeInv

\* The same for the state after a step.
LEMMA NextSizeInNumbers ==
  SizeInv' <=> /\ \A s \in Segments' : 3 * Cardinality(Counted(s)') <= Bound
               /\ status' = "up" =>
                    /\ 3 * Cardinality(Counted(writerSeg)') <= current_segment_size'
                    /\ 3 * (Cardinality(Counted(writerSeg)') + Cardinality(Writers')) <= Bound
BY DEF SizeInv, Bound, RecLen

\* A step that counts nothing and lets no thread through to write_all.
LEMMA QuietSize ==
  ASSUME TypeInv, TypeInv', SizeInv, Segments' = Segments,
         \A s \in Segments : Counted(s)' \subseteq Counted(s),
         \/ status' # "up"
         \/ /\ status = "up" /\ writerSeg \in Segments /\ writerSeg' = writerSeg
            /\ current_segment_size' = current_segment_size /\ Writers' \subseteq Writers
  PROVE  SizeInv'
<1>1. \A s \in Segments : /\ Cardinality(Counted(s)') <= Cardinality(Counted(s))
                          /\ Cardinality(Counted(s)') \in Nat /\ Cardinality(Counted(s)) \in Nat
  BY SmallerSize, Sizes, NextSizes
<1>2. Bound \in Int /\ \A s \in Segments : 3 * Cardinality(Counted(s)) <= Bound
  BY SizeInNumbers, Sizes
<1>3. \A s \in Segments' : 3 * Cardinality(Counted(s)') <= Bound
  BY <1>1, <1>2
<1>4. ASSUME status' = "up"
      PROVE  /\ 3 * Cardinality(Counted(writerSeg)') <= current_segment_size'
             /\ 3 * (Cardinality(Counted(writerSeg)') + Cardinality(Writers')) <= Bound
  <2>1. PICK a, b, c, d : /\ a = Cardinality(Counted(writerSeg)') /\ b = Cardinality(Counted(writerSeg))
                          /\ c = Cardinality(Writers') /\ d = Cardinality(Writers)
    OBVIOUS
  <2>2. a \in Nat /\ b \in Nat /\ a <= b
    BY <1>1, <1>4, <2>1
  <2>3. c \in Nat /\ d \in Nat /\ c <= d
    <3>1. IsFiniteSet(Writers) /\ Writers' \in SUBSET Writers
      BY <1>4, Sizes
    <3> QED BY <2>1, <3>1, FS_Subset, Sizes, NextSizes
  <2>4. 3 * b <= current_segment_size /\ 3 * (b + d) <= Bound /\ current_segment_size \in Nat
    BY <1>4, <2>1, SizeInNumbers, Sizes
  <2>5. 3 * a <= current_segment_size /\ 3 * (a + c) <= Bound
    BY ONLY <1>2, <2>2, <2>3, <2>4
  <2> QED BY <1>4, <2>1, <2>5
<1> QED BY <1>3, <1>4, NextSizeInNumbers

\* The records of whole records fill the stream.
LEMMA RecordsFill ==
  ASSUME NEW x \in Seq(Cells), Tidy(x), NEW A, A \subseteq {x[k].rec : k \in 1..Len(x)}
  PROVE  Cardinality(A) \in Nat /\ 3 * Cardinality(A) <= Len(x)
<1>1. PICK v : v = ValidCount(x)
  OBVIOUS
<1>2. v \in Nat /\ Len(x) = 3 * v
  BY <1>1, CountIs DEF Tidy, RecLen
<1>3. PICK T : T = {x[i * RecLen].rec : i \in 1..v}
  OBVIOUS
<1>4. A \in SUBSET T
  BY <1>1, <1>3, TidyCells
<1>5. IsFiniteSet(1..v) /\ Cardinality(1..v) = v
  <2>1. \A a, b \in Int : IsFiniteSet(a..b) /\ Cardinality(a..b) = IF a > b THEN 0 ELSE b - a + 1
    BY FS_Interval, Zenon
  <2>2. 1 \in Int /\ v \in Int
    BY <1>2
  <2>3. IsFiniteSet(1..v) /\ Cardinality(1..v) = IF 1 > v THEN 0 ELSE v - 1 + 1
    BY <2>1, <2>2, Zenon
  <2> QED BY <1>2, <2>3
<1>6. [i \in 1..v |-> x[i * RecLen].rec] \in Surjection(1..v, T)
  BY <1>3 DEF Surjection
<1>7. IsFiniteSet(T) /\ Cardinality(T) <= v
  <2>1. IsFiniteSet(T) /\ Cardinality(T) <= Cardinality(1..v)
    BY <1>5, <1>6, FS_Surjection
  <2> QED BY <1>5, <2>1
<1>8. IsFiniteSet(A) /\ Cardinality(A) <= Cardinality(T) /\ Cardinality(A) \in Nat /\ Cardinality(T) \in Nat
  BY <1>4, <1>7, FS_Subset, FS_CardinalityType
<1> QED BY <1>2, <1>7, <1>8

\* A record that is being written has not been acknowledged.
LEMMA WroteCounted ==
  ASSUME CleanWrites, TypeInv, TypeInv', TidyInv, AckedInv, UniqueInv,
         NEW t \in Threads, Writing(t), NEW s \in Segments
  PROVE  Counted(s)' \subseteq Counted(s)
<1>1. /\ status = "up" /\ writerSeg \in Segments /\ seqOf[t] \in 1..MaxSeq /\ Segments' = Segments
      /\ writerSeg' = writerSeg /\ acked' = acked
      /\ \A u \in Segments \ {writerSeg} : files'[u] = files[u]
  BY WriteEffect DEF Writing
<1>2. Before(t)
  BY DEF Writing, Write, PartialWrite, WriteFails, Before
<1>3. seqOf[t] \notin acked
  BY <1>1, <1>2 DEF UniqueInv, AckedInv, Logged
<1>4. CASE s # writerSeg
  <2>1. StreamOf(s)' = StreamOf(s)
    BY <1>1, <1>4 DEF StreamOf
  <2> QED BY <1>1, <2>1 DEF Counted
<1>5. CASE s = writerSeg
  <2>1. PICK S, Z, e, r : S = Stream /\ r = seqOf[t] /\ e = Encode(r) /\ Z = S \o e
    OBVIOUS
  <2>2. Stream' = S \/ Stream' = Z
    <3>1. nova_fault # "partial_write"
      BY DEF TidyInv
    <3> QED BY <2>1, <3>1, CleanWriteEffect
  <2>3. Counted(s) = acked \cap {S[k].rec : k \in 1..Len(S)} /\ StreamOf(s) = S /\ StreamOf(s)' = Stream'
    BY <1>1, <1>5, <2>1 DEF Counted, StreamOf
  <2>4. CASE Stream' = S
    BY <1>1, <2>3, <2>4 DEF Counted
  <2>5. CASE Stream' = Z
    <3>1. S \in Seq(Cells) /\ e \in Seq(Cells) /\ Len(e) = 3 /\ \A k \in 1..3 : e[k].rec = r
      <4>1. S \in Seq(Cells) /\ r \in 1..MaxSeq
        BY <1>1, <2>1, StreamTypes
      <4>2. e \in Seq(Cells) /\ Len(e) = 3 /\ \A k \in 1..3 : e[k] = [rec |-> r, part |-> k]
        BY <2>1, <4>1, EncodeCells
      <4> QED BY <4>1, <4>2
    <3>2. /\ Len(S) \in Nat /\ Len(Z) = Len(S) + 3 /\ \A k \in 1..Len(S) : Z[k] = S[k]
          /\ \A k \in 1..3 : Z[Len(S) + k] = e[k]
      <4>1. S \in Seq(Cells) /\ e \in Seq(Cells)
        BY <3>1
      <4>2. /\ Len(S) \in Nat /\ Len(S \o e) = Len(S) + Len(e)
            /\ \A k \in 1..Len(S) : (S \o e)[k] = S[k]
            /\ \A k \in 1..Len(e) : (S \o e)[Len(S) + k] = e[k]
        BY <4>1, ConcatAt
      <4> QED BY <2>1, <3>1, <4>2
    <3>3. ASSUME NEW k \in 1..Len(Z) PROVE Z[k].rec = r \/ Z[k].rec \in {S[j].rec : j \in 1..Len(S)}
      <4>1. CASE k <= Len(S)
        BY <3>2, <4>1
      <4>2. CASE k > Len(S)
        <5>1. k - Len(S) \in 1..3 /\ k = Len(S) + (k - Len(S))
          BY <3>2, <4>2
        <5> QED BY <3>1, <3>2, <5>1
      <4> QED BY <3>2, <4>1, <4>2
    <3>4. Counted(s)' = acked \cap {Z[k].rec : k \in 1..Len(Z)}
      BY <1>1, <2>3, <2>5 DEF Counted
    <3>5. r \notin acked
      BY <1>3, <2>1
    <3> SUFFICES ASSUME NEW y \in Counted(s)' PROVE y \in Counted(s)
      OBVIOUS
    <3>6. y \in acked /\ \E k \in 1..Len(Z) : y = Z[k].rec
      BY <3>4
    <3>7. y \in {S[j].rec : j \in 1..Len(S)}
      BY <3>3, <3>5, <3>6
    <3> QED BY <2>3, <3>6, <3>7
  <2> QED BY <2>2, <2>4, <2>5
<1> QED BY <1>4, <1>5

LEMMA SizeStep ==
  ASSUME CleanWrites, TypeInv, TypeInv', TidyInv, LastInv, AckedInv, UniqueInv, SizeInv, [Next]_vars
  PROVE  SizeInv'
<1>0. /\ pc \in [Threads -> {"idle", "check", "rotate", "write", "sync"}]
      /\ \A t \in Threads : pc[t] # "idle" => status = "up"
      /\ status = "up" => writerSeg \in Segments
  BY DEF TypeInv, TypeOK, Placed
\* Streams that stay, or lose an end, count no more.
<1>1. ASSUME acked' \subseteq acked, NEW s \in Segments,
             SameStreams \/ CutStreams
      PROVE  Counted(s)' \subseteq Counted(s)
  <2>1. s \in Segments' /\ StreamOf(s) \in Seq(Cells)
    BY <1>1, StreamOfTypes DEF SameStreams, CutStreams
  <2>2. Begins(StreamOf(s)', StreamOf(s))
    BY <1>1, <2>1, BeginsSame DEF SameStreams, CutStreams
  <2> QED BY <1>1, <2>1, <2>2, CountedLess
<1>2. ASSUME NEW t \in Threads, NextSequence(t) \/ SyncFails(t) PROVE SizeInv'
  <2>1. /\ UNCHANGED <<files, buf, writerSeg, acked, status, current_segment_size>> /\ status = "up"
        /\ \E loc \in {"check", "idle"} : pc' = [pc EXCEPT ![t] = loc]
    BY <1>0, <1>2 DEF NextSequence, SyncFails, disk, writer, atomics, Goto
  <2>2. Segments' = Segments /\ SameStreams
    BY <1>2, <2>1, SameStep DEF Moving, Segments
  <2>3. Writers' \subseteq Writers
    BY <1>0, <2>1 DEF Writers
  <2> QED BY <1>0, <1>1, <2>1, <2>2, <2>3, QuietSize
<1>3. ASSUME NEW t \in Threads, CheckSize(t) PROVE SizeInv'
  <2>1. /\ UNCHANGED <<files, buf, writerSeg, acked, status, current_segment_size>>
        /\ pc[t] = "check" /\ status = "up"
        /\ pc' = [pc EXCEPT ![t] = IF current_segment_size + RecLen > SegmentSizeLimit
                                   THEN "rotate" ELSE "write"]
    BY <1>0, <1>3 DEF CheckSize, disk, writer, atomics, Goto
  <2>2. Segments' = Segments /\ SameStreams
    BY <1>3, <2>1, SameStep DEF Moving, Segments
  <2>3. CASE current_segment_size + RecLen > SegmentSizeLimit
    <3>1. Writers' \subseteq Writers
      BY <1>0, <2>1, <2>3 DEF Writers
    <3> QED BY <1>0, <1>1, <2>1, <2>2, <3>1, QuietSize
  <2>4. CASE ~(current_segment_size + RecLen > SegmentSizeLimit)
    <3>1. \A s \in Segments : StreamOf(s)' = StreamOf(s)
      BY <2>2 DEF SameStreams
    <3>2. \A s \in Segments : Counted(s)' = Counted(s)
      BY <2>1, <3>1 DEF Counted
    <3>3. PICK a, T, W : a = Cardinality(Counted(writerSeg)) /\ T = Cardinality(Threads) /\ W = Cardinality(Writers')
      OBVIOUS
    <3>4. Counted(writerSeg)' = Counted(writerSeg)
      BY <1>0, <2>1, <3>2
    <3>5. /\ a \in Nat /\ T \in Nat /\ W \in Nat /\ W <= T /\ SegmentSizeLimit \in Nat
          /\ current_segment_size \in Nat /\ Bound = SegmentSizeLimit + 3 * T - 3
          /\ 3 * a <= current_segment_size /\ current_segment_size + 3 <= SegmentSizeLimit
      <4>1. current_segment_size + 3 <= SegmentSizeLimit
        BY <2>4, Sizes DEF RecLen
      <4> QED BY <2>1, <3>3, <4>1, Sizes, NextSizes, SizeInNumbers
    <3>6. 3 * (a + W) <= Bound
      BY ONLY <3>5
    <3>7. \A s \in Segments' : 3 * Cardinality(Counted(s)') <= Bound
      BY <2>2, <3>2, SizeInNumbers
    <3> QED BY <2>1, <3>3, <3>4, <3>5, <3>6, <3>7, NextSizeInNumbers
  <2> QED BY <2>3, <2>4
<1>4. ASSUME NEW t \in Threads, RotateFails(t) PROVE SizeInv'
  <2>1. /\ UNCHANGED <<writerSeg, acked, status, current_segment_size>> /\ Segments' = Segments
        /\ status = "up" /\ pc' = [pc EXCEPT ![t] = "idle"]
    BY <1>4, RotateFailsEffect
  <2>2. SameStreams
    BY <1>4, SameStep DEF Moving
  <2>3. Writers' \subseteq Writers
    BY <1>0, <2>1 DEF Writers
  <2> QED BY <1>0, <1>1, <2>1, <2>2, <2>3, QuietSize
<1>5. ASSUME NEW t \in Threads, RotateSegment(t) PROVE SizeInv'
  <2>1. PICK n : n = current_segment_index + 1
    OBVIOUS
  <2>2. /\ Segments' = Segments \cup {n} /\ writerSeg' = n /\ StreamOf(n)' = <<>> /\ acked' = acked
        /\ current_segment_size' = 0 /\ \A s \in Segments : StreamOf(s)' = StreamOf(s)
    BY <1>5, <2>1, RotateEffect
  <2>3. \A s \in Segments : Counted(s)' = Counted(s)
    BY <2>2 DEF Counted
  <2>4. Counted(n)' = {}
    <3>1. Len(StreamOf(n)') = 0
      BY <2>2, EmptySeq
    <3> QED BY <3>1 DEF Counted
  <2>5. PICK T, W : T = Cardinality(Threads) /\ W = Cardinality(Writers')
    OBVIOUS
  <2>6. /\ T \in Nat /\ W \in Nat /\ W <= T /\ SegmentSizeLimit \in Nat /\ SegmentSizeLimit >= 3
        /\ Bound = SegmentSizeLimit + 3 * T - 3
    BY <2>5, Sizes, NextSizes
  <2>7. 3 * (0 + W) <= Bound /\ 3 * 0 <= Bound /\ 3 * 0 <= 0
    BY ONLY <2>6
  <2>8. Cardinality(Counted(n)') = 0
    BY <2>4, FS_EmptySet
  <2>9. \A s \in Segments' : 3 * Cardinality(Counted(s)') <= Bound
    BY <2>2, <2>3, <2>7, <2>8, SizeInNumbers
  <2>10. Counted(writerSeg)' = Counted(n)'
    BY <2>2 DEF Counted, StreamOf
  <2> QED BY <2>2, <2>5, <2>7, <2>8, <2>9, <2>10, NextSizeInNumbers
<1>6. ASSUME NEW t \in Threads, Writing(t) PROVE SizeInv'
  <2>1. /\ UNCHANGED <<writerSeg, acked, status, current_segment_size>> /\ Segments' = Segments
        /\ status = "up" /\ writerSeg \in Segments /\ pc[t] = "write"
        /\ pc' \in {[pc EXCEPT ![t] = "sync"], [pc EXCEPT ![t] = "idle"]}
    BY <1>6, WriteEffect DEF Writing, atomics
  <2>2. Writers' \subseteq Writers
    BY <1>0, <2>1 DEF Writers
  <2>3. \A s \in Segments : Counted(s)' \subseteq Counted(s)
    BY <1>6, WroteCounted
  <2> QED BY <2>1, <2>2, <2>3, QuietSize
<1>7. ASSUME NEW t \in Threads, Sync(t) PROVE SizeInv'
  <2>1. /\ UNCHANGED <<files, buf, writerSeg, status>> /\ pc[t] = "sync" /\ status = "up"
        /\ current_segment_size' = current_segment_size + 3 /\ pc' = [pc EXCEPT ![t] = "idle"]
        /\ acked' \subseteq acked \cup {seqOf[t]}
    BY <1>0, <1>7 DEF Sync, writer, Goto, RecLen
  <2>2. PICK S, w, c, r : S = Stream /\ w = writerSeg /\ c = ValidCount(S) /\ r = seqOf[t]
    OBVIOUS
  <2>3. w \in Segments /\ Segments' = Segments /\ \A s \in Segments : StreamOf(s)' = StreamOf(s)
    BY <1>0, <2>1, <2>2 DEF StreamOf, Stream, Segments
  \* The acknowledged record is the last of the segment being written.
  <2>4. c \in 1..Count(w) /\ Rec(w, c) = r
    <3>1. S \in Seq(Cells) /\ Len(S) \in Nat /\ Tidy(S) /\ S # <<>> /\ S[Len(S)].rec = r
      <4>1. Tidy(S)
        BY <2>1, <2>2, <2>3 DEF TidyInv, Torn
      <4> QED BY <2>1, <2>2, <2>3, <4>1, StreamTypes DEF LastInv
    <3>2. c \in Nat /\ Len(S) = c * RecLen /\ c \in 1..c
      <4>1. c \in Nat /\ Len(S) = RecLen * c
        BY <2>2, <3>1, CountIs DEF Tidy
      <4>2. Len(S) # 0
        BY <3>1, EmptySeq
      <4> QED BY <4>1, <4>2 DEF RecLen
    <3> QED BY <2>2, <3>1, <3>2 DEF Count, Rec, StreamOf
  <2>5. ASSUME NEW s \in Segments \ {w} PROVE Counted(s)' \subseteq Counted(s)
    <3>1. PICK x : x = StreamOf(s)
      OBVIOUS
    <3>2. x \in Seq(Cells) /\ Tidy(x)
      BY <2>2, <3>1, StreamOfTypes DEF TidyInv, StreamOf
    <3>3. ASSUME NEW k \in 1..Len(x) PROVE x[k].rec # r
      <4>1. PICK i \in 1..ValidCount(x) : x[k].rec = x[i * RecLen].rec
        BY <3>2, TidyCells
      <4>2. i \in 1..Count(s) /\ x[k].rec = Rec(s, i)
        BY <3>1, <4>1 DEF Count, Rec
      <4> QED BY <2>3, <2>4, <4>2 DEF UniqueInv
    <3>4. /\ Counted(s)' = acked' \cap {x[k].rec : k \in 1..Len(x)}
          /\ Counted(s) = acked \cap {x[k].rec : k \in 1..Len(x)}
      BY <2>3, <3>1 DEF Counted
    <3> QED BY <2>1, <2>2, <3>3, <3>4
  <2>6. Counted(w)' \subseteq Counted(w) \cup {r}
    BY <2>1, <2>2, <2>3 DEF Counted
  <2>7. PICK C, D, W, V : /\ C = Counted(w) /\ D = Counted(w)' /\ W = Writers /\ V = Writers'
    OBVIOUS
  <2>8. Cardinality(D) <= Cardinality(C) + 1 /\ Cardinality(D) \in Nat /\ Cardinality(C) \in Nat
    <3>1. IsFiniteSet(C) /\ Cardinality(C) \in Nat /\ Cardinality(D) \in Nat
      BY <2>7, Sizes, NextSizes
    <3>2. IsFiniteSet(C \cup {r}) /\ (Cardinality(C \cup {r}) = Cardinality(C) \/ Cardinality(C \cup {r}) = Cardinality(C) + 1)
      BY <3>1, FS_AddElement
    <3>3. D \in SUBSET (C \cup {r})
      BY <2>6, <2>7
    <3>4. Cardinality(D) <= Cardinality(C \cup {r})
      BY <3>2, <3>3, FS_Subset
    <3> QED BY <3>1, <3>2, <3>4
  <2>9. Cardinality(V) = Cardinality(W) - 1 /\ Cardinality(W) \in Nat
    <3>1. V = W \ {t} /\ t \in W
      BY <1>0, <2>1, <2>7 DEF Writers
    <3>2. IsFiniteSet(W) /\ Cardinality(W) \in Nat
      BY <2>7, Sizes
    <3>3. Cardinality(W \ {t}) = Cardinality(W) - 1
      BY <3>1, <3>2, FS_RemoveElement
    <3> QED BY <3>1, <3>2, <3>3
  <2>10. PICK a, b, d, e : a = Cardinality(C) /\ b = Cardinality(D) /\ d = Cardinality(W) /\ e = Cardinality(V)
    OBVIOUS
  <2>11. /\ a \in Nat /\ b \in Nat /\ d \in Nat /\ e = d - 1 /\ b <= a + 1 /\ e \in Nat
         /\ Bound \in Int /\ current_segment_size \in Nat
         /\ 3 * a <= current_segment_size /\ 3 * (a + d) <= Bound
    BY <2>1, <2>2, <2>7, <2>8, <2>9, <2>10, Sizes, NextSizes, SizeInNumbers
  <2>12. 3 * b <= current_segment_size + 3 /\ 3 * (b + e) <= Bound /\ 3 * b <= Bound
    BY ONLY <2>11
  <2>13. ASSUME NEW s \in Segments \ {w} PROVE 3 * Cardinality(Counted(s)') <= Bound
    <3>1. Cardinality(Counted(s)') <= Cardinality(Counted(s))
      BY <2>5, SmallerSize
    <3>2. Cardinality(Counted(s)') \in Nat /\ Cardinality(Counted(s)) \in Nat /\ 3 * Cardinality(Counted(s)) <= Bound
      BY Sizes, NextSizes, SizeInNumbers
    <3> QED BY <2>11, <3>1, <3>2
  <2>14. Counted(writerSeg)' = D
    <3>1. writerSeg' = w
      BY <2>1, <2>2
    <3> QED BY <2>7, <3>1 DEF Counted, StreamOf
  <2> QED BY <2>1, <2>3, <2>7, <2>10, <2>12, <2>13, <2>14, NextSizeInNumbers
<1>8. ASSUME Halting \/ Scanning PROVE SizeInv'
  <2>1. status' # "up" /\ acked' \subseteq acked
    <3>1. CASE Halting
      BY <3>1, HaltEffect DEF Halting
    <3>2. CASE Scanning
      BY <3>2, ScanEffect
    <3> QED BY <1>8, <3>1, <3>2
  <2>2. CutStreams
    BY <1>8, CutStep
  <2> QED BY <1>1, <2>1, <2>2, QuietSize DEF CutStreams
<1>9. ASSUME Start PROVE SizeInv'
  <2>1. status' # "up" /\ acked' = acked /\ Segments' = Segments
    BY <1>9 DEF Start, disk, Segments
  <2>2. SameStreams
    BY <1>9, SameStep
  <2> QED BY <1>1, <2>1, <2>2, QuietSize
<1>10. ASSUME Open PROVE SizeInv'
  <2>1. /\ \/ /\ Segments # {} /\ files' = files /\ writerSeg' = writerSeg
           \/ /\ Segments = {} /\ writerSeg' = 0 /\ files' = [u \in {0} |-> <<>>]
        /\ status = "recovering" /\ recTodo = {} /\ acked' = acked /\ pc' = pc
        /\ writerSeg' \in Segments' /\ current_segment_size' = Len(files'[writerSeg'])
        /\ buf = <<>> /\ buf' = <<>>
    BY <1>10, OpenEffect DEF threads
  <2>2. SameStreams
    BY <1>10, SameStep
  <2>3. PICK w, x : w = writerSeg' /\ x = StreamOf(w)'
    OBVIOUS
  <2>4. x \in Seq(Cells) /\ Tidy(x) /\ Len(x) = current_segment_size' /\ Counted(w)' = acked' \cap {x[k].rec : k \in 1..Len(x)}
    <3>1. files'[w] \in Seq(Cells)
      BY <2>1, <2>3 DEF TypeInv, TypeOK
    <3>2. x = files'[w]
      <4>1. files'[w] \o <<>> = files'[w]
        BY <3>1, ConcatEmptySeq
      <4> QED BY <2>1, <2>3, <4>1 DEF StreamOf, Stream
    <3>3. Tidy(x)
      <4>1. CASE Segments = {}
        BY <2>1, <2>3, <3>2, <4>1, EmptyTidy
      <4>2. CASE Segments # {}
        <5>1. writerSeg \in Segments /\ w = writerSeg
          BY <2>1, <2>3, <4>2 DEF TypeInv, Placed
        <5>2. x = Stream
          BY <2>2, <2>3, <5>1 DEF SameStreams, StreamOf
        <5> QED BY <2>1, <5>1, <5>2 DEF TidyInv, Torn
      <4> QED BY <4>1, <4>2
    <3> QED BY <2>1, <2>3, <3>1, <3>2, <3>3 DEF Counted
  <2>5. PICK b : b = Cardinality(Counted(w)')
    OBVIOUS
  <2>6. b \in Nat /\ 3 * b <= current_segment_size'
    BY <2>4, <2>5, RecordsFill
  <2>7. Writers' = {} /\ Cardinality(Writers') = 0
    <3>1. Writers' = {}
      BY <1>0, <2>1 DEF Writers
    <3> QED BY <3>1, FS_EmptySet
  <2>8. ASSUME NEW s \in Segments' PROVE 3 * Cardinality(Counted(s)') <= Bound
    <3>1. CASE s \in Segments
      <4>1. Cardinality(Counted(s)') <= Cardinality(Counted(s))
        BY <1>1, <2>1, <2>2, <3>1, SmallerSize
      <4> QED BY <3>1, <4>1, Sizes, NextSizes, SizeInNumbers
    <3>2. CASE s \notin Segments
      <4>1. StreamOf(s)' = <<>>
        BY <2>2, <3>2 DEF SameStreams
      <4>2. Counted(s)' = {}
        <5>1. Len(StreamOf(s)') = 0
          BY <4>1, EmptySeq
        <5> QED BY <5>1 DEF Counted
      <4>3. Cardinality(Counted(s)') = 0
        BY <4>2, FS_EmptySet
      <4> QED BY <4>3, Sizes
    <3> QED BY <3>1, <3>2
  <2>9. 3 * b <= Bound /\ b + 0 = b
    BY <2>1, <2>3, <2>5, <2>6, <2>8
  <2>10. Counted(writerSeg)' = Counted(w)'
    BY <2>3 DEF Counted, StreamOf
  <2> QED BY <2>5, <2>6, <2>7, <2>8, <2>9, <2>10, NextSizeInNumbers
<1>11. ASSUME UNCHANGED vars PROVE SizeInv'
  <2>1. /\ UNCHANGED <<files, buf, writerSeg, acked, status, current_segment_size, pc>>
    BY <1>11 DEF vars, disk, writer, atomics, threads
  <2>2. SameStreams /\ Segments' = Segments /\ Writers' = Writers
    BY <1>11, <2>1, SameStep DEF Segments, Writers
  <2>3. \A s \in Segments : Counted(s)' \subseteq Counted(s)
    BY <1>1, <2>1, <2>2
  <2> QED BY <1>0, <2>1, <2>2, <2>3, QuietSize
<1> QED BY <1>2, <1>3, <1>4, <1>5, <1>6, <1>7, <1>8, <1>9, <1>10, <1>11
        DEF Next, AppendStep, Writing, Halting, Scanning

\* As long as no write stops inside a magic, the acknowledged records of a
\* segment exceed its limit by no more than one record for each other
\* appending thread, although append tests the size without the mutex.
THEOREM SizeCorrect ==
  ASSUME CleanWrites
  PROVE  Spec => []SegmentSizeBound
<1>1. Init => SizeInv
  BY SizeInit
<1>2. LogInv /\ LogInv' /\ SizeInv /\ [Next]_vars => SizeInv'
  <2> SUFFICES ASSUME LogInv, LogInv', SizeInv, [Next]_vars
               PROVE  SizeInv'
    OBVIOUS
  <2>1. TypeInv /\ TypeInv' /\ TidyInv /\ LastInv /\ AckedInv /\ UniqueInv
    BY DEF LogInv, AcksInv
  <2> QED BY <2>1, SizeStep
<1>3. SizeInv => SegmentSizeBound
  BY DEF SizeInv, SegmentSizeBound, Counted, StreamOf
<1> QED BY <1>1, <1>2, <1>3, LogHolds, PTL DEF Spec

-----------------------------------------------------------------------------
(* The log as a sequence: its entries, each at the place that the number   *)
(* of entries in front of it gives.                                        *)

\* A finite set of entries, no two at the same position.
Placing(E) ==
  /\ E \in SUBSET (Nat \X Nat \X (1..MaxSeq)) /\ IsFiniteSet(E)
  /\ \A d, e \in E : d[1] = e[1] /\ d[2] = e[2] => d = e

LEMMA FrontOrdered ==
  ASSUME NEW E, Placing(E)
  PROVE  Ordered(E, [e \in E |-> Front(E, e)])
<1>1. \A e \in E : e[1] \in Nat /\ e[2] \in Nat
  BY DEF Placing
<1>2. \A d, e \in E : d \in Front(E, e) <=> Earlier(d[1], d[2], e[1], e[2])
  BY DEF Front
<1>3. \A e \in E : e \notin Front(E, e) /\ Front(E, e) \in SUBSET E
  BY <1>1, <1>2 DEF Earlier, Front
<1>4. ASSUME NEW d \in E, NEW e \in E, d \in Front(E, e) PROVE Front(E, d) \subseteq Front(E, e)
  <2> SUFFICES ASSUME NEW c \in Front(E, d) PROVE c \in Front(E, e)
    OBVIOUS
  <2>1. c \in E /\ Earlier(c[1], c[2], d[1], d[2]) /\ Earlier(d[1], d[2], e[1], e[2])
    BY <1>2, <1>4 DEF Front
  <2>2. Earlier(c[1], c[2], e[1], e[2])
    BY <1>1, <2>1 DEF Earlier
  <2> QED BY <1>2, <2>1, <2>2
<1>5. ASSUME NEW d \in E, NEW e \in E, d # e PROVE d \in Front(E, e) \/ e \in Front(E, d)
  <2>1. ~(d[1] = e[1] /\ d[2] = e[2])
    BY <1>5 DEF Placing
  <2> QED BY <1>1, <1>2, <2>1 DEF Earlier
<1> QED BY <1>3, <1>4, <1>5 DEF Ordered

LEMMA InOrderIs ==
  ASSUME NEW E, Placing(E)
  PROVE  /\ Cardinality(E) \in Nat
         /\ InOrder[E] \in Seq(1..MaxSeq) /\ Len(InOrder[E]) = Cardinality(E)
         /\ \A e \in E : /\ Cardinality(Front(E, e)) \in 0..(Cardinality(E) - 1)
                         /\ InOrder[E][Cardinality(Front(E, e)) + 1] = e[3]
         /\ \A n \in 1..Cardinality(E) : \E e \in E : Cardinality(Front(E, e)) = n - 1
<1>1. PICK below : below = [e \in E |-> Front(E, e)]
  OBVIOUS
<1>2. Ordered(E, below) /\ IsFiniteSet(E)
  BY <1>1, FrontOrdered DEF Placing
<1>3. /\ Cardinality(E) \in Nat
      /\ \A x \in E : Cardinality(below[x]) \in 0..(Cardinality(E) - 1)
      /\ \A x, y \in E : x \in below[y] => Cardinality(below[x]) < Cardinality(below[y])
      /\ \A n \in 1..Cardinality(E) : \E x \in E : Cardinality(below[x]) = n - 1
  BY <1>2, Places
<1>4. \A e \in E : below[e] = Front(E, e)
  BY <1>1
<1>5. InOrder[E] = [n \in 1..Cardinality(E) |-> (CHOOSE e \in E : Cardinality(Front(E, e)) = n - 1)[3]]
  BY DEF InOrder, Placing
<1>6. ASSUME NEW n \in 1..Cardinality(E), NEW e \in E, Cardinality(Front(E, e)) = n - 1
      PROVE  InOrder[E][n] = e[3]
  <2>1. PICK d : d = CHOOSE x \in E : Cardinality(Front(E, x)) = n - 1
    OBVIOUS
  <2>2. d \in E /\ Cardinality(Front(E, d)) = n - 1
    BY <1>6, <2>1
  <2>3. d = e
    <3>1. d \notin below[e] /\ e \notin below[d]
      BY <1>3, <1>4, <1>6, <2>2
    <3> QED BY <1>2, <2>2, <3>1 DEF Ordered
  <2> QED BY <1>5, <2>1, <2>3
<1>7. \A n \in 1..Cardinality(E) : \E e \in E : Cardinality(Front(E, e)) = n - 1
  BY <1>3, <1>4
<1>8. ASSUME NEW e \in E
      PROVE  /\ Cardinality(Front(E, e)) \in 0..(Cardinality(E) - 1)
             /\ InOrder[E][Cardinality(Front(E, e)) + 1] = e[3]
  <2>1. Cardinality(Front(E, e)) \in 0..(Cardinality(E) - 1)
    BY <1>3, <1>4
  <2>2. /\ Cardinality(Front(E, e)) + 1 \in 1..Cardinality(E)
        /\ Cardinality(Front(E, e)) = (Cardinality(Front(E, e)) + 1) - 1
    BY <1>3, <2>1
  <2> QED BY <1>6, <2>1, <2>2
<1>9. InOrder[E] \in Seq(1..MaxSeq) /\ Len(InOrder[E]) = Cardinality(E)
  <2>1. ASSUME NEW n \in 1..Cardinality(E) PROVE InOrder[E][n] \in 1..MaxSeq
    <3>1. PICK e \in E : Cardinality(Front(E, e)) = n - 1
      BY <1>7
    <3>2. e[3] \in 1..MaxSeq
      BY DEF Placing
    <3> QED BY <1>6, <3>1, <3>2
  <2>2. InOrder[E] \in [1..Cardinality(E) -> 1..MaxSeq]
    BY <1>5, <2>1
  <2> QED BY <1>3, <2>2, FunctionIsSeq
<1> QED BY <1>3, <1>7, <1>8, <1>9

\* What the sequence holds.
LEMMA InOrderRange ==
  ASSUME NEW E, Placing(E)
  PROVE  \A r : (\E k \in 1..Len(InOrder[E]) : InOrder[E][k] = r) <=> (\E e \in E : e[3] = r)
<1>1. /\ Cardinality(E) \in Nat /\ Len(InOrder[E]) = Cardinality(E)
      /\ \A e \in E : /\ Cardinality(Front(E, e)) \in 0..(Cardinality(E) - 1)
                      /\ InOrder[E][Cardinality(Front(E, e)) + 1] = e[3]
      /\ \A n \in 1..Cardinality(E) : \E e \in E : Cardinality(Front(E, e)) = n - 1
  BY InOrderIs
<1>2. ASSUME NEW k \in 1..Len(InOrder[E]) PROVE \E e \in E : e[3] = InOrder[E][k]
  <2>1. PICK e \in E : Cardinality(Front(E, e)) = k - 1
    BY <1>1, <1>2
  <2>2. Cardinality(Front(E, e)) + 1 = k
    BY <1>1, <2>1
  <2> QED BY <1>1, <2>2
<1>3. ASSUME NEW e \in E PROVE \E k \in 1..Len(InOrder[E]) : InOrder[E][k] = e[3]
  <2>1. Cardinality(Front(E, e)) + 1 \in 1..Len(InOrder[E])
    BY <1>1
  <2> QED BY <1>1, <2>1
<1> QED BY <1>2, <1>3

\* Entries with everything in front of them make up the first part of the log.
LEMMA InOrderPrefix ==
  ASSUME NEW F, Placing(F), NEW E \in SUBSET F,
         \A e \in E, f \in F : Earlier(f[1], f[2], e[1], e[2]) => f \in E
  PROVE  /\ Placing(E) /\ Cardinality(E) \in 0..Cardinality(F)
         /\ InOrder[E] = SubSeq(InOrder[F], 1, Cardinality(E))
<1>1. IsFiniteSet(E) /\ Cardinality(E) <= Cardinality(F)
  BY FS_Subset DEF Placing
<1>2. Placing(E)
  BY <1>1 DEF Placing
<1>3. /\ Cardinality(E) \in Nat /\ InOrder[E] \in Seq(1..MaxSeq) /\ Len(InOrder[E]) = Cardinality(E)
      /\ \A e \in E : InOrder[E][Cardinality(Front(E, e)) + 1] = e[3]
      /\ \A n \in 1..Cardinality(E) : \E e \in E : Cardinality(Front(E, e)) = n - 1
  BY <1>2, InOrderIs
<1>4. /\ Cardinality(F) \in Nat /\ InOrder[F] \in Seq(1..MaxSeq) /\ Len(InOrder[F]) = Cardinality(F)
      /\ \A e \in F : InOrder[F][Cardinality(Front(F, e)) + 1] = e[3]
  BY InOrderIs
<1>5. \A e \in E : Front(E, e) = Front(F, e)
  BY DEF Front
<1>6. ASSUME NEW n \in 1..Cardinality(E) PROVE InOrder[E][n] = InOrder[F][n]
  <2>1. PICK e \in E : Cardinality(Front(E, e)) = n - 1
    BY <1>3
  <2>2. Cardinality(Front(E, e)) + 1 = n /\ Cardinality(Front(F, e)) + 1 = n
    BY <1>3, <1>5, <2>1
  <2> QED BY <1>3, <1>4, <2>2
<1>7. Cardinality(E) \in 0..Len(InOrder[F])
  BY <1>1, <1>3, <1>4
<1>8. /\ SubSeq(InOrder[F], 1, Cardinality(E)) \in Seq(1..MaxSeq)
      /\ Len(SubSeq(InOrder[F], 1, Cardinality(E))) = Cardinality(E)
      /\ \A k \in 1..Cardinality(E) : SubSeq(InOrder[F], 1, Cardinality(E))[k] = InOrder[F][k]
  BY <1>4, <1>7, PrefixAt, ZenonT(60)
<1>9. InOrder[E] = SubSeq(InOrder[F], 1, Cardinality(E))
  <2>1. \A k \in 1..Len(InOrder[E]) : InOrder[E][k] = SubSeq(InOrder[F], 1, Cardinality(E))[k]
    BY <1>3, <1>6, <1>8
  <2> QED BY <1>3, <1>8, <2>1, SeqEqual
<1> QED BY <1>2, <1>4, <1>7, <1>9

\* An entry behind all the others is the last of the log.
LEMMA InOrderAppend ==
  ASSUME NEW F, Placing(F), NEW x \in F, NEW E, E = F \ {x},
         \A e \in E : Earlier(e[1], e[2], x[1], x[2])
  PROVE  Placing(E) /\ InOrder[F] = Append(InOrder[E], x[3])
<1>1. \A e \in F : e[1] \in Nat /\ e[2] \in Nat
  BY DEF Placing
<1>2. ASSUME NEW e \in E PROVE ~Earlier(x[1], x[2], e[1], e[2])
  BY <1>1 DEF Earlier
<1>3. \A e \in E, f \in F : Earlier(f[1], f[2], e[1], e[2]) => f \in E
  BY <1>2
<1>4. /\ Placing(E) /\ Cardinality(E) \in 0..Cardinality(F)
      /\ InOrder[E] = SubSeq(InOrder[F], 1, Cardinality(E))
  BY <1>3, InOrderPrefix
<1>5. Cardinality(E) = Cardinality(F) - 1
  BY FS_RemoveElement DEF Placing
<1>6. Front(F, x) = E
  BY <1>1 DEF Front, Earlier
<1>7. /\ Cardinality(F) \in Nat /\ InOrder[F] \in Seq(1..MaxSeq) /\ Len(InOrder[F]) = Cardinality(F)
      /\ InOrder[F][Cardinality(E) + 1] = x[3]
  <2>1. /\ Cardinality(F) \in Nat /\ InOrder[F] \in Seq(1..MaxSeq) /\ Len(InOrder[F]) = Cardinality(F)
        /\ \A e \in F : InOrder[F][Cardinality(Front(F, e)) + 1] = e[3]
    BY InOrderIs
  <2>2. InOrder[F][Cardinality(Front(F, x)) + 1] = x[3]
    BY <2>1
  <2> QED BY <1>6, <2>1, <2>2
<1>8. /\ Cardinality(E) \in 0..Len(InOrder[F]) /\ Len(InOrder[F]) = Cardinality(E) + 1
      /\ x[3] \in 1..MaxSeq
  BY <1>4, <1>5, <1>7 DEF Placing
<1>9. PICK u, w, c, r : u = InOrder[F] /\ w = InOrder[E] /\ c = Cardinality(E) /\ r = x[3]
  OBVIOUS
<1>10. /\ u \in Seq(1..MaxSeq) /\ w = SubSeq(u, 1, c) /\ c \in 0..Len(u) /\ Len(u) = c + 1
       /\ u[c + 1] = r /\ r \in 1..MaxSeq /\ c \in Nat
  BY <1>4, <1>7, <1>8, <1>9
<1>11. w \in Seq(1..MaxSeq) /\ Len(w) = c /\ \A k \in 1..c : w[k] = u[k]
  BY <1>10, PrefixAt
<1>12. /\ Append(w, r) \in Seq(1..MaxSeq) /\ Len(Append(w, r)) = c + 1
       /\ \A k \in 1..c : Append(w, r)[k] = w[k]
       /\ Append(w, r)[c + 1] = r
  BY <1>10, <1>11, AppendAt
<1>13. \A k \in 1..Len(u) : u[k] = Append(w, r)[k]
  BY <1>10, <1>11, <1>12
<1>14. u = Append(w, r)
  BY <1>10, <1>12, <1>13, SeqEqual
<1> QED BY <1>4, <1>9, <1>14

-----------------------------------------------------------------------------
(* The log implements DurableLog.                                          *)

LEMMA EntryTypes ==
  ASSUME TypeInv, NEW s \in Segments, NEW i \in 1..Count(s)
  PROVE  s \in Nat /\ Count(s) \in Nat /\ i \in Nat /\ Rec(s, i) \in 1..MaxSeq
<1>1. StreamOf(s) \in Seq(Cells) /\ s \in Nat
  BY StreamOfTypes, WalTypes
<1>2. StreamOf(s)[i * RecLen] \in Cells /\ Count(s) \in Nat
  BY <1>1, RecordsAt, CountIs DEF Count
<1>3. Rec(s, i) \in 1..MaxSeq
  BY <1>2, CellFields DEF Rec
<1> QED BY <1>1, <1>2, <1>3

\* The entries are the records of the segments, each number once.
LEMMA EntriesPlaced == TypeInv /\ UniqueInv => Placing(Entries)
<1> SUFFICES ASSUME TypeInv, UniqueInv PROVE Placing(Entries)
  OBVIOUS
<1>1. ASSUME NEW e \in Entries
      PROVE  \E s \in Segments : \E i \in 1..Count(s) : e = <<s, i, Rec(s, i)>>
  BY DEF Entries
<1>2. \A e \in Entries : e \in Nat \X Nat \X (1..MaxSeq)
  BY <1>1, EntryTypes
<1>3. ASSUME NEW d \in Entries, NEW e \in Entries, (d[1] = e[1] /\ d[2] = e[2]) \/ d[3] = e[3]
      PROVE  d = e
  <2>1. PICK s1 \in Segments : \E i \in 1..Count(s1) : d = <<s1, i, Rec(s1, i)>>
    BY <1>1
  <2>2. PICK i \in 1..Count(s1) : d = <<s1, i, Rec(s1, i)>>
    BY <2>1
  <2>3. PICK s2 \in Segments : \E j \in 1..Count(s2) : e = <<s2, j, Rec(s2, j)>>
    BY <1>1
  <2>4. PICK j \in 1..Count(s2) : e = <<s2, j, Rec(s2, j)>>
    BY <2>3
  <2>5. s1 = s2 /\ i = j
    <3>1. Rec(s1, i) = Rec(s2, j) => s1 = s2 /\ i = j
      BY DEF UniqueInv
    <3> QED BY <1>3, <2>2, <2>4, <3>1
  <2> QED BY <2>2, <2>4, <2>5
<1>4. IsFiniteSet(Entries)
  <2> DEFINE f == [e \in Entries |-> e[3]]
  <2>1. f \in [Entries -> 1..MaxSeq]
    BY <1>2
  <2>2. f \in Injection(Entries, 1..MaxSeq)
    BY <1>3, <2>1 DEF Injection, IsInjective
  <2>3. IsFiniteSet(1..MaxSeq)
    BY BoundsAreNat, FS_Interval
  <2> QED BY <2>2, <2>3, FS_Injection
<1> QED BY <1>2, <1>3, <1>4 DEF Placing

\* A step that keeps the streams keeps the entries.
LEMMA EntriesSame ==
  ASSUME TypeInv, TypeInv', SameStreams
  PROVE  Entries' = Entries
<1>1. \A s \in Segments : \A i \in 1..Count(s) :
        s \in Segments' /\ i \in 1..(Count(s)') /\ Rec(s, i)' = Rec(s, i)
  BY SameRecords
<1>2. \A s \in Segments' : \A i \in 1..(Count(s)') :
        s \in Segments /\ i \in 1..Count(s) /\ Rec(s, i)' = Rec(s, i)
  BY OldRecords
<1>3. Entries \subseteq Entries'
  BY <1>1 DEF Entries
<1>4. Entries' \subseteq Entries
  BY <1>2 DEF Entries
<1> QED BY <1>3, <1>4

\* A failure or a recovery keeps entries together with all in front of them.
LEMMA EntriesCut ==
  ASSUME TypeInv, TypeInv', Halting \/ Scanning
  PROVE  /\ Entries' \in SUBSET Entries
         /\ \A e \in Entries', f \in Entries : Earlier(f[1], f[2], e[1], e[2]) => f \in Entries'
<1>1. \A s \in Segments' : \A i \in 1..(Count(s)') :
        s \in Segments /\ i \in 1..Count(s) /\ Rec(s, i)' = Rec(s, i)
  BY CutStep, OldRecords
<1>2. Entries' \in SUBSET Entries
  BY <1>1 DEF Entries
<1>3. ASSUME NEW e \in Entries', NEW f \in Entries, Earlier(f[1], f[2], e[1], e[2])
      PROVE  f \in Entries'
  <2>1. PICK s \in Segments' : \E i \in 1..(Count(s)') : e = <<s, i, Rec(s, i)'>>
    BY DEF Entries
  <2>2. PICK i \in 1..(Count(s)') : e = <<s, i, Rec(s, i)'>>
    BY <2>1
  <2>3. PICK s1 \in Segments : \E j \in 1..Count(s1) : f = <<s1, j, Rec(s1, j)>>
    BY DEF Entries
  <2>4. PICK j \in 1..Count(s1) : f = <<s1, j, Rec(s1, j)>>
    BY <2>3
  <2>5. s \in Segments /\ i \in 1..Count(s) /\ Earlier(s1, j, s, i)
    BY <1>1, <1>3, <2>2, <2>4
  <2>6. s1 \in Segments' /\ j \in 1..(Count(s1)') /\ Rec(s1, j)' = Rec(s1, j)
    BY <2>2, <2>4, <2>5, FrontKept
  <2> QED BY <2>4, <2>6 DEF Entries
<1> QED BY <1>2, <1>3

\* A write adds nothing, or the record of its thread behind all the others.
LEMMA EntriesWrite ==
  ASSUME TypeInv, TypeInv', NEW t \in Threads, Writing(t)
  PROVE  \/ Entries' = Entries
         \/ \E x : /\ Entries' = Entries \cup {x} /\ x[3] = seqOf[t]
                   /\ \A e \in Entries : Earlier(e[1], e[2], x[1], x[2])
<1>1. /\ Segments' = Segments /\ writerSeg \in Segments
      /\ writerSeg' = writerSeg /\ Begins(Stream, Stream')
      /\ \A s \in Segments \ {writerSeg} : files'[s] = files[s]
  BY WriteEffect DEF Writing
<1>2. ASSUME NEW s \in Segments, NEW i \in 1..Count(s)
      PROVE  i \in 1..(Count(s)') /\ Rec(s, i)' = Rec(s, i)
  <2>1. StreamOf(s)' = StreamOf(s) \/ Begins(StreamOf(s), StreamOf(s)')
    BY <1>1 DEF StreamOf
  <2>2. Begins(StreamOf(s), StreamOf(s)')
    BY <2>1, StreamOfTypes, BeginsSame
  <2> QED BY <1>1, <2>2, KeptRecord
<1>3. Entries \subseteq Entries'
  BY <1>1, <1>2 DEF Entries
<1>4. PICK x : x = <<writerSeg, Count(writerSeg) + 1, seqOf[t]>>
  OBVIOUS
<1>5. Entries' \subseteq Entries \cup {x}
  <2> SUFFICES ASSUME NEW e \in Entries' PROVE e \in Entries \/ e = x
    OBVIOUS
  <2>1. PICK s \in Segments' : \E i \in 1..(Count(s)') : e = <<s, i, Rec(s, i)'>>
    BY DEF Entries
  <2>2. PICK i \in 1..(Count(s)') : e = <<s, i, Rec(s, i)'>>
    BY <2>1
  <2>3. /\ s \in Segments
        /\ \/ i \in 1..Count(s) /\ Rec(s, i)' = Rec(s, i)
           \/ s = writerSeg /\ i = Count(s) + 1 /\ Rec(s, i)' = seqOf[t]
    BY <2>2, WriteRecords
  <2> QED BY <1>4, <2>2, <2>3 DEF Entries
<1>6. ASSUME NEW e \in Entries PROVE Earlier(e[1], e[2], x[1], x[2])
  <2>1. PICK s \in Segments : \E i \in 1..Count(s) : e = <<s, i, Rec(s, i)>>
    BY DEF Entries
  <2>2. PICK i \in 1..Count(s) : e = <<s, i, Rec(s, i)>>
    BY <2>1
  <2>3. s <= writerSeg /\ s \in Nat /\ writerSeg \in Nat /\ Count(s) \in Nat
    BY <2>2, EntryTypes, WalTypes DEF TypeInv, Placed
  <2>4. e[1] = s /\ e[2] = i /\ x[1] = writerSeg /\ x[2] = Count(writerSeg) + 1
    BY <1>4, <2>2
  <2> QED BY <2>3, <2>4 DEF Earlier
<1>7. x[3] = seqOf[t]
  BY <1>4
<1> QED BY <1>3, <1>5, <1>6, <1>7

\* The records of the log, as DurableLog sees them.
LEMMA LogHas ==
  TypeInv /\ UniqueInv =>
    /\ \A r : r \in Abstract!RangeOf(WholeLog) <=> \E e \in Entries : e[3] = r
    /\ WholeLog \in Seq(1..MaxSeq) /\ Len(WholeLog) = Cardinality(Entries)
<1> SUFFICES ASSUME TypeInv, UniqueInv
             PROVE  /\ \A r : r \in Abstract!RangeOf(WholeLog) <=> \E e \in Entries : e[3] = r
                    /\ WholeLog \in Seq(1..MaxSeq) /\ Len(WholeLog) = Cardinality(Entries)
  OBVIOUS
<1>1. PICK E : E = Entries
  OBVIOUS
<1>2. Placing(E)
  BY <1>1, EntriesPlaced
<1>3. \A r : (\E k \in 1..Len(InOrder[E]) : InOrder[E][k] = r) <=> (\E e \in E : e[3] = r)
  BY <1>2, InOrderRange
<1>4. InOrder[E] \in Seq(1..MaxSeq) /\ Len(InOrder[E]) = Cardinality(E)
  BY <1>2, InOrderIs
<1>5. WholeLog = InOrder[E]
  BY <1>1 DEF WholeLog
<1>6. \A r : r \in Abstract!RangeOf(WholeLog) <=> \E k \in 1..Len(InOrder[E]) : InOrder[E][k] = r
  BY <1>5 DEF Abstract!RangeOf
<1> QED BY <1>1, <1>3, <1>4, <1>5, <1>6

\* sync_mode is a setting of the configuration.
LEMMA ModeStays ==
  ASSUME [Next]_vars
  PROVE  sync_mode' = sync_mode
<1>1. ASSUME NEW t \in Threads, NextSequence(t) \/ CheckSize(t) \/ RotateSegment(t) \/ RotateFails(t)
      PROVE  sync_mode' = sync_mode
  BY <1>1 DEF NextSequence, CheckSize, RotateSegment, RotateFails, settings
<1>2. ASSUME NEW t \in Threads, Writing(t) \/ Sync(t) \/ SyncFails(t)
      PROVE  sync_mode' = sync_mode
  BY <1>2 DEF Writing, Write, PartialWrite, WriteFails, Sync, SyncFails, settings
<1>3. ASSUME ProcessCrash \/ PowerLoss \/ Shutdown PROVE sync_mode' = sync_mode
  BY <1>3 DEF ProcessCrash, PowerLoss, Shutdown, Halt, settings
<1>4. ASSUME Start \/ Scanning \/ Open \/ UNCHANGED vars PROVE sync_mode' = sync_mode
  BY <1>4 DEF Start, Scanning, RecoverSegment, RecoverFails, Open, vars, settings
<1> QED BY <1>1, <1>2, <1>3, <1>4 DEF Next, AppendStep, Writing, Scanning

LEMMA RefineInit == Init => Abstract!Init
<1> SUFFICES ASSUME Init PROVE Abstract!Init
  OBVIOUS
<1>1. Entries = {} /\ acked = {}
  BY DEF Init, Entries, Segments
<1>2. Placing({})
  BY FS_EmptySet DEF Placing
<1>3. InOrder[{}] \in Seq(1..MaxSeq) /\ Len(InOrder[{}]) = 0
  BY <1>2, InOrderIs, FS_EmptySet
<1>4. WholeLog = <<>>
  BY <1>1, <1>3, EmptySeq DEF WholeLog
<1> QED BY <1>1, <1>4 DEF Abstract!Init

\* Every step adds a record at the end, acknowledges one, keeps a prefix that
\* holds what must be kept, or changes nothing that DurableLog can see.
LEMMA RefineStep ==
  ASSUME TypeInv, TypeInv', UniqueInv, UniqueInv', AckedInv', [Next]_vars
  PROVE  [Abstract!Next]_(Abstract!vars)
<1>1. sync_mode' = sync_mode
  BY ModeStays
<1>2. PICK E, F : E = Entries /\ F = Entries'
  OBVIOUS
<1>3. Placing(E) /\ Placing(F)
  <2>1. Placing(E)
    BY <1>2, EntriesPlaced
  <2>2. TypeInv' /\ UniqueInv' => Placing(Entries)'
    BY EntriesPlaced, PTL
  <2> QED BY <1>2, <2>1, <2>2 DEF Placing
<1>4. WholeLog = InOrder[E] /\ WholeLog' = InOrder[F]
  BY <1>2 DEF WholeLog
<1>5. /\ \A r : r \in Abstract!RangeOf(WholeLog) <=> \E e \in E : e[3] = r
      /\ Len(WholeLog) = Cardinality(E)
      /\ \A r : r \in Abstract!RangeOf(WholeLog') <=> \E e \in F : e[3] = r
  <2>1. \A r : r \in Abstract!RangeOf(WholeLog) <=> \E e \in E : e[3] = r
    BY <1>2, LogHas
  <2>2. \A r : (\E k \in 1..Len(InOrder[F]) : InOrder[F][k] = r) <=> (\E e \in F : e[3] = r)
    BY <1>3, InOrderRange
  <2>3. \A r : r \in Abstract!RangeOf(WholeLog') <=> \E e \in F : e[3] = r
    BY <1>4, <2>2 DEF Abstract!RangeOf
  <2> QED BY <1>2, <2>1, <2>3, LogHas
<1>6. ASSUME NEW r \in acked' PROVE r \in Abstract!RangeOf(WholeLog')
  <2>1. PICK s \in Segments' : \E i \in 1..(Count(s)') : Rec(s, i)' = r
    BY <1>6 DEF AckedInv
  <2>2. PICK i \in 1..(Count(s)') : Rec(s, i)' = r
    BY <2>1
  <2>3. <<s, i, r>> \in F
    BY <1>2, <2>2 DEF Entries
  <2> QED BY <1>5, <2>3
\* The appending threads.
<1>7. ASSUME NEW t \in Threads, Writing(t) PROVE [Abstract!Next]_(Abstract!vars)
  <2>1. acked' = acked
    BY <1>7 DEF Writing, Write, PartialWrite, WriteFails
  <2>2. CASE Entries' = Entries
    <3>1. WholeLog' = WholeLog
      BY <1>2, <1>4, <2>2
    <3> QED BY <1>1, <2>1, <3>1 DEF Abstract!vars
  <2>3. CASE \E x : /\ Entries' = Entries \cup {x} /\ x[3] = seqOf[t]
                    /\ \A e \in Entries : Earlier(e[1], e[2], x[1], x[2])
    <3>1. PICK x : /\ F = E \cup {x} /\ x[3] = seqOf[t]
                   /\ \A e \in E : Earlier(e[1], e[2], x[1], x[2])
      BY <1>2, <2>3
    <3>2. status = "up" /\ pc[t] = "write" /\ seqOf[t] \in 1..MaxSeq
      BY <1>7, WriteEffect DEF Writing
    <3>3. ~Logged(seqOf[t])
      BY <3>2 DEF UniqueInv, Before
    <3>4. \A e \in E : e[3] # seqOf[t]
      <4> SUFFICES ASSUME NEW e \in E, e[3] = seqOf[t] PROVE FALSE
        OBVIOUS
      <4>1. PICK s \in Segments : \E i \in 1..Count(s) : e = <<s, i, Rec(s, i)>>
        BY <1>2 DEF Entries
      <4> QED BY <3>3, <4>1 DEF Logged
    <3>5. x \in F /\ E = F \ {x}
      BY <3>1, <3>4
    <3>6. WholeLog' = Append(WholeLog, seqOf[t])
      <4>1. InOrder[F] = Append(InOrder[E], x[3])
        BY <1>3, <3>1, <3>5, InOrderAppend
      <4> QED BY <1>4, <3>1, <4>1
    <3>7. seqOf[t] \in (1..MaxSeq) \ Abstract!RangeOf(WholeLog)
      BY <1>5, <3>2, <3>4
    <3>8. Abstract!Add
      BY <1>1, <2>1, <3>6, <3>7 DEF Abstract!Add
    <3> QED BY <3>8 DEF Abstract!Next
  <2> QED BY <1>7, <2>2, <2>3, EntriesWrite
<1>8. ASSUME (\E t \in Threads : Moving(t)) \/ Start \/ Open \/ UNCHANGED vars
      PROVE  [Abstract!Next]_(Abstract!vars)
  <2>1. WholeLog' = WholeLog
    <3>1. Entries' = Entries
      BY <1>8, SameStep, EntriesSame
    <3> QED BY <1>2, <1>4, <3>1
  <2>2. CASE acked' = acked
    BY <1>1, <2>1, <2>2 DEF Abstract!vars
  <2>3. CASE \E t \in Threads : Sync(t) /\ acked' = acked \cup {seqOf[t]}
    <3>1. PICK t \in Threads : acked' = acked \cup {seqOf[t]}
      BY <2>3
    <3>2. seqOf[t] \in Abstract!RangeOf(WholeLog)
      <4>1. seqOf[t] \in Abstract!RangeOf(WholeLog')
        BY <1>6, <3>1
      <4> QED BY <2>1, <4>1
    <3>3. CASE seqOf[t] \in acked
      BY <1>1, <2>1, <3>1, <3>3 DEF Abstract!vars
    <3>4. CASE seqOf[t] \notin acked
      <4>1. Abstract!Ack
        BY <1>1, <2>1, <3>1, <3>2, <3>4 DEF Abstract!Ack
      <4> QED BY <4>1 DEF Abstract!Next
    <3> QED BY <3>3, <3>4
  <2>4. acked' = acked \/ \E t \in Threads : Sync(t) /\ acked' = acked \cup {seqOf[t]}
    <3>1. ASSUME NEW t \in Threads, Moving(t)
          PROVE  acked' = acked \/ (Sync(t) /\ acked' = acked \cup {seqOf[t]})
      BY <3>1 DEF Moving, NextSequence, CheckSize, RotateSegment, RotateFails, Sync, SyncFails
    <3>2. Start \/ Open \/ UNCHANGED vars => acked' = acked
      BY DEF Start, Open, vars
    <3> QED BY <1>8, <3>1, <3>2
  <2> QED BY <2>2, <2>3, <2>4
\* Failures and recovery.
<1>9. ASSUME Halting \/ Scanning PROVE [Abstract!Next]_(Abstract!vars)
  <2>1. /\ F \in SUBSET E
        /\ \A e \in F, f \in E : Earlier(f[1], f[2], e[1], e[2]) => f \in F
    BY <1>2, <1>9, EntriesCut
  <2>2. Cardinality(F) \in 0..Len(WholeLog) /\ WholeLog' = SubSeq(WholeLog, 1, Cardinality(F))
    <3>1. Cardinality(F) \in 0..Cardinality(E) /\ InOrder[F] = SubSeq(InOrder[E], 1, Cardinality(F))
      BY <1>3, <2>1, InOrderPrefix
    <3> QED BY <1>4, <1>5, <3>1
  <2>3. /\ acked' = acked \cap Abstract!RangeOf(WholeLog')
        /\ sync_mode = "Always" => acked' = acked
    <3>1. CASE acked' = acked
      BY <1>6, <3>1
    <3>2. CASE sync_mode # "Always" /\ acked' = acked \cap Present'
      <4> SUFFICES ASSUME NEW r \in acked PROVE r \in Abstract!RangeOf(WholeLog') => r \in Present'
        BY <1>6, <3>2
      <4> HAVE r \in Abstract!RangeOf(WholeLog')
      <4>1. PICK e \in F : e[3] = r
        BY <1>5
      <4>2. PICK s \in Segments' : \E i \in 1..(Count(s)') : e = <<s, i, Rec(s, i)'>>
        BY <1>2 DEF Entries
      <4>3. PICK i \in 1..(Count(s)') : r = Rec(s, i)'
        BY <4>1, <4>2
      <4>4. StreamOf(s)' = files'[s]
        <5>1. CASE s = writerSeg'
          <6>1. buf' = <<>>
            BY <1>9, HaltEffect, ScanEffect DEF Halting
          <6>2. files'[s] \in Seq(Cells)
            BY NextStreamTypes
          <6>3. files'[s] \o <<>> = files'[s]
            BY <6>2, ConcatEmptySeq
          <6> QED BY <5>1, <6>1, <6>3 DEF StreamOf, Stream
        <5>2. CASE s # writerSeg'
          BY <5>2 DEF StreamOf
        <5> QED BY <5>1, <5>2
      <4>5. i \in 1..ValidCount(files'[s]) /\ r = files'[s][i * RecLen].rec
        BY <4>3, <4>4 DEF Count, Rec
      <4> QED BY <4>5 DEF Present, RecordsIn
    <3>3. acked' = acked \/ (sync_mode # "Always" /\ acked' = acked \cap Present')
      BY <1>9 DEF Halting, ProcessCrash, PowerLoss, Shutdown, Scanning, RecoverSegment, RecoverFails,
                      Surviving
    <3> QED BY <3>1, <3>2, <3>3
  <2>4. Abstract!Lose
    BY <1>1, <2>2, <2>3 DEF Abstract!Lose
  <2> QED BY <2>4 DEF Abstract!Next
<1> QED BY <1>7, <1>8, <1>9 DEF Next, AppendStep, Moving, Writing, Halting, Scanning

\* As long as no write stops inside a magic, the segments, the buffer, the
\* threads and the recovery of wal.rs and recovery.rs together are a log that
\* grows at its end, acknowledges what is in it, and loses in a failure nothing
\* but a suffix: under SyncMode::Always one without acknowledged records.
THEOREM LogImplements ==
  ASSUME CleanWrites
  PROVE  Spec => ImplementsDurableLog
<1>1. LogInv /\ LogInv' /\ [Next]_vars => [Abstract!Next]_(Abstract!vars)
  <2> SUFFICES ASSUME LogInv, LogInv', [Next]_vars PROVE [Abstract!Next]_(Abstract!vars)
    OBVIOUS
  <2>1. TypeInv /\ TypeInv' /\ UniqueInv /\ UniqueInv' /\ AckedInv'
    BY DEF LogInv, AcksInv
  <2> QED BY <2>1, RefineStep
<1> QED BY <1>1, RefineInit, LogHolds, PTL DEF Spec, ImplementsDurableLog, Abstract!Spec
===============================================================================
