---------------------------- MODULE BackupProofs ----------------------------
(***************************************************************************)
(* Theorems about Backup, for every number of commands, snapshot ids,      *)
(* records and segments.                                                   *)
(***************************************************************************)
EXTENDS Backup, SequenceLemmas, TLAPS

-----------------------------------------------------------------------------
(* The inductive invariants.                                               *)

Locations == {"idle", "read", "cut", "data_create", "data_write", "meta_create", "meta_write"}

\* Command c has serialised its snapshot.
Storing(c) == pc[c] \in {"data_create", "data_write", "meta_create", "meta_write"}

TypeInv ==
  /\ segs \in Seq(Seq(Records)) /\ Len(segs) > 0
  /\ appended \in 0..MaxRecords /\ written \in 0..appended /\ (writing => written < appended)
  /\ cut \subseteq Records
  /\ data \in [SnapIds -> Images \cup {Absent, Torn}]
  /\ meta \in [SnapIds -> Images \cup {Absent, Torn}]
  /\ pc \in [Commands -> Locations]
  /\ job \in [Commands -> {"none", "create", "check"}]
  /\ idOf \in [Commands -> SnapIds \cup {None}]
  /\ listed \in [Commands -> Nat] /\ seg \in [Commands -> Nat] /\ off \in [Commands -> Nat]
  /\ recovered \in [Commands -> SUBSET Records]
  /\ snap \in [Commands -> Images \cup {None}]
  /\ success \in [SnapIds -> (SUBSET Records) \cup {None}]
  /\ shared \in [SnapIds -> BOOLEAN]
  /\ before \in [Commands -> SUBSET Records] /\ cutBefore \in [Commands -> SUBSET Records]

\* One command scans the log at a time, and its cursor is in the part of the
\* log that was listed.
CursorInv ==
  /\ \A c, d \in Commands : Scanning(c) /\ Scanning(d) => c = d
  /\ \A c \in Commands : Scanning(c) =>
       seg[c] \in 1..listed[c] /\ listed[c] <= Len(segs) /\ off[c] <= Len(segs[seg[c]])

\* A command that stores a snapshot is a create, and has an id and an image.
StoreInv ==
  \A c \in Commands :
    /\ Storing(c) => job[c] = "create" /\ snap[c] \in Images /\ snap[c].recs = recovered[c]
    /\ ~Storing(c) => snap[c] = None
    /\ pc[c] # "idle" /\ job[c] = "create" => idOf[c] \in SnapIds

BasicInv == TypeInv /\ CursorInv /\ StoreInv

\* If the create of an id that began last had it for itself, it is the only one:
\* until it has ended no success is on record, and the files are as it left them;
\* after a success they hold what it has recovered.
Creating(c) == pc[c] # "idle" /\ job[c] = "create"

CreatingOf(c, i) == Creating(c) /\ idOf[c] = i

Progress(c, i) ==
  /\ success[i] = None
  /\ pc[c] = "data_write" => data[i] = Torn
  /\ pc[c] \in {"meta_create", "meta_write"} => data[i] = snap[c]
  /\ pc[c] = "meta_write" => meta[i] = Torn

FilesAt(i) ==
  ~shared[i] =>
    /\ \A c, d \in Commands : CreatingOf(c, i) /\ CreatingOf(d, i) => c = d
    /\ \A c \in Commands : CreatingOf(c, i) => Progress(c, i)
    /\ success[i] # None => data[i] \in Images /\ meta[i] = data[i] /\ data[i].recs = success[i]

FilesInv == \A i \in SnapIds : FilesAt(i)

\* Place (k, n) of the log comes before (l, m); r is a record of a segment up
\* to the l-th; c has read place (k, n).
Earlier(k, n, l, m) == k < l \/ (k = l /\ n < m)
Within(r, l) == \E k \in 1..l : \E n \in 1..Len(segs[k]) : segs[k][n] = r
Past(c, k, n) == k < seg[c] \/ (k = seg[c] /\ n <= off[c])

\* The log is in the order of appending, and has all but what was cut off.
LogInv ==
  /\ \A k \in 1..Len(segs) : \A n \in 1..Len(segs[k]) : segs[k][n] \in 1..written
  /\ \A k, l \in 1..Len(segs) : \A n \in 1..Len(segs[k]) : \A m \in 1..Len(segs[l]) :
       Earlier(k, n, l, m) => segs[k][n] < segs[l][m]
  /\ \A r \in 1..written : r \in cut \/ Within(r, Len(segs))

\* A command has recovered what it is past.
ScanInv(c) ==
  Scanning(c) =>
    /\ cutBefore[c] = cut
    /\ \A k \in 1..Len(segs) : \A n \in 1..Len(segs[k]) :
         Past(c, k, n) => segs[k][n] \in recovered[c]
    /\ \A r \in recovered[c] :
         \E k \in 1..Len(segs) : \E n \in 1..Len(segs[k]) : Past(c, k, n) /\ segs[k][n] = r
    /\ \A r \in before[c] : Within(r, listed[c])

\* What a command is about to cut off is new: no one has recovered it.
Fresh(r) ==
  /\ \A d \in Commands : r \notin recovered[d] /\ r \notin before[d]
  /\ \A i \in SnapIds : success[i] # None => r \notin success[i]

CutInv ==
  \A c \in Commands : pc[c] = "cut" =>
    /\ seg[c] = listed[c]
    /\ \A n \in 1..Len(segs[seg[c]]) : n > off[c] => Fresh(segs[seg[c]][n])

\* What was recovered is in the log.
KeepInv ==
  /\ \A c \in Commands : \A r \in recovered[c] \cup before[c] : Within(r, Len(segs))
  /\ \A i \in SnapIds : success[i] # None => \A r \in success[i] : Within(r, Len(segs))

\* Under SyncMode::Always what a command found acknowledged was in the files.
AckInv ==
  sync_mode = "Always" => \A c \in Commands : ackedBefore[c] \subseteq before[c] \cup cutBefore[c]

\* What is stored was the database of one moment.
Moment(c) ==
  Storing(c) =>
    /\ before[c] \subseteq recovered[c]
    /\ \A r \in recovered[c] : 1..r \subseteq recovered[c] \cup cutBefore[c]

ScansInv ==
  /\ LogInv /\ CutInv /\ KeepInv
  /\ \A c \in Commands : ScanInv(c) /\ Moment(c)

-----------------------------------------------------------------------------
(* What the steps do to the log.                                           *)

LEMMA LogTypes ==
  ASSUME TypeInv
  PROVE  /\ Len(segs) \in Nat \ {0}
         /\ \A k \in 1..Len(segs) : segs[k] \in Seq(Records) /\ Len(segs[k]) \in Nat
                                    /\ \A n \in 1..Len(segs[k]) : segs[k][n] \in Records
<1>1. Len(segs) \in Nat \ {0}
  BY LenProperties DEF TypeInv
<1>2. \A k \in 1..Len(segs) : segs[k] \in Seq(Records)
  BY <1>1, ElementOfSeq DEF TypeInv
<1>3. \A k \in 1..Len(segs) : Len(segs[k]) \in Nat
                              /\ \A n \in 1..Len(segs[k]) : segs[k][n] \in Records
  BY <1>2, LenProperties, ElementOfSeq
<1> QED BY <1>1, <1>2, <1>3

LEMMA InLogIs ==
  ASSUME TypeInv, NEW r
  PROVE  r \in InLog <=> Within(r, Len(segs))
BY DEF InLog, Within

\* The server's steps keep every record at its place, and add one at most.
Grows ==
  /\ segs' \in Seq(Seq(Records)) /\ Len(segs') \in Nat /\ Len(segs) <= Len(segs')
  /\ \A k \in 1..Len(segs) :
       /\ Len(segs[k]) <= Len(segs'[k])
       /\ \A n \in 1..Len(segs[k]) : segs'[k][n] = segs[k][n]
  /\ \A k \in 1..Len(segs') : Len(segs'[k]) \in Nat /\ \A n \in 1..Len(segs'[k]) :
       \/ k \in 1..Len(segs) /\ n \in 1..Len(segs[k])
       \/ /\ k = Len(segs) /\ n = Len(segs[k]) + 1
          /\ segs'[k][n] = written + 1 /\ written' = written + 1
  /\ appended' \in 0..MaxRecords /\ written' \in 0..appended' /\ (writing' => written' < appended')
  /\ \/ written' = written
     \/ /\ written' = written + 1
        /\ \E k \in 1..Len(segs') : \E n \in 1..Len(segs'[k]) : segs'[k][n] = written'
  /\ UNCHANGED <<sync_mode, cut, others>>

LEMMA ServerGrows ==
  ASSUME TypeInv, AppendRecord \/ Flush \/ WriteRecord \/ Rotate
  PROVE  Grows
<1>1. PICK L : L = Len(segs)
  OBVIOUS
<1>2. L \in Nat \ {0} /\ segs[L] \in Seq(Records) /\ Len(segs[L]) \in Nat
      /\ \A k \in 1..L : Len(segs[k]) \in Nat
  BY <1>1, LogTypes
<1>3. /\ appended \in Nat /\ written \in Nat /\ MaxRecords \in Nat
      /\ appended <= MaxRecords /\ written <= appended
  BY BackupConstants DEF TypeInv
<1>4. CASE AppendRecord \/ Flush
  <2>1. UNCHANGED <<sync_mode, segs, written, cut, others>>
    BY <1>4 DEF AppendRecord, Flush
  <2>2. /\ appended' \in 0..MaxRecords /\ written' \in 0..appended'
        /\ (writing' => written' < appended')
    BY <1>3, <1>4 DEF AppendRecord, Flush
  <2> QED BY <1>1, <1>2, <1>3, <2>1, <2>2 DEF TypeInv, Grows
<1>5. CASE WriteRecord
  <2>1. PICK a : a = written + 1
    OBVIOUS
  <2>2. /\ a \in Records /\ written' = a /\ UNCHANGED <<sync_mode, appended, cut, others>>
        /\ a \in 0..appended /\ (writing' => a < appended)
    <3>1. written < appended /\ written' = a /\ UNCHANGED <<sync_mode, appended, cut, others>>
      BY <1>5, <2>1, Zenon DEF WriteRecord, TypeInv
    <3>2. writing' = (written' < appended)
      BY <1>5 DEF WriteRecord
    <3>3. writing' => a < appended
      BY <3>1, <3>2
    <3>4. a \in Records /\ a \in 0..appended
      BY <1>3, <2>1, <3>1 DEF Records
    <3> QED BY <3>1, <3>3, <3>4
  <2>3. PICK q : q = Append(segs[L], a)
    OBVIOUS
  <2>4. /\ q \in Seq(Records) /\ Len(q) = Len(segs[L]) + 1
        /\ \A n \in 1..Len(segs[L]) : q[n] = segs[L][n]
        /\ q[Len(segs[L]) + 1] = a
    BY <1>2, <2>2, <2>3, AppendAt
  <2>5. segs' = [segs EXCEPT ![L] = q]
    BY <1>1, <1>5, <2>2, <2>3 DEF WriteRecord
  <2>6. /\ segs' \in Seq(Seq(Records)) /\ Len(segs') = L /\ segs'[L] = q
        /\ \A k \in 1..L : k # L => segs'[k] = segs[k]
    <3>1. L \in 1..Len(segs) /\ segs \in Seq(Seq(Records))
      BY <1>1, <1>2 DEF TypeInv
    <3> QED BY <1>1, <2>4, <2>5, <3>1, ExceptAt
  <2>7. \A k \in 1..L : Len(segs[k]) <= Len(segs'[k])
                        /\ \A n \in 1..Len(segs[k]) : segs'[k][n] = segs[k][n]
    BY <1>2, <2>4, <2>6
  <2>8. \A k \in 1..L : Len(segs'[k]) \in Nat /\ \A n \in 1..Len(segs'[k]) :
         \/ n \in 1..Len(segs[k])
         \/ k = L /\ n = Len(segs[k]) + 1 /\ segs'[k][n] = a
    BY <1>2, <2>4, <2>6
  <2>9. \E k \in 1..L : \E n \in 1..Len(segs'[k]) : segs'[k][n] = a
    <3>1. L \in 1..L /\ Len(segs[L]) + 1 \in 1..Len(segs'[L])
          /\ segs'[L][Len(segs[L]) + 1] = a
      BY <1>2, <2>4, <2>6
    <3> QED BY <3>1
  <2>10. \A k \in 1..Len(segs') : Len(segs'[k]) \in Nat /\ \A n \in 1..Len(segs'[k]) :
           \/ k \in 1..Len(segs) /\ n \in 1..Len(segs[k])
           \/ /\ k = Len(segs) /\ n = Len(segs[k]) + 1
              /\ segs'[k][n] = written + 1 /\ written' = written + 1
    BY <1>1, <2>1, <2>2, <2>6, <2>8
  <2>11. \E k \in 1..Len(segs') : \E n \in 1..Len(segs'[k]) : segs'[k][n] = written'
    BY <2>2, <2>6, <2>9
  <2>12. /\ segs' \in Seq(Seq(Records)) /\ Len(segs') \in Nat /\ Len(segs) <= Len(segs')
         /\ appended' \in 0..MaxRecords /\ written' \in 0..appended'
         /\ (writing' => written' < appended') /\ written' = written + 1
    BY <1>1, <1>2, <1>3, <2>1, <2>2, <2>6
  <2> QED BY <1>1, <2>2, <2>7, <2>10, <2>11, <2>12 DEF Grows
<1>6. CASE Rotate
  <2>1. /\ segs' \in Seq(Seq(Records)) /\ Len(segs') = L + 1
        /\ \A k \in 1..L : segs'[k] = segs[k]
        /\ segs'[L + 1] = <<>>
    BY <1>1, <1>6, AppendAt DEF Rotate, TypeInv
  <2>2. UNCHANGED <<sync_mode, writing, appended, written, cut, others>>
    BY <1>6 DEF Rotate
  <2>3. \A k \in 1..(L + 1) : Len(segs'[k]) \in Nat
                              /\ \A n \in 1..Len(segs'[k]) : k \in 1..L /\ n \in 1..Len(segs[k])
    BY <1>2, <2>1
  <2> QED BY <1>1, <1>2, <1>3, <2>1, <2>2, <2>3 DEF Grows, TypeInv
<1> QED BY <1>4, <1>5, <1>6

\* A cut leaves the records up to the cursor.
Cuts(c) ==
  /\ segs' \in Seq(Seq(Records)) /\ Len(segs') = Len(segs)
  /\ \A k \in 1..Len(segs) : k # seg[c] => segs'[k] = segs[k]
  /\ Len(segs'[seg[c]]) = off[c] /\ off[c] <= Len(segs[seg[c]])
  /\ \A n \in 1..off[c] : segs'[seg[c]][n] = segs[seg[c]][n]
  /\ cut' = cut \cup {segs[seg[c]][n] : n \in (off[c] + 1)..Len(segs[seg[c]])}
  /\ cut' \subseteq Records
  /\ UNCHANGED <<sync_mode, writing, appended, written>>

LEMMA CutTailCuts ==
  ASSUME BasicInv, NEW c \in Commands, CutTail(c)
  PROVE  Cuts(c) /\ SegmentDone(c) /\ Scanning(c)
<1>1. PICK k, f : k = seg[c] /\ f = off[c]
  OBVIOUS
<1>2. /\ Scanning(c) /\ k \in 1..Len(segs) /\ f \in 0..Len(segs[k]) /\ Len(segs) \in Nat
      /\ segs[k] \in Seq(Records) /\ f \in Nat /\ Len(segs[k]) \in Nat
      /\ \A n \in 1..Len(segs[k]) : segs[k][n] \in Records
  <2>1. Scanning(c)
    BY DEF CutTail, Scanning
  <2>2. seg[c] \in 1..listed[c] /\ listed[c] <= Len(segs) /\ off[c] <= Len(segs[seg[c]])
    BY <2>1 DEF BasicInv, CursorInv
  <2>3. off[c] \in Nat /\ listed[c] \in Nat
    BY DEF BasicInv, TypeInv
  <2>4. k \in 1..Len(segs)
    BY <1>1, <2>2, <2>3, LogTypes DEF BasicInv
  <2> QED BY <1>1, <2>1, <2>2, <2>3, <2>4, LogTypes DEF BasicInv
<1>3. PICK q : q = SubSeq(segs[k], 1, f)
  OBVIOUS
<1>4. q \in Seq(Records) /\ Len(q) = f /\ \A n \in 1..f : q[n] = segs[k][n]
  BY <1>2, <1>3, PrefixAt
<1>5. /\ segs' = [segs EXCEPT ![k] = q]
      /\ cut' = cut \cup {segs[k][n] : n \in (Len(q) + 1)..Len(segs[k])}
      /\ SegmentDone(c) /\ UNCHANGED <<sync_mode, writing, appended, written>>
  BY <1>1, <1>3 DEF CutTail, ValidLength
<1>6. /\ segs' \in Seq(Seq(Records)) /\ Len(segs') = Len(segs) /\ segs'[k] = q
      /\ \A j \in 1..Len(segs) : j # k => segs'[j] = segs[j]
  BY <1>2, <1>4, <1>5, ExceptAt DEF BasicInv, TypeInv
<1>7. cut' \subseteq Records
  <2>1. \A n \in (Len(q) + 1)..Len(segs[k]) : segs[k][n] \in Records
    BY <1>2, <1>4
  <2> QED BY <1>5, <2>1 DEF BasicInv, TypeInv
<1> QED BY <1>1, <1>2, <1>4, <1>5, <1>6, <1>7 DEF Cuts

-----------------------------------------------------------------------------
(* Types, cursors, and commands that store.                                *)

LEMMA BasicInit == Init => BasicInv
<1> SUFFICES ASSUME Init PROVE BasicInv
  OBVIOUS
<1>1. /\ <<>> \in Seq(Records) /\ segs \in Seq(Seq(Records)) /\ Len(segs) = 1
  BY DEF Init
<1>2. TypeInv
  BY <1>1, BackupConstants DEF Init, TypeInv, Locations
<1> QED BY <1>2 DEF Init, BasicInv, CursorInv, StoreInv, Scanning, Storing

LEMMA GrowsBasic ==
  ASSUME BasicInv, Grows
  PROVE  BasicInv'
<1>1. UNCHANGED <<data, meta, pc, listed, seg, off, recovered, job, idOf, snap,
                  success, shared, before, ackedBefore, cutBefore, cut>>
  BY DEF Grows, others, files, scan, ids, trace
<1>2. Len(segs') \in Nat /\ Len(segs) <= Len(segs') /\ Len(segs) \in Nat \ {0}
  BY LogTypes DEF Grows, BasicInv
<1>3. TypeInv'
  <2>1. segs' \in Seq(Seq(Records)) /\ Len(segs') > 0
    BY <1>2 DEF Grows
  <2>2. /\ appended' \in 0..MaxRecords /\ written' \in 0..appended'
        /\ (writing' => written' < appended')
    BY DEF Grows
  <2> QED BY <1>1, <2>1, <2>2 DEF BasicInv, TypeInv
<1>4. CursorInv'
  <2>1. ASSUME NEW c \in Commands, Scanning(c)
        PROVE  listed[c] <= Len(segs') /\ off[c] <= Len(segs'[seg[c]])
    <3>1. seg[c] \in 1..listed[c] /\ listed[c] <= Len(segs) /\ off[c] <= Len(segs[seg[c]])
      BY <2>1 DEF BasicInv, CursorInv
    <3>2. off[c] \in Nat /\ listed[c] \in Nat
      BY DEF BasicInv, TypeInv
    <3>3. seg[c] \in 1..Len(segs) /\ seg[c] \in 1..Len(segs')
      BY <1>2, <3>1, <3>2
    <3>4. Len(segs[seg[c]]) \in Nat /\ Len(segs'[seg[c]]) \in Nat
          /\ Len(segs[seg[c]]) <= Len(segs'[seg[c]])
      BY <3>3, LogTypes DEF Grows, BasicInv
    <3> QED BY <1>2, <3>1, <3>2, <3>4
  <2>2. \A c : Scanning(c)' <=> Scanning(c)
    BY <1>1 DEF Scanning
  <2> QED BY <1>1, <2>1, <2>2 DEF BasicInv, CursorInv
<1>5. StoreInv'
  BY <1>1 DEF BasicInv, StoreInv, Storing
<1> QED BY <1>3, <1>4, <1>5 DEF BasicInv

\* A command leaves a segment, and may just have cut it.
LEMMA DoneBasic ==
  ASSUME BasicInv, NEW c \in Commands, SegmentDone(c), Scanning(c),
         segs' \in Seq(Seq(Records)), Len(segs') = Len(segs),
         cut' \subseteq Records, UNCHANGED <<sync_mode, writing, appended, written>>
  PROVE  BasicInv'
<1>1. Len(segs') \in Nat \ {0} /\ \A k \in 1..Len(segs') : Len(segs'[k]) \in Nat
  BY LogTypes, LenProperties, ElementOfSeq DEF BasicInv
<1>2. \A d \in Commands : d # c => ~Scanning(d)
  BY DEF BasicInv, CursorInv
<1>3. /\ pc \in [Commands -> Locations] /\ seg \in [Commands -> Nat]
      /\ off \in [Commands -> Nat] /\ listed \in [Commands -> Nat]
      /\ snap \in [Commands -> Images \cup {None}]
      /\ recovered \in [Commands -> SUBSET Records]
      /\ job \in [Commands -> {"none", "create", "check"}]
  BY DEF BasicInv, TypeInv
<1>4. seg[c] \in 1..listed[c] /\ listed[c] <= Len(segs)
  BY DEF BasicInv, CursorInv
<1>5. CASE /\ seg[c] < LastSegment(c)
           /\ seg' = [seg EXCEPT ![c] = @ + 1] /\ off' = [off EXCEPT ![c] = 0]
           /\ Goto(c, "read")
           /\ UNCHANGED <<files, listed, recovered, ids, snap, trace>>
  <2>1. \A d \in Commands : Scanning(d)' <=> d = c
    BY <1>2, <1>3, <1>5 DEF Goto, Scanning
  <2>2. TypeInv'
    BY <1>1, <1>3, <1>5 DEF BasicInv, TypeInv, files, ids, trace, Goto, Locations
  <2>3. seg'[c] \in 1..listed'[c] /\ listed'[c] <= Len(segs') /\ off'[c] = 0
    BY <1>3, <1>4, <1>5 DEF LastSegment
  <2>4. off'[c] <= Len(segs'[seg'[c]])
    BY <1>1, <1>3, <1>4, <1>5, <2>3
  <2>5. CursorInv'
    BY <2>1, <2>3, <2>4 DEF CursorInv
  <2>6. \A d \in Commands : Storing(d)' <=> Storing(d)
    BY <1>3, <1>5 DEF Goto, Storing, Scanning
  <2>7. \A d \in Commands : pc'[d] # "idle" => pc[d] # "idle"
    BY <1>3, <1>5 DEF Goto, Scanning
  <2>8. StoreInv'
    BY <1>5, <2>6, <2>7 DEF BasicInv, StoreInv, ids, trace, files
  <2> QED BY <2>2, <2>5, <2>8 DEF BasicInv
<1>6. CASE Exit(c) /\ UNCHANGED <<files, success, shared, begun>>
  <2>1. \A d \in Commands : ~Scanning(d)'
    BY <1>2, <1>3, <1>6 DEF Exit, Goto, Scanning
  <2>2. TypeInv'
    BY <1>1, <1>3, <1>6 DEF BasicInv, TypeInv, files, Exit, Goto, Locations
  <2>3. \A d \in Commands : pc'[d] = IF d = c THEN "idle" ELSE pc[d]
    BY <1>3, <1>6 DEF Exit, Goto
  <2>4. \A d \in Commands : snap'[d] = IF d = c THEN None ELSE snap[d]
    BY <1>3, <1>6 DEF Exit
  <2>5. \A d \in Commands : d # c => recovered'[d] = recovered[d] /\ job'[d] = job[d]
                                     /\ idOf'[d] = idOf[d]
    BY <1>3, <1>6 DEF Exit, BasicInv, TypeInv
  <2>6. StoreInv'
    BY <2>3, <2>4, <2>5 DEF BasicInv, StoreInv, Storing
  <2> QED BY <2>1, <2>2, <2>6 DEF BasicInv, CursorInv
<1>7. ASSUME job[c] = "create", NEW o \in Orders,
             snap' = [snap EXCEPT ![c] = [recs |-> recovered[c], order |-> o]],
             Goto(c, "data_create"), UNCHANGED <<files, scan, ids, trace>>
      PROVE  BasicInv'
  <2>1. PICK m : m = [recs |-> recovered[c], order |-> o]
    OBVIOUS
  <2>2. m \in Images /\ m.recs = recovered[c]
    BY <1>3, <2>1 DEF Images
  <2>3. snap' \in [Commands -> Images \cup {None}] /\ snap'[c] = m
        /\ \A d \in Commands : d # c => snap'[d] = snap[d]
    BY <1>3, <1>7, <2>1, <2>2
  <2>4. TypeInv'
    BY <1>1, <1>7, <2>3 DEF BasicInv, TypeInv, files, scan, ids, trace, Goto, Locations
  <2>5. \A d \in Commands : pc'[d] = IF d = c THEN "data_create" ELSE pc[d]
    BY <1>3, <1>7 DEF Goto
  <2>6. \A d \in Commands : ~Scanning(d)'
    BY <1>2, <2>5 DEF Scanning
  <2>7. StoreInv'
    BY <1>7, <2>2, <2>3, <2>5 DEF BasicInv, StoreInv, Storing, Scanning, scan, ids
  <2> QED BY <2>4, <2>6, <2>7 DEF BasicInv, CursorInv
<1> QED BY <1>5, <1>6, <1>7 DEF SegmentDone

LEMMA BasicStep ==
  ASSUME ~MayOverlapScans, BasicInv, [Next]_vars
  PROVE  BasicInv'
<1> USE DEF log, files, scan, ids, trace, others
<1>1. CASE AppendRecord \/ Flush \/ WriteRecord \/ Rotate
  BY <1>1, ServerGrows, GrowsBasic DEF BasicInv
<1>2. ASSUME NEW c \in Commands, ReadEnd(c)
      PROVE  BasicInv'
  BY <1>2, DoneBasic DEF ReadEnd, Scanning, BasicInv, TypeInv
<1>3. ASSUME NEW c \in Commands, CutTail(c)
      PROVE  BasicInv'
  BY <1>3, CutTailCuts, DoneBasic DEF Cuts
<1>4. ASSUME NEW c \in Commands, NEW j \in {"create", "check"}, NEW i \in SnapIds, Begin(c, j, i)
      PROVE  BasicInv'
  <2>1. \A d \in Commands : ~Scanning(d)
    BY <1>4 DEF Begin
  <2>2. \A d \in Commands : pc'[d] = IF d = c THEN "read" ELSE pc[d]
    BY <1>4 DEF Begin, Goto, BasicInv, TypeInv
  <2>3. Len(segs) \in Nat \ {0} /\ InLog \subseteq Records /\ Len(segs[1]) \in Nat
    BY LogTypes DEF BasicInv, InLog
  <2>4. TypeInv'
    <3>1. success' \in [SnapIds -> (SUBSET Records) \cup {None}]
      BY <1>4 DEF Begin, BasicInv, TypeInv
    <3>7. shared' \in [SnapIds -> BOOLEAN]
      BY <1>4 DEF Begin, BasicInv, TypeInv, InUse
    <3>2. before' \in [Commands -> SUBSET Records] /\ cutBefore' \in [Commands -> SUBSET Records]
      BY <1>4, <2>3 DEF Begin, BasicInv, TypeInv
    <3>3. idOf' \in [Commands -> SnapIds \cup {None}]
          /\ job' \in [Commands -> {"none", "create", "check"}]
      BY <1>4 DEF Begin, BasicInv, TypeInv
    <3>4. listed' \in [Commands -> Nat] /\ seg' \in [Commands -> Nat] /\ off' \in [Commands -> Nat]
      BY <1>4, <2>3 DEF Begin, BasicInv, TypeInv
    <3>5. pc' \in [Commands -> Locations] /\ recovered' \in [Commands -> SUBSET Records]
      BY <1>4 DEF Begin, BasicInv, TypeInv, Goto, Locations
    <3>6. UNCHANGED <<log, files, snap>>
      BY <1>4 DEF Begin
    <3> QED BY <3>1, <3>2, <3>3, <3>4, <3>5, <3>6, <3>7 DEF BasicInv, TypeInv
  <2>5. CursorInv'
    <3>1. \A d \in Commands : Scanning(d)' => d = c
      BY <2>1, <2>2 DEF Scanning
    <3>2. seg'[c] = 1 /\ listed'[c] = Len(segs) /\ off'[c] = 0 /\ segs' = segs
      BY <1>4 DEF Begin, BasicInv, TypeInv
    <3> QED BY <2>3, <3>1, <3>2 DEF CursorInv
  <2>6. StoreInv'
    <3>1. \A d \in Commands : Storing(d)' <=> Storing(d)
      BY <1>4, <2>2 DEF Storing, Begin
    <3>2. snap' = snap /\ ~Storing(c)
      BY <1>4 DEF Begin, Storing
    <3>3. \A d \in Commands : d # c => recovered'[d] = recovered[d] /\ job'[d] = job[d]
                                       /\ idOf'[d] = idOf[d]
      BY <1>4 DEF Begin, BasicInv, TypeInv
    <3>4. job'[c] = "create" => idOf'[c] \in SnapIds
      BY <1>4 DEF Begin, BasicInv, TypeInv
    <3> QED BY <2>2, <3>1, <3>2, <3>3, <3>4 DEF BasicInv, StoreInv
  <2> QED BY <2>4, <2>5, <2>6 DEF BasicInv
<1>5. ASSUME NEW c \in Commands, ReadRecord(c)
      PROVE  BasicInv'
  <2>1. PICK k, f : k = seg[c] /\ f = off[c] + 1
    OBVIOUS
  <2>2. Scanning(c) /\ k \in 1..listed[c] /\ listed[c] <= Len(segs)
    BY <1>5, <2>1 DEF ReadRecord, Scanning, BasicInv, CursorInv
  <2>3. k \in 1..Len(segs) /\ off[c] \in Nat /\ f \in Nat
    BY <2>1, <2>2, LogTypes, SMTT(40) DEF BasicInv, TypeInv
  <2>4. f \in 1..Len(segs[k]) /\ Len(segs[k]) \in Nat /\ segs[k][f] \in Records
    BY <1>5, <2>1, <2>3, LogTypes DEF ReadRecord, BasicInv
  <2>5. /\ recovered' = [recovered EXCEPT ![c] = @ \cup {segs[k][f]}]
        /\ off' = [off EXCEPT ![c] = f]
        /\ UNCHANGED <<log, files, pc, listed, seg, ids, snap, trace>>
    BY <1>5, <2>1 DEF ReadRecord
  <2>6. TypeInv'
    BY <2>3, <2>4, <2>5 DEF BasicInv, TypeInv
  <2>7. CursorInv'
    <3>1. off'[c] <= Len(segs[seg[c]])
      BY <2>1, <2>3, <2>4, <2>5 DEF BasicInv, TypeInv
    <3>2. \A d \in Commands : d # c => ~Scanning(d)
      BY <2>2 DEF BasicInv, CursorInv
    <3>3. \A d \in Commands : Scanning(d)' <=> Scanning(d)
      BY <2>5 DEF Scanning
    <3> QED BY <2>5, <3>1, <3>2, <3>3 DEF BasicInv, CursorInv
  <2>8. StoreInv'
    <3>1. ~Storing(c)
      BY <1>5 DEF ReadRecord, Storing
    <3> QED BY <2>5, <3>1 DEF BasicInv, StoreInv, Storing, TypeInv
  <2> QED BY <2>6, <2>7, <2>8 DEF BasicInv
<1>6. ASSUME NEW c \in Commands, ReadTorn(c)
      PROVE  BasicInv'
  <2>1. \A d \in Commands : pc'[d] = IF d = c THEN "cut" ELSE pc[d]
    BY <1>6 DEF ReadTorn, Goto, BasicInv, TypeInv
  <2>2. UNCHANGED <<log, files, scan, ids, snap, trace>> /\ pc[c] = "read"
    BY <1>6 DEF ReadTorn
  <2>3. \A d \in Commands : Scanning(d)' <=> Scanning(d)
    BY <2>1, <2>2 DEF Scanning
  <2>4. TypeInv'
    BY <1>6, <2>2 DEF ReadTorn, Goto, BasicInv, TypeInv, Locations
  <2>5. CursorInv' /\ StoreInv'
    BY <2>1, <2>2, <2>3 DEF BasicInv, CursorInv, StoreInv, Storing
  <2> QED BY <2>4, <2>5 DEF BasicInv
<1>7. ASSUME NEW c \in Commands, CreateData(c) \/ WriteData(c) \/ CreateMeta(c)
      PROVE  BasicInv'
  <2>1. Storing(c) /\ snap[c] \in Images
    BY <1>7 DEF CreateData, WriteData, CreateMeta, Storing, BasicInv, StoreInv
  <2>2. UNCHANGED <<log, scan, ids, snap, trace>>
        /\ \A d \in Commands : d # c => pc'[d] = pc[d]
    BY <1>7 DEF CreateData, WriteData, CreateMeta, Goto, BasicInv, TypeInv
  <2>3. Storing(c)' /\ pc' \in [Commands -> Locations]
    BY <1>7 DEF CreateData, WriteData, CreateMeta, Goto, BasicInv, TypeInv, Storing, Locations
  <2>4. /\ data' \in [SnapIds -> Images \cup {Absent, Torn}]
        /\ meta' \in [SnapIds -> Images \cup {Absent, Torn}]
    BY <1>7, <2>1 DEF CreateData, WriteData, CreateMeta, Overwritten, BasicInv, TypeInv
  <2>5. TypeInv'
    BY <2>2, <2>3, <2>4 DEF BasicInv, TypeInv
  <2>6. \A d \in Commands : /\ Scanning(d)' <=> Scanning(d)
                            /\ Storing(d)' <=> Storing(d)
                            /\ pc'[d] # "idle" => pc[d] # "idle"
    BY <2>1, <2>2, <2>3 DEF Scanning, Storing
  <2> QED BY <2>2, <2>5, <2>6 DEF BasicInv, CursorInv, StoreInv
<1>8. ASSUME NEW c \in Commands, WriteMeta(c) \/ Kill(c)
      PROVE  BasicInv'
  <2>1. Exit(c) /\ UNCHANGED log
    BY <1>8 DEF WriteMeta, Kill
  <2>2. /\ meta' \in [SnapIds -> Images \cup {Absent, Torn}] /\ data' = data
        /\ success' \in [SnapIds -> (SUBSET Records) \cup {None}] /\ shared' = shared
    <3>1. CASE WriteMeta(c)
      <4>1. PICK m : m = snap[c]
        OBVIOUS
      <4>2. m \in Images /\ m.recs \in SUBSET Records
        BY <3>1, <4>1 DEF WriteMeta, BasicInv, StoreInv, Storing, Images
      <4> QED BY <3>1, <4>1, <4>2 DEF WriteMeta, MetaImage, Overwritten, BasicInv, TypeInv
    <3>2. CASE Kill(c)
      BY <3>2 DEF Kill, BasicInv, TypeInv
    <3> QED BY <1>8, <3>1, <3>2
  <2>3. TypeInv'
    BY <2>1, <2>2 DEF Exit, Goto, BasicInv, TypeInv, Locations
  <2>4. \A d \in Commands : /\ pc'[d] = IF d = c THEN "idle" ELSE pc[d]
                            /\ snap'[d] = IF d = c THEN None ELSE snap[d]
    BY <2>1 DEF Exit, Goto, BasicInv, TypeInv
  <2>5. \A d \in Commands : d # c =>
          /\ recovered'[d] = recovered[d] /\ job'[d] = job[d] /\ idOf'[d] = idOf[d]
          /\ seg'[d] = seg[d] /\ off'[d] = off[d] /\ listed'[d] = listed[d]
    BY <2>1 DEF Exit, BasicInv, TypeInv
  <2>6. StoreInv'
    BY <2>4, <2>5 DEF BasicInv, StoreInv, Storing
  <2>7. CursorInv'
    BY <2>1, <2>4, <2>5 DEF BasicInv, CursorInv, Scanning
  <2> QED BY <2>3, <2>6, <2>7 DEF BasicInv
<1>9. CASE UNCHANGED vars
  BY <1>9 DEF vars, BasicInv, TypeInv, CursorInv, StoreInv, Scanning, Storing
<1> QED BY <1>1, <1>2, <1>3, <1>4, <1>5, <1>6, <1>7, <1>8, <1>9 DEF Next

-----------------------------------------------------------------------------
(* The files of snapshots.                                                 *)

\* The creates of an id stay where they are, are not yet at its files, or end.
LEMMA FilesSame ==
  ASSUME NEW i \in SnapIds, FilesAt(i),
         data'[i] = data[i], meta'[i] = meta[i], success'[i] = success[i], shared'[i] = shared[i],
         \A c \in Commands : CreatingOf(c, i)' =>
           /\ CreatingOf(c, i)
           /\ \/ pc'[c] = pc[c] /\ snap'[c] = snap[c]
              \/ pc'[c] \in {"read", "cut", "data_create"}
  PROVE  FilesAt(i)'
<1>1. CASE shared[i]
  BY <1>1 DEF FilesAt
<1>2. CASE ~shared[i]
  <2>1. \A c \in Commands : CreatingOf(c, i)' => Progress(c, i)'
    BY <1>2 DEF FilesAt, Progress
  <2> QED BY <1>2, <2>1 DEF FilesAt
<1> QED BY <1>1, <1>2

LEMMA ExitFiles ==
  ASSUME BasicInv, FilesInv, NEW c \in Commands, Exit(c), UNCHANGED <<data, meta, success, shared>>
  PROVE  FilesInv'
<1>1. \A d \in Commands : /\ pc'[d] = IF d = c THEN "idle" ELSE pc[d]
                          /\ d # c => job'[d] = job[d] /\ idOf'[d] = idOf[d] /\ snap'[d] = snap[d]
  BY DEF Exit, Goto, BasicInv, TypeInv
<1>2. \A i \in SnapIds : \A d \in Commands : CreatingOf(d, i)' =>
        CreatingOf(d, i) /\ pc'[d] = pc[d] /\ snap'[d] = snap[d]
  BY <1>1 DEF Creating, CreatingOf
<1> QED BY <1>2, FilesSame DEF FilesInv

LEMMA DoneFiles ==
  ASSUME BasicInv, FilesInv, NEW c \in Commands, SegmentDone(c), Scanning(c)
  PROVE  FilesInv'
<1>1. CASE Exit(c) /\ UNCHANGED <<files, success, shared, begun>>
  BY <1>1, ExitFiles DEF files
<1>2. CASE UNCHANGED <<files, success, shared, ids>> /\ (Goto(c, "read") \/ Goto(c, "data_create"))
           /\ \A d \in Commands : d # c => snap'[d] = snap[d]
  <2>1. /\ \A d \in Commands : d # c => pc'[d] = pc[d]
        /\ pc'[c] \in {"read", "data_create"} /\ pc[c] # "idle"
    BY <1>2 DEF Goto, BasicInv, TypeInv, Scanning
  <2>2. \A i \in SnapIds : \A d \in Commands : CreatingOf(d, i)' =>
          /\ CreatingOf(d, i)
          /\ \/ pc'[d] = pc[d] /\ snap'[d] = snap[d]
             \/ pc'[d] \in {"read", "cut", "data_create"}
    BY <1>2, <2>1 DEF Creating, CreatingOf, ids
  <2> QED BY <1>2, <2>2, FilesSame DEF files, FilesInv
<1> QED BY <1>1, <1>2 DEF SegmentDone, BasicInv, TypeInv, trace

LEMMA FilesStep ==
  ASSUME BasicInv, FilesInv, [Next]_vars
  PROVE  FilesInv'
<1> USE DEF log, files, scan, ids, trace, others
<1>1. CASE UNCHANGED <<files, pc, ids, snap, success, shared>>
  BY <1>1, FilesSame DEF FilesInv, Creating, CreatingOf
<1>2. ASSUME NEW c \in Commands, ReadEnd(c) \/ CutTail(c)
      PROVE  FilesInv'
  BY <1>2, DoneFiles DEF ReadEnd, CutTail, Scanning
<1>3. ASSUME NEW c \in Commands, NEW j \in {"create", "check"}, NEW i \in SnapIds, Begin(c, j, i),
             NEW k \in SnapIds
      PROVE  FilesAt(k)'
  <2>1. /\ \A d \in Commands : d # c => pc'[d] = pc[d] /\ job'[d] = job[d] /\ idOf'[d] = idOf[d]
        /\ pc'[c] = "read" /\ job'[c] = j /\ (j = "create" => idOf'[c] = i)
        /\ UNCHANGED <<data, meta, snap>> /\ pc[c] = "idle"
    BY <1>3 DEF Begin, Goto, BasicInv, TypeInv
  <2>2. CASE j = "check" \/ k # i
    <3>1. success'[k] = success[k] /\ shared'[k] = shared[k]
      BY <1>3, <2>2 DEF Begin, BasicInv, TypeInv
    <3>2. \A d \in Commands : CreatingOf(d, k)' =>
            CreatingOf(d, k) /\ pc'[d] = pc[d] /\ snap'[d] = snap[d]
      BY <2>1, <2>2 DEF Creating, CreatingOf
    <3> QED BY <2>1, <3>1, <3>2, FilesSame DEF FilesInv
  <2>3. CASE j = "create" /\ k = i
    <3>1. success'[i] = None /\ shared'[i] = InUse(i)
      BY <1>3, <2>3 DEF Begin, BasicInv, TypeInv
    <3>2. CASE ~InUse(i)
      <4>1. \A d \in Commands : ~CreatingOf(d, i)
        BY <3>2 DEF InUse, Creating, CreatingOf
      <4>2. \A d \in Commands : CreatingOf(d, i)' => d = c
        BY <2>1, <4>1 DEF Creating, CreatingOf
      <4>3. Progress(c, i)'
        BY <2>1, <3>1 DEF Progress
      <4> QED BY <2>3, <3>1, <4>2, <4>3 DEF FilesAt
    <3>3. CASE InUse(i)
      BY <2>3, <3>1, <3>3 DEF FilesAt
    <3> QED BY <3>2, <3>3
  <2> QED BY <2>2, <2>3
<1>4. ASSUME NEW c \in Commands, ReadTorn(c)
      PROVE  FilesInv'
  <2>1. /\ \A d \in Commands : d # c => pc'[d] = pc[d]
        /\ pc'[c] = "cut" /\ pc[c] = "read"
    BY <1>4 DEF ReadTorn, Goto, BasicInv, TypeInv
  <2>2. \A i \in SnapIds : \A d \in Commands : CreatingOf(d, i)' =>
          /\ CreatingOf(d, i)
          /\ \/ pc'[d] = pc[d] /\ snap'[d] = snap[d]
             \/ pc'[d] \in {"read", "cut", "data_create"}
    BY <1>4, <2>1 DEF ReadTorn, Creating, CreatingOf
  <2> QED BY <1>4, <2>2, FilesSame DEF ReadTorn, FilesInv
<1>5. ASSUME NEW c \in Commands, CreateData(c) \/ WriteData(c) \/ CreateMeta(c), NEW k \in SnapIds
      PROVE  FilesAt(k)'
  <2>1. /\ \A d \in Commands : d # c => pc'[d] = pc[d]
        /\ UNCHANGED <<job, idOf, snap, success, shared>>
        /\ pc[c] # "idle" /\ CreatingOf(c, idOf[c]) /\ idOf[c] \in SnapIds
    BY <1>5 DEF CreateData, WriteData, CreateMeta, Goto, Creating, CreatingOf,
                BasicInv, TypeInv, StoreInv, Storing
  <2>2. CASE k # idOf[c]
    <3>1. data'[k] = data[k] /\ meta'[k] = meta[k]
      BY <1>5, <2>2 DEF CreateData, WriteData, CreateMeta, BasicInv, TypeInv
    <3>2. \A d \in Commands : CreatingOf(d, k)' =>
            CreatingOf(d, k) /\ pc'[d] = pc[d] /\ snap'[d] = snap[d]
      BY <2>1, <2>2 DEF Creating, CreatingOf
    <3> QED BY <2>1, <3>1, <3>2, FilesSame DEF FilesInv
  <2>3. CASE k = idOf[c] /\ ~shared[k]
    <3>1. FilesAt(k) /\ CreatingOf(c, k)
      BY <2>1, <2>3 DEF FilesInv
    <3>2. /\ \A d \in Commands : CreatingOf(d, k) => d = c
          /\ Progress(c, k)
      BY <2>3, <3>1 DEF FilesAt
    <3>3. \A d \in Commands : CreatingOf(d, k)' => d = c
      BY <2>1, <3>2 DEF Creating, CreatingOf
    <3>4. Progress(c, k)'
      <4>1. CASE CreateData(c)
        <5>1. pc'[c] = "data_write" /\ data'[k] = Torn
          BY <2>3, <4>1 DEF CreateData, Goto, BasicInv, TypeInv
        <5> QED BY <2>1, <3>2, <5>1 DEF Progress
      <4>2. CASE WriteData(c)
        <5>1. data[k] = Torn
          BY <3>2, <4>2 DEF WriteData, Progress
        <5>2. pc'[c] = "meta_create" /\ data'[k] = snap[c]
          BY <2>3, <4>2, <5>1 DEF WriteData, Overwritten, Goto, BasicInv, TypeInv
        <5> QED BY <2>1, <3>2, <5>2 DEF Progress
      <4>3. CASE CreateMeta(c)
        <5>1. data[k] = snap[c]
          BY <3>2, <4>3 DEF CreateMeta, Progress
        <5>2. pc'[c] = "meta_write" /\ data' = data /\ meta'[k] = Torn
          BY <2>3, <4>3 DEF CreateMeta, Goto, BasicInv, TypeInv
        <5> QED BY <2>1, <3>2, <5>1, <5>2 DEF Progress
      <4> QED BY <1>5, <4>1, <4>2, <4>3
    <3>5. success'[k] = None
      BY <2>1, <3>2 DEF Progress
    <3> QED BY <3>3, <3>4, <3>5 DEF FilesAt
  <2>4. CASE shared[k]
    BY <2>1, <2>4 DEF FilesAt
  <2> QED BY <2>2, <2>3, <2>4
<1>6. ASSUME NEW c \in Commands, WriteMeta(c), NEW k \in SnapIds
      PROVE  FilesAt(k)'
  <2>1. /\ idOf[c] \in SnapIds /\ snap[c] \in Images /\ CreatingOf(c, idOf[c])
        /\ UNCHANGED <<data, shared>>
    BY <1>6 DEF WriteMeta, Creating, CreatingOf, Storing, BasicInv, StoreInv
  <2>2. \A d \in Commands : /\ pc'[d] = IF d = c THEN "idle" ELSE pc[d]
                            /\ d # c => job'[d] = job[d] /\ idOf'[d] = idOf[d] /\ snap'[d] = snap[d]
    BY <1>6 DEF WriteMeta, Exit, Goto, BasicInv, TypeInv
  <2>3. \A d \in Commands : CreatingOf(d, k)' => d # c /\ CreatingOf(d, k)
                                                 /\ pc'[d] = pc[d] /\ snap'[d] = snap[d]
    BY <2>2 DEF Creating, CreatingOf
  <2>4. CASE k # idOf[c]
    <3>1. meta'[k] = meta[k] /\ success'[k] = success[k]
      BY <1>6, <2>4 DEF WriteMeta, BasicInv, TypeInv
    <3> QED BY <2>1, <2>3, <3>1, FilesSame DEF FilesInv
  <2>5. CASE k = idOf[c] /\ ~shared[k]
    <3>1. /\ \A d \in Commands : CreatingOf(d, k) => d = c
          /\ Progress(c, k)
      BY <2>1, <2>5 DEF FilesInv, FilesAt
    <3>2. data[k] = snap[c] /\ meta[k] = Torn
      BY <1>6, <3>1 DEF WriteMeta, Progress
    <3>3. meta'[k] = snap[c] /\ success'[k] = snap[c].recs
      BY <1>6, <2>5, <3>2 DEF WriteMeta, MetaImage, Overwritten, BasicInv, TypeInv
    <3>4. \A d \in Commands : ~CreatingOf(d, k)'
      BY <2>3, <3>1
    <3> QED BY <2>1, <3>2, <3>3, <3>4 DEF FilesAt
  <2>6. CASE shared[k]
    BY <2>1, <2>6 DEF FilesAt
  <2> QED BY <2>4, <2>5, <2>6
<1>7. ASSUME NEW c \in Commands, Kill(c)
      PROVE  FilesInv'
  BY <1>7, ExitFiles DEF Kill
<1>8. CASE AppendRecord \/ Flush \/ WriteRecord \/ Rotate \/ UNCHANGED vars
           \/ \E c \in Commands : ReadRecord(c)
  BY <1>1, <1>8 DEF AppendRecord, Flush, WriteRecord, Rotate, ReadRecord, vars
<1>9. ASSUME NEW c \in Commands,
             \/ \E j \in {"create", "check"}, i \in SnapIds : Begin(c, j, i)
             \/ CreateData(c) \/ WriteData(c) \/ CreateMeta(c) \/ WriteMeta(c)
      PROVE  FilesInv'
  BY <1>3, <1>5, <1>6, <1>9 DEF FilesInv
<1> QED BY <1>2, <1>4, <1>7, <1>8, <1>9 DEF Next

\* The snapshot of a create that reported success reads back as what it recovered,
\* less what restore passes over, until another create of its id begins, although
\* SnapshotManager::create truncates and writes two files one after the other and
\* may be killed between any two steps.  Nothing is said of a create that began
\* while another of the same id was running.
THEOREM RestoreCorrect ==
  ASSUME ~MayOverlapScans
  PROVE  Spec => []SuccessRestorable
<1>1. Init => BasicInv /\ FilesInv
  <2> SUFFICES ASSUME Init PROVE FilesInv
    BY BasicInit
  <2> QED BY DEF Init, FilesInv, FilesAt, CreatingOf, Creating
<1>2. BasicInv /\ FilesInv /\ [Next]_vars => (BasicInv /\ FilesInv)'
  BY BasicStep, FilesStep
<1>3. BasicInv /\ FilesInv => SuccessRestorable
  BY DEF FilesInv, FilesAt, SuccessRestorable, Outcome, Restored
<1> QED BY <1>1, <1>2, <1>3, PTL DEF Spec

-----------------------------------------------------------------------------
(* What is read from the log.                                              *)

LEMMA ScansInit == Init => ScansInv
<1> SUFFICES ASSUME Init PROVE ScansInv
  OBVIOUS
<1>1. segs = <<<<>>>> /\ Len(segs) = 1 /\ Len(segs[1]) = 0
  BY DEF Init
<1>2. LogInv
  BY <1>1 DEF Init, LogInv
<1> QED BY <1>2 DEF Init, ScansInv, CutInv, KeepInv, ScanInv, Moment, Scanning, Storing

LEMMA WithinGrows ==
  ASSUME TypeInv, Grows, NEW l \in 0..Len(segs), NEW r, Within(r, l)
  PROVE  Within(r, l)'
<1>1. PICK k \in 1..l : \E n \in 1..Len(segs[k]) : segs[k][n] = r
  BY DEF Within
<1>2. PICK n \in 1..Len(segs[k]) : segs[k][n] = r
  BY <1>1
<1>3. k \in 1..Len(segs) /\ Len(segs[k]) \in Nat /\ k \in 1..Len(segs')
  BY LogTypes, SMTT(40) DEF Grows
<1>4. n \in 1..Len(segs'[k]) /\ segs'[k][n] = r
  BY <1>2, <1>3, SMTT(40) DEF Grows
<1> QED BY <1>4 DEF Within

LEMMA GrowsScans ==
  ASSUME BasicInv, ScansInv, Grows
  PROVE  ScansInv'
<1>1. UNCHANGED <<pc, listed, seg, off, recovered, snap, success, before, cutBefore, cut>>
  BY DEF Grows, others, scan, trace
<1>2. PICK L : L = Len(segs)
  OBVIOUS
<1>3. /\ L \in Nat \ {0} /\ Len(segs') \in Nat /\ L <= Len(segs') /\ written \in Nat
      /\ \A k \in 1..L : Len(segs[k]) \in Nat /\ Len(segs[k]) <= Len(segs'[k])
      /\ \A k \in 1..L : \A n \in 1..Len(segs[k]) : segs'[k][n] = segs[k][n]
      /\ \A k \in 1..Len(segs') : Len(segs'[k]) \in Nat /\ \A n \in 1..Len(segs'[k]) :
           \/ k \in 1..L /\ n \in 1..Len(segs[k])
           \/ /\ k = L /\ n = Len(segs[k]) + 1
              /\ segs'[k][n] = written + 1 /\ written' = written + 1
  BY <1>2, LogTypes DEF Grows, BasicInv, TypeInv
<1>4. \A k \in 1..L : \A n \in 1..Len(segs[k]) : segs[k][n] \in 1..written
  BY <1>2 DEF ScansInv, LogInv
<1>5. \A l \in 0..L : \A r : Within(r, l) => Within(r, l)' /\ r \in 1..written
  <2> SUFFICES ASSUME NEW l \in 0..L, NEW r, Within(r, l)
               PROVE  Within(r, l)' /\ r \in 1..written
    OBVIOUS
  <2>1. Within(r, l)'
    BY <1>2, WithinGrows DEF BasicInv
  <2>2. PICK k \in 1..l : \E n \in 1..Len(segs[k]) : segs[k][n] = r
    BY DEF Within
  <2>3. PICK n \in 1..Len(segs[k]) : segs[k][n] = r
    BY <2>2
  <2>4. k \in 1..L
    BY <1>3
  <2> QED BY <1>4, <2>1, <2>3, <2>4
<1>6. \A r : Within(r, Len(segs)) => Within(r, Len(segs))' /\ r \in 1..written
  <2> SUFFICES ASSUME NEW r, Within(r, L)
               PROVE  Within(r, Len(segs))' /\ r \in 1..written
    BY <1>2
  <2>1. Within(r, L)' /\ r \in 1..written
    BY <1>3, <1>5
  <2> QED BY <1>3, <2>1, SMTT(40) DEF Within
<1>7. LogInv'
  <2>1. ASSUME NEW k \in 1..Len(segs'), NEW n \in 1..Len(segs'[k])
        PROVE  segs'[k][n] \in 1..written'
    <3>1. written' \in Nat /\ written <= written'
      BY <1>3 DEF Grows
    <3>2. CASE k \in 1..L /\ n \in 1..Len(segs[k])
      <4>1. segs'[k][n] = segs[k][n] /\ segs[k][n] \in 1..written
        BY <1>3, <1>4, <3>2
      <4> QED BY <1>3, <3>1, <4>1
    <3>3. CASE segs'[k][n] = written + 1 /\ written' = written + 1
      BY <1>3, <3>3
    <3> QED BY <1>3, <2>1, <3>2, <3>3
  <2>2. ASSUME NEW k \in 1..Len(segs'), NEW l \in 1..Len(segs'),
               NEW n \in 1..Len(segs'[k]), NEW m \in 1..Len(segs'[l]), Earlier(k, n, l, m)
        PROVE  segs'[k][n] < segs'[l][m]
    <3>1. CASE k \in 1..L /\ n \in 1..Len(segs[k]) /\ l \in 1..L /\ m \in 1..Len(segs[l])
      BY <1>2, <1>3, <2>2, <3>1 DEF ScansInv, LogInv
    <3>2. CASE /\ k \in 1..L /\ n \in 1..Len(segs[k])
               /\ segs'[l][m] = written + 1
      <4>1. segs'[k][n] = segs[k][n] /\ segs[k][n] \in 1..written
        BY <1>3, <1>4, <3>2
      <4> QED BY <1>3, <3>2, <4>1, SMTT(40)
    <3>3. CASE k = L /\ n = Len(segs[k]) + 1
      <4>1. l \in 1..L /\ (l = L => m \in 1..(Len(segs[L]) + 1))
        BY <1>3
      <4> QED BY <1>3, <2>2, <3>3, <4>1 DEF Earlier
    <3> QED BY <1>3, <3>1, <3>2, <3>3
  <2>3. ASSUME NEW r \in 1..written' PROVE r \in cut \/ Within(r, Len(segs))'
    <3>1. CASE r \in 1..written
      BY <1>6, <3>1 DEF ScansInv, LogInv
    <3>2. CASE r \notin 1..written
      <4>1. r = written' /\ written' = written + 1
        BY <1>3, <3>2 DEF Grows
      <4> QED BY <1>3, <4>1 DEF Grows, Within
    <3> QED BY <3>1, <3>2
  <2> QED BY <1>1, <2>1, <2>2, <2>3 DEF LogInv, Earlier
<1>8. KeepInv'
  BY <1>1, <1>6 DEF ScansInv, KeepInv
<1>9. /\ \A r : Fresh(r)' <=> Fresh(r)
      /\ Fresh(written + 1)
  <2>1. \A r : Fresh(r)' <=> Fresh(r)
    BY <1>1 DEF Fresh
  <2>2. \A r : Within(r, Len(segs)) => r # written + 1
    BY <1>3, <1>6
  <2> QED BY <2>1, <2>2 DEF Fresh, ScansInv, KeepInv
<1>10. ASSUME NEW c \in Commands, Scanning(c)
       PROVE  /\ seg[c] \in 1..L /\ listed[c] \in 0..L /\ off[c] \in 0..Len(segs[seg[c]])
              /\ seg[c] \in 1..listed[c]
  BY <1>2, <1>3, <1>10 DEF BasicInv, CursorInv, TypeInv
<1>11. CutInv'
  <2> SUFFICES ASSUME NEW c \in Commands, pc[c] = "cut"
               PROVE  /\ seg[c] = listed[c]
                      /\ \A n \in 1..Len(segs'[seg[c]]) : n > off[c] => Fresh(segs[seg[c]][n])'
    BY <1>1 DEF CutInv
  <2>1. seg[c] = listed[c] /\ \A n \in 1..Len(segs[seg[c]]) : n > off[c] => Fresh(segs[seg[c]][n])
    BY DEF ScansInv, CutInv
  <2>2. PICK k : k = seg[c]
    OBVIOUS
  <2>3. k \in 1..L
    BY <1>10, <2>2 DEF Scanning
  <2>4. ASSUME NEW n \in 1..Len(segs'[k]), n > off[c]
        PROVE  Fresh(segs[k][n])'
    <3>1. PICK r : r = segs'[k][n]
      OBVIOUS
    <3>2. Fresh(r)
      <4>1. CASE n \in 1..Len(segs[k])
        BY <1>3, <2>1, <2>2, <2>3, <2>4, <3>1, <4>1
      <4>2. CASE n \notin 1..Len(segs[k])
        BY <1>3, <1>9, <2>3, <3>1, <4>2, SMTT(40)
      <4> QED BY <4>1, <4>2
    <3>3. Fresh(r)'
      BY <1>9, <3>2
    <3> QED BY <3>1, <3>3
  <2> QED BY <1>1, <2>1, <2>2, <2>4
<1>12. ASSUME NEW c \in Commands PROVE ScanInv(c)'
  <2> SUFFICES ASSUME Scanning(c)
               PROVE  /\ cutBefore[c] = cut
                      /\ \A k \in 1..Len(segs') : \A n \in 1..Len(segs'[k]) :
                           Past(c, k, n) => segs'[k][n] \in recovered[c]
                      /\ \A r \in recovered[c] : \E k \in 1..Len(segs') :
                           \E n \in 1..Len(segs'[k]) : Past(c, k, n) /\ segs'[k][n] = r
                      /\ \A r \in before[c] : Within(r, listed[c])'
    BY <1>1 DEF ScanInv, Scanning, Past
  <2>1. /\ cutBefore[c] = cut
        /\ \A k \in 1..L : \A n \in 1..Len(segs[k]) : Past(c, k, n) => segs[k][n] \in recovered[c]
        /\ \A r \in recovered[c] : \E k \in 1..L :
             \E n \in 1..Len(segs[k]) : Past(c, k, n) /\ segs[k][n] = r
        /\ \A r \in before[c] : Within(r, listed[c])
    BY <1>2 DEF ScansInv, ScanInv
  <2>2. ASSUME NEW k \in 1..Len(segs'), NEW n \in 1..Len(segs'[k]), Past(c, k, n)
        PROVE  segs'[k][n] \in recovered[c]
    <3>1. k \in 1..L /\ n \in 1..Len(segs[k])
      BY <1>3, <1>10, <2>2 DEF Past
    <3> QED BY <1>3, <2>1, <2>2, <3>1, SMTT(40)
  <2>3. ASSUME NEW r \in recovered[c]
        PROVE  \E k \in 1..Len(segs') :
                 \E n \in 1..Len(segs'[k]) : Past(c, k, n) /\ segs'[k][n] = r
    <3>1. PICK k \in 1..L : \E n \in 1..Len(segs[k]) : Past(c, k, n) /\ segs[k][n] = r
      BY <2>1, <2>3
    <3>2. PICK n \in 1..Len(segs[k]) : Past(c, k, n) /\ segs[k][n] = r
      BY <3>1
    <3>3. k \in 1..Len(segs') /\ n \in 1..Len(segs'[k]) /\ segs'[k][n] = r
      BY <1>3, <3>2
    <3> QED BY <3>2, <3>3
  <2>4. PICK l : l = listed[c]
    OBVIOUS
  <2>5. \A r \in before[c] : Within(r, l)'
    BY <1>5, <1>10, <2>1, <2>4
  <2> QED BY <1>1, <2>1, <2>2, <2>3, <2>4, <2>5
<1>13. ASSUME NEW c \in Commands PROVE Moment(c)'
  BY <1>1 DEF ScansInv, Moment, Storing
<1> QED BY <1>7, <1>8, <1>11, <1>12, <1>13 DEF ScansInv

\* At the end of the last segment what was recovered was there at one moment.
LEMMA EndMoment ==
  ASSUME BasicInv, ScansInv, NEW c \in Commands, Scanning(c), seg[c] >= listed[c],
         \A n \in 1..Len(segs[seg[c]]) : n > off[c] => Fresh(segs[seg[c]][n])
  PROVE  /\ before[c] \subseteq recovered[c]
         /\ \A r \in recovered[c] : 1..r \subseteq recovered[c] \cup cutBefore[c]
<1>1. PICK L : L = Len(segs)
  OBVIOUS
<1>2. /\ L \in Nat /\ \A k \in 1..L : Len(segs[k]) \in Nat
      /\ seg[c] \in 1..L /\ listed[c] = seg[c] /\ off[c] \in Nat
  <2>1. L \in Nat /\ \A k \in 1..L : Len(segs[k]) \in Nat
    BY <1>1, LogTypes DEF BasicInv
  <2>2. seg[c] \in 1..listed[c] /\ listed[c] <= Len(segs) /\ listed[c] \in Nat /\ off[c] \in Nat
    BY DEF BasicInv, CursorInv, TypeInv
  <2> QED BY <1>1, <2>1, <2>2
<1>3. /\ cutBefore[c] = cut
      /\ \A k \in 1..L : \A n \in 1..Len(segs[k]) : Past(c, k, n) => segs[k][n] \in recovered[c]
      /\ \A r \in recovered[c] : \E k \in 1..L :
           \E n \in 1..Len(segs[k]) : Past(c, k, n) /\ segs[k][n] = r
      /\ \A r \in before[c] : Within(r, listed[c])
  BY <1>1 DEF ScansInv, ScanInv
<1>4. ASSUME NEW r \in before[c] PROVE r \in recovered[c]
  <2>1. PICK k \in 1..seg[c] : \E n \in 1..Len(segs[k]) : segs[k][n] = r
    BY <1>2, <1>3 DEF Within
  <2>2. PICK n \in 1..Len(segs[k]) : segs[k][n] = r
    BY <2>1
  <2>3. k \in 1..L
    BY <1>2
  <2>4. Past(c, k, n)
    <3>1. ~(k = seg[c] /\ n > off[c])
      BY <2>2 DEF Fresh
    <3> QED BY <1>2, <2>3, <3>1 DEF Past
  <2> QED BY <1>3, <2>2, <2>3, <2>4
<1>5. ASSUME NEW r \in recovered[c], NEW q \in 1..r, q \notin recovered[c]
      PROVE  q \in cut
  <2>1. PICK k \in 1..L : \E n \in 1..Len(segs[k]) : Past(c, k, n) /\ segs[k][n] = r
    BY <1>3
  <2>2. PICK n \in 1..Len(segs[k]) : Past(c, k, n) /\ segs[k][n] = r
    BY <2>1
  <2>3. r \in 1..written /\ written \in Nat
    BY <1>1, <2>2 DEF ScansInv, LogInv, BasicInv, TypeInv
  <2>4. q \in 1..written
    BY <2>3
  <2>5. ASSUME Within(q, L) PROVE FALSE
    <3>1. PICK l \in 1..L : \E m \in 1..Len(segs[l]) : segs[l][m] = q
      BY <2>5 DEF Within
    <3>2. PICK m \in 1..Len(segs[l]) : segs[l][m] = q
      BY <3>1
    <3>3. ~Past(c, l, m)
      BY <1>3, <1>5, <3>2
    <3>4. Earlier(k, n, l, m)
      BY <1>2, <2>2, <3>3 DEF Past, Earlier
    <3>5. r < q
      BY <1>1, <2>2, <3>2, <3>4 DEF ScansInv, LogInv
    <3> QED BY <2>3, <3>5
  <2> QED BY <1>1, <2>4, <2>5 DEF ScansInv, LogInv
<1> QED BY <1>3, <1>4, <1>5

\* A command has read the last segment, and may have cut it.
LEMMA DoneScans ==
  ASSUME BasicInv, ScansInv, NEW c \in Commands, Scanning(c), SegmentDone(c),
         seg[c] >= listed[c], LogInv',
         \A n \in 1..Len(segs[seg[c]]) : n > off[c] => Fresh(segs[seg[c]][n]),
         \A r : Within(r, Len(segs)) /\ ~Fresh(r) => Within(r, Len(segs))'
  PROVE  ScansInv'
<1>1. listed[c] \in Nat /\ seg[c] \in Nat /\ ~(seg[c] < listed[c])
  BY DEF BasicInv, TypeInv
<1>2. /\ success' = success
      /\ \A d \in Commands : d # c =>
           /\ pc'[d] = pc[d] /\ recovered'[d] = recovered[d]
           /\ before'[d] = before[d] /\ cutBefore'[d] = cutBefore[d]
      /\ \/ pc'[c] = "idle" /\ recovered'[c] = {} /\ before'[c] = {}
         \/ /\ pc'[c] = "data_create" /\ recovered'[c] = recovered[c]
            /\ before'[c] = before[c] /\ cutBefore'[c] = cutBefore[c]
  <2>1. CASE Exit(c) /\ success' = success
    BY <2>1 DEF Exit, Goto, BasicInv, TypeInv
  <2>2. CASE Goto(c, "data_create") /\ UNCHANGED <<scan, trace>>
    BY <2>2 DEF Goto, scan, trace, BasicInv, TypeInv
  <2> QED BY <1>1, <2>1, <2>2 DEF SegmentDone, LastSegment
<1>3. \A d \in Commands : ~Scanning(d)'
  BY <1>2 DEF Scanning, BasicInv, CursorInv
<1>4. KeepInv'
  <2>1. \A d \in Commands : \A r \in recovered'[d] \cup before'[d] : r \in recovered[d] \cup before[d]
    BY <1>2
  <2>2. \A d \in Commands : \A r \in recovered[d] \cup before[d] :
          Within(r, Len(segs)) /\ ~Fresh(r)
    BY DEF ScansInv, KeepInv, Fresh
  <2>3. \A i \in SnapIds : success[i] # None =>
          \A r \in success[i] : Within(r, Len(segs)) /\ ~Fresh(r)
    BY DEF ScansInv, KeepInv, Fresh
  <2>4. \A d \in Commands : \A r \in recovered'[d] \cup before'[d] : Within(r, Len(segs))'
    BY <2>1, <2>2
  <2>5. \A i \in SnapIds : success'[i] # None => \A r \in success'[i] : Within(r, Len(segs))'
    BY <1>2, <2>3
  <2> QED BY <2>4, <2>5 DEF KeepInv
<1>5. ASSUME NEW d \in Commands PROVE Moment(d)'
  <2>1. CASE d # c
    BY <1>2, <2>1 DEF ScansInv, Moment, Storing
  <2>2. CASE d = c
    <3>1. /\ before[c] \subseteq recovered[c]
          /\ \A r \in recovered[c] : 1..r \subseteq recovered[c] \cup cutBefore[c]
      BY EndMoment
    <3> QED BY <1>2, <2>2, <3>1 DEF Moment, Storing
  <2> QED BY <2>1, <2>2
<1>6. CutInv' /\ \A d \in Commands : ScanInv(d)'
  BY <1>3 DEF CutInv, ScanInv, Scanning
<1> QED BY <1>4, <1>5, <1>6 DEF ScansInv

LEMMA CutScans ==
  ASSUME BasicInv, ScansInv, NEW c \in Commands, CutTail(c)
  PROVE  ScansInv'
<1>1. Cuts(c) /\ SegmentDone(c) /\ Scanning(c) /\ pc[c] = "cut"
  BY CutTailCuts DEF CutTail
<1>2. PICK L, s, f : L = Len(segs) /\ s = seg[c] /\ f = off[c]
  OBVIOUS
<1>3. /\ L \in Nat /\ s \in 1..L /\ f \in 0..Len(segs[s]) /\ listed[c] = s
      /\ \A k \in 1..L : Len(segs[k]) \in Nat
  <2>1. L \in Nat /\ \A k \in 1..L : Len(segs[k]) \in Nat
    BY <1>2, LogTypes DEF BasicInv
  <2>2. /\ seg[c] \in 1..listed[c] /\ listed[c] <= Len(segs) /\ off[c] <= Len(segs[seg[c]])
        /\ listed[c] \in Nat /\ off[c] \in Nat /\ seg[c] = listed[c]
    BY <1>1 DEF BasicInv, CursorInv, TypeInv, ScansInv, CutInv
  <2> QED BY <1>2, <2>1, <2>2
<1>4. /\ Len(segs') = L /\ UNCHANGED written
      /\ \A k \in 1..L : \A n \in 1..Len(segs'[k]) :
           n \in 1..Len(segs[k]) /\ segs'[k][n] = segs[k][n]
      /\ \A k \in 1..L : \A n \in 1..Len(segs[k]) :
           \/ n \in 1..Len(segs'[k]) /\ segs'[k][n] = segs[k][n]
           \/ k = s /\ n > f /\ segs[k][n] \in cut'
      /\ cut \subseteq cut'
  <2>1. /\ Len(segs') = L /\ \A k \in 1..L : k # s => segs'[k] = segs[k]
        /\ Len(segs'[s]) = f /\ \A n \in 1..f : segs'[s][n] = segs[s][n]
        /\ cut' = cut \cup {segs[s][n] : n \in (f + 1)..Len(segs[s])}
        /\ UNCHANGED written
    BY <1>1, <1>2 DEF Cuts
  <2>2. \A k \in 1..L : \A n \in 1..Len(segs'[k]) :
          n \in 1..Len(segs[k]) /\ segs'[k][n] = segs[k][n]
    BY <1>3, <2>1
  <2>3. ASSUME NEW k \in 1..L, NEW n \in 1..Len(segs[k])
        PROVE  \/ n \in 1..Len(segs'[k]) /\ segs'[k][n] = segs[k][n]
               \/ k = s /\ n > f /\ segs[k][n] \in cut'
    <3>1. CASE k # s
      BY <2>1, <3>1
    <3>2. CASE k = s /\ n <= f
      <4>1. n \in 1..f
        BY <1>3, <3>2
      <4> QED BY <2>1, <3>2, <4>1
    <3>3. CASE k = s /\ ~(n <= f)
      <4>1. n \in (f + 1)..Len(segs[s]) /\ n > f
        BY <1>3, <3>3
      <4> QED BY <2>1, <3>3, <4>1
    <3> QED BY <3>1, <3>2, <3>3
  <2> QED BY <2>1, <2>2, <2>3
<1>5. \A n \in 1..Len(segs[s]) : n > f => Fresh(segs[s][n])
  BY <1>1, <1>2 DEF ScansInv, CutInv
<1>6. ASSUME NEW r, Within(r, L), ~(Within(r, Len(segs))')
      PROVE  Fresh(r) /\ r \in cut'
  <2>1. PICK k \in 1..L : \E n \in 1..Len(segs[k]) : segs[k][n] = r
    BY <1>6 DEF Within
  <2>2. PICK n \in 1..Len(segs[k]) : segs[k][n] = r
    BY <2>1
  <2>3. ~(n \in 1..Len(segs'[k]) /\ segs'[k][n] = r)
    BY <1>4, <1>6 DEF Within
  <2> QED BY <1>4, <1>5, <2>2, <2>3
<1>7. LogInv'
  <2>1. \A k \in 1..L : \A n \in 1..Len(segs'[k]) : segs'[k][n] \in 1..written
    BY <1>2, <1>4 DEF ScansInv, LogInv
  <2>2. \A k, l \in 1..L : \A n \in 1..Len(segs'[k]) : \A m \in 1..Len(segs'[l]) :
          Earlier(k, n, l, m) => segs'[k][n] < segs'[l][m]
    <3> SUFFICES ASSUME NEW k \in 1..L, NEW l \in 1..L,
                        NEW n \in 1..Len(segs'[k]), NEW m \in 1..Len(segs'[l]), Earlier(k, n, l, m)
                 PROVE  segs'[k][n] < segs'[l][m]
      OBVIOUS
    <3>1. /\ n \in 1..Len(segs[k]) /\ segs'[k][n] = segs[k][n]
          /\ m \in 1..Len(segs[l]) /\ segs'[l][m] = segs[l][m]
      BY <1>4
    <3> QED BY <1>2, <3>1 DEF ScansInv, LogInv
  <2>3. \A r \in 1..written : r \in cut' \/ Within(r, Len(segs))'
    BY <1>2, <1>4, <1>6 DEF ScansInv, LogInv
  <2> QED BY <1>4, <2>1, <2>2, <2>3 DEF LogInv, Earlier
<1>8. \A r : Within(r, Len(segs)) /\ ~Fresh(r) => Within(r, Len(segs))'
  BY <1>2, <1>6
<1>9. /\ seg[c] >= listed[c]
      /\ \A n \in 1..Len(segs[seg[c]]) : n > off[c] => Fresh(segs[seg[c]][n])
  BY <1>2, <1>3, <1>5
<1> QED BY <1>1, <1>7, <1>8, <1>9, DoneScans

LEMMA ReadEndScans ==
  ASSUME BasicInv, ScansInv, NEW c \in Commands, ReadEnd(c)
  PROVE  ScansInv'
<1>1. /\ pc[c] = "read" /\ Scanning(c) /\ SegmentDone(c) /\ UNCHANGED <<segs, written, cut>>
      /\ off[c] >= Len(segs[seg[c]])
  BY DEF ReadEnd, Scanning, log
<1>2. PICK s, f : s = seg[c] /\ f = off[c]
  OBVIOUS
<1>3. /\ s \in 1..Len(segs) /\ f = Len(segs[s]) /\ f \in Nat /\ Len(segs) \in Nat /\ s \in Nat
      /\ listed[c] \in Nat /\ s <= listed[c]
      /\ \A k \in 1..Len(segs) : Len(segs[k]) \in Nat
  <2>1. Len(segs) \in Nat /\ \A k \in 1..Len(segs) : Len(segs[k]) \in Nat
    BY LogTypes DEF BasicInv
  <2>2. /\ seg[c] \in 1..listed[c] /\ listed[c] <= Len(segs) /\ off[c] <= Len(segs[seg[c]])
        /\ listed[c] \in Nat /\ off[c] \in Nat
    BY <1>1 DEF BasicInv, CursorInv, TypeInv
  <2> QED BY <1>1, <1>2, <2>1, <2>2
<1>4. LogInv' /\ \A r : Within(r, Len(segs))' <=> Within(r, Len(segs))
  <2>1. \A r : Within(r, Len(segs))' <=> Within(r, Len(segs))
    BY <1>1 DEF Within
  <2> QED BY <1>1, <2>1, SMTT(40) DEF ScansInv, LogInv, Earlier
<1>5. CASE s >= listed[c]
  <2>1. \A n \in 1..Len(segs[seg[c]]) : n > off[c] => Fresh(segs[seg[c]][n])
    BY <1>2, <1>3
  <2> QED BY <1>1, <1>2, <1>4, <1>5, <2>1, DoneScans
<1>6. CASE s < listed[c]
  <2>1. /\ seg' = [seg EXCEPT ![c] = s + 1] /\ off' = [off EXCEPT ![c] = 0]
        /\ Goto(c, "read")
        /\ UNCHANGED <<listed, recovered, success, before, cutBefore>>
    BY <1>1, <1>2, <1>3, <1>6 DEF SegmentDone, LastSegment, trace
  <2>2. \A d \in Commands : pc'[d] = pc[d]
    BY <1>1, <2>1 DEF Goto, BasicInv, TypeInv
  <2>3. \A d \in Commands : Scanning(d) => d = c
    BY <1>1 DEF BasicInv, CursorInv
  <2>4. KeepInv'
    BY <1>4, <2>1 DEF ScansInv, KeepInv
  <2>5. CutInv'
    BY <1>1, <2>2, <2>3 DEF CutInv, Scanning
  <2>6. \A k \in 1..Len(segs) : \A n \in 1..Len(segs[k]) : Past(c, k, n)' <=> Past(c, k, n)
    <3>1. seg'[c] = s + 1 /\ off'[c] = 0
      BY <2>1 DEF BasicInv, TypeInv
    <3> QED BY <1>2, <1>3, <3>1 DEF Past
  <2>7. ScanInv(c)
    BY DEF ScansInv
  <2>8. \A r : Within(r, listed[c])' <=> Within(r, listed[c])
    BY <1>1, <2>1 DEF Within
  <2>9. ScanInv(c)'
    BY <1>1, <2>1, <2>6, <2>7, <2>8 DEF ScanInv
  <2>10. ASSUME NEW d \in Commands PROVE ScanInv(d)' /\ Moment(d)'
    <3>1. ScanInv(d)'
      BY <2>2, <2>3, <2>9 DEF ScanInv, Scanning
    <3>2. Moment(d)'
      BY <2>1, <2>2 DEF ScansInv, Moment, Storing
    <3> QED BY <3>1, <3>2
  <2> QED BY <1>4, <2>4, <2>5, <2>10 DEF ScansInv
<1> QED BY <1>3, <1>5, <1>6

LEMMA BeginScans ==
  ASSUME ~MayOverlapScans, BasicInv, ScansInv,
         NEW c \in Commands, NEW j \in {"create", "check"}, NEW i \in SnapIds, Begin(c, j, i)
  PROVE  ScansInv'
<1>1. /\ \A d \in Commands : ~Scanning(d)
      /\ UNCHANGED <<segs, written, cut>> /\ pc[c] = "idle"
      /\ \A k \in SnapIds : success'[k] \in {success[k], None}
  BY DEF Begin, log, BasicInv, TypeInv
<1>2. \A d \in Commands : d # c =>
        /\ pc'[d] = pc[d] /\ recovered'[d] = recovered[d]
        /\ before'[d] = before[d] /\ cutBefore'[d] = cutBefore[d]
  BY DEF Begin, Goto, BasicInv, TypeInv
<1>3. /\ pc'[c] = "read" /\ recovered'[c] = {} /\ before'[c] = InLog /\ cutBefore'[c] = cut
      /\ seg'[c] = 1 /\ off'[c] = 0 /\ listed'[c] = Len(segs)
  BY DEF Begin, Goto, BasicInv, TypeInv
<1>4. \A r : Within(r, Len(segs))' <=> Within(r, Len(segs))
  BY <1>1 DEF Within
<1>5. \A r \in InLog : Within(r, Len(segs))
  BY InLogIs DEF BasicInv
<1>6. LogInv'
  BY <1>1, <1>4 DEF ScansInv, LogInv, Earlier
<1>7. KeepInv'
  <2>1. \A d \in Commands : \A r \in recovered'[d] \cup before'[d] : Within(r, Len(segs))
    BY <1>2, <1>3, <1>5 DEF ScansInv, KeepInv
  <2>2. \A k \in SnapIds : success'[k] # None => \A r \in success'[k] : Within(r, Len(segs))
    BY <1>1 DEF ScansInv, KeepInv
  <2> QED BY <1>4, <2>1, <2>2 DEF KeepInv
<1>8. CutInv'
  BY <1>1, <1>2, <1>3 DEF CutInv, Scanning
<1>9. ScanInv(c)'
  <2>1. ~(\E k \in 1..Len(segs') : \E n \in 1..Len(segs'[k]) : Past(c, k, n)')
    <3>1. Len(segs) \in Nat /\ \A k \in 1..Len(segs) : Len(segs[k]) \in Nat
      BY LogTypes DEF BasicInv
    <3> QED BY <1>1, <1>3, <3>1 DEF Past
  <2>2. \A r \in before'[c] : Within(r, listed[c])'
    BY <1>1, <1>3, <1>5 DEF Within
  <2> QED BY <1>1, <1>3, <2>1, <2>2 DEF ScanInv
<1>10. ASSUME NEW d \in Commands PROVE ScanInv(d)' /\ Moment(d)'
  <2>1. CASE d = c
    BY <1>3, <1>9, <2>1 DEF Moment, Storing
  <2>2. CASE d # c
    BY <1>1, <1>2, <2>2 DEF ScanInv, Moment, Storing, Scanning, ScansInv
  <2> QED BY <2>1, <2>2
<1> QED BY <1>6, <1>7, <1>8, <1>10 DEF ScansInv

LEMMA ReadRecordScans ==
  ASSUME BasicInv, ScansInv, NEW c \in Commands, ReadRecord(c)
  PROVE  ScansInv'
<1>1. PICK s, f : s = seg[c] /\ f = off[c] + 1
  OBVIOUS
<1>2. /\ Scanning(c) /\ pc[c] = "read"
      /\ s \in 1..Len(segs) /\ f \in 1..Len(segs[s]) /\ off[c] = f - 1 /\ f \in Nat
      /\ Len(segs) \in Nat /\ \A k \in 1..Len(segs) : Len(segs[k]) \in Nat
  <2>1. Scanning(c) /\ pc[c] = "read" /\ off[c] < Len(segs[seg[c]])
    BY DEF ReadRecord, Scanning
  <2>2. Len(segs) \in Nat /\ \A k \in 1..Len(segs) : Len(segs[k]) \in Nat
    BY LogTypes DEF BasicInv
  <2>3. seg[c] \in 1..listed[c] /\ listed[c] <= Len(segs) /\ listed[c] \in Nat /\ off[c] \in Nat
    BY <2>1 DEF BasicInv, CursorInv, TypeInv
  <2>4. s \in 1..Len(segs)
    BY <1>1, <2>2, <2>3
  <2> QED BY <1>1, <2>1, <2>2, <2>3, <2>4, SMTT(40)
<1>3. PICK q : q = segs[s][f]
  OBVIOUS
<1>4. /\ UNCHANGED <<segs, written, cut, pc, listed, seg, success, before, cutBefore>>
      /\ off'[c] = f /\ recovered'[c] = recovered[c] \cup {q}
      /\ \A d \in Commands : d # c => recovered'[d] = recovered[d]
  BY <1>1, <1>3 DEF ReadRecord, log, trace, BasicInv, TypeInv
<1>5. \A d \in Commands : Scanning(d) => d = c
  BY <1>2 DEF BasicInv, CursorInv
<1>6. LogInv' /\ \A r : Within(r, Len(segs))' <=> Within(r, Len(segs))
  <2>1. \A r : Within(r, Len(segs))' <=> Within(r, Len(segs))
    BY <1>4 DEF Within
  <2> QED BY <1>4, <2>1 DEF ScansInv, LogInv, Earlier
<1>7. KeepInv'
  <2>1. Within(q, Len(segs))
    BY <1>2, <1>3 DEF Within
  <2> QED BY <1>4, <1>6, <2>1 DEF ScansInv, KeepInv
<1>8. CutInv'
  BY <1>2, <1>4, <1>5 DEF CutInv, Scanning
<1>9. \A k \in 1..Len(segs) : \A n \in 1..Len(segs[k]) :
        Past(c, k, n)' <=> Past(c, k, n) \/ (k = s /\ n = f)
  <2> SUFFICES ASSUME NEW k \in 1..Len(segs), NEW n \in 1..Len(segs[k])
               PROVE  Past(c, k, n)' <=> Past(c, k, n) \/ (k = s /\ n = f)
    OBVIOUS
  <2>1. Past(c, k, n)' <=> k < s \/ (k = s /\ n <= f)
    BY <1>1, <1>4 DEF Past
  <2>2. Past(c, k, n) <=> k < s \/ (k = s /\ n <= f - 1)
    BY <1>1, <1>2 DEF Past
  <2>3. n \in Nat
    BY <1>2
  <2> QED BY <1>2, <2>1, <2>2, <2>3
<1>10. ScanInv(c)'
  <2>1. ScanInv(c)
    BY DEF ScansInv
  <2>2. \A k \in 1..Len(segs) : \A n \in 1..Len(segs[k]) :
          Past(c, k, n)' => segs[k][n] \in recovered'[c]
    BY <1>2, <1>3, <1>4, <1>9, <2>1 DEF ScanInv
  <2>3. ASSUME NEW r \in recovered'[c]
        PROVE  \E k \in 1..Len(segs) : \E n \in 1..Len(segs[k]) : Past(c, k, n)' /\ segs[k][n] = r
    <3>1. CASE r = q
      BY <1>2, <1>3, <1>9, <3>1
    <3>2. CASE r # q
      <4>1. PICK k \in 1..Len(segs) : \E n \in 1..Len(segs[k]) : Past(c, k, n) /\ segs[k][n] = r
        BY <1>2, <1>4, <2>1, <2>3, <3>2 DEF ScanInv
      <4> QED BY <1>9, <4>1
    <3> QED BY <3>1, <3>2
  <2>4. \A r \in before'[c] : Within(r, listed[c])'
    BY <1>2, <1>4, <2>1 DEF ScanInv, Within
  <2>5. cutBefore'[c] = cut'
    BY <1>2, <1>4, <2>1 DEF ScanInv
  <2> QED BY <1>4, <2>2, <2>3, <2>4, <2>5 DEF ScanInv
<1>11. ASSUME NEW d \in Commands PROVE ScanInv(d)' /\ Moment(d)'
  <2>1. CASE d = c
    BY <1>2, <1>4, <1>10, <2>1 DEF Moment, Storing
  <2>2. CASE d # c
    BY <1>4, <1>5, <2>2 DEF ScanInv, Moment, Storing, Scanning, ScansInv
  <2> QED BY <2>1, <2>2
<1> QED BY <1>6, <1>7, <1>8, <1>11 DEF ScansInv

\* The log and the cursors stay; what is on record is what was recovered.
LEMMA StillScans ==
  ASSUME BasicInv, ScansInv, UNCHANGED <<segs, written, cut>>,
         \A d \in Commands : Scanning(d)' =>
           /\ Scanning(d) /\ seg'[d] = seg[d] /\ off'[d] = off[d] /\ listed'[d] = listed[d]
           /\ recovered'[d] = recovered[d] /\ before'[d] = before[d] /\ cutBefore'[d] = cutBefore[d],
         \A d \in Commands : Storing(d)' =>
           /\ Storing(d) /\ recovered'[d] = recovered[d]
           /\ before'[d] = before[d] /\ cutBefore'[d] = cutBefore[d],
         \A d \in Commands : recovered'[d] \subseteq recovered[d] /\ before'[d] \subseteq before[d],
         \A i \in SnapIds : \/ success'[i] = success[i]
                            \/ \E d \in Commands : success'[i] = recovered[d],
         \A d \in Commands : pc'[d] = "cut" =>
           \/ pc[d] = "cut"
           \/ off[d] = Len(segs[seg[d]]) /\ seg[d] = listed[d]
  PROVE  ScansInv'
<1>1. \A r : Within(r, Len(segs))' <=> Within(r, Len(segs))
  BY DEF Within
<1>2. LogInv'
  BY <1>1 DEF ScansInv, LogInv, Earlier
<1>3. KeepInv'
  <2>1. \A d \in Commands : \A r \in recovered'[d] \cup before'[d] : Within(r, Len(segs))
    BY DEF ScansInv, KeepInv
  <2>2. \A i \in SnapIds : success'[i] # None => \A r \in success'[i] : Within(r, Len(segs))
    BY DEF ScansInv, KeepInv
  <2> QED BY <1>1, <2>1, <2>2 DEF KeepInv
<1>4. \A r : Fresh(r) => Fresh(r)'
  BY DEF Fresh
<1>5. CutInv'
  <2> SUFFICES ASSUME NEW d \in Commands, pc'[d] = "cut"
               PROVE  /\ seg'[d] = listed'[d]
                      /\ \A n \in 1..Len(segs[seg'[d]]) : n > off'[d] => Fresh(segs[seg[d]][n])'
    BY DEF CutInv
  <2>1. seg'[d] = seg[d] /\ off'[d] = off[d] /\ listed'[d] = listed[d] /\ Scanning(d)
    BY DEF Scanning
  <2>2. CASE pc[d] = "cut"
    <3>1. PICK k : k = seg[d]
      OBVIOUS
    <3>2. k = listed[d] /\ \A n \in 1..Len(segs[k]) : n > off[d] => Fresh(segs[k][n])
      BY <2>2, <3>1 DEF ScansInv, CutInv
    <3>3. \A n \in 1..Len(segs[k]) : n > off[d] => Fresh(segs[k][n])'
      <4> SUFFICES ASSUME NEW n \in 1..Len(segs[k]), n > off[d]
                   PROVE  Fresh(segs[k][n])'
        OBVIOUS
      <4>1. PICK r : r = segs[k][n]
        OBVIOUS
      <4>2. Fresh(r)'
        BY <1>4, <3>2, <4>1
      <4> QED BY <4>1, <4>2
    <3> QED BY <2>1, <3>1, <3>2, <3>3
  <2>3. CASE pc[d] # "cut"
    <3>1. off[d] = Len(segs[seg[d]]) /\ seg[d] = listed[d] /\ off[d] \in Nat
      BY <2>3 DEF BasicInv, TypeInv
    <3>2. \A n \in 1..Len(segs[seg[d]]) : ~(n > off[d])
      BY <3>1
    <3> QED BY <2>1, <3>1, <3>2
  <2> QED BY <2>2, <2>3
<1>6. ASSUME NEW d \in Commands PROVE ScanInv(d)' /\ Moment(d)'
  <2>1. ScanInv(d) /\ Moment(d)
    BY DEF ScansInv
  <2>2. ASSUME Scanning(d)' PROVE ScanInv(d)'
    <3>1. \A k, n : Past(d, k, n)' <=> Past(d, k, n)
      BY <2>2 DEF Past
    <3>2. \A r : Within(r, listed[d])' <=> Within(r, listed[d])
      BY <2>2 DEF Within
    <3> QED BY <2>1, <2>2, <3>1, <3>2 DEF ScanInv
  <2>3. Moment(d)'
    BY <2>1 DEF Moment
  <2> QED BY <2>2, <2>3 DEF ScanInv
<1> QED BY <1>2, <1>3, <1>5, <1>6 DEF ScansInv

LEMMA ScansStep ==
  ASSUME ~MayOverlapScans, BasicInv, ScansInv, [Next]_vars
  PROVE  ScansInv'
<1>1. CASE AppendRecord \/ Flush \/ WriteRecord \/ Rotate
  BY <1>1, ServerGrows, GrowsScans DEF BasicInv
<1>2. ASSUME NEW c \in Commands, NEW j \in {"create", "check"}, NEW i \in SnapIds, Begin(c, j, i)
      PROVE  ScansInv'
  BY <1>2, BeginScans
<1>3. ASSUME NEW c \in Commands, ReadRecord(c) \/ ReadEnd(c) \/ CutTail(c)
      PROVE  ScansInv'
  BY <1>3, ReadRecordScans, ReadEndScans, CutScans
<1>4. ASSUME NEW c \in Commands, ReadTorn(c)
      PROVE  ScansInv'
  <2>1. /\ UNCHANGED <<segs, written, cut, seg, off, listed, recovered, before, cutBefore, success>>
        /\ \A d \in Commands : pc'[d] = IF d = c THEN "cut" ELSE pc[d]
        /\ pc[c] = "read" /\ off[c] = Len(segs[seg[c]]) /\ seg[c] = Len(segs)
    BY <1>4 DEF ReadTorn, Goto, log, scan, trace, BasicInv, TypeInv
  <2>2. seg[c] = listed[c]
    <3>1. seg[c] \in 1..listed[c] /\ listed[c] <= Len(segs) /\ listed[c] \in Nat
      BY <2>1 DEF BasicInv, CursorInv, Scanning, TypeInv
    <3> QED BY <2>1, <3>1, LogTypes DEF BasicInv
  <2>3. \A d \in Commands : (Scanning(d)' <=> Scanning(d)) /\ (Storing(d)' <=> Storing(d))
    BY <2>1 DEF Scanning, Storing
  <2> QED BY <2>1, <2>2, <2>3, StillScans
<1>5. ASSUME NEW c \in Commands, CreateData(c) \/ WriteData(c) \/ CreateMeta(c)
      PROVE  ScansInv'
  <2>1. /\ UNCHANGED <<segs, written, cut, seg, off, listed, recovered, before, cutBefore, success>>
        /\ \A d \in Commands : d # c => pc'[d] = pc[d]
        /\ Storing(c) /\ Storing(c)' /\ ~Scanning(c) /\ ~Scanning(c)' /\ pc'[c] # "cut"
    BY <1>5 DEF CreateData, WriteData, CreateMeta, Goto, log, scan, trace, BasicInv, TypeInv,
                Storing, Scanning
  <2>2. \A d \in Commands : (Scanning(d)' <=> Scanning(d)) /\ (Storing(d)' <=> Storing(d))
    BY <2>1 DEF Scanning, Storing
  <2> QED BY <2>1, <2>2, StillScans
<1>6. ASSUME NEW c \in Commands, WriteMeta(c) \/ Kill(c)
      PROVE  ScansInv'
  <2>1. Exit(c) /\ UNCHANGED <<segs, written, cut>>
    BY <1>6 DEF WriteMeta, Kill, log
  <2>2. /\ \A d \in Commands : pc'[d] = IF d = c THEN "idle" ELSE pc[d]
        /\ recovered'[c] = {} /\ before'[c] = {}
        /\ \A d \in Commands : d # c =>
             /\ recovered'[d] = recovered[d] /\ before'[d] = before[d] /\ cutBefore'[d] = cutBefore[d]
             /\ seg'[d] = seg[d] /\ off'[d] = off[d] /\ listed'[d] = listed[d]
    BY <2>1 DEF Exit, Goto, BasicInv, TypeInv
  <2>3. \A i \in SnapIds : success'[i] = success[i] \/ \E d \in Commands : success'[i] = recovered[d]
    <3>1. CASE WriteMeta(c)
      <4>1. snap[c].recs = recovered[c]
        BY <3>1 DEF WriteMeta, BasicInv, StoreInv, Storing
      <4> QED BY <3>1, <4>1 DEF WriteMeta, BasicInv, TypeInv
    <3>2. CASE Kill(c)
      BY <3>2 DEF Kill
    <3> QED BY <1>6, <3>1, <3>2
  <2>4. \A d \in Commands : /\ Scanning(d)' => Scanning(d) /\ d # c
                            /\ Storing(d)' => Storing(d) /\ d # c
    BY <2>2 DEF Scanning, Storing
  <2> QED BY <2>1, <2>2, <2>3, <2>4, StillScans
<1>7. CASE UNCHANGED vars
  <2>1. UNCHANGED <<segs, written, cut, pc, seg, off, listed, recovered, before, cutBefore, success>>
    BY <1>7 DEF vars, log, scan, trace
  <2>2. \A d \in Commands : (Scanning(d)' <=> Scanning(d)) /\ (Storing(d)' <=> Storing(d))
    BY <2>1 DEF Scanning, Storing
  <2> QED BY <2>1, <2>2, StillScans
<1> QED BY <1>1, <1>2, <1>3, <1>4, <1>5, <1>6, <1>7 DEF Next

LEMMA AckStep ==
  ASSUME BasicInv, ScansInv, AckInv, ackedBefore \in [Commands -> SUBSET Nat], [Next]_vars
  PROVE  AckInv' /\ ackedBefore' \in [Commands -> SUBSET Nat]
<1>1. CASE UNCHANGED <<sync_mode, before, ackedBefore, cutBefore>>
  BY <1>1 DEF AckInv
<1>2. ASSUME NEW c \in Commands, Exit(c), sync_mode' = sync_mode
      PROVE  AckInv' /\ ackedBefore' \in [Commands -> SUBSET Nat]
  <2>1. /\ ackedBefore'[c] = {} /\ ackedBefore' \in [Commands -> SUBSET Nat]
        /\ \A d \in Commands : d # c => /\ before'[d] = before[d] /\ cutBefore'[d] = cutBefore[d]
                                        /\ ackedBefore'[d] = ackedBefore[d]
    BY <1>2 DEF Exit, BasicInv, TypeInv
  <2> QED BY <1>2, <2>1 DEF AckInv
<1>3. ASSUME NEW c \in Commands, NEW j \in {"create", "check"}, NEW i \in SnapIds, Begin(c, j, i)
      PROVE  AckInv' /\ ackedBefore' \in [Commands -> SUBSET Nat]
  <2>1. /\ sync_mode' = sync_mode
        /\ before'[c] = InLog /\ cutBefore'[c] = cut /\ ackedBefore'[c] = Acknowledged
        /\ \A d \in Commands : d # c => /\ before'[d] = before[d] /\ cutBefore'[d] = cutBefore[d]
                                        /\ ackedBefore'[d] = ackedBefore[d]
    BY <1>3 DEF Begin, BasicInv, TypeInv, log
  <2>2. \A r \in 1..written : r \in cut \/ r \in InLog
    BY InLogIs DEF ScansInv, LogInv, BasicInv
  <2>3. Acknowledged \subseteq Nat
    BY BackupConstants DEF Acknowledged, BasicInv, TypeInv
  <2>4. ackedBefore' \in [Commands -> SUBSET Nat]
    BY <1>3, <2>3 DEF Begin
  <2>5. sync_mode = "Always" => Acknowledged \subseteq InLog \cup cut
    BY <2>2 DEF Acknowledged
  <2> QED BY <2>1, <2>4, <2>5 DEF AckInv
<1>4. CASE AppendRecord \/ Flush \/ WriteRecord \/ Rotate \/ UNCHANGED vars
  BY <1>1, <1>4 DEF AppendRecord, Flush, WriteRecord, Rotate, vars, log, others, trace
<1>5. ASSUME NEW c \in Commands, WriteMeta(c) \/ Kill(c)
      PROVE  AckInv' /\ ackedBefore' \in [Commands -> SUBSET Nat]
  BY <1>2, <1>5 DEF WriteMeta, Kill, log
<1>6. ASSUME NEW c \in Commands, ReadEnd(c) \/ CutTail(c)
      PROVE  AckInv' /\ ackedBefore' \in [Commands -> SUBSET Nat]
  <2>1. SegmentDone(c) /\ sync_mode' = sync_mode
    BY <1>6 DEF ReadEnd, CutTail, log
  <2>2. Exit(c) \/ UNCHANGED trace
    BY <2>1 DEF SegmentDone
  <2> QED BY <1>1, <1>2, <2>1, <2>2 DEF trace
<1>7. ASSUME NEW c \in Commands,
             ReadRecord(c) \/ ReadTorn(c) \/ CreateData(c) \/ WriteData(c) \/ CreateMeta(c)
      PROVE  AckInv' /\ ackedBefore' \in [Commands -> SUBSET Nat]
  BY <1>1, <1>7 DEF ReadRecord, ReadTorn, CreateData, WriteData, CreateMeta, log, trace
<1> QED BY <1>3, <1>4, <1>5, <1>6, <1>7 DEF Next

LEMMA ScansAlways ==
  ASSUME ~MayOverlapScans
  PROVE  Spec => [](BasicInv /\ ScansInv)
<1>1. Init => BasicInv /\ ScansInv
  BY BasicInit, ScansInit
<1>2. BasicInv /\ ScansInv /\ [Next]_vars => (BasicInv /\ ScansInv)'
  BY BasicStep, ScansStep
<1> QED BY <1>1, <1>2, PTL DEF Spec

\* A snapshot is the log of one moment since `nova backup create` began:
\* RecoveryManager::recover reads the segments that discover_segments listed,
\* in order, while the server appends to the last and rotates.  Under
\* SyncMode::Always it misses nothing that was acknowledged by then.
THEOREM MomentCorrect ==
  ASSUME ~MayOverlapScans
  PROVE  Spec => []SnapshotOfOneMoment
<1> DEFINE Acks == AckInv /\ ackedBefore \in [Commands -> SUBSET Nat]
<1>1. Init => Acks
  BY DEF Init, AckInv
<1>2. BasicInv /\ ScansInv /\ Acks /\ [Next]_vars => Acks'
  BY AckStep
<1>3. BasicInv /\ ScansInv /\ Acks => SnapshotOfOneMoment
  <2> SUFFICES ASSUME BasicInv, ScansInv, AckInv, NEW c \in Commands, snap[c] # None
               PROVE  /\ before[c] \subseteq snap[c].recs
                      /\ \A r \in snap[c].recs : 1..r \subseteq snap[c].recs \cup cutBefore[c]
                      /\ sync_mode = "Always" =>
                           ackedBefore[c] \subseteq snap[c].recs \cup cutBefore[c]
    BY DEF SnapshotOfOneMoment
  <2>1. Storing(c) /\ snap[c].recs = recovered[c]
    BY DEF BasicInv, StoreInv
  <2>2. /\ before[c] \subseteq recovered[c]
        /\ \A r \in recovered[c] : 1..r \subseteq recovered[c] \cup cutBefore[c]
    BY <2>1 DEF ScansInv, Moment
  <2> QED BY <2>1, <2>2 DEF AckInv
<1> HIDE DEF Acks
<1> QED BY <1>1, <1>2, <1>3, ScansAlways, PTL DEF Spec

\* What a command has recovered, and what is in a snapshot, stays in the log:
\* set_len cuts off only what was written after the command had met the end.
THEOREM LogKept ==
  ASSUME ~MayOverlapScans
  PROVE  Spec => []RecoveredStays
<1>1. BasicInv /\ ScansInv => RecoveredStays
  BY InLogIs DEF BasicInv, ScansInv, KeepInv, RecoveredStays
<1> QED BY <1>1, ScansAlways, PTL
=============================================================================
