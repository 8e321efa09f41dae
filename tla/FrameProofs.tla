----------------------------- MODULE FrameProofs -----------------------------
(***************************************************************************)
(* Theorems about FrameCodec: what the decoder returns is what was sent.   *)
(***************************************************************************)
EXTENDS FrameCodec, SequenceLemmas, TLAPS

Cells == [frame : Nat, place : Nat, len : Nat, ok : BOOLEAN]

TypeInv ==
  /\ sent \in Seq(Nat) /\ wire \in Seq(Cells) /\ src \in Seq(Cells)
  /\ decoded \in Seq(Seq(Cells))

\* The stream from the first byte that has not been decoded on: what is in the
\* buffer of the receiver and then what is on the wire.
Total == Len(src) + Len(wire)
At(p) == IF p <= Len(src) THEN src[p] ELSE wire[p - Len(src)]

FrameLen(f) == HeaderLen + sent[f] + ChecksumLen

\* c is a cell of a frame that was sent, and the one that was sent unless it
\* has been damaged.
Sound(c) ==
  /\ c.frame \in 1..Len(sent)
  /\ c.place \in 1..FrameLen(c.frame)
  /\ c.ok => c = Cell(c.frame, c.place, sent[c.frame])

\* d comes behind c, in its frame or at the beginning of the next.
Follows(c, d) ==
  IF c.place < FrameLen(c.frame) THEN d.frame = c.frame /\ d.place = c.place + 1
  ELSE d.frame = c.frame + 1 /\ d.place = 1

\* The stream begins with the first frame that has not been decoded and ends
\* with the last one that was sent; damage moves no cell.
StreamInv ==
  /\ \A p \in 1..Total : Sound(At(p))
  /\ \A p \in 1..(Total - 1) : Follows(At(p), At(p + 1))
  /\ Total = 0 => Len(decoded) = Len(sent)
  /\ Total # 0 => /\ At(1).frame = Len(decoded) + 1 /\ At(1).place = 1
                  /\ At(Total).frame = Len(sent)
                  /\ At(Total).place = FrameLen(Len(sent))

FrameInv == TypeInv /\ StreamInv /\ DecodedIsPrefix

LEMMA Lengths ==
  ASSUME TypeInv
  PROVE  /\ Len(sent) \in Nat /\ Len(wire) \in Nat /\ Len(src) \in Nat /\ Len(decoded) \in Nat
         /\ Total \in Nat
         /\ \A f \in 1..Len(sent) : sent[f] \in Nat /\ FrameLen(f) \in Nat /\ FrameLen(f) > HeaderLen
         /\ \A p \in 1..Len(src) : src[p] \in Cells
         /\ \A p \in 1..Len(wire) : wire[p] \in Cells
<1>1. /\ Len(sent) \in Nat /\ Len(wire) \in Nat /\ Len(src) \in Nat /\ Len(decoded) \in Nat
      /\ \A f \in 1..Len(sent) : sent[f] \in Nat
      /\ \A p \in 1..Len(src) : src[p] \in Cells
      /\ \A p \in 1..Len(wire) : wire[p] \in Cells
  BY LenProperties, ElementOfSeq DEF TypeInv
<1> QED BY <1>1, HeaderType DEF Total, FrameLen, ChecksumLen

LEMMA CellType ==
  ASSUME NEW n \in Nat, NEW k \in Nat, NEW len \in Nat
  PROVE  Cell(n, k, len) \in Cells
BY HeaderType DEF Cell, Cells

\* The cells of a frame.
LEMMA EncodeAt ==
  ASSUME NEW n \in Nat, NEW len \in Nat
  PROVE  /\ Encode(n, len) \in Seq(Cells)
         /\ Len(Encode(n, len)) = HeaderLen + len + ChecksumLen
         /\ HeaderLen + len + ChecksumLen \in Nat
         /\ \A k \in 1..(HeaderLen + len + ChecksumLen) : Encode(n, len)[k] = Cell(n, k, len)
<1>1. HeaderLen + len + ChecksumLen \in Nat
  BY HeaderType DEF ChecksumLen
<1>2. \A k \in 1..(HeaderLen + len + ChecksumLen) : Cell(n, k, len) \in Cells
  BY <1>1, CellType
<1>3. /\ [k \in 1..(HeaderLen + len + ChecksumLen) |-> Cell(n, k, len)] \in Seq(Cells)
      /\ Len([k \in 1..(HeaderLen + len + ChecksumLen) |-> Cell(n, k, len)])
           = HeaderLen + len + ChecksumLen
  BY <1>1, <1>2
<1> QED BY <1>1, <1>3 DEF Encode

-----------------------------------------------------------------------------
\* A step that changes neither the stream nor what was sent and decoded.
LEMMA SameStream ==
  ASSUME TypeInv, StreamInv, UNCHANGED <<sent, decoded>>, Total' = Total,
         \A p \in 1..Total : At(p)' = At(p)
  PROVE  StreamInv'
<1>1. \A c, d : (Sound(c)' <=> Sound(c)) /\ (Follows(c, d)' <=> Follows(c, d))
  BY DEF Sound, Follows, FrameLen
<1>2. ASSUME NEW p \in 1..Total PROVE Sound(At(p))'
  <2>1. PICK c : c = At(p)
    OBVIOUS
  <2>2. Sound(c)' /\ c = At(p)'
    BY <1>1, <2>1 DEF StreamInv
  <2> QED BY <2>2
<1>3. ASSUME NEW p \in 1..(Total - 1) PROVE Follows(At(p), At(p + 1))'
  <2>1. PICK c, d : c = At(p) /\ d = At(p + 1)
    OBVIOUS
  <2>2. p \in 1..Total /\ p + 1 \in 1..Total
    BY Lengths
  <2>3. Follows(c, d)' /\ c = At(p)' /\ d = At(p + 1)'
    BY <1>1, <2>1, <2>2 DEF StreamInv
  <2> QED BY <2>3
<1>4. ASSUME Total # 0 PROVE At(1)' = At(1) /\ At(Total)' = At(Total)
  <2>1. PICK N : N = Total
    OBVIOUS
  <2>2. 1 \in 1..Total /\ N \in 1..Total
    BY <1>4, <2>1, Lengths
  <2>3. At(N)' = At(N)
    BY <2>2
  <2> QED BY <2>1, <2>2, <2>3
<1> QED BY <1>2, <1>3, <1>4 DEF StreamInv, FrameLen

\* A piece of the stream moves from the wire to the buffer.
LEMMA ArriveStep ==
  ASSUME FrameInv, NEW n \in 1..Len(wire), Arrive(n)
  PROVE  FrameInv'
<1>1. TypeInv /\ n \in 0..Len(wire)
  BY Lengths DEF FrameInv
<1>2. /\ src' = src \o SubSeq(wire, 1, n) /\ wire' = SubSeq(wire, n + 1, Len(wire))
      /\ UNCHANGED <<sent, decoded>>
  BY DEF Arrive
<1>3. /\ SubSeq(wire, 1, n) \in Seq(Cells) /\ Len(SubSeq(wire, 1, n)) = n
      /\ \A k \in 1..n : SubSeq(wire, 1, n)[k] = wire[k]
  BY <1>1, PrefixAt DEF TypeInv
<1>4. /\ wire' \in Seq(Cells) /\ Len(wire') = Len(wire) - n
      /\ \A k \in 1..(Len(wire) - n) : wire'[k] = wire[n + k]
  BY <1>1, <1>2, SuffixAt DEF TypeInv
<1>5. /\ src' \in Seq(Cells) /\ Len(src') = Len(src) + n
      /\ \A k \in 1..Len(src) : src'[k] = src[k]
      /\ \A k \in 1..n : src'[Len(src) + k] = wire[k]
  BY <1>1, <1>2, <1>3, ConcatAt DEF TypeInv
<1>6. TypeInv'
  BY <1>1, <1>2, <1>4, <1>5 DEF TypeInv
<1>7. Total' = Total
  BY <1>1, <1>4, <1>5, Lengths DEF Total
<1>8. ASSUME NEW p \in 1..Total PROVE At(p)' = At(p)
  <2>0. p \in Nat /\ p <= Len(src) + Len(wire)
    BY <1>1, Lengths DEF Total
  <2>1. CASE p <= Len(src)
    BY <1>1, <1>5, <2>0, <2>1, Lengths DEF At
  <2>2. CASE p > Len(src) /\ p <= Len(src) + n
    <3>1. PICK k : k = p - Len(src)
      OBVIOUS
    <3>2. k \in 1..n /\ p = Len(src) + k
      BY <1>1, <2>0, <2>2, <3>1, Lengths
    <3>3. At(p) = wire[k] /\ At(p)' = src'[p]
      BY <1>1, <1>5, <2>2, <3>1, <3>2, Lengths DEF At
    <3> QED BY <1>5, <3>2, <3>3
  <2>3. CASE p > Len(src) + n
    <3>1. PICK k : k = p - Len(src) - n
      OBVIOUS
    <3>2. k \in 1..(Len(wire) - n) /\ p - Len(src) = n + k
      BY <1>1, <2>0, <2>3, <3>1, Lengths
    <3>3. At(p) = wire[n + k] /\ At(p)' = wire'[k]
      BY <1>1, <1>5, <2>0, <2>3, <3>1, <3>2, Lengths DEF At
    <3> QED BY <1>4, <3>2, <3>3
  <2> QED BY <1>1, <2>0, <2>1, <2>2, <2>3, Lengths
<1>9. StreamInv'
  BY <1>1, <1>2, <1>7, <1>8, SameStream DEF FrameInv
<1> QED BY <1>2, <1>6, <1>9 DEF FrameInv, DecodedIsPrefix

\* A damaged cell keeps its place in the stream, and is no longer ok.
LEMMA DamageStep ==
  ASSUME FrameInv, NEW k \in 1..Len(wire), Damage(k)
  PROVE  FrameInv'
<1>1. TypeInv
  BY DEF FrameInv
<1>0. PICK len \in IF wire[k].place = HeaderLen THEN 0..(MaxPayload + 1) ELSE {0} :
        wire' = [wire EXCEPT ![k].ok = FALSE, ![k].len = len]
  BY DEF Damage
<1>2. len \in Nat /\ wire' = [wire EXCEPT ![k].ok = FALSE, ![k].len = len]
  BY <1>0, PayloadType
<1>3. UNCHANGED <<sent, src, decoded>>
  BY DEF Damage
<1>4. PICK c : c = [wire[k] EXCEPT !.ok = FALSE, !.len = len]
  OBVIOUS
<1>5. c \in Cells /\ ~c.ok /\ c.frame = wire[k].frame /\ c.place = wire[k].place
  BY <1>1, <1>2, <1>4, Lengths DEF Cells
<1>6. wire' = [wire EXCEPT ![k] = c]
  BY <1>1, <1>2, <1>4, Lengths DEF Cells
<1>7. /\ wire' \in Seq(Cells) /\ Len(wire') = Len(wire) /\ wire'[k] = c
      /\ \A j \in 1..Len(wire) : j # k => wire'[j] = wire[j]
  BY <1>1, <1>5, <1>6, ExceptAt DEF TypeInv
<1>8. TypeInv'
  BY <1>1, <1>3, <1>7 DEF TypeInv
<1>9. Total' = Total
  BY <1>3, <1>7 DEF Total
<1>10. ASSUME NEW p \in 1..Total
       PROVE  /\ At(p)'.frame = At(p).frame /\ At(p)'.place = At(p).place
              /\ At(p)' = At(p) \/ ~At(p)'.ok
  <2>1. CASE p <= Len(src)
    BY <1>3, <2>1 DEF At
  <2>2. CASE p > Len(src)
    <3>1. PICK j : j = p - Len(src)
      OBVIOUS
    <3>2. j \in 1..Len(wire)
      BY <1>1, <2>2, <3>1, Lengths DEF Total
    <3>3. At(p) = wire[j] /\ At(p)' = wire'[j]
      BY <1>1, <1>3, <2>2, <3>1, Lengths DEF At, Total
    <3> QED BY <1>5, <1>7, <3>2, <3>3
  <2> QED BY <1>1, <2>1, <2>2, Lengths DEF Total
<1>11. ASSUME NEW p \in 1..Total PROVE Sound(At(p))'
  <2>1. PICK d : d = At(p)'
    OBVIOUS
  <2>2. Sound(At(p)) /\ d.frame = At(p).frame /\ d.place = At(p).place /\ (d = At(p) \/ ~d.ok)
    BY <1>10, <2>1 DEF FrameInv, StreamInv
  <2>3. Sound(d)
    BY <2>2 DEF Sound
  <2>4. Sound(d)'
    BY <1>3, <2>3 DEF Sound, FrameLen
  <2> QED BY <2>1, <2>4
<1>12. ASSUME NEW p \in 1..(Total - 1) PROVE Follows(At(p), At(p + 1))'
  <2>1. PICK d, e : d = At(p)' /\ e = At(p + 1)'
    OBVIOUS
  <2>2. p \in 1..Total /\ p + 1 \in 1..Total
    BY <1>1, Lengths
  <2>3. Follows(At(p), At(p + 1))
    BY DEF FrameInv, StreamInv
  <2>4. Follows(d, e)
    BY <1>10, <2>1, <2>2, <2>3 DEF Follows
  <2>5. Follows(d, e)'
    BY <1>3, <2>4 DEF Follows, FrameLen
  <2> QED BY <2>1, <2>5
<1>13. ASSUME Total # 0
       PROVE  /\ At(1)'.frame = Len(decoded) + 1 /\ At(1)'.place = 1
              /\ At(Total)'.frame = Len(sent)
              /\ At(Total)'.place = FrameLen(Len(sent))
  <2>1. PICK N : N = Total
    OBVIOUS
  <2>2. 1 \in 1..Total /\ N \in 1..Total
    BY <1>1, <1>13, <2>1, Lengths
  <2>3. At(N)' = At(Total)'
    BY <1>9, <2>1
  <2> QED BY <1>10, <1>13, <2>1, <2>2, <2>3 DEF FrameInv, StreamInv
<1>14. StreamInv'
  <2>1. Total = 0 => Len(decoded) = Len(sent)
    BY DEF FrameInv, StreamInv
  <2>2. FrameLen(Len(sent))' = FrameLen(Len(sent))
    BY <1>3 DEF FrameLen
  <2> QED BY <1>3, <1>9, <1>11, <1>12, <1>13, <2>1, <2>2 DEF StreamInv
<1> QED BY <1>3, <1>8, <1>14 DEF FrameInv, DecodedIsPrefix

\* A frame is put behind the others, or refused.
LEMMA SendStep ==
  ASSUME FrameInv, NEW len \in PayloadLens, Send(len)
  PROVE  FrameInv'
<1>1. TypeInv /\ len \in Nat
  BY PayloadType DEF FrameInv
<1>2. CASE UNCHANGED <<sent, wire, src, decoded>>
  BY <1>1, <1>2, SameStream DEF FrameInv, TypeInv, Total, At, DecodedIsPrefix
<1>3. CASE /\ sent' = Append(sent, len) /\ wire' = wire \o Encode(Len(sent) + 1, len)
           /\ UNCHANGED <<src, decoded>>
  <2>1. PICK N, L, W : N = Len(sent) + 1 /\ L = HeaderLen + len + ChecksumLen /\ W = Total
    OBVIOUS
  <2>2. N \in Nat /\ L \in Nat /\ W \in Nat /\ L > HeaderLen /\ HeaderLen \in Nat
    BY <1>1, <2>1, Lengths, HeaderType DEF ChecksumLen
  <2>3. /\ sent' \in Seq(Nat) /\ Len(sent') = N /\ sent'[N] = len
        /\ \A f \in 1..Len(sent) : sent'[f] = sent[f]
    BY <1>1, <1>3, <2>1, AppendAt DEF TypeInv
  <2>4. /\ Encode(N, len) \in Seq(Cells) /\ Len(Encode(N, len)) = L
        /\ \A j \in 1..L : Encode(N, len)[j] = Cell(N, j, len)
    BY <1>1, <2>1, <2>2, EncodeAt
  <2>5. /\ wire' \in Seq(Cells) /\ Len(wire') = Len(wire) + L
        /\ \A j \in 1..Len(wire) : wire'[j] = wire[j]
        /\ \A j \in 1..L : wire'[Len(wire) + j] = Cell(N, j, len)
    <3>1. PICK e : e = Encode(N, len)
      OBVIOUS
    <3>2. wire \in Seq(Cells) /\ e \in Seq(Cells) /\ wire' = wire \o e
      BY <1>1, <1>3, <2>1, <2>4, <3>1 DEF TypeInv
    <3>3. /\ wire \o e \in Seq(Cells) /\ Len(wire \o e) = Len(wire) + Len(e)
          /\ \A j \in 1..Len(wire) : (wire \o e)[j] = wire[j]
          /\ \A j \in 1..Len(e) : (wire \o e)[Len(wire) + j] = e[j]
      BY <3>2, ConcatAt
    <3> QED BY <2>4, <3>1, <3>2, <3>3
  <2>6. TypeInv' /\ Total' = W + L
    <3>1. Len(src) \in Nat /\ Len(wire) \in Nat
      BY <1>1, Lengths
    <3>2. Total' = Len(src) + (Len(wire) + L) /\ W = Len(src) + Len(wire)
      BY <1>3, <2>1, <2>5 DEF Total
    <3>3. TypeInv'
      BY <1>1, <1>3, <2>3, <2>5 DEF TypeInv
    <3> QED BY <2>2, <3>1, <3>2, <3>3
  <2>7. ASSUME NEW p \in 1..W PROVE At(p)' = At(p)
    <3>1. CASE p <= Len(src)
      BY <1>3, <3>1 DEF At
    <3>2. CASE p > Len(src)
      <4>1. PICK j : j = p - Len(src)
        OBVIOUS
      <4>2. j \in 1..Len(wire)
        BY <1>1, <2>1, <3>2, <4>1, Lengths DEF Total
      <4>3. ~(p <= Len(src))
        BY <1>1, <2>2, <3>2, Lengths
      <4>4. At(p) = wire[j] /\ At(p)' = wire'[j]
        BY <1>3, <4>1, <4>3 DEF At
      <4> QED BY <2>5, <4>2, <4>4
    <3> QED BY <1>1, <2>2, <3>1, <3>2, Lengths
  <2>8. ASSUME NEW j \in 1..L PROVE At(W + j)' = Cell(N, j, len)
    <3>1. At(W + j)' = wire'[Len(wire) + j]
      <4>1. ~(W + j <= Len(src)) /\ W + j - Len(src) = Len(wire) + j
        BY <1>1, <2>1, <2>2, Lengths DEF Total
      <4>2. ~(W + j <= Len(src')) /\ W + j - Len(src') = Len(wire) + j
        BY <1>3, <4>1
      <4>3. Len(src') \in Nat
        BY <1>1, <1>3, Lengths
      <4> QED BY <2>2, <4>2, <4>3 DEF At
    <3> QED BY <2>5, <3>1
  <2>9. \A p \in 1..(W + L) : p \in 1..W \/ \E j \in 1..L : p = W + j
    <3> SUFFICES ASSUME NEW p \in 1..(W + L), p \notin 1..W PROVE \E j \in 1..L : p = W + j
      OBVIOUS
    <3>1. p - W \in 1..L /\ p = W + (p - W)
      BY <2>2
    <3> QED BY <3>1
  \* What was in the stream is as sound as before.
  <2>10. \A f \in 1..Len(sent) : FrameLen(f)' = FrameLen(f)
    BY <2>3 DEF FrameLen
  <2>11. FrameLen(N)' = L
    BY <2>1, <2>3 DEF FrameLen
  <2>12. ASSUME NEW p \in 1..W PROVE Sound(At(p))' /\ At(p).frame \in 1..Len(sent)
    <3>1. PICK c : c = At(p)
      OBVIOUS
    <3>2. Sound(c)
      BY <2>1, <3>1 DEF FrameInv, StreamInv
    <3>3. c.frame \in 1..Len(sent) /\ c.frame \in 1..Len(sent')
      BY <1>1, <2>1, <2>3, <3>2, Lengths DEF Sound
    <3>4. Sound(c)'
      BY <2>3, <2>10, <3>2, <3>3 DEF Sound
    <3> QED BY <2>7, <3>1, <3>3, <3>4
  <2>13. ASSUME NEW j \in 1..L PROVE Sound(Cell(N, j, len))'
    <3>1. PICK c : c = Cell(N, j, len)
      OBVIOUS
    <3>2. c.frame = N /\ c.place = j
      BY <3>1 DEF Cell
    <3>3. Sound(c)'
      BY <2>1, <2>2, <2>3, <2>11, <3>1, <3>2 DEF Sound
    <3> QED BY <3>1, <3>3 DEF Cell
  <2>14. \A p \in 1..(W + L) : Sound(At(p))'
    <3> SUFFICES ASSUME NEW p \in 1..(W + L) PROVE Sound(At(p))'
      OBVIOUS
    <3>1. CASE p \in 1..W
      BY <2>12, <3>1
    <3>2. CASE \E j \in 1..L : p = W + j
      <4>1. PICK j \in 1..L : p = W + j
        BY <3>2
      <4>2. PICK c : c = Cell(N, j, len)
        OBVIOUS
      <4>3. Sound(c)' /\ At(p)' = c
        BY <2>8, <2>13, <4>1, <4>2
      <4> QED BY <4>3
    <3> QED BY <2>9, <3>1, <3>2
  <2>15. ASSUME NEW p \in 1..(Total' - 1) PROVE Follows(At(p), At(p + 1))'
    <3>0. p \in 1..(W + L - 1)
      BY <2>2, <2>6
    <3>1. PICK c, d : c = At(p)' /\ d = At(p + 1)'
      OBVIOUS
    <3>2. CASE p \in 1..(W - 1)
      <4>1. p \in 1..W /\ p + 1 \in 1..W
        BY <2>2, <3>2
      <4>2. c = At(p) /\ d = At(p + 1) /\ c.frame \in 1..Len(sent) /\ Follows(c, d)
        BY <2>1, <2>7, <2>12, <3>1, <3>2, <4>1 DEF FrameInv, StreamInv
      <4>3. Follows(c, d)'
        BY <2>10, <4>2 DEF Follows
      <4> QED BY <3>1, <4>3
    <3>3. CASE p = W
      <4>1. W # 0 /\ 1 \in 1..L /\ W \in 1..W
        BY <2>2, <3>3
      <4>2. d = Cell(N, 1, len) /\ c = At(W)
        BY <2>7, <2>8, <3>1, <3>3, <4>1
      <4>3. c.frame = Len(sent) /\ c.place = FrameLen(Len(sent))
        BY <2>1, <4>1, <4>2 DEF FrameInv, StreamInv
      <4>4. c.frame \in 1..Len(sent)
        BY <2>12, <4>1, <4>2
      <4>5. d.frame = c.frame + 1 /\ d.place = 1 /\ c.place = FrameLen(c.frame)'
        BY <2>1, <2>10, <4>2, <4>3, <4>4 DEF Cell
      <4>6. FrameLen(c.frame) \in Nat /\ FrameLen(c.frame)' = FrameLen(c.frame)
        BY <1>1, <2>10, <4>4, Lengths
      <4>7. Follows(c, d)'
        BY <4>5, <4>6 DEF Follows
      <4> QED BY <3>1, <4>7
    <3>4. CASE p > W
      <4>1. PICK j : j = p - W
        OBVIOUS
      <4>2. j \in 1..L /\ j + 1 \in 1..L /\ p = W + j /\ p + 1 = W + (j + 1) /\ j < L
        BY <2>2, <3>0, <3>4, <4>1
      <4>3. c = Cell(N, j, len) /\ d = Cell(N, j + 1, len)
        BY <2>8, <3>1, <4>2
      <4>4. c.frame = N /\ c.place = j /\ d.frame = N /\ d.place = j + 1
        BY <4>3 DEF Cell
      <4>5. Follows(c, d)'
        BY <2>11, <4>2, <4>4 DEF Follows
      <4> QED BY <3>1, <4>5
    <3> QED BY <2>2, <3>0, <3>2, <3>3, <3>4
  <2>16. /\ At(1)'.frame = Len(decoded) + 1 /\ At(1)'.place = 1
    <3>1. CASE W = 0
      <4>1. 1 \in 1..L /\ At(W + 1)' = At(1)'
        BY <2>2, <3>1
      <4>2. Len(decoded) + 1 = N
        BY <2>1, <3>1 DEF FrameInv, StreamInv
      <4>3. At(1)' = Cell(N, 1, len)
        BY <2>8, <4>1
      <4> QED BY <4>2, <4>3 DEF Cell
    <3>2. CASE W # 0
      <4>1. 1 \in 1..W
        BY <2>2, <3>2
      <4> QED BY <2>1, <2>7, <3>2, <4>1 DEF FrameInv, StreamInv
    <3> QED BY <3>1, <3>2
  <2>17. /\ At(Total)'.frame = N /\ At(Total)'.place = L
    <3>1. At(Total)' = At(W + L)'
      BY <2>6
    <3>2. L \in 1..L
      BY <2>2, HeaderType
    <3>3. At(W + L)' = Cell(N, L, len)
      BY <2>8, <3>2
    <3> QED BY <3>1, <3>3 DEF Cell
  <2>18. StreamInv'
    <3>1. Total' # 0
      BY <2>2, <2>6, HeaderType
    <3>2. FrameLen(Len(sent))' = L
      BY <2>3, <2>11
    <3>3. \A p \in 1..Total' : Sound(At(p))'
      BY <2>6, <2>14
    <3>4. \A p \in 1..(Total' - 1) : Follows(At(p), At(p + 1))'
      BY <2>15
    <3>5. Len(sent') = N /\ Len(decoded') = Len(decoded)
      BY <1>3, <2>3
    <3> QED BY <2>16, <2>17, <3>1, <3>2, <3>3, <3>4, <3>5 DEF StreamInv
  <2>19. DecodedIsPrefix'
    <3>1. Len(decoded) <= Len(sent) /\ \A k \in 1..Len(decoded) : decoded[k] = Encode(k, sent[k])
      BY DEF FrameInv, DecodedIsPrefix
    <3>2. Len(decoded) <= N /\ \A k \in 1..Len(decoded) : k \in 1..Len(sent)
      BY <1>1, <2>1, <3>1, Lengths
    <3> QED BY <1>3, <2>3, <3>1, <3>2 DEF DecodedIsPrefix
  <2> QED BY <2>6, <2>18, <2>19 DEF FrameInv
<1> QED BY <1>2, <1>3 DEF Send

\* A whole frame with the right checksum is the first one not yet decoded.
LEMMA DecodeStep ==
  ASSUME FrameInv, Decode
  PROVE  FrameInv'
<1>1. TypeInv /\ HeaderLen \in Nat /\ HeaderLen >= 3
  BY HeaderType DEF FrameInv
<1>2. PICK D, T, W : D = Len(decoded) + 1 /\ T = TotalFrameLen /\ W = Total
  OBVIOUS
<1>3. /\ decoded' = Append(decoded, SubSeq(src, 1, T))
      /\ src' = SubSeq(src, T + 1, Len(src))
      /\ UNCHANGED <<sent, wire>>
      /\ Len(src) >= T
      /\ \A k \in 1..T : src[k].ok /\ src[k].frame = src[1].frame /\ src[k].place = k
      /\ Len(src) >= HeaderLen
  BY <1>1, <1>2, Lengths DEF Decode, Acceptable, ChecksumAgrees, Incomplete
<1>4. /\ D \in Nat /\ W \in Nat /\ W # 0 /\ 1 \in 1..Len(src) /\ 1 \in 1..W
      /\ HeaderLen \in 1..Len(src) /\ Len(src) \in Nat /\ Len(src) <= W
  BY <1>1, <1>2, <1>3, Lengths DEF Total
<1>5. src[HeaderLen].len \in Nat /\ T = HeaderLen + src[HeaderLen].len + ChecksumLen
  BY <1>1, <1>2, <1>4, Lengths DEF Cells, TotalFrameLen, DeclaredLen
<1>6. T \in Nat /\ T > HeaderLen /\ HeaderLen \in 1..T /\ T \in 1..Len(src) /\ T \in 0..Len(src)
  BY <1>1, <1>3, <1>4, <1>5, SMTT(40) DEF ChecksumLen
<1>7. \A p \in 1..Len(src) : At(p) = src[p] /\ p \in 1..W
  BY <1>4 DEF At
<1>8. \A p \in 1..Len(src) : Sound(src[p])
  <2> SUFFICES ASSUME NEW p \in 1..Len(src) PROVE Sound(src[p])
    OBVIOUS
  <2>1. At(p) = src[p] /\ Sound(At(p))
    BY <1>2, <1>7 DEF FrameInv, StreamInv
  <2> QED BY <2>1
<1>9. src[1].frame = D /\ src[1].place = 1
  BY <1>2, <1>4, <1>7 DEF FrameInv, StreamInv
<1>10. D \in 1..Len(sent)
  BY <1>4, <1>8, <1>9 DEF Sound
<1>11. \A k \in 1..T : k \in 1..Len(src) /\ src[k] = Cell(D, k, sent[D])
  <2> SUFFICES ASSUME NEW k \in 1..T
               PROVE  k \in 1..Len(src) /\ src[k] = Cell(D, k, sent[D])
    OBVIOUS
  <2>1. k \in 1..Len(src)
    BY <1>4, <1>6
  <2>2. src[k].ok /\ src[k].frame = D /\ src[k].place = k
    BY <1>3, <1>9
  <2> QED BY <1>8, <2>1, <2>2 DEF Sound
<1>12. src[HeaderLen].len = sent[D] /\ T = FrameLen(D) /\ sent[D] \in Nat
  <2>1. src[HeaderLen] = Cell(D, HeaderLen, sent[D])
    BY <1>6, <1>11
  <2>2. src[HeaderLen].len = sent[D]
    BY <2>1 DEF Cell
  <2>3. sent[D] \in Nat
    BY <1>1, <1>10, Lengths
  <2> QED BY <1>5, <2>2, <2>3 DEF FrameLen
<1>13. SubSeq(src, 1, T) = Encode(D, sent[D])
  <2>1. PICK x, y : x = SubSeq(src, 1, T) /\ y = Encode(D, sent[D])
    OBVIOUS
  <2>2. x \in Seq(Cells) /\ Len(x) = T /\ \A k \in 1..T : x[k] = src[k]
    BY <1>1, <1>6, <2>1, PrefixAt DEF TypeInv
  <2>3. y \in Seq(Cells) /\ Len(y) = T /\ \A k \in 1..T : y[k] = Cell(D, k, sent[D])
    BY <1>4, <1>12, <2>1, EncodeAt DEF FrameLen
  <2>4. \A k \in 1..T : x[k] = y[k]
    BY <1>11, <2>2, <2>3
  <2> QED BY <2>1, <2>2, <2>3, <2>4, SeqEqual
<1>14. /\ src' \in Seq(Cells) /\ Len(src') = Len(src) - T
       /\ \A k \in 1..(Len(src) - T) : src'[k] = src[T + k]
  BY <1>1, <1>3, <1>6, SuffixAt DEF TypeInv
<1>15. Encode(D, sent[D]) \in Seq(Cells)
  BY <1>4, <1>12, EncodeAt
<1>16. /\ decoded' \in Seq(Seq(Cells)) /\ Len(decoded') = D /\ decoded'[D] = Encode(D, sent[D])
       /\ \A k \in 1..Len(decoded) : decoded'[k] = decoded[k]
  <2>1. PICK y : y = Encode(D, sent[D])
    OBVIOUS
  <2>2. decoded \in Seq(Seq(Cells)) /\ y \in Seq(Cells) /\ decoded' = Append(decoded, y)
    BY <1>1, <1>3, <1>13, <1>15, <2>1 DEF TypeInv
  <2>3. /\ decoded' \in Seq(Seq(Cells)) /\ Len(decoded') = Len(decoded) + 1
        /\ decoded'[Len(decoded) + 1] = y
        /\ \A k \in 1..Len(decoded) : decoded'[k] = decoded[k]
    BY <2>2, AppendAt
  <2> QED BY <1>2, <2>1, <2>3
<1>17. TypeInv'
  BY <1>1, <1>3, <1>14, <1>16 DEF TypeInv
<1>18. DecodedIsPrefix'
  <2>1. \A k \in 1..D : k = D \/ k \in 1..Len(decoded)
    BY <1>1, <1>2, Lengths
  <2>2. \A k \in 1..Len(decoded) : decoded[k] = Encode(k, sent[k])
    BY DEF FrameInv, DecodedIsPrefix
  <2>3. \A k \in 1..D : decoded'[k] = Encode(k, sent[k])
    BY <1>16, <2>1, <2>2
  <2>4. D <= Len(sent)
    BY <1>10
  <2> QED BY <1>3, <1>16, <2>3, <2>4 DEF DecodedIsPrefix
<1>19. Total' = W - T /\ W - T \in Nat
  <2>1. Len(wire) \in Nat
    BY <1>1, Lengths
  <2>2. Total' = (Len(src) - T) + Len(wire) /\ W = Len(src) + Len(wire)
    BY <1>2, <1>3, <1>14 DEF Total
  <2> QED BY <1>4, <1>6, <2>1, <2>2
<1>20. ASSUME NEW p \in 1..(W - T) PROVE At(p)' = At(p + T) /\ p + T \in 1..W
  <2>1. CASE p <= Len(src) - T
    <3>1. p \in 1..(Len(src) - T) /\ T + p = p + T /\ p + T \in 1..Len(src)
      BY <1>4, <1>6, <2>1
    <3>2. At(p)' = src'[p]
      BY <1>14, <2>1 DEF At
    <3>3. At(p + T) = src[p + T]
      BY <1>7, <3>1
    <3> QED BY <1>4, <1>6, <1>14, <3>1, <3>2, <3>3
  <2>2. CASE ~(p <= Len(src) - T)
    <3>1. ~(p + T <= Len(src)) /\ p - (Len(src) - T) = p + T - Len(src) /\ p + T \in 1..W
      BY <1>4, <1>6, <2>2
    <3>2. At(p)' = wire'[p - (Len(src) - T)]
      BY <1>14, <2>2 DEF At
    <3>3. At(p + T) = wire[p + T - Len(src)]
      BY <1>4, <1>6, <3>1 DEF At
    <3> QED BY <1>3, <3>1, <3>2, <3>3
  <2> QED BY <2>1, <2>2
<1>21. \A c, d : (Sound(c)' <=> Sound(c)) /\ (Follows(c, d)' <=> Follows(c, d))
  BY <1>3 DEF Sound, Follows, FrameLen
<1>22. ASSUME NEW p \in 1..(W - T) PROVE Sound(At(p))'
  <2>1. PICK c : c = At(p + T)
    OBVIOUS
  <2>2. Sound(c)' /\ c = At(p)'
    BY <1>2, <1>20, <1>21, <2>1 DEF FrameInv, StreamInv
  <2> QED BY <2>2
<1>23. ASSUME NEW p \in 1..(W - T - 1) PROVE Follows(At(p), At(p + 1))'
  <2>1. PICK c, d, q : c = At(p + T) /\ d = At(p + 1 + T) /\ q = p + T
    OBVIOUS
  <2>2. p \in 1..(W - T) /\ p + 1 \in 1..(W - T) /\ q \in 1..(W - 1) /\ p + 1 + T = q + 1
    BY <1>4, <1>6, <1>19, <2>1
  <2>3. c = At(p)' /\ d = At(p + 1)'
    BY <1>20, <2>1, <2>2
  <2>4. Follows(At(q), At(q + 1))
    BY <1>2, <2>2 DEF FrameInv, StreamInv
  <2>5. Follows(c, d)'
    BY <1>21, <2>1, <2>2, <2>4
  <2> QED BY <2>3, <2>5
\* The frame behind the decoded one, if there is one.
<1>24. src[T].frame = D /\ src[T].place = FrameLen(D) /\ FrameLen(D) \in Nat /\ At(T) = src[T]
  <2>1. T \in 1..T
    BY <1>6
  <2>2. src[T].frame = D /\ src[T].place = T
    BY <1>3, <1>9, <2>1
  <2>3. At(T) = src[T]
    BY <1>6, <1>7
  <2>4. T = FrameLen(D)
    BY <1>12
  <2> QED BY <1>6, <2>2, <2>3, <2>4
<1>25. ASSUME W - T # 0
       PROVE  At(1)'.frame = D + 1 /\ At(1)'.place = 1
  <2>1. 1 \in 1..(W - T) /\ T \in 1..(W - 1) /\ 1 + T = T + 1
    BY <1>4, <1>6, <1>19, <1>25
  <2>2. Follows(At(T), At(T + 1))
    BY <1>2, <2>1 DEF FrameInv, StreamInv
  <2>3. At(1)' = At(T + 1)
    BY <1>20, <2>1
  <2> QED BY <1>24, <2>2, <2>3 DEF Follows
<1>26. ASSUME W - T # 0
       PROVE  At(Total)'.frame = Len(sent) /\ At(Total)'.place = FrameLen(Len(sent))
  <2>1. W - T \in 1..(W - T) /\ W - T + T = W
    BY <1>4, <1>6, <1>19, <1>26
  <2>2. At(Total)' = At(W - T)'
    BY <1>19
  <2>3. At(W - T)' = At(W)
    BY <1>20, <2>1
  <2> QED BY <1>2, <1>4, <2>2, <2>3 DEF FrameInv, StreamInv
<1>27. ASSUME W - T = 0 PROVE D = Len(sent)
  <2>1. T = W
    BY <1>4, <1>6, <1>27
  <2> QED BY <1>2, <1>4, <1>24, <2>1 DEF FrameInv, StreamInv
<1>28. StreamInv'
  <2>1. \A p \in 1..Total' : Sound(At(p))'
    BY <1>19, <1>22
  <2>2. \A p \in 1..(Total' - 1) : Follows(At(p), At(p + 1))'
    BY <1>19, <1>23
  <2>3. FrameLen(Len(sent))' = FrameLen(Len(sent))
    BY <1>3 DEF FrameLen
  <2>4. Len(decoded') = D /\ Len(sent') = Len(sent)
    BY <1>3, <1>16
  <2> QED BY <1>19, <1>25, <1>26, <1>27, <2>1, <2>2, <2>3, <2>4 DEF StreamInv
<1> QED BY <1>17, <1>18, <1>28 DEF FrameInv

-----------------------------------------------------------------------------
LEMMA FrameInit == Init => FrameInv
<1> SUFFICES ASSUME Init PROVE FrameInv
  OBVIOUS
<1>1. Len(sent) = 0 /\ Len(wire) = 0 /\ Len(src) = 0 /\ Len(decoded) = 0
  BY DEF Init
<1> QED BY <1>1 DEF Init, FrameInv, TypeInv, StreamInv, DecodedIsPrefix, Total

LEMMA FrameStep == FrameInv /\ [Next]_vars => FrameInv'
<1> SUFFICES ASSUME FrameInv, [Next]_vars PROVE FrameInv'
  OBVIOUS
<1>1. CASE UNCHANGED <<sent, wire, src, decoded>>
  BY <1>1, SameStream DEF FrameInv, TypeInv, Total, At, DecodedIsPrefix
<1>2. CASE DecodeFails
  BY <1>1, <1>2 DEF DecodeFails
<1>3. CASE UNCHANGED vars
  BY <1>1, <1>3 DEF vars
<1> QED BY <1>2, <1>3, ArriveStep, DamageStep, SendStep, DecodeStep DEF Next

\* The frames that NvpCodec::decode returns are the first ones given to
\* encode, in order, none twice and each as it was encoded, for any length of
\* the header and of payloads, however the stream is cut into reads and
\* whatever is damaged: split_to removes exactly the frame that was returned,
\* and behind a frame that is refused nothing is decoded.
THEOREM FramesCorrect == Spec => []DecodedIsPrefix
<1>1. FrameInv => DecodedIsPrefix
  BY DEF FrameInv
<1> QED BY <1>1, FrameInit, FrameStep, PTL DEF Spec
===============================================================================
