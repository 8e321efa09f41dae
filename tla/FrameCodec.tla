------------------------------- MODULE FrameCodec -------------------------------
(***************************************************************************)
(* NvpFrame::encode, decode_from_slice (nova-protocol, frame.rs) and the   *)
(* NvpCodec around them (codec.rs): frames put on a byte stream that       *)
(* arrives in pieces of any size, and may be damaged on the way.           *)
(*                                                                         *)
(* A byte is abstracted to a cell that knows its frame and its place in    *)
(* it.  The header is HeaderLen cells: the magic, the version and type,    *)
(* ..., the length of the payload; the checksum is one cell.  A checksum   *)
(* agrees when every cell in front of it is the one that was sent: CRC32   *)
(* is taken to detect every damage.                                        *)
(***************************************************************************)
EXTENDS Integers, Sequences

CONSTANTS
  \* Cells of the header.
  HeaderLen,
  \* MAX_FRAME_PAYLOAD_SIZE, and the payloads the senders try.
  MaxPayload, PayloadLens,
  \* Bounds: frames encoded, damaged cells.
  MaxFrames, MaxDamage

ASSUME HeaderType == HeaderLen \in Nat /\ HeaderLen >= 3
ASSUME PayloadType == MaxPayload \in Nat /\ PayloadLens \subseteq Nat
ASSUME BoundsType == MaxFrames \in Nat /\ MaxDamage \in Nat

VARIABLES
  \* The payload lengths of the frames given to encode and accepted.
  sent,
  \* Cells on the wire, and cells in the BytesMut of the receiver.
  wire, src,
  \* The frames that decode has returned, as the cells they were read from.
  decoded,
  \* "open"; "closed" when decode has returned an error; "refused" when
  \* encode has, which ends the writing task.
  reader, writer,
  \* How many cells have been damaged.
  damage

vars == <<sent, wire, src, decoded, reader, writer, damage>>

ChecksumLen == 1

\* The cells of frame number n with a payload of len; the length is readable
\* in the last cell of the header only.
Cell(n, k, len) ==
  [frame |-> n, place |-> k, len |-> IF k = HeaderLen THEN len ELSE 0, ok |-> TRUE]

Encode(n, len) == [k \in 1..(HeaderLen + len + ChecksumLen) |-> Cell(n, k, len)]

Init ==
  /\ sent = <<>> /\ wire = <<>> /\ src = <<>> /\ decoded = <<>>
  /\ reader = "open" /\ writer = "open" /\ damage = 0

\* encode refuses a payload above the limit; the writing task of the client
\* and of the server stop at the first error.
Send(len) ==
  /\ writer = "open" /\ Len(sent) < MaxFrames
  /\ IF len > MaxPayload
     THEN writer' = "refused" /\ UNCHANGED <<sent, wire>>
     ELSE /\ sent' = Append(sent, len)
          /\ wire' = wire \o Encode(Len(sent) + 1, len)
          /\ UNCHANGED writer
  /\ UNCHANGED <<src, decoded, reader, damage>>

\* A piece of the stream arrives.
Arrive(n) ==
  /\ reader = "open" /\ n \in 1..Len(wire)
  /\ src' = src \o SubSeq(wire, 1, n)
  /\ wire' = SubSeq(wire, n + 1, Len(wire))
  /\ UNCHANGED <<sent, decoded, reader, writer, damage>>

\* A cell changes on the way: any length may be read from a damaged header.
Damage(k) ==
  /\ damage < MaxDamage /\ k \in 1..Len(wire)
  /\ \E len \in IF wire[k].place = HeaderLen THEN 0..(MaxPayload + 1) ELSE {0} :
       wire' = [wire EXCEPT ![k].ok = FALSE, ![k].len = len]
  /\ damage' = damage + 1
  /\ UNCHANGED <<sent, src, decoded, reader, writer>>

-----------------------------------------------------------------------------
(* decode_from_slice.                                                      *)

\* The first cell is the magic of a frame.
IsMagic(c) == c.ok /\ c.place = 1

\* The second is the version and the type of a frame.
IsKnown(c) == c.ok /\ c.place = 2

DeclaredLen == src[HeaderLen].len

TotalFrameLen == HeaderLen + DeclaredLen + ChecksumLen

\* Mutant: the header alone is taken for a frame.
Incomplete_HeaderOnly == Len(src) < HeaderLen

\* More data is needed: no header yet, or not all of the frame.
Incomplete ==
  \/ Len(src) < HeaderLen
  \/ /\ IsMagic(src[1]) /\ DeclaredLen <= MaxPayload
     /\ Len(src) < TotalFrameLen

\* Mutant: the checksum is read and not compared.
ChecksumAgrees_Unchecked == TRUE

\* The cells up to the checksum are those of one frame as it was sent.
ChecksumAgrees ==
  /\ Len(src) >= TotalFrameLen
  /\ \A k \in 1..TotalFrameLen :
       src[k].ok /\ src[k].frame = src[1].frame /\ src[k].place = k

Acceptable ==
  /\ IsMagic(src[1])
  /\ DeclaredLen <= MaxPayload
  /\ ChecksumAgrees

\* A whole frame is returned and its cells leave the buffer (split_to).
Decode ==
  /\ reader = "open" /\ ~Incomplete /\ Acceptable
  /\ decoded' = Append(decoded, SubSeq(src, 1, TotalFrameLen))
  /\ src' = SubSeq(src, TotalFrameLen + 1, Len(src))
  /\ UNCHANGED <<sent, wire, reader, writer, damage>>

\* The connection ends: bad magic, version or type (a damaged one may still
\* be known), an oversized length, or a wrong checksum of a whole frame.
DecodeFails ==
  /\ reader = "open" /\ Len(src) >= HeaderLen
  /\ \/ ~IsMagic(src[1]) \/ ~IsKnown(src[2]) \/ DeclaredLen > MaxPayload
     \/ ~Incomplete /\ ~ChecksumAgrees
  /\ reader' = "closed"
  /\ UNCHANGED <<sent, wire, src, decoded, writer, damage>>

Next ==
  \/ \E len \in PayloadLens : Send(len)
  \/ \E n \in 1..Len(wire) : Arrive(n)
  \/ \E k \in 1..Len(wire) : Damage(k)
  \/ Decode \/ DecodeFails

Spec == Init /\ [][Next]_vars

\* The stream delivers what is on it, and the receiver's task decodes.
FairSpec ==
  Spec /\ WF_vars(\E n \in 1..Len(wire) : Arrive(n)) /\ WF_vars(Decode \/ DecodeFails)

-----------------------------------------------------------------------------
(* Properties.                                                             *)

\* The frames returned are the first ones sent, in order, none twice and each
\* as it was encoded, however the stream is cut and whatever is damaged.
DecodedIsPrefix ==
  /\ Len(decoded) <= Len(sent)
  /\ \A k \in 1..Len(decoded) : decoded[k] = Encode(k, sent[k])

\* Undamaged frames are all decoded, and the buffer never waits for bytes
\* that will not come.
AllDecoded ==
  \A n \in 1..MaxFrames :
    (Len(sent) >= n) ~> (Len(decoded) >= n \/ damage > 0)
===============================================================================
