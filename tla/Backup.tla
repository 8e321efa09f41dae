-------------------------------- MODULE Backup --------------------------------
(***************************************************************************)
(* The commands of nova-cli (main.rs) that work on the files of a database *)
(* while a server may be running: `nova backup create` recovers the        *)
(* documents from the log and gives them to SnapshotManager (nova-storage, *)
(* snapshot.rs), which writes a data file and then a metadata file with    *)
(* its checksum; `nova backup restore` reads both back; `nova doctor` and  *)
(* `nova compact` recover the log and report.                              *)
(*                                                                         *)
(* The log is its segments, each a sequence of records that are numbered   *)
(* as they are appended; the last of them may still be in the server's     *)
(* BufWriter.  A write holds the lock of the file, which makes set_len     *)
(* wait; reading does not, and may see a part of what is being written.    *)
(*                                                                         *)
(* A database state is known by the records replayed.  Its bytes are an    *)
(* image: those records and the order in which the HashMaps were           *)
(* serialised, which differs from run to run.  A file of a snapshot is     *)
(* Absent, Torn (truncated by File::create, or written in part) or the     *)
(* image it holds; a metadata file is known by the image its checksum is   *)
(* of.  Commands can be killed; the machine does not fail.                 *)
(***************************************************************************)
EXTENDS Naturals, Sequences, FiniteSets

CONSTANTS
  \* Runs of the commands, and the snapshot ids that creates may be given.
  Commands, SnapIds,
  \* Markers: a file that does not exist, one that is empty or cut, a restore
  \* that fails, nothing.
  Absent, Torn, Refused, None,
  \* The values of sync_mode that the server may be configured with.
  SyncModes,
  \* Records of a namespace whose name has a "::" of its own (the API of Nova
  \* Studio takes any name), and records of a document nested so deep that it
  \* can be read from a record but not from a snapshot, where it is deeper.
  Odd, Deep,
  \* TRUE if two commands may recover the log at the same time.
  MayOverlapScans,
  \* Bounds: records appended, segments, commands begun.
  MaxRecords, MaxSegments, MaxCommands

ASSUME BackupConstants ==
  /\ SyncModes \subseteq {"Always", "None"} /\ MayOverlapScans \in BOOLEAN
  /\ MaxRecords \in Nat /\ MaxSegments \in Nat \ {0} /\ MaxCommands \in Nat

VARIABLES
  \* The server: its sync_mode, the segments of its log, whether it is writing
  \* to the last of them, and how many records were appended and written: those
  \* between are in the BufWriter.
  sync_mode, segs, writing, appended, written,
  \* The two files of each snapshot id.
  data, meta,
  \* For each command: where it is; whether it is a create, and of which id;
  \* the segments it listed, the segment and the records of it that it has
  \* read, the records recovered, and the image serialised.
  pc, job, idOf, listed, seg, off, recovered, snap,
  \* History: for each id, the records of the create that began last if it has
  \* reported success, else None, and whether that create began while another of
  \* the id was running; for each command the records that were in the log, those
  \* that were acknowledged and those that had been cut off when it began; the
  \* records cut off; how many commands were begun.
  success, shared, before, ackedBefore, cutBefore, cut, begun

log == <<sync_mode, segs, writing, appended, written, cut>>
files == <<data, meta>>
scan == <<listed, seg, off, recovered>>
ids == <<job, idOf>>
trace == <<success, shared, before, ackedBefore, cutBefore, begun>>
vars == <<log, files, pc, scan, ids, snap, trace>>

Orders == {"a", "b"}

Records == 1..MaxRecords

Images == [recs : SUBSET Records, order : Orders]

InLog == UNION {{segs[k][n] : n \in 1..Len(segs[k])} : k \in 1..Len(segs)}

Init ==
  /\ sync_mode \in SyncModes
  /\ segs = <<<<>>>> /\ writing = FALSE /\ appended = 0 /\ written = 0 /\ cut = {}
  /\ data = [i \in SnapIds |-> Absent] /\ meta = [i \in SnapIds |-> Absent]
  /\ pc = [c \in Commands |-> "idle"]
  /\ job = [c \in Commands |-> "none"]
  /\ idOf = [c \in Commands |-> None]
  /\ listed = [c \in Commands |-> 0]
  /\ seg = [c \in Commands |-> 0] /\ off = [c \in Commands |-> 0]
  /\ recovered = [c \in Commands |-> {}]
  /\ snap = [c \in Commands |-> None]
  /\ success = [i \in SnapIds |-> None] /\ shared = [i \in SnapIds |-> FALSE]
  /\ before = [c \in Commands |-> {}] /\ ackedBefore = [c \in Commands |-> {}]
  /\ cutBefore = [c \in Commands |-> {}]
  /\ begun = 0

Goto(c, loc) == pc' = [pc EXCEPT ![c] = loc]

\* The process of a command ends; what it had in memory is gone.
Exit(c) ==
  /\ Goto(c, "idle")
  /\ job' = [job EXCEPT ![c] = "none"] /\ idOf' = [idOf EXCEPT ![c] = None]
  /\ listed' = [listed EXCEPT ![c] = 0]
  /\ seg' = [seg EXCEPT ![c] = 0] /\ off' = [off EXCEPT ![c] = 0]
  /\ recovered' = [recovered EXCEPT ![c] = {}]
  /\ snap' = [snap EXCEPT ![c] = None]
  /\ before' = [before EXCEPT ![c] = {}] /\ ackedBefore' = [ackedBefore EXCEPT ![c] = {}]
  /\ cutBefore' = [cutBefore EXCEPT ![c] = {}]

-----------------------------------------------------------------------------
(* The server.                                                             *)

others == <<files, pc, scan, ids, snap, trace>>

\* What append has returned for.
Acknowledged == IF sync_mode = "Always" THEN 1..written ELSE 1..appended

\* append: the record goes into the BufWriter.  SyncMode::Always flushes it at
\* once, and the other modes when the buffer has no room or at a rotation.
AppendRecord ==
  /\ ~writing /\ appended < MaxRecords
  /\ appended' = appended + 1
  /\ writing' = (sync_mode = "Always")
  /\ UNCHANGED <<sync_mode, segs, written, cut, others>>

Flush ==
  /\ sync_mode # "Always" /\ ~writing /\ written < appended
  /\ writing' = TRUE
  /\ UNCHANGED <<sync_mode, segs, appended, written, cut, others>>

\* One more record of the buffer is in the file, which is open in append mode:
\* it goes to the end that the file has now.
WriteRecord ==
  /\ writing
  /\ written' = written + 1 /\ writing' = (written' < appended)
  /\ segs' = [segs EXCEPT ![Len(segs)] = Append(@, written')]
  /\ UNCHANGED <<sync_mode, appended, cut, others>>

\* The buffer is flushed before the next segment is opened.
Rotate ==
  /\ ~writing /\ written = appended /\ Len(segs) < MaxSegments /\ appended > 0
  /\ segs' = Append(segs, <<>>)
  /\ UNCHANGED <<sync_mode, writing, appended, written, cut, others>>

-----------------------------------------------------------------------------
(* RecoveryManager::recover, in the process of a command.                  *)

InUse(i) == \E c \in Commands : pc[c] # "idle" /\ job[c] = "create" /\ idOf[c] = i

Scanning(c) == pc[c] \in {"read", "cut"}

\* A command begins: it lists the segments there are.
Begin(c, j, i) ==
  /\ pc[c] = "idle" /\ begun < MaxCommands
  /\ MayOverlapScans \/ \A d \in Commands : ~Scanning(d)
  /\ begun' = begun + 1
  /\ job' = [job EXCEPT ![c] = j]
  /\ idOf' = [idOf EXCEPT ![c] = IF j = "create" THEN i ELSE None]
  /\ success' = IF j = "create" THEN [success EXCEPT ![i] = None] ELSE success
  /\ shared' = IF j = "create" THEN [shared EXCEPT ![i] = InUse(i)] ELSE shared
  /\ listed' = [listed EXCEPT ![c] = Len(segs)]
  /\ seg' = [seg EXCEPT ![c] = 1] /\ off' = [off EXCEPT ![c] = 0]
  /\ recovered' = [recovered EXCEPT ![c] = {}]
  /\ before' = [before EXCEPT ![c] = InLog]
  /\ ackedBefore' = [ackedBefore EXCEPT ![c] = Acknowledged]
  /\ cutBefore' = [cutBefore EXCEPT ![c] = cut]
  /\ Goto(c, "read")
  /\ UNCHANGED <<log, files, snap>>

\* Mutant: segments are opened one after the other until one does not exist.
LastSegment_Probed(c) == Len(segs)

\* discover_segments has listed the segments to read.
LastSegment(c) == listed[c]

\* A record is decoded and replayed.
ReadRecord(c) ==
  /\ pc[c] = "read" /\ off[c] < Len(segs[seg[c]])
  /\ recovered' = [recovered EXCEPT ![c] = @ \cup {segs[seg[c]][off[c] + 1]}]
  /\ off' = [off EXCEPT ![c] = @ + 1]
  /\ UNCHANGED <<log, files, pc, listed, seg, ids, snap, trace>>

\* The segment is done: on to the next, or to what the command does with the
\* documents; a create serialises them in some order.
SegmentDone(c) ==
  \/ /\ seg[c] < LastSegment(c)
     /\ seg' = [seg EXCEPT ![c] = @ + 1] /\ off' = [off EXCEPT ![c] = 0]
     /\ Goto(c, "read")
     /\ UNCHANGED <<files, listed, recovered, ids, snap, trace>>
  \/ /\ seg[c] >= LastSegment(c) /\ job[c] = "check"
     /\ Exit(c)
     /\ UNCHANGED <<files, success, shared, begun>>
  \/ /\ seg[c] >= LastSegment(c) /\ job[c] = "create"
     /\ \E o \in Orders : snap' = [snap EXCEPT ![c] = [recs |-> recovered[c], order |-> o]]
     /\ Goto(c, "data_create")
     /\ UNCHANGED <<files, scan, ids, trace>>

\* decode finds the end of the file: nothing of a record that is being
\* written is there yet, or less than its magic.
ReadEnd(c) ==
  /\ pc[c] = "read" /\ off[c] >= Len(segs[seg[c]])
  /\ SegmentDone(c) /\ UNCHANGED log

\* decode finds a part of a record that the server is writing.
ReadTorn(c) ==
  /\ pc[c] = "read" /\ off[c] = Len(segs[seg[c]])
  /\ writing /\ seg[c] = Len(segs)
  /\ Goto(c, "cut")
  /\ UNCHANGED <<log, files, scan, ids, snap, trace>>

\* Mutant: the offset is that of the last valid record, not of its end.
ValidLength_Before(c) == IF off[c] = 0 THEN 0 ELSE off[c] - 1

\* last_valid_offset.
ValidLength(c) == off[c]

\* set_len and sync_all: the tail is cut off, with whatever the server has
\* appended by now.
CutTail(c) ==
  LET k == seg[c]
      kept == SubSeq(segs[k], 1, ValidLength(c))
  IN  /\ pc[c] = "cut" /\ (writing => k # Len(segs))
      /\ segs' = [segs EXCEPT ![k] = kept]
      /\ cut' = cut \cup {segs[k][n] : n \in (Len(kept) + 1)..Len(segs[k])}
      /\ SegmentDone(c)
      /\ UNCHANGED <<sync_mode, writing, appended, written>>

-----------------------------------------------------------------------------
(* SnapshotManager::create and restore.                                    *)

\* File::create truncates <id>.snap.
CreateData(c) ==
  /\ pc[c] = "data_create"
  /\ data' = [data EXCEPT ![idOf[c]] = Torn]
  /\ Goto(c, "data_write")
  /\ UNCHANGED <<log, meta, scan, ids, snap, trace>>

\* What is in a file after a write from its beginning: what another create wrote
\* since the file was truncated may be longer.
Overwritten(file, image) == {image} \cup (IF file = Torn THEN {} ELSE {Torn})

\* write_all and sync_all of the data.
WriteData(c) ==
  /\ pc[c] = "data_write"
  /\ \E f \in Overwritten(data[idOf[c]], snap[c]) : data' = [data EXCEPT ![idOf[c]] = f]
  /\ Goto(c, "meta_create")
  /\ UNCHANGED <<log, meta, scan, ids, snap, trace>>

\* File::create truncates <id>.meta.json.
CreateMeta(c) ==
  /\ pc[c] = "meta_create"
  /\ meta' = [meta EXCEPT ![idOf[c]] = Torn]
  /\ Goto(c, "meta_write")
  /\ UNCHANGED <<log, data, scan, ids, snap, trace>>

\* Mutant: the checksum is taken of the documents as they are now.
MetaImage_Reread(c) == [snap[c] EXCEPT !.recs = InLog]

\* The metadata describe the bytes that were serialised.
MetaImage(c) == snap[c]

\* write_all and sync_all of the metadata; the command reports success.
WriteMeta(c) ==
  /\ pc[c] = "meta_write"
  /\ \E f \in Overwritten(meta[idOf[c]], MetaImage(c)) : meta' = [meta EXCEPT ![idOf[c]] = f]
  /\ success' = [success EXCEPT ![idOf[c]] = snap[c].recs]
  /\ Exit(c)
  /\ UNCHANGED <<log, data, shared, begun>>

\* The command is killed: a file that was created may stay torn.
Kill(c) ==
  /\ pc[c] # "idle"
  /\ Exit(c)
  /\ UNCHANGED <<log, files, success, shared, begun>>

\* A key is split at "::", and passed over unless that gives two parts.
Restored(recs) == recs \ Odd

\* `nova backup restore` reads the snapshot and prints how many collections it
\* holds: both files exist, the metadata parse, their checksum is that of the
\* data file, and the data can be deserialised.
Outcome(i) ==
  IF data[i] \in Images /\ meta[i] = data[i] /\ data[i].recs \cap Deep = {}
  THEN Restored(data[i].recs) ELSE Refused

Next ==
  \/ AppendRecord \/ Flush \/ WriteRecord \/ Rotate
  \/ \E c \in Commands :
       \/ \E j \in {"create", "check"}, i \in SnapIds : Begin(c, j, i)
       \/ ReadRecord(c) \/ ReadEnd(c) \/ ReadTorn(c) \/ CutTail(c)
       \/ CreateData(c) \/ WriteData(c) \/ CreateMeta(c) \/ WriteMeta(c) \/ Kill(c)

Spec == Init /\ [][Next]_vars

-----------------------------------------------------------------------------
(* Properties.                                                             *)

\* The snapshot of a create that reported success reads back as the documents it
\* recovered, until another create of its id begins: neither the writes of a
\* server nor creates that were killed half way spoil it.  Left out of this are
\* the documents of a namespace whose name has a "::", which restore passes over
\* without a word; a snapshot with a document nested near the limit, which is
\* refused; and creates of one id that overlap.
SuccessRestorable ==
  \A i \in SnapIds :
    success[i] # None /\ ~InUse(i) /\ ~shared[i] =>
      Outcome(i) = IF success[i] \cap Deep = {} THEN success[i] \ Odd ELSE Refused

\* A snapshot is the log of one moment since the command began, although the
\* server writes and rotates while it is read: it has every record that was in
\* the files then, and none without all those appended before it.  Under
\* SyncMode::Always these are all that were acknowledged by then; in the other
\* modes those that the server still had in its buffer are missing.
SnapshotOfOneMoment ==
  \A c \in Commands :
    snap[c] # None =>
      /\ before[c] \subseteq snap[c].recs
      /\ \A r \in snap[c].recs : 1..r \subseteq snap[c].recs \cup cutBefore[c]
      /\ sync_mode = "Always" => ackedBefore[c] \subseteq snap[c].recs \cup cutBefore[c]

\* A command never takes from the log of a running server what it has itself
\* recovered, or what another command put into a snapshot: only what was being
\* written while it read, and what came behind that, may be cut off.
RecoveredStays ==
  /\ \A c \in Commands : recovered[c] \subseteq InLog
  /\ \A i \in SnapIds : success[i] # None => success[i] \subseteq InLog
===============================================================================
