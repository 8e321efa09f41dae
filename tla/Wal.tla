--------------------------------- MODULE Wal ---------------------------------
(***************************************************************************)
(* The write-ahead log of nova-storage: WriteAheadLog (wal.rs), the NBF    *)
(* record codec as far as its framing matters (format.rs) and              *)
(* RecoveryManager (recovery.rs), with the failures they are written for.  *)
(*                                                                         *)
(* Several threads append at the same time.  The sequence number is taken  *)
(* and the size of the segment is tested before the mutex of the file is   *)
(* taken; rotation takes and releases it on its own.                       *)
(*                                                                         *)
(* A record is three cells: part 1 is fewer than the 4 bytes of its magic, *)
(* part 2 the rest of the magic and some of its body, part 3 the rest up   *)
(* to the end of the checksum.  Sizes are counted in cells.  A file or a   *)
(* buffer is a sequence of cells, so a torn write ends after part 1 or 2.  *)
(***************************************************************************)
EXTENDS Integers, Sequences, FiniteSets

CONSTANTS
  \* The tasks of the server that call append.
  Threads,
  \* The settings of SyncMode a server may have: "Always", "None".
  SyncModes,
  \* segment_size_limit, in cells.
  SegmentSizeLimit,
  \* The capacity of the BufWriter, in cells.
  BufCapacity,
  \* The values the variable NOVA_FAULT may have when the process starts.
  NovaFaults,
  \* The system calls that may fail while the process lives.
  IoErrors,
  \* The parts after which a write to a file may be torn.
  TornCuts,
  \* The records whose payload serde_json writes but does not read back
  \* (values nested deeper than its limit).
  Unreadable,
  \* Bound: the largest sequence number handed out.
  MaxSeq,
  \* Bound: how many times the process ends.
  MaxHalts

\* The length of an encoded record.
RecLen == 3

ASSUME ThreadsFinite == IsFiniteSet(Threads) /\ Threads # {}
ASSUME SyncModeValues == SyncModes \subseteq {"Always", "None"}
ASSUME LimitHoldsARecord == SegmentSizeLimit \in Nat /\ SegmentSizeLimit >= RecLen
ASSUME BufCapacityIsNat == BufCapacity \in Nat
ASSUME FaultValues == NovaFaults \subseteq {"none", "partial_write", "crash_after_wal"}
ASSUME IoErrorValues == IoErrors \subseteq {"write", "sync", "open", "truncate"}
ASSUME TornCutValues == TornCuts \subseteq 1..(RecLen - 1)
ASSUME UnreadableRecords == Unreadable \subseteq Nat
ASSUME BoundsAreNat == MaxSeq \in Nat /\ MaxHalts \in Nat

VARIABLES
  \* The segment files: index -> cells, as the operating system sees them.
  files,
  \* For each segment, how many of its cells an fsync has made durable.
  synced,
  \* The BufWriter of active_file: the segment it writes, its buffered cells.
  writerSeg, buf,
  \* The atomics of WriteAheadLog.
  current_segment_index, current_segment_size, current_sequence,
  \* TRUE when a thread panicked with the mutex of active_file held.
  poisoned,
  \* Where each thread is in append, and the sequence number it was given.
  pc, seqOf,
  \* The process: "down", "recovering", "up", "stopped" (a graceful
  \* shutdown), "corrupt" (recovery returned WalCorrupted) or "failed" (it
  \* returned another error).
  status,
  \* The settings: sync_mode of the configuration, the same at every start,
  \* and NOVA_FAULT of the running process.
  sync_mode, nova_fault,
  \* The segments recovery still has to scan, the records it has replayed
  \* and RecoveredState.max_sequence.
  recTodo, replayed, max_sequence,
  \* History: the records whose append returned Ok, minus those that a
  \* failure under SyncMode::None was entitled to drop.
  acked,
  \* History: for each sequence number, the records that were acknowledged
  \* when it was handed out.
  before,
  \* How many times the process has ended.
  halts

disk == <<files, synced>>
writer == <<writerSeg, buf>>
atomics == <<current_segment_index, current_segment_size, current_sequence>>
threads == <<pc, seqOf>>
settings == <<sync_mode, nova_fault>>
recovery == <<recTodo, replayed, max_sequence>>
vars == <<disk, writer, atomics, poisoned, threads, status, settings,
          recovery, acked, before, halts>>

Segments == DOMAIN files

Parts == 1..RecLen
Cells == [rec : 1..MaxSeq, part : Parts]

\* NbfRecord::encode.
Encode(seq) == [p \in Parts |-> [rec |-> seq, part |-> p]]

-----------------------------------------------------------------------------
(* Reading a segment.                                                      *)

\* The first n records of s decode: their magic, lengths and checksum agree.
RunOf(s, n) ==
  /\ n * RecLen <= Len(s)
  /\ \A i \in 0..(n - 1) : SubSeq(s, i * RecLen + 1, (i + 1) * RecLen)
                             = Encode(s[i * RecLen + 1].rec)

\* How many records NbfRecord::decode returns before it returns anything else.
ValidCount(s) ==
  CHOOSE n \in 0..Len(s) : RunOf(s, n) /\ ~RunOf(s, n + 1)

\* The sequence numbers of those records, in order.
Records(s) == [i \in 1..ValidCount(s) |-> s[i * RecLen].rec]

RecordsIn(s) == {s[i * RecLen].rec : i \in 1..ValidCount(s)}

\* Mutant: a record cut short by the end of the file is reported as damaged.
TailOutcomes_TornIsDamage(s) ==
  LET rest == SubSeq(s, ValidCount(s) * RecLen + 1, Len(s))
  IN  IF Len(rest) <= 1 THEN {"eof"} ELSE {"corrupt"}

\* Mutant: every decoding error is taken for a clean end.
TailOutcomes_AllClean(s) == {"eof"}

\* What decode returns at the first offset that holds no whole record.  Fewer
\* bytes than a magic count as a clean end; bytes that are no magic are
\* corruption; a record cut short by the end of the file is a torn write; one
\* cut short by another record has its lengths or its checksum filled from
\* that record, so it either runs into the end of the file or mismatches.
TailOutcomes(s) ==
  LET rest == SubSeq(s, ValidCount(s) * RecLen + 1, Len(s))
  IN  IF Len(rest) <= 1 THEN {"eof"}
      ELSE IF [i \in 1..2 |-> rest[i].part] # <<1, 2>> THEN {"corrupt"}
      ELSE IF Len(rest) = 2 THEN {"torn"}
      ELSE {"torn", "corrupt"}

-----------------------------------------------------------------------------
Init ==
  /\ files = [s \in {} |-> <<>>]
  /\ synced = [s \in {} |-> 0]
  /\ writerSeg = 0 /\ buf = <<>>
  /\ current_segment_index = 0
  /\ current_segment_size = 0
  /\ current_sequence = 0
  /\ poisoned = FALSE
  /\ pc = [t \in Threads |-> "idle"]
  /\ seqOf = [t \in Threads |-> 0]
  /\ status = "down"
  /\ sync_mode \in SyncModes /\ nova_fault = "none"
  /\ recTodo = {} /\ replayed = <<>> /\ max_sequence = 0
  /\ acked = {}
  /\ before = [r \in 1..MaxSeq |-> {}]
  /\ halts = 0

-----------------------------------------------------------------------------
(* WriteAheadLog::append.                                                  *)

Goto(t, loc) == pc' = [pc EXCEPT ![t] = loc]

\* Mutant: a panic leaves the mutex locked instead of poisoned.
LockFree_PanicKeepsLock == ~poisoned /\ \A t \in Threads : pc[t] # "sync"

\* The mutex of active_file: a thread holds it from write_all to the return.
LockFree == \A t \in Threads : pc[t] # "sync"

\* The current file gets the cells of stream up to n, the buffer the others.
Put(stream, n) ==
  /\ files' = [files EXCEPT ![writerSeg] = SubSeq(stream, 1, n)]
  /\ buf' = SubSeq(stream, n + 1, Len(stream))

\* The file followed by what the BufWriter still holds for it.
Stream == files[writerSeg] \o buf

FileLen == Len(files[writerSeg])

\* Lengths, from lo on, at which writing the cells of stream may stop.
Cuts(stream, lo) ==
  {lo, Len(stream)} \cup
  {n \in (lo + 1)..Len(stream) : stream[n].part \in TornCuts \cup {RecLen}}

\* Those at which a failing write stops short of the end.
ShortWrites(stream, lo) == Cuts(stream, lo) \ {Len(stream)}

NextSequence(t) ==
  /\ status = "up" /\ pc[t] = "idle"
  /\ current_sequence < MaxSeq
  /\ current_sequence' = current_sequence + 1
  /\ seqOf' = [seqOf EXCEPT ![t] = current_sequence + 1]
  /\ before' = [before EXCEPT ![current_sequence + 1] = acked]
  /\ Goto(t, "check")
  /\ UNCHANGED <<disk, writer, current_segment_index, current_segment_size,
                 poisoned, status, settings, recovery, acked, halts>>

CheckSize(t) ==
  /\ pc[t] = "check"
  /\ Goto(t, IF current_segment_size + RecLen > SegmentSizeLimit
             THEN "rotate" ELSE "write")
  /\ UNCHANGED <<disk, writer, atomics, poisoned, seqOf, status, settings,
                 recovery, acked, before, halts>>

\* Mutant: rotation does not fsync the segment it leaves.
SealedLen_NoSync == synced[writerSeg]

\* How much of the old segment is durable when rotation replaces it.
SealedLen == Len(Stream)

\* rotate_segment: flush, fsync, open the next file, replace the writer.
RotateSegment(t) ==
  LET next == current_segment_index + 1
  IN  /\ pc[t] = "rotate" /\ LockFree /\ ~poisoned
      /\ files' = [s \in Segments \cup {next} |->
                     IF s = next THEN <<>> ELSE IF s = writerSeg THEN Stream ELSE files[s]]
      /\ synced' = [s \in Segments \cup {next} |->
                     IF s = next THEN 0 ELSE IF s = writerSeg THEN SealedLen ELSE synced[s]]
      /\ writerSeg' = next /\ buf' = <<>>
      /\ current_segment_index' = next
      /\ current_segment_size' = 0
      /\ Goto(t, "write")
      /\ UNCHANGED <<current_sequence, poisoned, seqOf, status, settings,
                     recovery, acked, before, halts>>

\* The error returns of rotate_segment: a poisoned mutex, a flush that stops
\* short, an fsync that fails, a new file that cannot be opened.
RotateFails(t) ==
  /\ pc[t] = "rotate" /\ LockFree
  /\ \/ poisoned /\ UNCHANGED <<disk, writer, current_segment_index>>
     \/ /\ ~poisoned /\ "write" \in IoErrors
        /\ \E n \in ShortWrites(Stream, FileLen) : Put(Stream, n)
        /\ UNCHANGED <<synced, writerSeg, current_segment_index>>
     \/ /\ ~poisoned /\ "sync" \in IoErrors
        /\ Put(Stream, Len(Stream))
        /\ UNCHANGED <<synced, writerSeg, current_segment_index>>
     \/ /\ ~poisoned /\ "open" \in IoErrors
        /\ Put(Stream, Len(Stream))
        /\ synced' = [synced EXCEPT ![writerSeg] = Len(Stream)]
        /\ current_segment_index' = current_segment_index + 1
        /\ UNCHANGED writerSeg
  /\ Goto(t, "idle")
  /\ UNCHANGED <<current_segment_size, current_sequence, poisoned, seqOf,
                 status, settings, recovery, acked, before, halts>>

\* BufWriter::write_all flushes the buffer first when the record overflows it,
\* and writes a record as large as the buffer past it.
Overflows == Len(buf) + RecLen > BufCapacity
Direct == RecLen >= BufCapacity

\* Mutant: append calls sync_all without flushing the BufWriter.
WrittenThrough_NoFlush ==
  IF Direct THEN Len(Stream) + RecLen
  ELSE IF Overflows THEN Len(Stream)
  ELSE FileLen

\* How much of the stream is in the file after write_all and, under
\* SyncMode::Always, flush.
WrittenThrough ==
  IF sync_mode = "Always" \/ Direct THEN Len(Stream) + RecLen
  ELSE IF Overflows THEN Len(Stream)
  ELSE FileLen

\* write_all and flush; the mutex stays with t.
Write(t) ==
  /\ pc[t] = "write" /\ LockFree /\ ~poisoned
  /\ nova_fault # "partial_write"
  /\ Put(Stream \o Encode(seqOf[t]), WrittenThrough)
  /\ Goto(t, "sync")
  /\ UNCHANGED <<synced, writerSeg, atomics, poisoned, seqOf, status,
                 settings, recovery, acked, before, halts>>

\* NOVA_FAULT=partial_write: the record without its last bytes is written and
\* flushed, and append returns an error.
PartialWrite(t) ==
  LET stream == Stream \o SubSeq(Encode(seqOf[t]), 1, RecLen - 1)
  IN  /\ pc[t] = "write" /\ LockFree /\ ~poisoned
      /\ nova_fault = "partial_write"
      /\ Put(stream, Len(stream))
      /\ Goto(t, "idle")
      /\ UNCHANGED <<synced, writerSeg, atomics, poisoned, seqOf, status,
                     settings, recovery, acked, before, halts>>

\* The error returns up to and including flush.  What a failing flush did not
\* write stays in the BufWriter; what a failing direct write did not write
\* is lost.
WriteFails(t) ==
  LET stream == Stream \o Encode(seqOf[t])
      flushFrom == IF Overflows THEN Len(Stream) ELSE FileLen
  IN  /\ pc[t] = "write" /\ LockFree
      /\ \/ poisoned /\ UNCHANGED <<files, buf>>
         \/ /\ ~poisoned /\ "write" \in IoErrors /\ Overflows
            /\ \E n \in ShortWrites(Stream, FileLen) : Put(Stream, n)
         \/ /\ ~poisoned /\ "write" \in IoErrors /\ Direct
            /\ \E n \in ShortWrites(stream, Len(Stream)) :
                 files' = [files EXCEPT ![writerSeg] = SubSeq(stream, 1, n)]
            /\ buf' = <<>>
         \/ /\ ~poisoned /\ "write" \in IoErrors /\ ~Direct /\ sync_mode = "Always"
            /\ \E n \in ShortWrites(stream, flushFrom) : Put(stream, n)
      /\ Goto(t, "idle")
      /\ UNCHANGED <<synced, writerSeg, atomics, poisoned, seqOf, status,
                     settings, recovery, acked, before, halts>>

\* fsync under SyncMode::Always, the size counter, and the return of append;
\* with NOVA_FAULT=crash_after_wal a panic that poisons the mutex instead.
Sync(t) ==
  /\ pc[t] = "sync"
  /\ synced' = IF sync_mode = "Always"
               THEN [synced EXCEPT ![writerSeg] = FileLen] ELSE synced
  /\ current_segment_size' = current_segment_size + RecLen
  /\ IF nova_fault = "crash_after_wal"
     THEN poisoned' = TRUE /\ UNCHANGED acked
     ELSE acked' = acked \cup {seqOf[t]} /\ UNCHANGED poisoned
  /\ Goto(t, "idle")
  /\ UNCHANGED <<files, writer, current_segment_index, current_sequence, seqOf,
                 status, settings, recovery, before, halts>>

\* sync_all returns an error: the record stays in the file, unacknowledged.
SyncFails(t) ==
  /\ pc[t] = "sync" /\ sync_mode = "Always" /\ "sync" \in IoErrors
  /\ Goto(t, "idle")
  /\ UNCHANGED <<disk, writer, atomics, poisoned, seqOf, status, settings,
                 recovery, acked, before, halts>>

-----------------------------------------------------------------------------
(* Failures, shutdown and recovery.                                        *)

\* The whole records of the files, and those of their durable prefixes.
Present == UNION {RecordsIn(files[s]) : s \in Segments}
DurableRecords == UNION {RecordsIn(SubSeq(files[s], 1, synced[s])) : s \in Segments}

\* The records a failure may take back without breaking the promise of the
\* configured SyncMode.
Surviving == IF sync_mode = "Always" THEN acked ELSE acked \cap Present'

Halt(s) ==
  /\ status' = s
  /\ pc' = [t \in Threads |-> "idle"]
  /\ buf' = <<>>
  /\ recTodo' = {}
  /\ UNCHANGED <<writerSeg, atomics, seqOf, settings, replayed, max_sequence, before>>

\* The process is killed: the BufWriter is lost, the files are not.
ProcessCrash ==
  /\ halts < MaxHalts /\ status \in {"up", "recovering"}
  /\ halts' = halts + 1
  /\ Halt("down")
  /\ poisoned' = FALSE
  /\ UNCHANGED disk
  /\ acked' = Surviving

\* Power is lost: of the file being written, any part after the last fsync may
\* be missing (the other files are durable: see SealedSegmentsDurable).
PowerLoss ==
  /\ halts < MaxHalts /\ writerSeg \in Segments
  /\ halts' = halts + 1
  /\ Halt("down")
  /\ poisoned' = FALSE
  /\ \E n \in Cuts(files[writerSeg], synced[writerSeg]) :
       /\ files' = [files EXCEPT ![writerSeg] = SubSeq(@, 1, n)]
       /\ synced' = [synced EXCEPT ![writerSeg] = n]
  /\ acked' = Surviving

\* A graceful shutdown, with no append in progress: NovaServer::run returns
\* and the BufWriter flushes when it is dropped; nothing calls fsync.
Shutdown ==
  /\ halts < MaxHalts /\ status = "up" /\ \A t \in Threads : pc[t] = "idle"
  /\ halts' = halts + 1
  /\ files' = [files EXCEPT ![writerSeg] = Stream]
  /\ Halt("stopped")
  /\ poisoned' = FALSE
  /\ UNCHANGED <<synced, acked>>

\* The process is started: RecoveryManager::recover lists the segments.
Start ==
  /\ status \in {"down", "stopped", "corrupt", "failed"}
  /\ status' = "recovering"
  /\ nova_fault' \in NovaFaults
  /\ recTodo' = Segments
  /\ replayed' = <<>>
  /\ max_sequence' = 0
  /\ UNCHANGED <<disk, writer, atomics, poisoned, threads, sync_mode, acked, before,
                 halts>>

MaxOf(S) == CHOOSE x \in S : \A y \in S : y <= x
MinOf(S) == CHOOSE x \in S : \A y \in S : x <= y

\* Mutant: discover_segments lists the segments in descending order.
NextSegment_Descending == MaxOf(recTodo)

\* discover_segments sorts the indices in ascending order.
NextSegment == MinOf(recTodo)

\* apply_record_to_state takes every record of the segment.
AllReadable(s) == RecordsIn(files[s]) \cap Unreadable = {}

\* recover_segment on the next segment: replay its records, then stop at a
\* clean end, truncate a torn tail (set_len, sync_all), or give up.
RecoverSegment ==
  LET s == NextSegment
      found == Records(files[s])
  IN  /\ status = "recovering" /\ recTodo # {}
      /\ AllReadable(s)
      /\ replayed' = replayed \o found
      /\ max_sequence' = MaxOf({max_sequence} \cup RecordsIn(files[s]))
      /\ \E tail \in TailOutcomes(files[s]) :
           IF tail = "torn"
           THEN /\ files' = [files EXCEPT ![s] = SubSeq(@, 1, RecLen * Len(found))]
                /\ synced' = [synced EXCEPT ![s] = RecLen * Len(found)]
                /\ status' = status /\ recTodo' = recTodo \ {s}
           ELSE /\ UNCHANGED disk
                /\ status' = IF tail = "corrupt" THEN "corrupt" ELSE status
                /\ recTodo' = IF tail = "corrupt" THEN {} ELSE recTodo \ {s}
      /\ UNCHANGED <<writer, atomics, poisoned, threads, settings, acked, before, halts>>

\* The other error returns of recover_segment, which end the start: a payload
\* that does not deserialise, a tail that set_len cannot truncate, and one that
\* it did truncate before sync_all failed.
RecoverFails ==
  LET s == NextSegment
      valid == RecLen * ValidCount(files[s])
  IN  /\ status = "recovering" /\ recTodo # {}
      /\ \/ ~AllReadable(s) /\ UNCHANGED disk
         \/ /\ AllReadable(s) /\ "torn" \in TailOutcomes(files[s])
            /\ "truncate" \in IoErrors /\ UNCHANGED disk
         \/ /\ AllReadable(s) /\ "torn" \in TailOutcomes(files[s])
            /\ "sync" \in IoErrors
            /\ files' = [files EXCEPT ![s] = SubSeq(@, 1, valid)]
            /\ synced' = [synced EXCEPT ![s] = MinOf({@, valid})]
      /\ status' = "failed" /\ recTodo' = {}
      /\ UNCHANGED <<writer, atomics, poisoned, threads, settings, replayed,
                     max_sequence, acked, before, halts>>

\* Mutant: open starts counting at 0 for a segment that already has records.
InitialSize_Zero(s) == 0

\* current_segment_size after open: the length of the file.
InitialSize(s) == Len(s)

\* Mutant: nobody calls set_sequence after recovery.
RestoredSequence_Zero == 0

\* current_sequence after open and set_sequence.
RestoredSequence == max_sequence

\* WriteAheadLog::open appends to the last segment, or creates segment 0, and
\* DatabaseEngine::open sets the sequence counter to the largest one replayed.
Open ==
  LET last == IF Segments = {} THEN 0 ELSE MaxOf(Segments)
  IN  /\ status = "recovering" /\ recTodo = {}
      /\ files' = [s \in Segments \cup {last} |-> IF s \in Segments THEN files[s] ELSE <<>>]
      /\ synced' = [s \in Segments \cup {last} |-> IF s \in Segments THEN synced[s] ELSE 0]
      /\ writerSeg' = last
      /\ current_segment_index' = last
      /\ current_segment_size' = InitialSize(files'[last])
      /\ current_sequence' = RestoredSequence
      /\ status' = "up"
      /\ UNCHANGED <<buf, poisoned, threads, settings, recovery, acked, before, halts>>

-----------------------------------------------------------------------------
AppendStep(t) ==
  \/ CheckSize(t)
  \/ RotateSegment(t) \/ RotateFails(t)
  \/ Write(t) \/ PartialWrite(t) \/ WriteFails(t)
  \/ Sync(t) \/ SyncFails(t)

Next ==
  \/ \E t \in Threads : NextSequence(t) \/ AppendStep(t)
  \/ ProcessCrash \/ PowerLoss \/ Shutdown
  \/ Start \/ RecoverSegment \/ RecoverFails \/ Open

Spec == Init /\ [][Next]_vars

\* A thread inside append keeps running, and a process that scans the log goes
\* on scanning.  Nothing makes a client append or an operator start a server.
Fairness ==
  /\ \A t \in Threads : WF_vars(AppendStep(t))
  /\ WF_vars(RecoverSegment \/ RecoverFails \/ Open)

FairSpec == Spec /\ Fairness

-----------------------------------------------------------------------------
(* The log that is implemented: the records of all segments in the order   *)
(* of their indices, those in the BufWriter last.                          *)

\* A segment with what is still buffered for it, and its records.
StreamOf(s) == IF s = writerSeg THEN Stream ELSE files[s]
Count(s) == ValidCount(StreamOf(s))
Rec(s, i) == StreamOf(s)[i * RecLen].rec

\* The records with their segments and their positions in them, and the order
\* that gives.
Entries == UNION {{<<s, i, Rec(s, i)>> : i \in 1..Count(s)} : s \in Segments}
Earlier(s1, i, s2, j) == s1 < s2 \/ (s1 = s2 /\ i < j)

\* The entries of E in front of e; and the records of E, each at its place.
Front(E, e) == {d \in E : Earlier(d[1], d[2], e[1], e[2])}
InOrder[E \in SUBSET (Nat \X Nat \X (1..MaxSeq))] ==
  [n \in 1..Cardinality(E) |-> (CHOOSE e \in E : Cardinality(Front(E, e)) = n - 1)[3]]

WholeLog == InOrder[Entries]

Abstract == INSTANCE DurableLog
              WITH log <- WholeLog,
                   acked <- acked,
                   Seqs <- 1..MaxSeq,
                   synchronous <- (sync_mode = "Always")

-----------------------------------------------------------------------------
(* Properties.                                                             *)

\* The values the variables may have: no segment has more durable cells than
\* cells, and a log that is up writes to a segment that exists.
TypeOK ==
  /\ Segments \subseteq Nat
  /\ \A s \in Segments : files[s] \in Seq(Cells)
  /\ synced \in [Segments -> Nat]
  /\ \A s \in Segments : synced[s] <= Len(files[s])
  /\ writerSeg \in Nat /\ buf \in Seq(Cells)
  /\ status = "up" => writerSeg \in Segments
  /\ current_segment_index \in Nat
  /\ current_segment_size \in Nat
  /\ current_sequence \in 0..MaxSeq
  /\ poisoned \in BOOLEAN
  /\ pc \in [Threads -> {"idle", "check", "rotate", "write", "sync"}]
  /\ seqOf \in [Threads -> 0..MaxSeq]
  /\ status \in {"down", "recovering", "up", "stopped", "corrupt", "failed"}
  /\ sync_mode \in {"Always", "None"}
  /\ nova_fault \in {"none", "partial_write", "crash_after_wal"}
  /\ recTodo \subseteq Segments
  /\ replayed \in Seq(1..MaxSeq)
  /\ max_sequence \in 0..MaxSeq
  /\ acked \subseteq 1..MaxSeq
  /\ before \in [1..MaxSeq -> SUBSET (1..MaxSeq)]
  /\ halts \in 0..MaxHalts

\* Under SyncMode::Always a record whose append returned Ok is whole and
\* decodable in the durable part of some segment, from the acknowledgement on:
\* no failure, no recovery and no later append takes it away or hides it
\* behind undecodable bytes.
AckedDurable == sync_mode = "Always" => acked \subseteq DurableRecords

\* A record of a segment begins right behind one that was never finished.
Buried(s) == \E k \in 1..(Len(s) - 1) : s[k].part # RecLen /\ s[k + 1].part = 1

\* Recovery ends in WalCorrupted for one reason only: an append went behind
\* what a torn or failing write had left in its segment.  What is cut off at the
\* end of a segment, by any fault of the model, is no reason by itself; but where
\* recovery takes it for a clean end, as a torn magic, the next append buries it,
\* and the log is not repaired as docs/recovery.md:17-20 and README.md:245 say.
CorruptOnlyBuried == status = "corrupt" => \E s \in Segments : Buried(files[s])

\* Only the segment being written can lose bytes to a power failure: every
\* other segment was flushed and fsynced by rotate_segment or by recovery.
SealedSegmentsDurable ==
  \A s \in Segments \ {writerSeg} : synced[s] = Len(files[s])

\* The size test is made without the mutex, so a segment may outgrow its
\* limit, but by no more than one record for each other appending thread
\* (appends that failed are not counted: what they wrote comes on top).
SegmentSizeBound ==
  \A s \in Segments :
    LET stream == IF s = writerSeg THEN Stream ELSE files[s]
        counted == acked \cap {stream[i].rec : i \in 1..Len(stream)}
    IN  RecLen * Cardinality(counted)
          <= SegmentSizeLimit + (Cardinality(Threads) - 1) * RecLen

\* No two whole records of the log carry the same sequence number, although
\* the counter restarts from what recovery could still read.
SequencesUnique ==
  \A s1, s2 \in Segments :
    \A i \in 1..ValidCount(files[s1]), j \in 1..ValidCount(files[s2]) :
      files[s1][i * RecLen].rec = files[s2][j * RecLen].rec => <<s1, i>> = <<s2, j>>

\* Recovery replays a record after every record that was acknowledged before
\* its own append began, so that the last acknowledged write of a document
\* wins, whatever the order in which sequence numbers reached the file.
ReplayRespectsOrder ==
  \A i, j \in 1..Len(replayed) : i < j => replayed[j] \notin before[replayed[i]]

\* An append that has begun returns, with or without an error, unless the
\* process goes down: no error path and no panic leaves the mutex held.
AppendsReturn == \A t \in Threads : pc[t] # "idle" ~> pc[t] = "idle"

\* The write-ahead log of wal.rs and recovery.rs implements the durable log:
\* appends extend it, acknowledgements are of records in it, and failures with
\* the recovery that follows keep a prefix that holds all that SyncMode promises.
ImplementsDurableLog == Abstract!Spec
===============================================================================
