------------------------------ MODULE DurableLog ------------------------------
(***************************************************************************)
(* What the write-ahead log of nova-storage promises to its caller, with   *)
(* segments, buffers, locks and recovery left out: a sequence of records   *)
(* that grows at its end, a set of records whose append has returned Ok,   *)
(* and failures that may drop a suffix of the sequence.  When synchronous  *)
(* holds (SyncMode::Always) no failure drops an acknowledged record.       *)
(***************************************************************************)
EXTENDS Naturals, Sequences

CONSTANTS
  \* The sequence numbers of records.
  Seqs

VARIABLES
  \* The records of the log, oldest first.
  log,
  \* The records whose append returned Ok and that no failure has dropped.
  acked,
  \* TRUE if append returns only after fsync: a setting that never changes.
  synchronous

vars == <<log, acked, synchronous>>

RangeOf(s) == {s[i] : i \in 1..Len(s)}

Init == log = <<>> /\ acked = {} /\ synchronous \in BOOLEAN

\* A record that is not in the log is added at its end.
Add == \E r \in Seqs \ RangeOf(log) :
         /\ log' = Append(log, r)
         /\ UNCHANGED <<acked, synchronous>>

\* The append of a record returns Ok.
Ack == \E r \in RangeOf(log) \ acked :
         /\ acked' = acked \cup {r}
         /\ UNCHANGED <<log, synchronous>>

\* A failure keeps a prefix of the log, and all that was acknowledged if
\* appends are synchronous.
Lose == \E n \in 0..Len(log) :
          /\ log' = SubSeq(log, 1, n)
          /\ acked' = acked \cap RangeOf(log')
          /\ synchronous => acked' = acked
          /\ UNCHANGED synchronous

Next == Add \/ Ack \/ Lose

Spec == Init /\ [][Next]_vars
===============================================================================
