-------------------------------- MODULE Engine --------------------------------
(***************************************************************************)
(* DatabaseEngine of nova-server (engine.rs) for one collection with one   *)
(* indexable field: concurrent statements, the two RwLocks, the commit     *)
(* log, the secondary index (nova-index) and the event channel.            *)
(*                                                                         *)
(* A document is abstracted to the value of its indexable field, Absent    *)
(* when it has none.  A statement is a record; a filter says which         *)
(* documents it matches, on which ones its evaluation fails, and which     *)
(* index keys the planner would look up for it.  The log is the abstract   *)
(* one of DurableLog under SyncMode::Always: an append is one step.  A     *)
(* record carries the document as JSON, and JSON does not tell all values  *)
(* apart: Reread says as what each one comes back.                         *)
(*                                                                         *)
(* A lock is held by the tasks whose pc is inside its guard's scope.  The  *)
(* code always takes collections before indexes.                           *)
(***************************************************************************)
EXTENDS Naturals, Sequences, FiniteSets

CONSTANTS
  \* Concurrent calls of execute.
  Tasks,
  \* Document ids, values of the indexable field, and the two markers.
  Ids, Values, Absent, NoDoc,
  \* The ids each task may INSERT.
  InsertIds,
  \* The filters and the assignment lists that statements use.
  Filters, Assignments,
  \* What a value is after its way into a payload and back.
  Reread,
  \* TRUE if an append to the log may return an error.
  WalMayFail,
  \* Bounds: statements submitted, restarts.
  MaxStmts, MaxRestarts

Docs == Values \cup {Absent}

\* match: documents the filter holds for; err: documents on which evaluating
\* it returns an error; keys: index keys looked up, {} for a sequential scan.
FilterRecords == [match : SUBSET Docs, err : SUBSET Docs, keys : SUBSET Values]

\* value: the document after the assignments; outcome: whether they all apply,
\* the first one fails, or a later one fails.
AssignmentRecords == [value : Docs, outcome : {"ok", "error", "partial"}]

ASSUME MarkersDistinct == Absent \notin Values /\ NoDoc \notin Docs
ASSUME InsertIdsType == InsertIds \in [Tasks -> SUBSET Ids]
ASSUME FiltersType == Filters \subseteq FilterRecords
\* The keys of a plan are one literal or a range of values.
ASSUME KeysFinite == \A f \in Filters : IsFiniteSet(f.keys)
ASSUME AssignmentsType == Assignments \subseteq AssignmentRecords
\* A String that parses as a UUID comes back as a Uuid, a Float that is not
\* finite as Null, a Timestamp as an Int: values that come back as themselves.
ASSUME RereadStable ==
  /\ Reread \in [Values -> Values]
  /\ \A v \in Values : Reread[Reread[v]] = Reread[v]
ASSUME WalMayFailType == WalMayFail \in BOOLEAN
ASSUME BoundsType == MaxStmts \in Nat /\ MaxRestarts \in Nat

VARIABLES
  \* collections: the documents of the collection.
  store,
  \* indexes: whether the field has an index, and its (value, id) entries.
  indexed, entries,
  \* The commit log, and its length when the engine was opened.
  log, base,
  \* The events sent on the broadcast channel since the engine was opened.
  events,
  \* For each task: where it is, its statement, the documents left to visit,
  \* the index it is building and the events it still has to send.
  pc, req, todo, building, pending,
  \* Statements submitted and restarts so far.
  stmts, restarts,
  \* History: the ids whose document was changed while an INSERT of it had
  \* still to store or to index it.
  raced

shared == <<store, indexed, entries, log, base, events>>
local == <<todo, building, pending>>
counters == <<stmts, restarts>>
vars == <<shared, pc, req, local, counters, raced>>

Statements ==
  [kind : {"insert"}, id : Ids, doc : Docs]
    \cup [kind : {"update"}, filter : Filters, assign : Assignments]
    \cup [kind : {"remove", "find", "count"}, filter : Filters]
    \cup [kind : {"create_index", "drop_index"}]

NoStatement == [kind |-> "none"]

Ops == {"Insert", "Update", "Delete"}
LogRecords == [op : Ops, id : Ids, doc : Docs \cup {NoDoc}]
EventRecords == [seq : Nat, id : Ids]
Event(seq, id) == [seq |-> seq, id |-> id]

Present == {id \in Ids : store[id] # NoDoc}

-----------------------------------------------------------------------------
(* Replay of the log: RecoveryManager::apply_record_to_state.              *)

\* A document, or none, as its payload is read back.
FromPayload(doc) == IF doc \in Values THEN Reread[doc] ELSE doc

Effect(rec) == IF rec.op = "Delete" THEN NoDoc ELSE FromPayload(rec.doc)

\* The position of the last record of id in l, as a set: empty if it has none.
LastRecord(l, id) ==
  {i \in 1..Len(l) : l[i].id = id /\ \A j \in 1..Len(l) : l[j].id = id => j <= i}

\* What replaying l from an empty state leaves under id.
Replayed(l, id) ==
  IF LastRecord(l, id) = {} THEN NoDoc
  ELSE Effect(l[CHOOSE i \in LastRecord(l, id) : TRUE])

-----------------------------------------------------------------------------
(* The index: IndexManager and its HashIndex or OrderedIndex.              *)

\* Mutant: a document without the field is indexed all the same.
EntriesOf_Missing(doc, id) == IF doc = NoDoc THEN {} ELSE {<<doc, id>>}

\* The entries of a document: none when it lacks the field.
EntriesOf(doc, id) == IF doc \in Values THEN {<<doc, id>>} ELSE {}

on_insert(doc, id) == IF indexed THEN entries \cup EntriesOf(doc, id) ELSE entries

\* Mutant: the entry of the new value is not added.
on_update_NoInsert(before, after, id) == entries \ EntriesOf(before, id)

on_update(before, after, id) ==
  IF indexed /\ before # after
  THEN (entries \ EntriesOf(before, id)) \cup EntriesOf(after, id)
  ELSE entries

on_remove(doc, id) == IF indexed THEN entries \ EntriesOf(doc, id) ELSE entries

\* The plan of FIND reads the index: it looks up keys.
UsesIndex(f) == indexed /\ f.keys # {}

\* How often each id is among the candidates of execute_find: once for every
\* key of the plan it stands under, or once if the whole collection is read.
Candidates(f) ==
  [id \in Ids |->
     IF UsesIndex(f) THEN Cardinality({v \in f.keys : <<v, id>> \in entries})
     ELSE IF id \in Present THEN 1 ELSE 0]

\* Mutant: a candidate from the index is not checked against the document.
FindResult_NoRefilter(f) ==
  [id \in Ids |-> IF id \in Present THEN Candidates(f)[id] ELSE 0]

\* How often it returns each id: the candidates that exist and match, each as
\* often as the index gave it.
FindResult(f) ==
  [id \in Ids |->
     IF id \in Present /\ store[id] \in f.match THEN Candidates(f)[id] ELSE 0]

-----------------------------------------------------------------------------
(* The guards of the two RwLocks.                                          *)

CollWriters == {t \in Tasks : pc[t] \in {"dml_index", "dml_scan"}}
CollReaders == {t \in Tasks : pc[t] \in {"find_index", "ci_index", "ci_scan"}}
IdxWriters == {t \in Tasks : pc[t] \in {"dml_scan", "ci_scan"}}

CollReadable == CollWriters = {}

CollWritable == CollWriters = {} /\ CollReaders = {}

\* Mutant: one lock for both maps, so that its readers wait for themselves.
IdxFree_OneLock == IdxWriters = {} /\ CollReaders = {}

IdxFree == IdxWriters = {}

-----------------------------------------------------------------------------
Init ==
  /\ store = [id \in Ids |-> NoDoc]
  /\ indexed = FALSE /\ entries = {}
  /\ log = <<>> /\ base = 0
  /\ events = <<>>
  /\ pc = [t \in Tasks |-> "idle"]
  /\ req = [t \in Tasks |-> NoStatement]
  /\ todo = [t \in Tasks |-> {}]
  /\ building = [t \in Tasks |-> {}]
  /\ pending = [t \in Tasks |-> <<>>]
  /\ stmts = 0 /\ restarts = 0
  /\ raced = {}

Goto(t, loc) == pc' = [pc EXCEPT ![t] = loc]

\* t's statement ends, whatever it still had to visit or to send.
Return(t) ==
  /\ Goto(t, "idle")
  /\ req' = [req EXCEPT ![t] = NoStatement]
  /\ todo' = [todo EXCEPT ![t] = {}]
  /\ building' = [building EXCEPT ![t] = {}]
  /\ pending' = [pending EXCEPT ![t] = <<>>]

Record(op, id, doc) == [op |-> op, id |-> id, doc |-> doc]

\* WriteAheadLog::append, with the event the caller will send for the record.
LogAppend(t, op, id, doc) ==
  /\ log' = Append(log, Record(op, id, doc))
  /\ pending' = [pending EXCEPT ![t] = Append(@, Event(Len(log) + 1, id))]

\* An append that returns an error.  The record may be in the log all the same:
\* it stays in the file or in the writer's buffer if the flush or the fsync
\* fails, and a later append or the end of the process brings it to the file.
LogFails(op, id, doc) ==
  /\ WalMayFail
  /\ log' \in {log, Append(log, Record(op, id, doc))}

\* A connection hands a parsed statement to execute.
Submit(t) ==
  /\ pc[t] = "idle" /\ stmts < MaxStmts
  /\ \E s \in Statements :
       /\ s.kind = "insert" => s.id \in InsertIds[t]
       /\ req' = [req EXCEPT ![t] = s]
  /\ Goto(t, "start")
  /\ stmts' = stmts + 1
  /\ UNCHANGED <<shared, local, restarts, raced>>

-----------------------------------------------------------------------------
(* execute_insert: the uniqueness check, the log, the collection, the      *)
(* index and the event are five steps, with no lock held between them.     *)

\* Mutant: the uniqueness of the id is not checked.
InsertCheck_Unchecked(t) ==
  /\ pc[t] = "start" /\ req[t].kind = "insert"
  /\ Goto(t, "ins_wal")
  /\ UNCHANGED <<shared, req, local, counters>>

InsertCheck(t) ==
  /\ pc[t] = "start" /\ req[t].kind = "insert"
  /\ CollReadable
  /\ IF store[req[t].id] # NoDoc
     THEN Return(t)
     ELSE Goto(t, "ins_wal") /\ UNCHANGED <<req, local>>
  /\ UNCHANGED <<shared, counters>>

InsertLog(t) ==
  /\ pc[t] = "ins_wal"
  /\ LogAppend(t, "Insert", req[t].id, req[t].doc)
  /\ Goto(t, "ins_store")
  /\ UNCHANGED <<store, indexed, entries, base, events, req, todo, building, counters>>

\* Mutant: the error of append is ignored.
InsertLogFails_Ignored(t) ==
  /\ pc[t] = "ins_wal" /\ WalMayFail
  /\ Goto(t, "ins_store")
  /\ UNCHANGED <<shared, req, local, counters>>

InsertLogFails(t) ==
  /\ pc[t] = "ins_wal"
  /\ LogFails("Insert", req[t].id, req[t].doc)
  /\ Return(t)
  /\ UNCHANGED <<store, indexed, entries, base, events, counters>>

InsertStore(t) ==
  /\ pc[t] = "ins_store" /\ CollWritable
  /\ store' = [store EXCEPT ![req[t].id] = req[t].doc]
  /\ Goto(t, "ins_index")
  /\ UNCHANGED <<indexed, entries, log, base, events, req, local, counters>>

InsertIndex(t) ==
  /\ pc[t] = "ins_index" /\ IdxFree
  /\ entries' = on_insert(req[t].doc, req[t].id)
  /\ Goto(t, "emit")
  /\ UNCHANGED <<store, indexed, log, base, events, req, local, counters>>

-----------------------------------------------------------------------------
(* execute_update and execute_remove hold both write locks over their      *)
(* loop; an error inside the loop returns at once.                         *)

IsDml(t) == req[t].kind \in {"update", "remove"}

DmlLockCollections(t) ==
  /\ pc[t] = "start" /\ IsDml(t) /\ CollWritable
  /\ Goto(t, "dml_index")
  /\ UNCHANGED <<shared, req, local, counters>>

\* The loop visits every document; execute_remove lists its targets first and
\* takes an evaluation error for no match.
DmlLockIndexes(t) ==
  LET f == req[t].filter
  IN  /\ pc[t] = "dml_index" /\ IdxFree
      /\ todo' = [todo EXCEPT ![t] =
                    IF req[t].kind = "update" THEN Present
                    ELSE {id \in Present : store[id] \in f.match \ f.err}]
      /\ Goto(t, "dml_scan")
      /\ UNCHANGED <<shared, req, building, pending, counters>>

Visit(t, id) == todo' = [todo EXCEPT ![t] = @ \ {id}]

\* The document is skipped.
UpdateSkip(t) ==
  /\ pc[t] = "dml_scan" /\ req[t].kind = "update"
  /\ \E id \in todo[t] :
       /\ store[id] \notin req[t].filter.match \cup req[t].filter.err
       /\ Visit(t, id)
  /\ UNCHANGED <<shared, pc, req, building, pending, counters>>

UpdateTarget(t, id) ==
  /\ id \in todo[t]
  /\ store[id] \in req[t].filter.match \ req[t].filter.err

\* The document is changed in place, logged and reindexed.
UpdateDoc(t) ==
  LET after == req[t].assign.value
  IN  /\ pc[t] = "dml_scan" /\ req[t].kind = "update"
      /\ req[t].assign.outcome = "ok"
      /\ \E id \in Ids :
           /\ UpdateTarget(t, id)
           /\ store' = [store EXCEPT ![id] = after]
           /\ LogAppend(t, "Update", id, after)
           /\ entries' = on_update(store[id], after, id)
           /\ Visit(t, id)
      /\ UNCHANGED <<indexed, base, events, pc, req, building, counters>>

\* The filter, the assignments or the log return an error.  Assignments made
\* before the error stay in the document, and so do all of them when the log
\* fails.
UpdateFails(t) ==
  /\ pc[t] = "dml_scan" /\ req[t].kind = "update"
  /\ \/ /\ \E id \in todo[t] : store[id] \in req[t].filter.err
        /\ UNCHANGED <<store, log>>
     \/ /\ req[t].assign.outcome = "error"
        /\ \E id \in Ids : UpdateTarget(t, id)
        /\ UNCHANGED <<store, log>>
     \/ \E id \in Ids :
          /\ UpdateTarget(t, id)
          /\ store' = [store EXCEPT ![id] = req[t].assign.value]
          /\ \/ req[t].assign.outcome = "partial" /\ UNCHANGED log
             \/ /\ req[t].assign.outcome = "ok"
                /\ LogFails("Update", id, req[t].assign.value)
  /\ Return(t)
  /\ UNCHANGED <<indexed, entries, base, events, counters>>

RemoveDoc(t) ==
  /\ pc[t] = "dml_scan" /\ req[t].kind = "remove"
  /\ \E id \in todo[t] :
       /\ store' = [store EXCEPT ![id] = NoDoc]
       /\ LogAppend(t, "Delete", id, NoDoc)
       /\ entries' = on_remove(store[id], id)
       /\ Visit(t, id)
  /\ UNCHANGED <<indexed, base, events, pc, req, building, counters>>

\* The document is gone from the collection when the log fails.
RemoveFails(t) ==
  /\ pc[t] = "dml_scan" /\ req[t].kind = "remove"
  /\ \E id \in todo[t] :
       /\ store' = [store EXCEPT ![id] = NoDoc]
       /\ LogFails("Delete", id, NoDoc)
  /\ Return(t)
  /\ UNCHANGED <<indexed, entries, base, events, counters>>

\* The loop is over and both guards are dropped.
DmlUnlock(t) ==
  /\ pc[t] = "dml_scan" /\ todo[t] = {}
  /\ Goto(t, "emit")
  /\ UNCHANGED <<shared, req, local, counters>>

\* Mutant: the event stays in the list after it has been sent.
Emit_Resends(t) ==
  /\ pc[t] = "emit" /\ pending[t] # <<>>
  /\ events' = Append(events, Head(pending[t]))
  /\ UNCHANGED <<store, indexed, entries, log, base, pc, req, local, counters>>

\* emit_event, outside every lock.
Emit(t) ==
  /\ pc[t] = "emit" /\ pending[t] # <<>>
  /\ events' = Append(events, Head(pending[t]))
  /\ pending' = [pending EXCEPT ![t] = Tail(@)]
  /\ UNCHANGED <<store, indexed, entries, log, base, pc, req, todo, building, counters>>

\* The response of INSERT, UPDATE or REMOVE.
Respond(t) ==
  /\ pc[t] = "emit" /\ pending[t] = <<>>
  /\ Return(t)
  /\ UNCHANGED <<shared, counters>>

-----------------------------------------------------------------------------
(* The readers and the index statements.                                   *)

FindLockCollections(t) ==
  /\ pc[t] = "start" /\ req[t].kind = "find" /\ CollReadable
  /\ Goto(t, "find_index")
  /\ UNCHANGED <<shared, req, local, counters>>

\* Under both read locks: FindResult(req[t].filter) is returned.
FindRun(t) ==
  /\ pc[t] = "find_index" /\ IdxFree
  /\ Return(t)
  /\ UNCHANGED <<shared, counters>>

\* COUNT and EXISTS read the collection only.
Count(t) ==
  /\ pc[t] = "start" /\ req[t].kind = "count" /\ CollReadable
  /\ Return(t)
  /\ UNCHANGED <<shared, counters>>

CreateIndexLockCollections(t) ==
  /\ pc[t] = "start" /\ req[t].kind = "create_index" /\ CollReadable
  /\ Goto(t, "ci_index")
  /\ UNCHANGED <<shared, req, local, counters>>

CreateIndexLockIndexes(t) ==
  /\ pc[t] = "ci_index" /\ IdxFree
  /\ todo' = [todo EXCEPT ![t] = Present]
  /\ Goto(t, "ci_scan")
  /\ UNCHANGED <<shared, req, building, pending, counters>>

CreateIndexDoc(t) ==
  /\ pc[t] = "ci_scan"
  /\ \E id \in todo[t] :
       /\ building' = [building EXCEPT ![t] = @ \cup EntriesOf(store[id], id)]
       /\ Visit(t, id)
  /\ UNCHANGED <<shared, pc, req, pending, counters>>

\* add_index replaces an index of the same name.
CreateIndexInstall(t) ==
  /\ pc[t] = "ci_scan" /\ todo[t] = {}
  /\ indexed' = TRUE
  /\ entries' = building[t]
  /\ Return(t)
  /\ UNCHANGED <<store, log, base, events, counters>>

DropIndex(t) ==
  /\ pc[t] = "start" /\ req[t].kind = "drop_index" /\ IdxFree
  /\ indexed' = FALSE
  /\ entries' = {}
  /\ Return(t)
  /\ UNCHANGED <<store, log, base, events, counters>>

-----------------------------------------------------------------------------
\* The process dies and DatabaseEngine::open runs on its log: the collection
\* is replayed, the IndexManager is new and empty, and so is the channel.
Restart ==
  /\ restarts < MaxRestarts
  /\ restarts' = restarts + 1
  /\ store' = [id \in Ids |-> Replayed(log, id)]
  /\ indexed' = FALSE /\ entries' = {}
  /\ base' = Len(log)
  /\ events' = <<>>
  /\ pc' = [t \in Tasks |-> "idle"]
  /\ req' = [t \in Tasks |-> NoStatement]
  /\ todo' = [t \in Tasks |-> {}]
  /\ building' = [t \in Tasks |-> {}]
  /\ pending' = [t \in Tasks |-> <<>>]
  /\ raced' = {}
  /\ UNCHANGED <<log, stmts>>

\* A step of the handler that t is in.
HandlerStep(t) ==
  \/ InsertCheck(t) \/ InsertLog(t) \/ InsertLogFails(t)
  \/ InsertStore(t) \/ InsertIndex(t)
  \/ DmlLockCollections(t) \/ DmlLockIndexes(t)
  \/ UpdateSkip(t) \/ UpdateDoc(t) \/ UpdateFails(t)
  \/ RemoveDoc(t) \/ RemoveFails(t) \/ DmlUnlock(t)
  \/ Emit(t) \/ Respond(t)
  \/ FindLockCollections(t) \/ FindRun(t) \/ Count(t)
  \/ CreateIndexLockCollections(t) \/ CreateIndexLockIndexes(t)
  \/ CreateIndexDoc(t) \/ CreateIndexInstall(t) \/ DropIndex(t)

\* The documents a step changes although an INSERT of them is under way.
Overtaken ==
  {id \in Present :
     /\ store'[id] # store[id]
     /\ \E t \in Tasks : pc[t] \in {"ins_store", "ins_index"} /\ req[t].id = id}

Step(t) == HandlerStep(t) /\ raced' = raced \cup Overtaken

Next == Restart \/ \E t \in Tasks : Submit(t) \/ Step(t)

Spec == Init /\ [][Next]_vars

\* A task in a handler is scheduled, and the RwLocks of tokio are fair: a
\* waiting task is served in its turn.
FairSpec == Spec /\ \A t \in Tasks : SF_vars(Step(t))

-----------------------------------------------------------------------------
(* Properties.                                                             *)

Locations ==
  {"idle", "start", "ins_wal", "ins_store", "ins_index", "dml_index",
   "dml_scan", "emit", "find_index", "ci_index", "ci_scan"}

\* The values the variables may have: only values of the field are index keys,
\* only documents of the collection are visited, indexed and announced.
TypeOK ==
  /\ store \in [Ids -> Docs \cup {NoDoc}]
  /\ indexed \in BOOLEAN
  /\ entries \subseteq Values \X Ids
  /\ log \in Seq(LogRecords)
  /\ base \in Nat
  /\ events \in Seq(EventRecords)
  /\ pc \in [Tasks -> Locations]
  /\ req \in [Tasks -> Statements \cup {NoStatement}]
  /\ todo \in [Tasks -> SUBSET Ids]
  /\ building \in [Tasks -> SUBSET (Values \X Ids)]
  /\ pending \in [Tasks -> Seq(EventRecords)]
  /\ stmts \in Nat /\ restarts \in Nat
  /\ raced \subseteq Ids

\* A record of id is in the log and its document not yet in the collection.
Inserting(id) == \E t \in Tasks : pc[t] = "ins_store" /\ req[t].id = id

\* Replaying the log would rebuild every document of the collection as its
\* payload reads back, and no other, but for documents whose INSERT is between
\* the two: no interleaving of the handlers, which log and apply under different
\* locks, makes a restart do more to what readers saw than the JSON of the
\* payload does.  A document comes back unchanged if and only if Reread leaves
\* its value alone.
MemoryMatchesLog ==
  \A id \in Ids : Inserting(id) \/ FromPayload(store[id]) = Replayed(log, id)

\* The entry of id is missing but an INSERT is about to add exactly it.
Indexing(id) ==
  \E t \in Tasks : pc[t] = "ins_index" /\ req[t].id = id /\ req[t].doc = store[id]

\* Every document of the collection has its entry in the index, however INSERT,
\* UPDATE, REMOVE and CREATE INDEX interleave, or is about to get it.
IndexComplete ==
  indexed => \A id \in Ids : Indexing(id) \/ EntriesOf(store[id], id) \subseteq entries

\* FIND should return id: a scan of the collection would and, if the index is
\* read, the document's value is a key of the plan.  A filter such as `== null`
\* or `<` also holds for documents without the field; the index has none of them.
Owed(f, id) ==
  /\ id \in Present /\ store[id] \in f.match
  /\ UsesIndex(f) => store[id] \in f.keys

\* FIND, unless the filter fails on a document, returns what it owes and nothing
\* else, each document once, but for documents whose INSERT has not been
\* answered.  An INSERT that another statement overtook leaves a stale entry
\* behind, and only then may FIND return a document once too often, never one
\* that does not match.
FindExact ==
  \A f \in Filters : \A id \in Ids :
    LET times == FindResult(f)[id]
        owed == IF Owed(f, id) THEN 1 ELSE 0
    IN  \/ Indexing(id)
        \/ times = owed
        \/ /\ times > owed /\ id \in raced
           /\ id \in Present /\ store[id] \in f.match

\* Every record logged since the engine was opened has one event, sent or
\* still to be sent by the task that logged it: none is lost, none is doubled.
EventsOnce ==
  \A k \in (base + 1)..Len(log) :
    Cardinality({i \in 1..Len(events) : events[i].seq = k})
      + Cardinality({p \in Tasks \X (1..Len(log)) :
                       /\ p[2] <= Len(pending[p[1]])
                       /\ pending[p[1]][p[2]].seq = k}) = 1

\* A document readers can see is in the log: whatever fails, a restart brings
\* back every document of the collection, in this or another version, although
\* appends fail with and without leaving their record behind.
NoPhantomDocuments == \A id \in Present : Replayed(log, id) # NoDoc

\* No event without its record, no record with two events, whatever fails.
EventsAtMostOnce ==
  \A i \in 1..Len(events) :
    /\ events[i].seq \in (base + 1)..Len(log)
    /\ log[events[i].seq].id = events[i].id
    /\ \A j \in 1..Len(events) : events[j].seq = events[i].seq => i = j

\* Every statement is answered: no two handlers wait for each other's locks.
StatementsAnswered == \A t \in Tasks : pc[t] = "start" ~> pc[t] = "idle"
===============================================================================
