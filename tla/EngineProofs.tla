----------------------------- MODULE EngineProofs -----------------------------
(***************************************************************************)
(* Theorems about Engine, for every set of tasks, ids, values, filters and *)
(* assignments.                                                            *)
(***************************************************************************)
EXTENDS Engine, SequenceLemmas, FiniteSetTheorems, TLAPS

-----------------------------------------------------------------------------
(* Type correctness.                                                       *)

\* Where a task is says which statement it executes, and it inserts only the
\* ids it was given.
Placed ==
  \A t \in Tasks :
    /\ pc[t] \in {"ins_wal", "ins_store", "ins_index"} => req[t].kind = "insert"
    /\ pc[t] \in {"dml_index", "dml_scan"} => req[t].kind \in {"update", "remove"}
    /\ req[t].kind = "insert" => req[t].id \in InsertIds[t]

TypeInv == TypeOK /\ Placed

\* The fields of a statement are those of its kind.
LEMMA StatementFields ==
  ASSUME NEW s \in Statements \cup {NoStatement}
  PROVE  /\ s.kind = "insert" => s.id \in Ids /\ s.doc \in Docs
         /\ s.kind = "update" => s.filter \in Filters /\ s.assign \in Assignments
         /\ s.kind = "remove" => s.filter \in Filters
BY DEF Statements, NoStatement

\* The fields of a filter and of an assignment list.
LEMMA FilterFields ==
  ASSUME NEW f \in Filters
  PROVE  f.match \subseteq Docs /\ f.err \subseteq Docs /\ f.keys \subseteq Values
BY FiltersType DEF FilterRecords

LEMMA AssignmentFields ==
  ASSUME NEW a \in Assignments
  PROVE  a.value \in Docs /\ a.outcome \in {"ok", "error", "partial"}
BY AssignmentsType DEF AssignmentRecords

\* A document is read back as a document, no document as none, and what has been
\* read back once stays as it is.
LEMMA FromPayloadType ==
  ASSUME NEW doc \in Docs \cup {NoDoc}
  PROVE  /\ FromPayload(doc) \in Docs \cup {NoDoc}
         /\ FromPayload(doc) = NoDoc <=> doc = NoDoc
         /\ FromPayload(FromPayload(doc)) = FromPayload(doc)
BY MarkersDistinct, RereadStable DEF FromPayload, Docs

\* Replaying a well-typed log gives a document or none.
LEMMA ReplayedType ==
  ASSUME NEW l \in Seq(LogRecords), NEW id \in Ids
  PROVE  Replayed(l, id) \in Docs \cup {NoDoc}
<1>1. CASE LastRecord(l, id) = {}
  BY <1>1 DEF Replayed
<1>2. CASE LastRecord(l, id) # {}
  <2> DEFINE i == CHOOSE i \in LastRecord(l, id) : TRUE
  <2>1. i \in 1..Len(l)
    BY <1>2 DEF LastRecord
  <2>2. l[i] \in LogRecords
    BY <2>1
  <2>3. Effect(l[i]) \in Docs \cup {NoDoc}
    BY <2>2, FromPayloadType DEF Effect, LogRecords
  <2> QED BY <1>2, <2>3 DEF Replayed
<1> QED BY <1>1, <1>2

\* What replay leaves has been read back.
LEMMA ReplayedRead ==
  ASSUME NEW l \in Seq(LogRecords), NEW id \in Ids
  PROVE  FromPayload(Replayed(l, id)) = Replayed(l, id)
<1>1. FromPayload(NoDoc) = NoDoc
  BY FromPayloadType
<1>2. CASE LastRecord(l, id) = {}
  BY <1>1, <1>2 DEF Replayed
<1>3. CASE LastRecord(l, id) # {}
  <2> DEFINE i == CHOOSE i \in LastRecord(l, id) : TRUE
  <2>1. i \in 1..Len(l)
    BY <1>3 DEF LastRecord
  <2>2. l[i] \in LogRecords
    BY <2>1
  <2>3. FromPayload(Effect(l[i])) = Effect(l[i])
    BY <1>1, <2>2, FromPayloadType DEF Effect, LogRecords
  <2> QED BY <1>3, <2>3 DEF Replayed
<1> QED BY <1>2, <1>3

\* The entries of a document are well typed.
LEMMA EntriesOfType ==
  ASSUME NEW doc, NEW id \in Ids
  PROVE  EntriesOf(doc, id) \subseteq Values \X Ids
BY DEF EntriesOf

\* A returning task keeps its local variables well typed.
LEMMA ReturnType ==
  ASSUME TypeOK, NEW t \in Tasks, Return(t)
  PROVE  /\ pc' \in [Tasks -> Locations]
         /\ req' \in [Tasks -> Statements \cup {NoStatement}]
         /\ todo' \in [Tasks -> SUBSET Ids]
         /\ building' \in [Tasks -> SUBSET (Values \X Ids)]
         /\ pending' \in [Tasks -> Seq(EventRecords)]
<1>1. pc' \in [Tasks -> Locations]
  BY DEF TypeOK, Return, Goto, Locations
<1>2. req' \in [Tasks -> Statements \cup {NoStatement}]
  BY DEF TypeOK, Return
<1>3. todo' \in [Tasks -> SUBSET Ids]
  BY DEF TypeOK, Return
<1>4. building' \in [Tasks -> SUBSET (Values \X Ids)]
  BY DEF TypeOK, Return
<1>5. pending' \in [Tasks -> Seq(EventRecords)]
  <2>1. <<>> \in Seq(EventRecords)
    OBVIOUS
  <2> QED BY <2>1 DEF TypeOK, Return
<1> QED BY <1>1, <1>2, <1>3, <1>4, <1>5

\* An append keeps the log and the pending events well typed.
LEMMA LogAppendType ==
  ASSUME TypeOK, NEW t \in Tasks, NEW op \in Ops, NEW id \in Ids,
         NEW doc \in Docs \cup {NoDoc}, LogAppend(t, op, id, doc)
  PROVE  /\ log' \in Seq(LogRecords)
         /\ pending' \in [Tasks -> Seq(EventRecords)]
<1>1. Record(op, id, doc) \in LogRecords
  BY DEF LogRecords, Record
<1>2. log' \in Seq(LogRecords)
  BY <1>1 DEF LogAppend, TypeOK
<1>3. Event(Len(log) + 1, id) \in EventRecords
  BY DEF Event, EventRecords, TypeOK
<1>4. pending' \in [Tasks -> Seq(EventRecords)]
  <2>1. pending[t] \in Seq(EventRecords)
    BY DEF TypeOK
  <2>2. Append(pending[t], Event(Len(log) + 1, id)) \in Seq(EventRecords)
    BY <2>1, <1>3
  <2> QED BY <2>2 DEF LogAppend, TypeOK
<1> QED BY <1>2, <1>4

\* So does one that fails.
LEMMA LogFailsType ==
  ASSUME TypeOK, NEW op \in Ops, NEW id \in Ids,
         NEW doc \in Docs \cup {NoDoc}, LogFails(op, id, doc)
  PROVE  log' \in Seq(LogRecords)
<1>1. Record(op, id, doc) \in LogRecords
  BY DEF LogRecords, Record
<1>2. Append(log, Record(op, id, doc)) \in Seq(LogRecords)
  BY <1>1 DEF TypeOK
<1> QED BY <1>2 DEF LogFails, TypeOK

\* The type invariant but for the history variable.
StateOK ==
  /\ store \in [Ids -> Docs \cup {NoDoc}]
  /\ indexed \in BOOLEAN
  /\ entries \subseteq Values \X Ids
  /\ log \in Seq(LogRecords)
  /\ base \in Nat
  /\ events \in Seq(EventRecords)
  /\ pc \in [Tasks -> Locations]
  /\ req \in [Tasks -> Statements \cup {NoStatement}]
  /\ todo \in [Tasks -> SUBSET Ids]
  /\ building \in [Tasks -> SUBSET (Values \X Ids)]
  /\ pending \in [Tasks -> Seq(EventRecords)]
  /\ stmts \in Nat /\ restarts \in Nat

\* The initial state is well typed.
LEMMA TypeInit == Init => TypeInv
<1> SUFFICES ASSUME Init PROVE TypeInv
  OBVIOUS
<1>1. log \in Seq(LogRecords) /\ events \in Seq(EventRecords)
  BY DEF Init
<1>2. pending \in [Tasks -> Seq(EventRecords)]
  <2>1. <<>> \in Seq(EventRecords)
    OBVIOUS
  <2> QED BY <2>1 DEF Init
<1>3. building \in [Tasks -> SUBSET (Values \X Ids)]
  BY DEF Init
<1>4. TypeOK
  BY <1>1, <1>2, <1>3 DEF Init, TypeOK, Locations
<1>5. Placed
  BY DEF Init, Placed, NoStatement
<1> QED BY <1>4, <1>5 DEF TypeInv

\* Every step keeps the state well typed.
LEMMA TypeStep == TypeInv /\ [Next]_vars => TypeOK'
<1> SUFFICES ASSUME TypeOK, Placed, [Next]_vars PROVE TypeOK'
  BY DEF TypeInv
<1> USE DEF TypeOK, StateOK, shared, local, counters
<1>1. ASSUME NEW t \in Tasks, Submit(t) PROVE StateOK'
  BY <1>1 DEF Submit, Goto, Locations
<1>2. ASSUME NEW t \in Tasks, InsertCheck(t) PROVE StateOK'
  <2>1. CASE store[req[t].id] # NoDoc
    BY <1>2, <2>1, ReturnType DEF InsertCheck
  <2>2. CASE store[req[t].id] = NoDoc
    BY <1>2, <2>2 DEF InsertCheck, Goto, Locations
  <2> QED BY <2>1, <2>2
<1>3. ASSUME NEW t \in Tasks, InsertLog(t) PROVE StateOK'
  <2>1. req[t].id \in Ids /\ req[t].doc \in Docs
    BY <1>3, StatementFields DEF InsertLog, Placed
  <2>2. log' \in Seq(LogRecords) /\ pending' \in [Tasks -> Seq(EventRecords)]
    BY <1>3, <2>1, LogAppendType DEF InsertLog, Ops
  <2> QED BY <1>3, <2>2 DEF InsertLog, Goto, Locations
<1>4. ASSUME NEW t \in Tasks, InsertLogFails(t) PROVE StateOK'
  <2>1. req[t].id \in Ids /\ req[t].doc \in Docs
    BY <1>4, StatementFields DEF InsertLogFails, Placed
  <2>2. log' \in Seq(LogRecords)
    BY <1>4, <2>1, LogFailsType DEF InsertLogFails, Ops
  <2> QED BY <1>4, <2>2, ReturnType DEF InsertLogFails
<1>5. ASSUME NEW t \in Tasks, InsertStore(t) PROVE StateOK'
  <2>1. req[t].id \in Ids /\ req[t].doc \in Docs
    BY <1>5, StatementFields DEF InsertStore, Placed
  <2> QED BY <1>5, <2>1 DEF InsertStore, Goto, Locations
<1>6. ASSUME NEW t \in Tasks, InsertIndex(t) PROVE StateOK'
  <2>1. req[t].id \in Ids /\ req[t].doc \in Docs
    BY <1>6, StatementFields DEF InsertIndex, Placed
  <2>2. entries' \subseteq Values \X Ids
    BY <1>6, <2>1, EntriesOfType DEF InsertIndex, on_insert
  <2> QED BY <1>6, <2>2 DEF InsertIndex, Goto, Locations
<1>7. ASSUME NEW t \in Tasks, DmlLockCollections(t) PROVE StateOK'
  BY <1>7 DEF DmlLockCollections, Goto, Locations
<1>8. ASSUME NEW t \in Tasks, DmlLockIndexes(t) PROVE StateOK'
  <2>1. todo' \in [Tasks -> SUBSET Ids]
    BY <1>8 DEF DmlLockIndexes, Present
  <2> QED BY <1>8, <2>1 DEF DmlLockIndexes, Goto, Locations
<1>9. ASSUME NEW t \in Tasks, UpdateSkip(t) PROVE StateOK'
  BY <1>9 DEF UpdateSkip, Visit
<1>10. ASSUME NEW t \in Tasks, UpdateDoc(t) PROVE StateOK'
  <2>1. req[t].assign.value \in Docs
    BY <1>10, StatementFields, AssignmentFields DEF UpdateDoc
  <2>2. PICK id \in Ids :
          /\ store' = [store EXCEPT ![id] = req[t].assign.value]
          /\ LogAppend(t, "Update", id, req[t].assign.value)
          /\ entries' = on_update(store[id], req[t].assign.value, id)
          /\ Visit(t, id)
    BY <1>10 DEF UpdateDoc
  <2>3. log' \in Seq(LogRecords) /\ pending' \in [Tasks -> Seq(EventRecords)]
    BY <2>1, <2>2, LogAppendType DEF Ops
  <2>4. entries' \subseteq Values \X Ids
    BY <2>2, EntriesOfType DEF on_update
  <2>5. todo' \in [Tasks -> SUBSET Ids] /\ store' \in [Ids -> Docs \cup {NoDoc}]
    BY <2>1, <2>2 DEF Visit
  <2> QED BY <1>10, <2>3, <2>4, <2>5 DEF UpdateDoc
<1>11. ASSUME NEW t \in Tasks, UpdateFails(t) PROVE StateOK'
  <2>1. req[t].assign.value \in Docs
    BY <1>11, StatementFields, AssignmentFields DEF UpdateFails
  <2>2. store' \in [Ids -> Docs \cup {NoDoc}]
    BY <1>11, <2>1 DEF UpdateFails
  <2>3. log' \in Seq(LogRecords)
    BY <1>11, <2>1, LogFailsType DEF UpdateFails, Ops
  <2> QED BY <1>11, <2>2, <2>3, ReturnType DEF UpdateFails
<1>12. ASSUME NEW t \in Tasks, RemoveDoc(t) PROVE StateOK'
  <2>1. PICK id \in todo[t] :
          /\ store' = [store EXCEPT ![id] = NoDoc]
          /\ LogAppend(t, "Delete", id, NoDoc)
          /\ entries' = on_remove(store[id], id)
          /\ Visit(t, id)
    BY <1>12 DEF RemoveDoc
  <2>2. id \in Ids
    OBVIOUS
  <2>3. log' \in Seq(LogRecords) /\ pending' \in [Tasks -> Seq(EventRecords)]
    BY <2>1, <2>2, LogAppendType DEF Ops
  <2>4. entries' \subseteq Values \X Ids
    BY <2>1, <2>2 DEF on_remove
  <2>5. todo' \in [Tasks -> SUBSET Ids] /\ store' \in [Ids -> Docs \cup {NoDoc}]
    BY <2>1, <2>2 DEF Visit
  <2> QED BY <1>12, <2>3, <2>4, <2>5 DEF RemoveDoc
<1>13. ASSUME NEW t \in Tasks, RemoveFails(t) PROVE StateOK'
  <2>1. store' \in [Ids -> Docs \cup {NoDoc}]
    BY <1>13 DEF RemoveFails
  <2>2. log' \in Seq(LogRecords)
    <3>1. PICK id \in todo[t] : LogFails("Delete", id, NoDoc)
      BY <1>13 DEF RemoveFails
    <3> QED BY <3>1, LogFailsType DEF Ops
  <2> QED BY <1>13, <2>1, <2>2, ReturnType DEF RemoveFails
<1>14. ASSUME NEW t \in Tasks, DmlUnlock(t) PROVE StateOK'
  BY <1>14 DEF DmlUnlock, Goto, Locations
<1>15. ASSUME NEW t \in Tasks, Emit(t) PROVE StateOK'
  <2>1. pending[t] \in Seq(EventRecords) /\ pending[t] # <<>>
    BY <1>15 DEF Emit
  <2>2. Head(pending[t]) \in EventRecords /\ Tail(pending[t]) \in Seq(EventRecords)
    BY <2>1
  <2>3. events' \in Seq(EventRecords)
    BY <1>15, <2>2 DEF Emit
  <2>4. pending' \in [Tasks -> Seq(EventRecords)]
    BY <1>15, <2>2 DEF Emit
  <2> QED BY <1>15, <2>3, <2>4 DEF Emit
<1>16. ASSUME NEW t \in Tasks, Respond(t) PROVE StateOK'
  BY <1>16, ReturnType DEF Respond
<1>17. ASSUME NEW t \in Tasks, FindLockCollections(t) PROVE StateOK'
  BY <1>17 DEF FindLockCollections, Goto, Locations
<1>18. ASSUME NEW t \in Tasks, FindRun(t) PROVE StateOK'
  BY <1>18, ReturnType DEF FindRun
<1>19. ASSUME NEW t \in Tasks, Count(t) PROVE StateOK'
  BY <1>19, ReturnType DEF Count
<1>20. ASSUME NEW t \in Tasks, CreateIndexLockCollections(t) PROVE StateOK'
  BY <1>20 DEF CreateIndexLockCollections, Goto, Locations
<1>21. ASSUME NEW t \in Tasks, CreateIndexLockIndexes(t) PROVE StateOK'
  <2>1. todo' \in [Tasks -> SUBSET Ids]
    BY <1>21 DEF CreateIndexLockIndexes, Present
  <2> QED BY <1>21, <2>1 DEF CreateIndexLockIndexes, Goto, Locations
<1>22. ASSUME NEW t \in Tasks, CreateIndexDoc(t) PROVE StateOK'
  <2>1. PICK id \in todo[t] :
          /\ building' = [building EXCEPT ![t] = @ \cup EntriesOf(store[id], id)]
          /\ Visit(t, id)
    BY <1>22 DEF CreateIndexDoc
  <2>2. EntriesOf(store[id], id) \subseteq Values \X Ids
    BY EntriesOfType
  <2>3. building' \in [Tasks -> SUBSET (Values \X Ids)]
    BY <2>1, <2>2
  <2>4. todo' \in [Tasks -> SUBSET Ids]
    BY <2>1 DEF Visit
  <2> QED BY <1>22, <2>3, <2>4 DEF CreateIndexDoc
<1>23. ASSUME NEW t \in Tasks, CreateIndexInstall(t) PROVE StateOK'
  <2>1. entries' \subseteq Values \X Ids /\ indexed' \in BOOLEAN
    BY <1>23 DEF CreateIndexInstall
  <2> QED BY <1>23, <2>1, ReturnType DEF CreateIndexInstall
<1>24. ASSUME NEW t \in Tasks, DropIndex(t) PROVE StateOK'
  BY <1>24, ReturnType DEF DropIndex
<1>25. ASSUME Restart PROVE StateOK'
  <2>1. store' \in [Ids -> Docs \cup {NoDoc}]
    BY <1>25, ReplayedType DEF Restart
  <2>2. pending' \in [Tasks -> Seq(EventRecords)] /\ events' \in Seq(EventRecords)
    <3>1. <<>> \in Seq(EventRecords)
      OBVIOUS
    <3> QED BY <1>25, <3>1 DEF Restart
  <2>3. building' \in [Tasks -> SUBSET (Values \X Ids)] /\ entries' \subseteq Values \X Ids
    BY <1>25 DEF Restart
  <2>4. base' \in Nat /\ log' \in Seq(LogRecords)
    BY <1>25 DEF Restart
  <2>5. /\ pc' \in [Tasks -> Locations]
        /\ req' \in [Tasks -> Statements \cup {NoStatement}]
        /\ todo' \in [Tasks -> SUBSET Ids]
    BY <1>25 DEF Restart, Locations
  <2>6. indexed' \in BOOLEAN
    BY <1>25, Zenon DEF Restart
  <2>7. stmts' \in Nat /\ restarts' \in Nat
    BY <1>25 DEF Restart
  <2> QED BY <2>1, <2>2, <2>3, <2>4, <2>5, <2>6, <2>7
<1>26. ASSUME UNCHANGED vars PROVE StateOK'
  BY <1>26 DEF vars
<1>27. StateOK'
  BY <1>1, <1>2, <1>3, <1>4, <1>5, <1>6, <1>7, <1>8, <1>9, <1>10, <1>11, <1>12, <1>13,
     <1>14, <1>15, <1>16, <1>17, <1>18, <1>19, <1>20, <1>21, <1>22, <1>23, <1>24, <1>25, <1>26 DEF Next, Step, HandlerStep
<1>28. raced' \subseteq Ids
  BY DEF Next, Step, Overtaken, Present, Submit, Restart, vars
<1> QED BY <1>27, <1>28

\* A task only moves within the handler of its statement.
LEMMA PlacedStep == TypeInv /\ [Next]_vars => Placed'
<1> SUFFICES ASSUME TypeInv, [Next]_vars PROVE Placed'
  OBVIOUS
<1> USE DEF TypeInv, TypeOK, Placed
<1>1. ASSUME NEW t \in Tasks, Submit(t) PROVE Placed'
  BY <1>1 DEF Submit, Goto, local
<1>2. ASSUME NEW t \in Tasks, InsertCheck(t) PROVE Placed'
  <2>1. CASE Return(t)
    BY <1>2, <2>1 DEF InsertCheck, Return, Goto, NoStatement, shared
  <2>2. CASE Goto(t, "ins_wal") /\ UNCHANGED <<req, local>>
    BY <1>2, <2>2 DEF InsertCheck, Goto, local, shared
  <2> QED BY <1>2, <2>1, <2>2 DEF InsertCheck
<1>3. ASSUME NEW t \in Tasks, InsertLog(t) PROVE Placed'
  BY <1>3 DEF InsertLog, Goto
<1>4. ASSUME NEW t \in Tasks, InsertLogFails(t) PROVE Placed'
  BY <1>4 DEF InsertLogFails, Return, Goto, NoStatement
<1>5. ASSUME NEW t \in Tasks, InsertStore(t) PROVE Placed'
  BY <1>5 DEF InsertStore, Goto, local
<1>6. ASSUME NEW t \in Tasks, InsertIndex(t) PROVE Placed'
  BY <1>6 DEF InsertIndex, Goto, local
<1>7. ASSUME NEW t \in Tasks, DmlLockCollections(t) PROVE Placed'
  BY <1>7 DEF DmlLockCollections, Goto, IsDml, local
<1>8. ASSUME NEW t \in Tasks, DmlLockIndexes(t) PROVE Placed'
  BY <1>8 DEF DmlLockIndexes, Goto
<1>9. ASSUME NEW t \in Tasks, UpdateSkip(t) PROVE Placed'
  BY <1>9 DEF UpdateSkip
<1>10. ASSUME NEW t \in Tasks, UpdateDoc(t) PROVE Placed'
  BY <1>10 DEF UpdateDoc
<1>11. ASSUME NEW t \in Tasks, UpdateFails(t) PROVE Placed'
  BY <1>11 DEF UpdateFails, Return, Goto, NoStatement
<1>12. ASSUME NEW t \in Tasks, RemoveDoc(t) PROVE Placed'
  BY <1>12 DEF RemoveDoc
<1>13. ASSUME NEW t \in Tasks, RemoveFails(t) PROVE Placed'
  BY <1>13 DEF RemoveFails, Return, Goto, NoStatement
<1>14. ASSUME NEW t \in Tasks, DmlUnlock(t) PROVE Placed'
  BY <1>14 DEF DmlUnlock, Goto, local
<1>15. ASSUME NEW t \in Tasks, Emit(t) PROVE Placed'
  BY <1>15 DEF Emit
<1>16. ASSUME NEW t \in Tasks, Respond(t) PROVE Placed'
  BY <1>16 DEF Respond, Return, Goto, NoStatement
<1>17. ASSUME NEW t \in Tasks, FindLockCollections(t) PROVE Placed'
  BY <1>17 DEF FindLockCollections, Goto, local
<1>18. ASSUME NEW t \in Tasks, FindRun(t) PROVE Placed'
  BY <1>18 DEF FindRun, Return, Goto, NoStatement
<1>19. ASSUME NEW t \in Tasks, Count(t) PROVE Placed'
  BY <1>19 DEF Count, Return, Goto, NoStatement
<1>20. ASSUME NEW t \in Tasks, CreateIndexLockCollections(t) PROVE Placed'
  BY <1>20 DEF CreateIndexLockCollections, Goto, local
<1>21. ASSUME NEW t \in Tasks, CreateIndexLockIndexes(t) PROVE Placed'
  BY <1>21 DEF CreateIndexLockIndexes, Goto
<1>22. ASSUME NEW t \in Tasks, CreateIndexDoc(t) PROVE Placed'
  BY <1>22 DEF CreateIndexDoc
<1>23. ASSUME NEW t \in Tasks, CreateIndexInstall(t) PROVE Placed'
  BY <1>23 DEF CreateIndexInstall, Return, Goto, NoStatement
<1>24. ASSUME NEW t \in Tasks, DropIndex(t) PROVE Placed'
  BY <1>24 DEF DropIndex, Return, Goto, NoStatement
<1>25. CASE Restart
  BY <1>25 DEF Restart, NoStatement
<1>26. CASE UNCHANGED vars
  BY <1>26 DEF vars, local
<1> QED
  BY <1>1, <1>2, <1>3, <1>4, <1>5, <1>6, <1>7, <1>8, <1>9, <1>10, <1>11, <1>12, <1>13,
     <1>14, <1>15, <1>16, <1>17, <1>18, <1>19, <1>20, <1>21, <1>22, <1>23, <1>24, <1>25, <1>26 DEF Next, Step, HandlerStep

\* The guards of the RwLocks exclude each other: one writer of collections and
\* then no reader, one writer of indexes.
LocksExclusive ==
  /\ \A t, u \in CollWriters : t = u
  /\ CollWriters = {} \/ CollReaders = {}
  /\ \A t, u \in IdxWriters : t = u

\* A task enters the scope of a guard only when the lock admits it.
LEMMA LocksStep == TypeInv /\ LocksExclusive /\ [Next]_vars => LocksExclusive'
<1> SUFFICES ASSUME TypeInv, LocksExclusive, [Next]_vars PROVE LocksExclusive'
  OBVIOUS
<1> USE DEF TypeInv, TypeOK, LocksExclusive, CollWriters, CollReaders, IdxWriters
<1>1. ASSUME NEW t \in Tasks, Submit(t) PROVE LocksExclusive'
  BY <1>1 DEF Submit, Goto
<1>2. ASSUME NEW t \in Tasks, InsertCheck(t) PROVE LocksExclusive'
  <2>1. CASE Return(t)
    BY <1>2, <2>1 DEF InsertCheck, Return, Goto, NoStatement, shared
  <2>2. CASE Goto(t, "ins_wal") /\ UNCHANGED <<req, local>>
    BY <1>2, <2>2 DEF InsertCheck, Goto, local, shared
  <2> QED BY <1>2, <2>1, <2>2 DEF InsertCheck
<1>3. ASSUME NEW t \in Tasks, InsertLog(t) PROVE LocksExclusive'
  BY <1>3 DEF InsertLog, Goto
<1>4. ASSUME NEW t \in Tasks, InsertLogFails(t) PROVE LocksExclusive'
  BY <1>4 DEF InsertLogFails, Return, Goto
<1>5. ASSUME NEW t \in Tasks, InsertStore(t) PROVE LocksExclusive'
  BY <1>5 DEF InsertStore, Goto, CollWritable
<1>6. ASSUME NEW t \in Tasks, InsertIndex(t) PROVE LocksExclusive'
  BY <1>6 DEF InsertIndex, Goto, IdxFree
<1>7. ASSUME NEW t \in Tasks, DmlLockCollections(t) PROVE LocksExclusive'
  BY <1>7 DEF DmlLockCollections, Goto, CollWritable
<1>8. ASSUME NEW t \in Tasks, DmlLockIndexes(t) PROVE LocksExclusive'
  BY <1>8 DEF DmlLockIndexes, Goto, IdxFree
<1>9. ASSUME NEW t \in Tasks, UpdateSkip(t) PROVE LocksExclusive'
  BY <1>9 DEF UpdateSkip
<1>10. ASSUME NEW t \in Tasks, UpdateDoc(t) PROVE LocksExclusive'
  BY <1>10 DEF UpdateDoc
<1>11. ASSUME NEW t \in Tasks, UpdateFails(t) PROVE LocksExclusive'
  BY <1>11 DEF UpdateFails, Return, Goto
<1>12. ASSUME NEW t \in Tasks, RemoveDoc(t) PROVE LocksExclusive'
  BY <1>12 DEF RemoveDoc
<1>13. ASSUME NEW t \in Tasks, RemoveFails(t) PROVE LocksExclusive'
  BY <1>13 DEF RemoveFails, Return, Goto
<1>14. ASSUME NEW t \in Tasks, DmlUnlock(t) PROVE LocksExclusive'
  BY <1>14 DEF DmlUnlock, Goto
<1>15. ASSUME NEW t \in Tasks, Emit(t) PROVE LocksExclusive'
  BY <1>15 DEF Emit
<1>16. ASSUME NEW t \in Tasks, Respond(t) PROVE LocksExclusive'
  BY <1>16 DEF Respond, Return, Goto
<1>17. ASSUME NEW t \in Tasks, FindLockCollections(t) PROVE LocksExclusive'
  BY <1>17 DEF FindLockCollections, Goto, CollReadable
<1>18. ASSUME NEW t \in Tasks, FindRun(t) PROVE LocksExclusive'
  BY <1>18 DEF FindRun, Return, IdxFree, Goto
<1>19. ASSUME NEW t \in Tasks, Count(t) PROVE LocksExclusive'
  BY <1>19 DEF Count, Return, CollReadable, Goto
<1>20. ASSUME NEW t \in Tasks, CreateIndexLockCollections(t) PROVE LocksExclusive'
  BY <1>20 DEF CreateIndexLockCollections, Goto, CollReadable
<1>21. ASSUME NEW t \in Tasks, CreateIndexLockIndexes(t) PROVE LocksExclusive'
  BY <1>21 DEF CreateIndexLockIndexes, Goto, IdxFree
<1>22. ASSUME NEW t \in Tasks, CreateIndexDoc(t) PROVE LocksExclusive'
  BY <1>22 DEF CreateIndexDoc
<1>23. ASSUME NEW t \in Tasks, CreateIndexInstall(t) PROVE LocksExclusive'
  BY <1>23 DEF CreateIndexInstall, Return, Goto
<1>24. ASSUME NEW t \in Tasks, DropIndex(t) PROVE LocksExclusive'
  BY <1>24 DEF DropIndex, Return, IdxFree, Goto
<1>25. CASE Restart
  BY <1>25 DEF Restart
<1>26. CASE UNCHANGED vars
  BY <1>26 DEF vars
<1> QED
  BY <1>1, <1>2, <1>3, <1>4, <1>5, <1>6, <1>7, <1>8, <1>9, <1>10, <1>11, <1>12, <1>13,
     <1>14, <1>15, <1>16, <1>17, <1>18, <1>19, <1>20, <1>21, <1>22, <1>23, <1>24, <1>25, <1>26 DEF Next, Step, HandlerStep

\* The state is well typed in every reachable state.
THEOREM TypeCorrect == Spec => []TypeOK
<1>1. TypeInv /\ [Next]_vars => TypeInv'
  BY TypeStep, PlacedStep DEF TypeInv
<1> QED BY TypeInit, <1>1, PTL DEF Spec, TypeInv

-----------------------------------------------------------------------------
(* The collection and the log.                                             *)

\* Appending a record changes what replay leaves under its id, and only that.
LEMMA ReplayAppend ==
  ASSUME NEW l \in Seq(LogRecords), NEW r \in LogRecords, NEW id \in Ids
  PROVE  Replayed(Append(l, r), id) = IF r.id = id THEN Effect(r) ELSE Replayed(l, id)
<1> DEFINE m == Append(l, r)
<1>1. /\ Len(m) = Len(l) + 1 /\ Len(l) \in Nat
      /\ m[Len(l) + 1] = r
      /\ \A i \in 1..Len(l) : m[i] = l[i]
  OBVIOUS
<1>2. CASE r.id = id
  <2>1. LastRecord(m, id) = {Len(l) + 1}
    BY <1>1, <1>2 DEF LastRecord
  <2>2. (CHOOSE i \in LastRecord(m, id) : TRUE) = Len(l) + 1
    BY <2>1
  <2> QED BY <1>1, <1>2, <2>1, <2>2 DEF Replayed
<1>3. CASE r.id # id
  <2>1. LastRecord(m, id) = LastRecord(l, id)
    BY <1>1, <1>3 DEF LastRecord
  <2>2. CASE LastRecord(l, id) = {}
    BY <1>3, <2>1, <2>2 DEF Replayed
  <2>3. CASE LastRecord(l, id) # {}
    <3> DEFINE i == CHOOSE i \in LastRecord(l, id) : TRUE
    <3>1. i \in 1..Len(l)
      BY <2>3 DEF LastRecord
    <3>2. m[i] = l[i]
      BY <3>1, <1>1
    <3> QED BY <1>3, <2>1, <2>3, <3>2 DEF Replayed
  <2> QED BY <2>2, <2>3
<1> QED BY <1>2, <1>3

\* The same for an append of a task...
LEMMA ReplayLogAppend ==
  ASSUME TypeOK, NEW t \in Tasks, NEW op \in Ops, NEW id \in Ids,
         NEW doc \in Docs \cup {NoDoc}, LogAppend(t, op, id, doc), NEW other \in Ids
  PROVE  Replayed(log', other) =
           IF other # id THEN Replayed(log, other)
           ELSE IF op = "Delete" THEN NoDoc ELSE FromPayload(doc)
<1> DEFINE r == Record(op, id, doc)
<1>1. r \in LogRecords
  BY DEF LogRecords, Record
<1>2. log \in Seq(LogRecords) /\ log' = Append(log, r)
  BY DEF TypeOK, LogAppend
<1>3. Replayed(log', other) = IF r.id = other THEN Effect(r) ELSE Replayed(log, other)
  BY <1>1, <1>2, ReplayAppend
<1> QED BY <1>3 DEF Effect, Record

\* ...and for one that fails, whose record is there or not.
LEMMA ReplayLogFails ==
  ASSUME TypeOK, NEW op \in Ops, NEW id \in Ids,
         NEW doc \in Docs \cup {NoDoc}, LogFails(op, id, doc), NEW other \in Ids
  PROVE  \/ Replayed(log', other) = Replayed(log, other)
         \/ /\ other = id
            /\ Replayed(log', other) = IF op = "Delete" THEN NoDoc ELSE FromPayload(doc)
<1> DEFINE r == Record(op, id, doc)
<1>1. r \in LogRecords
  BY DEF LogRecords, Record
<1>2. CASE log' = log
  BY <1>2
<1>3. CASE log' = Append(log, r)
  <2>1. Replayed(log', other) = IF r.id = other THEN Effect(r) ELSE Replayed(log, other)
    BY <1>1, <1>3, ReplayAppend DEF TypeOK
  <2> QED BY <2>1 DEF Effect, Record
<1> QED BY <1>2, <1>3 DEF LogFails

\* What a statement being executed knows of the collection and of the log.
\* A task that has checked its id finds it free until it stores its document...
InsertAbsent ==
  \A t \in Tasks : pc[t] \in {"ins_wal", "ins_store"} => store[req[t].id] = NoDoc

\* ...and its own record is the last one of that id until then.
InsertLogged ==
  \A t \in Tasks :
    pc[t] = "ins_store" => Replayed(log, req[t].id) = FromPayload(req[t].doc)

\* The documents an UPDATE or REMOVE has still to visit are in the collection.
ScanPresent == \A t \in Tasks : pc[t] = "dml_scan" => todo[t] \subseteq Present

\* The two hypotheses under which the code keeps memory and log together.
\* No id is inserted by two tasks: the uniqueness check of execute_insert is
\* not repeated under the write lock.
IdsOwned == \A t, u \in Tasks : t # u => InsertIds[t] \cap InsertIds[u] = {}
\* No update fails after it has changed the document in place, and no append
\* fails: execute_update and execute_remove change memory before the log.
NoFailureAfterChange ==
  ~WalMayFail /\ \A a \in Assignments : a.outcome # "partial"

\* The write lock keeps the visited documents in place.
LEMMA ScanPresentStep == TypeInv /\ LocksExclusive /\ ScanPresent /\ [Next]_vars => ScanPresent'
<1> SUFFICES ASSUME TypeInv, LocksExclusive, ScanPresent, [Next]_vars PROVE ScanPresent'
  OBVIOUS
<1> USE DEF TypeInv, TypeOK, ScanPresent, Present
<1>1. ASSUME NEW t \in Tasks, Submit(t) PROVE ScanPresent'
  BY <1>1 DEF Submit, Goto, shared, local
<1>2. ASSUME NEW t \in Tasks, InsertCheck(t) PROVE ScanPresent'
  <2>1. CASE Return(t)
    BY <1>2, <2>1 DEF InsertCheck, Return, Goto, NoStatement, shared
  <2>2. CASE Goto(t, "ins_wal") /\ UNCHANGED <<req, local>>
    BY <1>2, <2>2 DEF InsertCheck, Goto, local, shared
  <2> QED BY <1>2, <2>1, <2>2 DEF InsertCheck
<1>3. ASSUME NEW t \in Tasks, InsertLog(t) PROVE ScanPresent'
  BY <1>3 DEF InsertLog, Goto
<1>4. ASSUME NEW t \in Tasks, InsertLogFails(t) PROVE ScanPresent'
  BY <1>4 DEF InsertLogFails, Return, shared, Goto
<1>5. ASSUME NEW t \in Tasks, InsertStore(t) PROVE ScanPresent'
  <2>1. req[t].doc \in Docs
    BY <1>5, StatementFields DEF InsertStore, Placed
  <2> QED BY <1>5, <2>1, MarkersDistinct DEF InsertStore, Goto, local
<1>6. ASSUME NEW t \in Tasks, InsertIndex(t) PROVE ScanPresent'
  BY <1>6 DEF InsertIndex, Goto, local
<1>7. ASSUME NEW t \in Tasks, DmlLockCollections(t) PROVE ScanPresent'
  BY <1>7 DEF DmlLockCollections, Goto, CollWritable, shared, local
<1>8. ASSUME NEW t \in Tasks, DmlLockIndexes(t) PROVE ScanPresent'
  BY <1>8 DEF DmlLockIndexes, Goto, shared
<1>9. ASSUME NEW t \in Tasks, UpdateSkip(t) PROVE ScanPresent'
  BY <1>9 DEF UpdateSkip, Visit, shared
<1>10. ASSUME NEW t \in Tasks, UpdateDoc(t) PROVE ScanPresent'
  <2>1. req[t].assign.value \in Docs
    BY <1>10, StatementFields, AssignmentFields DEF UpdateDoc
  <2>2. PICK id \in Ids : store' = [store EXCEPT ![id] = req[t].assign.value] /\ Visit(t, id)
    BY <1>10 DEF UpdateDoc
  <2> QED BY <1>10, <2>1, <2>2, MarkersDistinct DEF UpdateDoc, Visit
<1>11. ASSUME NEW t \in Tasks, UpdateFails(t) PROVE ScanPresent'
  <2>1. req[t].assign.value \in Docs
    BY <1>11, StatementFields, AssignmentFields DEF UpdateFails
  <2>2. \A id \in Ids : store[id] # NoDoc => store'[id] # NoDoc
    BY <1>11, <2>1, MarkersDistinct DEF UpdateFails
  <2> QED BY <1>11, <2>2 DEF UpdateFails, Return, Goto
<1>12. ASSUME NEW t \in Tasks, RemoveDoc(t) PROVE ScanPresent'
  <2>1. PICK id \in todo[t] : store' = [store EXCEPT ![id] = NoDoc] /\ Visit(t, id)
    BY <1>12 DEF RemoveDoc
  <2>2. ASSUME NEW u \in Tasks, pc'[u] = "dml_scan" PROVE todo'[u] \subseteq Present'
    <3>1. u = t
      BY <1>12, <2>2 DEF RemoveDoc, LocksExclusive, CollWriters
    <3> QED BY <1>12, <2>1, <3>1 DEF RemoveDoc, Visit
  <2> QED BY <2>2
<1>13. ASSUME NEW t \in Tasks, RemoveFails(t) PROVE ScanPresent'
  <2>1. ASSUME NEW u \in Tasks, pc'[u] = "dml_scan" PROVE FALSE
    BY <1>13, <2>1 DEF RemoveFails, Return, Goto, LocksExclusive, CollWriters
  <2> QED BY <2>1
<1>14. ASSUME NEW t \in Tasks, DmlUnlock(t) PROVE ScanPresent'
  BY <1>14 DEF DmlUnlock, Goto, shared, local
<1>15. ASSUME NEW t \in Tasks, Emit(t) PROVE ScanPresent'
  BY <1>15 DEF Emit
<1>16. ASSUME NEW t \in Tasks, Respond(t) PROVE ScanPresent'
  BY <1>16 DEF Respond, Return, shared, Goto
<1>17. ASSUME NEW t \in Tasks, FindLockCollections(t) PROVE ScanPresent'
  BY <1>17 DEF FindLockCollections, Goto, shared, local
<1>18. ASSUME NEW t \in Tasks, FindRun(t) PROVE ScanPresent'
  BY <1>18 DEF FindRun, Return, shared, Goto
<1>19. ASSUME NEW t \in Tasks, Count(t) PROVE ScanPresent'
  BY <1>19 DEF Count, Return, shared, Goto
<1>20. ASSUME NEW t \in Tasks, CreateIndexLockCollections(t) PROVE ScanPresent'
  BY <1>20 DEF CreateIndexLockCollections, Goto, shared, local
<1>21. ASSUME NEW t \in Tasks, CreateIndexLockIndexes(t) PROVE ScanPresent'
  BY <1>21 DEF CreateIndexLockIndexes, Goto, shared
<1>22. ASSUME NEW t \in Tasks, CreateIndexDoc(t) PROVE ScanPresent'
  BY <1>22 DEF CreateIndexDoc, Visit, shared
<1>23. ASSUME NEW t \in Tasks, CreateIndexInstall(t) PROVE ScanPresent'
  BY <1>23 DEF CreateIndexInstall, Return, Goto
<1>24. ASSUME NEW t \in Tasks, DropIndex(t) PROVE ScanPresent'
  BY <1>24 DEF DropIndex, Return, Goto
<1>25. CASE Restart
  BY <1>25 DEF Restart
<1>26. CASE UNCHANGED vars
  BY <1>26 DEF vars, shared, local
<1> QED
  BY <1>1, <1>2, <1>3, <1>4, <1>5, <1>6, <1>7, <1>8, <1>9, <1>10, <1>11, <1>12, <1>13,
     <1>14, <1>15, <1>16, <1>17, <1>18, <1>19, <1>20, <1>21, <1>22, <1>23, <1>24, <1>25, <1>26 DEF Next, Step, HandlerStep

\* Nobody else creates the document of an INSERT under way.
LEMMA InsertAbsentStep ==
  ASSUME IdsOwned
  PROVE  TypeInv /\ InsertAbsent /\ [Next]_vars => InsertAbsent'
<1> SUFFICES ASSUME TypeInv, InsertAbsent, [Next]_vars PROVE InsertAbsent'
  OBVIOUS
<1> USE DEF TypeInv, TypeOK, InsertAbsent
<1>1. ASSUME NEW t \in Tasks, Submit(t) PROVE InsertAbsent'
  BY <1>1 DEF Submit, Goto, shared
<1>2. ASSUME NEW t \in Tasks, InsertCheck(t) PROVE InsertAbsent'
  <2>1. CASE store[req[t].id] # NoDoc
    BY <1>2, <2>1, ZenonT(60) DEF InsertCheck, Return, Goto, shared
  <2>2. CASE store[req[t].id] = NoDoc
    BY <1>2, <2>2 DEF InsertCheck, Goto, shared
  <2> QED BY <2>1, <2>2
<1>3. ASSUME NEW t \in Tasks, InsertLog(t) PROVE InsertAbsent'
  BY <1>3 DEF InsertLog, Goto
<1>4. ASSUME NEW t \in Tasks, InsertLogFails(t) PROVE InsertAbsent'
  BY <1>4 DEF InsertLogFails, Return, shared, Goto
<1>5. ASSUME NEW t \in Tasks, InsertStore(t) PROVE InsertAbsent'
  <2>1. req[t].kind = "insert" /\ req[t].id \in Ids /\ req[t].doc \in Docs
    BY <1>5, StatementFields DEF InsertStore, Placed
  <2>2. ASSUME NEW u \in Tasks, u # t, req[u].kind = "insert"
        PROVE  req[u].id # req[t].id
    BY <2>1, <2>2, InsertIdsType DEF Placed, IdsOwned
  <2>3. ASSUME NEW u \in Tasks, pc'[u] \in {"ins_wal", "ins_store"}
        PROVE  store'[req'[u].id] = NoDoc
    <3>1. u # t /\ pc[u] \in {"ins_wal", "ins_store"}
      BY <1>5, <2>3 DEF InsertStore, Goto
    <3> QED BY <1>5, <2>2, <3>1 DEF InsertStore, Placed
  <2> QED BY <2>3
<1>6. ASSUME NEW t \in Tasks, InsertIndex(t) PROVE InsertAbsent'
  BY <1>6 DEF InsertIndex, Goto, local
<1>7. ASSUME NEW t \in Tasks, DmlLockCollections(t) PROVE InsertAbsent'
  BY <1>7 DEF DmlLockCollections, Goto, shared, local
<1>8. ASSUME NEW t \in Tasks, DmlLockIndexes(t) PROVE InsertAbsent'
  BY <1>8 DEF DmlLockIndexes, Goto, shared
<1>9. ASSUME NEW t \in Tasks, UpdateSkip(t) PROVE InsertAbsent'
  BY <1>9 DEF UpdateSkip, shared
<1>10. ASSUME NEW t \in Tasks, UpdateDoc(t) PROVE InsertAbsent'
  <2>1. PICK id \in Ids :
          /\ UpdateTarget(t, id)
          /\ store' = [store EXCEPT ![id] = req[t].assign.value]
          /\ LogAppend(t, "Update", id, req[t].assign.value)
    BY <1>10 DEF UpdateDoc
  <2>2. req[t].assign.value \in Docs /\ store[id] # NoDoc
    BY <1>10, <2>1, StatementFields, AssignmentFields, FilterFields, MarkersDistinct
       DEF UpdateDoc, UpdateTarget
  <2> QED BY <1>10, <2>1, <2>2 DEF UpdateDoc
<1>11. ASSUME NEW t \in Tasks, UpdateFails(t) PROVE InsertAbsent'
  <2>1. \A id \in Ids : UpdateTarget(t, id) => store[id] # NoDoc
    BY <1>11, StatementFields, FilterFields, MarkersDistinct DEF UpdateFails, UpdateTarget
  <2>2. \A id \in Ids : store[id] = NoDoc => store'[id] = NoDoc
    BY <1>11, <2>1 DEF UpdateFails
  <2>3. \A u \in Tasks : pc[u] \in {"ins_wal", "ins_store"} => req[u].id \in Ids
    BY StatementFields DEF Placed
  <2> QED BY <1>11, <2>2, <2>3 DEF UpdateFails, Return, Goto
<1>12. ASSUME NEW t \in Tasks, RemoveDoc(t) PROVE InsertAbsent'
  <2>1. \A id \in Ids : store[id] = NoDoc => store'[id] = NoDoc
    BY <1>12 DEF RemoveDoc
  <2>2. \A u \in Tasks : pc[u] \in {"ins_wal", "ins_store"} => req[u].id \in Ids
    BY StatementFields DEF Placed
  <2> QED BY <1>12, <2>1, <2>2 DEF RemoveDoc
<1>13. ASSUME NEW t \in Tasks, RemoveFails(t) PROVE InsertAbsent'
  <2>1. \A id \in Ids : store[id] = NoDoc => store'[id] = NoDoc
    BY <1>13 DEF RemoveFails
  <2>2. \A u \in Tasks : pc[u] \in {"ins_wal", "ins_store"} => req[u].id \in Ids
    BY StatementFields DEF Placed
  <2> QED BY <1>13, <2>1, <2>2 DEF RemoveFails, Return, Goto
<1>14. ASSUME NEW t \in Tasks, DmlUnlock(t) PROVE InsertAbsent'
  BY <1>14 DEF DmlUnlock, Goto, shared, local
<1>15. ASSUME NEW t \in Tasks, Emit(t) PROVE InsertAbsent'
  BY <1>15 DEF Emit
<1>16. ASSUME NEW t \in Tasks, Respond(t) PROVE InsertAbsent'
  BY <1>16 DEF Respond, Return, shared, Goto
<1>17. ASSUME NEW t \in Tasks, FindLockCollections(t) PROVE InsertAbsent'
  BY <1>17 DEF FindLockCollections, Goto, shared, local
<1>18. ASSUME NEW t \in Tasks, FindRun(t) PROVE InsertAbsent'
  BY <1>18 DEF FindRun, Return, shared, Goto
<1>19. ASSUME NEW t \in Tasks, Count(t) PROVE InsertAbsent'
  BY <1>19 DEF Count, Return, shared, Goto
<1>20. ASSUME NEW t \in Tasks, CreateIndexLockCollections(t) PROVE InsertAbsent'
  BY <1>20 DEF CreateIndexLockCollections, Goto, shared, local
<1>21. ASSUME NEW t \in Tasks, CreateIndexLockIndexes(t) PROVE InsertAbsent'
  BY <1>21 DEF CreateIndexLockIndexes, Goto, shared
<1>22. ASSUME NEW t \in Tasks, CreateIndexDoc(t) PROVE InsertAbsent'
  BY <1>22 DEF CreateIndexDoc, shared
<1>23. ASSUME NEW t \in Tasks, CreateIndexInstall(t) PROVE InsertAbsent'
  BY <1>23 DEF CreateIndexInstall, Return, Goto
<1>24. ASSUME NEW t \in Tasks, DropIndex(t) PROVE InsertAbsent'
  BY <1>24 DEF DropIndex, Return, Goto
<1>25. CASE Restart
  BY <1>25 DEF Restart
<1>26. CASE UNCHANGED vars
  BY <1>26 DEF vars, shared, local
<1> QED
  BY <1>1, <1>2, <1>3, <1>4, <1>5, <1>6, <1>7, <1>8, <1>9, <1>10, <1>11, <1>12, <1>13,
     <1>14, <1>15, <1>16, <1>17, <1>18, <1>19, <1>20, <1>21, <1>22, <1>23, <1>24, <1>25, <1>26 DEF Next, Step, HandlerStep

\* Nobody else logs a record of the document of an INSERT under way.
LEMMA InsertLoggedStep ==
  ASSUME IdsOwned
  PROVE  TypeInv /\ ScanPresent /\ InsertAbsent /\ InsertLogged /\ [Next]_vars => InsertLogged'
<1> SUFFICES ASSUME TypeInv, ScanPresent, InsertAbsent, InsertLogged, [Next]_vars PROVE InsertLogged'
  OBVIOUS
<1> USE DEF TypeInv, TypeOK, InsertLogged
<1>1. ASSUME NEW t \in Tasks, Submit(t) PROVE InsertLogged'
  BY <1>1 DEF Submit, Goto, shared, local
<1>2. ASSUME NEW t \in Tasks, InsertCheck(t) PROVE InsertLogged'
  <2>1. CASE Return(t)
    BY <1>2, <2>1 DEF InsertCheck, Return, Goto, NoStatement, shared
  <2>2. CASE Goto(t, "ins_wal") /\ UNCHANGED <<req, local>>
    BY <1>2, <2>2 DEF InsertCheck, Goto, local, shared
  <2> QED BY <1>2, <2>1, <2>2 DEF InsertCheck
<1>3. ASSUME NEW t \in Tasks, InsertLog(t) PROVE InsertLogged'
  <2>1. req[t].kind = "insert" /\ req[t].id \in Ids /\ req[t].doc \in Docs
    BY <1>3, StatementFields DEF InsertLog, Placed
  <2>2. ASSUME NEW u \in Tasks, u # t, req[u].kind = "insert"
        PROVE  req[u].id # req[t].id
    BY <2>1, <2>2, InsertIdsType DEF Placed, IdsOwned
  <2>3. \A other \in Ids : Replayed(log', other) =
          IF other # req[t].id THEN Replayed(log, other) ELSE FromPayload(req[t].doc)
    BY <1>3, <2>1, ReplayLogAppend DEF InsertLog, Ops
  <2>4. ASSUME NEW u \in Tasks, pc'[u] = "ins_store"
        PROVE  Replayed(log', req'[u].id) = FromPayload(req'[u].doc)
    <3>1. CASE u = t
      BY <1>3, <2>1, <2>3, <3>1 DEF InsertLog
    <3>2. CASE u # t
      <4>1. pc[u] = "ins_store" /\ req[u].kind = "insert" /\ req[u].id \in Ids
        BY <1>3, <2>4, <3>2, StatementFields DEF InsertLog, Goto, Placed
      <4> QED BY <1>3, <2>2, <2>3, <3>2, <4>1 DEF InsertLog
    <3> QED BY <3>1, <3>2
  <2> QED BY <2>4
<1>4. ASSUME NEW t \in Tasks, InsertLogFails(t) PROVE InsertLogged'
  <2>1. req[t].kind = "insert" /\ req[t].id \in Ids /\ req[t].doc \in Docs
    BY <1>4, StatementFields DEF InsertLogFails, Placed
  <2>2. ASSUME NEW u \in Tasks, u # t, req[u].kind = "insert"
        PROVE  req[u].id # req[t].id
    BY <2>1, <2>2, InsertIdsType DEF Placed, IdsOwned
  <2>3. \A other \in Ids : other # req[t].id => Replayed(log', other) = Replayed(log, other)
    BY <1>4, <2>1, ReplayLogFails DEF InsertLogFails, Ops
  <2>4. ASSUME NEW u \in Tasks, pc'[u] = "ins_store"
        PROVE  Replayed(log', req'[u].id) = FromPayload(req'[u].doc)
    <3>1. u # t /\ pc[u] = "ins_store" /\ req'[u] = req[u]
      BY <1>4, <2>4 DEF InsertLogFails, Return, Goto
    <3>2. req[u].kind = "insert" /\ req[u].id \in Ids
      BY <3>1, StatementFields DEF Placed
    <3> QED BY <2>2, <2>3, <3>1, <3>2
  <2> QED BY <2>4
<1>5. ASSUME NEW t \in Tasks, InsertStore(t) PROVE InsertLogged'
  BY <1>5 DEF InsertStore, Goto, local
<1>6. ASSUME NEW t \in Tasks, InsertIndex(t) PROVE InsertLogged'
  BY <1>6 DEF InsertIndex, Goto, local
<1>7. ASSUME NEW t \in Tasks, DmlLockCollections(t) PROVE InsertLogged'
  BY <1>7 DEF DmlLockCollections, Goto, shared, local
<1>8. ASSUME NEW t \in Tasks, DmlLockIndexes(t) PROVE InsertLogged'
  BY <1>8 DEF DmlLockIndexes, Goto, shared
<1>9. ASSUME NEW t \in Tasks, UpdateSkip(t) PROVE InsertLogged'
  BY <1>9 DEF UpdateSkip, shared
<1>10. ASSUME NEW t \in Tasks, UpdateDoc(t) PROVE InsertLogged'
  <2>1. PICK id \in Ids :
          /\ UpdateTarget(t, id)
          /\ store' = [store EXCEPT ![id] = req[t].assign.value]
          /\ LogAppend(t, "Update", id, req[t].assign.value)
    BY <1>10 DEF UpdateDoc
  <2>2. req[t].assign.value \in Docs /\ store[id] # NoDoc
    BY <1>10, <2>1, StatementFields, AssignmentFields, FilterFields, MarkersDistinct
       DEF UpdateDoc, UpdateTarget
  <2>3. \A other \in Ids : other # id => Replayed(log', other) = Replayed(log, other)
    BY <2>1, <2>2, ReplayLogAppend DEF Ops
  <2>4. \A u \in Tasks : pc[u] = "ins_store" => req[u].id \in Ids /\ req[u].id # id
    BY <2>2, StatementFields DEF Placed, InsertAbsent
  <2> QED BY <1>10, <2>3, <2>4 DEF UpdateDoc
<1>11. ASSUME NEW t \in Tasks, UpdateFails(t) PROVE InsertLogged'
  <2>1. \A id \in Ids : UpdateTarget(t, id) => store[id] # NoDoc
    BY <1>11, StatementFields, FilterFields, MarkersDistinct DEF UpdateFails, UpdateTarget
  <2>2. req[t].assign.value \in Docs
    BY <1>11, StatementFields, AssignmentFields DEF UpdateFails
  <2>3. \A id \in Ids : store[id] = NoDoc => Replayed(log', id) = Replayed(log, id)
    BY <1>11, <2>1, <2>2, ReplayLogFails DEF UpdateFails, Ops
  <2>4. \A u \in Tasks : pc[u] = "ins_store" => req[u].id \in Ids /\ store[req[u].id] = NoDoc
    BY StatementFields DEF Placed, InsertAbsent
  <2>5. \A u \in Tasks : pc'[u] = "ins_store" => pc[u] = "ins_store" /\ req'[u] = req[u]
    BY <1>11 DEF UpdateFails, Return, Goto
  <2> QED BY <2>3, <2>4, <2>5
<1>12. ASSUME NEW t \in Tasks, RemoveDoc(t) PROVE InsertLogged'
  <2>1. PICK id \in todo[t] :
          /\ store' = [store EXCEPT ![id] = NoDoc]
          /\ LogAppend(t, "Delete", id, NoDoc)
    BY <1>12 DEF RemoveDoc
  <2>2. id \in Ids /\ store[id] # NoDoc
    BY <1>12, <2>1 DEF RemoveDoc, ScanPresent, Present
  <2>3. \A other \in Ids : other # id => Replayed(log', other) = Replayed(log, other)
    BY <2>1, <2>2, ReplayLogAppend DEF Ops
  <2>4. \A u \in Tasks : pc[u] = "ins_store" => req[u].id \in Ids /\ req[u].id # id
    BY <2>2, StatementFields DEF Placed, InsertAbsent
  <2> QED BY <1>12, <2>3, <2>4 DEF RemoveDoc
<1>13. ASSUME NEW t \in Tasks, RemoveFails(t) PROVE InsertLogged'
  <2>1. PICK id \in todo[t] : LogFails("Delete", id, NoDoc)
    BY <1>13 DEF RemoveFails
  <2>2. id \in Ids /\ store[id] # NoDoc
    BY <1>13, <2>1 DEF RemoveFails, ScanPresent, Present
  <2>3. \A other \in Ids : other # id => Replayed(log', other) = Replayed(log, other)
    BY <2>1, <2>2, ReplayLogFails DEF Ops
  <2>4. \A u \in Tasks : pc[u] = "ins_store" => req[u].id \in Ids /\ req[u].id # id
    BY <2>2, StatementFields DEF Placed, InsertAbsent
  <2>5. \A u \in Tasks : pc'[u] = "ins_store" => pc[u] = "ins_store" /\ req'[u] = req[u]
    BY <1>13 DEF RemoveFails, Return, Goto
  <2> QED BY <2>3, <2>4, <2>5
<1>14. ASSUME NEW t \in Tasks, DmlUnlock(t) PROVE InsertLogged'
  BY <1>14 DEF DmlUnlock, Goto, shared, local
<1>15. ASSUME NEW t \in Tasks, Emit(t) PROVE InsertLogged'
  BY <1>15 DEF Emit
<1>16. ASSUME NEW t \in Tasks, Respond(t) PROVE InsertLogged'
  BY <1>16 DEF Respond, Return, shared, Goto
<1>17. ASSUME NEW t \in Tasks, FindLockCollections(t) PROVE InsertLogged'
  BY <1>17 DEF FindLockCollections, Goto, shared, local
<1>18. ASSUME NEW t \in Tasks, FindRun(t) PROVE InsertLogged'
  BY <1>18 DEF FindRun, Return, shared, Goto
<1>19. ASSUME NEW t \in Tasks, Count(t) PROVE InsertLogged'
  BY <1>19 DEF Count, Return, shared, Goto
<1>20. ASSUME NEW t \in Tasks, CreateIndexLockCollections(t) PROVE InsertLogged'
  BY <1>20 DEF CreateIndexLockCollections, Goto, shared, local
<1>21. ASSUME NEW t \in Tasks, CreateIndexLockIndexes(t) PROVE InsertLogged'
  BY <1>21 DEF CreateIndexLockIndexes, Goto, shared
<1>22. ASSUME NEW t \in Tasks, CreateIndexDoc(t) PROVE InsertLogged'
  BY <1>22 DEF CreateIndexDoc, shared
<1>23. ASSUME NEW t \in Tasks, CreateIndexInstall(t) PROVE InsertLogged'
  BY <1>23 DEF CreateIndexInstall, Return, Goto
<1>24. ASSUME NEW t \in Tasks, DropIndex(t) PROVE InsertLogged'
  BY <1>24 DEF DropIndex, Return, Goto
<1>25. CASE Restart
  BY <1>25 DEF Restart
<1>26. CASE UNCHANGED vars
  BY <1>26 DEF vars, shared, local
<1> QED
  BY <1>1, <1>2, <1>3, <1>4, <1>5, <1>6, <1>7, <1>8, <1>9, <1>10, <1>11, <1>12, <1>13,
     <1>14, <1>15, <1>16, <1>17, <1>18, <1>19, <1>20, <1>21, <1>22, <1>23, <1>24, <1>25, <1>26 DEF Next, Step, HandlerStep

\* Every step keeps the collection and the log together.
LEMMA MemoryStep ==
  ASSUME NoFailureAfterChange
  PROVE  TypeInv /\ ScanPresent /\ InsertAbsent /\ InsertLogged /\ MemoryMatchesLog /\ [Next]_vars => MemoryMatchesLog'
<1> SUFFICES ASSUME TypeInv, ScanPresent, InsertAbsent, InsertLogged, MemoryMatchesLog, [Next]_vars PROVE MemoryMatchesLog'
  OBVIOUS
<1> USE DEF TypeInv, TypeOK, MemoryMatchesLog, Inserting
<1>1. ASSUME NEW t \in Tasks, Submit(t) PROVE MemoryMatchesLog'
  BY <1>1 DEF Submit, Goto, shared, local
<1>2. ASSUME NEW t \in Tasks, InsertCheck(t) PROVE MemoryMatchesLog'
  <2>1. CASE Return(t)
    BY <1>2, <2>1 DEF InsertCheck, Return, Goto, NoStatement, shared
  <2>2. CASE Goto(t, "ins_wal") /\ UNCHANGED <<req, local>>
    BY <1>2, <2>2 DEF InsertCheck, Goto, local, shared
  <2> QED BY <1>2, <2>1, <2>2 DEF InsertCheck
<1>3. ASSUME NEW t \in Tasks, InsertLog(t) PROVE MemoryMatchesLog'
  <2>1. req[t].kind = "insert" /\ req[t].id \in Ids /\ req[t].doc \in Docs
    BY <1>3, StatementFields DEF InsertLog, Placed
  <2>2. \A other \in Ids : other # req[t].id => Replayed(log', other) = Replayed(log, other)
    BY <1>3, <2>1, ReplayLogAppend DEF InsertLog, Ops
  <2>3. \A u \in Tasks : pc[u] = "ins_store" => pc'[u] = "ins_store"
    BY <1>3 DEF InsertLog, Goto
  <2>4. pc'[t] = "ins_store"
    BY <1>3 DEF InsertLog, Goto
  <2> QED BY <1>3, <2>2, <2>3, <2>4 DEF InsertLog
<1>4. ASSUME NEW t \in Tasks, InsertLogFails(t) PROVE MemoryMatchesLog'
  BY <1>4 DEF InsertLogFails, LogFails, NoFailureAfterChange
<1>5. ASSUME NEW t \in Tasks, InsertStore(t) PROVE MemoryMatchesLog'
  <2>1. req[t].kind = "insert" /\ req[t].id \in Ids /\ req[t].doc \in Docs
    BY <1>5, StatementFields DEF InsertStore, Placed
  <2>2. ASSUME NEW id \in Ids, ~Inserting(id)' PROVE FromPayload(store'[id]) = Replayed(log, id)
    <3>1. CASE id = req[t].id
      BY <1>5, <2>1, <3>1 DEF InsertStore, InsertLogged
    <3>2. CASE id # req[t].id
      <4>1. ~Inserting(id)
        BY <1>5, <2>2, <3>2 DEF InsertStore, Goto
      <4> QED BY <1>5, <2>1, <3>2, <4>1 DEF InsertStore
    <3> QED BY <3>1, <3>2
  <2> QED BY <1>5, <2>2 DEF InsertStore
<1>6. ASSUME NEW t \in Tasks, InsertIndex(t) PROVE MemoryMatchesLog'
  BY <1>6 DEF InsertIndex, Goto, local
<1>7. ASSUME NEW t \in Tasks, DmlLockCollections(t) PROVE MemoryMatchesLog'
  BY <1>7 DEF DmlLockCollections, Goto, shared, local
<1>8. ASSUME NEW t \in Tasks, DmlLockIndexes(t) PROVE MemoryMatchesLog'
  BY <1>8 DEF DmlLockIndexes, Goto, shared
<1>9. ASSUME NEW t \in Tasks, UpdateSkip(t) PROVE MemoryMatchesLog'
  BY <1>9 DEF UpdateSkip, shared
<1>10. ASSUME NEW t \in Tasks, UpdateDoc(t) PROVE MemoryMatchesLog'
  <2>1. PICK id \in Ids :
          /\ UpdateTarget(t, id)
          /\ store' = [store EXCEPT ![id] = req[t].assign.value]
          /\ LogAppend(t, "Update", id, req[t].assign.value)
    BY <1>10 DEF UpdateDoc
  <2>2. req[t].assign.value \in Docs /\ store[id] # NoDoc
    BY <1>10, <2>1, StatementFields, AssignmentFields, FilterFields, MarkersDistinct
       DEF UpdateDoc, UpdateTarget
  <2>3. \A other \in Ids : Replayed(log', other) =
          IF other # id THEN Replayed(log, other) ELSE FromPayload(req[t].assign.value)
    BY <2>1, <2>2, ReplayLogAppend DEF Ops
  <2>4. \A other \in Ids : store'[other] =
          IF other # id THEN store[other] ELSE req[t].assign.value
    BY <2>1
  <2> QED BY <1>10, <2>3, <2>4 DEF UpdateDoc
<1>11. ASSUME NEW t \in Tasks, UpdateFails(t) PROVE MemoryMatchesLog'
  <2>1. req[t].assign \in Assignments
    BY <1>11, StatementFields DEF UpdateFails
  <2>2. UNCHANGED <<store, log>>
    BY <1>11, <2>1 DEF UpdateFails, LogFails, NoFailureAfterChange
  <2> QED BY <1>11, <2>2 DEF UpdateFails, Return, Goto
<1>12. ASSUME NEW t \in Tasks, RemoveDoc(t) PROVE MemoryMatchesLog'
  <2>1. PICK id \in todo[t] :
          /\ store' = [store EXCEPT ![id] = NoDoc]
          /\ LogAppend(t, "Delete", id, NoDoc)
    BY <1>12 DEF RemoveDoc
  <2>2. id \in Ids /\ store[id] # NoDoc
    BY <1>12, <2>1 DEF RemoveDoc, ScanPresent, Present
  <2>3. \A other \in Ids : Replayed(log', other) =
          IF other # id THEN Replayed(log, other) ELSE NoDoc
    BY <2>1, <2>2, ReplayLogAppend DEF Ops
  <2>4. \A other \in Ids : store'[other] = IF other # id THEN store[other] ELSE NoDoc
    BY <2>1
  <2>5. FromPayload(NoDoc) = NoDoc
    BY FromPayloadType
  <2> QED BY <1>12, <2>3, <2>4, <2>5 DEF RemoveDoc
<1>13. ASSUME NEW t \in Tasks, RemoveFails(t) PROVE MemoryMatchesLog'
  BY <1>13 DEF RemoveFails, LogFails, NoFailureAfterChange
<1>14. ASSUME NEW t \in Tasks, DmlUnlock(t) PROVE MemoryMatchesLog'
  BY <1>14 DEF DmlUnlock, Goto, shared, local
<1>15. ASSUME NEW t \in Tasks, Emit(t) PROVE MemoryMatchesLog'
  BY <1>15 DEF Emit
<1>16. ASSUME NEW t \in Tasks, Respond(t) PROVE MemoryMatchesLog'
  BY <1>16 DEF Respond, Return, shared, Goto
<1>17. ASSUME NEW t \in Tasks, FindLockCollections(t) PROVE MemoryMatchesLog'
  BY <1>17 DEF FindLockCollections, Goto, shared, local
<1>18. ASSUME NEW t \in Tasks, FindRun(t) PROVE MemoryMatchesLog'
  BY <1>18 DEF FindRun, Return, shared, Goto
<1>19. ASSUME NEW t \in Tasks, Count(t) PROVE MemoryMatchesLog'
  BY <1>19 DEF Count, Return, shared, Goto
<1>20. ASSUME NEW t \in Tasks, CreateIndexLockCollections(t) PROVE MemoryMatchesLog'
  BY <1>20 DEF CreateIndexLockCollections, Goto, shared, local
<1>21. ASSUME NEW t \in Tasks, CreateIndexLockIndexes(t) PROVE MemoryMatchesLog'
  BY <1>21 DEF CreateIndexLockIndexes, Goto, shared
<1>22. ASSUME NEW t \in Tasks, CreateIndexDoc(t) PROVE MemoryMatchesLog'
  BY <1>22 DEF CreateIndexDoc, shared
<1>23. ASSUME NEW t \in Tasks, CreateIndexInstall(t) PROVE MemoryMatchesLog'
  BY <1>23 DEF CreateIndexInstall, Return, Goto
<1>24. ASSUME NEW t \in Tasks, DropIndex(t) PROVE MemoryMatchesLog'
  BY <1>24 DEF DropIndex, Return, Goto
<1>25. CASE Restart
  <2>1. \A id \in Ids : FromPayload(Replayed(log, id)) = Replayed(log, id)
    BY ReplayedRead
  <2> QED BY <1>25, <2>1 DEF Restart
<1>26. CASE UNCHANGED vars
  BY <1>26 DEF vars, shared, local
<1> QED
  BY <1>1, <1>2, <1>3, <1>4, <1>5, <1>6, <1>7, <1>8, <1>9, <1>10, <1>11, <1>12, <1>13,
     <1>14, <1>15, <1>16, <1>17, <1>18, <1>19, <1>20, <1>21, <1>22, <1>23, <1>24, <1>25, <1>26 DEF Next, Step, HandlerStep

\* The inductive invariant of MemoryMatchesLog.
MemoryInv ==
  /\ TypeInv /\ LocksExclusive
  /\ ScanPresent /\ InsertAbsent /\ InsertLogged
  /\ MemoryMatchesLog

\* If no id has two inserters and nothing fails between a change in memory and
\* its record, then, for any number of concurrent statements, in every reachable
\* state and whatever the JSON of a payload does to a value, a restart would
\* rebuild the collection that readers see, every document as it is read back.
THEOREM MemoryCorrect ==
  ASSUME IdsOwned, NoFailureAfterChange
  PROVE  Spec => []MemoryMatchesLog
<1>1. Init => MemoryInv
  <2> SUFFICES ASSUME Init PROVE MemoryInv
    OBVIOUS
  <2>1. TypeInv
    BY TypeInit
  <2>2. LocksExclusive
    BY DEF Init, LocksExclusive, CollWriters, CollReaders, IdxWriters
  <2>3. ScanPresent /\ InsertAbsent /\ InsertLogged
    BY DEF Init, ScanPresent, InsertAbsent, InsertLogged
  <2>4. MemoryMatchesLog
    BY FromPayloadType DEF Init, MemoryMatchesLog, Replayed, LastRecord
  <2> QED BY <2>1, <2>2, <2>3, <2>4 DEF MemoryInv
<1>2. MemoryInv /\ [Next]_vars => MemoryInv'
  BY TypeStep, PlacedStep, LocksStep, ScanPresentStep, InsertAbsentStep,
     InsertLoggedStep, MemoryStep DEF MemoryInv, TypeInv
<1>3. MemoryInv => MemoryMatchesLog
  BY DEF MemoryInv
<1> QED BY <1>1, <1>2, <1>3, PTL DEF Spec

-----------------------------------------------------------------------------
(* The index.                                                              *)

\* CREATE INDEX has an entry for every document it has visited, and none has
\* changed since: it holds the read lock of collections.
ScanBuilt ==
  \A t \in Tasks : pc[t] = "ci_scan" =>
    \A id \in Ids \ todo[t] : EntriesOf(store[id], id) \subseteq building[t]

\* A document that is not there has no entries.
LEMMA NoDocEntries == ASSUME NEW id PROVE EntriesOf(NoDoc, id) = {}
BY MarkersDistinct DEF EntriesOf, Docs

\* The read lock keeps the documents of an index being built in place.
LEMMA ScanBuiltStep == TypeInv /\ LocksExclusive /\ ScanBuilt /\ [Next]_vars => ScanBuilt'
<1> SUFFICES ASSUME TypeInv, LocksExclusive, ScanBuilt, [Next]_vars PROVE ScanBuilt'
  OBVIOUS
<1> USE DEF TypeInv, TypeOK, ScanBuilt
<1>1. ASSUME NEW t \in Tasks, Submit(t) PROVE ScanBuilt'
  BY <1>1 DEF Submit, Goto, shared, local
<1>2. ASSUME NEW t \in Tasks, InsertCheck(t) PROVE ScanBuilt'
  <2>1. CASE Return(t)
    BY <1>2, <2>1 DEF InsertCheck, Return, Goto, NoStatement, shared
  <2>2. CASE Goto(t, "ins_wal") /\ UNCHANGED <<req, local>>
    BY <1>2, <2>2 DEF InsertCheck, Goto, local, shared
  <2> QED BY <1>2, <2>1, <2>2 DEF InsertCheck
<1>3. ASSUME NEW t \in Tasks, InsertLog(t) PROVE ScanBuilt'
  BY <1>3 DEF InsertLog, Goto
<1>4. ASSUME NEW t \in Tasks, InsertLogFails(t) PROVE ScanBuilt'
  BY <1>4 DEF InsertLogFails, Return, shared, Goto
<1>5. ASSUME NEW t \in Tasks, InsertStore(t) PROVE ScanBuilt'
  <2>1. CollReaders = {}
    BY <1>5 DEF InsertStore, CollWritable, LocksExclusive, CollWriters
  <2>2. \A u \in Tasks : pc'[u] # "ci_scan"
    BY <1>5, <2>1 DEF InsertStore, CollReaders, Goto
  <2> QED BY <2>2
<1>6. ASSUME NEW t \in Tasks, InsertIndex(t) PROVE ScanBuilt'
  BY <1>6 DEF InsertIndex, Goto, local
<1>7. ASSUME NEW t \in Tasks, DmlLockCollections(t) PROVE ScanBuilt'
  BY <1>7 DEF DmlLockCollections, Goto, shared, local
<1>8. ASSUME NEW t \in Tasks, DmlLockIndexes(t) PROVE ScanBuilt'
  BY <1>8 DEF DmlLockIndexes, Goto, shared
<1>9. ASSUME NEW t \in Tasks, UpdateSkip(t) PROVE ScanBuilt'
  BY <1>9 DEF UpdateSkip, Visit, shared
<1>10. ASSUME NEW t \in Tasks, UpdateDoc(t) PROVE ScanBuilt'
  <2>1. CollReaders = {}
    BY <1>10 DEF UpdateDoc, LocksExclusive, CollWriters
  <2>2. \A u \in Tasks : pc'[u] # "ci_scan"
    BY <1>10, <2>1 DEF UpdateDoc, CollReaders
  <2> QED BY <2>2
<1>11. ASSUME NEW t \in Tasks, UpdateFails(t) PROVE ScanBuilt'
  <2>1. CollReaders = {}
    BY <1>11 DEF UpdateFails, LocksExclusive, CollWriters
  <2>2. \A u \in Tasks : pc'[u] # "ci_scan"
    BY <1>11, <2>1 DEF UpdateFails, CollReaders, Return, Goto
  <2> QED BY <2>2
<1>12. ASSUME NEW t \in Tasks, RemoveDoc(t) PROVE ScanBuilt'
  <2>1. CollReaders = {}
    BY <1>12 DEF RemoveDoc, LocksExclusive, CollWriters
  <2>2. \A u \in Tasks : pc'[u] # "ci_scan"
    BY <1>12, <2>1 DEF RemoveDoc, CollReaders
  <2> QED BY <2>2
<1>13. ASSUME NEW t \in Tasks, RemoveFails(t) PROVE ScanBuilt'
  <2>1. CollReaders = {}
    BY <1>13 DEF RemoveFails, LocksExclusive, CollWriters
  <2>2. \A u \in Tasks : pc'[u] # "ci_scan"
    BY <1>13, <2>1 DEF RemoveFails, CollReaders, Return, Goto
  <2> QED BY <2>2
<1>14. ASSUME NEW t \in Tasks, DmlUnlock(t) PROVE ScanBuilt'
  BY <1>14 DEF DmlUnlock, Goto, shared, local
<1>15. ASSUME NEW t \in Tasks, Emit(t) PROVE ScanBuilt'
  BY <1>15 DEF Emit
<1>16. ASSUME NEW t \in Tasks, Respond(t) PROVE ScanBuilt'
  BY <1>16 DEF Respond, Return, shared, Goto
<1>17. ASSUME NEW t \in Tasks, FindLockCollections(t) PROVE ScanBuilt'
  BY <1>17 DEF FindLockCollections, Goto, shared, local
<1>18. ASSUME NEW t \in Tasks, FindRun(t) PROVE ScanBuilt'
  BY <1>18 DEF FindRun, Return, shared, Goto
<1>19. ASSUME NEW t \in Tasks, Count(t) PROVE ScanBuilt'
  BY <1>19 DEF Count, Return, shared, Goto
<1>20. ASSUME NEW t \in Tasks, CreateIndexLockCollections(t) PROVE ScanBuilt'
  BY <1>20 DEF CreateIndexLockCollections, Goto, shared, local
<1>21. ASSUME NEW t \in Tasks, CreateIndexLockIndexes(t) PROVE ScanBuilt'
  <2>1. \A id \in Ids \ Present : EntriesOf(store[id], id) = {}
    BY NoDocEntries DEF Present
  <2> QED BY <1>21, <2>1 DEF CreateIndexLockIndexes, Goto, shared
<1>22. ASSUME NEW t \in Tasks, CreateIndexDoc(t) PROVE ScanBuilt'
  <2>1. PICK id \in todo[t] :
          /\ building' = [building EXCEPT ![t] = @ \cup EntriesOf(store[id], id)]
          /\ Visit(t, id)
    BY <1>22 DEF CreateIndexDoc
  <2> QED BY <1>22, <2>1 DEF CreateIndexDoc, Visit, shared
<1>23. ASSUME NEW t \in Tasks, CreateIndexInstall(t) PROVE ScanBuilt'
  BY <1>23 DEF CreateIndexInstall, Return, Goto
<1>24. ASSUME NEW t \in Tasks, DropIndex(t) PROVE ScanBuilt'
  BY <1>24 DEF DropIndex, Return, Goto
<1>25. CASE Restart
  BY <1>25 DEF Restart
<1>26. CASE UNCHANGED vars
  BY <1>26 DEF vars, shared, local
<1> QED
  BY <1>1, <1>2, <1>3, <1>4, <1>5, <1>6, <1>7, <1>8, <1>9, <1>10, <1>11, <1>12, <1>13,
     <1>14, <1>15, <1>16, <1>17, <1>18, <1>19, <1>20, <1>21, <1>22, <1>23, <1>24, <1>25, <1>26 DEF Next, Step, HandlerStep

\* A step that changes neither the collection nor the index, and takes no task
\* out of the index step of its INSERT, keeps the index complete.
LEMMA IndexUnchanged ==
  ASSUME TypeInv, IndexComplete,
         UNCHANGED <<store, indexed, entries>>,
         \A u \in Tasks : pc[u] = "ins_index" => pc'[u] = pc[u] /\ req'[u] = req[u]
  PROVE  IndexComplete'
BY DEF IndexComplete, Indexing

\* Every step keeps the index complete.
LEMMA IndexStep ==
  ASSUME NoFailureAfterChange
  PROVE  TypeInv /\ ScanBuilt /\ IndexComplete /\ [Next]_vars => IndexComplete'
<1> SUFFICES ASSUME TypeInv, ScanBuilt, IndexComplete, [Next]_vars PROVE IndexComplete'
  OBVIOUS
<1> USE DEF TypeInv, TypeOK
<1>1. ASSUME NEW t \in Tasks, Submit(t) PROVE IndexComplete'
  BY <1>1, IndexUnchanged DEF Submit, Goto, shared, local
<1>2. ASSUME NEW t \in Tasks, InsertCheck(t) PROVE IndexComplete'
  <2>1. CASE Return(t)
    BY <1>2, <2>1, IndexUnchanged DEF InsertCheck, Return, Goto, shared
  <2>2. CASE Goto(t, "ins_wal") /\ UNCHANGED <<req, local>>
    BY <1>2, <2>2, IndexUnchanged DEF InsertCheck, Goto, shared
  <2> QED BY <1>2, <2>1, <2>2 DEF InsertCheck
<1>3. ASSUME NEW t \in Tasks, InsertLog(t) PROVE IndexComplete'
  BY <1>3, IndexUnchanged DEF InsertLog, Goto
<1>4. ASSUME NEW t \in Tasks, InsertLogFails(t) PROVE IndexComplete'
  BY <1>4 DEF InsertLogFails, LogFails, NoFailureAfterChange
<1>5. ASSUME NEW t \in Tasks, InsertStore(t) PROVE IndexComplete'
  <2>1. req[t].id \in Ids /\ UNCHANGED <<indexed, entries, req>>
    BY <1>5, StatementFields DEF InsertStore, Placed
  <2>2. ASSUME NEW id \in Ids, indexed
        PROVE  Indexing(id)' \/ EntriesOf(store[id], id)' \subseteq entries
    <3>1. CASE id = req[t].id
      BY <1>5, <2>1, <3>1 DEF InsertStore, Goto, Indexing
    <3>2. CASE id # req[t].id
      <4>1. store'[id] = store[id]
        BY <1>5, <2>1, <3>2 DEF InsertStore
      <4>2. Indexing(id) => Indexing(id)'
        BY <1>5, <2>1, <4>1 DEF InsertStore, Goto, Indexing
      <4> QED BY <2>2, <4>1, <4>2 DEF IndexComplete
    <3> QED BY <3>1, <3>2
  <2> QED BY <2>1, <2>2 DEF IndexComplete
<1>6. ASSUME NEW t \in Tasks, InsertIndex(t) PROVE IndexComplete'
  <2>1. UNCHANGED <<store, indexed, req>> /\ entries \subseteq entries'
    BY <1>6 DEF InsertIndex, on_insert
  <2>2. indexed => EntriesOf(req[t].doc, req[t].id) \subseteq entries'
    BY <1>6 DEF InsertIndex, on_insert
  <2>3. ASSUME NEW id \in Ids, indexed
        PROVE  Indexing(id)' \/ EntriesOf(store[id], id) \subseteq entries'
    <3>1. CASE Indexing(id)
      <4>1. PICK u \in Tasks : pc[u] = "ins_index" /\ req[u].id = id /\ req[u].doc = store[id]
        BY <3>1 DEF Indexing
      <4>2. CASE u = t
        BY <2>2, <2>3, <4>1, <4>2
      <4>3. CASE u # t
        BY <1>6, <2>1, <4>1, <4>3 DEF InsertIndex, Goto, Indexing
      <4> QED BY <4>2, <4>3
    <3>2. CASE ~Indexing(id)
      BY <2>1, <2>3, <3>2 DEF IndexComplete
    <3> QED BY <3>1, <3>2
  <2> QED BY <2>1, <2>3 DEF IndexComplete
<1>7. ASSUME NEW t \in Tasks, DmlLockCollections(t) PROVE IndexComplete'
  BY <1>7, IndexUnchanged DEF DmlLockCollections, Goto, shared, local
<1>8. ASSUME NEW t \in Tasks, DmlLockIndexes(t) PROVE IndexComplete'
  BY <1>8, IndexUnchanged DEF DmlLockIndexes, Goto, shared
<1>9. ASSUME NEW t \in Tasks, UpdateSkip(t) PROVE IndexComplete'
  BY <1>9, IndexUnchanged DEF UpdateSkip, shared
<1>10. ASSUME NEW t \in Tasks, UpdateDoc(t) PROVE IndexComplete'
  <2>1. PICK id \in Ids :
          /\ store' = [store EXCEPT ![id] = req[t].assign.value]
          /\ entries' = on_update(store[id], req[t].assign.value, id)
    BY <1>10 DEF UpdateDoc
  <2>2. id \in Ids /\ UNCHANGED <<indexed, pc, req>>
    BY <1>10 DEF UpdateDoc
  <2>3. ASSUME NEW other \in Ids, indexed
        PROVE  Indexing(other)' \/ EntriesOf(store[other], other)' \subseteq entries'
    <3>1. CASE other # id
      <4>1. store'[other] = store[other]
        BY <2>1, <3>1
      <4>2. Indexing(other) => Indexing(other)'
        BY <2>2, <4>1 DEF Indexing
      <4>3. EntriesOf(store[other], other) \subseteq entries
              => EntriesOf(store[other], other) \subseteq entries'
        BY <2>1, <2>3, <3>1 DEF on_update, EntriesOf
      <4> QED BY <2>3, <4>1, <4>2, <4>3 DEF IndexComplete
    <3>2. CASE other = id
      <4>1. store'[id] = req[t].assign.value
        BY <2>1, <2>2
      <4>2. CASE store[id] = req[t].assign.value
        BY <2>1, <2>2, <2>3, <3>2, <4>1, <4>2 DEF on_update, IndexComplete, Indexing
      <4>3. CASE store[id] # req[t].assign.value
        BY <2>1, <2>3, <3>2, <4>1, <4>3 DEF on_update
      <4> QED BY <4>2, <4>3
    <3> QED BY <3>1, <3>2
  <2> QED BY <2>2, <2>3 DEF IndexComplete
<1>11. ASSUME NEW t \in Tasks, UpdateFails(t) PROVE IndexComplete'
  <2>1. req[t].assign \in Assignments
    BY <1>11, StatementFields DEF UpdateFails
  <2>2. UNCHANGED <<store, log>>
    BY <1>11, <2>1 DEF UpdateFails, LogFails, NoFailureAfterChange
  <2> QED BY <1>11, <2>2, IndexUnchanged DEF UpdateFails, Return, Goto
<1>12. ASSUME NEW t \in Tasks, RemoveDoc(t) PROVE IndexComplete'
  <2>1. PICK id \in todo[t] :
          /\ store' = [store EXCEPT ![id] = NoDoc]
          /\ entries' = on_remove(store[id], id)
    BY <1>12 DEF RemoveDoc
  <2>2. id \in Ids /\ UNCHANGED <<indexed, pc, req>>
    BY <1>12 DEF RemoveDoc
  <2>3. ASSUME NEW other \in Ids, indexed
        PROVE  Indexing(other)' \/ EntriesOf(store[other], other)' \subseteq entries'
    <3>1. CASE other # id
      <4>1. store'[other] = store[other]
        BY <2>1, <3>1
      <4>2. Indexing(other) => Indexing(other)'
        BY <2>2, <4>1 DEF Indexing
      <4>3. EntriesOf(store[other], other) \subseteq entries
              => EntriesOf(store[other], other) \subseteq entries'
        BY <2>1, <2>3, <3>1 DEF on_remove, EntriesOf
      <4> QED BY <2>3, <4>1, <4>2, <4>3 DEF IndexComplete
    <3>2. CASE other = id
      BY <2>1, <2>2, <3>2, NoDocEntries
    <3> QED BY <3>1, <3>2
  <2> QED BY <2>2, <2>3 DEF IndexComplete
<1>13. ASSUME NEW t \in Tasks, RemoveFails(t) PROVE IndexComplete'
  BY <1>13 DEF RemoveFails, LogFails, NoFailureAfterChange
<1>14. ASSUME NEW t \in Tasks, DmlUnlock(t) PROVE IndexComplete'
  BY <1>14, IndexUnchanged DEF DmlUnlock, Goto, shared, local
<1>15. ASSUME NEW t \in Tasks, Emit(t) PROVE IndexComplete'
  BY <1>15, IndexUnchanged DEF Emit
<1>16. ASSUME NEW t \in Tasks, Respond(t) PROVE IndexComplete'
  BY <1>16, IndexUnchanged DEF Respond, Return, shared, Goto
<1>17. ASSUME NEW t \in Tasks, FindLockCollections(t) PROVE IndexComplete'
  BY <1>17, IndexUnchanged DEF FindLockCollections, Goto, shared, local
<1>18. ASSUME NEW t \in Tasks, FindRun(t) PROVE IndexComplete'
  BY <1>18, IndexUnchanged DEF FindRun, Return, shared, Goto
<1>19. ASSUME NEW t \in Tasks, Count(t) PROVE IndexComplete'
  BY <1>19, IndexUnchanged DEF Count, Return, shared, Goto
<1>20. ASSUME NEW t \in Tasks, CreateIndexLockCollections(t) PROVE IndexComplete'
  BY <1>20, IndexUnchanged DEF CreateIndexLockCollections, Goto, shared, local
<1>21. ASSUME NEW t \in Tasks, CreateIndexLockIndexes(t) PROVE IndexComplete'
  BY <1>21, IndexUnchanged DEF CreateIndexLockIndexes, Goto, shared
<1>22. ASSUME NEW t \in Tasks, CreateIndexDoc(t) PROVE IndexComplete'
  BY <1>22, IndexUnchanged DEF CreateIndexDoc, shared
<1>23. ASSUME NEW t \in Tasks, CreateIndexInstall(t) PROVE IndexComplete'
  <2>1. \A id \in Ids : EntriesOf(store[id], id) \subseteq building[t]
    BY <1>23 DEF CreateIndexInstall, ScanBuilt
  <2> QED BY <1>23, <2>1 DEF CreateIndexInstall, IndexComplete
<1>24. ASSUME NEW t \in Tasks, DropIndex(t) PROVE IndexComplete'
  BY <1>24 DEF DropIndex, IndexComplete
<1>25. CASE Restart
  BY <1>25 DEF Restart, IndexComplete
<1>26. CASE UNCHANGED vars
  BY <1>26 DEF vars, shared, IndexComplete, Indexing
<1> QED
  BY <1>1, <1>2, <1>3, <1>4, <1>5, <1>6, <1>7, <1>8, <1>9, <1>10, <1>11, <1>12, <1>13,
     <1>14, <1>15, <1>16, <1>17, <1>18, <1>19, <1>20, <1>21, <1>22, <1>23, <1>24, <1>25, <1>26 DEF Next, Step, HandlerStep

\* The inductive invariant of IndexComplete.
IndexInv == TypeInv /\ LocksExclusive /\ ScanBuilt /\ IndexComplete

\* The invariant holds in every reachable state.
LEMMA IndexInvariant ==
  ASSUME NoFailureAfterChange
  PROVE  Spec => []IndexInv
<1>1. Init => IndexInv
  <2> SUFFICES ASSUME Init PROVE IndexInv
    OBVIOUS
  <2>1. TypeInv
    BY TypeInit
  <2>2. LocksExclusive
    BY DEF Init, LocksExclusive, CollWriters, CollReaders, IdxWriters
  <2>3. ScanBuilt /\ IndexComplete
    BY DEF Init, ScanBuilt, IndexComplete
  <2> QED BY <2>1, <2>2, <2>3 DEF IndexInv
<1>2. IndexInv /\ [Next]_vars => IndexInv'
  BY TypeStep, PlacedStep, LocksStep, ScanBuiltStep, IndexStep DEF IndexInv, TypeInv
<1> QED BY <1>1, <1>2, PTL DEF Spec

\* If nothing fails between a change in memory and its record, then, however
\* many statements run at the same time and whoever inserts which ids, no
\* document of the collection is missing from the index.
THEOREM IndexCorrect ==
  ASSUME NoFailureAfterChange
  PROVE  Spec => []IndexComplete
<1>1. IndexInv => IndexComplete
  BY DEF IndexInv
<1> QED BY IndexInvariant, <1>1, PTL

\* An entry tells the truth unless an INSERT of its document was overtaken.
EntriesTrue == \A e \in entries : store[e[2]] = e[1] \/ e[2] \in raced

\* So does the document an INSERT is about to index.
InsertTrue ==
  \A t \in Tasks :
    pc[t] = "ins_index" => store[req[t].id] = req[t].doc \/ req[t].id \in raced

\* What CREATE INDEX has gathered is true as long as it holds its read lock.
BuildingTrue ==
  \A t \in Tasks :
    /\ pc[t] # "ci_scan" => building[t] = {}
    /\ \A e \in building[t] : store[e[2]] = e[1]

Fresh ==
  /\ EntriesTrue /\ InsertTrue /\ BuildingTrue
  /\ indexed \/ entries = {}

\* A step of t that changes neither the collection nor the index, does not take
\* t to the index step of an INSERT and gathers nothing, keeps the index fresh.
LEMMA FreshQuiet ==
  ASSUME TypeOK, Fresh, NEW t \in Tasks,
         UNCHANGED <<store, indexed, entries>>, raced \subseteq raced',
         \A u \in Tasks \ {t} : pc'[u] = pc[u] /\ req'[u] = req[u] /\ building'[u] = building[u],
         pc'[t] # "ins_index",
         \/ building'[t] = {}
         \/ building'[t] = building[t] /\ (pc[t] = "ci_scan" => pc'[t] = "ci_scan")
  PROVE  Fresh'
<1>1. EntriesTrue'
  BY DEF Fresh, EntriesTrue
<1>2. InsertTrue'
  BY DEF Fresh, InsertTrue
<1>3. BuildingTrue'
  BY DEF Fresh, BuildingTrue
<1> QED BY <1>1, <1>2, <1>3 DEF Fresh

\* A step that holds the write lock of collections finds no index being built.
LEMMA NothingGathered ==
  ASSUME Fresh, CollReaders = {}
  PROVE  \A u \in Tasks : building[u] = {}
BY DEF Fresh, BuildingTrue, CollReaders

\* Every step keeps the index fresh.
LEMMA FreshStep ==
  ASSUME NoFailureAfterChange
  PROVE  TypeInv /\ LocksExclusive /\ Fresh /\ [Next]_vars => Fresh'
<1> SUFFICES ASSUME TypeInv, LocksExclusive, Fresh, [Next]_vars PROVE Fresh'
  OBVIOUS
<1>0. TypeOK
  BY DEF TypeInv
<1>1. CASE UNCHANGED vars
  BY <1>1 DEF vars, shared, local, Fresh, EntriesTrue, InsertTrue, BuildingTrue
<1>2. CASE Restart
  BY <1>2 DEF Restart, Fresh, EntriesTrue, InsertTrue, BuildingTrue
<1>3. ASSUME NEW t \in Tasks, Submit(t) PROVE Fresh'
  <2>1. building[t] = {}
    BY <1>3 DEF Submit, Fresh, BuildingTrue
  <2> QED BY <1>0, <1>3, <2>1, FreshQuiet DEF Submit, Goto, shared, local, TypeOK
<1>4. ASSUME NEW t \in Tasks, Step(t) PROVE Fresh'
  <2>0. HandlerStep(t) /\ raced' = raced \cup Overtaken
    BY <1>4 DEF Step
  <2>00. raced \subseteq raced'
    BY <2>0
  <2>1. CASE InsertCheck(t)
    <3>1. building[t] = {}
      BY <2>1 DEF InsertCheck, Fresh, BuildingTrue
    <3>2. CASE Return(t)
      BY <1>0, <2>00, <2>1, <3>2, FreshQuiet DEF InsertCheck, Return, Goto, shared, TypeOK
    <3>3. CASE Goto(t, "ins_wal") /\ UNCHANGED <<req, local>>
      BY <1>0, <2>00, <2>1, <3>1, <3>3, FreshQuiet DEF InsertCheck, Goto, shared, local, TypeOK
    <3> QED BY <2>1, <3>2, <3>3 DEF InsertCheck
  <2>2. CASE InsertLog(t) \/ DmlLockCollections(t) \/ DmlLockIndexes(t) \/ UpdateSkip(t)
             \/ DmlUnlock(t) \/ Emit(t) \/ FindLockCollections(t)
             \/ CreateIndexLockCollections(t) \/ CreateIndexLockIndexes(t)
    <3>1. UNCHANGED <<store, indexed, entries, req, building>>
      BY <2>2 DEF InsertLog, DmlLockCollections, DmlLockIndexes, UpdateSkip, DmlUnlock, Emit,
                  FindLockCollections, CreateIndexLockCollections, CreateIndexLockIndexes,
                  shared, local
    <3>2. /\ \A u \in Tasks \ {t} : pc'[u] = pc[u]
          /\ pc[t] # "ci_scan" /\ pc'[t] # "ins_index"
      BY <1>0, <2>2
      DEF InsertLog, DmlLockCollections, DmlLockIndexes, UpdateSkip, DmlUnlock, Emit,
          FindLockCollections, CreateIndexLockCollections, CreateIndexLockIndexes, Goto, TypeOK
    <3> QED BY <1>0, <2>00, <3>1, <3>2, FreshQuiet
  <2>3. CASE InsertLogFails(t) \/ UpdateFails(t) \/ RemoveFails(t) \/ Respond(t)
             \/ FindRun(t) \/ Count(t)
    <3>1. Return(t) /\ UNCHANGED <<indexed, entries>>
      BY <2>3 DEF InsertLogFails, UpdateFails, RemoveFails, Respond, FindRun, Count, shared
    <3>2. UNCHANGED store
      <4>1. CASE UpdateFails(t)
        <5>1. req[t].assign \in Assignments
          BY <1>0, <4>1, StatementFields DEF UpdateFails, TypeOK
        <5> QED BY <4>1, <5>1 DEF UpdateFails, LogFails, NoFailureAfterChange
      <4>2. CASE ~UpdateFails(t)
        BY <2>3, <4>2 DEF InsertLogFails, RemoveFails, Respond, FindRun, Count, shared,
                          LogFails, NoFailureAfterChange
      <4> QED BY <4>1, <4>2
    <3> QED BY <1>0, <2>00, <3>1, <3>2, FreshQuiet DEF Return, Goto, TypeOK
  <2>4. CASE InsertStore(t)
    <3>1. /\ req[t].id \in Ids /\ req[t].doc \in Docs /\ pc[t] = "ins_store"
          /\ store' = [store EXCEPT ![req[t].id] = req[t].doc]
          /\ pc' = [pc EXCEPT ![t] = "ins_index"]
          /\ UNCHANGED <<indexed, entries, req, building>>
      BY <2>4, StatementFields DEF InsertStore, Goto, local, Placed, TypeInv, TypeOK
    <3>2. \A id \in Ids : id \in raced' \/ store[id] = NoDoc \/ store'[id] = store[id]
      BY <1>0, <2>0, <3>1 DEF Overtaken, Present, TypeOK
    <3>3. EntriesTrue'
      <4> SUFFICES ASSUME NEW e \in entries PROVE store'[e[2]] = e[1] \/ e[2] \in raced'
        BY <3>1 DEF EntriesTrue
      <4>1. e[2] \in Ids /\ e[1] # NoDoc
        BY <1>0, MarkersDistinct DEF TypeOK, Docs
      <4> QED BY <2>00, <3>2, <4>1 DEF Fresh, EntriesTrue
    <3>4. InsertTrue'
      <4> SUFFICES ASSUME NEW u \in Tasks, pc'[u] = "ins_index"
                   PROVE  store'[req[u].id] = req[u].doc \/ req[u].id \in raced'
        BY <3>1 DEF InsertTrue
      <4>1. CASE u = t
        BY <1>0, <3>1, <4>1 DEF TypeOK
      <4>2. CASE u # t
        <5>1. pc[u] = "ins_index" /\ req[u].id \in Ids /\ req[u].doc # NoDoc
          BY <1>0, <3>1, <4>2, StatementFields, MarkersDistinct DEF TypeInv, TypeOK, Placed
        <5> QED BY <2>00, <3>2, <5>1 DEF Fresh, InsertTrue
      <4> QED BY <4>1, <4>2
    <3>5. BuildingTrue'
      BY <2>4, <3>1, NothingGathered DEF InsertStore, CollWritable, BuildingTrue
    <3> QED BY <3>1, <3>3, <3>4, <3>5 DEF Fresh
  <2>5. CASE InsertIndex(t)
    <3>1. /\ req[t].id \in Ids /\ pc[t] = "ins_index"
          /\ pc' = [pc EXCEPT ![t] = "emit"]
          /\ entries' = on_insert(req[t].doc, req[t].id)
          /\ UNCHANGED <<store, indexed, req, building>>
      BY <2>5, StatementFields DEF InsertIndex, Goto, local, Placed, TypeInv, TypeOK
    <3>2. EntriesTrue'
      <4> SUFFICES ASSUME NEW e \in entries' PROVE store[e[2]] = e[1] \/ e[2] \in raced'
        BY <3>1 DEF EntriesTrue
      <4>1. CASE e \in entries
        BY <2>00, <4>1 DEF Fresh, EntriesTrue
      <4>2. CASE e \notin entries
        <5>1. e = <<req[t].doc, req[t].id>>
          BY <3>1, <4>2 DEF on_insert, EntriesOf
        <5> QED BY <2>00, <3>1, <5>1 DEF Fresh, InsertTrue
      <4> QED BY <4>1, <4>2
    <3>3. InsertTrue'
      BY <1>0, <2>00, <3>1 DEF Fresh, InsertTrue, TypeOK
    <3>4. BuildingTrue'
      BY <1>0, <3>1 DEF Fresh, BuildingTrue, TypeOK
    <3>5. (indexed \/ entries = {})'
      BY <3>1 DEF Fresh, on_insert
    <3> QED BY <3>2, <3>3, <3>4, <3>5 DEF Fresh
  <2>6. ASSUME NEW id \in Present, NEW after \in Docs \cup {NoDoc},
               store' = [store EXCEPT ![id] = after],
               entries' = (IF indexed /\ store[id] # after
                           THEN (entries \ EntriesOf(store[id], id)) \cup EntriesOf(after, id)
                           ELSE entries),
               pc[t] = "dml_scan", UNCHANGED <<indexed, pc, req, building>>
        PROVE  Fresh'
    <3>1. id \in Ids /\ store[id] # NoDoc
      BY DEF Present
    <3>2. \A u \in Tasks : building[u] = {}
      BY <2>6, NothingGathered DEF LocksExclusive, CollWriters
    <3>3. EntriesTrue'
      <4> SUFFICES ASSUME NEW e \in entries' PROVE store'[e[2]] = e[1] \/ e[2] \in raced'
        BY DEF EntriesTrue
      <4>1. CASE e \in entries /\ e[2] # id
        BY <1>0, <2>00, <2>6, <4>1 DEF Fresh, EntriesTrue, TypeOK
      <4>2. CASE e \in entries /\ e[2] = id
        <5>1. CASE store[id] = after
          BY <1>0, <2>00, <2>6, <4>2, <5>1 DEF Fresh, EntriesTrue, TypeOK
        <5>2. CASE store[id] # after /\ e[1] = after
          BY <1>0, <2>6, <3>1, <4>2, <5>2 DEF TypeOK
        <5>3. CASE store[id] # after /\ e[1] # after
          <6>1. e[1] # store[id]
            <7>1. e = <<e[1], e[2]>> /\ e[1] \in Values
              BY <1>0, <4>2 DEF TypeOK
            <7>2. indexed
              BY <4>2 DEF Fresh
            <7>3. e \notin EntriesOf(store[id], id)
              BY <2>6, <5>3, <7>2 DEF EntriesOf
            <7> QED BY <4>2, <7>1, <7>3 DEF EntriesOf
          <6> QED BY <2>00, <4>2, <6>1 DEF Fresh, EntriesTrue
        <5> QED BY <5>1, <5>2, <5>3
      <4>3. CASE e \notin entries
        <5>1. e = <<after, id>>
          BY <2>6, <4>3 DEF EntriesOf
        <5> QED BY <1>0, <2>6, <3>1, <5>1 DEF TypeOK
      <4> QED BY <4>1, <4>2, <4>3
    <3>4. InsertTrue'
      <4> SUFFICES ASSUME NEW u \in Tasks, pc[u] = "ins_index"
                   PROVE  store'[req[u].id] = req[u].doc \/ req[u].id \in raced'
        BY <2>6 DEF InsertTrue
      <4>1. CASE req[u].id # id
        BY <1>0, <2>00, <2>6, <4>1 DEF Fresh, InsertTrue, TypeOK
      <4>2. CASE req[u].id = id /\ store'[id] = store[id]
        BY <2>00, <4>2 DEF Fresh, InsertTrue
      <4>3. CASE req[u].id = id /\ store'[id] # store[id]
        BY <2>0, <4>3 DEF Overtaken
      <4> QED BY <4>1, <4>2, <4>3
    <3>5. BuildingTrue'
      BY <2>6, <3>2 DEF BuildingTrue
    <3>6. (indexed \/ entries = {})'
      BY <2>6 DEF Fresh
    <3> QED BY <3>3, <3>4, <3>5, <3>6 DEF Fresh
  <2>7. CASE UpdateDoc(t)
    <3>1. PICK id \in Ids :
            /\ UpdateTarget(t, id)
            /\ store' = [store EXCEPT ![id] = req[t].assign.value]
            /\ entries' = on_update(store[id], req[t].assign.value, id)
      BY <2>7 DEF UpdateDoc
    <3>2. req[t].assign.value \in Docs /\ id \in Present
      BY <1>0, <2>7, <3>1, StatementFields, AssignmentFields, FilterFields, MarkersDistinct
      DEF UpdateDoc, UpdateTarget, Present, TypeOK
    <3> QED BY <2>6, <2>7, <3>1, <3>2 DEF UpdateDoc, on_update
  <2>8. CASE RemoveDoc(t)
    <3>1. PICK id \in todo[t] :
            /\ store' = [store EXCEPT ![id] = NoDoc]
            /\ entries' = on_remove(store[id], id)
      BY <2>8 DEF RemoveDoc
    <3>2. id \in Present \/ store[id] = NoDoc
      BY <1>0 DEF Present, TypeOK
    <3>3. CASE id \in Present
      <4>1. EntriesOf(NoDoc, id) = {} /\ store[id] # NoDoc
        BY <3>3, NoDocEntries DEF Present
      <4> QED BY <2>6, <2>8, <3>1, <3>3, <4>1 DEF RemoveDoc, on_remove
    <3>4. CASE store[id] = NoDoc
      <4>1. store' = store /\ entries' = entries
        BY <1>0, <3>1, <3>4, NoDocEntries DEF on_remove, TypeOK
      <4> QED BY <1>0, <2>00, <2>8, <4>1, FreshQuiet DEF RemoveDoc
    <3> QED BY <3>2, <3>3, <3>4
  <2>9. CASE CreateIndexDoc(t)
    <3>1. PICK id \in todo[t] :
            building' = [building EXCEPT ![t] = @ \cup EntriesOf(store[id], id)]
      BY <2>9 DEF CreateIndexDoc
    <3>2. pc[t] = "ci_scan" /\ UNCHANGED <<store, indexed, entries, pc, req>>
      BY <2>9 DEF CreateIndexDoc, shared
    <3>3. EntriesTrue' /\ InsertTrue'
      BY <2>00, <3>2 DEF Fresh, EntriesTrue, InsertTrue
    <3>4. BuildingTrue'
      <4>1. \A u \in Tasks \ {t} : building'[u] = building[u]
        BY <1>0, <3>1 DEF TypeOK
      <4>2. \A e \in building'[t] : store[e[2]] = e[1]
        BY <1>0, <3>1 DEF Fresh, BuildingTrue, EntriesOf, TypeOK
      <4> QED BY <3>2, <4>1, <4>2 DEF Fresh, BuildingTrue
    <3> QED BY <3>2, <3>3, <3>4 DEF Fresh
  <2>10. CASE CreateIndexInstall(t) \/ DropIndex(t)
    <3>1. /\ (indexed' = TRUE /\ entries' = building[t]) \/ entries' = {}
          /\ Return(t) /\ UNCHANGED store
      BY <2>10 DEF CreateIndexInstall, DropIndex
    <3>2. EntriesTrue' /\ (indexed \/ entries = {})'
      BY <2>00, <3>1 DEF Fresh, EntriesTrue, BuildingTrue
    <3>3. InsertTrue'
      BY <1>0, <2>00, <3>1 DEF Fresh, InsertTrue, Return, Goto, TypeOK
    <3>4. BuildingTrue'
      BY <1>0, <3>1 DEF Fresh, BuildingTrue, Return, Goto, TypeOK
    <3> QED BY <3>2, <3>3, <3>4 DEF Fresh
  <2> QED
    BY <2>0, <2>1, <2>2, <2>3, <2>4, <2>5, <2>7, <2>8, <2>9, <2>10 DEF HandlerStep
<1> QED BY <1>1, <1>2, <1>3, <1>4 DEF Next

\* A complete and fresh index answers every filter as it should.
LEMMA CompleteFindsExactly == TypeOK /\ IndexComplete /\ Fresh => FindExact
<1> SUFFICES ASSUME TypeOK, IndexComplete, Fresh, NEW f \in Filters, NEW id \in Ids,
                    ~Indexing(id)
             PROVE  LET times == FindResult(f)[id]
                        owed == IF Owed(f, id) THEN 1 ELSE 0
                    IN  \/ times = owed
                        \/ /\ times > owed /\ id \in raced
                           /\ id \in Present /\ store[id] \in f.match
  BY DEF FindExact
<1> DEFINE S == {v \in f.keys : <<v, id>> \in entries}
<1>1. CASE ~(id \in Present /\ store[id] \in f.match)
  BY <1>1 DEF FindResult, Owed
<1>2. CASE id \in Present /\ store[id] \in f.match /\ ~UsesIndex(f)
  BY <1>2 DEF FindResult, Owed, Candidates
<1>3. CASE id \in Present /\ store[id] \in f.match /\ UsesIndex(f)
  <2>1. FindResult(f)[id] = Cardinality(S) /\ (Owed(f, id) <=> store[id] \in f.keys)
    BY <1>3 DEF FindResult, Owed, Candidates
  <2>2. store[id] \in f.keys => store[id] \in S
    BY <1>3, FilterFields DEF UsesIndex, IndexComplete, EntriesOf
  <2>3. IsFiniteSet(S)
    <3>1. IsFiniteSet(f.keys) /\ S \subseteq f.keys
      BY KeysFinite
    <3> QED BY <3>1, FS_Subset
  <2>4. Cardinality(S) \in Nat /\ (Cardinality(S) = 0 <=> S = {})
    BY <2>3, FS_CardinalityType, FS_EmptySet
  <2>5. CASE id \in raced
    <3>1. store[id] \in f.keys => Cardinality(S) # 0
      BY <2>2, <2>4
    <3> QED BY <1>3, <2>1, <2>4, <2>5, <3>1
  <2>6. CASE id \notin raced
    <3>1. \A v \in S : v = store[id]
      BY <2>6 DEF Fresh, EntriesTrue
    <3>2. CASE store[id] \in f.keys
      <4>1. S = {store[id]}
        BY <2>2, <3>1, <3>2
      <4>2. Cardinality(S) = 1
        BY <4>1, FS_Singleton
      <4> QED BY <2>1, <3>2, <4>2
    <3>3. CASE store[id] \notin f.keys
      <4>1. S = {}
        BY <3>1, <3>3
      <4>2. Cardinality(S) = 0
        BY <4>1, <2>4
      <4> QED BY <2>1, <3>3, <4>2
    <3> QED BY <3>2, <3>3
  <2> QED BY <2>5, <2>6
<1> QED BY <1>1, <1>2, <1>3

\* Under the same hypothesis a FIND returns what a scan of the collection would,
\* short of the documents without the field where it reads the index, and each
\* document once unless an INSERT of it was overtaken: the entries are those of
\* the documents although execute_insert indexes outside the lock it stored
\* under, and although execute_find does not drop repeated candidates.
THEOREM FindCorrect ==
  ASSUME NoFailureAfterChange
  PROVE  Spec => []FindExact
<1>1. Init => IndexInv /\ Fresh
  <2> SUFFICES ASSUME Init PROVE IndexInv /\ Fresh
    OBVIOUS
  <2>1. LocksExclusive
    BY DEF Init, LocksExclusive, CollWriters, CollReaders, IdxWriters
  <2>2. ScanBuilt /\ IndexComplete /\ Fresh
    BY DEF Init, ScanBuilt, IndexComplete, Fresh, EntriesTrue, InsertTrue, BuildingTrue
  <2> QED BY <2>1, <2>2, TypeInit DEF IndexInv
<1>2. IndexInv /\ Fresh /\ [Next]_vars => (IndexInv /\ Fresh)'
  BY TypeStep, PlacedStep, LocksStep, ScanBuiltStep, IndexStep, FreshStep
  DEF IndexInv, TypeInv
<1>3. IndexInv /\ Fresh => FindExact
  BY CompleteFindsExactly DEF IndexInv, TypeInv
<1> QED BY <1>1, <1>2, <1>3, PTL DEF Spec

-----------------------------------------------------------------------------
(* Documents that a restart would not bring back.                          *)

\* Every step keeps the documents of the collection in the log, although an
\* UPDATE or REMOVE may fail after it has changed the collection.
LEMMA PhantomStep ==
  TypeInv /\ ScanPresent /\ InsertLogged /\ NoPhantomDocuments /\ [Next]_vars => NoPhantomDocuments'
<1> SUFFICES ASSUME TypeInv, ScanPresent, InsertLogged, NoPhantomDocuments, [Next]_vars
             PROVE  NoPhantomDocuments'
  OBVIOUS
<1> USE DEF TypeInv, TypeOK, NoPhantomDocuments, Present
<1>1. ASSUME NEW t \in Tasks, InsertLog(t) PROVE NoPhantomDocuments'
  <2>1. req[t].kind = "insert" /\ req[t].id \in Ids /\ req[t].doc \in Docs
    BY <1>1, StatementFields DEF InsertLog, Placed
  <2>2. \A other \in Ids : Replayed(log', other) =
          IF other # req[t].id THEN Replayed(log, other) ELSE FromPayload(req[t].doc)
    BY <1>1, <2>1, ReplayLogAppend DEF InsertLog, Ops
  <2>3. FromPayload(req[t].doc) # NoDoc
    BY <2>1, FromPayloadType, MarkersDistinct
  <2> QED BY <1>1, <2>1, <2>2, <2>3 DEF InsertLog
<1>2. ASSUME NEW t \in Tasks, InsertStore(t) PROVE NoPhantomDocuments'
  <2>1. /\ req[t].id \in Ids /\ req[t].doc \in Docs
        /\ Replayed(log, req[t].id) = FromPayload(req[t].doc)
        /\ FromPayload(req[t].doc) # NoDoc
    BY <1>2, StatementFields, FromPayloadType, MarkersDistinct
    DEF InsertStore, Placed, InsertLogged
  <2>2. \A id \in Ids : store'[id] = IF id = req[t].id THEN req[t].doc ELSE store[id]
    BY <1>2, <2>1 DEF InsertStore
  <2> QED BY <1>2, <2>1, <2>2 DEF InsertStore
<1>3. ASSUME NEW t \in Tasks, UpdateDoc(t) PROVE NoPhantomDocuments'
  <2>1. PICK id \in Ids :
          /\ UpdateTarget(t, id)
          /\ store' = [store EXCEPT ![id] = req[t].assign.value]
          /\ LogAppend(t, "Update", id, req[t].assign.value)
    BY <1>3 DEF UpdateDoc
  <2>2. req[t].assign.value \in Docs /\ FromPayload(req[t].assign.value) # NoDoc
    BY <1>3, StatementFields, AssignmentFields, FromPayloadType, MarkersDistinct DEF UpdateDoc
  <2>3. \A other \in Ids : Replayed(log', other) =
          IF other # id THEN Replayed(log, other) ELSE FromPayload(req[t].assign.value)
    BY <2>1, <2>2, ReplayLogAppend DEF Ops
  <2> QED BY <2>1, <2>2, <2>3
<1>4. ASSUME NEW t \in Tasks, UpdateFails(t) PROVE NoPhantomDocuments'
  <2>1. \A id \in Ids : UpdateTarget(t, id) => store[id] # NoDoc
    BY <1>4, StatementFields, FilterFields, MarkersDistinct DEF UpdateFails, UpdateTarget
  <2>2. \A id \in Ids : store'[id] # NoDoc => store[id] # NoDoc
    BY <1>4, <2>1 DEF UpdateFails
  <2>3. req[t].assign.value \in Docs /\ FromPayload(req[t].assign.value) # NoDoc
    BY <1>4, StatementFields, AssignmentFields, FromPayloadType, MarkersDistinct
    DEF UpdateFails
  <2>4. \A id \in Ids : Replayed(log', id) = Replayed(log, id) \/ Replayed(log', id) # NoDoc
    BY <1>4, <2>3, ReplayLogFails DEF UpdateFails, Ops
  <2> QED BY <2>2, <2>4
<1>5. ASSUME NEW t \in Tasks, RemoveDoc(t) PROVE NoPhantomDocuments'
  <2>1. PICK id \in todo[t] :
          /\ store' = [store EXCEPT ![id] = NoDoc]
          /\ LogAppend(t, "Delete", id, NoDoc)
    BY <1>5 DEF RemoveDoc
  <2>2. id \in Ids
    BY <1>5, <2>1 DEF RemoveDoc, ScanPresent
  <2>3. \A other \in Ids : other # id => Replayed(log', other) = Replayed(log, other)
    BY <2>1, <2>2, ReplayLogAppend DEF Ops
  <2> QED BY <2>1, <2>3
<1>6. ASSUME NEW t \in Tasks, RemoveFails(t) PROVE NoPhantomDocuments'
  <2>1. PICK id \in todo[t] :
          store' = [store EXCEPT ![id] = NoDoc] /\ LogFails("Delete", id, NoDoc)
    BY <1>6 DEF RemoveFails
  <2>2. id \in Ids
    BY <1>6, <2>1 DEF RemoveFails, ScanPresent
  <2>3. \A other \in Ids : other # id => Replayed(log', other) = Replayed(log, other)
    BY <2>1, <2>2, ReplayLogFails DEF Ops
  <2> QED BY <2>1, <2>3
<1>7. CASE UNCHANGED <<store, log>>
  BY <1>7
<1>12. ASSUME NEW t \in Tasks, InsertLogFails(t) PROVE NoPhantomDocuments'
  <2>1. req[t].id \in Ids /\ req[t].doc \in Docs /\ FromPayload(req[t].doc) # NoDoc
    BY <1>12, StatementFields, FromPayloadType, MarkersDistinct DEF InsertLogFails, Placed
  <2>2. \A id \in Ids : Replayed(log', id) = Replayed(log, id) \/ Replayed(log', id) # NoDoc
    BY <1>12, <2>1, ReplayLogFails DEF InsertLogFails, Ops
  <2> QED BY <1>12, <2>2 DEF InsertLogFails
<1>8. CASE Restart
  BY <1>8 DEF Restart
<1>9. ASSUME NEW t \in Tasks,
             \/ Submit(t) \/ InsertCheck(t) \/ InsertIndex(t)
             \/ DmlLockCollections(t) \/ DmlLockIndexes(t) \/ UpdateSkip(t) \/ DmlUnlock(t)
             \/ Emit(t) \/ Respond(t)
      PROVE  UNCHANGED <<store, log>>
  BY <1>9 DEF Submit, InsertCheck, InsertIndex, DmlLockCollections,
              DmlLockIndexes, UpdateSkip, DmlUnlock, Emit, Respond, shared
<1>10. ASSUME NEW t \in Tasks,
              \/ FindLockCollections(t) \/ FindRun(t) \/ Count(t)
              \/ CreateIndexLockCollections(t) \/ CreateIndexLockIndexes(t)
              \/ CreateIndexDoc(t) \/ CreateIndexInstall(t) \/ DropIndex(t)
       PROVE  UNCHANGED <<store, log>>
  BY <1>10 DEF FindLockCollections, FindRun, Count, CreateIndexLockCollections,
               CreateIndexLockIndexes, CreateIndexDoc, CreateIndexInstall, DropIndex, shared
<1>11. CASE UNCHANGED vars
  BY <1>7, <1>11 DEF vars, shared
<1> QED BY <1>1, <1>2, <1>3, <1>4, <1>5, <1>6, <1>7, <1>8, <1>9, <1>10, <1>11, <1>12
       DEF Next, Step, HandlerStep

\* If no id has two inserters, then a restart brings back every document that
\* readers can see, in this or another version, whatever fails: execute_insert
\* logs before it stores, and only documents that exist are changed in place.
THEOREM PhantomCorrect ==
  ASSUME IdsOwned
  PROVE  Spec => []NoPhantomDocuments
<1> DEFINE PInv == /\ TypeInv /\ LocksExclusive /\ ScanPresent
                   /\ InsertAbsent /\ InsertLogged /\ NoPhantomDocuments
<1>1. Init => PInv
  <2> SUFFICES ASSUME Init PROVE PInv
    OBVIOUS
  <2>1. LocksExclusive
    BY DEF Init, LocksExclusive, CollWriters, CollReaders, IdxWriters
  <2>2. ScanPresent /\ InsertAbsent /\ InsertLogged /\ NoPhantomDocuments
    BY DEF Init, ScanPresent, InsertAbsent, InsertLogged, NoPhantomDocuments, Present
  <2> QED BY <2>1, <2>2, TypeInit
<1>2. PInv /\ [Next]_vars => PInv'
  BY TypeStep, PlacedStep, LocksStep, ScanPresentStep, InsertAbsentStep,
     InsertLoggedStep, PhantomStep DEF TypeInv
<1>3. PInv => NoPhantomDocuments
  OBVIOUS
<1> QED BY <1>1, <1>2, <1>3, PTL DEF Spec

-----------------------------------------------------------------------------
(* The events.                                                             *)

\* e is the event of a record of the log, logged since the engine was opened.
Announces(e) == e.seq \in (base + 1)..Len(log) /\ log[e.seq].id = e.id

\* No two events are about one record, whether sent or still to be sent.
EventInv ==
  /\ base <= Len(log)
  /\ \A i \in 1..Len(events) : Announces(events[i])
  /\ \A t \in Tasks : \A m \in 1..Len(pending[t]) : Announces(pending[t][m])
  /\ \A i, j \in 1..Len(events) : events[i].seq = events[j].seq => i = j
  /\ \A t, u \in Tasks : \A m \in 1..Len(pending[t]), n \in 1..Len(pending[u]) :
       pending[t][m].seq = pending[u][n].seq => t = u /\ m = n
  /\ \A i \in 1..Len(events) : \A t \in Tasks : \A m \in 1..Len(pending[t]) :
       events[i].seq # pending[t][m].seq

\* What a step does to the log and the events.
Logs(t) ==
  /\ \E op \in Ops, id \in Ids, doc \in Docs \cup {NoDoc} : LogAppend(t, op, id, doc)
  /\ UNCHANGED <<base, events>>

\* A failed append may leave a record that nobody announces.
Drops(t) ==
  /\ pending' = [pending EXCEPT ![t] = <<>>]
  /\ log' = log \/ \E r \in LogRecords : log' = Append(log, r)
  /\ UNCHANGED <<base, events>>

\* The error returns send nothing.
LEMMA FailuresDrop ==
  ASSUME TypeInv, NEW t \in Tasks, InsertLogFails(t) \/ UpdateFails(t) \/ RemoveFails(t)
  PROVE  Drops(t)
<1> USE DEF Return
<1>1. CASE InsertLogFails(t)
  <2>1. Record("Insert", req[t].id, req[t].doc) \in LogRecords
    BY <1>1, StatementFields DEF InsertLogFails, TypeInv, TypeOK, Placed, LogRecords, Record, Ops
  <2> QED BY <1>1, <2>1 DEF InsertLogFails, LogFails, Drops
<1>2. CASE UpdateFails(t)
  <2>1. \A id \in Ids : Record("Update", id, req[t].assign.value) \in LogRecords
    BY <1>2, StatementFields, AssignmentFields
    DEF UpdateFails, TypeInv, TypeOK, LogRecords, Record, Ops
  <2> QED BY <1>2, <2>1 DEF UpdateFails, LogFails, Drops
<1>3. CASE RemoveFails(t)
  <2>1. \A id \in todo[t] : Record("Delete", id, NoDoc) \in LogRecords
    BY DEF TypeInv, TypeOK, LogRecords, Record, Ops
  <2> QED BY <1>3, <2>1 DEF RemoveFails, LogFails, Drops
<1> QED BY <1>1, <1>2, <1>3

LEMMA EventShapes ==
  ASSUME TypeInv, [Next]_vars
  PROVE  \/ \E t \in Tasks : Logs(t) \/ Drops(t) \/ Emit(t)
         \/ Restart
         \/ UNCHANGED <<log, base, events, pending>>
<1> USE DEF shared, local, Return
<1>1. ASSUME NEW t \in Tasks, InsertLog(t) PROVE Logs(t)
  <2>1. req[t].id \in Ids /\ req[t].doc \in Docs
    BY <1>1, StatementFields DEF InsertLog, TypeInv, TypeOK, Placed
  <2> QED BY <1>1, <2>1 DEF InsertLog, Logs, Ops
<1>2. ASSUME NEW t \in Tasks, UpdateDoc(t) PROVE Logs(t)
  <2>1. req[t].assign.value \in Docs
    BY <1>2, StatementFields, AssignmentFields DEF UpdateDoc, TypeInv, TypeOK
  <2> QED BY <1>2, <2>1 DEF UpdateDoc, Logs, Ops
<1>3. ASSUME NEW t \in Tasks, RemoveDoc(t) PROVE Logs(t)
  <2>1. todo[t] \subseteq Ids
    BY DEF TypeInv, TypeOK
  <2> QED BY <1>3, <2>1 DEF RemoveDoc, Logs, Ops
<1>4. ASSUME NEW t \in Tasks, InsertLogFails(t) \/ UpdateFails(t) \/ RemoveFails(t)
      PROVE  Drops(t)
  BY <1>4, FailuresDrop
<1>8. ASSUME NEW t \in Tasks,
             \/ Respond(t) \/ FindRun(t) \/ Count(t) \/ CreateIndexInstall(t) \/ DropIndex(t)
      PROVE  Drops(t)
  BY <1>8 DEF Respond, FindRun, Count, CreateIndexInstall, DropIndex, Drops
<1>5. ASSUME NEW t \in Tasks, InsertCheck(t)
      PROVE  Drops(t) \/ UNCHANGED <<log, base, events, pending>>
  BY <1>5 DEF InsertCheck, Drops
<1>6. ASSUME NEW t \in Tasks,
             \/ Submit(t) \/ InsertStore(t) \/ InsertIndex(t) \/ DmlLockCollections(t)
             \/ DmlLockIndexes(t) \/ UpdateSkip(t) \/ DmlUnlock(t) \/ FindLockCollections(t)
             \/ CreateIndexLockCollections(t) \/ CreateIndexLockIndexes(t) \/ CreateIndexDoc(t)
      PROVE  UNCHANGED <<log, base, events, pending>>
  BY <1>6 DEF Submit, InsertStore, InsertIndex, DmlLockCollections, DmlLockIndexes, UpdateSkip,
              DmlUnlock, FindLockCollections, CreateIndexLockCollections,
              CreateIndexLockIndexes, CreateIndexDoc
<1>7. CASE UNCHANGED vars
  BY <1>7 DEF vars
<1> QED BY <1>1, <1>2, <1>3, <1>4, <1>5, <1>6, <1>7, <1>8 DEF Next, Step, HandlerStep

LEMMA EventTypes ==
  ASSUME TypeOK
  PROVE  /\ Len(log) \in Nat /\ base \in Nat /\ Len(events) \in Nat
         /\ \A i \in 1..Len(events) : events[i] \in EventRecords
         /\ \A t \in Tasks : pending[t] \in Seq(EventRecords) /\ Len(pending[t]) \in Nat
         /\ \A t \in Tasks : \A m \in 1..Len(pending[t]) : pending[t][m] \in EventRecords
<1>1. \A t \in Tasks : pending[t] \in Seq(EventRecords)
  BY DEF TypeOK
<1> QED BY <1>1, LenProperties, ElementOfSeq DEF TypeOK

LEMMA LogsEvents ==
  ASSUME TypeOK, EventInv, NEW t \in Tasks, Logs(t)
  PROVE  EventInv'
<1>1. PICK op \in Ops, id \in Ids, doc \in Docs \cup {NoDoc} : LogAppend(t, op, id, doc)
  BY DEF Logs
<1>2. PICK N, r, e : /\ N = Len(log) + 1 /\ r = Record(op, id, doc)
                     /\ e = Event(N, id)
  OBVIOUS
<1>3. N \in Nat /\ r \in LogRecords /\ r.id = id /\ e \in EventRecords /\ e.seq = N /\ e.id = id
  BY <1>2, EventTypes DEF LogRecords, Record, Event, EventRecords
<1>4. /\ Len(log') = N /\ log'[N] = r /\ \A k \in 1..Len(log) : log'[k] = log[k]
  BY <1>1, <1>2, <1>3, AppendAt DEF LogAppend, TypeOK
<1>5. /\ Len(pending'[t]) = Len(pending[t]) + 1
      /\ \A m \in 1..Len(pending[t]) : pending'[t][m] = pending[t][m]
      /\ pending'[t][Len(pending[t]) + 1] = e
      /\ \A u \in Tasks : u # t => pending'[u] = pending[u]
  <2>1. pending' = [pending EXCEPT ![t] = Append(pending[t], e)]
    BY <1>1, <1>2 DEF LogAppend
  <2>2. /\ Len(Append(pending[t], e)) = Len(pending[t]) + 1
        /\ \A m \in 1..Len(pending[t]) : Append(pending[t], e)[m] = pending[t][m]
        /\ Append(pending[t], e)[Len(pending[t]) + 1] = e
    BY <1>3, EventTypes, AppendAt
  <2> QED BY <2>1, <2>2 DEF TypeOK
<1>6. UNCHANGED <<base, events>>
  BY DEF Logs
<1>7. \A x \in EventRecords : Announces(x) => Announces(x)' /\ x.seq # N
  BY <1>2, <1>3, <1>4, <1>6, EventTypes DEF Announces
<1>8. Announces(e)'
  BY <1>2, <1>3, <1>4, <1>6, EventTypes DEF Announces, EventInv
<1>9. \A u \in Tasks : \A m \in 1..Len(pending'[u]) :
        \/ m \in 1..Len(pending[u]) /\ pending'[u][m] = pending[u][m]
        \/ u = t /\ m = Len(pending[t]) + 1 /\ pending'[u][m] = e
  BY <1>5, EventTypes, SMTT(40)
<1>10. \A i \in 1..Len(events) : Announces(events[i])' /\ events[i].seq # N
  <2> SUFFICES ASSUME NEW i \in 1..Len(events)
               PROVE  Announces(events[i])' /\ events[i].seq # N
    OBVIOUS
  <2>1. PICK x : x = events[i]
    OBVIOUS
  <2>2. Announces(x)' /\ x.seq # N
    BY <1>7, <2>1, EventTypes DEF EventInv
  <2> QED BY <1>6, <2>1, <2>2
<1>11. \A u \in Tasks : \A m \in 1..Len(pending[u]) : pending[u][m].seq # N
  BY <1>7, EventTypes DEF EventInv
<1>12. ASSUME NEW u \in Tasks, NEW m \in 1..Len(pending'[u])
       PROVE  Announces(pending[u][m])'
  <2>1. PICK x : x = pending'[u][m]
    OBVIOUS
  <2>2. Announces(x)'
    BY <1>7, <1>8, <1>9, <2>1, EventTypes DEF EventInv
  <2> QED BY <2>1, <2>2
<1>13. ASSUME NEW u \in Tasks, NEW v \in Tasks,
              NEW m \in 1..Len(pending'[u]), NEW n \in 1..Len(pending'[v]),
              pending'[u][m].seq = pending'[v][n].seq
       PROVE  u = v /\ m = n
  <2>1. CASE /\ m \in 1..Len(pending[u]) /\ pending'[u][m] = pending[u][m]
             /\ n \in 1..Len(pending[v]) /\ pending'[v][n] = pending[v][n]
    BY <1>13, <2>1 DEF EventInv
  <2> QED BY <1>3, <1>9, <1>11, <1>13, <2>1, ZenonT(60)
<1>14. \A i \in 1..Len(events) : \A u \in Tasks : \A m \in 1..Len(pending'[u]) :
         events[i].seq # pending'[u][m].seq
  <2> SUFFICES ASSUME NEW i \in 1..Len(events), NEW u \in Tasks, NEW m \in 1..Len(pending'[u])
               PROVE  events[i].seq # pending'[u][m].seq
    OBVIOUS
  <2>1. CASE m \in 1..Len(pending[u]) /\ pending'[u][m] = pending[u][m]
    <3>1. events[i].seq # pending[u][m].seq
      BY <2>1 DEF EventInv
    <3> QED BY <2>1, <3>1
  <2>2. CASE pending'[u][m] = e
    BY <1>3, <1>10, <2>2
  <2> QED BY <1>9, <2>1, <2>2
<1>15. base <= N
  BY <1>2, EventTypes DEF EventInv
<1> QED BY <1>4, <1>6, <1>10, <1>12, <1>13, <1>14, <1>15 DEF EventInv

LEMMA DropsEvents ==
  ASSUME TypeOK, EventInv, NEW t \in Tasks, Drops(t)
  PROVE  EventInv'
<1>1. \A u \in Tasks : \A m \in 1..Len(pending'[u]) :
        m \in 1..Len(pending[u]) /\ pending'[u][m] = pending[u][m]
  BY DEF Drops, TypeOK
<1>0. /\ Len(log') \in Nat /\ Len(log) <= Len(log')
      /\ \A k \in 1..Len(log) : log'[k] = log[k]
  BY EventTypes, AppendAt DEF Drops, TypeOK
<1>3. UNCHANGED <<base, events>>
  BY DEF Drops
<1>2. \A x \in EventRecords : Announces(x) => Announces(x)'
  BY <1>0, <1>3, EventTypes DEF Announces
<1>4. ASSUME NEW u \in Tasks, NEW m \in 1..Len(pending'[u])
      PROVE  Announces(pending[u][m])'
  <2>1. PICK x : x = pending'[u][m]
    OBVIOUS
  <2>2. Announces(x)'
    BY <1>1, <1>2, <2>1, EventTypes DEF EventInv
  <2> QED BY <2>1, <2>2
<1>5. \A i \in 1..Len(events) : Announces(events[i])'
  <2> SUFFICES ASSUME NEW i \in 1..Len(events) PROVE Announces(events[i])'
    OBVIOUS
  <2>1. PICK x : x = events[i]
    OBVIOUS
  <2>2. Announces(x)'
    BY <1>2, <2>1, EventTypes DEF EventInv
  <2> QED BY <1>3, <2>1, <2>2
<1>6. \A u, v \in Tasks : \A m \in 1..Len(pending'[u]), n \in 1..Len(pending'[v]) :
        pending'[u][m].seq = pending'[v][n].seq => u = v /\ m = n
  <2> SUFFICES ASSUME NEW u \in Tasks, NEW v \in Tasks,
                      NEW m \in 1..Len(pending'[u]), NEW n \in 1..Len(pending'[v]),
                      pending'[u][m].seq = pending'[v][n].seq
               PROVE  u = v /\ m = n
    OBVIOUS
  <2>1. /\ m \in 1..Len(pending[u]) /\ n \in 1..Len(pending[v])
        /\ pending[u][m].seq = pending[v][n].seq
    BY <1>1
  <2> QED BY <2>1 DEF EventInv
<1>7. \A i \in 1..Len(events) : \A u \in Tasks : \A m \in 1..Len(pending'[u]) :
        events[i].seq # pending'[u][m].seq
  <2> SUFFICES ASSUME NEW i \in 1..Len(events), NEW u \in Tasks, NEW m \in 1..Len(pending'[u])
               PROVE  events[i].seq # pending'[u][m].seq
    OBVIOUS
  <2>1. m \in 1..Len(pending[u]) /\ pending'[u][m] = pending[u][m]
    BY <1>1
  <2>2. events[i].seq # pending[u][m].seq
    BY <2>1 DEF EventInv
  <2> QED BY <2>1, <2>2
<1>8. \A i, j \in 1..Len(events) : events[i].seq = events[j].seq => i = j
  BY DEF EventInv
<1>9. base <= Len(log')
  BY <1>0, EventTypes DEF EventInv
<1>10. /\ \A i \in 1..Len(events') : Announces(events[i])'
       /\ \A u \in Tasks : \A m \in 1..Len(pending'[u]) : Announces(pending[u][m])'
  <2>1. \A i \in 1..Len(events') : Announces(events[i])'
    <3> SUFFICES ASSUME NEW i \in 1..Len(events') PROVE Announces(events[i])'
      OBVIOUS
    <3>1. events' = events /\ i \in 1..Len(events)
      BY <1>3
    <3> QED BY <1>5, <3>1 DEF Announces
  <2> QED BY <1>4, <2>1
<1>11. /\ (base <= Len(log))'
       /\ (\A i, j \in 1..Len(events) : events[i].seq = events[j].seq => i = j)'
       /\ (\A i \in 1..Len(events) : \A u \in Tasks : \A m \in 1..Len(pending[u]) :
            events[i].seq # pending[u][m].seq)'
  BY <1>3, <1>7, <1>8, <1>9
<1> QED BY <1>6, <1>10, <1>11, ZenonT(60) DEF EventInv

LEMMA EmitEvents ==
  ASSUME TypeOK, EventInv, NEW t \in Tasks, Emit(t)
  PROVE  EventInv'
<1>1. PICK h, E : h = pending[t][1] /\ E = Len(events) + 1
  OBVIOUS
<1>2. /\ pending[t] # <<>> /\ UNCHANGED <<log, base>>
      /\ pending[t] \in Seq(EventRecords) /\ events \in Seq(EventRecords)
      /\ pending' = [pending EXCEPT ![t] = Tail(pending[t])]
      /\ events' = Append(events, Head(pending[t]))
  BY DEF Emit, TypeOK
<1>3. /\ Len(pending[t]) \in Nat \ {0} /\ Head(pending[t]) = h /\ h \in EventRecords
      /\ Len(Tail(pending[t])) = Len(pending[t]) - 1
      /\ \A m \in 1..Len(Tail(pending[t])) : Tail(pending[t])[m] = pending[t][m + 1]
  BY <1>1, <1>2, TailAt
<1>4. /\ E \in Nat /\ Len(events') = E /\ events'[E] = h
      /\ \A i \in 1..Len(events) : events'[i] = events[i]
      /\ \A i \in 1..E : i = E \/ i \in 1..Len(events)
  BY <1>1, <1>2, <1>3, AppendAt, EventTypes
<1>5. /\ \A u \in Tasks : u # t => pending'[u] = pending[u]
      /\ pending'[t] = Tail(pending[t])
  BY <1>2 DEF TypeOK
<1>6. \A x : Announces(x)' <=> Announces(x)
  BY <1>2 DEF Announces
\* What is left to be sent was so before, at some place, and not at the front.
<1>7. \A u \in Tasks : \A m \in 1..Len(pending'[u]) :
        \/ u # t /\ m \in 1..Len(pending[u]) /\ pending'[u][m] = pending[u][m]
        \/ u = t /\ m + 1 \in 1..Len(pending[u]) /\ m + 1 # 1 /\ pending'[u][m] = pending[u][m + 1]
  <2>1. \A m \in 1..Len(Tail(pending[t])) : m + 1 \in 1..Len(pending[t]) /\ m + 1 # 1
    BY <1>3
  <2> QED BY <1>3, <1>5, <2>1
<1>8. 1 \in 1..Len(pending[t])
  BY <1>3
<1>9. ASSUME NEW i \in 1..Len(events')
      PROVE  Announces(events[i])'
  <2>1. PICK x : x = events'[i]
    OBVIOUS
  <2>2. Announces(x)'
    BY <1>1, <1>4, <1>6, <1>8, <2>1 DEF EventInv
  <2> QED BY <2>1, <2>2
<1>10. ASSUME NEW u \in Tasks, NEW m \in 1..Len(pending'[u])
       PROVE  /\ Announces(pending[u][m])' /\ pending'[u][m].seq # h.seq
              /\ \A i \in 1..Len(events) : events[i].seq # pending'[u][m].seq
  <2>1. PICK x : x = pending'[u][m]
    OBVIOUS
  <2>2. PICK n \in 1..Len(pending[u]) : x = pending[u][n] /\ (u = t => n # 1)
    BY <1>7, <2>1
  <2>3. Announces(x)' /\ x.seq # h.seq /\ \A i \in 1..Len(events) : events[i].seq # x.seq
    BY <1>1, <1>6, <1>8, <2>2 DEF EventInv
  <2> QED BY <2>1, <2>3
<1>11. ASSUME NEW i \in 1..Len(events'), NEW j \in 1..Len(events'), events'[i].seq = events'[j].seq
       PROVE  i = j
  BY <1>1, <1>4, <1>8, <1>11 DEF EventInv
<1>12. ASSUME NEW u \in Tasks, NEW v \in Tasks,
              NEW m \in 1..Len(pending'[u]), NEW n \in 1..Len(pending'[v]),
              pending'[u][m].seq = pending'[v][n].seq
       PROVE  u = v /\ m = n
  <2>1. m \in Nat /\ n \in Nat
    BY <1>3, <1>5, EventTypes
  <2>2. PICK d \in Nat : /\ m + d \in 1..Len(pending[u]) /\ pending'[u][m] = pending[u][m + d]
                         /\ d = IF u = t THEN 1 ELSE 0
    BY <1>7, <2>1
  <2>3. PICK f \in Nat : /\ n + f \in 1..Len(pending[v]) /\ pending'[v][n] = pending[v][n + f]
                         /\ f = IF v = t THEN 1 ELSE 0
    BY <1>7, <2>1
  <2>4. u = v /\ m + d = n + f
    BY <1>12, <2>2, <2>3, SMTT(40) DEF EventInv
  <2> QED BY <2>1, <2>2, <2>3, <2>4
<1>13. \A i \in 1..Len(events') : \A u \in Tasks : \A m \in 1..Len(pending'[u]) :
         events'[i].seq # pending'[u][m].seq
  BY <1>4, <1>10
<1>14. base' <= Len(log')
  BY <1>2 DEF EventInv
<1> QED BY <1>9, <1>10, <1>11, <1>12, <1>13, <1>14 DEF EventInv

LEMMA EventStep == TypeInv /\ EventInv /\ [Next]_vars => EventInv'
<1> SUFFICES ASSUME TypeInv, EventInv, [Next]_vars PROVE EventInv'
  OBVIOUS
<1>1. TypeOK
  BY DEF TypeInv
<1>2. CASE \E t \in Tasks : Logs(t) \/ Drops(t) \/ Emit(t)
  BY <1>1, <1>2, LogsEvents, DropsEvents, EmitEvents
<1>3. CASE Restart
  <2>1. base' = Len(log') /\ events' = <<>> /\ pending' = [t \in Tasks |-> <<>>] /\ log' = log
    BY <1>3 DEF Restart
  <2> QED BY <1>1, <2>1, EventTypes DEF EventInv
<1>4. CASE UNCHANGED <<log, base, events, pending>>
  BY <1>4 DEF EventInv, Announces
<1> QED BY <1>2, <1>3, <1>4, EventShapes

LEMMA EventInit == Init => EventInv
BY DEF Init, EventInv

\* No event is sent without its record and no record has two events, whatever
\* fails and however statements interleave: emit_event runs outside every lock
\* with the sequence number that append gave, and a statement that fails drops
\* the events it has not sent.
THEOREM EventsCorrect == Spec => []EventsAtMostOnce
<1>1. Init => TypeInv /\ EventInv
  BY TypeInit, EventInit
<1>2. TypeInv /\ EventInv /\ [Next]_vars => (TypeInv /\ EventInv)'
  BY TypeStep, PlacedStep, EventStep DEF TypeInv
<1>3. EventInv => EventsAtMostOnce
  BY DEF EventInv, EventsAtMostOnce, Announces
<1> QED BY <1>1, <1>2, <1>3, PTL DEF Spec

-----------------------------------------------------------------------------
(* Nothing fails: no event is lost either.                                 *)

\* Nothing that a statement does after its first append returns an error.
NoFailureAfterLog == NoFailureAfterChange /\ \A f \in Filters : f.err = {}

\* A statement that still has events to send is past its last error return.
QuietInv ==
  \A t \in Tasks :
    pending[t] # <<>> =>
      /\ pc[t] \in {"ins_store", "ins_index", "dml_scan", "emit"}
      /\ pc[t] = "dml_scan" /\ req[t].kind = "update" => req[t].assign.outcome = "ok"

\* The event of record k has been sent, or a statement will send it.
Announced(k) ==
  \/ \E i \in 1..Len(events) : events[i].seq = k
  \/ \E t \in Tasks : \E m \in 1..Len(pending[t]) : pending[t][m].seq = k

OnceInv ==
  /\ \A k \in (base + 1)..Len(log) : Announced(k)
  /\ \A t \in Tasks : Len(pending[t]) <= Len(log)

\* t alone moves, and what it had to send is gone or was nothing.
LEMMA QuietStep ==
  ASSUME TypeInv, QuietInv, [Next]_vars
  PROVE  QuietInv'
<1> USE DEF TypeInv, TypeOK, QuietInv, Goto, shared, local, counters
<1>1. ASSUME NEW t \in Tasks,
             \/ InsertLogFails(t) \/ UpdateFails(t) \/ RemoveFails(t) \/ Respond(t)
             \/ FindRun(t) \/ Count(t) \/ CreateIndexInstall(t) \/ DropIndex(t)
      PROVE  QuietInv'
  <2>1. Return(t)
    BY <1>1 DEF InsertLogFails, UpdateFails, RemoveFails, Respond, FindRun, Count,
                CreateIndexInstall, DropIndex
  <2> QED BY <2>1 DEF Return
<1>2. ASSUME NEW t \in Tasks, InsertCheck(t) PROVE QuietInv'
  BY <1>2, ZenonT(60) DEF InsertCheck, Return
<1>3. ASSUME NEW t \in Tasks, InsertLog(t) PROVE QuietInv'
  <2>1. pc' = [pc EXCEPT ![t] = "ins_store"] /\ req' = req
    BY <1>3 DEF InsertLog
  <2>2. \A u \in Tasks : u # t => pending'[u] = pending[u]
    BY <1>3 DEF InsertLog, LogAppend
  <2> QED BY <2>1, <2>2
<1>4. ASSUME NEW t \in Tasks, UpdateDoc(t) \/ RemoveDoc(t) PROVE QuietInv'
  <2>1. /\ pc' = pc /\ req' = req /\ pc[t] = "dml_scan"
        /\ req[t].kind = "update" => req[t].assign.outcome = "ok"
    BY <1>4 DEF UpdateDoc, RemoveDoc
  <2>2. \A u \in Tasks : u # t => pending'[u] = pending[u]
    BY <1>4 DEF UpdateDoc, RemoveDoc, LogAppend
  <2> QED BY <2>1, <2>2
<1>5. ASSUME NEW t \in Tasks, Emit(t) PROVE QuietInv'
  <2>1. pc' = pc /\ req' = req /\ pc[t] = "emit" /\ \A u \in Tasks : u # t => pending'[u] = pending[u]
    BY <1>5 DEF Emit
  <2> QED BY <2>1
<1>6. ASSUME NEW t \in Tasks,
             \/ Submit(t) \/ InsertStore(t) \/ InsertIndex(t) \/ DmlLockCollections(t)
             \/ DmlLockIndexes(t) \/ UpdateSkip(t) \/ DmlUnlock(t) \/ FindLockCollections(t)
             \/ CreateIndexLockCollections(t) \/ CreateIndexLockIndexes(t) \/ CreateIndexDoc(t)
      PROVE  QuietInv'
  <2>1. pending' = pending
    BY <1>6 DEF Submit, InsertStore, InsertIndex, DmlLockCollections, DmlLockIndexes, UpdateSkip,
                DmlUnlock, FindLockCollections, CreateIndexLockCollections,
                CreateIndexLockIndexes, CreateIndexDoc
  <2>2. \A u \in Tasks : u # t => pc'[u] = pc[u] /\ req'[u] = req[u]
    BY <1>6 DEF Submit, InsertStore, InsertIndex, DmlLockCollections, DmlLockIndexes, UpdateSkip,
                DmlUnlock, FindLockCollections, CreateIndexLockCollections,
                CreateIndexLockIndexes, CreateIndexDoc
  <2>3. \/ pc[t] \in {"idle", "start", "dml_index", "ci_index", "ci_scan"}
        \/ pc'[t] \in {"ins_index", "emit"}
        \/ pc' = pc /\ req' = req
    BY <1>6 DEF Submit, InsertStore, InsertIndex, DmlLockCollections, DmlLockIndexes, UpdateSkip,
                DmlUnlock, FindLockCollections, CreateIndexLockCollections,
                CreateIndexLockIndexes, CreateIndexDoc
  <2> QED BY <2>1, <2>2, <2>3
<1>7. CASE Restart
  BY <1>7 DEF Restart
<1>8. CASE UNCHANGED vars
  BY <1>8 DEF vars
<1> QED BY <1>1, <1>2, <1>3, <1>4, <1>5, <1>6, <1>7, <1>8 DEF Next, Step, HandlerStep

\* The error returns have nothing to drop.
LEMMA NothingDropped ==
  ASSUME NoFailureAfterLog, TypeInv, QuietInv, [Next]_vars
  PROVE  \/ \E t \in Tasks : Logs(t) \/ Emit(t)
         \/ Restart
         \/ UNCHANGED <<log, base, events, pending>>
<1>1. ASSUME NEW t \in Tasks, Drops(t), UNCHANGED log, pending[t] = <<>>
      PROVE  UNCHANGED <<log, base, events, pending>>
  BY <1>1 DEF Drops, TypeInv, TypeOK
<1> USE DEF shared, local, Return
<1>2. ASSUME NEW t \in Tasks, InsertLog(t) \/ UpdateDoc(t) \/ RemoveDoc(t) PROVE Logs(t)
  <2>1. CASE InsertLog(t)
    <3>1. req[t].id \in Ids /\ req[t].doc \in Docs
      BY <2>1, StatementFields DEF InsertLog, TypeInv, TypeOK, Placed
    <3> QED BY <2>1, <3>1 DEF InsertLog, Logs, Ops
  <2>2. CASE UpdateDoc(t)
    <3>1. req[t].assign.value \in Docs
      BY <2>2, StatementFields, AssignmentFields DEF UpdateDoc, TypeInv, TypeOK
    <3> QED BY <2>2, <3>1 DEF UpdateDoc, Logs, Ops
  <2>3. CASE RemoveDoc(t)
    <3>1. todo[t] \subseteq Ids
      BY DEF TypeInv, TypeOK
    <3> QED BY <2>3, <3>1 DEF RemoveDoc, Logs, Ops
  <2> QED BY <1>2, <2>1, <2>2, <2>3
<1>3. ASSUME NEW t \in Tasks,
             \/ InsertLogFails(t) \/ UpdateFails(t) \/ RemoveFails(t) \/ Respond(t)
             \/ FindRun(t) \/ Count(t) \/ CreateIndexInstall(t) \/ DropIndex(t)
      PROVE  UNCHANGED <<log, base, events, pending>>
  <2>0. UNCHANGED log
    <3>1. ~WalMayFail
      BY DEF NoFailureAfterLog, NoFailureAfterChange
    <3> QED BY <1>3, <3>1 DEF InsertLogFails, UpdateFails, RemoveFails, Respond, FindRun, Count,
                CreateIndexInstall, DropIndex, LogFails
  <2>1. Drops(t) /\ UNCHANGED log
    BY <1>3, <2>0 DEF InsertLogFails, UpdateFails, RemoveFails, Respond, FindRun, Count,
                CreateIndexInstall, DropIndex, Drops
  <2>2. ~RemoveFails(t)
    BY DEF RemoveFails, LogFails, NoFailureAfterLog, NoFailureAfterChange
  <2>3. CASE UpdateFails(t)
    <3>1. req[t].filter.err = {} /\ req[t].assign.outcome # "partial" /\ ~WalMayFail
      BY <2>3, StatementFields
      DEF UpdateFails, NoFailureAfterLog, NoFailureAfterChange, TypeInv, TypeOK
    <3>2. pc[t] = "dml_scan" /\ req[t].kind = "update" /\ req[t].assign.outcome = "error"
      BY <2>3, <3>1 DEF UpdateFails, LogFails
    <3> QED BY <1>1, <2>1, <3>2 DEF QuietInv
  <2>4. CASE Respond(t)
    BY <1>1, <2>1, <2>4 DEF Respond
  <2>5. CASE \/ InsertLogFails(t) \/ FindRun(t) \/ Count(t) \/ CreateIndexInstall(t) \/ DropIndex(t)
    <3>1. pc[t] \in {"ins_wal", "find_index", "start", "ci_scan"}
      BY <2>5 DEF InsertLogFails, FindRun, Count, CreateIndexInstall, DropIndex
    <3> QED BY <1>1, <2>1, <3>1 DEF QuietInv
  <2> QED BY <1>3, <2>2, <2>3, <2>4, <2>5
<1>4. ASSUME NEW t \in Tasks, InsertCheck(t)
      PROVE  UNCHANGED <<log, base, events, pending>>
  <2>1. (Drops(t) /\ UNCHANGED log) \/ UNCHANGED <<log, base, events, pending>>
    BY <1>4 DEF InsertCheck, Drops
  <2>2. pc[t] = "start"
    BY <1>4 DEF InsertCheck
  <2> QED BY <1>1, <2>1, <2>2 DEF QuietInv
<1>5. ASSUME NEW t \in Tasks,
             \/ Submit(t) \/ InsertStore(t) \/ InsertIndex(t) \/ DmlLockCollections(t)
             \/ DmlLockIndexes(t) \/ UpdateSkip(t) \/ DmlUnlock(t) \/ FindLockCollections(t)
             \/ CreateIndexLockCollections(t) \/ CreateIndexLockIndexes(t) \/ CreateIndexDoc(t)
      PROVE  UNCHANGED <<log, base, events, pending>>
  BY <1>5 DEF Submit, InsertStore, InsertIndex, DmlLockCollections, DmlLockIndexes, UpdateSkip,
              DmlUnlock, FindLockCollections, CreateIndexLockCollections,
              CreateIndexLockIndexes, CreateIndexDoc
<1>6. CASE UNCHANGED vars
  BY <1>6 DEF vars
<1> QED BY <1>2, <1>3, <1>4, <1>5, <1>6 DEF Next, Step, HandlerStep

\* A new record is announced by the list it is put in, and an event only moves
\* from the list to the channel.
LEMMA OnceStep ==
  ASSUME NoFailureAfterLog, TypeInv, QuietInv, OnceInv, [Next]_vars
  PROVE  OnceInv'
<1>0. TypeOK
  BY DEF TypeInv
<1>1. ASSUME NEW t \in Tasks, Logs(t) PROVE OnceInv'
  <2>1. PICK op \in Ops, id \in Ids, doc \in Docs \cup {NoDoc} : LogAppend(t, op, id, doc)
    BY <1>1 DEF Logs
  <2>2. PICK N, r, e : /\ N = Len(log) + 1 /\ r = Record(op, id, doc)
                       /\ e = Event(N, id)
    OBVIOUS
  <2>3. N \in Nat /\ r \in LogRecords /\ e \in EventRecords /\ e.seq = N
    BY <1>0, <2>2, EventTypes DEF LogRecords, Record, Event, EventRecords
  <2>4. Len(log') = N /\ base' = base /\ events' = events
    BY <1>0, <1>1, <2>1, <2>2, <2>3, AppendAt DEF LogAppend, TypeOK, Logs
  <2>5. /\ Len(pending'[t]) = Len(pending[t]) + 1
        /\ \A m \in 1..Len(pending[t]) : pending'[t][m] = pending[t][m]
        /\ pending'[t][Len(pending[t]) + 1] = e
        /\ \A u \in Tasks : u # t => pending'[u] = pending[u]
    <3>1. pending' = [pending EXCEPT ![t] = Append(pending[t], e)]
      BY <2>1, <2>2 DEF LogAppend
    <3>2. /\ Len(Append(pending[t], e)) = Len(pending[t]) + 1
          /\ \A m \in 1..Len(pending[t]) : Append(pending[t], e)[m] = pending[t][m]
          /\ Append(pending[t], e)[Len(pending[t]) + 1] = e
      BY <1>0, <2>3, EventTypes, AppendAt
    <3> QED BY <1>0, <3>1, <3>2 DEF TypeOK
  <2>6. \A u \in Tasks : \A m \in 1..Len(pending[u]) :
          m \in 1..Len(pending'[u]) /\ pending'[u][m] = pending[u][m]
    BY <1>0, <2>5, EventTypes, SMTT(40)
  <2>7. ASSUME NEW k \in (base + 1)..Len(log) PROVE Announced(k)'
    <3>1. CASE \E i \in 1..Len(events) : events[i].seq = k
      BY <2>4, <3>1 DEF Announced
    <3>2. CASE \E u \in Tasks : \E m \in 1..Len(pending[u]) : pending[u][m].seq = k
      <4>0. PICK u \in Tasks : \E m \in 1..Len(pending[u]) : pending[u][m].seq = k
        BY <3>2
      <4>1. PICK m \in 1..Len(pending[u]) : pending[u][m].seq = k
        BY <4>0
      <4>2. m \in 1..Len(pending'[u]) /\ pending'[u][m].seq = k
        BY <2>6, <4>1
      <4> QED BY <4>2 DEF Announced
    <3> QED BY <3>1, <3>2 DEF OnceInv, Announced
  <2>8. Announced(N)'
    <3>1. Len(pending[t]) + 1 \in 1..Len(pending'[t]) /\ pending'[t][Len(pending[t]) + 1].seq = N
      BY <1>0, <2>3, <2>5, EventTypes
    <3>2. PICK m : m \in 1..Len(pending'[t]) /\ pending'[t][m].seq = N
      BY <3>1
    <3> QED BY <3>2 DEF Announced
  <2>9. \A k \in (base' + 1)..Len(log') : k \in (base + 1)..Len(log) \/ k = N
    BY <1>0, <2>2, <2>4, EventTypes
  <2>10. \A k \in (base' + 1)..Len(log') : Announced(k)'
    BY <2>7, <2>8, <2>9
  <2>11. \A u \in Tasks : Len(pending'[u]) <= Len(log')
    BY <1>0, <2>2, <2>4, <2>5, EventTypes DEF OnceInv
  <2> QED BY <2>10, <2>11 DEF OnceInv
<1>2. ASSUME NEW t \in Tasks, Emit(t) PROVE OnceInv'
  <2>1. PICK h, E : h = pending[t][1] /\ E = Len(events) + 1
    OBVIOUS
  <2>2. /\ pending[t] # <<>> /\ UNCHANGED <<log, base>>
        /\ pending[t] \in Seq(EventRecords) /\ events \in Seq(EventRecords)
        /\ pending' = [pending EXCEPT ![t] = Tail(pending[t])]
        /\ events' = Append(events, Head(pending[t]))
    BY <1>0, <1>2 DEF Emit, TypeOK
  <2>3. /\ Len(pending[t]) \in Nat \ {0} /\ Head(pending[t]) = h /\ h \in EventRecords
        /\ Len(Tail(pending[t])) = Len(pending[t]) - 1
        /\ \A m \in 1..Len(Tail(pending[t])) : Tail(pending[t])[m] = pending[t][m + 1]
    BY <2>1, <2>2, TailAt
  <2>4. /\ E \in Nat /\ Len(events') = E /\ events'[E] = h
        /\ \A i \in 1..Len(events) : i \in 1..E /\ events'[i] = events[i]
    BY <1>0, <2>1, <2>2, <2>3, AppendAt, EventTypes
  <2>5. /\ \A u \in Tasks : u # t => pending'[u] = pending[u]
        /\ pending'[t] = Tail(pending[t])
    BY <1>0, <2>2 DEF TypeOK
  <2>6. ASSUME NEW k \in (base + 1)..Len(log) PROVE Announced(k)'
    <3>1. CASE \E i \in 1..Len(events) : events[i].seq = k
      <4>1. PICK i \in 1..Len(events) : events[i].seq = k
        BY <3>1
      <4>2. i \in 1..Len(events') /\ events'[i].seq = k
        BY <2>4, <4>1
      <4> QED BY <4>2 DEF Announced
    <3>2. CASE \E u \in Tasks : \E m \in 1..Len(pending[u]) : pending[u][m].seq = k
      <4>0. PICK u \in Tasks : \E m \in 1..Len(pending[u]) : pending[u][m].seq = k
        BY <3>2
      <4>1. PICK m \in 1..Len(pending[u]) : pending[u][m].seq = k
        BY <4>0
      <4>2. CASE u # t
        BY <2>5, <4>1, <4>2 DEF Announced
      <4>3. CASE u = t /\ m = 1
        <5>1. E \in 1..Len(events') /\ events'[E].seq = k
          BY <1>0, <2>1, <2>4, <4>1, <4>3, EventTypes
        <5> QED BY <5>1 DEF Announced
      <4>4. CASE u = t /\ m # 1
        <5>1. PICK n : n = m - 1
          OBVIOUS
        <5>2. n \in 1..Len(Tail(pending[t])) /\ n + 1 = m
          BY <2>3, <4>4, <5>1
        <5>3. n \in 1..Len(pending'[t]) /\ pending'[t][n].seq = k
          BY <2>3, <2>5, <4>1, <4>4, <5>2
        <5> QED BY <5>3 DEF Announced
      <4> QED BY <4>2, <4>3, <4>4
    <3> QED BY <3>1, <3>2 DEF OnceInv, Announced
  <2>7. \A u \in Tasks : Len(pending'[u]) <= Len(log')
    BY <1>0, <2>2, <2>3, <2>5, EventTypes DEF OnceInv
  <2> QED BY <2>2, <2>6, <2>7 DEF OnceInv
<1>3. CASE Restart
  <2>1. base' = Len(log) /\ pending' = [t \in Tasks |-> <<>>] /\ log' = log
    BY <1>3 DEF Restart
  <2> QED BY <1>0, <2>1, EventTypes DEF OnceInv
<1>4. CASE UNCHANGED <<log, base, events, pending>>
  BY <1>4 DEF OnceInv, Announced
<1> QED BY <1>1, <1>2, <1>3, <1>4, NothingDropped

\* Exactly one of the two places holds the event, once.
LEMMA AnnouncedOnce == TypeOK /\ EventInv /\ OnceInv => EventsOnce
<1> SUFFICES ASSUME TypeOK, EventInv, OnceInv, NEW k \in (base + 1)..Len(log)
             PROVE  Cardinality({i \in 1..Len(events) : events[i].seq = k})
                      + Cardinality({p \in Tasks \X (1..Len(log)) :
                                       /\ p[2] <= Len(pending[p[1]])
                                       /\ pending[p[1]][p[2]].seq = k}) = 1
  BY DEF EventsOnce
<1> DEFINE Sent == {i \in 1..Len(events) : events[i].seq = k}
           Unsent == {p \in Tasks \X (1..Len(log)) :
                        p[2] <= Len(pending[p[1]]) /\ pending[p[1]][p[2]].seq = k}
<1>1. CASE \E i \in 1..Len(events) : events[i].seq = k
  <2>1. PICK i \in 1..Len(events) : events[i].seq = k
    BY <1>1
  <2>2. \A j \in 1..Len(events) : events[j].seq = k => j = i
    BY <2>1 DEF EventInv
  <2>3. Sent = {i}
    BY <2>1, <2>2
  <2>4. \A p \in Tasks \X (1..Len(log)) :
          ~(p[2] <= Len(pending[p[1]]) /\ pending[p[1]][p[2]].seq = k)
    <3> SUFFICES ASSUME NEW u \in Tasks, NEW m \in 1..Len(log),
                        m <= Len(pending[u]), pending[u][m].seq = k
                 PROVE  FALSE
      OBVIOUS
    <3>1. m \in 1..Len(pending[u])
      BY EventTypes
    <3> QED BY <2>1, <3>1 DEF EventInv
  <2>5. Unsent = {}
    BY <2>4
  <2>6. Cardinality(Sent) = 1 /\ Cardinality(Unsent) = 0
    BY <2>3, <2>5, FS_Singleton, FS_EmptySet
  <2> QED BY <2>6
<1>2. CASE \E t \in Tasks : \E m \in 1..Len(pending[t]) : pending[t][m].seq = k
  <2>0. PICK t \in Tasks : \E m \in 1..Len(pending[t]) : pending[t][m].seq = k
    BY <1>2
  <2>1. PICK m \in 1..Len(pending[t]) : pending[t][m].seq = k
    BY <2>0
  <2>2. <<t, m>> \in Unsent
    BY <2>1, EventTypes DEF OnceInv
  <2>3. ASSUME NEW u \in Tasks, NEW n \in 1..Len(log),
               n <= Len(pending[u]), pending[u][n].seq = k
        PROVE  u = t /\ n = m
    <3>1. n \in 1..Len(pending[u])
      BY <2>3, EventTypes
    <3> QED BY <2>1, <2>3, <3>1 DEF EventInv
  <2>4. \A p \in Unsent : p = <<t, m>>
    BY <2>3
  <2>5. Unsent = {<<t, m>>}
    BY <2>2, <2>4
  <2>6. \A i \in 1..Len(events) : events[i].seq # k
    BY <2>1 DEF EventInv
  <2>7. Sent = {}
    BY <2>6
  <2>8. Cardinality(Sent) = 0 /\ Cardinality(Unsent) = 1
    BY <2>5, <2>7, FS_Singleton, FS_EmptySet
  <2> QED BY <2>8
<1> QED BY <1>1, <1>2 DEF OnceInv, Announced

\* If nothing fails between an append and the end of its statement, then every
\* record logged since the engine was opened has exactly one event, sent or
\* still in the list of the statement that logged it: emit_event is called
\* once for each record that execute_insert, execute_update or execute_remove
\* appended, whatever other statements run between the append and the call.
THEOREM OnceCorrect ==
  ASSUME NoFailureAfterLog
  PROVE  Spec => []EventsOnce
<1> DEFINE Inv == TypeInv /\ EventInv /\ QuietInv /\ OnceInv
<1>1. Init => Inv
  <2> SUFFICES ASSUME Init PROVE Inv
    OBVIOUS
  <2>1. QuietInv
    BY DEF Init, QuietInv
  <2>2. OnceInv
    BY DEF Init, OnceInv
  <2> QED BY <2>1, <2>2, TypeInit, EventInit
<1>2. Inv /\ [Next]_vars => Inv'
  BY TypeStep, PlacedStep, EventStep, QuietStep, OnceStep DEF TypeInv
<1>3. Inv => EventsOnce
  BY AnnouncedOnce DEF TypeInv
<1> QED BY <1>1, <1>2, <1>3, PTL DEF Spec
===============================================================================
