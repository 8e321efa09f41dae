---------------------------- MODULE StudioProofs ----------------------------
(***************************************************************************)
(* Theorems about Server and Studio, for every set of clients and windows, *)
(* every limit of the connections and every capacity of the channel.       *)
(***************************************************************************)
EXTENDS Studio, FiniteSetTheorems, SequenceTheorems, TLAPS

-----------------------------------------------------------------------------
(* The connections of Server.                                              *)

\* The states in which a connection's task owns a permit.
Held == {"spawned", "running", "leaving"}

ConnStates == Held \cup {"closed", "backlog", "detached", "dropped"}

\* What the counts are, over connections of which finitely many have a task.
ServerInv ==
  /\ permits \in Nat /\ active \in Int /\ panics \in Nat
  /\ conn \in [Clients -> ConnStates]
  /\ IsFiniteSet(In(Held)) /\ IsFiniteSet(In({"detached"}))
  /\ PermitsExact /\ ActiveAccounted

\* A connection that moves joins the sets of its new state and leaves the others.
LEMMA InMove ==
  ASSUME NEW CONSTANT S, NEW CONSTANT c \in Clients, NEW CONSTANT to,
         conn \in [Clients -> ConnStates],
         conn' = [conn EXCEPT ![c] = to]
  PROVE  In(S)' = IF to \in S THEN In(S) \cup {c} ELSE In(S) \ {c}
BY DEF In

\* Those that run are some of those that hold a permit.
LEMMA RunningFinite ==
  ASSUME ServerInv
  PROVE  /\ IsFiniteSet(In({"running"}))
         /\ Cardinality(In({"running"})) \in Nat
         /\ Cardinality(In(Held)) \in Nat
<1>1. In({"running"}) \in SUBSET In(Held)
  BY DEF In, Held
<1>2. IsFiniteSet(In({"running"}))
  BY <1>1, FS_Subset DEF ServerInv
<1> QED BY <1>2, FS_CardinalityType DEF ServerInv

\* The counts of both sets after a connection has moved.
LEMMA CountMove ==
  ASSUME NEW CONSTANT S, NEW CONSTANT c \in Clients, NEW CONSTANT to,
         conn \in [Clients -> ConnStates], IsFiniteSet(In(S)),
         conn' = [conn EXCEPT ![c] = to]
  PROVE  /\ IsFiniteSet(In(S)')
         /\ conn[c] \in S /\ to \in S => Cardinality(In(S)') = Cardinality(In(S))
         /\ conn[c] \in S /\ to \notin S => Cardinality(In(S)') = Cardinality(In(S)) - 1
         /\ conn[c] \notin S /\ to \in S => Cardinality(In(S)') = Cardinality(In(S)) + 1
         /\ conn[c] \notin S /\ to \notin S => Cardinality(In(S)') = Cardinality(In(S))
<1>1. In(S)' = IF to \in S THEN In(S) \cup {c} ELSE In(S) \ {c}
  BY InMove
<1>2. c \in In(S) <=> conn[c] \in S
  BY DEF In
<1>3. CASE to \in S
  <2>1. In(S)' = In(S) \cup {c}
    BY <1>1, <1>3
  <2> QED BY <1>2, <1>3, <2>1, FS_AddElement
<1>4. CASE to \notin S
  <2>1. In(S)' = In(S) \ {c}
    BY <1>1, <1>4
  <2> QED BY <1>2, <1>4, <2>1, FS_RemoveElement
<1> QED BY <1>3, <1>4

\* A connection moves, and the counts follow it.
Moves(c, to) ==
  /\ phase # "down" /\ phase' = phase
  /\ conn' = [conn EXCEPT ![c] = to]
  /\ permits' \in Nat /\ active' \in Int /\ panics' \in Nat
  /\ permits' = permits + (IF conn[c] \in Held THEN 1 ELSE 0)
                        - (IF to \in Held THEN 1 ELSE 0)
  /\ panics' >= panics + (IF to = "detached" THEN 1 ELSE 0)
  /\ active' - panics' = active - panics - (IF conn[c] = "running" THEN 1 ELSE 0)
                                         + (IF to = "running" THEN 1 ELSE 0)

LEMMA ServerMove ==
  ASSUME ServerInv, NEW CONSTANT c \in Clients, NEW CONSTANT to \in ConnStates, Moves(c, to)
  PROVE  ServerInv'
<1> USE DEF Moves
<1>1. conn' \in [Clients -> ConnStates]
  BY DEF ServerInv
<1>2. /\ IsFiniteSet(In({"running"}))
      /\ Cardinality(In({"running"})) \in Nat /\ Cardinality(In(Held)) \in Nat
  BY RunningFinite
<1>3. IsFiniteSet(In(Held)') /\ IsFiniteSet(In({"detached"})') /\ PermitsExact'
  <2>1. /\ IsFiniteSet(In(Held)')
        /\ conn[c] \in Held /\ to \in Held => Cardinality(In(Held)') = Cardinality(In(Held))
        /\ conn[c] \in Held /\ to \notin Held => Cardinality(In(Held)') = Cardinality(In(Held)) - 1
        /\ conn[c] \notin Held /\ to \in Held => Cardinality(In(Held)') = Cardinality(In(Held)) + 1
        /\ conn[c] \notin Held /\ to \notin Held => Cardinality(In(Held)') = Cardinality(In(Held))
    BY CountMove DEF ServerInv
  <2>2. permits + Cardinality(In(Held)) = MaxConnections /\ permits \in Nat
    BY DEF ServerInv, PermitsExact, Held
  <2>3. permits' + Cardinality(In(Held)') = MaxConnections
    BY <1>2, <2>1, <2>2
  <2> DEFINE D == {"detached"}
  <2>4. /\ IsFiniteSet(In(D)')
        /\ conn[c] \in D /\ to \in D => Cardinality(In(D)') = Cardinality(In(D))
        /\ conn[c] \in D /\ to \notin D => Cardinality(In(D)') = Cardinality(In(D)) - 1
        /\ conn[c] \notin D /\ to \in D => Cardinality(In(D)') = Cardinality(In(D)) + 1
        /\ conn[c] \notin D /\ to \notin D => Cardinality(In(D)') = Cardinality(In(D))
    BY CountMove DEF ServerInv
  <2>5. Cardinality(In(D)) \in Nat /\ Cardinality(In(D)) <= panics /\ panics \in Nat
    BY FS_CardinalityType DEF ServerInv, PermitsExact
  <2>6. Cardinality(In(D)') <= panics'
    BY <2>4, <2>5
  <2> QED BY <2>1, <2>3, <2>4, <2>6 DEF PermitsExact, Held
<1>4. ActiveAccounted'
  <2> DEFINE R == {"running"}
  <2>1. /\ conn[c] \in R /\ to \in R => Cardinality(In(R)') = Cardinality(In(R))
        /\ conn[c] \in R /\ to \notin R => Cardinality(In(R)') = Cardinality(In(R)) - 1
        /\ conn[c] \notin R /\ to \in R => Cardinality(In(R)') = Cardinality(In(R)) + 1
        /\ conn[c] \notin R /\ to \notin R => Cardinality(In(R)') = Cardinality(In(R))
    BY <1>2, CountMove DEF ServerInv
  <2>2. active = Cardinality(In(R)) + panics /\ panics \in Nat
    BY DEF ServerInv, ActiveAccounted
  <2>3. active' = Cardinality(In(R)') + panics'
    BY <1>2, <2>1, <2>2
  <2> QED BY <2>3 DEF ActiveAccounted
<1> QED BY <1>1, <1>3, <1>4 DEF ServerInv

\* What ServerInv depends on.
LEMMA ServerSame ==
  ASSUME ServerInv, UNCHANGED tasks, phase' = phase
  PROVE  ServerInv'
BY DEF ServerInv, tasks, PermitsExact, ActiveAccounted, In

LEMMA ServerInit ==
  ASSUME Init
  PROVE  ServerInv
<1>1. In(Held) = {} /\ In({"running"}) = {} /\ In({"detached"}) = {}
  BY DEF Init, In, Held
<1> QED BY <1>1, FS_EmptySet, ServerConstants
        DEF Init, ServerInv, PermitsExact, ActiveAccounted, ConnStates, Held

LEMMA ConnectionStepInv ==
  ASSUME ServerInv, ConnectionStep
  PROVE  ServerInv'
<1>1. PICK c \in Clients :
        \/ Connect(c) \/ Accept(c) \/ Refuse(c)
        \/ TaskStart(c) \/ TaskEnd(c) \/ Release(c) \/ TaskPanic(c) \/ WriterEnds(c)
  BY DEF ConnectionStep
<1>2. permits \in Nat /\ active \in Int /\ panics \in Nat /\ conn \in [Clients -> ConnStates]
  BY DEF ServerInv
<1>3. CASE Connect(c)
  <2>1. Moves(c, "backlog")
    BY <1>2, <1>3 DEF Moves, Connect, Held, ConnStates, control
  <2> QED BY <2>1, ServerMove DEF ConnStates, Held
<1>4. CASE Accept(c)
  <2>1. Moves(c, "spawned")
    BY <1>2, <1>4 DEF Moves, Accept, Move, Held, ConnStates, control
  <2> QED BY <2>1, ServerMove DEF ConnStates, Held
<1>5. CASE Refuse(c)
  <2>1. Moves(c, "dropped")
    BY <1>2, <1>5 DEF Moves, Refuse, Move, Held, ConnStates, control
  <2> QED BY <2>1, ServerMove DEF ConnStates, Held
<1>6. CASE TaskStart(c)
  <2>1. Moves(c, "running")
    BY <1>2, <1>6 DEF Moves, TaskStart, Move, Held, ConnStates, control
  <2> QED BY <2>1, ServerMove DEF ConnStates, Held
<1>7. CASE TaskEnd(c)
  <2>1. Moves(c, "leaving")
    BY <1>2, <1>7 DEF Moves, TaskEnd, Move, Held, ConnStates, control
  <2> QED BY <2>1, ServerMove DEF ConnStates, Held
<1>8. CASE Release(c)
  <2>1. Moves(c, "closed")
    BY <1>2, <1>8 DEF Moves, Release, Move, Held, ConnStates, control
  <2> QED BY <2>1, ServerMove DEF ConnStates, Held
<1>9. CASE TaskPanic(c)
  <2>1. Moves(c, "closed") \/ Moves(c, "detached")
    BY <1>2, <1>9 DEF Moves, TaskPanic, Move, Held, ConnStates, control
  <2> QED BY <2>1, ServerMove DEF ConnStates, Held
<1>10. CASE WriterEnds(c)
  <2>1. Moves(c, "closed")
    BY <1>2, <1>10 DEF Moves, WriterEnds, Move, Held, ConnStates, control
  <2> QED BY <2>1, ServerMove DEF ConnStates, Held
<1> QED BY <1>1, <1>3, <1>4, <1>5, <1>6, <1>7, <1>8, <1>9, <1>10

LEMMA StopInv ==
  ASSUME ServerInv, Stop
  PROVE  ServerInv'
<1>1. In(Held)' = {} /\ In({"detached"})' = {}
  BY DEF Stop, In, Held
<1> QED BY <1>1, FS_EmptySet, SMTT(40)
        DEF Stop, ServerInv, PermitsExact, ActiveAccounted, ConnStates, Held

LEMMA ServerStep ==
  ASSUME ServerInv, [Next]_vars
  PROVE  ServerInv'
<1>1. CASE UNCHANGED serverVars
  BY <1>1, ServerSame DEF serverVars, control
<1>2. CASE ConnectionStep
  BY <1>2, ConnectionStepInv
<1>3. CASE ControlStep
  <2>1. CASE CtrlC
    BY <2>1, ServerSame DEF CtrlC
  <2>2. CASE Shutdown
    BY <2>2 DEF Shutdown, ServerInv, tasks, PermitsExact, ActiveAccounted, In
  <2>3. CASE StudioShutdown
    BY <2>3, ServerSame DEF StudioShutdown
  <2> QED BY <1>3, <2>1, <2>2, <2>3 DEF ControlStep
<1>4. CASE Stop
  BY <1>4, StopInv
<1> QED BY <1>1, <1>2, <1>3, <1>4, ZenonT(60)
        DEF Next, vars, ClientStatement, StopAll, HttpConnect, HttpLeave, HttpStep,
            HttpAccept, HttpGet, HttpPost, HttpPanic, HttpAnswer, SeedBegin, SeedStep,
            SseHeader, SseSubscribe, SseLag, SseSend

\* Whatever way a task ends, the semaphore has a permit for each connection it
\* may still accept.
THEOREM PermitsCorrect == Spec => []PermitsExact
<1>1. StudioInit => ServerInv
  BY ServerInit DEF StudioInit
<1>2. ServerInv /\ [Next]_vars => ServerInv'
  BY ServerStep
<1>3. ServerInv => PermitsExact
  BY DEF ServerInv
<1> QED BY <1>1, <1>2, <1>3, PTL DEF Spec

\* The metric of active connections is off by the tasks that panicked and by
\* nothing else.
THEOREM ActiveCorrect == Spec => []ActiveAccounted
<1>1. StudioInit => ServerInv
  BY ServerInit DEF StudioInit
<1>2. ServerInv /\ [Next]_vars => ServerInv'
  BY ServerStep
<1>3. ServerInv => ActiveAccounted
  BY DEF ServerInv
<1> QED BY <1>1, <1>2, <1>3, PTL DEF Spec

-----------------------------------------------------------------------------
(* The tasks of the studio.                                                *)

Locations ==
  {"closed", "backlog", "accepted", "seeding", "answering", "subscribing", "streaming"}

TaskType ==
  [at : Locations, route : AllRoutes \cup {"none"}, step : Nat,
   answer : {"none", "ok", "404", "failed", "seeded"}, gone : BOOLEAN,
   pos : Nat, start : Nat, got : Seq(Nat), missed : SUBSET Nat,
   whole : BOOLEAN, touched : SUBSET Docs, logged : SUBSET Docs, emitted : Int,
   spoilt : SUBSET (Docs \cup SeedIndexes)]

\* Where a task is says what it serves.
Placed(t) ==
  /\ t.at = "closed" => t = NoTask
  /\ t.at = "seeding" => t.route = "seed" /\ t.step \in 1..SeedLength
  /\ t.at \in {"subscribing", "streaming"} => t.route = "events"

TypeInv ==
  /\ docs \subseteq Docs /\ indexes \subseteq SeedIndexes
  /\ events \in Nat
  /\ http \in [Windows -> TaskType]
  /\ requests \in Nat /\ failures \in Nat
  /\ \A w \in Windows : Placed(http[w])

LEMMA NoTaskType == NoTask \in TaskType /\ Placed(NoTask)
<1>1. <<>> \in Seq(Nat)
  OBVIOUS
<1> QED BY <1>1 DEF NoTask, TaskType, Placed, Locations

\* The samples are some of finitely many documents.
LEMMA DocsFinite == IsFiniteSet(Docs) /\ Docs # {}
<1> DEFINE f == [k \in 1..Len(Samples) |-> Samples[k]]
<1>1. Len(Samples) \in Nat \ {0}
  BY StudioConstants
<1>2. f \in Surjection(1..Len(Samples), Docs)
  BY DEF Surjection, Docs
<1>3. IsFiniteSet(1..Len(Samples))
  BY <1>1, FS_Interval
<1>4. IsFiniteSet(Docs)
  BY <1>2, <1>3, FS_Surjection
<1>5. Samples[1] \in Docs
  BY <1>1 DEF Docs
<1> QED BY <1>4, <1>5

\* What a statement leaves behind of the engine.
EngineStep ==
  /\ docs' \subseteq Docs /\ indexes' \subseteq SeedIndexes
  /\ events' \in Nat /\ failures' \in Nat

\* What is true of the effects of a statement: with an event for each document it
\* changed when it succeeded, and none otherwise.
Fair(e) ==
  /\ e.touched \subseteq Docs /\ e.logged \subseteq Docs
  /\ e.ok => e.logged = e.touched /\ events' - events = Cardinality(e.touched)
  /\ ~e.ok => events' - events = 0 /\ \E d \in Docs : e.touched \subseteq e.logged \cup {d}

LEMMA EmitStep ==
  ASSUME TypeInv, NEW changed \in SUBSET Docs, Emit(changed)
  PROVE  events' \in Nat /\ events' - events = Cardinality(changed)
<1>1. Cardinality(changed) \in Nat
  BY DocsFinite, FS_Subset, FS_CardinalityType
<1> QED BY <1>1 DEF Emit, TypeInv

LEMMA NoEffectStep ==
  ASSUME TypeInv, NEW ok \in BOOLEAN, NEW e, e = NoEffect(ok), events' = events
  PROVE  Fair(e)
BY DocsFinite, FS_EmptySet DEF NoEffect, Fair, TypeInv

LEMMA InsertStep ==
  ASSUME TypeInv, NEW d \in Docs, NEW e \in Effects, Insert(d, e)
  PROVE  /\ EngineStep /\ Fair(e)
         /\ docs \subseteq docs' /\ indexes' = indexes
         /\ IF e.ok THEN e.touched = {d} ELSE e.touched = {}
         /\ failures' > failures \/ d \in docs'
<1> USE DEF Insert
<1>1. CASE d \in docs /\ e = NoEffect(FALSE) /\ UNCHANGED <<docs, events, failures>>
  <2>1. Fair(e)
    BY <1>1, NoEffectStep
  <2> QED BY <1>1, <2>1 DEF NoEffect, EngineStep, TypeInv
<1>2. CASE /\ d \notin docs /\ e = [ok |-> TRUE, touched |-> {d}, logged |-> {d}]
           /\ docs' = docs \cup {d} /\ Emit({d}) /\ UNCHANGED failures
  <2>1. events' \in Nat /\ events' - events = Cardinality({d})
    BY <1>2, EmitStep
  <2>2. e.ok /\ e.touched = {d} /\ e.logged = {d}
    BY <1>2
  <2> QED BY <1>2, <2>1, <2>2 DEF EngineStep, TypeInv, Fair
<1>3. CASE /\ d \notin docs /\ ~e.ok /\ e.touched = {} /\ e.logged \subseteq {d}
           /\ failures < MaxFailures /\ failures' = failures + 1
           /\ UNCHANGED <<docs, events>>
  BY <1>3 DEF EngineStep, TypeInv, Fair
<1> QED BY <1>1, <1>2, <1>3

LEMMA CompletedStep ==
  ASSUME TypeInv, NEW found \in SUBSET Docs, NEW e \in Effects, Completed(found, e)
  PROVE  Fair(e) /\ events' \in Nat /\ failures' \in Nat
<1>1. e.ok /\ e.touched = found /\ e.logged = found
  BY DEF Completed
<1>2. events' \in Nat /\ events' - events = Cardinality(found)
  BY EmitStep DEF Completed
<1> QED BY <1>1, <1>2 DEF Fair, Completed, TypeInv

LEMMA BrokenOffStep ==
  ASSUME TypeInv, NEW found \in SUBSET Docs, NEW e \in Effects, BrokenOff(found, e)
  PROVE  Fair(e) /\ events' \in Nat
BY DEF BrokenOff, Fair, TypeInv

LEMMA UpdateStep ==
  ASSUME TypeInv, NEW target \in SUBSET Docs, NEW e \in Effects, Update(target, e)
  PROVE  EngineStep /\ Fair(e)
<1>1. target \cap docs \in SUBSET Docs
  OBVIOUS
<1>2. CASE Completed(target \cap docs, e)
  BY <1>1, <1>2, CompletedStep DEF Update, EngineStep, TypeInv
<1>3. CASE BrokenOff(target \cap docs, e) /\ (UNCHANGED failures \/ AppendFailed)
  BY <1>1, <1>3, BrokenOffStep DEF Update, AppendFailed, EngineStep, TypeInv
<1> QED BY <1>2, <1>3 DEF Update

LEMMA RemoveStep ==
  ASSUME TypeInv, NEW target \in SUBSET Docs, NEW e \in Effects, Remove(target, e)
  PROVE  EngineStep /\ Fair(e)
<1>1. target \cap docs \in SUBSET Docs
  OBVIOUS
<1>2. CASE Completed(target \cap docs, e)
  BY <1>1, <1>2, CompletedStep DEF Remove, EngineStep, TypeInv
<1>3. CASE BrokenOff(target \cap docs, e) /\ AppendFailed
  BY <1>1, <1>3, BrokenOffStep DEF Remove, AppendFailed, EngineStep, TypeInv
<1> QED BY <1>2, <1>3 DEF Remove

LEMMA IndexStep ==
  ASSUME TypeInv, NEW x \in SeedIndexes, CreateIndex(x) \/ DropIndex(x)
  PROVE  EngineStep /\ events' = events
BY DEF CreateIndex, DropIndex, EngineStep, TypeInv

LEMMA TargetsType == Targets \subseteq SUBSET Docs
BY DEF Targets

LEMMA ExecuteStep ==
  ASSUME TypeInv, NEW t, t.route \in Statements, NEW e \in Effects, Execute(t, e)
  PROVE  /\ EngineStep /\ Fair(e)
         /\ t.route = "insert" => IF e.ok THEN \E d \in Docs : e.touched = {d}
                                          ELSE e.touched = {}
<1>1. CASE t.route = "insert"
  <2>1. PICK d \in Docs : Insert(d, e)
    BY <1>1 DEF Execute
  <2> QED BY <2>1, InsertStep
<1>2. CASE t.route = "update"
  <2>1. PICK target \in Targets : Update(target, e)
    BY <1>2 DEF Execute
  <2> QED BY <1>2, <2>1, TargetsType, UpdateStep
<1>3. CASE t.route = "remove"
  <2>1. PICK target \in Targets : Remove(target, e)
    BY <1>3 DEF Execute
  <2> QED BY <1>3, <2>1, TargetsType, RemoveStep
<1>4. CASE t.route = "create"
  <2>1. PICK x \in SeedIndexes : CreateIndex(x) /\ e = NoEffect(TRUE)
    BY <1>4 DEF Execute
  <2> QED BY <1>4, <2>1, IndexStep, NoEffectStep
<1>5. CASE t.route = "drop"
  <2>1. PICK x \in SeedIndexes : DropIndex(x)
    BY <1>5 DEF Execute
  <2>2. e.ok \in BOOLEAN /\ e = NoEffect(e.ok)
    BY <1>5 DEF Execute, Effects
  <2> QED BY <1>5, <2>1, <2>2, IndexStep, NoEffectStep
<1>6. CASE t.route \in {"find", "refused"}
  <2>1. /\ UNCHANGED <<engine, failures>>
        /\ \E ok \in BOOLEAN : e = NoEffect(ok)
    BY <1>6 DEF Execute, Effects
  <2>2. Fair(e)
    BY <2>1, NoEffectStep DEF engine
  <2> QED BY <1>6, <2>1, <2>2 DEF EngineStep, engine, TypeInv
<1> QED BY <1>1, <1>2, <1>3, <1>4, <1>5, <1>6 DEF Statements

-----------------------------------------------------------------------------
(* What each task has done so far.                                         *)

\* A stream has given what lies between its subscription and its position.
SseOK(t) ==
  /\ t.at # "streaming" => t.pos = 0 /\ t.start = 0 /\ t.got = <<>> /\ t.missed = {}
  /\ t.start <= t.pos
  /\ t.missed \subseteq t.start..(t.pos - 1)
  /\ \A j, k \in 1..Len(t.got) : j < k => t.got[j] < t.got[k]
  /\ \A k \in 1..Len(t.got) : t.got[k] \in (t.start..(t.pos - 1)) \ t.missed
  /\ \A p \in (t.start..(t.pos - 1)) \ t.missed : \E k \in 1..Len(t.got) : t.got[k] = p

\* A seed has stored what it has passed.
SeedOK(t) ==
  /\ t.at = "seeding" =>
       \A k \in 1..(t.step - 1) : SeedItem(k) \in docs \cup indexes \cup t.spoilt
  /\ t.answer = "seeded" =>
       t.route = "seed" /\ Docs \cup SeedIndexes \subseteq docs \cup indexes \cup t.spoilt

\* A statement has had no effect before its answer, and then what the answer tells.
StatementOK(t) ==
  t.route \in Statements =>
    /\ t.at \in {"backlog", "accepted", "answering"}
    /\ t.at # "answering" =>
         t.answer = "none" /\ t.touched = {} /\ t.logged = {} /\ t.emitted = 0
    /\ t.touched \cup t.logged # {} \/ t.emitted # 0 => t.whole
    /\ t.answer = "ok" =>
         /\ t.logged = t.touched /\ t.emitted = Cardinality(t.touched)
         /\ t.route = "insert" => \E d \in Docs : t.touched = {d}
    /\ t.answer # "ok" =>
         /\ t.emitted = 0
         /\ t.route = "insert" => t.touched = {}
         /\ \E d \in Docs : t.touched \subseteq t.logged \cup {d}

TaskInv ==
  \A w \in Windows : SseOK(http[w]) /\ SeedOK(http[w]) /\ StatementOK(http[w])

StudioInv == TypeInv /\ TaskInv

\* A connection that is not there has done nothing.
LEMMA NoTaskGood == SseOK(NoTask) /\ SeedOK(NoTask) /\ StatementOK(NoTask)
BY DEF SseOK, SeedOK, StatementOK, NoTask, Statements

\* What is known of the next task of a window, said of its value.
LEMMA NextTask ==
  ASSUME NEW v \in Windows, NEW CONSTANT x, x = http'[v], SseOK(x), StatementOK(x), SeedOK(x)'
  PROVE  (SseOK(http[v]) /\ SeedOK(http[v]) /\ StatementOK(http[v]))'
<1>1. SseOK(http[v])'
  BY DEF SseOK
<1>2. SeedOK(http[v])'
  BY DEF SeedOK
<1>3. StatementOK(http[v])'
  BY DEF StatementOK
<1> QED BY <1>1, <1>2, <1>3

\* A task changes and the engine does not.
LEMMA QuietUpdate ==
  ASSUME StudioInv, NEW w \in Windows, NEW u \in TaskType,
         Placed(u), SseOK(u), SeedOK(u), StatementOK(u),
         http' = [http EXCEPT ![w] = u],
         UNCHANGED <<docs, indexes, events, failures>>, requests' \in Nat
  PROVE  StudioInv'
<1>1. http' \in [Windows -> TaskType] /\ http'[w] = u
      /\ \A v \in Windows \ {w} : http'[v] = http[v]
  BY DEF StudioInv, TypeInv
<1>2. TypeInv'
  BY <1>1 DEF StudioInv, TypeInv
<1>3. TaskInv'
  <2> SUFFICES ASSUME NEW v \in Windows
               PROVE  (SseOK(http[v]) /\ SeedOK(http[v]) /\ StatementOK(http[v]))'
    BY DEF TaskInv
  <2>1. PICK x : x = http'[v]
    OBVIOUS
  <2>2. SseOK(x) /\ SeedOK(x) /\ StatementOK(x)
    BY <1>1, <2>1 DEF StudioInv, TaskInv
  <2>3. SeedOK(x)'
    BY <2>2 DEF SeedOK
  <2> QED BY <2>1, <2>2, <2>3, NextTask
<1> QED BY <1>2, <1>3 DEF StudioInv

LEMMA CloseInv ==
  ASSUME StudioInv, NEW w \in Windows, Close(w),
         UNCHANGED <<docs, indexes, events, requests, failures>>
  PROVE  StudioInv'
BY NoTaskType, NoTaskGood, QuietUpdate DEF Close, StudioInv, TypeInv

\* A task that does not stream goes on to another place with another answer.
LEMMA TaskMoves ==
  ASSUME StudioInv, NEW w \in Windows, NEW u \in TaskType,
         http[w].at \notin {"closed", "streaming"}, u.at \notin {"closed", "streaming"},
         Placed(u), SeedOK(u), StatementOK(u),
         u.pos = http[w].pos, u.start = http[w].start, u.got = http[w].got,
         u.missed = http[w].missed,
         http' = [http EXCEPT ![w] = u],
         UNCHANGED <<docs, indexes, events, requests, failures>>
  PROVE  StudioInv'
<1>1. SseOK(u)
  BY DEF StudioInv, TaskInv, SseOK
<1> QED BY <1>1, QuietUpdate DEF StudioInv, TypeInv

LEMMA HttpAcceptInv ==
  ASSUME StudioInv, NEW w \in Windows, HttpAccept(w)
  PROVE  StudioInv'
<1> DEFINE t == http[w]  u == [t EXCEPT !.at = "accepted"]
<1>1. t \in TaskType /\ t.at = "backlog" /\ SeedOK(t) /\ StatementOK(t)
  BY DEF HttpAccept, At, StudioInv, TypeInv, TaskInv
<1>2. u \in TaskType
  BY <1>1 DEF TaskType, Locations
<1>3. Placed(u) /\ SeedOK(u) /\ StatementOK(u)
  BY <1>1 DEF Placed, SeedOK, StatementOK, TaskType
<1>4. http' = [http EXCEPT ![w] = u] /\ UNCHANGED <<docs, indexes, events, requests, failures>>
  BY DEF HttpAccept, Goto, engine
<1> QED BY <1>1, <1>2, <1>3, <1>4, TaskMoves DEF TaskType

LEMMA HttpLeaveInv ==
  ASSUME StudioInv, NEW w \in Windows, HttpLeave(w)
  PROVE  StudioInv'
<1> DEFINE t == http[w]  u == [t EXCEPT !.gone = TRUE]
<1>1. /\ t \in TaskType /\ t.at # "closed" /\ Placed(t)
      /\ SseOK(t) /\ SeedOK(t) /\ StatementOK(t)
  BY DEF HttpLeave, StudioInv, TypeInv, TaskInv
<1>2. u \in TaskType
  BY <1>1 DEF TaskType
<1>3. Placed(u) /\ SeedOK(u) /\ StatementOK(u)
  BY <1>1 DEF Placed, SeedOK, StatementOK, TaskType
<1>4. SseOK(u)
  <2>1. /\ u.at = t.at /\ u.pos = t.pos /\ u.start = t.start
        /\ u.got = t.got /\ u.missed = t.missed
    BY <1>1 DEF TaskType
  <2> QED BY <1>1, <2>1 DEF SseOK
<1>5. http' = [http EXCEPT ![w] = u] /\ UNCHANGED <<docs, indexes, events, requests, failures>>
  BY DEF HttpLeave, engine
<1> QED BY <1>1, <1>2, <1>3, <1>4, <1>5, QuietUpdate DEF StudioInv, TypeInv

LEMMA HttpGetInv ==
  ASSUME StudioInv, NEW w \in Windows, HttpGet(w)
  PROVE  StudioInv'
<1> DEFINE t == http[w]
<1>1. t \in TaskType /\ t.at = "accepted" /\ SeedOK(t) /\ StatementOK(t)
  BY DEF HttpGet, At, StudioInv, TypeInv, TaskInv
<1>2. UNCHANGED <<docs, indexes, events, requests, failures>>
  BY DEF HttpGet, engine
<1>3. CASE Close(w)
  BY <1>2, <1>3, CloseInv
<1>4. ASSUME NEW a \in {"404", "ok"}, Answer(w, a),
             a = "ok" => t.route \in {"page", "other", "events"}
      PROVE  StudioInv'
  <2> DEFINE u == Answered(t, a)
  <2>1. u \in TaskType
    BY <1>1, <1>4 DEF TaskType, Locations, Answered
  <2>2. Placed(u) /\ SeedOK(u) /\ StatementOK(u)
    BY <1>1, <1>4, DocsFinite DEF Placed, SeedOK, StatementOK, TaskType, Answered, Statements
  <2>3. http' = [http EXCEPT ![w] = u]
    BY <1>4 DEF Answer
  <2> QED BY <1>1, <1>2, <2>1, <2>2, <2>3, TaskMoves DEF TaskType, Answered
<1> QED BY <1>3, <1>4 DEF HttpGet

LEMMA SeedBeginInv ==
  ASSUME StudioInv, NEW w \in Windows, SeedBegin(w)
  PROVE  StudioInv'
<1> DEFINE t == http[w]  u == [t EXCEPT !.at = "seeding", !.step = 1]
<1>1. t \in TaskType /\ t.at = "accepted" /\ t.route = "seed" /\ SeedOK(t)
  BY DEF SeedBegin, At, StudioInv, TypeInv, TaskInv
<1>2. u \in TaskType
  BY <1>1 DEF TaskType, Locations
<1>3. Placed(u) /\ SeedOK(u) /\ StatementOK(u)
  BY <1>1, StudioConstants DEF Placed, SeedOK, StatementOK, TaskType, Statements, SeedLength
<1>4. http' = [http EXCEPT ![w] = u] /\ UNCHANGED <<docs, indexes, events, requests, failures>>
  BY <1>1 DEF SeedBegin, engine, TaskType, StudioInv, TypeInv
<1> QED BY <1>1, <1>2, <1>3, <1>4, TaskMoves DEF TaskType

LEMMA SseHeaderInv ==
  ASSUME StudioInv, NEW w \in Windows, SseHeader(w)
  PROVE  StudioInv'
<1> DEFINE t == http[w]  u == [t EXCEPT !.at = "subscribing"]
<1>1. t \in TaskType /\ t.at = "accepted" /\ t.route = "events" /\ SeedOK(t)
  BY DEF SseHeader, At, StudioInv, TypeInv, TaskInv
<1>2. UNCHANGED <<docs, indexes, events, requests, failures>>
  BY DEF SseHeader, engine
<1>3. CASE Close(w)
  BY <1>2, <1>3, CloseInv
<1>4. CASE Goto(w, "subscribing")
  <2>1. u \in TaskType
    BY <1>1 DEF TaskType, Locations
  <2>2. Placed(u) /\ SeedOK(u) /\ StatementOK(u)
    BY <1>1 DEF Placed, SeedOK, StatementOK, TaskType, Statements
  <2>3. http' = [http EXCEPT ![w] = u]
    BY <1>4 DEF Goto
  <2> QED BY <1>1, <1>2, <2>1, <2>2, <2>3, TaskMoves DEF TaskType
<1> QED BY <1>3, <1>4 DEF SseHeader

LEMMA SseSubscribeInv ==
  ASSUME StudioInv, NEW w \in Windows, SseSubscribe(w)
  PROVE  StudioInv'
<1> DEFINE t == http[w]  n == events + 1
           u == [t EXCEPT !.at = "streaming", !.pos = n, !.start = n]
<1>1. /\ t \in TaskType /\ t.at = "subscribing" /\ t.route = "events"
      /\ SseOK(t) /\ SeedOK(t)
  BY DEF SseSubscribe, At, StudioInv, TypeInv, TaskInv, Placed
<1>2. n \in Nat
  BY DEF StudioInv, TypeInv
<1>3. u \in TaskType
  BY <1>1, <1>2 DEF TaskType, Locations
<1>4. Placed(u) /\ SeedOK(u) /\ StatementOK(u)
  BY <1>1 DEF Placed, SeedOK, StatementOK, TaskType, Statements
<1>5. SseOK(u)
  <2>1. u.at = "streaming" /\ u.pos = n /\ u.start = n /\ u.got = <<>> /\ u.missed = {}
    BY <1>1 DEF TaskType, SseOK
  <2> QED BY <1>2, <2>1 DEF SseOK
<1>6. http' = [http EXCEPT ![w] = u] /\ UNCHANGED <<docs, indexes, events, requests, failures>>
  BY <1>1 DEF SseSubscribe, engine, TaskType, StudioInv, TypeInv
<1> QED BY <1>1, <1>3, <1>4, <1>5, <1>6, QuietUpdate DEF StudioInv, TypeInv

LEMMA OldestType ==
  ASSUME TypeInv
  PROVE  Oldest \in Nat
BY StudioConstants DEF Oldest, TypeInv

LEMMA SseLagInv ==
  ASSUME StudioInv, NEW w \in Windows, SseLag(w)
  PROVE  StudioInv'
<1> DEFINE t == http[w]
           u == [t EXCEPT !.pos = Oldest, !.missed = @ \cup (t.pos..(Oldest - 1))]
<1>1. /\ t \in TaskType /\ t.at = "streaming" /\ t.route = "events" /\ t.pos < Oldest
      /\ SseOK(t) /\ SeedOK(t)
  BY DEF SseLag, At, StudioInv, TypeInv, TaskInv, Placed
<1>2. Oldest \in Nat
  BY OldestType DEF StudioInv
<1>3. u \in TaskType
  <2>1. PICK m : m = t.missed \cup (t.pos..(Oldest - 1))
    OBVIOUS
  <2>2. m \in SUBSET Nat
    BY <1>1, <1>2, <2>1 DEF TaskType
  <2>3. u = [t EXCEPT !.pos = Oldest, !.missed = m]
    BY <2>1
  <2> QED BY <1>1, <1>2, <2>2, <2>3 DEF TaskType
<1>4. Placed(u) /\ SeedOK(u) /\ StatementOK(u)
  BY <1>1 DEF Placed, SeedOK, StatementOK, TaskType, Statements
<1>5. SseOK(u)
  <2>1. /\ u.at = "streaming" /\ u.pos = Oldest /\ u.start = t.start
        /\ u.got = t.got /\ u.missed = t.missed \cup (t.pos..(Oldest - 1))
        /\ t.pos \in Nat /\ t.start \in Nat
    BY <1>1 DEF TaskType
  <2>2. (u.start..(u.pos - 1)) \ u.missed = (t.start..(t.pos - 1)) \ t.missed
    BY <1>1, <1>2, <2>1 DEF SseOK
  <2>3. u.start <= u.pos /\ u.missed \subseteq u.start..(u.pos - 1)
    BY <1>1, <1>2, <2>1 DEF SseOK
  <2> QED BY <1>1, <2>1, <2>2, <2>3 DEF SseOK
<1>6. http' = [http EXCEPT ![w] = u] /\ UNCHANGED <<docs, indexes, events, requests, failures>>
  BY <1>1 DEF SseLag, ResumeAt, engine, TaskType, StudioInv, TypeInv
<1> QED BY <1>1, <1>3, <1>4, <1>5, <1>6, QuietUpdate DEF StudioInv, TypeInv

LEMMA SseSendInv ==
  ASSUME StudioInv, NEW w \in Windows, SseSend(w)
  PROVE  StudioInv'
<1> DEFINE t == http[w]  p == t.pos
           u == [t EXCEPT !.pos = p + 1, !.got = Append(@, p)]
<1>1. /\ t \in TaskType /\ t.at = "streaming" /\ t.route = "events"
      /\ SseOK(t) /\ SeedOK(t)
  BY DEF SseSend, At, StudioInv, TypeInv, TaskInv, Placed
<1>2. UNCHANGED <<docs, indexes, events, requests, failures>>
  BY DEF SseSend, engine
<1>3. CASE Close(w)
  BY <1>2, <1>3, CloseInv
<1>4. CASE http' = [http EXCEPT ![w].pos = p + 1, ![w].got = Append(@, p)]
  <2>1. p \in Nat /\ t.start \in Nat /\ t.got \in Seq(Nat)
    BY <1>1 DEF TaskType
  <2>2. /\ Append(t.got, p) \in Seq(Nat)
        /\ Len(Append(t.got, p)) = Len(t.got) + 1 /\ Len(t.got) \in Nat
        /\ \A k \in 1..Len(t.got) : Append(t.got, p)[k] = t.got[k]
        /\ Append(t.got, p)[Len(t.got) + 1] = p
    BY <2>1, AppendProperties, LenProperties
  <2>3. u \in TaskType
    <3>1. PICK g \in Seq(Nat) : g = Append(t.got, p)
      BY <2>2
    <3>2. u = [t EXCEPT !.pos = p + 1, !.got = g]
      BY <3>1
    <3>3. PICK n \in Nat : n = p + 1
      BY <2>1
    <3>4. [t EXCEPT !.pos = n, !.got = g] \in TaskType
      BY <1>1 DEF TaskType
    <3> QED BY <3>2, <3>3, <3>4
  <2>4. Placed(u) /\ SeedOK(u) /\ StatementOK(u)
    BY <1>1 DEF Placed, SeedOK, StatementOK, TaskType, Statements
  <2>5. /\ u.at = "streaming" /\ u.pos = p + 1 /\ u.start = t.start
        /\ u.got = Append(t.got, p) /\ u.missed = t.missed
    BY <1>1 DEF TaskType
  <2>6. SseOK(u)
    <3>1. u.start <= u.pos /\ u.missed \subseteq u.start..(u.pos - 1) /\ p \notin u.missed
      BY <1>1, <2>1, <2>5 DEF SseOK
    <3>2. \A k \in 1..Len(t.got) : t.got[k] \in (t.start..(p - 1)) \ t.missed
      BY <1>1 DEF SseOK
    <3>3. \A j, k \in 1..Len(u.got) : j < k => u.got[j] < u.got[k]
      <4> SUFFICES ASSUME NEW j \in 1..Len(u.got), NEW k \in 1..Len(u.got), j < k
                   PROVE  u.got[j] < u.got[k]
        OBVIOUS
      <4>1. j \in 1..Len(t.got) /\ u.got[j] = t.got[j]
        BY <2>2, <2>5
      <4>2. CASE k \in 1..Len(t.got)
        <5>1. t.got[j] < t.got[k]
          BY <1>1, <4>1, <4>2 DEF SseOK
        <5> QED BY <2>2, <2>5, <4>1, <4>2, <5>1
      <4>3. CASE k = Len(t.got) + 1
        BY <2>1, <2>2, <2>5, <3>2, <4>1, <4>3, SMTT(40)
      <4> QED BY <2>2, <2>5, <4>2, <4>3
    <3>4. \A k \in 1..Len(u.got) : u.got[k] \in (u.start..(u.pos - 1)) \ u.missed
      <4> SUFFICES ASSUME NEW k \in 1..Len(u.got)
                   PROVE  u.got[k] \in (u.start..(u.pos - 1)) \ u.missed
        OBVIOUS
      <4>1. CASE k \in 1..Len(t.got)
        BY <2>1, <2>2, <2>5, <3>2, <4>1, SMTT(40)
      <4>2. CASE k = Len(t.got) + 1
        BY <1>1, <2>1, <2>2, <2>5, <3>1, <4>2, SMTT(40) DEF SseOK
      <4> QED BY <2>2, <2>5, <4>1, <4>2
    <3>5. ASSUME NEW q \in (u.start..(u.pos - 1)) \ u.missed
          PROVE  \E k \in 1..Len(u.got) : u.got[k] = q
      <4>1. CASE q = p
        <5>1. Len(t.got) + 1 \in 1..Len(u.got) /\ u.got[Len(t.got) + 1] = q
          BY <2>2, <2>5, <4>1
        <5> QED BY <5>1
      <4>2. CASE q # p
        <5>1. q \in (t.start..(p - 1)) \ t.missed
          BY <2>1, <2>5, <4>2
        <5>2. PICK k \in 1..Len(t.got) : t.got[k] = q
          BY <1>1, <5>1 DEF SseOK
        <5> QED BY <2>2, <2>5, <5>2
      <4> QED BY <4>1, <4>2
    <3> QED BY <2>5, <3>1, <3>3, <3>4, <3>5 DEF SseOK
  <2>7. http' = [http EXCEPT ![w] = u]
    BY <1>1, <1>4 DEF TaskType, StudioInv, TypeInv
  <2> QED BY <1>1, <1>2, <2>3, <2>4, <2>5, <2>6, <2>7, QuietUpdate DEF StudioInv, TypeInv
<1> QED BY <1>3, <1>4 DEF SseSend

LEMMA HttpConnectInv ==
  ASSUME StudioInv, NEW w \in Windows, HttpConnect(w)
  PROVE  StudioInv'
<1>1. PICK k \in Routes :
        http' = [http EXCEPT ![w] = [NoTask EXCEPT !.at = "backlog", !.route = k]]
  BY Zenon DEF HttpConnect
<1> DEFINE u == [NoTask EXCEPT !.at = "backlog", !.route = k]
<1>2. requests' \in Nat /\ UNCHANGED <<docs, indexes, events, failures>>
  BY DEF HttpConnect, engine, StudioInv, TypeInv
<1>3. u \in TaskType
  BY NoTaskType, StudioConstants DEF TaskType, Locations
<1>4. /\ u.at = "backlog" /\ u.route = k /\ u.answer = "none"
      /\ u.pos = 0 /\ u.start = 0 /\ u.got = <<>> /\ u.missed = {}
      /\ u.touched = {} /\ u.logged = {} /\ u.emitted = 0
  BY DEF NoTask
<1>5. Placed(u) /\ SseOK(u) /\ SeedOK(u) /\ StatementOK(u)
  BY <1>4, DocsFinite DEF Placed, SseOK, SeedOK, StatementOK
<1> QED BY <1>1, <1>2, <1>3, <1>5, QuietUpdate

-----------------------------------------------------------------------------
(* Statements.                                                             *)

\* A task after a statement of another: as it was, or with what the statement
\* removed added to what spoils its seed.
Aside(t, s) ==
  \/ s = t /\ (t.route = "seed" => docs \subseteq docs' /\ indexes \subseteq indexes')
  \/ t.route = "seed" /\ s = [t EXCEPT !.spoilt = @ \cup (docs \ docs') \cup (indexes \ indexes')]

LEMMA OtherTask ==
  ASSUME StudioInv, NEW v \in Windows, NEW CONSTANT s, Aside(http[v], s)
  PROVE  s \in TaskType /\ Placed(s) /\ SseOK(s) /\ StatementOK(s) /\ SeedOK(s)'
<1> DEFINE t == http[v]
<1>1. t \in TaskType /\ Placed(t) /\ SseOK(t) /\ SeedOK(t) /\ StatementOK(t)
  BY DEF StudioInv, TypeInv, TaskInv
<1>2. s \in TaskType
  <2>1. PICK x : x = t.spoilt \cup (docs \ docs') \cup (indexes \ indexes')
    OBVIOUS
  <2>2. x \in SUBSET (Docs \cup SeedIndexes)
    BY <1>1, <2>1 DEF TaskType, StudioInv, TypeInv
  <2>3. [t EXCEPT !.spoilt = x] \in TaskType
    BY <1>1, <2>2 DEF TaskType
  <2> QED BY <1>1, <2>1, <2>3 DEF Aside
<1>3. /\ s.at = t.at /\ s.route = t.route /\ s.step = t.step /\ s.answer = t.answer
      /\ s.pos = t.pos /\ s.start = t.start /\ s.got = t.got /\ s.missed = t.missed
  BY <1>1 DEF Aside, TaskType
<1>4. Placed(s)
  BY <1>1, <1>3 DEF Placed, Aside, NoTask
<1>5. SseOK(s)
  BY <1>1, <1>3 DEF SseOK
<1>6. t.route = "seed" =>
        docs \cup indexes \cup t.spoilt \subseteq docs' \cup indexes' \cup s.spoilt
  BY <1>1 DEF Aside, TaskType
<1>7. SeedOK(s)'
  BY <1>1, <1>3, <1>6 DEF SeedOK, Placed
<1>8. StatementOK(s)
  BY <1>1, <1>3 DEF StatementOK, Aside, Statements
<1> QED BY <1>2, <1>4, <1>5, <1>7, <1>8

LEMMA EngineUpdate ==
  ASSUME StudioInv, EngineStep, requests' = requests,
         http' = [v \in Windows |-> http'[v]],
         ASSUME NEW v \in Windows
         PROVE  \E s : /\ s = http'[v]
                       /\ s \in TaskType /\ Placed(s) /\ SseOK(s) /\ StatementOK(s) /\ SeedOK(s)'
  PROVE  StudioInv'
<1>1. http' \in [Windows -> TaskType] /\ \A v \in Windows : Placed(http'[v])
  OBVIOUS
<1>2. TypeInv'
  BY <1>1 DEF StudioInv, TypeInv, EngineStep
<1>3. TaskInv'
  <2> SUFFICES ASSUME NEW v \in Windows
               PROVE  (SseOK(http[v]) /\ SeedOK(http[v]) /\ StatementOK(http[v]))'
    BY DEF TaskInv
  <2>1. PICK s : s = http'[v] /\ SseOK(s) /\ StatementOK(s) /\ SeedOK(s)'
    OBVIOUS
  <2> QED BY <2>1, NextTask
<1> QED BY <1>2, <1>3 DEF StudioInv

LEMMA ClientStatementInv ==
  ASSUME StudioInv, ClientStatement
  PROVE  StudioInv'
<1>1. EngineStep
  BY InsertStep, UpdateStep, RemoveStep, IndexStep, TargetsType
     DEF ClientStatement, StudioInv
<1>2. requests' = requests /\ http' = Spoilt(http)
  BY DEF ClientStatement
<1>3. ASSUME NEW v \in Windows
      PROVE  \E s : /\ s = http'[v]
                    /\ s \in TaskType /\ Placed(s) /\ SseOK(s) /\ StatementOK(s) /\ SeedOK(s)'
  <2>1. PICK s : s = http'[v]
    OBVIOUS
  <2>2. Aside(http[v], s)
    BY <1>2, <2>1 DEF Spoilt, Aside
  <2> QED BY <2>1, <2>2, OtherTask
<1>4. http' = [v \in Windows |-> http'[v]]
  BY <1>2 DEF Spoilt
<1> QED BY <1>1, <1>2, <1>3, <1>4, EngineUpdate

LEMMA HttpPostInv ==
  ASSUME StudioInv, NEW w \in Windows, HttpPost(w)
  PROVE  StudioInv'
<1>1. PICK r \in {"head", "all"}, e \in Effects :
        /\ \/ ParseBody(r) /\ Execute(http[w], e)
           \/ ~ParseBody(r) /\ e = NoEffect(FALSE) /\ UNCHANGED <<engine, failures>>
        /\ http' = Spoilt([http EXCEPT ![w] =
             [Answered(http[w], IF e.ok THEN "ok" ELSE "failed") EXCEPT
                !.whole = r = "all", !.touched = e.touched, !.logged = e.logged,
                !.emitted = events' - events]])
  BY DEF HttpPost
<1>2. PICK t : t = http[w]
  OBVIOUS
<1>3. /\ t \in TaskType /\ t.at = "accepted" /\ t.route \in Statements
      /\ SseOK(t) /\ StatementOK(t) /\ requests' = requests
  BY <1>2 DEF HttpPost, At, StudioInv, TypeInv, TaskInv
<1>4. /\ EngineStep /\ Fair(e)
      /\ t.route = "insert" => IF e.ok THEN \E d \in Docs : e.touched = {d}
                                       ELSE e.touched = {}
      /\ r # "all" => e = NoEffect(FALSE) /\ events' = events
  <2>1. CASE ParseBody(r) /\ Execute(t, e)
    BY <1>3, <2>1, ExecuteStep DEF StudioInv, ParseBody
  <2>2. CASE ~ParseBody(r) /\ e = NoEffect(FALSE) /\ UNCHANGED <<engine, failures>>
    <3>1. Fair(e)
      BY <2>2, NoEffectStep DEF StudioInv, engine
    <3> QED BY <2>2, <3>1 DEF EngineStep, StudioInv, TypeInv, engine, NoEffect
  <2> QED BY <1>1, <1>2, <2>1, <2>2
<1>5. PICK a, b, p, q, m :
        /\ a = (IF e.ok THEN "ok" ELSE "failed") /\ b = (r = "all")
        /\ p = e.touched /\ q = e.logged /\ m = events' - events
  OBVIOUS
<1>6. /\ b \in BOOLEAN /\ p \in SUBSET Docs /\ q \in SUBSET Docs /\ m \in Int
      /\ a \in {"ok", "failed"}
  BY <1>4, <1>5 DEF Effects, EngineStep, StudioInv, TypeInv
<1> DEFINE u == [t EXCEPT !.at = "answering", !.answer = a, !.whole = b,
                          !.touched = p, !.logged = q, !.emitted = m]
<1>7. u = [Answered(t, a) EXCEPT !.whole = b, !.touched = p, !.logged = q, !.emitted = m]
  BY <1>3 DEF Answered, TaskType
<1>8. u \in TaskType
  BY <1>3, <1>6 DEF TaskType, Locations
<1>9. /\ u.at = "answering" /\ u.answer = a /\ u.whole = b
      /\ u.touched = p /\ u.logged = q /\ u.emitted = m
      /\ u.route = t.route /\ u.pos = t.pos /\ u.start = t.start
      /\ u.got = t.got /\ u.missed = t.missed
  BY <1>3 DEF TaskType
<1>10. PICK x : x = u
  OBVIOUS
<1>11. Placed(x) /\ SseOK(x) /\ SeedOK(x)'
  BY <1>3, <1>6, <1>9, <1>10 DEF Placed, SseOK, SeedOK
<1>12. StatementOK(x)
  <2>1. p \cup q # {} \/ m # 0 => b
    <3>1. CASE r = "all"
      BY <1>5, <3>1
    <3>2. CASE r # "all"
      <4>1. e.touched = {} /\ e.logged = {}
        BY <1>4, <3>2 DEF NoEffect
      <4>2. events' - events = 0
        BY <1>4, <3>2 DEF StudioInv, TypeInv
      <4> QED BY <1>5, <4>1, <4>2
    <3> QED BY <3>1, <3>2
  <2>2. a = "ok" =>
          /\ q = p /\ m = Cardinality(p)
          /\ t.route = "insert" => \E d \in Docs : p = {d}
    BY <1>4, <1>5 DEF Fair
  <2>3. a # "ok" =>
          /\ m = 0
          /\ t.route = "insert" => p = {}
          /\ \E d \in Docs : p \subseteq q \cup {d}
    BY <1>4, <1>5 DEF Fair
  <2> QED BY <1>9, <1>10, <2>1, <2>2, <2>3 DEF StatementOK
<1>13. http' = Spoilt([http EXCEPT ![w] = x])
  BY <1>1, <1>2, <1>5, <1>7, <1>10
<1>14. ASSUME NEW v \in Windows
       PROVE  \E s : /\ s = http'[v]
                     /\ s \in TaskType /\ Placed(s) /\ SseOK(s) /\ StatementOK(s) /\ SeedOK(s)'
  <2>1. CASE v = w
    <3>1. x.route # "seed"
      BY <1>3, <1>9, <1>10 DEF Statements
    <3>2. http'[v] = x
      BY <1>13, <2>1, <3>1 DEF Spoilt, StudioInv, TypeInv
    <3> QED BY <1>8, <1>10, <1>11, <1>12, <3>2
  <2>2. CASE v # w
    <3>1. PICK s : s = http'[v]
      OBVIOUS
    <3>2. Aside(http[v], s)
      BY <1>13, <2>2, <3>1 DEF Spoilt, Aside, StudioInv, TypeInv
    <3> QED BY <3>1, <3>2, OtherTask
  <2> QED BY <2>1, <2>2
<1>15. http' = [v \in Windows |-> http'[v]]
  BY <1>13 DEF Spoilt
<1> QED BY <1>3, <1>4, <1>14, <1>15, EngineUpdate

\* What a statement of the seed is to store, and that it stores it.
LEMMA SeedItemType ==
  ASSUME NEW k \in 1..SeedLength
  PROVE  /\ k <= Len(Samples) => SeedItem(k) \in Docs
         /\ ~(k <= Len(Samples)) => SeedItem(k) \in SeedIndexes
<1>1. Len(Samples) \in Nat /\ Len(Indexes) \in Nat
  BY StudioConstants
<1> QED BY <1>1 DEF SeedItem, SeedLength, Docs, SeedIndexes

LEMMA SeedItemsAll ==
  ASSUME NEW S, \A k \in 1..SeedLength : SeedItem(k) \in S
  PROVE  Docs \cup SeedIndexes \subseteq S
<1>1. Len(Samples) \in Nat /\ Len(Indexes) \in Nat
  BY StudioConstants
<1>2. ASSUME NEW k \in 1..Len(Samples)
      PROVE  Samples[k] \in S
  BY <1>1 DEF SeedItem, SeedLength
<1>3. ASSUME NEW k \in 1..Len(Indexes)
      PROVE  Indexes[k] \in S
  <2>1. Len(Samples) + k \in 1..SeedLength /\ SeedItem(Len(Samples) + k) = Indexes[k]
    BY <1>1 DEF SeedItem, SeedLength
  <2> QED BY <2>1
<1> QED BY <1>2, <1>3 DEF Docs, SeedIndexes

LEMMA SeedStatementStep ==
  ASSUME TypeInv, NEW k \in 1..SeedLength, NEW e \in Effects, SeedStatement(k, e)
  PROVE  /\ EngineStep
         /\ docs \subseteq docs' /\ indexes \subseteq indexes'
         /\ failures' > failures \/ SeedItem(k) \in docs' \cup indexes'
<1>1. CASE k <= Len(Samples)
  BY <1>1, SeedItemType, InsertStep DEF SeedStatement
<1>2. CASE ~(k <= Len(Samples))
  <2>1. SeedItem(k) \in SeedIndexes /\ CreateIndex(SeedItem(k))
    BY <1>2, SeedItemType DEF SeedStatement
  <2> QED BY <2>1, IndexStep DEF CreateIndex
<1> QED BY <1>1, <1>2

LEMMA SeedStepInv ==
  ASSUME StudioInv, NEW w \in Windows, SeedStep(w)
  PROVE  StudioInv'
<1>1. PICK t, i, held :
        /\ t = http[w] /\ i = SeedItem(t.step)
        /\ held = IF failures' > failures THEN t.spoilt \cup {i} ELSE t.spoilt \ {i}
  OBVIOUS
<1>2. PICK e \in Effects :
        /\ SeedStatement(t.step, e)
        /\ http' = [http EXCEPT ![w] = [SeedNext(t, e.ok) EXCEPT !.spoilt = held]]
  BY <1>1 DEF SeedStep
<1>3. /\ t \in TaskType /\ t.at = "seeding" /\ t.route = "seed" /\ t.step \in 1..SeedLength
      /\ SseOK(t) /\ SeedOK(t) /\ requests' = requests
  BY <1>1 DEF SeedStep, At, StudioInv, TypeInv, TaskInv, Placed
<1>4. held \in SUBSET (Docs \cup SeedIndexes) /\ SeedLength \in Nat
  BY <1>1, <1>3, SeedItemType, StudioConstants DEF TaskType, SeedLength
<1>5. /\ EngineStep /\ docs \subseteq docs' /\ indexes \subseteq indexes'
      /\ failures' > failures \/ i \in docs' \cup indexes'
  BY <1>1, <1>2, <1>3, SeedStatementStep DEF StudioInv
<1>6. PICK there : there = docs' \cup indexes' \cup held
  OBVIOUS
<1>7. i \in there /\ docs \cup indexes \cup t.spoilt \subseteq there
  BY <1>1, <1>5, <1>6
<1>8. PICK x : x = [SeedNext(t, e.ok) EXCEPT !.spoilt = held]
  OBVIOUS
<1>9. \A k \in 1..t.step : SeedItem(k) \in there
  <2> SUFFICES ASSUME NEW k \in 1..t.step
               PROVE  SeedItem(k) \in there
    OBVIOUS
  <2>1. CASE k = t.step
    BY <1>1, <1>7, <2>1
  <2>2. CASE k # t.step
    <3>1. k \in 1..(t.step - 1)
      BY <1>3, <2>2
    <3> QED BY <1>3, <1>7, <3>1 DEF SeedOK
  <2> QED BY <2>1, <2>2
<1>10. x \in TaskType /\ Placed(x) /\ SseOK(x) /\ StatementOK(x) /\ SeedOK(x)'
  <2>1. CASE t.step = SeedLength
    <3> DEFINE u == [t EXCEPT !.at = "answering", !.answer = "seeded", !.spoilt = held]
    <3>1. x = u
      BY <1>3, <1>8, <2>1 DEF SeedNext, Answered, TaskType
    <3>2. x \in TaskType
      BY <1>3, <1>4, <3>1 DEF TaskType, Locations
    <3>3. /\ x.at = "answering" /\ x.answer = "seeded" /\ x.spoilt = held
          /\ x.route = "seed" /\ x.pos = t.pos /\ x.start = t.start
          /\ x.got = t.got /\ x.missed = t.missed
      BY <1>3, <3>1 DEF TaskType
    <3>4. SseOK(x) /\ Placed(x) /\ StatementOK(x)
      BY <1>3, <3>3 DEF SseOK, Placed, StatementOK, Statements
    <3>5. SeedOK(x)'
      <4>1. Docs \cup SeedIndexes \subseteq there
        BY <1>9, <2>1, SeedItemsAll
      <4> QED BY <1>6, <3>3, <4>1 DEF SeedOK
    <3> QED BY <3>2, <3>4, <3>5
  <2>2. CASE t.step # SeedLength
    <3> DEFINE u == [t EXCEPT !.step = t.step + 1, !.spoilt = held]
    <3>1. x = u
      BY <1>3, <1>8, <2>2 DEF SeedNext, TaskType
    <3>2. x \in TaskType
      <4>1. PICK m \in Nat : m = t.step + 1
        BY <1>3
      <4>2. [t EXCEPT !.step = m, !.spoilt = held] \in TaskType
        BY <1>3, <1>4 DEF TaskType
      <4> QED BY <3>1, <4>1, <4>2
    <3>3. /\ x.at = "seeding" /\ x.answer = t.answer /\ x.spoilt = held
          /\ x.route = "seed" /\ x.step = t.step + 1 /\ x.pos = t.pos /\ x.start = t.start
          /\ x.got = t.got /\ x.missed = t.missed
      BY <1>3, <3>1 DEF TaskType
    <3>4. SseOK(x) /\ StatementOK(x)
      BY <1>3, <3>3 DEF SseOK, StatementOK, Statements
    <3>5. Placed(x)
      BY <1>3, <1>4, <2>2, <3>3 DEF Placed
    <3>6. SeedOK(x)'
      <4>1. \A k \in 1..(x.step - 1) : SeedItem(k) \in there
        BY <1>3, <1>9, <3>3
      <4>2. x.answer = "seeded" => Docs \cup SeedIndexes \subseteq there
        BY <1>3, <1>7, <3>3 DEF SeedOK
      <4> QED BY <1>6, <3>3, <4>1, <4>2 DEF SeedOK
    <3> QED BY <3>2, <3>4, <3>5, <3>6
  <2> QED BY <2>1, <2>2
<1>11. http' = [http EXCEPT ![w] = x]
  BY <1>2, <1>8
<1>12. ASSUME NEW v \in Windows
       PROVE  \E s : /\ s = http'[v]
                     /\ s \in TaskType /\ Placed(s) /\ SseOK(s) /\ StatementOK(s) /\ SeedOK(s)'
  <2>1. CASE v = w
    <3>1. http'[v] = x
      BY <1>11, <2>1 DEF StudioInv, TypeInv
    <3> QED BY <1>10, <3>1
  <2>2. CASE v # w
    <3>1. PICK s : s = http'[v]
      OBVIOUS
    <3>2. Aside(http[v], s)
      BY <1>5, <1>11, <2>2, <3>1 DEF Aside, StudioInv, TypeInv
    <3> QED BY <3>1, <3>2, OtherTask
  <2> QED BY <2>1, <2>2
<1>13. http' = [v \in Windows |-> http'[v]]
  BY <1>11 DEF StudioInv, TypeInv
<1> QED BY <1>3, <1>5, <1>12, <1>13, EngineUpdate

-----------------------------------------------------------------------------
LEMMA StudioInvInit ==
  ASSUME StudioInit
  PROVE  StudioInv
<1>1. TypeInv
  BY NoTaskType DEF StudioInit, TypeInv
<1>2. TaskInv
  BY NoTaskGood DEF StudioInit, TaskInv
<1> QED BY <1>1, <1>2 DEF StudioInv

LEMMA StudioInvSame ==
  ASSUME StudioInv, UNCHANGED studioVars
  PROVE  StudioInv'
<1> USE DEF studioVars, engine
<1>1. TypeInv'
  BY DEF StudioInv, TypeInv
<1>2. TaskInv'
  <2> SUFFICES ASSUME NEW v \in Windows
               PROVE  (SseOK(http[v]) /\ SeedOK(http[v]) /\ StatementOK(http[v]))'
    BY DEF TaskInv
  <2>1. PICK x : x = http'[v] /\ x = http[v]
    OBVIOUS
  <2>2. SseOK(x) /\ SeedOK(x) /\ StatementOK(x)
    BY <2>1 DEF StudioInv, TaskInv
  <2>3. SeedOK(x)'
    BY <2>2 DEF SeedOK
  <2> QED BY <2>1, <2>2, <2>3, NextTask
<1> QED BY <1>1, <1>2 DEF StudioInv

LEMMA StopAllInv ==
  ASSUME StudioInv, StopAll
  PROVE  StudioInv'
<1>1. /\ http' = [v \in Windows |-> NoTask]
      /\ UNCHANGED <<docs, indexes, events, requests, failures>>
  BY DEF StopAll, engine
<1>2. TypeInv'
  BY <1>1, NoTaskType DEF StudioInv, TypeInv
<1>3. TaskInv'
  <2> SUFFICES ASSUME NEW v \in Windows
               PROVE  (SseOK(http[v]) /\ SeedOK(http[v]) /\ StatementOK(http[v]))'
    BY DEF TaskInv
  <2>1. PICK x : x = NoTask
    OBVIOUS
  <2>2. SseOK(x) /\ StatementOK(x) /\ SeedOK(x)'
    BY <2>1, NoTaskGood DEF SeedOK, NoTask
  <2> QED BY <1>1, <2>1, <2>2, NextTask
<1> QED BY <1>2, <1>3 DEF StudioInv

LEMMA StudioStep ==
  ASSUME StudioInv, [Next]_vars
  PROVE  StudioInv'
<1>1. CASE UNCHANGED studioVars
  BY <1>1, StudioInvSame
<1>2. CASE ClientStatement
  BY <1>2, ClientStatementInv
<1>3. CASE StopAll
  BY <1>3, StopAllInv
<1>4. ASSUME NEW w \in Windows, HttpConnect(w) \/ HttpLeave(w) \/ HttpStep(w)
      PROVE  StudioInv'
  <2>1. CASE HttpConnect(w)
    BY <2>1, HttpConnectInv
  <2>2. CASE HttpLeave(w)
    BY <2>2, HttpLeaveInv
  <2>3. CASE HttpAccept(w)
    BY <2>3, HttpAcceptInv
  <2>4. CASE HttpGet(w)
    BY <2>4, HttpGetInv
  <2>5. CASE HttpPost(w)
    BY <2>5, HttpPostInv
  <2>6. CASE HttpPanic(w) \/ HttpAnswer(w)
    BY <2>6, CloseInv DEF HttpPanic, HttpAnswer, engine
  <2>7. CASE SeedBegin(w)
    BY <2>7, SeedBeginInv
  <2>8. CASE SeedStep(w)
    BY <2>8, SeedStepInv
  <2>9. CASE SseHeader(w)
    BY <2>9, SseHeaderInv
  <2>10. CASE SseSubscribe(w)
    BY <2>10, SseSubscribeInv
  <2>11. CASE SseLag(w)
    BY <2>11, SseLagInv
  <2>12. CASE SseSend(w)
    BY <2>12, SseSendInv
  <2> QED BY <1>4, <2>1, <2>2, <2>3, <2>4, <2>5, <2>6, <2>7, <2>8, <2>9, <2>10, <2>11, <2>12
          DEF HttpStep
<1> QED BY <1>1, <1>2, <1>3, <1>4 DEF Next, vars

\* The conjuncts of the invariant are what a window, a seed and a stream see.
LEMMA StudioInvImplies ==
  ASSUME StudioInv
  PROVE  StatementsTrue /\ SeedComplete /\ SseExact
<1>1. StatementsTrue
  BY DEF StudioInv, TaskInv, StatementOK, StatementsTrue
<1>2. SeedComplete
  BY DEF StudioInv, TaskInv, SeedOK, SeedComplete
<1>3. SseExact
  <2> SUFFICES ASSUME NEW w \in Windows, NEW t, t = http[w]
               PROVE  /\ \A j, k \in 1..Len(t.got) : j < k => t.got[j] < t.got[k]
                      /\ {t.got[k] : k \in 1..Len(t.got)} = (t.start..(t.pos - 1)) \ t.missed
    BY DEF SseExact
  <2>1. SseOK(t)
    BY DEF StudioInv, TaskInv
  <2> QED BY <2>1 DEF SseOK
<1> QED BY <1>1, <1>2, <1>3

\* A window's answer says what its statement did to the engine, although other
\* statements run in between and only a part of the request may be read.
THEOREM StatementsCorrect == Spec => []StatementsTrue
<1>1. StudioInit => StudioInv
  BY StudioInvInit
<1>2. StudioInv /\ [Next]_vars => StudioInv'
  BY StudioStep
<1>3. StudioInv => StatementsTrue
  BY StudioInvImplies
<1> QED BY <1>1, <1>2, <1>3, PTL DEF Spec

\* A seed that answers has stored its samples, for any list of samples.
THEOREM SeedCorrect == Spec => []SeedComplete
<1>1. StudioInit => StudioInv
  BY StudioInvInit
<1>2. StudioInv /\ [Next]_vars => StudioInv'
  BY StudioStep
<1>3. StudioInv => SeedComplete
  BY StudioInvImplies
<1> QED BY <1>1, <1>2, <1>3, PTL DEF Spec

\* An event stream is gapless but for what it lagged behind, for any capacity
\* of the channel.
THEOREM SseCorrect == Spec => []SseExact
<1>1. StudioInit => StudioInv
  BY StudioInvInit
<1>2. StudioInv /\ [Next]_vars => StudioInv'
  BY StudioStep
<1>3. StudioInv => SseExact
  BY StudioInvImplies
<1> QED BY <1>1, <1>2, <1>3, PTL DEF Spec
=============================================================================
