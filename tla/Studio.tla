------------------------------- MODULE Studio -------------------------------
(***************************************************************************)
(* NOVA Studio (nova-server, web.rs): the HTTP connections of the web      *)
(* console beside the connections of module Server.  A task serves one     *)
(* request: it reads once, and whatever that read brought is the request.  *)
(* It executes a statement, seeds the sample documents or streams events   *)
(* until it can no longer write.                                           *)
(*                                                                         *)
(* The engine is known by the documents and indexes it has and by how many *)
(* events it has broadcast: an event is known by its position.  A          *)
(* statement takes effect at once here and in its steps in module Engine.  *)
(***************************************************************************)
EXTENDS Server, Sequences

CONSTANTS
  \* Browser windows, each with one connection at a time.
  Windows,
  \* The requests they make.
  Routes,
  \* The statements of /api/seed, in order: the documents they insert and then the
  \* indexes they create.  (The parser takes ON in CREATE INDEX ON users (points) for
  \* the collection and users for the field, and leaves the rest unread: an index of
  \* that is what is created.)
  Samples, Indexes,
  \* Slots of the broadcast channel.
  RingCap,
  \* Bounds: sockets open at a time, requests made, events emitted, appends
  \* that fail.
  MaxOpen, MaxRequests, MaxEvents, MaxFailures

Statements == {"insert", "update", "remove", "create", "drop", "find", "refused"}

AllRoutes == Statements \cup {"page", "other", "seed", "events"}

ASSUME StudioConstants ==
  /\ Routes \subseteq AllRoutes
  /\ Len(Samples) \in Nat \ {0} /\ Len(Indexes) \in Nat
  /\ RingCap \in Nat \ {0} /\ MaxOpen \in Nat /\ MaxRequests \in Nat
  /\ MaxEvents \in Nat /\ MaxFailures \in Nat

VARIABLES
  \* The documents stored, the indexes there are, and how many events were broadcast.
  docs, indexes, events,
  \* For each window the task of its connection, NoTask when there is none.
  http,
  \* History: requests made, appends that failed.
  requests, failures

engine == <<docs, indexes, events>>
studioVars == <<engine, http, requests, failures>>
vars == <<serverVars, studioVars>>

Docs == {Samples[k] : k \in 1..Len(Samples)}
SeedIndexes == {Indexes[k] : k \in 1..Len(Indexes)}

(* A task: where it is, its request, how far its seed is, what it answers, and
   whether the window has left.  For an event
   stream the position to receive next, the one it subscribed at, those written
   and those it lagged behind.  History: whether one read brought all of the request;
   the documents its statement has changed, those it has a record of in the log and
   how many events it emitted; what of the samples was removed since the seed came
   to it or could not be appended. *)
NoTask ==
  [at |-> "closed", route |-> "none", step |-> 0,
   answer |-> "none", gone |-> FALSE,
   pos |-> 0, start |-> 0, got |-> <<>>, missed |-> {},
   whole |-> FALSE, touched |-> {}, logged |-> {}, emitted |-> 0, spoilt |-> {}]

StudioInit ==
  /\ Init
  /\ docs = {} /\ indexes = {} /\ events = 0
  /\ http = [w \in Windows |-> NoTask]
  /\ requests = 0 /\ failures = 0

At(w, loc) == phase # "down" /\ http[w].at = loc
Goto(w, loc) == http' = [http EXCEPT ![w].at = loc]
Close(w) == http' = [http EXCEPT ![w] = NoTask]
Answered(t, a) == [t EXCEPT !.at = "answering", !.answer = a]
Answer(w, a) == http' = [http EXCEPT ![w] = Answered(@, a)]

-----------------------------------------------------------------------------
(* The engine, as DatabaseEngine::execute shows itself to web.rs.          *)

\* An event for each of the documents changed.
Emit(changed) ==
  /\ events + Cardinality(changed) <= MaxEvents
  /\ events' = events + Cardinality(changed)

\* What a statement has done: whether it succeeded, the documents it changed and those
\* of which it left a record.
Effects == [ok : BOOLEAN, touched : SUBSET Docs, logged : SUBSET Docs]

NoEffect(ok) == [ok |-> ok, touched |-> {}, logged |-> {}]

\* INSERT: a document of the same id is an error, and so is an append
\* that fails, which may leave the record.
Insert(d, e) ==
  /\ \/ d \in docs /\ e = NoEffect(FALSE) /\ UNCHANGED <<docs, events, failures>>
     \/ /\ d \notin docs /\ e = [ok |-> TRUE, touched |-> {d}, logged |-> {d}]
        /\ docs' = docs \cup {d} /\ Emit({d}) /\ UNCHANGED failures
     \/ /\ d \notin docs /\ ~e.ok /\ e.touched = {} /\ e.logged \subseteq {d}
        /\ failures < MaxFailures /\ failures' = failures + 1
        /\ UNCHANGED <<docs, events>>
  /\ UNCHANGED indexes

\* All the documents found are changed, and events of them follow.
Completed(found, e) ==
  /\ e = [ok |-> TRUE, touched |-> found, logged |-> found]
  /\ Emit(found) /\ UNCHANGED failures

\* A first part of them is changed, the last perhaps without a record, and no event
\* follows.
BrokenOff(found, e) ==
  /\ ~e.ok /\ e.touched \subseteq found /\ e.logged \subseteq e.touched
  /\ \E d \in Docs : e.touched \subseteq e.logged \cup {d}
  /\ UNCHANGED events

AppendFailed == failures < MaxFailures /\ failures' = failures + 1

\* UPDATE of those of the target that are stored.  It ends at an
\* append that fails and at an expression that is refused.
Update(target, e) ==
  /\ \/ Completed(target \cap docs, e)
     \/ BrokenOff(target \cap docs, e) /\ (UNCHANGED failures \/ AppendFailed)
  /\ UNCHANGED <<docs, indexes>>

\* REMOVE takes no notice of a filter that is refused; a document is taken out before
\* its record is appended.
Remove(target, e) ==
  /\ \/ Completed(target \cap docs, e)
     \/ BrokenOff(target \cap docs, e) /\ e.touched # {} /\ AppendFailed
  /\ docs' = docs \ e.touched
  /\ UNCHANGED indexes

\* CREATE INDEX replaces an index that is there; DROP INDEX without one is an error.
CreateIndex(x) == indexes' = indexes \cup {x} /\ UNCHANGED <<docs, events, failures>>
DropIndex(x) == indexes' = indexes \ {x} /\ UNCHANGED <<docs, events, failures>>

\* The tasks, once a statement has removed what is no longer there.
Spoilt(tasks0) ==
  [w \in Windows |-> IF tasks0[w].route = "seed"
                     THEN [tasks0[w] EXCEPT !.spoilt = @ \cup (docs \ docs') \cup (indexes \ indexes')]
                     ELSE tasks0[w]]

\* A statement is about one document or about all.
Targets == {Docs} \cup {{d} : d \in Docs}

\* A connection of module Server runs a statement.
ClientStatement ==
  /\ phase # "down" /\ In({"running"}) # {}
  /\ \/ \E e \in Effects :
          \/ \E d \in Docs : Insert(d, e)
          \/ \E target \in Targets : Update(target, e) \/ Remove(target, e)
     \/ \E x \in SeedIndexes : CreateIndex(x) \/ DropIndex(x)
  /\ http' = Spoilt(http)
  /\ UNCHANGED <<serverVars, requests>>

-----------------------------------------------------------------------------
(* run_web_studio and handle_http_connection.                              *)

\* A window opens a connection and sends its request.
HttpConnect(w) ==
  /\ At(w, "closed") /\ web = "serving" /\ requests < MaxRequests
  /\ requests' = requests + 1
  /\ \E k \in Routes :
       http' = [http EXCEPT ![w] = [NoTask EXCEPT !.at = "backlog", !.route = k]]
  /\ UNCHANGED <<serverVars, engine, failures>>

\* accept; there is no limit, no permit and no count.
HttpAccept(w) ==
  /\ web = "serving" /\ At(w, "backlog")
  /\ Goto(w, "accepted")
  /\ UNCHANGED <<serverVars, engine, requests, failures>>

\* The window closes its end.
HttpLeave(w) ==
  /\ http[w].at \notin {"closed", "backlog"} /\ ~http[w].gone
  /\ http' = [http EXCEPT ![w].gone = TRUE]
  /\ UNCHANGED <<serverVars, engine, requests, failures>>

\* What the one read brought: nothing, not the whole first line (a GET may then
\* ask for the page), the line with the body missing or cut, or everything.
Reads(w) == (IF http[w].gone THEN {"nothing"} ELSE {}) \cup {"line", "head", "all"}

\* A read that is not a request that changes anything.
HttpGet(w) ==
  /\ At(w, "accepted")
  /\ \E r \in Reads(w) :
       \/ r = "nothing" /\ Close(w)
       \/ r = "line" /\ Answer(w, "404")
       \/ r = "line" /\ http[w].route \in {"page", "other", "events"} /\ Answer(w, "ok")
       \/ r \in {"head", "all"} /\ http[w].route = "other" /\ Answer(w, "404")
       \/ r \in {"head", "all"} /\ http[w].route = "page" /\ Answer(w, "ok")
  /\ UNCHANGED <<serverVars, engine, requests, failures>>

\* What execute_query_api does with a statement, whatever it is about: "find" stands
\* for those that read, "refused" for one that does not parse, or a WATCH.
Execute(t, e) ==
  \/ t.route = "insert" /\ \E d \in Docs : Insert(d, e)
  \/ t.route = "update" /\ \E target \in Targets : Update(target, e)
  \/ t.route = "remove" /\ \E target \in Targets : Remove(target, e)
  \/ t.route = "create" /\ e = NoEffect(TRUE) /\ \E x \in SeedIndexes : CreateIndex(x)
  \/ /\ t.route = "drop" /\ e = NoEffect(e.ok)
     /\ \E x \in SeedIndexes : (e.ok <=> x \in indexes) /\ DropIndex(x)
  \/ t.route = "find" /\ e = NoEffect(e.ok) /\ UNCHANGED <<engine, failures>>
  \/ t.route = "refused" /\ e = NoEffect(FALSE) /\ UNCHANGED <<engine, failures>>

\* Mutant: a body that is cut is taken as far as it goes.
ParseBody_Lenient(r) == TRUE

\* extract_json_body: JSON that is cut is no JSON, and counts as no query.
ParseBody(r) == r = "all"

\* POST /api/query.
HttpPost(w) ==
  LET t == http[w]
  IN  /\ At(w, "accepted") /\ t.route \in Statements
      /\ \E r \in {"head", "all"}, e \in Effects :
           /\ \/ ParseBody(r) /\ Execute(t, e)
              \/ ~ParseBody(r) /\ e = NoEffect(FALSE) /\ UNCHANGED <<engine, failures>>
           /\ http' = Spoilt([http EXCEPT ![w] =
                [Answered(t, IF e.ok THEN "ok" ELSE "failed") EXCEPT
                   !.whole = r = "all", !.touched = e.touched, !.logged = e.logged,
                   !.emitted = events' - events]])
      /\ UNCHANGED <<serverVars, requests>>

\* The statement panics in the evaluator or in an index: the task ends, and nothing is
\* answered.  (What an UPDATE has changed by then stays so, and is stored.)
HttpPanic(w) ==
  /\ At(w, "accepted") /\ http[w].route \in {"find", "update", "remove"} /\ Close(w)
  /\ UNCHANGED <<serverVars, engine, requests, failures>>

\* POST /api/seed.
SeedBegin(w) ==
  /\ At(w, "accepted") /\ http[w].route = "seed"
  /\ http' = [http EXCEPT ![w].at = "seeding", ![w].step = 1]
  /\ UNCHANGED <<serverVars, engine, requests, failures>>

SeedLength == Len(Samples) + Len(Indexes)

\* Mutant: the seed ends at the first statement that fails.
SeedNext_StopsAtError(t, ok) ==
  IF ~ok \/ t.step = SeedLength THEN Answered(t, "seeded") ELSE [t EXCEPT !.step = @ + 1]

\* The task after a statement of the seed: one that fails is counted like one
\* that does not.
SeedNext(t, ok) ==
  IF t.step = SeedLength THEN Answered(t, "seeded") ELSE [t EXCEPT !.step = @ + 1]

\* What the statement k of the seed is to store.
SeedItem(k) == IF k <= Len(Samples) THEN Samples[k] ELSE Indexes[k - Len(Samples)]

SeedStatement(k, e) ==
  IF k <= Len(Samples) THEN Insert(SeedItem(k), e)
  ELSE e = NoEffect(TRUE) /\ CreateIndex(SeedItem(k))

\* The next statement of seed_sample_data.
SeedStep(w) ==
  LET t == http[w]  x == SeedItem(t.step)
      held == IF failures' > failures THEN t.spoilt \cup {x} ELSE t.spoilt \ {x}
  IN  /\ At(w, "seeding")
      /\ \E e \in Effects :
           /\ SeedStatement(t.step, e)
           /\ http' = [http EXCEPT ![w] = [SeedNext(t, e.ok) EXCEPT !.spoilt = held]]
      /\ UNCHANGED <<serverVars, requests>>

\* The answer is written, whether or not somebody reads it, and the task ends.
HttpAnswer(w) ==
  /\ At(w, "answering") /\ Close(w)
  /\ UNCHANGED <<serverVars, engine, requests, failures>>

-----------------------------------------------------------------------------
(* GET /api/events.                                                        *)

\* The header and a first comment are written; a write to a window that has
\* left may fail.
SseHeader(w) ==
  /\ At(w, "accepted") /\ http[w].route = "events"
  /\ Goto(w, "subscribing") \/ (http[w].gone /\ Close(w))
  /\ UNCHANGED <<serverVars, engine, requests, failures>>

\* Only now does the task subscribe: the window may have seen the comment, and
\* does not get what was emitted since.
SseSubscribe(w) ==
  /\ At(w, "subscribing")
  /\ http' = [http EXCEPT ![w].at = "streaming", ![w].pos = events + 1,
                          ![w].start = events + 1]
  /\ UNCHANGED <<serverVars, engine, requests, failures>>

\* The oldest event the channel still holds.
Oldest == IF events > RingCap THEN events - RingCap + 1 ELSE 1

\* Mutant: a receiver that lags is replaced by a new one.
ResumeAt_Resubscribed == events + 1

\* A receiver that lags goes on with the oldest event left.
ResumeAt == Oldest

\* recv reports that events were overwritten; nothing is written about it.
SseLag(w) ==
  /\ At(w, "streaming") /\ http[w].pos < Oldest
  /\ http' = [http EXCEPT ![w].pos = ResumeAt,
                          ![w].missed = @ \cup (http[w].pos..(Oldest - 1))]
  /\ UNCHANGED <<serverVars, engine, requests, failures>>

\* The next event is written; the task ends with the first write that fails.
SseSend(w) ==
  LET p == http[w].pos
  IN  /\ At(w, "streaming") /\ p >= Oldest /\ p <= events
      /\ \/ http' = [http EXCEPT ![w].pos = p + 1, ![w].got = Append(@, p)]
         \/ http[w].gone /\ Close(w)
      /\ UNCHANGED <<serverVars, engine, requests, failures>>

-----------------------------------------------------------------------------
\* The process ends: the studio's tasks with it.
StopAll ==
  /\ Stop
  /\ http' = [w \in Windows |-> NoTask]
  /\ UNCHANGED <<engine, requests, failures>>

HttpStep(w) ==
  \/ HttpAccept(w) \/ HttpGet(w) \/ HttpPost(w) \/ HttpPanic(w) \/ HttpAnswer(w)
  \/ SeedBegin(w) \/ SeedStep(w)
  \/ SseHeader(w) \/ SseSubscribe(w) \/ SseLag(w) \/ SseSend(w)

Open == Cardinality({c \in Clients : conn[c] \notin {"closed", "dropped"}})
          + Cardinality({w \in Windows : http[w] # NoTask})

Next ==
  /\ \/ (ConnectionStep \/ ControlStep) /\ UNCHANGED studioVars
     \/ ClientStatement \/ StopAll
     \/ \E w \in Windows : HttpConnect(w) \/ HttpLeave(w) \/ HttpStep(w)
  /\ Open' <= MaxOpen

Spec == StudioInit /\ [][Next]_vars

-----------------------------------------------------------------------------
(* Properties.                                                             *)

\* What a window's answer tells it of its statement.  One that was executed has changed
\* its documents, an INSERT one, with a record and one event of each.  One that
\* failed has left no event; an INSERT has stored nothing, but an UPDATE or a REMOVE
\* may have changed some of its documents, of which all but one have a record.  And no
\* statement runs of which only a part was read.
StatementsTrue ==
  \A w \in Windows :
    LET t == http[w]
    IN  t.route \in Statements =>
          /\ t.touched \cup t.logged # {} \/ t.emitted # 0 => t.whole
          /\ t.answer = "ok" =>
               /\ t.logged = t.touched /\ t.emitted = Cardinality(t.touched)
               /\ t.route = "insert" => \E d \in Docs : t.touched = {d}
          /\ t.answer # "ok" =>
               /\ t.emitted = 0
               /\ t.route = "insert" => t.touched = {}
               /\ \E d \in Docs : t.touched \subseteq t.logged \cup {d}

\* When a seed answers, every sample and every index that its statements create is
\* there, unless it was removed since the seed came to it or its append failed,
\* although another window or a client made some of them first.
SeedComplete ==
  \A w \in Windows :
    http[w].answer = "seeded" => Docs \cup SeedIndexes \subseteq docs \cup indexes \cup http[w].spoilt

\* An event stream gives every event since its subscription once and in order,
\* except those it lagged behind.
SseExact ==
  \A w \in Windows :
    LET t == http[w]
    IN  /\ \A j, k \in 1..Len(t.got) : j < k => t.got[j] < t.got[k]
        /\ {t.got[k] : k \in 1..Len(t.got)} = (t.start..(t.pos - 1)) \ t.missed
=============================================================================
