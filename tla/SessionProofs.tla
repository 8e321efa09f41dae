---------------------------- MODULE SessionProofs ----------------------------
(***************************************************************************)
(* Theorems about Session, for every set of callers and topics, every      *)
(* capacity of the queues, the ring and the streams, and any number of     *)
(* requests and events.                                                    *)
(***************************************************************************)
EXTENDS Session, SequenceLemmas, TLAPS

-----------------------------------------------------------------------------
(* The inductive invariant: the ids, the bodies of answers, their order,   *)
(* and the events on their way to a stream.                                *)

Requests == {[kind |-> "none"]} \cup [kind : RequestKinds, topic : Topics, sub : Nat]
Replies == [id : ReqIds, body : Bodies \cup {"oversized"}]
Frames == [id : ReqIds, body : Bodies \cup {"event"}, event : Nat]

\* A call that has not been sent yet.
Unsent(c) == pc[c] \in {"register", "pend", "send"}

TypeInv ==
  /\ next_req_id \in Nat \ {0}
  /\ pc \in [Callers -> {"idle", "register", "pend", "send", "wait"}]
  /\ reqOf \in [Callers -> Nat]
  /\ request \in [ReqIds -> Requests]
  /\ returned \in [ReqIds -> Bodies \cup {"none", "closed"}]
  /\ answer \in [ReqIds -> Bodies \cup {"none"}]
  /\ c2s \in Seq(ReqIds) /\ handled \in Seq(ReqIds)
  /\ s2c \in Seq(Frames)
  /\ reply = NoReply \/ reply \in Replies

SubType ==
  [alive : BOOLEAN, topic : Topics \cup {0}, start : Nat, pos : Nat, held : Nat, missed : SUBSET Nat]

StreamType ==
  /\ events \in Seq(Topics)
  /\ subs \in [ReqIds -> SubType]
  /\ got \in [ReqIds -> Seq(Nat)]
  /\ readTask \in {"read", "push", "ended"}
  /\ readTask = "push" => pushing \in [id : ReqIds, event : Nat]

\* Each request has an id of its own; it is sent once, and taken once.
IdsInv ==
  /\ \A c \in Callers : pc[c] # "idle" => reqOf[c] \in ReqIds /\ reqOf[c] < next_req_id
  /\ \A c, d \in Callers : c # d /\ pc[c] # "idle" /\ pc[d] # "idle" => reqOf[c] # reqOf[d]
  /\ \A k \in 1..Len(c2s) : c2s[k] < next_req_id
  /\ \A k \in 1..Len(handled) : handled[k] < next_req_id
  /\ Distinct(c2s) /\ Distinct(handled)
  /\ \A k \in 1..Len(c2s) : ~Has(handled, c2s[k])
  /\ \A c \in Callers : Unsent(c) => ~Has(c2s, reqOf[c]) /\ ~Has(handled, reqOf[c])
  /\ \A i \in ReqIds : returned[i] # "none" => i < next_req_id

\* What is said about a request comes from its handling.
SourceInv ==
  /\ reply # NoReply => Len(handled) > 0 /\ reply.id = handled[Len(handled)]
  /\ \A k \in 1..Len(s2c) : Has(handled, s2c[k].id)
  /\ \A i \in ReqIds : answer[i] # "none" => Has(handled, i)
  /\ \A i \in ReqIds : subs[i] # NoSub => Has(handled, i)

\* What an answer says is true.
Truthful(i, b) ==
  /\ b = "ack" => request[i].kind \in {"watch", "nql_watch"} /\ i \in executed
  /\ b = "ok" => \/ request[i].kind \in {"auth", "bad_auth", "ping"}
                 \/ request[i].kind \in {"query", "unwatch"} /\ i \in executed

BodiesInv ==
  /\ \A i \in ReqIds : Truthful(i, returned[i]) /\ Truthful(i, answer[i])
  /\ \A k \in 1..Len(s2c) : Truthful(s2c[k].id, s2c[k].body)
  /\ reply # NoReply => Truthful(reply.id, reply.body)

\* The handler has said, or is about to say, that request i is not allowed.
Denied(i) ==
  \/ answer[i] = "denied"
  \/ \E n \in 1..Len(s2c) : s2c[n].id = i /\ s2c[n].body = "denied"
  \/ reply # NoReply /\ reply.id = i /\ reply.body = "denied"

\* The flag says whether the right token has come; what was run and what was
\* denied agree with what it said at the time.
AuthInv ==
  /\ authenticated \in {"open", "no", "yes"}
  /\ \A i \in executed : Has(handled, i)
  /\ authenticated = "yes" => Opened(Len(handled) + 1)
  /\ authenticated = "no" => ~Opened(Len(handled) + 1)
  /\ \A k \in 1..Len(handled) :
       /\ handled[k] \in executed => authenticated = "open" \/ Opened(k)
       /\ Denied(handled[k]) => ~(authenticated = "open" \/ Opened(k))

\* A request whose answer is awaited, the place of a frame that answers, and
\* what has become of the request that was taken as number j.
IsAnswer(n) == s2c[n].body \in Bodies
Answered(j) == answer[handled[j]] # "none"
Queued(j) == \E n \in 1..Len(s2c) : IsAnswer(n) /\ s2c[n].id = handled[j]

\* A call waits for every request that is on its way or has its answer there.
PendingInv ==
  /\ \A c \in Callers : pc[c] = "send" => reqOf[c] \in pending
  /\ \A k \in 1..Len(c2s) : c2s[k] \in pending
  /\ reply # NoReply => reply.id \in pending
  /\ \A n \in 1..Len(s2c) : IsAnswer(n) => s2c[n].id \in pending

\* Answers are queued in the order in which requests were taken, none twice.
QueueOrder ==
  \A n, m \in 1..Len(s2c) : \A j, k \in 1..Len(handled) :
    n < m /\ IsAnswer(n) /\ IsAnswer(m) /\ s2c[n].id = handled[j] /\ s2c[m].id = handled[k]
      => j < k

\* Answers are lost from some request on: none is while the writing task lives.
LossOrder ==
  /\ reply # NoReply => ~Queued(Len(handled))
  /\ \A j, k \in 1..Len(handled) :
       j < k => /\ Answered(k) => Answered(j)
                /\ Queued(k) => Answered(j) \/ Queued(j)
  /\ open /\ writer = "alive" =>
       \A j \in 1..Len(handled) :
         Answered(j) \/ Queued(j) \/ (reply # NoReply /\ j = Len(handled))

OrderInv == PendingInv /\ QueueOrder /\ LossOrder

\* e is an event that subscription i has come past and that its stream may get.
Owed(i, e) ==
  /\ e \in 1..Len(events) /\ subs[i].start <= e /\ e < subs[i].pos
  /\ events[e] = request[i].topic

IsEvent(n, i) == s2c[n].body = "event" /\ s2c[n].id = i

\* e comes before what is in the queue for stream i and what its task holds.
Ahead(i, e) ==
  /\ \A n \in 1..Len(s2c) : IsEvent(n, i) => e < s2c[n].event
  /\ subs[i].held # 0 => e < subs[i].held

\* The events on their way to stream i: delivered, being pushed, in the queue,
\* held by the task of the subscription.
GotInv(i) ==
  \A k \in 1..Len(got[i]) :
    /\ Owed(i, got[i][k]) /\ Ahead(i, got[i][k])
    /\ \A j \in 1..Len(got[i]) : j < k => got[i][j] < got[i][k]
    /\ readTask = "push" /\ pushing.id = i => got[i][k] < pushing.event

PushInv(i) ==
  readTask = "push" /\ pushing.id = i => Owed(i, pushing.event) /\ Ahead(i, pushing.event)

FrameInv(i) ==
  \A n \in 1..Len(s2c) : IsEvent(n, i) =>
    /\ Owed(i, s2c[n].event)
    /\ \A m \in 1..Len(s2c) : n < m /\ IsEvent(m, i) => s2c[n].event < s2c[m].event
    /\ subs[i].held # 0 => s2c[n].event < subs[i].held

SubInv(i) ==
  /\ subs[i].pos = 0 => subs[i] = NoSub
  /\ subs[i].pos # 0 => /\ subs[i].start > 0 /\ subs[i].start <= subs[i].pos
                        /\ subs[i].topic = request[i].topic
  /\ subs[i].held # 0 => Owed(i, subs[i].held)

StreamInv == \A i \in ReqIds : GotInv(i) /\ PushInv(i) /\ FrameInv(i) /\ SubInv(i)

-----------------------------------------------------------------------------
(* What the handler does with a request, whichever it is.                  *)

LEMMA HandleShape ==
  ASSUME TypeInv, NEW i \in ReqIds, Handle(i)
  PROVE  /\ Take(i)
         /\ \E b \in Bodies \cup {"oversized"} :
              reply' = [id |-> i, body |-> b] /\ Truthful(i, b)'
         /\ executed \subseteq executed'
         /\ UNCHANGED <<client, s2c, link, got>>
<1> USE DEF Reply, Truthful, client, Bodies, Errors
<1>1. CASE HandleAuth(i)
  BY <1>1 DEF HandleAuth
<1>2. CASE HandlePing(i)
  BY <1>2 DEF HandlePing
<1>3. CASE HandleRejected(i)
  BY <1>3 DEF HandleRejected
<1>4. CASE HandleQuery(i)
  BY <1>4 DEF HandleQuery
<1>5. CASE HandleWatch(i)
  BY <1>5 DEF HandleWatch
<1>6. CASE HandleUnwatch(i)
  BY <1>6, SMTT(40) DEF HandleUnwatch
<1> QED BY <1>1, <1>2, <1>3, <1>4, <1>5, <1>6 DEF Handle

\* The ways an action can touch the variables of the answers.
Quiet == UNCHANGED <<next_req_id, pc, reqOf, request, returned, answer, pending,
                     c2s, handled, s2c, reply, executed, link>>

LEMMA QuietSteps ==
  ASSUME \/ Push \/ ReadEnd \/ Publish
         \/ \E i \in ReqIds : Consume(i) \/ DropStream(i) \/ WatchRecv(i)
         \/ UNCHANGED vars
  PROVE  Quiet
BY ZenonT(60) DEF Quiet, Push, ReadEnd, Publish, Consume, DropStream, WatchRecv,
       vars, client, server, wires, link

\* What leaves the queue to the server without being taken: its first request,
\* or some of its end.
Loses(s, t) == (s # <<>> /\ t = Tail(s)) \/ \E n \in 0..Len(s) : t = SubSeq(s, 1, n)

LEMMA LoseShape ==
  ASSUME TypeInv, WriteLost \/ RequestRefused
  PROVE  /\ Loses(c2s, c2s')
         /\ UNCHANGED <<next_req_id, pending, watchers, answer, stream, receiver, pc, reqOf,
                        request, returned, readTask, pushing, server, handled, s2c, link, got>>
<1>1. Len(c2s) \in Nat
  BY LenProperties DEF TypeInv
<1>2. CASE WriteLost
  <2>1. <<>> = SubSeq(c2s, 1, 0)
    BY <1>1, PrefixAt, EmptySeq DEF TypeInv
  <2>2. c2s # <<>> /\ (c2s' = Tail(c2s) \/ c2s' = <<>>)
    BY <1>2 DEF WriteLost
  <2>3. Loses(c2s, c2s')
    <3>1. CASE c2s' = Tail(c2s)
      BY <2>2, <3>1 DEF Loses
    <3>2. CASE c2s' = <<>>
      <4>1. 0 \in 0..Len(c2s) /\ c2s' = SubSeq(c2s, 1, 0)
        BY <1>1, <2>1, <3>2
      <4> QED BY <4>1, Zenon DEF Loses
    <3> QED BY <2>2, <3>1, <3>2
  <2> QED BY <1>2, <2>3 DEF WriteLost
<1>3. CASE RequestRefused
  <2>1. PICK n \in 1..Len(c2s) : c2s' = SubSeq(c2s, 1, n - 1)
    BY <1>3 DEF RequestRefused
  <2>2. n - 1 \in 0..Len(c2s)
    BY <1>1
  <2> QED BY <1>3, <2>1, <2>2 DEF RequestRefused, Loses
<1> QED BY <1>2, <1>3

LEMMA LoseAt ==
  ASSUME TypeInv, Loses(c2s, c2s')
  PROVE  /\ c2s' \in Seq(ReqIds) /\ (Distinct(c2s) => Distinct(c2s'))
         /\ \A k \in 1..Len(c2s') : Has(c2s, c2s'[k])
<1>1. CASE c2s # <<>> /\ c2s' = Tail(c2s)
  BY <1>1, TailAt, HasTail, DistinctTail DEF TypeInv, Has
<1>2. ASSUME NEW n \in 0..Len(c2s), c2s' = SubSeq(c2s, 1, n)
      PROVE  /\ c2s' \in Seq(ReqIds) /\ (Distinct(c2s) => Distinct(c2s'))
             /\ \A k \in 1..Len(c2s') : Has(c2s, c2s'[k])
  <2>1. /\ c2s' \in Seq(ReqIds) /\ Len(c2s) \in Nat /\ Len(c2s') = n
        /\ \A k \in 1..n : c2s'[k] = c2s[k] /\ k \in 1..Len(c2s)
    BY <1>2, PrefixAt DEF TypeInv
  <2> QED BY <2>1 DEF Distinct, Has
<1> QED BY <1>1, <1>2 DEF Loses

-----------------------------------------------------------------------------
(* Types.                                                                  *)

LEMMA TypeInit == Init => TypeInv
BY BoundsType DEF Init, TypeInv, Bodies, Errors, Requests, ReqIds, NoReply

LEMMA TypeStep ==
  ASSUME TypeInv, StreamType, IdsInv, [Next]_vars
  PROVE  TypeInv'
<1> USE DEF link, wires, server, client, Goto
<1>1. CASE Quiet
  BY <1>1 DEF Quiet, TypeInv
<1>2. ASSUME NEW c \in Callers, Begin(c)
      PROVE  TypeInv'
  <2>1. PICK k \in Kinds, p \in Topics : \E j \in Targets(k) :
          /\ request' = [request EXCEPT ![next_req_id] = [kind |-> k, topic |-> p, sub |-> j]]
          /\ pc' = [pc EXCEPT ![c] = IF k = "watch" THEN "register" ELSE "pend"]
    BY <1>2 DEF Begin
  <2>2. PICK j \in Targets(k) :
          request' = [request EXCEPT ![next_req_id] = [kind |-> k, topic |-> p, sub |-> j]]
    BY <2>1
  <2>3. j \in Nat
    BY BoundsType DEF Targets, ReqIds
  <2>4. [kind |-> k, topic |-> p, sub |-> j] \in Requests
    BY <2>3, KindsType DEF Requests
  <2>5. request' \in [ReqIds -> Requests]
    BY <2>2, <2>4 DEF TypeInv
  <2>6. pc' \in [Callers -> {"idle", "register", "pend", "send", "wait"}]
    BY <2>1 DEF TypeInv
  <2>7. next_req_id' \in Nat \ {0} /\ reqOf' \in [Callers -> Nat]
    BY <1>2 DEF Begin, NextId, TypeInv
  <2> QED BY <1>2, <2>5, <2>6, <2>7 DEF Begin, TypeInv
<1>3. ASSUME NEW c \in Callers, RegisterWatcher(c)
      PROVE  TypeInv'
  BY <1>3 DEF RegisterWatcher, TypeInv
<1>4. ASSUME NEW c \in Callers, InsertPending(c)
      PROVE  TypeInv'
  BY <1>4 DEF InsertPending, TypeInv
<1>5. ASSUME NEW c \in Callers, Dispatch(c)
      PROVE  TypeInv'
  <2>1. reqOf[c] \in ReqIds
    BY <1>5 DEF Dispatch, IdsInv
  <2>2. c2s' \in Seq(ReqIds)
    BY <1>5, <2>1, AppendAt DEF Dispatch, TypeInv
  <2> QED BY <1>5, <2>2 DEF Dispatch, TypeInv
<1>6. ASSUME NEW c \in Callers, DispatchFails(c) \/ Receive(c)
      PROVE  TypeInv'
  <2>1. reqOf[c] \in ReqIds
    BY <1>6 DEF DispatchFails, Receive, IdsInv
  <2>2. PICK r \in Bodies \cup {"none", "closed"} : Finish(c, r)
    BY <1>6, <2>1 DEF DispatchFails, Receive, TypeInv
  <2> QED BY <2>2 DEF Finish, TypeInv
<1>7. CASE ReadAnswer
  <2>1. s2c # <<>> /\ s2c' = Tail(s2c) /\ Head(s2c).body \in Bodies
    BY <1>7 DEF ReadAnswer
  <2>2. s2c' \in Seq(Frames)
    BY <2>1, TailAt DEF TypeInv
  <2>3. answer' \in [ReqIds -> Bodies \cup {"none"}]
    BY <1>7 DEF ReadAnswer, TypeInv
  <2> QED BY <1>7, <2>2, <2>3 DEF ReadAnswer, TypeInv
<1>8. CASE ReadEvent
  <2>1. s2c' \in Seq(Frames)
    BY <1>8, TailAt DEF ReadEvent, TypeInv
  <2> QED BY <1>8, <2>1 DEF ReadEvent, TypeInv
<1>9. ASSUME NEW i \in ReqIds, Handle(i)
      PROVE  TypeInv'
  <2>1. /\ Take(i) /\ UNCHANGED <<client, s2c, link, got>>
        /\ \E b \in Bodies \cup {"oversized"} : reply' = [id |-> i, body |-> b]
    BY <1>9, HandleShape
  <2>2. reply' \in Replies
    BY <2>1 DEF Replies
  <2>3. c2s' \in Seq(ReqIds) /\ handled' \in Seq(ReqIds)
    BY <2>1, TailAt, AppendAt DEF Take, TypeInv
  <2> QED BY <2>1, <2>2, <2>3 DEF TypeInv
<1>10. CASE SendReply
  <2>1. CASE UNCHANGED s2c
    BY <1>10, <2>1 DEF SendReply, TypeInv
  <2>2. CASE s2c' = Append(s2c, Frame(reply)) /\ reply.body # "oversized"
    <3>1. reply \in Replies
      BY <1>10 DEF SendReply, TypeInv
    <3>2. Frame(reply) \in Frames
      BY <2>2, <3>1 DEF Frame, Frames, Replies
    <3>3. s2c' \in Seq(Frames)
      BY <2>2, <3>2, AppendAt DEF TypeInv
    <3> QED BY <1>10, <3>3 DEF SendReply, TypeInv
  <2> QED BY <1>10, <2>1, <2>2 DEF SendReply, QueueReply
<1>11. CASE SendFails \/ Break
  <2>1. HandlerEnds
    BY <1>11 DEF SendFails, Break
  <2>2. s2c' \in Seq(Frames)
    BY <2>1, PrefixAt DEF HandlerEnds, TypeInv
  <2> QED BY <2>1, <2>2 DEF HandlerEnds, TypeInv
<1>12. CASE WriterEnds
  BY <1>12 DEF WriterEnds, TypeInv
<1>13. ASSUME NEW i \in ReqIds, WatchSend(i)
       PROVE  TypeInv'
  <2>1. [id |-> i, body |-> "event", event |-> subs[i].held] \in Frames
    BY <1>13 DEF StreamType, SubType, Frames
  <2>2. s2c' \in Seq(Frames)
    <3>1. s2c' = s2c \/ s2c' = Append(s2c, [id |-> i, body |-> "event", event |-> subs[i].held])
      BY <1>13 DEF WatchSend
    <3>2. Append(s2c, [id |-> i, body |-> "event", event |-> subs[i].held]) \in Seq(Frames)
      BY <2>1, AppendAt DEF TypeInv
    <3> QED BY <3>1, <3>2 DEF TypeInv
  <2> QED BY <1>13, <2>2 DEF WatchSend, TypeInv
<1>14. CASE WriteLost \/ RequestRefused
  BY <1>14, LoseShape, LoseAt DEF TypeInv
<1> QED BY <1>1, <1>2, <1>3, <1>4, <1>5, <1>6, <1>7, <1>8, <1>9, <1>10, <1>11, <1>12,
            <1>13, <1>14, QuietSteps
        DEF Next, CallStep, ReadStep, HandlerStep, WatchStep

LEMMA StreamTypeInit == Init => StreamType
BY DEF Init, StreamType, SubType, NoSub

LEMMA StreamTypeStep ==
  ASSUME TypeInv, StreamType, [Next]_vars
  PROVE  StreamType'
<1> USE DEF link, wires, server, client
<1>1. CASE UNCHANGED <<events, subs, got, readTask, pushing>>
  BY <1>1 DEF StreamType
<1>2. CASE ReadEvent
  <2>1. Head(s2c) \in Frames
    BY <1>2, TailAt DEF ReadEvent, TypeInv
  <2>2. [id |-> Head(s2c).id, event |-> Head(s2c).event] \in [id : ReqIds, event : Nat]
    BY <2>1 DEF Frames
  <2> QED BY <1>2, <2>2 DEF ReadEvent, StreamType
<1>3. CASE Push
  <2>1. pushing.id \in ReqIds /\ pushing.event \in Nat
    BY <1>3 DEF Push, StreamType
  <2>2. got' = got \/ got' = [got EXCEPT ![pushing.id] = Append(@, pushing.event)]
    BY <1>3 DEF Push
  <2>3. Append(got[pushing.id], pushing.event) \in Seq(Nat)
    BY <2>1, AppendAt DEF StreamType
  <2>4. got' \in [ReqIds -> Seq(Nat)]
    BY <2>2, <2>3 DEF StreamType
  <2> QED BY <1>3, <2>4 DEF Push, StreamType
<1>4. CASE ReadEnd
  BY <1>4 DEF ReadEnd, StreamType
<1>5. ASSUME NEW i \in ReqIds, HandleQuery(i)
      PROVE  StreamType'
  <2>1. request[i] \in Requests /\ request[i].kind = "query"
    BY <1>5 DEF HandleQuery, TypeInv
  <2>2. request[i].topic \in Topics
    BY <2>1 DEF Requests
  <2>3. events' = events \/ events' = Append(events, request[i].topic)
    BY <1>5 DEF HandleQuery
  <2>4. Append(events, request[i].topic) \in Seq(Topics)
    BY <2>2, AppendAt DEF StreamType
  <2>5. events' \in Seq(Topics)
    BY <2>3, <2>4 DEF StreamType
  <2> QED BY <1>5, <2>5 DEF HandleQuery, StreamType
<1>6. ASSUME NEW i \in ReqIds, HandleWatch(i)
      PROVE  StreamType'
  <2>1. request[i] \in Requests /\ request[i].kind # "none"
    BY <1>6 DEF HandleWatch, TypeInv
  <2>2. request[i].topic \in Topics
    BY <2>1 DEF Requests
  <2>3. Len(events) \in Nat
    BY LenProperties DEF StreamType
  <2>4. PICK n \in Nat : n = Len(events) + 1
    BY <2>3
  <2>5. [alive |-> TRUE, topic |-> request[i].topic, start |-> n,
         pos |-> n, held |-> 0, missed |-> {}] \in SubType
    BY <2>2 DEF SubType
  <2>6. subs' \in [ReqIds -> SubType]
    BY <1>6, <2>4, <2>5 DEF HandleWatch, StartPos, StreamType
  <2> QED BY <1>6, <2>6 DEF HandleWatch, StreamType
<1>7. CASE Publish
  <2>1. PICK p \in Topics : events' = Append(events, p)
    BY <1>7 DEF Publish
  <2>2. events' \in Seq(Topics)
    BY <2>1, AppendAt DEF StreamType
  <2> QED BY <1>7, <2>2 DEF Publish, StreamType
<1>8. ASSUME NEW i \in ReqIds, WatchRecv(i)
      PROVE  StreamType'
  <2>1. subs[i] \in SubType /\ Len(events) \in Nat
    BY LenProperties DEF StreamType
  <2>2. Oldest \in Nat
    BY <2>1, CapsType DEF Oldest
  <2>3. [subs[i] EXCEPT !.pos = Oldest, !.missed = @ \cup (subs[i].pos..(Oldest - 1))] \in SubType
    <3>1. PICK m : m = subs[i].missed \cup (subs[i].pos..(Oldest - 1))
      OBVIOUS
    <3>2. m \in SUBSET Nat
      BY <2>1, <2>2, <3>1 DEF SubType
    <3>3. [subs[i] EXCEPT !.pos = Oldest, !.missed = m] \in SubType
      BY <2>1, <2>2, <3>2 DEF SubType
    <3> QED BY <3>1, <3>3
  <2>4. [subs[i] EXCEPT !.pos = @ + 1,
           !.held = IF events[subs[i].pos] = subs[i].topic THEN subs[i].pos ELSE 0] \in SubType
    <3>1. PICK p \in Nat, h \in Nat :
            /\ p = subs[i].pos + 1
            /\ h = IF events[subs[i].pos] = subs[i].topic THEN subs[i].pos ELSE 0
      BY <2>1 DEF SubType
    <3>2. [subs[i] EXCEPT !.pos = p, !.held = h] \in SubType
      BY <2>1 DEF SubType
    <3> QED BY <3>1, <3>2
  <2>5. subs' \in [ReqIds -> SubType]
    BY <1>8, <2>3, <2>4 DEF WatchRecv, StreamType
  <2> QED BY <1>8, <2>5 DEF WatchRecv, StreamType
<1>9. ASSUME NEW i \in ReqIds, WatchSend(i)
      PROVE  StreamType'
  <2>1. subs[i] \in SubType
    BY DEF StreamType
  <2>2. [subs[i] EXCEPT !.held = 0] \in SubType /\ [subs[i] EXCEPT !.alive = FALSE] \in SubType
    BY <2>1 DEF SubType
  <2>3. \/ subs' = [subs EXCEPT ![i] = [subs[i] EXCEPT !.held = 0]]
        \/ subs' = [subs EXCEPT ![i] = [subs[i] EXCEPT !.alive = FALSE]]
    BY <1>9 DEF WatchSend
  <2>4. subs' \in [ReqIds -> SubType]
    BY <2>2, <2>3 DEF StreamType
  <2> QED BY <1>9, <2>4 DEF WatchSend, StreamType
<1>10. ASSUME NEW c \in Callers, Begin(c) \/ CallStep(c)
       PROVE  UNCHANGED <<events, subs, got, readTask, pushing>>
  BY <1>10 DEF Begin, CallStep, RegisterWatcher, InsertPending, Dispatch, DispatchFails,
               Receive, Finish
<1>11. CASE \/ ReadAnswer \/ SendReply \/ SendFails \/ WriterEnds \/ Break
            \/ WriteLost \/ RequestRefused
            \/ \E i \in ReqIds : \/ Consume(i) \/ DropStream(i)
                                  \/ HandleAuth(i) \/ HandlePing(i)
                                  \/ HandleRejected(i) \/ HandleUnwatch(i)
  BY <1>1, <1>11 DEF ReadAnswer, SendReply, SendFails, HandlerEnds, WriterEnds, Break, WriteLost, RequestRefused,
               Consume, DropStream, HandleAuth, HandlePing, HandleRejected, HandleUnwatch
<1> QED BY <1>1, <1>2, <1>3, <1>4, <1>5, <1>6, <1>7, <1>8, <1>9, <1>10, <1>11
        DEF Next, vars, ReadStep, HandlerStep, Handle, WatchStep

-----------------------------------------------------------------------------
(* Ids.                                                                    *)

LEMMA IdsInit == Init => IdsInv
BY DEF Init, IdsInv, Distinct, Has, Unsent

\* What is left of the queue when the server takes a request from it.
LEMMA TakeIds ==
  ASSUME TypeInv, IdsInv, NEW i \in ReqIds, Take(i), UNCHANGED client
  PROVE  IdsInv'
<1>1. /\ c2s # <<>> /\ Head(c2s) = i /\ c2s' = Tail(c2s)
      /\ handled' = Append(handled, i)
      /\ c2s \in Seq(ReqIds) /\ handled \in Seq(ReqIds)
  BY DEF Take, TypeInv
<1>2. Distinct(c2s') /\ ~Has(c2s', i)
  BY <1>1, DistinctTail DEF IdsInv
<1>3. \A y : Has(c2s', y) => Has(c2s, y)
  BY <1>1, HasTail
<1>4. \A y : Has(handled', y) <=> Has(handled, y) \/ y = i
  BY <1>1, HasAppend
<1>5. Has(c2s, i)
  <2>1. Len(c2s) \in Nat \ {0} /\ c2s[1] = i
    BY <1>1, TailAt
  <2> QED BY <2>1 DEF Has
<1>6. \A y : Has(c2s, y) => y < next_req_id /\ ~Has(handled, y)
  BY DEF Has, IdsInv
<1>7. \A k \in 1..Len(c2s') : Has(c2s', c2s'[k])
  BY DEF Has
<1>8. \A k \in 1..Len(handled') : Has(handled', handled'[k])
  BY DEF Has
<1>9. \A y : Has(handled, y) => y < next_req_id
  BY DEF Has, IdsInv
<1>10. Distinct(handled')
  BY <1>1, <1>5, <1>6, DistinctAppend DEF IdsInv
<1>11. \A c \in Callers : Unsent(c) => ~Has(c2s', reqOf[c]) /\ ~Has(handled', reqOf[c])
  BY <1>3, <1>4, <1>5 DEF IdsInv
<1>12. \A k \in 1..Len(c2s') : c2s'[k] < next_req_id /\ ~Has(handled', c2s'[k])
  BY <1>2, <1>3, <1>4, <1>6, <1>7
<1>13. \A k \in 1..Len(handled') : handled'[k] < next_req_id
  BY <1>4, <1>5, <1>6, <1>8, <1>9
<1> QED BY <1>2, <1>10, <1>11, <1>12, <1>13 DEF IdsInv, client, Unsent

\* Requests leave the queue without being taken.
LEMMA LoseIds ==
  ASSUME TypeInv, IdsInv, c2s' = <<>> \/ Loses(c2s, c2s'),
         UNCHANGED <<next_req_id, pc, reqOf, returned, handled>>
  PROVE  IdsInv'
<1>1. Distinct(c2s') /\ \A k \in 1..Len(c2s') : Has(c2s, c2s'[k])
  <2>1. CASE c2s' = <<>>
    BY <2>1 DEF Distinct
  <2>2. CASE Loses(c2s, c2s')
    BY <2>2, LoseAt DEF IdsInv
  <2> QED BY <2>1, <2>2
<1>2. \A y : Has(c2s, y) => y < next_req_id /\ ~Has(handled, y)
  BY DEF Has, IdsInv
<1>3. \A y : Has(c2s', y) => Has(c2s, y)
  BY <1>1 DEF Has
<1> QED BY <1>1, <1>2, <1>3 DEF IdsInv, Unsent

LEMMA IdsStep ==
  ASSUME TypeInv, IdsInv, [Next]_vars
  PROVE  IdsInv'
<1> USE DEF link, wires, server, client, Goto
<1>1. CASE UNCHANGED <<next_req_id, pc, reqOf, returned, c2s, handled>>
  BY <1>1 DEF IdsInv, Unsent
<1>2. ASSUME NEW c \in Callers, Begin(c)
      PROVE  IdsInv'
  <2>1. /\ reqOf' = [reqOf EXCEPT ![c] = next_req_id] /\ next_req_id' = next_req_id + 1
        /\ next_req_id \in ReqIds /\ next_req_id \in Nat
        /\ UNCHANGED <<returned, c2s, handled>> /\ pc[c] = "idle"
        /\ \A d \in Callers \ {c} : pc'[d] = pc[d] /\ reqOf'[d] = reqOf[d]
        /\ reqOf'[c] = next_req_id
    BY <1>2 DEF Begin, NextId, TypeInv, ReqIds
  <2>2. \A y : Has(c2s, y) \/ Has(handled, y) => y # next_req_id
    BY <2>1 DEF Has, IdsInv
  <2>3. \A d \in Callers : pc'[d] # "idle" => reqOf'[d] \in ReqIds /\ reqOf'[d] < next_req_id'
    BY <2>1 DEF IdsInv, TypeInv
  <2>4. \A d, e \in Callers : d # e /\ pc'[d] # "idle" /\ pc'[e] # "idle" => reqOf'[d] # reqOf'[e]
    BY <2>1 DEF IdsInv, TypeInv
  <2>5. \A d \in Callers : Unsent(d)' => ~Has(c2s, reqOf'[d]) /\ ~Has(handled, reqOf'[d])
    BY <2>1, <2>2 DEF IdsInv, Unsent
  <2>6. /\ \A k \in 1..Len(c2s) : c2s[k] < next_req_id'
        /\ \A k \in 1..Len(handled) : handled[k] < next_req_id'
    <3>1. /\ \A k \in 1..Len(c2s) : c2s[k] \in Nat
          /\ \A k \in 1..Len(handled) : handled[k] \in Nat
      <4>1. /\ \A k \in 1..Len(c2s) : c2s[k] \in ReqIds
            /\ \A k \in 1..Len(handled) : handled[k] \in ReqIds
        BY ElementOfSeq DEF TypeInv
      <4> QED BY <4>1, BoundsType DEF ReqIds
    <3> QED BY <2>1, <3>1 DEF IdsInv
  <2>7. \A i \in ReqIds : returned'[i] # "none" => i < next_req_id'
    BY <2>1 DEF IdsInv, ReqIds
  <2> QED BY <2>1, <2>3, <2>4, <2>5, <2>6, <2>7 DEF IdsInv
<1>3. ASSUME NEW c \in Callers, RegisterWatcher(c)
      PROVE  IdsInv'
  BY <1>3 DEF RegisterWatcher, IdsInv, TypeInv, Unsent
<1>4. ASSUME NEW c \in Callers, InsertPending(c)
      PROVE  IdsInv'
  BY <1>4 DEF InsertPending, IdsInv, TypeInv, Unsent
<1>5. ASSUME NEW c \in Callers, Dispatch(c)
      PROVE  IdsInv'
  <2>1. /\ reqOf[c] \in ReqIds /\ reqOf[c] < next_req_id /\ pc[c] = "send"
        /\ c2s' = Append(c2s, reqOf[c]) /\ c2s \in Seq(ReqIds)
        /\ UNCHANGED <<next_req_id, reqOf, returned, handled>>
        /\ pc'[c] = "wait" /\ \A d \in Callers \ {c} : pc'[d] = pc[d]
    BY <1>5 DEF Dispatch, IdsInv, TypeInv
  <2>2. ~Has(c2s, reqOf[c]) /\ ~Has(handled, reqOf[c])
    BY <2>1 DEF IdsInv, Unsent
  <2>3. \A y : Has(c2s', y) <=> Has(c2s, y) \/ y = reqOf[c]
    BY <2>1, HasAppend
  <2>4. Distinct(c2s')
    BY <2>1, <2>2, DistinctAppend DEF IdsInv
  <2>5. \A y : Has(c2s, y) => y < next_req_id /\ ~Has(handled, y)
    BY DEF Has, IdsInv
  <2>6. \A k \in 1..Len(c2s') : Has(c2s', c2s'[k])
    BY DEF Has
  <2>7. \A k \in 1..Len(c2s') : c2s'[k] < next_req_id /\ ~Has(handled, c2s'[k])
    BY <2>1, <2>2, <2>3, <2>5, <2>6
  <2>8. \A d \in Callers : Unsent(d)' => ~Has(c2s', reqOf[d]) /\ ~Has(handled, reqOf[d])
    BY <2>1, <2>3 DEF IdsInv, Unsent
  <2>9. \A d \in Callers : pc'[d] # "idle" => pc[d] # "idle"
    BY <2>1
  <2> QED BY <2>1, <2>4, <2>7, <2>8, <2>9 DEF IdsInv
<1>6. ASSUME NEW c \in Callers, DispatchFails(c) \/ Receive(c)
      PROVE  IdsInv'
  <2>1. pc[c] # "idle" /\ \E r : Finish(c, r)
    BY <1>6 DEF DispatchFails, Receive
  <2>2. reqOf[c] < next_req_id
    BY <2>1 DEF IdsInv
  <2> QED BY <2>1, <2>2 DEF Finish, IdsInv, TypeInv, Unsent
<1>7. ASSUME NEW i \in ReqIds, Handle(i)
      PROVE  IdsInv'
  BY <1>7, HandleShape, TakeIds
<1>8. CASE SendFails \/ Break
  BY <1>8, LoseIds DEF SendFails, Break, HandlerEnds
<1>10. CASE WriteLost \/ RequestRefused
  BY <1>10, LoseIds, LoseShape
<1>9. CASE \/ ReadAnswer \/ ReadEvent \/ SendReply \/ WriterEnds
           \/ \E i \in ReqIds : WatchSend(i)
  BY <1>1, <1>9 DEF ReadAnswer, ReadEvent, SendReply, WriterEnds, WatchSend
<1> QED BY <1>1, <1>2, <1>3, <1>4, <1>5, <1>6, <1>7, <1>8, <1>9, <1>10,
            QuietSteps
        DEF Next, CallStep, ReadStep, HandlerStep, WatchStep, Quiet

-----------------------------------------------------------------------------
(* What the steps do to the queue of frames.                               *)

\* Frames are added behind the others.
Adds(f) ==
  /\ Len(s2c) \in Nat /\ Len(s2c') = Len(s2c) + 1
  /\ \A k \in 1..Len(s2c) : s2c'[k] = s2c[k]
  /\ s2c'[Len(s2c) + 1] = f

LEMMA ReplyFrame ==
  ASSUME TypeInv, SendReply
  PROVE  \/ UNCHANGED s2c /\ writer' # "alive"
         \/ /\ reply \in Replies /\ reply.body \in Bodies /\ reply # NoReply
            /\ open /\ writer = "alive" /\ UNCHANGED writer
            /\ \E f \in Frames : Adds(f) /\ f.id = reply.id /\ f.body = reply.body
<1>1. SUFFICES ASSUME writer = "alive", s2c' = Append(s2c, Frame(reply)), UNCHANGED writer,
                      reply.body # "oversized"
               PROVE  /\ reply \in Replies /\ reply.body \in Bodies /\ reply # NoReply /\ open
                      /\ \E f \in Frames : Adds(f) /\ f.id = reply.id /\ f.body = reply.body
  BY DEF SendReply, QueueReply
<1>2. open /\ reply # NoReply /\ reply \in Replies /\ reply.body \in Bodies
  BY <1>1 DEF SendReply, TypeInv, Replies
<1>3. PICK f : f = Frame(reply)
  OBVIOUS
<1>4. f \in Frames /\ f.id = reply.id /\ f.body = reply.body
  BY <1>2, <1>3 DEF Frame, Frames, Replies
<1>5. Adds(f)
  BY <1>1, <1>3, <1>4, AppendAt DEF TypeInv, Adds
<1> QED BY <1>2, <1>4, <1>5

LEMMA EventFrame ==
  ASSUME TypeInv, StreamType, NEW i \in ReqIds, WatchSend(i)
  PROVE  \/ UNCHANGED s2c
         \/ /\ subs' = [subs EXCEPT ![i].held = 0]
            /\ \E f \in Frames : /\ Adds(f)
                                 /\ f.id = i /\ f.body = "event" /\ f.event = subs[i].held
<1>1. SUFFICES ASSUME s2c' = Append(s2c, [id |-> i, body |-> "event", event |-> subs[i].held])
               PROVE  \E f \in Frames : /\ Adds(f)
                                        /\ f.id = i /\ f.body = "event" /\ f.event = subs[i].held
  BY DEF WatchSend
<1>2. PICK f : f = [id |-> i, body |-> "event", event |-> subs[i].held]
  OBVIOUS
<1>3. f \in Frames /\ f.id = i /\ f.body = "event" /\ f.event = subs[i].held
  BY <1>2 DEF StreamType, SubType, Frames
<1>4. Adds(f)
  BY <1>1, <1>2, <1>3, AppendAt DEF TypeInv, Adds
<1> QED BY <1>3, <1>4

LEMMA ReadFrame ==
  ASSUME TypeInv, ReadAnswer \/ ReadEvent
  PROVE  /\ Len(s2c) \in Nat \ {0} /\ Len(s2c') = Len(s2c) - 1
         /\ Head(s2c) = s2c[1] /\ s2c[1] \in Frames
         /\ \A k \in 1..Len(s2c') : s2c'[k] = s2c[k + 1]
<1>1. s2c # <<>> /\ s2c' = Tail(s2c)
  BY DEF ReadAnswer, ReadEvent
<1> QED BY <1>1, TailAt DEF TypeInv

LEMMA CutFrames ==
  ASSUME TypeInv, HandlerEnds
  PROVE  /\ Len(s2c) \in Nat /\ Len(s2c') \in 0..Len(s2c)
         /\ \A k \in 1..Len(s2c') : s2c'[k] = s2c[k]
<1>1. PICK n \in 0..Len(s2c) : s2c' = SubSeq(s2c, 1, n)
  BY DEF HandlerEnds
<1> QED BY <1>1, PrefixAt DEF TypeInv

LEMMA FrameTypes ==
  ASSUME TypeInv
  PROVE  /\ Len(s2c) \in Nat /\ Len(handled) \in Nat /\ Len(c2s) \in Nat
         /\ \A k \in 1..Len(s2c) : s2c[k] \in Frames
         /\ \A k \in 1..Len(handled) : handled[k] \in ReqIds
BY LenProperties, ElementOfSeq DEF TypeInv

-----------------------------------------------------------------------------
(* Where answers and subscriptions come from.                              *)

LEMMA SourceInit == Init => SourceInv
BY DEF Init, SourceInv, NoReply

\* Handling a request concerns no subscription but its own.
LEMMA HandleSubs ==
  ASSUME StreamType, NEW i \in ReqIds, Handle(i), NEW j \in ReqIds, j # i
  PROVE  subs'[j] = subs[j]
BY DEF Handle, HandleAuth, HandlePing, HandleRejected, HandleQuery, HandleWatch,
       HandleUnwatch, StreamType

LEMMA SourceStep ==
  ASSUME TypeInv, StreamType, SourceInv, [Next]_vars
  PROVE  SourceInv'
<1> USE DEF link, wires, server, client
<1>1. CASE UNCHANGED <<reply, s2c, answer, subs, handled>>
  BY <1>1 DEF SourceInv
<1>2. ASSUME NEW c \in Callers, InsertPending(c)
      PROVE  SourceInv'
  BY <1>2 DEF InsertPending, SourceInv, TypeInv
<1>3. CASE ReadAnswer \/ ReadEvent
  <2>1. UNCHANGED <<reply, subs, handled>>
    BY <1>3 DEF ReadAnswer, ReadEvent
  <2>2. /\ Len(s2c) \in Nat \ {0} /\ Len(s2c') = Len(s2c) - 1 /\ Head(s2c) = s2c[1]
        /\ \A k \in 1..Len(s2c') : s2c'[k] = s2c[k + 1]
    BY <1>3, ReadFrame
  <2>3. \A k \in 1..Len(s2c') : Has(handled, s2c'[k].id)
    BY <2>2 DEF SourceInv
  <2>4. Has(handled, Head(s2c).id)
    BY <2>2 DEF SourceInv
  <2>5. \A i \in ReqIds : answer'[i] # "none" => Has(handled, i)
    BY <1>3, <2>4 DEF ReadAnswer, ReadEvent, SourceInv, TypeInv
  <2> QED BY <2>1, <2>3, <2>5 DEF SourceInv
<1>4. ASSUME NEW i \in ReqIds, Handle(i)
      PROVE  SourceInv'
  <2>1. /\ Take(i) /\ UNCHANGED <<client, s2c, link, got>>
        /\ \E b \in Bodies \cup {"oversized"} : reply' = [id |-> i, body |-> b]
    BY <1>4, HandleShape
  <2>2. /\ Len(handled) \in Nat /\ Len(handled') = Len(handled) + 1
        /\ handled'[Len(handled) + 1] = i
    BY <2>1, AppendAt DEF Take, TypeInv
  <2>3. \A y : Has(handled', y) <=> Has(handled, y) \/ y = i
    BY <2>1, HasAppend DEF Take, TypeInv
  <2>4. reply'.id = handled'[Len(handled')] /\ Len(handled') > 0
    BY <2>1, <2>2
  <2>5. \A j \in ReqIds : subs'[j] # NoSub => Has(handled', j)
    BY <1>4, <2>3, HandleSubs DEF SourceInv
  <2> QED BY <2>1, <2>3, <2>4, <2>5 DEF SourceInv
<1>5. CASE SendReply
  <2>1. CASE UNCHANGED s2c
    BY <1>5, <2>1 DEF SendReply, SourceInv
  <2>2. ASSUME NEW f \in Frames, Adds(f), f.id = reply.id, reply # NoReply
        PROVE  SourceInv'
    <3>1. Has(handled, reply.id)
      BY <2>2, FrameTypes DEF SourceInv, Has
    <3>2. \A k \in 1..Len(s2c') : Has(handled, s2c'[k].id)
      BY <2>2, <3>1 DEF SourceInv, Adds
    <3> QED BY <1>5, <3>2 DEF SendReply, SourceInv
  <2> QED BY <1>5, <2>1, <2>2, ReplyFrame
<1>6. CASE SendFails \/ Break
  <2>1. HandlerEnds
    BY <1>6 DEF SendFails, Break
  <2>2. \A k \in 1..Len(s2c') : Has(handled, s2c'[k].id)
    BY <2>1, CutFrames DEF SourceInv
  <2> QED BY <2>1, <2>2 DEF HandlerEnds, SourceInv
<1>7. ASSUME NEW i \in ReqIds, WatchRecv(i)
      PROVE  SourceInv'
  <2>1. Has(handled, i)
    BY <1>7 DEF WatchRecv, SourceInv, NoSub
  <2>2. \A j \in ReqIds \ {i} : subs'[j] = subs[j]
    BY <1>7 DEF WatchRecv, StreamType
  <2> QED BY <1>7, <2>1, <2>2 DEF WatchRecv, SourceInv
<1>8. ASSUME NEW i \in ReqIds, WatchSend(i)
      PROVE  SourceInv'
  <2>1. Has(handled, i)
    BY <1>8 DEF WatchSend, SourceInv, NoSub
  <2>2. \A j \in ReqIds \ {i} : subs'[j] = subs[j]
    BY <1>8 DEF WatchSend, StreamType
  <2>3. \A k \in 1..Len(s2c') : Has(handled, s2c'[k].id)
    <3>1. CASE UNCHANGED s2c
      BY <1>8, <3>1 DEF WatchSend, SourceInv
    <3>2. CASE \E f \in Frames : Adds(f) /\ f.id = i
      BY <2>1, <3>2 DEF SourceInv, Adds
    <3> QED BY <1>8, <3>1, <3>2, EventFrame
  <2> QED BY <1>8, <2>1, <2>2, <2>3 DEF WatchSend, SourceInv
<1>9. ASSUME NEW c \in Callers,
             \/ Begin(c) \/ RegisterWatcher(c) \/ Dispatch(c) \/ DispatchFails(c) \/ Receive(c)
      PROVE  SourceInv'
  BY <1>1, <1>9 DEF Begin, RegisterWatcher, Dispatch, DispatchFails, Receive, Finish
<1>10. CASE \/ Push \/ ReadEnd \/ WriterEnds \/ Publish
            \/ WriteLost \/ RequestRefused
            \/ \E i \in ReqIds : Consume(i) \/ DropStream(i)
  BY <1>1, <1>10, LoseShape DEF Push, ReadEnd, WriterEnds, Publish, Consume, DropStream
<1> QED BY <1>1, <1>2, <1>3, <1>4, <1>5, <1>6, <1>7, <1>8, <1>9, <1>10
        DEF Next, vars, CallStep, ReadStep, HandlerStep, WatchStep

-----------------------------------------------------------------------------
(* What answers say.                                                       *)

LEMMA BodiesInit == Init => BodiesInv
BY DEF Init, BodiesInv, Truthful, NoReply

LEMMA BodiesStep ==
  ASSUME TypeInv, StreamType, IdsInv, SourceInv, BodiesInv, [Next]_vars
  PROVE  BodiesInv'
<1> USE DEF link, wires, server, client
<1>1. CASE UNCHANGED <<returned, answer, s2c, reply, request, executed>>
  BY <1>1 DEF BodiesInv, Truthful
<1>2. ASSUME NEW c \in Callers, Begin(c)
      PROVE  BodiesInv'
  <2>1. /\ \A i \in ReqIds : i # next_req_id => request'[i] = request[i]
        /\ UNCHANGED <<returned, answer, s2c, reply, executed>> /\ next_req_id \in Nat
    BY <1>2 DEF Begin, TypeInv
  <2>2. \A i \in ReqIds : \A b : i # next_req_id /\ Truthful(i, b) => Truthful(i, b)'
    BY <2>1 DEF Truthful
  <2>3. \A i : Has(handled, i) => i # next_req_id
    BY <2>1 DEF IdsInv, Has
  <2>4. \A i \in ReqIds : (Truthful(i, returned[i]) /\ Truthful(i, answer[i]))'
    <3> SUFFICES ASSUME NEW i \in ReqIds
                 PROVE  (Truthful(i, returned[i]) /\ Truthful(i, answer[i]))'
      OBVIOUS
    <3>1. CASE i = next_req_id
      <4>1. returned[i] = "none" /\ answer[i] = "none"
        BY <2>1, <2>3, <3>1 DEF IdsInv, SourceInv
      <4> QED BY <2>1, <4>1 DEF Truthful
    <3>2. CASE i # next_req_id
      BY <2>1, <3>2 DEF BodiesInv, Truthful
    <3> QED BY <3>1, <3>2
  <2>5. \A k \in 1..Len(s2c) : Truthful(s2c[k].id, s2c[k].body)'
    <3> SUFFICES ASSUME NEW k \in 1..Len(s2c)
                 PROVE  Truthful(s2c[k].id, s2c[k].body)'
      OBVIOUS
    <3>1. s2c[k].id \in ReqIds /\ s2c[k].id # next_req_id
      BY <2>3, FrameTypes DEF SourceInv, Frames
    <3> QED BY <2>1, <3>1 DEF BodiesInv, Truthful
  <2>6. reply # NoReply => Truthful(reply.id, reply.body)'
    <3> SUFFICES ASSUME reply # NoReply
                 PROVE  Truthful(reply.id, reply.body)'
      OBVIOUS
    <3>1. reply.id \in ReqIds /\ reply.id # next_req_id
      BY <2>1, FrameTypes DEF SourceInv, IdsInv, TypeInv, Replies
    <3> QED BY <2>1, <3>1 DEF BodiesInv, Truthful
  <2> QED BY <2>1, <2>4, <2>5, <2>6 DEF BodiesInv
<1>3. ASSUME NEW c \in Callers, InsertPending(c)
      PROVE  BodiesInv'
  BY <1>3 DEF InsertPending, BodiesInv, TypeInv, Truthful
<1>4. ASSUME NEW c \in Callers, DispatchFails(c) \/ Receive(c)
      PROVE  BodiesInv'
  <2>1. reqOf[c] \in ReqIds
    BY <1>4 DEF DispatchFails, Receive, IdsInv
  <2>2. PICK r : Finish(c, r) /\ (r = "closed" \/ r = answer[reqOf[c]])
    BY <1>4 DEF DispatchFails, Receive
  <2>3. Truthful(reqOf[c], r)
    BY <2>1, <2>2 DEF BodiesInv, Truthful
  <2>4. \A i \in ReqIds : Truthful(i, returned'[i])
    BY <2>2, <2>3 DEF Finish, BodiesInv, TypeInv
  <2> QED BY <2>2, <2>4 DEF Finish, BodiesInv, Truthful
<1>5. CASE ReadAnswer \/ ReadEvent
  <2>1. UNCHANGED <<reply, request, executed, returned>>
    BY <1>5 DEF ReadAnswer, ReadEvent
  <2>2. /\ Len(s2c) \in Nat \ {0} /\ Len(s2c') = Len(s2c) - 1 /\ Head(s2c) = s2c[1]
        /\ \A k \in 1..Len(s2c') : s2c'[k] = s2c[k + 1]
    BY <1>5, ReadFrame
  <2>3. \A k \in 1..Len(s2c') : Truthful(s2c'[k].id, s2c'[k].body)
    BY <2>2 DEF BodiesInv
  <2>4. Truthful(Head(s2c).id, Head(s2c).body)
    BY <2>2 DEF BodiesInv
  <2>5. \A i \in ReqIds : Truthful(i, answer'[i])
    BY <1>5, <2>4 DEF ReadAnswer, ReadEvent, BodiesInv, TypeInv
  <2> QED BY <2>1, <2>3, <2>5 DEF BodiesInv, Truthful
<1>6. ASSUME NEW i \in ReqIds, Handle(i)
      PROVE  BodiesInv'
  <2>1. /\ UNCHANGED <<client, s2c, link, got>> /\ executed \subseteq executed'
        /\ \E b \in Bodies \cup {"oversized"} : reply' = [id |-> i, body |-> b] /\ Truthful(i, b)'
    BY <1>6, HandleShape
  <2>2. Truthful(reply.id, reply.body)'
    BY <2>1 DEF Truthful
  <2> QED BY <2>1, <2>2 DEF BodiesInv, Truthful
<1>7. CASE SendReply
  <2>1. CASE UNCHANGED s2c
    BY <1>7, <2>1 DEF SendReply, BodiesInv, Truthful
  <2>2. ASSUME NEW f \in Frames, Adds(f), f.id = reply.id, f.body = reply.body, reply # NoReply
        PROVE  BodiesInv'
    <3>1. \A k \in 1..Len(s2c') : Truthful(s2c'[k].id, s2c'[k].body)
      BY <2>2 DEF BodiesInv, Adds
    <3> QED BY <1>7, <3>1 DEF SendReply, BodiesInv, Truthful
  <2> QED BY <1>7, <2>1, <2>2, ReplyFrame
<1>8. CASE SendFails \/ Break
  <2>1. HandlerEnds
    BY <1>8 DEF SendFails, Break
  <2>2. \A k \in 1..Len(s2c') : Truthful(s2c'[k].id, s2c'[k].body)
    BY <2>1, CutFrames DEF BodiesInv
  <2> QED BY <2>1, <2>2 DEF HandlerEnds, BodiesInv, Truthful
<1>9. ASSUME NEW i \in ReqIds, WatchSend(i)
      PROVE  BodiesInv'
  <2>1. CASE UNCHANGED s2c
    BY <1>9, <2>1 DEF WatchSend, BodiesInv, Truthful
  <2>2. ASSUME NEW f \in Frames, Adds(f), f.body = "event"
        PROVE  BodiesInv'
    <3>1. \A k \in 1..Len(s2c') : Truthful(s2c'[k].id, s2c'[k].body)
      BY <2>2 DEF BodiesInv, Adds, Truthful
    <3> QED BY <1>9, <3>1 DEF WatchSend, BodiesInv, Truthful
  <2> QED BY <1>9, <2>1, <2>2, EventFrame
<1>10. ASSUME NEW c \in Callers, RegisterWatcher(c) \/ Dispatch(c)
       PROVE  BodiesInv'
  BY <1>1, <1>10 DEF RegisterWatcher, Dispatch
<1>11. CASE WriterEnds \/ WriteLost \/ RequestRefused
  BY <1>1, <1>11, LoseShape DEF WriterEnds
<1>12. CASE Quiet
  BY <1>1, <1>12 DEF Quiet
<1> QED BY <1>2, <1>3, <1>4, <1>5, <1>6, <1>7, <1>8, <1>9, <1>10, <1>11, <1>12, QuietSteps
        DEF Next, CallStep, ReadStep, HandlerStep, WatchStep

-----------------------------------------------------------------------------
(* The order of answers.                                                   *)

LEMMA OrderInit == Init => OrderInv
BY DEF Init, OrderInv, PendingInv, QueueOrder, LossOrder, NoReply

\* The client reads the first answer in the queue.
LEMMA ReadAnswerOrder ==
  ASSUME TypeInv, IdsInv, SourceInv, OrderInv, ReadAnswer
  PROVE  OrderInv'
<1>1. /\ Len(s2c) \in Nat \ {0} /\ Len(s2c') = Len(s2c) - 1
      /\ Head(s2c) = s2c[1] /\ s2c[1] \in Frames /\ IsAnswer(1)
      /\ \A k \in 1..Len(s2c') : s2c'[k] = s2c[k + 1]
  BY ReadFrame DEF ReadAnswer, IsAnswer
<1>2. PICK x : x = s2c[1].id
  OBVIOUS
<1>3. PICK h \in 1..Len(handled) : handled[h] = x
  BY <1>1, <1>2 DEF SourceInv, Has
<1>4. /\ x \in ReqIds /\ x \in pending /\ pending' = pending \ {x}
      /\ answer' = [answer EXCEPT ![x] = s2c[1].body] /\ s2c[1].body # "none"
      /\ UNCHANGED <<pc, reqOf, c2s, handled, reply, open, writer>>
  <2>1. x \in ReqIds /\ x \in pending /\ s2c[1].body # "none"
    BY <1>1, <1>2 DEF OrderInv, PendingInv, Frames, IsAnswer, Bodies, Errors
  <2> QED BY <1>1, <1>2, <2>1 DEF ReadAnswer, server, link
<1>5. Len(handled) \in Nat /\ \A j \in 1..Len(handled) : handled[j] \in ReqIds
  BY FrameTypes
<1>6. \A j \in 1..Len(handled) : handled[j] = x => j = h
  BY <1>3 DEF IdsInv, Distinct
<1>7. \A j \in 1..Len(handled) : Answered(j)' <=> Answered(j) \/ j = h
  BY <1>3, <1>4, <1>5, <1>6 DEF Answered, TypeInv
<1>8. \A n \in 1..Len(s2c') : n + 1 \in 1..Len(s2c) /\ 1 < n + 1
                             /\ (IsAnswer(n)' <=> IsAnswer(n + 1))
  BY <1>1 DEF IsAnswer
<1>9. \A n \in 1..Len(s2c) : n = 1 \/ (n - 1 \in 1..Len(s2c') /\ s2c'[n - 1] = s2c[n])
  BY <1>1
<1>10. \A n \in 1..Len(s2c') : IsAnswer(n)' => s2c'[n].id # x
  <2> SUFFICES ASSUME NEW n \in 1..Len(s2c'), IsAnswer(n)', s2c'[n].id = x
               PROVE  FALSE
    OBVIOUS
  <2>1. s2c[n + 1].id = handled[h] /\ s2c[1].id = handled[h]
    BY <1>1, <1>2, <1>3
  <2>2. n + 1 \in 1..Len(s2c) /\ 1 \in 1..Len(s2c) /\ 1 < n + 1 /\ IsAnswer(n + 1)
    BY <1>1, <1>8
  <2>3. h < h
    BY <1>1, <2>1, <2>2 DEF OrderInv, QueueOrder
  <2> QED BY <1>5, <2>3
<1>11. \A j \in 1..Len(handled) : Queued(j)' => Queued(j)
  <2> SUFFICES ASSUME NEW j \in 1..Len(handled), Queued(j)'
               PROVE  Queued(j)
    OBVIOUS
  <2>1. PICK n \in 1..Len(s2c') : IsAnswer(n)' /\ s2c'[n].id = handled[j]
    BY <1>4 DEF Queued
  <2>2. n + 1 \in 1..Len(s2c) /\ IsAnswer(n + 1) /\ s2c[n + 1].id = handled[j]
    BY <1>1, <1>8, <2>1
  <2> QED BY <2>2 DEF Queued
<1>12. \A j \in 1..Len(handled) : Queued(j) => j = h \/ Queued(j)'
  <2> SUFFICES ASSUME NEW j \in 1..Len(handled), Queued(j), j # h
               PROVE  Queued(j)'
    OBVIOUS
  <2>1. PICK n \in 1..Len(s2c) : IsAnswer(n) /\ s2c[n].id = handled[j]
    BY DEF Queued
  <2>2. n # 1
    BY <1>2, <1>6, <2>1
  <2>3. n - 1 \in 1..Len(s2c') /\ s2c'[n - 1] = s2c[n]
    BY <1>9, <2>2
  <2> QED BY <1>4, <2>1, <2>3 DEF Queued, IsAnswer
<1>13. Queued(h)
  BY <1>1, <1>2, <1>3 DEF Queued
<1>14. \A j \in 1..Len(handled) : j < h => Answered(j)
  <2> SUFFICES ASSUME NEW j \in 1..Len(handled), j < h, ~Answered(j)
               PROVE  FALSE
    OBVIOUS
  <2>1. Queued(j)
    BY <1>13 DEF OrderInv, LossOrder
  <2>2. PICK n \in 1..Len(s2c) : IsAnswer(n) /\ s2c[n].id = handled[j]
    BY <2>1 DEF Queued
  <2>3. n # 1
    BY <1>2, <1>5, <1>6, <2>2
  <2>4. 1 < n /\ 1 \in 1..Len(s2c)
    BY <1>1, <2>3
  <2>5. h < j
    BY <1>1, <1>2, <1>3, <2>2, <2>4 DEF OrderInv, QueueOrder
  <2> QED BY <1>5, <2>5
<1>15. PendingInv'
  <2>1. \A c \in Callers : pc[c] = "send" => reqOf[c] # x
    BY <1>3 DEF IdsInv, Unsent, Has
  <2>2. \A k \in 1..Len(c2s) : c2s[k] # x
    BY <1>3 DEF IdsInv, Has
  <2>3. reply # NoReply => reply.id # x
    BY <1>3, <1>6, <1>13 DEF SourceInv, OrderInv, LossOrder
  <2>4. \A n \in 1..Len(s2c') : IsAnswer(n)' => s2c'[n].id \in pending'
    BY <1>1, <1>4, <1>8, <1>10 DEF OrderInv, PendingInv
  <2> QED BY <1>4, <2>1, <2>2, <2>3, <2>4 DEF OrderInv, PendingInv
<1>16. QueueOrder'
  <2> SUFFICES ASSUME NEW n \in 1..Len(s2c'), NEW m \in 1..Len(s2c'),
                      NEW j \in 1..Len(handled), NEW k \in 1..Len(handled),
                      n < m, IsAnswer(n)', IsAnswer(m)',
                      s2c'[n].id = handled[j], s2c'[m].id = handled[k]
               PROVE  j < k
    BY <1>4 DEF QueueOrder
  <2>1. n + 1 < m + 1 /\ s2c[n + 1].id = handled[j] /\ s2c[m + 1].id = handled[k]
    BY <1>1, SMTT(40)
  <2> QED BY <1>8, <2>1 DEF OrderInv, QueueOrder
<1>17. LossOrder'
  BY <1>4, <1>5, <1>7, <1>11, <1>12, <1>14 DEF OrderInv, LossOrder
<1> QED BY <1>15, <1>16, <1>17 DEF OrderInv

\* Frames that are no answers come and go, and requests too; the answers and
\* what was taken stay.
LEMMA SameOrder ==
  ASSUME TypeInv, SourceInv, OrderInv, PendingInv', UNCHANGED <<handled, reply>>,
         open' = open, writer' = "alive" => writer = "alive",
         \A j \in 1..Len(handled) : answer'[handled[j]] = answer[handled[j]],
         \A j \in 1..Len(handled) : Queued(j)' <=> Queued(j),
         QueueOrder'
  PROVE  OrderInv'
<1>1. \A j \in 1..Len(handled) : Answered(j)' <=> Answered(j)
  BY DEF Answered
<1>2. Len(handled) \in Nat
  BY FrameTypes
<1>3. PICK L : L = Len(handled)
  OBVIOUS
<1>4. reply # NoReply => ~Queued(L)'
  <2>1. reply # NoReply => ~Queued(L) /\ L \in 1..Len(handled)
    BY <1>2, <1>3 DEF OrderInv, LossOrder, SourceInv
  <2> QED BY <2>1
<1>5. LossOrder'
  BY <1>1, <1>3, <1>4 DEF OrderInv, LossOrder
<1> QED BY <1>5 DEF OrderInv

LEMMA ReadEventOrder ==
  ASSUME TypeInv, SourceInv, OrderInv, ReadEvent
  PROVE  OrderInv'
<1>1. /\ Len(s2c) \in Nat \ {0} /\ Len(s2c') = Len(s2c) - 1
      /\ Head(s2c) = s2c[1] /\ ~IsAnswer(1)
      /\ \A k \in 1..Len(s2c') : s2c'[k] = s2c[k + 1]
  BY ReadFrame DEF ReadEvent, IsAnswer, Bodies, Errors
<1>2. UNCHANGED <<pc, reqOf, pending, answer, c2s, handled, reply, open, writer>>
  BY DEF ReadEvent, server, link
<1>3. \A n \in 1..Len(s2c') : n + 1 \in 1..Len(s2c) /\ (IsAnswer(n)' <=> IsAnswer(n + 1))
  BY <1>1 DEF IsAnswer
<1>4. \A n \in 1..Len(s2c) : n = 1 \/ (n - 1 \in 1..Len(s2c') /\ s2c'[n - 1] = s2c[n])
  BY <1>1
<1>5. PendingInv'
  BY <1>1, <1>2, <1>3 DEF OrderInv, PendingInv
<1>6. QueueOrder'
  <2> SUFFICES ASSUME NEW n \in 1..Len(s2c'), NEW m \in 1..Len(s2c'),
                      NEW j \in 1..Len(handled), NEW k \in 1..Len(handled),
                      n < m, IsAnswer(n)', IsAnswer(m)',
                      s2c'[n].id = handled[j], s2c'[m].id = handled[k]
               PROVE  j < k
    BY <1>2 DEF QueueOrder
  <2>1. s2c[n + 1].id = handled[j] /\ s2c[m + 1].id = handled[k]
    BY <1>1
  <2>2. n + 1 < m + 1
    BY <1>1
  <2> QED BY <1>3, <2>1, <2>2 DEF OrderInv, QueueOrder
<1>7. ASSUME NEW j \in 1..Len(handled)
      PROVE  Queued(j)' <=> Queued(j)
  <2>1. ASSUME Queued(j) PROVE Queued(j)'
    <3>1. PICK n \in 1..Len(s2c) : IsAnswer(n) /\ s2c[n].id = handled[j]
      BY <2>1 DEF Queued
    <3>2. n - 1 \in 1..Len(s2c') /\ s2c'[n - 1] = s2c[n]
      BY <1>1, <1>4, <3>1
    <3> QED BY <1>2, <3>1, <3>2 DEF Queued, IsAnswer
  <2>2. ASSUME Queued(j)' PROVE Queued(j)
    <3>1. PICK n \in 1..Len(s2c') : IsAnswer(n)' /\ s2c'[n].id = handled[j]
      BY <1>2, <2>2 DEF Queued
    <3>2. n + 1 \in 1..Len(s2c) /\ IsAnswer(n + 1) /\ s2c[n + 1].id = handled[j]
      BY <1>1, <1>3, <3>1
    <3> QED BY <3>2 DEF Queued
  <2> QED BY <2>1, <2>2
<1> QED BY <1>2, <1>5, <1>6, <1>7, SameOrder

LEMMA WatchSendOrder ==
  ASSUME TypeInv, StreamType, SourceInv, OrderInv, NEW i \in ReqIds, WatchSend(i)
  PROVE  OrderInv'
<1>1. /\ UNCHANGED <<pc, reqOf, pending, answer, c2s, handled, reply, open>>
      /\ writer' = "alive" => writer = "alive"
  BY DEF WatchSend, client
<1>2. CASE UNCHANGED s2c
  <2>1. PendingInv' /\ QueueOrder'
    BY <1>1, <1>2 DEF OrderInv, PendingInv, QueueOrder, IsAnswer
  <2>2. LossOrder'
    BY <1>1, <1>2 DEF OrderInv, LossOrder, Answered, Queued, IsAnswer
  <2> QED BY <2>1, <2>2 DEF OrderInv
<1>3. ASSUME NEW f \in Frames, Adds(f), f.body = "event"
      PROVE  OrderInv'
  <2>1. /\ Len(s2c) \in Nat /\ Len(s2c') = Len(s2c) + 1
        /\ \A n \in 1..Len(s2c) : s2c'[n] = s2c[n] /\ (IsAnswer(n)' <=> IsAnswer(n))
    BY <1>3 DEF Adds, IsAnswer
  <2>2. \A n \in 1..Len(s2c') : IsAnswer(n)' => n \in 1..Len(s2c)
    BY <1>3, <2>1 DEF Adds, IsAnswer, Bodies, Errors
  <2>3. PendingInv'
    BY <1>1, <2>1, <2>2 DEF OrderInv, PendingInv
  <2>4. QueueOrder'
    BY <1>1, <2>1, <2>2 DEF OrderInv, QueueOrder
  <2>5. \A j \in 1..Len(handled) : Queued(j)' <=> Queued(j)
    BY <1>1, <2>1, <2>2 DEF Queued
  <2> QED BY <1>1, <2>3, <2>4, <2>5, SameOrder
<1> QED BY <1>2, <1>3, EventFrame

LEMMA HandleOrder ==
  ASSUME TypeInv, IdsInv, SourceInv, OrderInv, NEW i \in ReqIds, Handle(i)
  PROVE  OrderInv'
<1>1. /\ Take(i) /\ UNCHANGED <<pc, reqOf, pending, answer, s2c, open, writer>>
      /\ \E b \in Bodies \cup {"oversized"} : reply' = [id |-> i, body |-> b]
  BY HandleShape DEF client, link
<1>2. /\ Len(handled) \in Nat /\ Len(handled') = Len(handled) + 1
      /\ \A j \in 1..Len(handled) : handled'[j] = handled[j]
      /\ handled'[Len(handled) + 1] = i
  BY <1>1, AppendAt DEF Take, TypeInv
<1>3. /\ Len(c2s) \in Nat \ {0} /\ c2s[1] = i /\ Len(c2s') = Len(c2s) - 1
      /\ \A k \in 1..Len(c2s') : c2s'[k] = c2s[k + 1]
  BY <1>1, TailAt DEF Take, TypeInv
<1>4. i \in pending /\ ~Has(handled, i)
  BY <1>3 DEF OrderInv, PendingInv, IdsInv
<1>5. answer[i] = "none" /\ \A n \in 1..Len(s2c) : s2c[n].id # i
  BY <1>4 DEF SourceInv
<1>6. \A n : IsAnswer(n)' <=> IsAnswer(n)
  BY <1>1 DEF IsAnswer
<1>7. PendingInv'
  BY <1>1, <1>3, <1>4, <1>6 DEF OrderInv, PendingInv
<1>8. QueueOrder'
  <2> SUFFICES ASSUME NEW n \in 1..Len(s2c), NEW m \in 1..Len(s2c),
                      NEW j \in 1..Len(handled'), NEW k \in 1..Len(handled'),
                      n < m, IsAnswer(n), IsAnswer(m),
                      s2c[n].id = handled'[j], s2c[m].id = handled'[k]
               PROVE  j < k
    BY <1>1, <1>6 DEF QueueOrder
  <2>1. j \in 1..Len(handled) /\ k \in 1..Len(handled)
    BY <1>2, <1>5
  <2> QED BY <1>2, <2>1 DEF OrderInv, QueueOrder
<1>9. \A j \in 1..Len(handled) : (Answered(j)' <=> Answered(j)) /\ (Queued(j)' <=> Queued(j))
  BY <1>1, <1>2, <1>6 DEF Answered, Queued
<1>10. PICK L : L = Len(handled) + 1
  OBVIOUS
<1>11. reply = NoReply /\ Len(handled') = L /\ ~Answered(L)' /\ ~Queued(L)'
  BY <1>1, <1>2, <1>5, <1>6, <1>10 DEF Take, Answered, Queued
<1>12. reply' # NoReply
  <2>1. reply' \in Replies
    BY <1>1 DEF Replies
  <2>2. reply'.id # 0
    BY <1>1 DEF ReqIds
  <2> QED BY <2>2 DEF NoReply
<1>13. LossOrder'
  <2>2. ASSUME NEW j \in 1..L, NEW k \in 1..L, j < k
        PROVE  /\ Answered(k)' => Answered(j)'
               /\ Queued(k)' => Answered(j)' \/ Queued(j)'
    <3>1. CASE k = L
      BY <1>11, <3>1
    <3>2. CASE k # L
      <4>1. j \in 1..Len(handled) /\ k \in 1..Len(handled)
        BY <1>2, <1>10, <2>2, <3>2
      <4> QED BY <1>9, <2>2, <4>1 DEF OrderInv, LossOrder
    <3> QED BY <3>1, <3>2
  <2>3. ASSUME open, writer = "alive", NEW j \in 1..L
        PROVE  Answered(j)' \/ Queued(j)' \/ j = L
    <3>1. CASE j \in 1..Len(handled)
      BY <1>9, <1>11, <2>3, <3>1 DEF OrderInv, LossOrder
    <3> QED BY <1>2, <1>10, <3>1
  <2> QED BY <1>1, <1>11, <1>12, <2>2, <2>3 DEF LossOrder
<1> QED BY <1>7, <1>8, <1>13 DEF OrderInv

LEMMA SendReplyOrder ==
  ASSUME TypeInv, IdsInv, SourceInv, OrderInv, SendReply
  PROVE  OrderInv'
<1>1. /\ UNCHANGED <<pc, reqOf, pending, answer, c2s, handled, open>>
      /\ reply' = NoReply /\ reply # NoReply
  BY DEF SendReply, client
<1>2. Len(handled) \in Nat /\ Len(s2c) \in Nat
  BY FrameTypes
<1>3. \A j : Answered(j)' <=> Answered(j)
  BY <1>1 DEF Answered
<1>4. CASE UNCHANGED s2c /\ writer' # "alive"
  <2>1. PendingInv' /\ QueueOrder'
    BY <1>1, <1>4 DEF OrderInv, PendingInv, QueueOrder, IsAnswer
  <2>2. \A j : Queued(j)' <=> Queued(j)
    BY <1>1, <1>4 DEF Queued, IsAnswer
  <2>3. LossOrder'
    BY <1>1, <1>3, <1>4, <2>2 DEF OrderInv, LossOrder
  <2> QED BY <2>1, <2>3 DEF OrderInv
<1>5. ASSUME NEW f \in Frames, Adds(f), f.id = reply.id, f.body \in Bodies,
             open, writer = "alive"
      PROVE  OrderInv'
  <2>1. PICK L : L = Len(handled)
    OBVIOUS
  <2>2. L \in 1..Len(handled) /\ handled[L] = reply.id /\ ~Queued(L)
    BY <1>1, <1>2, <2>1 DEF SourceInv, OrderInv, LossOrder
  <2>3. PICK N : N = Len(s2c)
    OBVIOUS
  <2>4. /\ N \in Nat /\ Len(s2c') = N + 1
        /\ \A n \in 1..N : s2c'[n] = s2c[n] /\ (IsAnswer(n)' <=> IsAnswer(n))
        /\ s2c'[N + 1].id = handled[L] /\ IsAnswer(N + 1)'
    BY <1>5, <2>2, <2>3 DEF Adds, IsAnswer
  <2>5. \A j \in 1..Len(handled) : handled[j] = handled[L] => j = L
    BY <2>2 DEF IdsInv, Distinct
  <2>6. \A n \in 1..N : IsAnswer(n) => s2c[n].id # handled[L]
    BY <2>2, <2>3 DEF Queued
  <2>7. PendingInv'
    <3>1. handled[L] \in pending
      BY <1>1, <2>2 DEF OrderInv, PendingInv
    <3>2. \A n \in 1..Len(s2c') : IsAnswer(n)' => s2c'[n].id \in pending
      BY <2>3, <2>4, <3>1 DEF OrderInv, PendingInv
    <3> QED BY <1>1, <3>2 DEF OrderInv, PendingInv
  <2>8. QueueOrder'
    <3> SUFFICES ASSUME NEW n \in 1..(N + 1), NEW m \in 1..(N + 1),
                        NEW j \in 1..Len(handled), NEW k \in 1..Len(handled),
                        n < m, IsAnswer(n)', IsAnswer(m)',
                        s2c'[n].id = handled[j], s2c'[m].id = handled[k]
                 PROVE  j < k
      BY <1>1, <2>4 DEF QueueOrder
    <3>1. n \in 1..N /\ IsAnswer(n) /\ s2c[n].id = handled[j]
      BY <2>4
    <3>2. CASE m = N + 1
      <4>1. k = L /\ j # L
        BY <2>4, <2>5, <2>6, <3>1, <3>2
      <4> QED BY <1>2, <2>1, <4>1
    <3>3. CASE m # N + 1
      <4>1. m \in 1..N /\ IsAnswer(m) /\ s2c[m].id = handled[k]
        BY <2>4, <3>3
      <4> QED BY <2>3, <3>1, <4>1 DEF OrderInv, QueueOrder
    <3> QED BY <3>2, <3>3
  <2>9. \A j \in 1..Len(handled) : Queued(j)' <=> Queued(j) \/ j = L
    <3> SUFFICES ASSUME NEW j \in 1..Len(handled)
                 PROVE  Queued(j)' <=> Queued(j) \/ j = L
      OBVIOUS
    <3>1. ASSUME Queued(j) PROVE Queued(j)'
      <4>1. PICK n \in 1..N : IsAnswer(n) /\ s2c[n].id = handled[j]
        BY <2>3, <3>1 DEF Queued
      <4>2. n \in 1..Len(s2c') /\ IsAnswer(n)' /\ s2c'[n].id = handled'[j]
        BY <1>1, <2>4, <4>1
      <4> QED BY <4>2 DEF Queued
    <3>2. ASSUME j = L PROVE Queued(j)'
      <4>1. N + 1 \in 1..Len(s2c') /\ IsAnswer(N + 1)' /\ s2c'[N + 1].id = handled'[j]
        BY <1>1, <2>4, <3>2
      <4> QED BY <4>1 DEF Queued
    <3>3. ASSUME Queued(j)' PROVE Queued(j) \/ j = L
      <4>1. PICK n \in 1..(N + 1) : IsAnswer(n)' /\ s2c'[n].id = handled[j]
        BY <1>1, <2>4, <3>3 DEF Queued
      <4>2. CASE n = N + 1
        BY <2>4, <2>5, <4>1, <4>2
      <4>3. CASE n \in 1..N
        BY <2>3, <2>4, <4>1, <4>3 DEF Queued
      <4> QED BY <2>4, <4>2, <4>3
    <3> QED BY <3>1, <3>2, <3>3
  <2>10. \A j \in 1..Len(handled) : Answered(j) \/ Queued(j) \/ j = L
    BY <1>5, <2>1 DEF OrderInv, LossOrder
  <2>11. LossOrder'
    <3>1. ASSUME NEW j \in 1..Len(handled), NEW k \in 1..Len(handled), j < k
          PROVE  /\ Answered(k)' => Answered(j)'
                 /\ Queued(k)' => Answered(j)' \/ Queued(j)'
      BY <1>3, <2>9, <2>10, <3>1 DEF OrderInv, LossOrder
    <3>2. \A j \in 1..Len(handled) : Answered(j)' \/ Queued(j)'
      BY <1>3, <2>9, <2>10
    <3> QED BY <1>1, <3>1, <3>2 DEF LossOrder
  <2> QED BY <2>7, <2>8, <2>11 DEF OrderInv
<1> QED BY <1>4, <1>5, ReplyFrame

LEMMA HandlerEndsOrder ==
  ASSUME TypeInv, IdsInv, SourceInv, OrderInv, HandlerEnds
  PROVE  OrderInv'
<1>1. /\ UNCHANGED <<pc, reqOf, pending, answer, handled>>
      /\ reply' = NoReply /\ ~open' /\ c2s' = <<>>
  BY DEF HandlerEnds, client
<1>2. /\ Len(s2c) \in Nat /\ Len(s2c') \in 0..Len(s2c)
      /\ \A n \in 1..Len(s2c') : n \in 1..Len(s2c) /\ s2c'[n] = s2c[n]
                                /\ (IsAnswer(n)' <=> IsAnswer(n))
  BY CutFrames DEF IsAnswer
<1>3. \A j : Answered(j)' <=> Answered(j)
  BY <1>1 DEF Answered
<1>4. PendingInv'
  BY <1>1, <1>2 DEF OrderInv, PendingInv
<1>5. QueueOrder'
  BY <1>1, <1>2 DEF OrderInv, QueueOrder
<1>6. ASSUME NEW j \in 1..Len(handled), NEW k \in 1..Len(handled), j < k, Queued(k)'
      PROVE  Answered(j) \/ Queued(j)'
  <2>1. PICK m \in 1..Len(s2c') : IsAnswer(m)' /\ s2c'[m].id = handled[k]
    BY <1>1, <1>6 DEF Queued
  <2>2. m \in 1..Len(s2c) /\ IsAnswer(m) /\ s2c[m].id = handled[k]
    BY <1>2, <2>1
  <2>3. Answered(j) \/ Queued(j)
    BY <1>6, <2>2 DEF OrderInv, LossOrder, Queued
  <2>4. ASSUME Queued(j) PROVE Queued(j)'
    <3>1. PICK n \in 1..Len(s2c) : IsAnswer(n) /\ s2c[n].id = handled[j]
      BY <2>4 DEF Queued
    <3>2. Len(handled) \in Nat
      BY FrameTypes
    <3>3. n # m
      BY <1>6, <2>2, <3>1, <3>2 DEF IdsInv, Distinct
    <3>4. ~(m < n)
      <4>1. m < n => k < j
        BY <2>2, <3>1 DEF OrderInv, QueueOrder
      <4> QED BY <1>6, <3>2, <4>1
    <3>5. n \in 1..Len(s2c')
      BY <1>2, <3>3, <3>4
    <3> QED BY <1>1, <1>2, <3>1, <3>5 DEF Queued
  <2> QED BY <2>3, <2>4
<1>7. LossOrder'
  BY <1>1, <1>3, <1>6 DEF OrderInv, LossOrder
<1> QED BY <1>4, <1>5, <1>7 DEF OrderInv

LEMMA OrderStep ==
  ASSUME TypeInv, StreamType, IdsInv, SourceInv, OrderInv, [Next]_vars
  PROVE  OrderInv'
<1> USE DEF link, wires, server, client, Goto
<1>1. CASE UNCHANGED <<pc, reqOf, pending, answer, c2s, s2c, handled, reply, open, writer>>
  BY <1>1 DEF OrderInv, PendingInv, QueueOrder, LossOrder, Answered, Queued, IsAnswer
<1>2. ASSUME NEW c \in Callers, Begin(c) \/ RegisterWatcher(c) \/ DispatchFails(c) \/ Receive(c)
      PROVE  OrderInv'
  <2>1. /\ UNCHANGED <<pending, answer, c2s, s2c, handled, reply, open, writer>>
        /\ \A d \in Callers : pc'[d] = "send" => pc[d] = "send" /\ reqOf'[d] = reqOf[d]
    BY <1>2 DEF Begin, RegisterWatcher, DispatchFails, Receive, Finish, TypeInv
  <2> QED BY <2>1 DEF OrderInv, PendingInv, QueueOrder, LossOrder, Answered, Queued, IsAnswer
<1>3. ASSUME NEW c \in Callers, InsertPending(c)
      PROVE  OrderInv'
  <2>1. /\ UNCHANGED <<reqOf, c2s, s2c, handled, reply, open, writer>>
        /\ pending' = pending \cup {reqOf[c]}
        /\ \A d \in Callers : pc'[d] = "send" => pc[d] = "send" \/ d = c
        /\ reqOf[c] \in ReqIds /\ ~Has(handled, reqOf[c])
    BY <1>3 DEF InsertPending, TypeInv, IdsInv, Unsent
  <2>2. \A j \in 1..Len(handled) : answer'[handled[j]] = answer[handled[j]]
    <3>1. \A j \in 1..Len(handled) : handled[j] \in ReqIds /\ handled[j] # reqOf[c]
      BY <2>1, FrameTypes DEF Has
    <3> QED BY <1>3, <3>1 DEF InsertPending, TypeInv
  <2>3. PendingInv' /\ QueueOrder'
    BY <2>1 DEF OrderInv, PendingInv, QueueOrder, IsAnswer
  <2>4. \A j : Queued(j)' <=> Queued(j)
    BY <2>1 DEF Queued, IsAnswer
  <2> QED BY <2>1, <2>2, <2>3, <2>4, SameOrder
<1>4. ASSUME NEW c \in Callers, Dispatch(c)
      PROVE  OrderInv'
  <2>1. /\ UNCHANGED <<reqOf, pending, answer, s2c, handled, reply, open, writer>>
        /\ reqOf[c] \in ReqIds /\ reqOf[c] \in pending
        /\ \A d \in Callers : pc'[d] = "send" => pc[d] = "send"
    BY <1>4 DEF Dispatch, TypeInv, IdsInv, OrderInv, PendingInv
  <2>2. /\ Len(c2s) \in Nat /\ Len(c2s') = Len(c2s) + 1
        /\ \A k \in 1..Len(c2s) : c2s'[k] = c2s[k]
        /\ c2s'[Len(c2s) + 1] = reqOf[c]
    BY <1>4, <2>1, AppendAt DEF Dispatch, TypeInv
  <2>3. PendingInv'
    BY <2>1, <2>2 DEF OrderInv, PendingInv, IsAnswer
  <2> QED BY <2>1, <2>3 DEF OrderInv, QueueOrder, LossOrder, Answered, Queued, IsAnswer
<1>5. CASE ReadAnswer
  BY <1>5, ReadAnswerOrder
<1>6. CASE ReadEvent
  BY <1>6, ReadEventOrder
<1>7. ASSUME NEW i \in ReqIds, Handle(i)
      PROVE  OrderInv'
  BY <1>7, HandleOrder
<1>8. CASE SendReply
  BY <1>8, SendReplyOrder
<1>9. CASE SendFails \/ Break
  BY <1>9, HandlerEndsOrder DEF SendFails, Break
<1>10. CASE WriterEnds
  <2>1. /\ UNCHANGED <<pc, reqOf, pending, answer, c2s, s2c, handled, reply, open>>
        /\ writer' # "alive"
    BY <1>10 DEF WriterEnds
  <2>2. PendingInv' /\ QueueOrder'
    BY <2>1 DEF OrderInv, PendingInv, QueueOrder, IsAnswer
  <2>3. LossOrder'
    BY <2>1 DEF OrderInv, LossOrder, Answered, Queued, IsAnswer
  <2> QED BY <2>2, <2>3 DEF OrderInv
<1>11. ASSUME NEW i \in ReqIds, WatchSend(i)
       PROVE  OrderInv'
  BY <1>11, WatchSendOrder
<1>12. CASE WriteLost \/ RequestRefused
  <2>1. /\ UNCHANGED <<pc, reqOf, pending, answer, s2c, handled, reply, open, writer>>
        /\ Loses(c2s, c2s')
    BY <1>12, LoseShape
  <2>2. \A k \in 1..Len(c2s') : c2s'[k] \in pending
    <3>1. \A y : Has(c2s, y) => y \in pending
      BY DEF OrderInv, PendingInv, Has
    <3>2. \A k \in 1..Len(c2s') : Has(c2s, c2s'[k])
      BY <2>1, LoseAt
    <3> QED BY <3>1, <3>2
  <2>3. PendingInv'
    BY <2>1, <2>2 DEF OrderInv, PendingInv, IsAnswer
  <2>4. QueueOrder' /\ LossOrder'
    BY <2>1 DEF OrderInv, QueueOrder, LossOrder, Answered, Queued, IsAnswer
  <2> QED BY <2>3, <2>4 DEF OrderInv
<1>13. CASE Quiet
  BY <1>1, <1>13 DEF Quiet
<1> QED BY <1>2, <1>3, <1>4, <1>5, <1>6, <1>7, <1>8, <1>9, <1>10, <1>11, <1>12, <1>13, QuietSteps
        DEF Next, CallStep, ReadStep, HandlerStep, WatchStep

-----------------------------------------------------------------------------
(* The events of a stream.                                                 *)

LEMMA StreamInit == Init => StreamInv
BY DEF Init, StreamInv, GotInv, PushInv, FrameInv, SubInv, NoSub

\* Stream i when nothing that concerns it changes but that more may be owed to it.
LEMMA StreamSame ==
  ASSUME NEW i \in ReqIds, GotInv(i), PushInv(i), FrameInv(i), SubInv(i),
         \A e : Owed(i, e) => Owed(i, e)',
         got'[i] = got[i], subs'[i] = subs[i], UNCHANGED <<s2c, readTask, pushing>>,
         request'[i] = request[i] \/ subs[i].pos = 0
  PROVE  (GotInv(i) /\ PushInv(i) /\ FrameInv(i) /\ SubInv(i))'
<1>1. \A n : IsEvent(n, i)' <=> IsEvent(n, i)
  BY DEF IsEvent
<1>2. \A e : Ahead(i, e)' <=> Ahead(i, e)
  BY <1>1 DEF Ahead
<1>3. GotInv(i)'
  BY <1>2 DEF GotInv
<1>4. PushInv(i)'
  BY <1>2 DEF PushInv
<1>5. FrameInv(i)'
  BY <1>1 DEF FrameInv
<1>6. SubInv(i)'
  BY DEF SubInv, NoSub
<1> QED BY <1>3, <1>4, <1>5, <1>6

\* More events make no difference to those there were.
LEMMA OwedEmit ==
  ASSUME StreamType, NEW p \in Topics, events' = Append(events, p),
         UNCHANGED <<subs, request>>, NEW i \in ReqIds, NEW e, Owed(i, e)
  PROVE  Owed(i, e)'
<1>1. /\ Len(events) \in Nat /\ Len(events') = Len(events) + 1
      /\ \A k \in 1..Len(events) : events'[k] = events[k]
  BY AppendAt DEF StreamType
<1> QED BY <1>1 DEF Owed

LEMMA ReadEventStream ==
  ASSUME TypeInv, StreamType, StreamInv, ReadEvent, NEW i \in ReqIds
  PROVE  (GotInv(i) /\ PushInv(i) /\ FrameInv(i) /\ SubInv(i))'
<1>1. /\ Len(s2c) \in Nat \ {0} /\ Len(s2c') = Len(s2c) - 1 /\ Head(s2c) = s2c[1]
      /\ \A n \in 1..Len(s2c') : s2c'[n] = s2c[n + 1]
      /\ readTask = "read" /\ UNCHANGED <<got, subs, events, request>>
  BY ReadFrame DEF ReadEvent, server
<1>2. \A n \in 1..Len(s2c') : n + 1 \in 1..Len(s2c) /\ (IsEvent(n, i)' <=> IsEvent(n + 1, i))
  BY <1>1 DEF IsEvent
<1>3. GotInv(i) /\ FrameInv(i) /\ SubInv(i)
  BY DEF StreamInv
<1>4. \A e : Owed(i, e)' <=> Owed(i, e)
  BY <1>1 DEF Owed
<1>5. \A e : Ahead(i, e) => Ahead(i, e)'
  BY <1>1, <1>2 DEF Ahead
<1>6. ASSUME readTask' = "push", pushing'.id = i
      PROVE  IsEvent(1, i) /\ pushing'.event = s2c[1].event
  BY <1>1, <1>6 DEF ReadEvent, IsEvent
<1>7. PushInv(i)'
  <2> SUFFICES ASSUME readTask' = "push", pushing'.id = i
               PROVE  Owed(i, pushing.event)' /\ Ahead(i, pushing.event)'
    BY DEF PushInv
  <2>1. Owed(i, pushing.event)'
    BY <1>1, <1>3, <1>4, <1>6 DEF FrameInv
  <2>2. PICK e : e = s2c[1].event
    OBVIOUS
  <2>3. \A n \in 1..Len(s2c') : IsEvent(n, i)' => e < s2c'[n].event
    <3> SUFFICES ASSUME NEW n \in 1..Len(s2c'), IsEvent(n, i)'
                 PROVE  e < s2c'[n].event
      OBVIOUS
    <3>1. n + 1 \in 1..Len(s2c) /\ 1 \in 1..Len(s2c) /\ 1 < n + 1 /\ IsEvent(n + 1, i)
      BY <1>1, <1>2
    <3> QED BY <1>1, <1>3, <1>6, <2>2, <3>1 DEF FrameInv
  <2>4. subs[i].held # 0 => e < subs[i].held
    BY <1>1, <1>3, <1>6, <2>2 DEF FrameInv
  <2>5. Ahead(i, e)'
    BY <1>1, <2>3, <2>4 DEF Ahead
  <2> QED BY <1>6, <2>1, <2>2, <2>5
<1>8. GotInv(i)'
  <2> SUFFICES ASSUME NEW k \in 1..Len(got[i])
               PROVE  /\ Owed(i, got[i][k])' /\ Ahead(i, got[i][k])'
                      /\ \A j \in 1..Len(got[i]) : j < k => got[i][j] < got[i][k]
                      /\ readTask' = "push" /\ pushing'.id = i => got[i][k] < pushing'.event
    BY <1>1 DEF GotInv
  <2>1. /\ Owed(i, got[i][k]) /\ Ahead(i, got[i][k])
        /\ \A j \in 1..Len(got[i]) : j < k => got[i][j] < got[i][k]
    BY <1>3 DEF GotInv
  <2>2. readTask' = "push" /\ pushing'.id = i => got[i][k] < pushing'.event
    BY <1>1, <1>6, <2>1 DEF Ahead
  <2> QED BY <1>1, <1>4, <1>5, <2>1, <2>2
<1>9. FrameInv(i)'
  <2> SUFFICES ASSUME NEW n \in 1..Len(s2c'), IsEvent(n, i)'
               PROVE  /\ Owed(i, s2c[n].event)'
                      /\ \A m \in 1..Len(s2c') :
                           n < m /\ IsEvent(m, i)' => s2c'[n].event < s2c'[m].event
                      /\ subs[i].held # 0 => s2c'[n].event < subs[i].held
    BY <1>1 DEF FrameInv
  <2>1. n + 1 \in 1..Len(s2c) /\ IsEvent(n + 1, i) /\ s2c'[n] = s2c[n + 1]
    BY <1>1, <1>2
  <2>2. Owed(i, s2c[n].event)' /\ (subs[i].held # 0 => s2c'[n].event < subs[i].held)
    BY <1>3, <1>4, <2>1 DEF FrameInv
  <2>3. ASSUME NEW m \in 1..Len(s2c'), n < m, IsEvent(m, i)'
        PROVE  s2c'[n].event < s2c'[m].event
    <3>1. m + 1 \in 1..Len(s2c) /\ IsEvent(m + 1, i) /\ s2c'[m] = s2c[m + 1] /\ n + 1 < m + 1
      BY <1>1, <1>2, <2>3
    <3> QED BY <1>3, <2>1, <3>1 DEF FrameInv
  <2> QED BY <2>2, <2>3
<1>10. SubInv(i)'
  BY <1>1, <1>3, <1>4 DEF SubInv, NoSub
<1> QED BY <1>7, <1>8, <1>9, <1>10

\* An answer is read, or put into the queue, or the queue is cut.
LEMMA AnswerStream ==
  ASSUME TypeInv, StreamType, StreamInv, NEW i \in ReqIds,
         ReadAnswer \/ SendReply \/ SendFails \/ Break
  PROVE  (GotInv(i) /\ PushInv(i) /\ FrameInv(i) /\ SubInv(i))'
<1>1. UNCHANGED <<got, subs, events, request, readTask, pushing>>
  BY DEF ReadAnswer, SendReply, SendFails, Break, HandlerEnds, server, client
<1>2. GotInv(i) /\ PushInv(i) /\ FrameInv(i) /\ SubInv(i)
  BY DEF StreamInv
<1>3. \A e : Owed(i, e)' <=> Owed(i, e)
  BY <1>1 DEF Owed
\* The event frames that are left were there before, in the same order.
<1>4. PICK d \in {0, 1} : \A n \in 1..Len(s2c') : IsEvent(n, i)' =>
        n \in Nat /\ n + d \in 1..Len(s2c) /\ IsEvent(n + d, i) /\ s2c'[n] = s2c[n + d]
  <2>1. CASE ReadAnswer
    <3>1. /\ Len(s2c) \in Nat \ {0} /\ Len(s2c') = Len(s2c) - 1
          /\ \A n \in 1..Len(s2c') : s2c'[n] = s2c[n + 1]
      BY <2>1, ReadFrame
    <3>2. \A n \in 1..Len(s2c') : IsEvent(n, i)' =>
            n \in Nat /\ n + 1 \in 1..Len(s2c) /\ IsEvent(n + 1, i) /\ s2c'[n] = s2c[n + 1]
      BY <3>1 DEF IsEvent
    <3> QED BY <3>2
  <2>2. CASE SendReply \/ SendFails \/ Break
    <3>1. \A n \in 1..Len(s2c') : IsEvent(n, i)' =>
            n \in Nat /\ n \in 1..Len(s2c) /\ s2c'[n] = s2c[n]
      <4>1. CASE UNCHANGED s2c
        BY <4>1
      <4>2. CASE \E f \in Frames : Adds(f) /\ f.body \in Bodies
        BY <4>2 DEF Adds, IsEvent, Bodies, Errors
      <4>3. CASE HandlerEnds
        BY <4>3, CutFrames
      <4> QED BY <2>2, <4>1, <4>2, <4>3, ReplyFrame DEF SendFails, Break
    <3>2. \A n \in 1..Len(s2c') : IsEvent(n, i)' =>
            n \in Nat /\ n + 0 \in 1..Len(s2c) /\ IsEvent(n + 0, i) /\ s2c'[n] = s2c[n + 0]
      BY <3>1 DEF IsEvent
    <3> QED BY <3>2
  <2> QED BY <2>1, <2>2
<1>5. \A e : Ahead(i, e) => Ahead(i, e)'
  BY <1>1, <1>4 DEF Ahead
<1>6. GotInv(i)' /\ PushInv(i)'
  BY <1>1, <1>2, <1>3, <1>5 DEF GotInv, PushInv
<1>7. FrameInv(i)'
  <2> SUFFICES ASSUME NEW n \in 1..Len(s2c'), IsEvent(n, i)'
               PROVE  /\ Owed(i, s2c[n].event)'
                      /\ \A m \in 1..Len(s2c') :
                           n < m /\ IsEvent(m, i)' => s2c'[n].event < s2c'[m].event
                      /\ subs[i].held # 0 => s2c'[n].event < subs[i].held
    BY <1>1 DEF FrameInv
  <2>1. n + d \in 1..Len(s2c) /\ IsEvent(n + d, i) /\ s2c'[n] = s2c[n + d]
    BY <1>4
  <2>2. Owed(i, s2c[n].event)' /\ (subs[i].held # 0 => s2c'[n].event < subs[i].held)
    BY <1>2, <1>3, <2>1 DEF FrameInv
  <2>3. ASSUME NEW m \in 1..Len(s2c'), n < m, IsEvent(m, i)'
        PROVE  s2c'[n].event < s2c'[m].event
    <3>1. m + d \in 1..Len(s2c) /\ IsEvent(m + d, i) /\ s2c'[m] = s2c[m + d] /\ n + d < m + d
      BY <1>4, <2>3
    <3> QED BY <1>2, <2>1, <3>1 DEF FrameInv
  <2> QED BY <2>2, <2>3
<1>8. SubInv(i)'
  BY <1>1, <1>2, <1>3 DEF SubInv, NoSub
<1> QED BY <1>6, <1>7, <1>8

LEMMA PushStream ==
  ASSUME TypeInv, StreamType, StreamInv, Push, NEW i \in ReqIds
  PROVE  (GotInv(i) /\ PushInv(i) /\ FrameInv(i) /\ SubInv(i))'
<1>1. /\ UNCHANGED <<subs, events, request, s2c>> /\ readTask = "push" /\ readTask' = "read"
      /\ pushing.id \in ReqIds /\ pushing.event \in Nat
  BY DEF Push, server, wires, StreamType
<1>2. GotInv(i) /\ PushInv(i) /\ FrameInv(i) /\ SubInv(i)
  BY DEF StreamInv
<1>3. \A e : (Owed(i, e)' <=> Owed(i, e)) /\ (Ahead(i, e)' <=> Ahead(i, e))
  BY <1>1 DEF Owed, Ahead, IsEvent
<1>4. PushInv(i)' /\ FrameInv(i)' /\ SubInv(i)'
  <2>1. \A n : IsEvent(n, i)' <=> IsEvent(n, i)
    BY <1>1 DEF IsEvent
  <2> QED BY <1>1, <1>2, <1>3, <2>1 DEF PushInv, FrameInv, SubInv, NoSub
<1>5. GotInv(i)'
  <2>1. CASE got'[i] = got[i]
    BY <1>1, <1>2, <1>3, <2>1 DEF GotInv
  <2>2. CASE pushing.id = i /\ got'[i] = Append(got[i], pushing.event)
    <3>1. /\ Len(got[i]) \in Nat /\ Len(got'[i]) = Len(got[i]) + 1
          /\ \A k \in 1..Len(got[i]) : got'[i][k] = got[i][k]
          /\ got'[i][Len(got[i]) + 1] = pushing.event
      BY <1>1, <2>2, AppendAt DEF StreamType
    <3>2. Owed(i, pushing.event) /\ Ahead(i, pushing.event)
      BY <1>1, <1>2, <2>2 DEF PushInv
    <3>3. \A k \in 1..Len(got[i]) : got[i][k] < pushing.event
      BY <1>1, <1>2, <2>2 DEF GotInv
    <3> SUFFICES ASSUME NEW k \in 1..Len(got'[i])
                 PROVE  /\ Owed(i, got[i][k])' /\ Ahead(i, got[i][k])'
                        /\ \A j \in 1..Len(got'[i]) : j < k => got'[i][j] < got'[i][k]
      BY <1>1 DEF GotInv
    <3>4. PICK e : e = got'[i][k]
      OBVIOUS
    <3>5. CASE k = Len(got[i]) + 1
      <4>1. e = pushing.event
        BY <3>1, <3>4, <3>5
      <4>2. Owed(i, e)' /\ Ahead(i, e)'
        BY <1>3, <3>2, <4>1
      <4>3. \A j \in 1..Len(got'[i]) : j < k => got'[i][j] < e
        BY <3>1, <3>3, <3>5, <4>1
      <4> QED BY <3>4, <4>2, <4>3
    <3>6. CASE k # Len(got[i]) + 1
      <4>1. k \in 1..Len(got[i]) /\ e = got[i][k]
        BY <3>1, <3>4, <3>6
      <4>2. Owed(i, e)' /\ Ahead(i, e)'
        BY <1>2, <1>3, <4>1 DEF GotInv
      <4>3. \A j \in 1..Len(got'[i]) : j < k => got'[i][j] < e
        <5> SUFFICES ASSUME NEW j \in 1..Len(got'[i]), j < k
                     PROVE  got'[i][j] < e
          OBVIOUS
        <5>1. j \in 1..Len(got[i]) /\ got'[i][j] = got[i][j]
          BY <3>1, <4>1
        <5> QED BY <1>2, <4>1, <5>1 DEF GotInv
      <4> QED BY <3>4, <4>2, <4>3
    <3> QED BY <3>5, <3>6
  <2> QED BY <1>1, <2>1, <2>2 DEF Push, StreamType
<1> QED BY <1>4, <1>5

\* A subscription begins: nothing was owed to its stream before.
LEMMA HandleWatchStream ==
  ASSUME TypeInv, StreamType, IdsInv, SourceInv, StreamInv,
         NEW w \in ReqIds, HandleWatch(w), NEW i \in ReqIds
  PROVE  (GotInv(i) /\ PushInv(i) /\ FrameInv(i) /\ SubInv(i))'
<1>1. UNCHANGED <<got, events, request, s2c, readTask, pushing>>
  BY DEF HandleWatch, client
<1>2. GotInv(i) /\ PushInv(i) /\ FrameInv(i) /\ SubInv(i)
  BY DEF StreamInv
<1>3. CASE i # w
  <2>1. subs'[i] = subs[i]
    BY <1>3 DEF HandleWatch, StreamType
  <2>2. \A e : Owed(i, e)' <=> Owed(i, e)
    BY <1>1, <2>1 DEF Owed
  <2> QED BY <1>1, <1>2, <2>1, <2>2, StreamSame
<1>4. CASE i = w
  <2>1. subs[i] = NoSub
    <3>1. c2s # <<>> /\ Head(c2s) = i
      BY <1>4 DEF HandleWatch, Take
    <3>2. Len(c2s) \in Nat \ {0} /\ c2s[1] = i
      BY <3>1, TailAt DEF TypeInv
    <3>3. ~Has(handled, i)
      BY <3>2 DEF IdsInv
    <3> QED BY <3>3 DEF SourceInv
  <2>2. \A e : ~Owed(i, e)
    BY <2>1, LenProperties DEF Owed, NoSub, StreamType
  <2>3. /\ Len(got[i]) \in Nat /\ 1..Len(got[i]) = {}
        /\ ~(readTask = "push" /\ pushing.id = i)
        /\ \A n \in 1..Len(s2c) : ~IsEvent(n, i)
    BY <1>2, <2>2, LenProperties DEF GotInv, PushInv, FrameInv, StreamType
  <2>4. subs'[i] = [alive |-> TRUE, topic |-> request[i].topic, start |-> Len(events) + 1,
                    pos |-> Len(events) + 1, held |-> 0, missed |-> {}]
    BY <1>4 DEF HandleWatch, StartPos, StreamType
  <2>5. Len(events) \in Nat
    BY LenProperties DEF StreamType
  <2>6. SubInv(i)'
    BY <1>1, <2>4, <2>5 DEF SubInv
  <2>7. \A n \in 1..Len(s2c') : ~IsEvent(n, i)'
    BY <1>1, <2>3 DEF IsEvent
  <2> QED BY <1>1, <2>3, <2>6, <2>7 DEF GotInv, PushInv, FrameInv
<1> QED BY <1>3, <1>4

LEMMA WatchRecvStream ==
  ASSUME TypeInv, StreamType, StreamInv, NEW w \in ReqIds, WatchRecv(w), NEW i \in ReqIds
  PROVE  (GotInv(i) /\ PushInv(i) /\ FrameInv(i) /\ SubInv(i))'
<1>1. UNCHANGED <<got, events, request, s2c, readTask, pushing>>
  BY DEF WatchRecv, client, wires
<1>2. GotInv(i) /\ PushInv(i) /\ FrameInv(i) /\ SubInv(i)
  BY DEF StreamInv
<1>3. CASE i # w
  <2>1. subs'[i] = subs[i]
    BY <1>3 DEF WatchRecv, StreamType
  <2>2. \A e : Owed(i, e)' <=> Owed(i, e)
    BY <1>1, <2>1 DEF Owed
  <2> QED BY <1>1, <1>2, <2>1, <2>2, StreamSame
<1>4. CASE i = w
  <2>1. PICK s, t : s = subs[i] /\ t = subs'[i]
    OBVIOUS
  <2>2. /\ s \in SubType /\ s.alive /\ s.held = 0 /\ s.pos <= Len(events)
        /\ Len(events) \in Nat /\ s.pos \in Nat /\ s.start \in Nat /\ s # NoSub
    BY <1>4, <2>1, LenProperties DEF WatchRecv, StreamType, SubType, NoSub
  <2>3. s.pos # 0 /\ s.start > 0 /\ s.start <= s.pos /\ s.topic = request[i].topic
    BY <1>2, <2>1, <2>2 DEF SubInv
  <2>4. Oldest \in Nat
    BY <2>2, CapsType DEF Oldest
  <2>5. /\ t.start = s.start /\ t.topic = s.topic /\ t.pos \in Nat /\ s.pos < t.pos
        /\ t.held # 0 => /\ t.held = s.pos /\ events[s.pos] = s.topic
                         /\ s.start <= s.pos
    <3>1. CASE s.pos < Oldest
      <4>1. t = [s EXCEPT !.pos = Oldest, !.missed = @ \cup (s.pos..(Oldest - 1))]
        BY <1>4, <2>1, <3>1 DEF WatchRecv, StreamType
      <4> QED BY <2>2, <2>3, <2>4, <3>1, <4>1 DEF SubType
    <3>2. CASE ~(s.pos < Oldest)
      <4>1. t = [s EXCEPT !.pos = @ + 1,
                          !.held = IF events[s.pos] = s.topic THEN s.pos ELSE 0]
        BY <1>4, <2>1, <3>2 DEF WatchRecv, StreamType
      <4>2. t.start = s.start /\ t.topic = s.topic /\ t.pos = s.pos + 1
            /\ t.held = IF events[s.pos] = s.topic THEN s.pos ELSE 0
        BY <2>2, <4>1 DEF SubType
      <4> QED BY <2>2, <2>3, <4>2
    <3> QED BY <3>1, <3>2
  <2>6. \A e : Owed(i, e) => Owed(i, e)' /\ e < s.pos /\ e \in Nat
    BY <1>1, <2>1, <2>2, <2>5 DEF Owed
  <2>7. t.held # 0 => Owed(i, t.held)'
    BY <1>1, <2>1, <2>2, <2>3, <2>5 DEF Owed
  <2>8. SubInv(i)'
    <3>1. t.pos # 0 /\ t.start > 0 /\ t.start <= t.pos /\ t.topic = request[i].topic
      BY <2>2, <2>3, <2>5
    <3>2. subs'[i].held # 0 => Owed(i, subs[i].held)'
      BY <2>1, <2>7
    <3> QED BY <1>1, <2>1, <3>1, <3>2 DEF SubInv
  <2>9. \A n : IsEvent(n, i)' <=> IsEvent(n, i)
    BY <1>1 DEF IsEvent
  <2>10. \A e : Owed(i, e) /\ Ahead(i, e) => Ahead(i, e)'
    BY <1>1, <2>1, <2>5, <2>6, <2>9 DEF Ahead
  <2>11. FrameInv(i)'
    <3> SUFFICES ASSUME NEW n \in 1..Len(s2c), IsEvent(n, i)
                 PROVE  /\ Owed(i, s2c[n].event)'
                        /\ \A m \in 1..Len(s2c) :
                             n < m /\ IsEvent(m, i) => s2c[n].event < s2c[m].event
                        /\ t.held # 0 => s2c[n].event < t.held
      BY <1>1, <2>1, <2>9 DEF FrameInv
    <3>1. PICK e : e = s2c[n].event
      OBVIOUS
    <3>2. Owed(i, e) /\ \A m \in 1..Len(s2c) : n < m /\ IsEvent(m, i) => e < s2c[m].event
      BY <1>2, <3>1 DEF FrameInv
    <3>3. Owed(i, e)' /\ (t.held # 0 => e < t.held)
      BY <2>5, <2>6, <3>2
    <3> QED BY <1>1, <3>1, <3>2, <3>3
  <2> QED BY <1>1, <1>2, <2>6, <2>8, <2>10, <2>11 DEF GotInv, PushInv
<1> QED BY <1>3, <1>4

\* What is held for a stream is queued behind the rest, or dropped.
LEMMA WatchSendStream ==
  ASSUME TypeInv, StreamType, StreamInv, NEW w \in ReqIds, WatchSend(w), NEW i \in ReqIds
  PROVE  (GotInv(i) /\ PushInv(i) /\ FrameInv(i) /\ SubInv(i))'
<1>1. UNCHANGED <<got, events, request, readTask, pushing>>
  BY DEF WatchSend, client
<1>2. GotInv(i) /\ PushInv(i) /\ FrameInv(i) /\ SubInv(i)
  BY DEF StreamInv
<1>3. /\ subs[i] \in SubType /\ subs'[i].start = subs[i].start /\ subs'[i].pos = subs[i].pos
      /\ subs'[i].topic = subs[i].topic /\ subs'[i].held \in {0, subs[i].held}
      /\ i # w => subs'[i] = subs[i]
      /\ subs[w].held # 0 /\ subs[w].held \in Nat
  BY DEF WatchSend, StreamType, SubType
<1>4. \A e : Owed(i, e)' <=> Owed(i, e)
  BY <1>1, <1>3 DEF Owed
<1>5. SubInv(i)'
  <2>1. subs[i].held # 0 => Owed(i, subs[i].held)
    BY <1>2 DEF SubInv
  <2>2. PICK h : h = subs'[i].held
    OBVIOUS
  <2>3. h # 0 => Owed(i, h)'
    BY <1>3, <1>4, <2>1, <2>2
  <2>4. subs[i].pos = 0 => subs'[i] = NoSub
    <3>1. subs[i].pos = 0 => subs[i] = NoSub /\ i # w
      BY <1>2, <1>3 DEF SubInv, NoSub
    <3> QED BY <1>3, <3>1
  <2> QED BY <1>1, <1>2, <1>3, <2>2, <2>3, <2>4 DEF SubInv
<1>6. CASE UNCHANGED s2c
  <2>1. \A n : IsEvent(n, i)' <=> IsEvent(n, i)
    BY <1>6 DEF IsEvent
  <2>2. \A e : Ahead(i, e) => Ahead(i, e)'
    BY <1>3, <1>6, <2>1 DEF Ahead
  <2>3. GotInv(i)' /\ PushInv(i)'
    BY <1>1, <1>2, <1>4, <2>2 DEF GotInv, PushInv
  <2>4. FrameInv(i)'
    BY <1>2, <1>3, <1>4, <1>6, <2>1 DEF FrameInv
  <2> QED BY <1>5, <2>3, <2>4
<1>7. CASE /\ subs' = [subs EXCEPT ![w].held = 0]
           /\ \E f \in Frames : /\ Adds(f)
                                /\ f.id = w /\ f.body = "event" /\ f.event = subs[w].held
  <2>1. PICK N, h : N = Len(s2c) /\ h = subs[w].held
    OBVIOUS
  <2>2. /\ N \in Nat /\ Len(s2c') = N + 1
        /\ \A n \in 1..N : s2c'[n] = s2c[n] /\ (IsEvent(n, i)' <=> IsEvent(n, i))
        /\ IsEvent(N + 1, i)' <=> i = w
        /\ s2c'[N + 1].event = h
    BY <1>7, <2>1 DEF Adds, IsEvent
  <2>3. i = w => Owed(i, h) /\ h # 0 /\ subs'[i].held = 0
    BY <1>2, <1>3, <1>7, <2>1 DEF SubInv, StreamType, SubType
  <2>4. i # w => subs'[i].held = subs[i].held
    BY <1>3
  <2>5. \A e : Ahead(i, e) => Ahead(i, e)'
    BY <2>1, <2>2, <2>3, <2>4 DEF Ahead
  <2>6. GotInv(i)' /\ PushInv(i)'
    BY <1>1, <1>2, <1>4, <2>5 DEF GotInv, PushInv
  <2>7. FrameInv(i)'
    <3> SUFFICES ASSUME NEW n \in 1..(N + 1), IsEvent(n, i)'
                 PROVE  /\ Owed(i, s2c[n].event)'
                        /\ \A m \in 1..(N + 1) :
                             n < m /\ IsEvent(m, i)' => s2c'[n].event < s2c'[m].event
                        /\ subs'[i].held # 0 => s2c'[n].event < subs'[i].held
      BY <2>2 DEF FrameInv
    <3>1. PICK e : e = s2c'[n].event
      OBVIOUS
    <3>2. CASE n = N + 1
      <4>1. e = h /\ i = w
        BY <2>2, <3>1, <3>2
      <4>2. Owed(i, e)' /\ subs'[i].held = 0
        BY <1>4, <2>3, <4>1
      <4>3. \A m \in 1..(N + 1) : ~(n < m)
        BY <2>2, <3>2
      <4> QED BY <3>1, <4>2, <4>3
    <3>3. CASE n # N + 1
      <4>1. n \in 1..N /\ IsEvent(n, i) /\ s2c'[n] = s2c[n]
        BY <2>2, <3>3
      <4>2. /\ Owed(i, e) /\ \A m \in 1..N : n < m /\ IsEvent(m, i) => e < s2c[m].event
            /\ subs[i].held # 0 => e < subs[i].held
        BY <1>2, <2>1, <3>1, <4>1 DEF FrameInv
      <4>3. Owed(i, e)' /\ (subs'[i].held # 0 => e < subs'[i].held)
        BY <1>4, <2>3, <2>4, <4>2
      <4>4. ASSUME NEW m \in 1..(N + 1), n < m, IsEvent(m, i)'
            PROVE  e < s2c'[m].event
        <5>1. CASE m = N + 1
          BY <2>1, <2>2, <2>3, <4>2, <4>4, <5>1
        <5>2. CASE m # N + 1
          <6>1. m \in 1..N
            BY <2>2, <5>2
          <6> QED BY <2>2, <4>2, <4>4, <6>1
        <5> QED BY <5>1, <5>2
      <4> QED BY <3>1, <4>3, <4>4
    <3> QED BY <3>2, <3>3
  <2> QED BY <1>5, <2>6, <2>7
<1> QED BY <1>6, <1>7, EventFrame
LEMMA StreamStep ==
  ASSUME TypeInv, StreamType, IdsInv, SourceInv, StreamInv, [Next]_vars
  PROVE  StreamInv'
<1> SUFFICES ASSUME NEW i \in ReqIds
             PROVE  (GotInv(i) /\ PushInv(i) /\ FrameInv(i) /\ SubInv(i))'
  BY DEF StreamInv
<1> USE DEF link, wires, server, client, Goto
<1>1. GotInv(i) /\ PushInv(i) /\ FrameInv(i) /\ SubInv(i)
  BY DEF StreamInv
<1>2. CASE UNCHANGED <<got, subs, events, request, s2c, readTask, pushing>>
  <2>1. \A e : Owed(i, e) => Owed(i, e)'
    BY <1>2 DEF Owed
  <2> QED BY <1>1, <1>2, <2>1, StreamSame
<1>3. ASSUME NEW c \in Callers, Begin(c)
      PROVE  (GotInv(i) /\ PushInv(i) /\ FrameInv(i) /\ SubInv(i))'
  <2>1. UNCHANGED <<got, subs, events, s2c, readTask, pushing>>
    BY <1>3 DEF Begin
  <2>2. request'[i] = request[i] \/ i = next_req_id
    BY <1>3 DEF Begin, TypeInv
  <2>3. i = next_req_id => subs[i].pos = 0
    <3>1. i = next_req_id => ~Has(handled, i)
      BY DEF IdsInv, Has, TypeInv
    <3> QED BY <3>1 DEF SourceInv, NoSub
  <2>4. ASSUME NEW e, Owed(i, e) PROVE Owed(i, e)'
    <3>1. subs[i].pos # 0
      BY <2>4, LenProperties DEF Owed, StreamType
    <3> QED BY <2>1, <2>2, <2>3, <2>4, <3>1 DEF Owed
  <2> QED BY <1>1, <2>1, <2>2, <2>3, <2>4, StreamSame
<1>4. CASE /\ UNCHANGED <<got, subs, request, s2c, readTask, pushing>>
           /\ \E p \in Topics : events' = Append(events, p)
  <2>1. \A e : Owed(i, e) => Owed(i, e)'
    BY <1>4, OwedEmit
  <2> QED BY <1>1, <1>4, <2>1, StreamSame
<1>5. CASE ReadEnd
  <2>1. UNCHANGED <<got, subs, events, request, s2c, pushing>> /\ readTask' # "push"
    BY <1>5 DEF ReadEnd
  <2>2. \A n : IsEvent(n, i)' <=> IsEvent(n, i)
    BY <2>1 DEF IsEvent
  <2>3. \A e : (Owed(i, e)' <=> Owed(i, e)) /\ (Ahead(i, e)' <=> Ahead(i, e))
    BY <2>1, <2>2 DEF Owed, Ahead
  <2> QED BY <1>1, <2>1, <2>2, <2>3 DEF GotInv, PushInv, FrameInv, SubInv, NoSub
<1>6. CASE ReadEvent
  BY <1>6, ReadEventStream
<1>7. CASE ReadAnswer \/ SendReply \/ SendFails \/ Break
  BY <1>7, AnswerStream
<1>8. CASE Push
  BY <1>8, PushStream
<1>9. ASSUME NEW w \in ReqIds, Handle(w)
      PROVE  (GotInv(i) /\ PushInv(i) /\ FrameInv(i) /\ SubInv(i))'
  <2>1. CASE HandleAuth(w) \/ HandlePing(w) \/ HandleRejected(w) \/ HandleUnwatch(w)
    BY <1>2, <2>1 DEF HandleAuth, HandlePing, HandleRejected, HandleUnwatch
  <2>2. CASE HandleQuery(w)
    <3>1. UNCHANGED <<got, subs, request, s2c, readTask, pushing>>
      BY <2>2 DEF HandleQuery
    <3>2. request[w].topic \in Topics
      BY <2>2 DEF HandleQuery, TypeInv, Requests
    <3> QED BY <1>2, <1>4, <2>2, <3>1, <3>2 DEF HandleQuery
  <2>3. CASE HandleWatch(w)
    BY <2>3, HandleWatchStream
  <2> QED BY <1>9, <2>1, <2>2, <2>3 DEF Handle
<1>10. ASSUME NEW w \in ReqIds, WatchRecv(w)
       PROVE  (GotInv(i) /\ PushInv(i) /\ FrameInv(i) /\ SubInv(i))'
  BY <1>10, WatchRecvStream
<1>11. ASSUME NEW w \in ReqIds, WatchSend(w)
       PROVE  (GotInv(i) /\ PushInv(i) /\ FrameInv(i) /\ SubInv(i))'
  BY <1>11, WatchSendStream
<1>12. CASE Publish
  BY <1>4, <1>12 DEF Publish
<1>13. ASSUME NEW c \in Callers, CallStep(c)
       PROVE  UNCHANGED <<got, subs, events, request, s2c, readTask, pushing>>
  BY <1>13 DEF CallStep, RegisterWatcher, InsertPending, Dispatch, DispatchFails, Receive, Finish
<1>14. CASE WriterEnds \/ WriteLost \/ RequestRefused \/ UNCHANGED vars
            \/ \E w \in ReqIds : Consume(w) \/ DropStream(w)
  BY <1>2, <1>14, LoseShape DEF WriterEnds, vars, Consume, DropStream
<1> QED BY <1>2, <1>3, <1>5, <1>6, <1>7, <1>8, <1>9, <1>10, <1>11, <1>12, <1>13, <1>14
        DEF Next, ReadStep, HandlerStep, WatchStep

-----------------------------------------------------------------------------
(* Authentication.                                                         *)

LEMMA AuthInit == Init => AuthInv
BY FlagsType DEF Init, AuthInv, Opened

\* Steps that are not the handler's deny nothing and run nothing.
LEMMA AuthSame ==
  ASSUME TypeInv, AuthInv, UNCHANGED <<handled, authenticated, executed>>,
         \A i \in ReqIds : Denied(i)' => Denied(i),
         \A k \in 1..Len(handled) : request'[handled[k]] = request[handled[k]]
  PROVE  AuthInv'
<1>1. Len(handled) \in Nat /\ \A k \in 1..Len(handled) : handled[k] \in ReqIds
  BY FrameTypes
<1>2. \A k \in 1..(Len(handled) + 1) : Opened(k)' <=> Opened(k)
  BY <1>1 DEF Opened
<1>3. Opened(Len(handled) + 1)' <=> Opened(Len(handled) + 1)
  BY <1>1, <1>2
<1>4. \A k \in 1..Len(handled) : Opened(k)' <=> Opened(k)
  BY <1>1, <1>2
<1>5. \A k \in 1..Len(handled) : Denied(handled[k])' => Denied(handled[k])
  <2> SUFFICES ASSUME NEW k \in 1..Len(handled)
               PROVE  Denied(handled[k])' => Denied(handled[k])
    OBVIOUS
  <2>1. PICK i \in ReqIds : i = handled[k]
    BY <1>1
  <2>2. handled'[k] = i
    BY <2>1
  <2>3. Denied(handled[k])' <=> Denied(i)'
    BY <2>2 DEF Denied
  <2> QED BY <2>1, <2>3
<1>6. UNCHANGED Len(handled)
  OBVIOUS
<1> QED BY <1>3, <1>4, <1>5, <1>6 DEF AuthInv

LEMMA HandleAuthStep ==
  ASSUME TypeInv, IdsInv, SourceInv, AuthInv, NEW i \in ReqIds, Handle(i)
  PROVE  AuthInv'
<1>1. PICK L : L = Len(handled)
  OBVIOUS
<1>2. /\ L \in Nat /\ Len(handled') = L + 1 /\ handled'[L + 1] = i
      /\ \A k \in 1..L : handled'[k] = handled[k] /\ handled[k] \in ReqIds /\ handled[k] # i
      /\ UNCHANGED <<request, answer, s2c>>
      /\ ~Has(handled, i)
      /\ \E b \in Bodies \cup {"oversized"} : reply' = [id |-> i, body |-> b]
  <2>1. /\ Take(i) /\ UNCHANGED <<client, s2c, link, got>>
        /\ \E b \in Bodies \cup {"oversized"} : reply' = [id |-> i, body |-> b]
    BY HandleShape
  <2>2. ~Has(handled, i)
    <3>1. c2s # <<>> /\ i = c2s[1] /\ Len(c2s) \in Nat \ {0}
      BY <2>1, TailAt DEF Take, TypeInv
    <3> QED BY <3>1 DEF IdsInv
  <2>3. /\ L \in Nat /\ Len(handled') = L + 1 /\ handled'[L + 1] = i
        /\ \A k \in 1..L : handled'[k] = handled[k]
    BY <1>1, <2>1, AppendAt DEF Take, TypeInv
  <2> QED BY <1>1, <2>1, <2>2, <2>3, FrameTypes DEF client, Has
<1>3. \A k \in 1..(L + 1) : Opened(k)' <=> Opened(k)
  BY <1>2 DEF Opened
<1>4. Opened(L + 2)' <=> Opened(L + 1) \/ request[i].kind = "auth"
  BY <1>2 DEF Opened
<1>5. \A k \in 1..L : Denied(handled[k])' => Denied(handled[k])
  <2> SUFFICES ASSUME NEW k \in 1..L
               PROVE  Denied(handled[k])' => Denied(handled[k])
    OBVIOUS
  <2>1. handled'[k] = handled[k] /\ handled[k] # i
    BY <1>2
  <2>2. reply'.id = i
    BY <1>2
  <2> QED BY <1>2, <2>1, <2>2 DEF Denied
<1>6. Denied(handled[L + 1])' => reply'.body = "denied"
  <2>1. answer[i] = "none"
    BY <1>2 DEF SourceInv, TypeInv
  <2>2. \A n \in 1..Len(s2c) : s2c[n].id # i
    BY <1>2 DEF SourceInv
  <2> QED BY <1>2, <2>1, <2>2 DEF Denied
<1>7. /\ authenticated' \in {"open", "no", "yes"}
      /\ authenticated' = "open" <=> authenticated = "open"
      /\ authenticated' = "no" <=> authenticated = "no" /\ request[i].kind # "auth"
      /\ executed' \subseteq executed \cup {i}
      /\ i \in executed' => i \in executed \/ authenticated # "no"
      /\ reply'.body = "denied" => authenticated = "no" /\ executed' = executed
  <2> USE DEF Reply, AuthInv, MayRun
  <2>1. CASE HandleAuth(i)
    BY <2>1 DEF HandleAuth
  <2>2. CASE HandlePing(i)
    BY <2>2 DEF HandlePing
  <2>3. CASE HandleRejected(i)
    BY <2>3 DEF HandleRejected
  <2>4. CASE HandleQuery(i)
    BY <2>4 DEF HandleQuery
  <2>5. CASE HandleWatch(i)
    BY <2>5 DEF HandleWatch
  <2>6. CASE HandleUnwatch(i)
    BY <2>6 DEF HandleUnwatch
  <2> QED BY <2>1, <2>2, <2>3, <2>4, <2>5, <2>6 DEF Handle
<1>8. authenticated' = "yes" => Opened(L + 2)'
  BY <1>1, <1>4, <1>7 DEF AuthInv
<1>9. authenticated' = "no" => ~Opened(L + 2)'
  BY <1>1, <1>4, <1>7 DEF AuthInv
<1>10. \A k \in 1..L : /\ handled'[k] \in executed' => authenticated' = "open" \/ Opened(k)'
                       /\ Denied(handled[k])' => ~(authenticated' = "open" \/ Opened(k)')
  BY <1>1, <1>2, <1>3, <1>5, <1>7 DEF AuthInv
<1>11. /\ handled'[L + 1] \in executed' => authenticated' = "open" \/ Opened(L + 1)'
       /\ Denied(handled[L + 1])' => ~(authenticated' = "open" \/ Opened(L + 1)')
  BY <1>1, <1>2, <1>3, <1>6, <1>7 DEF AuthInv
<1>12. \A k \in 1..Len(handled') : k \in 1..L \/ k = L + 1
  BY <1>2
<1>13. Len(handled') + 1 = L + 2
  BY <1>2
<1>14. \A j \in executed' : Has(handled', j)
  <2>1. \A j : Has(handled, j) \/ j = i => Has(handled', j)
    <3>1. \A j : Has(handled, j) => Has(handled', j)
      BY <1>1, <1>2 DEF Has
    <3>2. Has(handled', i)
      BY <1>2 DEF Has
    <3> QED BY <3>1, <3>2
  <2> QED BY <1>7, <2>1 DEF AuthInv
<1> QED BY <1>7, <1>8, <1>9, <1>10, <1>11, <1>12, <1>13, <1>14 DEF AuthInv

LEMMA AuthStep ==
  ASSUME TypeInv, StreamType, IdsInv, SourceInv, AuthInv, [Next]_vars
  PROVE  AuthInv'
<1> USE DEF link, wires, server, client
<1>1. CASE UNCHANGED <<request, handled, authenticated, executed, answer, s2c, reply>>
  BY <1>1, AuthSame DEF Denied
<1>2. ASSUME NEW c \in Callers, Begin(c)
      PROVE  AuthInv'
  <2>1. /\ UNCHANGED <<handled, authenticated, executed, answer, s2c, reply>>
        /\ \A i \in ReqIds : i # next_req_id => request'[i] = request[i]
    BY <1>2 DEF Begin, TypeInv
  <2>2. \A k \in 1..Len(handled) : handled[k] \in ReqIds /\ handled[k] # next_req_id
    BY FrameTypes DEF IdsInv, TypeInv
  <2> QED BY <2>1, <2>2, AuthSame DEF Denied
<1>3. ASSUME NEW c \in Callers, InsertPending(c)
      PROVE  AuthInv'
  <2>1. /\ UNCHANGED <<request, handled, authenticated, executed, s2c, reply>>
        /\ \A i \in ReqIds : answer'[i] = "denied" => answer[i] = "denied"
    BY <1>3 DEF InsertPending, TypeInv
  <2> QED BY <2>1, AuthSame DEF Denied
<1>4. CASE ReadAnswer \/ ReadEvent
  <2>1. /\ UNCHANGED <<request, handled, authenticated, executed, reply>>
        /\ \A i \in ReqIds : answer'[i] = "denied" =>
             answer[i] = "denied" \/ (Head(s2c).id = i /\ Head(s2c).body = "denied")
    BY <1>4 DEF ReadAnswer, ReadEvent, TypeInv
  <2>2. /\ Len(s2c) \in Nat \ {0} /\ Len(s2c') = Len(s2c) - 1 /\ Head(s2c) = s2c[1]
        /\ \A k \in 1..Len(s2c') : s2c'[k] = s2c[k + 1]
    BY <1>4, ReadFrame
  <2>3. \A i \in ReqIds : Denied(i)' => Denied(i)
    BY <2>1, <2>2 DEF Denied
  <2> QED BY <2>1, <2>3, AuthSame
<1>5. ASSUME NEW i \in ReqIds, Handle(i)
      PROVE  AuthInv'
  BY <1>5, HandleAuthStep
<1>6. CASE SendReply
  <2>1. UNCHANGED <<request, handled, authenticated, executed, answer>> /\ reply' = NoReply
    BY <1>6 DEF SendReply
  <2>2. CASE UNCHANGED s2c
    BY <2>1, <2>2, AuthSame DEF Denied
  <2>3. ASSUME NEW f \in Frames, Adds(f), f.id = reply.id, f.body = reply.body, reply # NoReply
        PROVE  AuthInv'
    <3>1. \A j \in ReqIds : Denied(j)' => Denied(j)
      BY <2>1, <2>3 DEF Denied, Adds
    <3> QED BY <2>1, <3>1, AuthSame
  <2> QED BY <1>6, <2>2, <2>3, ReplyFrame
<1>7. CASE SendFails \/ Break
  <2>1. HandlerEnds
    BY <1>7 DEF SendFails, Break
  <2>2. UNCHANGED <<request, handled, authenticated, executed, answer>> /\ reply' = NoReply
    BY <2>1 DEF HandlerEnds
  <2>3. \A j \in ReqIds : Denied(j)' => Denied(j)
    BY <2>1, <2>2, CutFrames DEF Denied
  <2> QED BY <2>2, <2>3, AuthSame
<1>8. ASSUME NEW i \in ReqIds, WatchSend(i)
      PROVE  AuthInv'
  <2>1. UNCHANGED <<request, handled, authenticated, executed, answer, reply>>
    BY <1>8 DEF WatchSend
  <2>2. CASE UNCHANGED s2c
    BY <2>1, <2>2, AuthSame DEF Denied
  <2>3. ASSUME NEW f \in Frames, Adds(f), f.body = "event"
        PROVE  AuthInv'
    <3>1. \A j \in ReqIds : Denied(j)' => Denied(j)
      BY <2>1, <2>3 DEF Denied, Adds
    <3> QED BY <2>1, <3>1, AuthSame
  <2> QED BY <1>8, <2>2, <2>3, EventFrame
<1>9. ASSUME NEW c \in Callers,
             \/ RegisterWatcher(c) \/ Dispatch(c) \/ DispatchFails(c) \/ Receive(c)
      PROVE  AuthInv'
  BY <1>1, <1>9, SMTT(40) DEF RegisterWatcher, Dispatch, DispatchFails, Receive, Finish
<1>10. CASE WriterEnds \/ WriteLost \/ RequestRefused
  BY <1>1, <1>10, LoseShape DEF WriterEnds
<1>11. CASE \/ Push \/ ReadEnd \/ Publish \/ UNCHANGED vars
            \/ \E i \in ReqIds : Consume(i) \/ DropStream(i) \/ WatchRecv(i)
  BY <1>1, <1>11, ZenonT(40) DEF Push, ReadEnd, Publish, Consume, DropStream, WatchRecv, vars
<1> QED BY <1>2, <1>3, <1>4, <1>5, <1>6, <1>7, <1>8, <1>9, <1>10, <1>11
        DEF Next, CallStep, ReadStep, HandlerStep, WatchStep

-----------------------------------------------------------------------------
(* The theorems.                                                           *)

SessionInv ==
  /\ TypeInv /\ StreamType /\ IdsInv /\ SourceInv /\ BodiesInv /\ AuthInv
  /\ OrderInv /\ StreamInv

LEMMA SessionAlways == Spec => []SessionInv
<1>1. Init => SessionInv
  BY TypeInit, StreamTypeInit, IdsInit, SourceInit, BodiesInit, AuthInit, OrderInit, StreamInit
     DEF SessionInv
<1>2. SessionInv /\ [Next]_vars => SessionInv'
  BY TypeStep, StreamTypeStep, IdsStep, SourceStep, BodiesStep, AuthStep, OrderStep,
     StreamStep
     DEF SessionInv
<1> QED BY <1>1, <1>2, PTL DEF Spec

\* Authentication decides alike for every request on a connection: the flag of
\* the handler is set by the first Auth with the right token and by nothing
\* else, is never reset, and is read after the requests before have been
\* handled, however many callers pipeline requests around it.
THEOREM AuthCorrect == Spec => []AuthDecides
<1>1. SessionInv => AuthDecides
  BY DEF SessionInv, AuthInv, Denied, AuthDecides
<1> QED BY <1>1, SessionAlways, PTL

\* A caller gets the answer to its own request: an id is never given to two
\* requests, and what the reading task puts into the channel of an id is what
\* the handler said of the request with that id.
THEOREM AnswersCorrect == Spec => []AnswersMatch
<1>1. SessionInv => AnswersMatch
  BY DEF SessionInv, BodiesInv, Truthful, AnswersMatch
<1> QED BY <1>1, SessionAlways, PTL

\* When a caller has its answer, every request that the handler took before it
\* has been answered: answers go through one queue in the order of handling,
\* and what a dead writing task or a broken connection loses is its end.
THEOREM LossCorrect == Spec => []AnswersUnbroken
<1>1. SessionInv => AnswersUnbroken
  BY DEF SessionInv, OrderInv, LossOrder, Answered, AnswersUnbroken
<1> QED BY <1>1, SessionAlways, PTL

\* A stream of WATCH gives the events that were emitted after its subscription
\* and match it, in order and none twice, however far the ring has lagged.
THEOREM StreamsCorrect == Spec => []StreamFaithful
<1>1. SessionInv => StreamFaithful
  <2> SUFFICES ASSUME SessionInv, NEW i \in ReqIds, NEW k \in 1..Len(got[i])
               PROVE  /\ k > 1 => got[i][k - 1] < got[i][k]
                      /\ got[i][k] >= subs[i].start /\ events[got[i][k]] = request[i].topic
    BY DEF StreamFaithful
  <2>1. /\ Owed(i, got[i][k])
        /\ \A j \in 1..Len(got[i]) : j < k => got[i][j] < got[i][k]
    BY DEF SessionInv, StreamInv, GotInv
  <2>2. Len(got[i]) \in Nat /\ subs[i].start \in Nat /\ Len(events) \in Nat
    BY LenProperties DEF SessionInv, StreamType, SubType
  <2> QED BY <2>1, <2>2 DEF Owed
<1> QED BY <1>1, SessionAlways, PTL
=============================================================================
