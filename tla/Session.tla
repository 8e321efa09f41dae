-------------------------------- MODULE Session --------------------------------
(***************************************************************************)
(* One NovaClient (nova-client, client.rs) talking to the server through   *)
(* its ConnectionHandler (nova-server, connection.rs): multiplexed         *)
(* requests, authentication, and the event streams of WATCH.               *)
(*                                                                         *)
(* Each side has a task that reads frames and one that writes them.  The   *)
(* channel to a writing task and the socket behind it are one FIFO queue   *)
(* with a bound: c2s towards the server, s2c towards the client.           *)
(*                                                                         *)
(* An event is known by its position in the history of the engine's        *)
(* broadcast channel and by its topic: the collection it is about and      *)
(* whether the filter of a WATCH holds for it.                             *)
(***************************************************************************)
EXTENDS Integers, Sequences, FiniteSets

CONSTANTS
  \* Tasks of the application that share the client.
  Callers,
  \* The requests they make.
  Kinds,
  \* What WATCH statements and events are about.
  Topics,
  \* What the flag of a new connection may be: "open" without an auth_token,
  \* "no" with one.
  AuthSettings,
  \* TRUE if the connection may break; TRUE if the codec may refuse a request,
  \* an answer or an event because it is too large.
  MayBreak, MayRefuse,
  \* Capacities of the two queues, of the broadcast ring and of an EventStream.
  QueueCap, RingCap, StreamCap,
  \* Bounds: requests made, events published.
  MaxReq, MaxEvents

RequestKinds ==
  {"query", "nql_watch", "watch", "unwatch", "auth", "bad_auth", "ping"}

ASSUME KindsType == Kinds \subseteq RequestKinds
ASSUME FlagsType == AuthSettings \subseteq {"open", "no"}
                    /\ MayBreak \in BOOLEAN /\ MayRefuse \in BOOLEAN
ASSUME CapsType == QueueCap \in Nat \ {0} /\ RingCap \in Nat \ {0} /\ StreamCap \in Nat \ {0}
ASSUME BoundsType == MaxReq \in Nat /\ MaxEvents \in Nat

ReqIds == 1..MaxReq
\* What Error frames say: "denied" that authentication is required, "error"
\* anything else.
Errors == {"error", "denied"}
Bodies == {"ok", "ack"} \cup Errors

VARIABLES
  \* Client: next_req_id, the two maps, and what their channels hold.
  next_req_id, pending, watchers, answer, stream, receiver,
  \* For each caller: where it is in send_request or register_watch, and the
  \* id of its request.
  pc, reqOf,
  \* For each id the request made under it, and the answer its caller got.
  request, returned,
  \* The reading task: "read", "push" (it waits for room in a stream, with the
  \* mutex of watchers held) or "ended"; the event frame it pushes.
  readTask, pushing,
  \* TRUE when the writing task of the client has met an error and ended.
  writerDead,
  \* The queues, and whether the connection is open; the writing task of the
  \* server: "alive", "doomed" when a frame it will refuse is queued, "dead".
  c2s, s2c, open, writer,
  \* Server: whether the connection may run requests ("open": no auth_token is
  \* configured), the frame its handler is about to send.
  authenticated, reply,
  \* The engine's events, and the tasks that start_watch spawned, by id.
  events, subs,
  \* History: the events pushed to each stream, the requests executed, the
  \* requests in the order the server took them.
  got, executed, handled

client == <<next_req_id, pending, watchers, answer, stream, receiver, pc, reqOf,
            request, returned, readTask, pushing, writerDead>>
server == <<authenticated, reply, events, subs, executed>>
link == <<open, writer>>
wires == <<c2s, handled, s2c, link>>
vars == <<client, server, wires, got>>

NoReply == [id |-> 0]
NoEvent == [id |-> 0, event |-> 0]
NoSub == [alive |-> FALSE, topic |-> 0, start |-> 0, pos |-> 0, held |-> 0, missed |-> {}]

Init ==
  /\ next_req_id = 1
  /\ pending = {} /\ watchers = {}
  /\ answer = [i \in ReqIds |-> "none"]
  /\ stream = [i \in ReqIds |-> <<>>]
  /\ receiver = [i \in ReqIds |-> FALSE]
  /\ pc = [c \in Callers |-> "idle"]
  /\ reqOf = [c \in Callers |-> 0]
  /\ request = [i \in ReqIds |-> [kind |-> "none"]]
  /\ returned = [i \in ReqIds |-> "none"]
  /\ readTask = "read" /\ pushing = NoEvent
  /\ writerDead = FALSE
  /\ c2s = <<>> /\ s2c = <<>> /\ open = TRUE /\ writer = "alive"
  /\ handled = <<>>
  /\ authenticated \in AuthSettings
  /\ reply = NoReply
  /\ events = <<>>
  /\ subs = [i \in ReqIds |-> NoSub]
  /\ got = [i \in ReqIds |-> <<>>]
  /\ executed = {}

Goto(c, loc) == pc' = [pc EXCEPT ![c] = loc]

-----------------------------------------------------------------------------
(* send_request and register_watch.                                        *)

\* Mutant: the id is read and the counter not advanced.
NextId_Reused == next_req_id

\* fetch_add on next_req_id.
NextId == next_req_id + 1

\* The subscription a request names: for Unwatch one that was acknowledged.
Targets(k) == IF k = "unwatch" THEN {i \in ReqIds : returned[i] = "ack"} ELSE {0}

\* A caller takes an id; WATCH creates its channel first.
Begin(c) ==
  /\ pc[c] = "idle" /\ next_req_id <= MaxReq
  /\ \E k \in Kinds, p \in Topics : \E j \in Targets(k) :
       /\ request' = [request EXCEPT ![next_req_id] =
                      [kind |-> k, topic |-> p, sub |-> j]]
       /\ Goto(c, IF k = "watch" THEN "register" ELSE "pend")
       /\ receiver' = [receiver EXCEPT ![next_req_id] = k = "watch"]
  /\ reqOf' = [reqOf EXCEPT ![c] = next_req_id]
  /\ next_req_id' = NextId
  /\ UNCHANGED <<pending, watchers, answer, stream, returned, readTask, pushing,
                 writerDead, server, wires, got>>

\* The stream is entered in the map of watchers, once its mutex is free.
RegisterWatcher(c) ==
  /\ pc[c] = "register" /\ readTask # "push"
  /\ watchers' = watchers \cup {reqOf[c]}
  /\ Goto(c, "pend")
  /\ UNCHANGED <<next_req_id, pending, answer, stream, receiver, reqOf, request,
                 returned, readTask, pushing, writerDead, server, wires, got>>

InsertPending(c) ==
  /\ pc[c] = "pend"
  /\ pending' = pending \cup {reqOf[c]}
  /\ answer' = [answer EXCEPT ![reqOf[c]] = "none"]
  /\ Goto(c, "send")
  /\ UNCHANGED <<next_req_id, watchers, stream, receiver, reqOf, request, returned,
                 readTask, pushing, writerDead, server, wires, got>>

Dispatch(c) ==
  /\ pc[c] = "send" /\ ~writerDead /\ Len(c2s) < QueueCap
  /\ c2s' = Append(c2s, reqOf[c])
  /\ Goto(c, "wait")
  /\ UNCHANGED <<next_req_id, pending, watchers, answer, stream, receiver, reqOf,
                 request, returned, readTask, pushing, writerDead, server, handled, s2c, link, got>>

\* c's call returns; a WATCH that failed drops the receiver of its stream.
Finish(c, result) ==
  /\ Goto(c, "idle")
  /\ returned' = [returned EXCEPT ![reqOf[c]] = result]
  /\ receiver' = [receiver EXCEPT ![reqOf[c]] = @ /\ result = "ack"]
  /\ UNCHANGED <<next_req_id, pending, watchers, answer, stream, reqOf, request,
                 readTask, pushing, writerDead, server, wires, got>>

\* The writing task is gone: the channel to it is closed.
DispatchFails(c) == pc[c] = "send" /\ writerDead /\ Finish(c, "closed")

Receive(c) ==
  /\ pc[c] = "wait" /\ answer[reqOf[c]] # "none"
  /\ Finish(c, answer[reqOf[c]])

-----------------------------------------------------------------------------
(* The reading task of the client, and the application's end of a stream.  *)

\* Mutant: Error frames are not handled.
ReadAnswer_IgnoresErrors ==
  /\ readTask = "read" /\ s2c # <<>> /\ Head(s2c).body \in Bodies
  /\ s2c' = Tail(s2c)
  /\ LET f == Head(s2c)
     IN  IF f.body \in Errors THEN UNCHANGED <<pending, answer>>
         ELSE /\ pending' = pending \ {f.id}
              /\ answer' = IF f.id \in pending
                            THEN [answer EXCEPT ![f.id] = f.body] ELSE answer
  /\ UNCHANGED <<next_req_id, watchers, stream, receiver, pc, reqOf, request, returned,
                 readTask, pushing, writerDead, server, c2s, handled, link, got>>

\* A Response or Error frame completes the call that waits for its id.
ReadAnswer ==
  /\ readTask = "read" /\ s2c # <<>> /\ Head(s2c).body \in Bodies
  /\ s2c' = Tail(s2c)
  /\ LET f == Head(s2c)
     IN  /\ pending' = pending \ {f.id}
         /\ answer' = IF f.id \in pending THEN [answer EXCEPT ![f.id] = f.body] ELSE answer
  /\ UNCHANGED <<next_req_id, watchers, stream, receiver, pc, reqOf, request, returned,
                 readTask, pushing, writerDead, server, c2s, handled, link, got>>

\* An Event frame is for the stream registered under its id, if there is one.
ReadEvent ==
  /\ readTask = "read" /\ s2c # <<>> /\ Head(s2c).body = "event"
  /\ s2c' = Tail(s2c)
  /\ IF Head(s2c).id \in watchers
     THEN /\ readTask' = "push"
          /\ pushing' = [id |-> Head(s2c).id, event |-> Head(s2c).event]
     ELSE UNCHANGED <<readTask, pushing>>
  /\ UNCHANGED <<next_req_id, pending, watchers, answer, stream, receiver, pc, reqOf,
                 request, returned, writerDead, server, c2s, handled, link, got>>

\* stream_tx.send: it waits for room, or fails because the receiver is gone.
Push ==
  LET i == pushing.id
  IN  /\ readTask = "push"
      /\ \/ /\ receiver[i] /\ Len(stream[i]) < StreamCap
            /\ stream' = [stream EXCEPT ![i] = Append(@, pushing.event)]
            /\ got' = [got EXCEPT ![i] = Append(@, pushing.event)]
         \/ /\ ~receiver[i]
            /\ UNCHANGED <<stream, got>>
      /\ readTask' = "read" /\ pushing' = NoEvent
      /\ UNCHANGED <<next_req_id, pending, watchers, answer, receiver, pc, reqOf,
                     request, returned, writerDead, server, wires>>

\* The reading task ends when the closed connection has no more frames.
ReadEnd ==
  /\ readTask = "read" /\ ~open /\ s2c = <<>>
  /\ readTask' = "ended"
  /\ UNCHANGED <<next_req_id, pending, watchers, answer, stream, receiver, pc, reqOf,
                 request, returned, pushing, writerDead, server, wires, got>>

\* EventStream::next, once register_watch has returned the stream.
Consume(i) ==
  /\ returned[i] = "ack" /\ receiver[i] /\ stream[i] # <<>>
  /\ stream' = [stream EXCEPT ![i] = Tail(@)]
  /\ UNCHANGED <<next_req_id, pending, watchers, answer, receiver, pc, reqOf, request,
                 returned, readTask, pushing, writerDead, server, wires, got>>

\* The application drops an EventStream; its entry stays in the map.
DropStream(i) ==
  /\ returned[i] = "ack" /\ receiver[i]
  /\ receiver' = [receiver EXCEPT ![i] = FALSE]
  /\ stream' = [stream EXCEPT ![i] = <<>>]
  /\ UNCHANGED <<next_req_id, pending, watchers, answer, pc, reqOf, request, returned,
                 readTask, pushing, writerDead, server, wires, got>>

-----------------------------------------------------------------------------
(* ConnectionHandler: one frame is handled and answered before the next.   *)

Reply(i, body) == reply' = [id |-> i, body |-> body]

\* The handler takes the next request frame.
Take(i) ==
  /\ open /\ reply = NoReply /\ c2s # <<>> /\ Head(c2s) = i
  /\ c2s' = Tail(c2s)
  /\ handled' = Append(handled, i)

\* Mutant: any token opens the connection, and only the answer says no.
HandleAuth_AnyToken(i) ==
  /\ request[i].kind \in {"auth", "bad_auth"} /\ Take(i)
  /\ authenticated' = IF authenticated = "no" THEN "yes" ELSE authenticated
  /\ Reply(i, IF request[i].kind = "auth" THEN "ok" ELSE "error")
  /\ UNCHANGED <<client, events, subs, executed, s2c, link, got>>

HandleAuth(i) ==
  /\ request[i].kind \in {"auth", "bad_auth"} /\ Take(i)
  /\ LET good == request[i].kind = "auth" \/ authenticated = "open"
     IN  /\ authenticated' = IF good /\ authenticated = "no" THEN "yes" ELSE authenticated
         /\ Reply(i, IF good THEN "ok" ELSE "error")
  /\ UNCHANGED <<client, events, subs, executed, s2c, link, got>>

HandlePing(i) ==
  /\ request[i].kind = "ping" /\ Take(i)
  /\ Reply(i, "ok")
  /\ UNCHANGED <<client, authenticated, events, subs, executed, s2c, link, got>>

MayRun == authenticated # "no"

\* Authentication required, or a statement that does not parse.
HandleRejected(i) ==
  /\ request[i].kind \in {"query", "nql_watch", "watch", "unwatch"} /\ Take(i)
  /\ \/ ~MayRun /\ Reply(i, "denied")
     \/ MayRun /\ request[i].kind # "unwatch" /\ Reply(i, "error")
  /\ UNCHANGED <<client, authenticated, events, subs, executed, s2c, link, got>>

\* execute: a statement that reads, or a write that emits an event.  The answer
\* of a FIND may be larger than a frame can be.
HandleQuery(i) ==
  /\ request[i].kind = "query" /\ MayRun /\ Take(i)
  /\ \/ UNCHANGED events
     \/ /\ Len(events) < MaxEvents
        /\ events' = Append(events, request[i].topic)
  /\ executed' = executed \cup {i}
  /\ \/ Reply(i, "ok")
     \/ MayRefuse /\ events' = events /\ Reply(i, "oversized")
  /\ UNCHANGED <<client, authenticated, subs, s2c, link, got>>

\* Mutant: the subscription begins at the oldest event still in the ring.
StartPos_Replay == 1

\* subscribe_events: the receiver gets the events sent from now on.
StartPos == Len(events) + 1

\* start_watch subscribes and spawns the task before the acknowledgement is
\* queued.  A WATCH statement sent as a query is treated the same way.
HandleWatch(i) ==
  /\ request[i].kind \in {"watch", "nql_watch"} /\ MayRun /\ Take(i)
  /\ subs' = [subs EXCEPT ![i] =
       [alive |-> TRUE, topic |-> request[i].topic, start |-> Len(events) + 1,
        pos |-> StartPos, held |-> 0, missed |-> {}]]
  /\ executed' = executed \cup {i}
  /\ Reply(i, "ack")
  /\ UNCHANGED <<client, authenticated, events, s2c, link, got>>

\* Unwatch is answered and changes nothing.
HandleUnwatch(i) ==
  /\ request[i].kind = "unwatch" /\ MayRun /\ Take(i)
  /\ executed' = executed \cup {i}
  /\ Reply(i, "ok")
  /\ UNCHANGED <<client, authenticated, events, subs, s2c, link, got>>

Frame(rep) == [id |-> rep.id, body |-> rep.body, event |-> 0]

\* Mutant: the writing task skips a frame that the codec refuses.
QueueReply_Skips ==
  /\ s2c' = IF reply.body = "oversized" THEN s2c ELSE Append(s2c, Frame(reply))
  /\ UNCHANGED writer

\* The writing task ends at a frame that the codec refuses: what is queued
\* behind it goes with it.
QueueReply ==
  IF reply.body = "oversized"
  THEN writer' = "doomed" /\ UNCHANGED s2c
  ELSE s2c' = Append(s2c, Frame(reply)) /\ UNCHANGED writer

\* out_tx.send.
SendReply ==
  /\ open /\ reply # NoReply
  /\ \/ writer = "alive" /\ Len(s2c) < QueueCap /\ QueueReply
     \/ writer = "doomed" /\ UNCHANGED <<s2c, writer>>
     \/ writer = "dead" /\ reply.body \in Errors /\ UNCHANGED <<s2c, writer>>
  /\ reply' = NoReply
  /\ UNCHANGED <<client, authenticated, events, subs, executed, c2s, handled, open, got>>

\* The task has come to the frame: the channel to it is closed.
WriterEnds ==
  /\ writer = "doomed" /\ writer' = "dead"
  /\ UNCHANGED <<client, server, c2s, handled, s2c, open, got>>

\* The handler ends: what it was about to send or receive is lost, and the
\* client may still read some of the rest.
HandlerEnds ==
  /\ open' = FALSE
  /\ \E n \in 0..Len(s2c) : s2c' = SubSeq(s2c, 1, n)
  /\ c2s' = <<>> /\ reply' = NoReply
  /\ UNCHANGED <<client, authenticated, events, subs, executed, handled, writer, got>>

\* A Response, not an Error, finds the channel closed: the loop is left.
SendFails ==
  /\ open /\ writer = "dead" /\ reply # NoReply /\ reply.body \notin Errors
  /\ HandlerEnds

-----------------------------------------------------------------------------
(* The engine's broadcast channel and the tasks of start_watch.            *)

\* A statement of another connection emits an event.
Publish ==
  /\ Len(events) < MaxEvents
  /\ \E p \in Topics : events' = Append(events, p)
  /\ UNCHANGED <<client, authenticated, reply, subs, executed, wires, got>>

\* The oldest event the ring still holds.
Oldest == IF Len(events) > RingCap THEN Len(events) - RingCap + 1 ELSE 1

\* rx.recv: the next event, or Lagged when it has been overwritten.
WatchRecv(i) ==
  LET s == subs[i]
  IN  /\ s.alive /\ s.held = 0 /\ s.pos <= Len(events)
      /\ subs' = [subs EXCEPT ![i] =
           IF s.pos < Oldest
           THEN [s EXCEPT !.pos = Oldest, !.missed = @ \cup (s.pos..(Oldest - 1))]
           ELSE [s EXCEPT !.pos = @ + 1,
                          !.held = IF events[s.pos] = s.topic THEN s.pos ELSE 0]]
      /\ UNCHANGED <<client, authenticated, reply, events, executed, wires, got>>

\* Mutant: an event is dropped when the queue has no room.
WatchSend_Drops(i) ==
  /\ subs[i].alive /\ subs[i].held # 0
  /\ s2c' = IF Len(s2c) < QueueCap
            THEN Append(s2c, [id |-> i, body |-> "event", event |-> subs[i].held]) ELSE s2c
  /\ subs' = [subs EXCEPT ![i].held = 0]
  /\ UNCHANGED <<client, authenticated, reply, events, executed, c2s, handled, link, got>>

\* target_tx.send waits for room; the writing task ends at an event that the
\* codec refuses, and the task of the WATCH when the connection is closed or has
\* lost its writing task.
WatchSend(i) ==
  /\ subs[i].alive /\ subs[i].held # 0
  /\ \/ /\ open /\ writer = "alive" /\ Len(s2c) < QueueCap
        /\ subs' = [subs EXCEPT ![i].held = 0]
        /\ \/ /\ s2c' = Append(s2c, [id |-> i, body |-> "event", event |-> subs[i].held])
              /\ UNCHANGED writer
           \/ MayRefuse /\ writer' = "doomed" /\ UNCHANGED s2c
     \/ /\ open /\ writer = "doomed"
        /\ subs' = [subs EXCEPT ![i].held = 0]
        /\ UNCHANGED <<s2c, writer>>
     \/ /\ ~open \/ writer = "dead"
        /\ subs' = [subs EXCEPT ![i].alive = FALSE]
        /\ UNCHANGED <<s2c, writer>>
  /\ UNCHANGED <<client, authenticated, reply, events, executed, c2s, handled, open, got>>

-----------------------------------------------------------------------------
\* The server or the network fails.
Break == MayBreak /\ open /\ HandlerEnds

\* The client's writing task writes to the closed connection: the frame is
\* lost, or the error is met and the task ends with the channel to it.
WriteLost ==
  /\ ~open /\ c2s # <<>>
  /\ \/ c2s' = Tail(c2s) /\ UNCHANGED writerDead
     \/ c2s' = <<>> /\ writerDead' = TRUE
  /\ UNCHANGED <<next_req_id, pending, watchers, answer, stream, receiver, pc, reqOf,
                 request, returned, readTask, pushing, server, handled, s2c, link, got>>

\* It also ends at a request that the codec refuses, with the connection open:
\* what is queued behind the request is lost, what is in the socket is not.
RequestRefused ==
  /\ MayRefuse /\ ~writerDead
  /\ \E n \in 1..Len(c2s) :
       /\ request[c2s[n]].kind \in {"query", "nql_watch", "watch"}
       /\ c2s' = SubSeq(c2s, 1, n - 1)
  /\ writerDead' = TRUE
  /\ UNCHANGED <<next_req_id, pending, watchers, answer, stream, receiver, pc, reqOf,
                 request, returned, readTask, pushing, server, handled, s2c, link, got>>

CallStep(c) ==
  RegisterWatcher(c) \/ InsertPending(c) \/ Dispatch(c) \/ DispatchFails(c) \/ Receive(c)

ReadStep == ReadAnswer \/ ReadEvent \/ Push \/ ReadEnd

Handle(i) ==
  \/ HandleAuth(i) \/ HandlePing(i) \/ HandleRejected(i)
  \/ HandleQuery(i) \/ HandleWatch(i) \/ HandleUnwatch(i)

HandlerStep == SendReply \/ SendFails \/ WriterEnds \/ \E i \in ReqIds : Handle(i)

WatchStep(i) == WatchRecv(i) \/ WatchSend(i)

Next ==
  \/ \E c \in Callers : Begin(c) \/ CallStep(c)
  \/ ReadStep \/ HandlerStep
  \/ \E i \in ReqIds : Consume(i) \/ DropStream(i) \/ WatchStep(i)
  \/ Publish \/ Break \/ WriteLost \/ RequestRefused

Spec == Init /\ [][Next]_vars

\* Every task that can go on does, and tokio's channels and mutexes serve their
\* waiters in turn.  Nothing makes the application read its streams.
Fairness ==
  /\ \A c \in Callers : SF_vars(CallStep(c))
  /\ WF_vars(ReadStep) /\ SF_vars(HandlerStep) /\ WF_vars(WriteLost)
  /\ \A i \in ReqIds : SF_vars(WatchStep(i))

FairSpec == Spec /\ Fairness

-----------------------------------------------------------------------------
(* Properties.                                                             *)

\* A caller gets the answer to its own request, whatever else is multiplexed
\* on the connection: success only if that request was executed (or is one
\* that needs no execution), an acknowledgement only for a WATCH.
AnswersMatch ==
  \A i \in ReqIds :
    /\ returned[i] = "ack" => request[i].kind \in {"watch", "nql_watch"} /\ i \in executed
    /\ returned[i] = "ok" => \/ request[i].kind \in {"auth", "bad_auth", "ping"}
                             \/ request[i].kind \in {"query", "unwatch"} /\ i \in executed

\* Where an auth_token is configured, an Auth with the right one came before
\* the k-th request that the server took.
Opened(k) == \E j \in 1..(k - 1) : request[handled[j]].kind = "auth"

\* Requests run from the first Auth with the right token on, and only from then
\* on, whoever on the connection sent it and whatever is pipelined around it: an
\* Auth that fails neither opens the connection nor closes it, and nobody is
\* told "denied" on a connection that is open or needs no token.
AuthDecides ==
  \A k \in 1..Len(handled) :
    LET may == authenticated = "open" \/ Opened(k)
    IN  /\ handled[k] \in executed => may
        /\ answer[handled[k]] = "denied" => ~may

\* The events that a subscription has come past and owes to its stream.
Matching(s) == {e \in s.start..(s.pos - 1) : events[e] = s.topic} \ s.missed

\* A stream gives events in the order they were emitted and none twice, none
\* from before its WATCH was executed and none of another topic.
StreamFaithful ==
  \A i \in ReqIds : \A k \in 1..Len(got[i]) :
    /\ k > 1 => got[i][k - 1] < got[i][k]
    /\ got[i][k] >= subs[i].start /\ events[got[i][k]] = request[i].topic

\* Answers are lost from some request on, never in between: when a caller has
\* its answer, every request that the server took before has been answered
\* too, although the writing task may end under the handler, requests are
\* pipelined behind and the connection may break.
AnswersUnbroken ==
  \A j, k \in 1..Len(handled) :
    j < k /\ answer[handled[k]] # "none" => answer[handled[j]] # "none"

\* The connection is closed, or a task that writes to it has ended.
Cut == ~open \/ writer # "alive" \/ writerDead

\* The reading task waits for room in a stream that is full.
ReaderBlocked ==
  /\ readTask = "push" /\ receiver[pushing.id]
  /\ Len(stream[pushing.id]) = StreamCap

\* Every call returns, with an answer or an error, unless a stream that nobody
\* reads, or whose own WATCH waits behind its events, holds up the reading task
\* for ever; or the connection was cut after the call had queued its request:
\* an answer that is not under way by then never comes, and nothing removes the
\* call from the map of those that wait, so that nobody tells the caller.
CallsReturn ==
  []<>~ReaderBlocked =>
    \A c \in Callers :
      pc[c] # "idle" ~> pc[c] = "idle" \/ (Cut /\ pc[c] = "wait")

\* An event that an open stream is owed is delivered to it, unless the
\* connection is cut or a full stream holds up the reading task for ever.
EventsDelivered ==
  []<>~ReaderBlocked =>
    \A i \in ReqIds : \A e \in 1..MaxEvents :
      (receiver[i] /\ subs[i].alive /\ e \in Matching(subs[i])) ~>
        \/ ~receiver[i]
        \/ \E k \in 1..Len(got[i]) : got[i][k] = e
        \/ ~open \/ writer # "alive"
===============================================================================
