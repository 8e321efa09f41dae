------------------------------- MODULE Server -------------------------------
(***************************************************************************)
(* NovaServer::run (nova-server, server.rs): the accept loop, the          *)
(* semaphore that limits the connections, the metric that counts them      *)
(* (metrics.rs) and the life of a connection's task (connection.rs), which *)
(* may end in a panic (module Query has two statements that do).  What the *)
(* task does in between is module Session.                                 *)
(*                                                                         *)
(* The signal to shut down is a message of a broadcast channel that the    *)
(* accept loop and that of the web studio (web.rs) each receive in their   *)
(* own time.  What the studio's connections do is module Studio.           *)
(***************************************************************************)
EXTENDS Naturals, FiniteSets

CONSTANTS
  \* Clients, each with one connection at a time.
  Clients,
  \* config.max_connections.
  MaxConnections,
  \* Bound: tasks that panic.
  MaxPanics

ASSUME ServerConstants ==
  MaxConnections \in Nat /\ MaxPanics \in Nat

VARIABLES
  \* "serving" until the loop has received the signal, "stopping" while run
  \* sleeps, "down" when the process has ended.
  phase,
  \* The studio's loop: "serving", or "ended" when it has received the signal.
  web,
  \* Whether the signal has been sent.
  signalled,
  \* Free permits of the semaphore.
  permits,
  \* Each client's connection: "closed"; "backlog" while it waits for accept;
  \* "spawned" when its task was created with a permit; "running" once the task
  \* has counted it; "leaving" when the task has discounted it; "detached" when it
  \* panicked and left the task that writes; "dropped" when it was refused.
  conn,
  \* metrics.active_connections.
  active,
  \* History: how many tasks panicked.
  panics

control == <<phase, web, signalled>>
tasks == <<permits, conn, active, panics>>
serverVars == <<control, tasks>>

In(states) == {c \in Clients : conn[c] \in states}

Init ==
  /\ phase = "serving" /\ web = "serving" /\ signalled = FALSE
  /\ permits = MaxConnections
  /\ conn = [c \in Clients |-> "closed"]
  /\ active = 0
  /\ panics = 0

Move(c, from, to) == conn[c] = from /\ conn' = [conn EXCEPT ![c] = to]

\* A client connects: the kernel completes the handshake.
Connect(c) ==
  /\ phase # "down"
  /\ conn[c] \in {"closed", "dropped"}
  /\ conn' = [conn EXCEPT ![c] = "backlog"]
  /\ UNCHANGED <<control, permits, active, panics>>

\* accept and try_acquire_owned; the permit moves into the connection's task.
Accept(c) ==
  /\ phase = "serving" /\ permits > 0
  /\ Move(c, "backlog", "spawned")
  /\ permits' = permits - 1
  /\ UNCHANGED <<control, active, panics>>

\* No permit is free: the stream is dropped and the loop goes on.
Refuse(c) ==
  /\ phase = "serving" /\ permits = 0
  /\ Move(c, "backlog", "dropped")
  /\ UNCHANGED <<control, permits, active, panics>>

\* ConnectionHandler::run begins.
TaskStart(c) ==
  /\ phase # "down"
  /\ Move(c, "spawned", "running")
  /\ active' = active + 1
  /\ UNCHANGED <<control, permits, panics>>

\* Mutant: an early return in front of dec_connections.
TaskEnd_Uncounted(c) ==
  /\ phase # "down"
  /\ Move(c, "running", "leaving")
  /\ UNCHANGED <<control, permits, active, panics>>

\* The reader loop ends: end of stream, a framing error or a closed queue.
TaskEnd(c) ==
  /\ phase # "down"
  /\ Move(c, "running", "leaving")
  /\ active' = active - 1
  /\ UNCHANGED <<control, permits, panics>>

\* handler.run has returned and the permit is dropped.
Release(c) ==
  /\ phase # "down"
  /\ Move(c, "leaving", "closed")
  /\ permits' = permits + 1
  /\ UNCHANGED <<control, active, panics>>

\* Mutant: a panic takes the permit with it.
TaskPanic_KeepsPermit(c) ==
  /\ phase # "down" /\ panics < MaxPanics
  /\ Move(c, "running", "closed")
  /\ panics' = panics + 1
  /\ UNCHANGED <<control, permits, active>>

\* A panic drops what the task owns, its half of the stream and the permit; the lines
\* after the reader loop are not reached, so that the task that writes is not aborted:
\* if a WATCH still feeds it, it goes on, and the socket with it.
TaskPanic(c) ==
  /\ phase # "down" /\ panics < MaxPanics
  /\ Move(c, "running", "closed") \/ Move(c, "running", "detached")
  /\ panics' = panics + 1
  /\ permits' = permits + 1
  /\ UNCHANGED <<control, active>>

\* It ends when it can no longer write.
WriterEnds(c) ==
  /\ phase # "down"
  /\ Move(c, "detached", "closed")
  /\ UNCHANGED <<control, permits, active, panics>>

-----------------------------------------------------------------------------
(* Shutdown.                                                               *)

\* Ctrl+C: the task of cmd_start sends the signal, once.
CtrlC ==
  /\ phase = "serving" /\ ~signalled
  /\ signalled' = TRUE
  /\ UNCHANGED <<phase, web, tasks>>

\* The loop receives the signal.
Shutdown ==
  /\ phase = "serving" /\ signalled
  /\ phase' = "stopping"
  /\ UNCHANGED <<web, signalled, tasks>>

\* The studio's loop receives it; its connections go on.
StudioShutdown ==
  /\ phase # "down" /\ signalled /\ web = "serving"
  /\ web' = "ended"
  /\ UNCHANGED <<phase, signalled, tasks>>

\* run returns after its sleep and the process ends, with every task.
Stop ==
  /\ phase = "stopping"
  /\ phase' = "down" /\ web' = "ended"
  /\ conn' = [c \in Clients |-> "closed"]
  /\ UNCHANGED <<signalled, permits, active, panics>>

ConnectionStep ==
  \E c \in Clients :
    \/ Connect(c) \/ Accept(c) \/ Refuse(c)
    \/ TaskStart(c) \/ TaskEnd(c) \/ Release(c) \/ TaskPanic(c) \/ WriterEnds(c)

ControlStep == CtrlC \/ Shutdown \/ StudioShutdown

-----------------------------------------------------------------------------
(* Properties.                                                             *)

\* Permits are neither lost nor doubled, whichever way a task ends, so that a server
\* never closes itself to new clients nor serves too many.  Sockets without a permit
\* are left by panics only, one by each at most.
PermitsExact ==
  phase # "down" =>
    /\ permits + Cardinality(In({"spawned", "running", "leaving"})) = MaxConnections
    /\ Cardinality(In({"detached"})) <= panics

\* The number of active connections that the status page shows is the number
\* of tasks that serve one, plus those that panicked: such a task is never
\* discounted, and nothing else makes the metric drift.
ActiveAccounted == phase # "down" => active = Cardinality(In({"running"})) + panics
=============================================================================
