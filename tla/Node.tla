-------------------------------- MODULE Node --------------------------------
(***************************************************************************)
(* One node as a whole: the application's Gwyh (src/lib.rs), the Server    *)
(* and its task (src/server.rs), and the three GenServers of the Registry  *)
(* (src/registry.rs) with their mailboxes.                                 *)
(*                                                                         *)
(* What the servers compute is the subject of the other modules.  Here a   *)
(* handler is the sequence of calls and casts it makes to other servers:   *)
(* both wait for room in a bounded mailbox, and a call waits for the       *)
(* answer too, while the messages of the caller's own mailbox wait for it. *)
(* Where the sequence depends on data, it is any of those that the code    *)
(* may make.                                                               *)
(*                                                                         *)
(* Timers, the receiving loop and the tasks that delay a packet only send  *)
(* to a server, and nobody waits for them: their messages come at any      *)
(* time there is room.                                                     *)
(***************************************************************************)
EXTENDS Integers, Sequences

CONSTANTS
  Capacity,        \* messages a mailbox has room for
  MaxCasts,        \* bound: peers that one handler sends to
  HandlerReplies   \* may GwyhHandler::handle_broadcast call Gwyh::broadcast?

ASSUME NodeAssumption ==
  /\ Capacity \in Nat \ {0}
  /\ MaxCasts \in Nat
  /\ HandlerReplies \in BOOLEAN

Server == {"PH", "HS", "PM"}      \* PacketHandler, Handshaker, PeerManager
Client == Server \cup {"app", "task", "nobody"}

VARIABLES
  up,         \* do the servers run?
  mailbox,    \* per server: the messages waiting for it
  handler,    \* per server: whom to answer, what is still to be sent, is it in a call?
  receiving,  \* has the PacketHandler started the receiving loop?
  app,        \* where the application is in Gwyh's methods
  casts,      \* what Server::run has still to cast
  task,       \* where the task is that Server::run has spawned
  permit,     \* notify_shutdown: is there a permit?
  waiters,    \* notify_shutdown: who waits, in order
  watched,    \* history: was the task waiting when shutdown was called?
  ended       \* history: has the PeerManager ended its subscriptions?

servers == <<up, mailbox, handler, receiving, ended>>
notify  == <<permit, waiters>>
vars    == <<servers, app, casts, task, notify, watched>>

-----------------------------------------------------------------------------
(* What the handlers send *)

Call(s, m) == [how |-> "call", to |-> s, message |-> m]
Cast(s, m) == [how |-> "cast", to |-> s, message |-> m]

\* The messages of each server, those with the same sends taken together:
\* "Note" makes the handler send nothing.
Messages(s) ==
  CASE s = "PH" -> {"Start", "Recv", "Note"}
    [] s = "HS" -> {"Packet", "SendHello", "Note"}
    [] s = "PM" -> {"Status", "Subscription", "Reassign", "SendHeartbeat", "Shutdown", "Note"}

\* Sequences of at most n of the sends in S.
UpTo(n, S) == UNION {[1..k -> S] : k \in 0..n}

\* Mutant: recv_peer_request waits for the PeerManager's answer.
RecvCalls ==
  {<<Cast("HS", "Packet")>>, <<>>} \cup {<<Call("PM", m)>> : m \in {"Status", "Subscription", "Note"}}

\* PacketHandler::recv: a handshake packet, a request, anything else; or a
\* broadcast whose handler broadcasts.
Recv ==
  {<<Cast("HS", "Packet")>>, <<>>}
  \cup {<<Cast("PM", m)>> : m \in {"Status", "Subscription", "Note"}}
  \cup IF HandlerReplies THEN {<<Call("PH", "Note")>>} ELSE {}

\* Handshaker::handle_handshake: nothing or an OkBoss for an Ohai, the peer and
\* a GoTeam for an OkBoss, the peer and a StartSubscription for a GoTeam.
HandleHandshake ==
  {<<>>,
   <<Call("PH", "Note")>>,
   <<Call("PM", "Status"), Call("PH", "Note")>>,
   <<Call("PM", "Status")>>,
   <<Call("PM", "Status"), Cast("PH", "Note")>>}

\* PeerManager: add_peer and remove_peer, and the broadcast of an own status.
PeerStatus ==
  {before \o <<Call("PH", "Note")>> \o after :
     before, after \in {<<>>, <<Cast("PH", "Note")>>}}

\* start_subscription, end_subscription and send_peerlist.
Subscription == {<<Cast("PH", "Note"), Cast("PH", "Note")>>, <<Cast("PH", "Note")>>}

\* trigger_reassignment
TriggerReassignment == UpTo(MaxCasts, {Cast("PH", "Note"), Cast("HS", "SendHello")})

\* send_heartbeat: to each subscriber, after the bootstrap of an island.
SendHeartbeat ==
  LET heartbeats == UpTo(MaxCasts, {Cast("PH", "Note")})
  IN  heartbeats \cup {<<Cast("HS", "Note")>> \o h : h \in heartbeats}

\* PeerManager::shutdown: an EndSubscription to each peer, as a call.
Shutdown == UpTo(MaxCasts, {Call("PH", "Note")})

\* What the handler of m may send.
Sends(m) ==
  CASE m = "Recv"          -> Recv
    [] m = "Packet"        -> HandleHandshake
    [] m = "SendHello"     -> {<<Cast("PH", "Note")>>}
    [] m = "Status"        -> PeerStatus
    [] m = "Subscription"  -> Subscription
    [] m = "Reassign"      -> TriggerReassignment
    [] m = "SendHeartbeat" -> SendHeartbeat
    [] m = "Shutdown"      -> Shutdown
    [] OTHER               -> {<<>>}

-----------------------------------------------------------------------------
(* The servers *)

\* A handler that has nothing to send and nobody to answer has ended.
Idle == [caller |-> "nobody", sends |-> <<>>, calling |-> FALSE]

HasRoom(s) == Len(mailbox[s]) < Capacity

\* The server s is at its next message.
CanTake(s) == up /\ handler[s] = Idle /\ mailbox[s] # <<>>

\* The server s takes the next message and starts its handler.
Take(s) ==
  /\ CanTake(s)
  /\ LET m == Head(mailbox[s])
     IN  /\ \E sends \in Sends(m.message) :
              handler' = [handler EXCEPT ![s].caller = m.from, ![s].sends = sends]
         /\ receiving' = (receiving \/ m.message = "Start")
  /\ mailbox' = [mailbox EXCEPT ![s] = Tail(@)]
  /\ UNCHANGED <<up, ended, app, casts, task, notify, watched>>

\* Mutant: the sender does not look for room.
SendUnbounded(s) ==
  /\ up /\ handler[s].sends # <<>> /\ ~handler[s].calling
  /\ LET next == Head(handler[s].sends)
     IN  mailbox' = [mailbox EXCEPT ![next.to] = Append(@, [message |-> next.message, from |-> "nobody"])]
  /\ handler' = [handler EXCEPT ![s].sends = Tail(@)]
  /\ UNCHANGED <<up, receiving, ended, app, casts, task, notify, watched>>

\* The handler of s has a call or a cast to make, and there is room for it.
CanSend(s) ==
  /\ up /\ handler[s].sends # <<>> /\ ~handler[s].calling
  /\ HasRoom(Head(handler[s].sends).to)

\* The handler of s makes its next call or cast.
Send(s) ==
  /\ CanSend(s)
  /\ LET next == Head(handler[s].sends)
         from == IF next.how = "call" THEN s ELSE "nobody"
     IN  /\ mailbox' = [mailbox EXCEPT ![next.to] = Append(@, [message |-> next.message, from |-> from])]
         /\ handler' = IF next.how = "call" THEN [handler EXCEPT ![s].calling = TRUE]
                                            ELSE [handler EXCEPT ![s].sends = Tail(@)]
  /\ UNCHANGED <<up, receiving, ended, app, casts, task, notify, watched>>

\* The caller c, a server, has its answer and goes on.
Answered(h, c) ==
  IF c \in Server THEN [h EXCEPT ![c].calling = FALSE, ![c].sends = Tail(@)] ELSE h

\* The handler of s has nothing more to send, and somebody to answer.
CanFinish(s) == up /\ handler[s].sends = <<>> /\ handler[s].caller # "nobody"

\* The handler of s ends, and answers.
Finish(s) ==
  /\ CanFinish(s)
  /\ LET c == handler[s].caller
     IN  /\ handler' = [Answered(handler, c) EXCEPT ![s] = Idle]
         /\ app'  = IF c = "app" THEN "running" ELSE app
         /\ task' = IF c = "task" THEN "answered" ELSE task
         /\ ended' = (ended \/ c = "task")
  /\ UNCHANGED <<up, mailbox, receiving, casts, notify, watched>>

\* The messages of timers and tasks: packets received, the rate control
\* interval and delayed Ohais; the bootstrap and the end of a handshake; the
\* reassignment, the heartbeats and the watchdogs.
Timed(s) ==
  CASE s = "PH" -> IF receiving THEN {"Note", "Recv"} ELSE {"Note"}
    [] s = "HS" -> {"SendHello", "Packet"}
    [] s = "PM" -> {"Reassign", "SendHeartbeat", "Status"}

Arrive(s) ==
  /\ up /\ HasRoom(s)
  /\ \E m \in Timed(s) :
       mailbox' = [mailbox EXCEPT ![s] = Append(@, [message |-> m, from |-> "nobody"])]
  /\ UNCHANGED <<up, handler, receiving, ended, app, casts, task, notify, watched>>

-----------------------------------------------------------------------------
(* Notify *)

\* notify_one: the first that waits is woken, or the permit is left for the
\* next that comes.
NotifyOne ==
  /\ permit' = (waiters = <<>>)
  /\ waiters' = IF waiters = <<>> THEN waiters ELSE Tail(waiters)

\* Is c the one that notify_one wakes?
Wakes(c) == waiters # <<>> /\ Head(waiters) = c

\* notified().await of c begins: it takes the permit, or c waits.
Notified(c) ==
  /\ permit' = FALSE
  /\ waiters' = IF permit THEN waiters ELSE Append(waiters, c)

-----------------------------------------------------------------------------
(* The application: the methods of Gwyh *)

\* What Server::run casts.
Startup == <<Cast("PM", "Note"), Cast("PH", "Note"), Cast("PH", "Start"),
             Cast("HS", "Note"), Cast("PM", "Note")>>

\* start: the registry is started.
Start ==
  /\ app = "new"
  /\ up' = TRUE
  /\ app' = "starting"
  /\ casts' = Startup
  /\ UNCHANGED <<mailbox, handler, receiving, ended, task, notify, watched>>

\* Server::new: the address is taken.  start returns the error.
BindFails ==
  /\ app = "starting" /\ casts = Startup
  /\ app' = "running"
  /\ casts' = <<>>
  /\ UNCHANGED <<servers, task, notify, watched>>

\* Server::run casts the next message; after the last it spawns the task.
Run ==
  /\ app = "starting" /\ HasRoom(Head(casts).to)
  /\ mailbox' = [mailbox EXCEPT ![Head(casts).to] =
                   Append(@, [message |-> Head(casts).message, from |-> "nobody"])]
  /\ casts' = Tail(casts)
  /\ IF casts' = <<>> THEN app' = "running" /\ task' = "spawned"
                      ELSE UNCHANGED <<app, task>>
  /\ UNCHANGED <<up, handler, receiving, ended, notify, watched>>

\* A method of Gwyh calls the server s.
AppCalls(s) ==
  /\ app = "running" /\ up /\ HasRoom(s)
  /\ mailbox' = [mailbox EXCEPT ![s] = Append(@, [message |-> "Note", from |-> "app"])]
  /\ app' = "calling"
  /\ UNCHANGED <<up, handler, receiving, ended, casts, task, notify, watched>>

Broadcast          == AppCalls("PH")
GetSubscriberCount == AppCalls("PM")

\* shutdown: the server's task is notified.
ShutDown ==
  /\ app = "running" /\ up
  /\ NotifyOne
  /\ task' = IF Wakes("task") THEN "woken" ELSE task
  /\ watched' = Wakes("task")
  /\ app' = "notified"
  /\ UNCHANGED <<servers, casts>>

\* shutdown: it waits for the acknowledgement.
AwaitAcknowledgement ==
  /\ app = "notified"
  /\ Notified("app")
  /\ app' = IF permit THEN "acknowledged" ELSE "waiting"
  /\ UNCHANGED <<servers, casts, task, watched>>

\* Registry::shutdown: the servers end, and those who wait for them get an error.
StopServers ==
  /\ up' = FALSE
  /\ mailbox' = [s \in Server |-> <<>>]
  /\ handler' = [s \in Server |-> Idle]
  /\ UNCHANGED <<receiving, ended>>

\* shutdown: the registry is shut down.
Stop ==
  /\ app = "acknowledged"
  /\ StopServers
  /\ app' = "stopped"
  /\ UNCHANGED <<casts, task, notify, watched>>

\* drop: the server's task is notified.  A Gwyh that was never started has no
\* registry to shut down.
Drop ==
  /\ app \in {"new", "running", "stopped"}
  /\ NotifyOne
  /\ task' = IF Wakes("task") THEN "woken" ELSE task
  /\ app' = IF app = "new" THEN "panicked" ELSE "dropping"
  /\ UNCHANGED <<servers, casts, watched>>

\* drop: the registry is shut down, however far the task has got.
DropStops ==
  /\ app = "dropping"
  /\ StopServers
  /\ app' = "dropped"
  /\ UNCHANGED <<casts, task, notify, watched>>

-----------------------------------------------------------------------------
(* The task of Server::run *)

TaskAwaitsShutdown ==
  /\ task = "spawned"
  /\ Notified("task")
  /\ task' = IF permit THEN "woken" ELSE "waiting"
  /\ UNCHANGED <<servers, app, casts, watched>>

\* Mutant: the PeerManager is not told.
TaskShutsDownAlone ==
  /\ task = "woken"
  /\ task' = "answered"
  /\ UNCHANGED <<servers, app, casts, notify, watched>>

\* The PeerManager is to end its subscriptions.
TaskShutsDown ==
  /\ task = "woken"
  /\ IF up THEN /\ HasRoom("PM")
                /\ mailbox' = [mailbox EXCEPT !["PM"] =
                                 Append(@, [message |-> "Shutdown", from |-> "task"])]
                /\ task' = "calling"
           ELSE /\ task' = "answered"
                /\ UNCHANGED mailbox
  /\ UNCHANGED <<up, handler, receiving, ended, app, casts, notify, watched>>

\* The servers have ended before the answer.
TaskCallFails ==
  /\ task = "calling" /\ ~up
  /\ task' = "answered"
  /\ UNCHANGED <<servers, app, casts, notify, watched>>

\* Mutant: the application is not woken.
TaskAcknowledgesNobody ==
  /\ task = "answered"
  /\ permit' = TRUE
  /\ task' = "ended"
  /\ UNCHANGED <<servers, app, casts, waiters, watched>>

\* The acknowledgement.
TaskAcknowledges ==
  /\ task = "answered"
  /\ NotifyOne
  /\ task' = "ended"
  /\ app' = IF Wakes("app") THEN "acknowledged" ELSE app
  /\ UNCHANGED <<servers, casts, watched>>

-----------------------------------------------------------------------------
Init ==
  /\ up = FALSE
  /\ mailbox = [s \in Server |-> <<>>]
  /\ handler = [s \in Server |-> Idle]
  /\ receiving = FALSE
  /\ app = "new"
  /\ casts = <<>>
  /\ task = "none"
  /\ permit = FALSE /\ waiters = <<>>
  /\ watched = FALSE /\ ended = FALSE

ServerTask == TaskAwaitsShutdown \/ TaskShutsDown \/ TaskCallFails \/ TaskAcknowledges

Next ==
  \/ \E s \in Server : Take(s) \/ Send(s) \/ Finish(s) \/ Arrive(s)
  \/ Start \/ BindFails \/ Run \/ Broadcast \/ GetSubscriberCount
  \/ ShutDown \/ AwaitAcknowledgement \/ Stop \/ Drop \/ DropStops
  \/ ServerTask

Spec == Init /\ [][Next]_vars

-----------------------------------------------------------------------------
(* Properties *)

\* The servers that s cannot go on without: the one it calls, or the one in
\* whose mailbox it waits for room.
WaitsFor(s) ==
  IF handler[s].sends = <<>> THEN {}
  ELSE LET next == Head(handler[s].sends)
       IN  IF handler[s].calling \/ ~HasRoom(next.to) THEN {next.to} ELSE {}

\* Each of S waits for one of S.
CircularWait(S) == S # {} /\ \A s \in S : WaitsFor(s) \cap S # {}

Jammed == \E S \in SUBSET Server : CircularWait(S)

\* The variables have their types.
TypeOK ==
  /\ <<up, receiving, permit, watched, ended>> \in BOOLEAN \X BOOLEAN \X BOOLEAN \X BOOLEAN \X BOOLEAN
  /\ \A s \in Server :
       /\ mailbox[s] \in Seq([message : Messages(s), from : Client])
       /\ Len(mailbox[s]) <= Capacity
       /\ handler[s].caller \in Client
  /\ app \in {"new", "starting", "running", "calling", "notified", "waiting",
              "acknowledged", "stopped", "dropping", "dropped", "panicked"}
  /\ task \in {"none", "spawned", "waiting", "woken", "calling", "answered", "ended"}
  /\ waiters \in {<<>>, <<"task">>, <<"app">>}

\* The calls between the servers go one way, from the Handshaker to the
\* PeerManager and the PacketHandler, and from the PeerManager to the
\* PacketHandler.  So servers can only wait for each other in a circle if one
\* of them waits for room in a full mailbox, or if the application's handler
\* calls broadcast and the PacketHandler waits for itself.
CirclesNeedFullMailbox ==
  \A S \in SUBSET Server :
    CircularWait(S) =>
      \/ \E s \in S : ~handler[s].calling
      \/ handler["PH"].calling /\ WaitsFor("PH") = {"PH"}

\* A shutdown that is called when the server's task waits for it returns only
\* after the PeerManager has ended its subscriptions ("waits for
\* acknowledgement before continuing", src/lib.rs:110).
ShutdownIsAcknowledged == app \in {"acknowledged", "stopped"} /\ watched => ended

\* The guards of the steps of the server's task.
TaskCanGoOn ==
  \/ task \in {"spawned", "answered"}
  \/ task = "woken" /\ (up => HasRoom("PM"))
  \/ task = "calling" /\ ~up

\* The acknowledgement is never lost: while shutdown waits for it, the server's
\* task or a server can go on, unless the servers wait for each other.
ShutdownGoesOn ==
  app = "waiting" =>
    \/ Jammed
    \/ TaskCanGoOn
    \/ \E s \in Server : CanTake(s) \/ CanSend(s) \/ CanFinish(s)
=============================================================================
