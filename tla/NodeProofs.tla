----------------------------- MODULE NodeProofs -----------------------------
(***************************************************************************)
(* Proofs about Node: for mailboxes of any capacity and handlers that send *)
(* to any number of peers, the servers can only wait for each other in a   *)
(* circle where a mailbox is full, a shutdown that the server's task waits *)
(* for is acknowledged after the subscriptions have ended, and the         *)
(* acknowledgement is never lost.                                          *)
(***************************************************************************)
EXTENDS Node, SequenceTheorems, TLAPS

USE NodeAssumption

-----------------------------------------------------------------------------
(* The inductive invariant *)

AnyMessage == {"Start", "Recv", "Note", "Packet", "SendHello", "Status", "Subscription",
               "Reassign", "SendHeartbeat", "Shutdown"}

\* A message as it waits in a mailbox, and one of the mailbox of s.
Letter     == [message : AnyMessage, from : Client]
LetterTo(s) == [message : Messages(s), from : Client]

\* The servers that the handlers of s call.
MayCall(s) == IF s = "HS" THEN {"PM", "PH"} ELSE {"PH"}

\* A call or cast, and one that a handler of s may make.
Order      == [how : {"call", "cast"}, to : Server, message : AnyMessage]
OrderOf(s) == {o \in Order : /\ o.message \in Messages(o.to)
                             /\ o.how = "call" => o.to \in MayCall(s)}

HandlerState == [caller : Client, sends : Seq(Order), calling : BOOLEAN]

AppState  == {"new", "starting", "running", "calling", "notified", "waiting",
              "acknowledged", "stopped", "dropping", "dropped", "panicked"}
TaskState == {"none", "spawned", "waiting", "woken", "calling", "answered", "ended"}

Flags ==
  /\ up \in BOOLEAN /\ receiving \in BOOLEAN /\ permit \in BOOLEAN
  /\ watched \in BOOLEAN /\ ended \in BOOLEAN
  /\ app \in AppState /\ task \in TaskState

Mailboxes ==
  /\ mailbox \in [Server -> Seq(Letter)]
  /\ \A s \in Server : mailbox[s] \in Seq(LetterTo(s)) /\ Len(mailbox[s]) <= Capacity

\* A server calls only those it may, and knows whom until it has the answer.
Handlers ==
  /\ handler \in [Server -> HandlerState]
  /\ \A s \in Server :
       /\ handler[s].sends \in Seq(OrderOf(s))
       /\ handler[s].calling => handler[s].sends # <<>> /\ Head(handler[s].sends).how = "call"

\* The call of c is what s handles (i is 0) or the i-th message in its mailbox.
At(c, s, i) ==
  \/ i = 0 /\ handler[s].caller = c
  \/ i \in DOMAIN mailbox[s] /\ mailbox[s][i].from = c

Caller == Client \ {"nobody"}

Calling(c) ==
  \/ c \in Server /\ handler[c].calling
  \/ c = "app" /\ app = "calling"
  \/ c = "task" /\ task = "calling"

\* May the call of c be at s?
Called(c, s) ==
  /\ c \in Server => s = Head(handler[c].sends).to
  /\ c = "task" => s = "PM"

\* Whose call is waiting somewhere waits for it, and the call is where it was made.
CallsAreCalled ==
  \A c \in Caller, s \in Server, i \in 0..Capacity :
    At(c, s, i) => Calling(c) /\ Called(c, s)

\* A call is in one place.
CallsAreOne ==
  \A c \in Caller, s, t \in Server, i, j \in 0..Capacity :
    At(c, s, i) /\ At(c, t, j) => s = t /\ i = j

\* While the servers run, no call is lost.
CallsAreKept ==
  up => \A c \in Caller : Calling(c) => \E s \in Server, i \in 0..Capacity : At(c, s, i)

Calls == CallsAreCalled /\ CallsAreOne /\ CallsAreKept

\* Servers that do not run have nothing to do.
DownIsIdle == ~up => \A s \in Server : handler[s] = Idle /\ mailbox[s] = <<>>

\* What Server::run has still to cast.
CastsToMake ==
  /\ casts \in Seq(Order)
  /\ \A i \in DOMAIN casts : casts[i].message \in Messages(casts[i].to)
  /\ app = "starting" => casts # <<>>

\* How far the application, the server's task and notify_shutdown have got.
Phases ==
  /\ app = "new" => ~up /\ task = "none"
  /\ app = "starting" => task = "none"
  /\ app \in {"starting", "running", "calling", "notified", "waiting", "acknowledged"} => up
  /\ app \in {"new", "starting", "running", "calling"} =>
       task \in {"none", "spawned", "waiting"} /\ ~permit
  /\ waiters \in {<<>>, <<"task">>, <<"app">>}
  /\ waiters = <<"app">> <=> app = "waiting"
  /\ waiters = <<"task">> <=> task = "waiting"
  /\ app = "notified" => waiters = <<>> /\ (task \in {"none", "spawned", "ended"} => permit)
  /\ app = "waiting" => task \in {"woken", "calling", "answered"}

\* A shutdown the task was waiting for: its acknowledgement comes after the end
\* of the subscriptions.
Acknowledging ==
  watched /\ app \in {"notified", "waiting", "acknowledged", "stopped"} =>
    \/ ended
    \/ task \in {"woken", "calling"} /\ ~permit /\ app \in {"notified", "waiting"}

Inv ==
  /\ Flags /\ Mailboxes /\ Handlers
  /\ Calls /\ DownIsIdle
  /\ CastsToMake /\ Phases /\ Acknowledging

-----------------------------------------------------------------------------
(* What the handlers send *)

\* A call or cast made of its parts.
LEMMA OrderParts ==
  ASSUME NEW s \in Server, NEW t \in Server, NEW m \in Messages(t)
  PROVE  /\ Cast(t, m) \in OrderOf(s)
         /\ t \in MayCall(s) => Call(t, m) \in OrderOf(s)
<1>1. m \in AnyMessage
  BY Zenon DEF Messages, AnyMessage, Server
<1> QED
  BY Zenon, <1>1 DEF Cast, Call, OrderOf, Order

\* A message means something to the server it is for.
LEMMA MessagesOf ==
  /\ Messages("PH") = {"Start", "Recv", "Note"}
  /\ Messages("HS") = {"Packet", "SendHello", "Note"}
  /\ Messages("PM") = {"Status", "Subscription", "Reassign", "SendHeartbeat", "Shutdown", "Note"}
BY Zenon DEF Messages

\* Some of the sends in S are sends of a handler that may make those in T.
LEMMA UpToSends ==
  ASSUME NEW S, NEW T, S \subseteq T
  PROVE  UpTo(MaxCasts, S) \subseteq Seq(T) /\ UpTo(MaxCasts, S) # {}
<1>1. ASSUME NEW q \in UpTo(MaxCasts, S) PROVE q \in Seq(T)
  <2>1. PICK k \in 0..MaxCasts : q \in [1..k -> S]
    BY Zenon DEF UpTo
  <2>2. k \in Nat /\ q \in [1..k -> T]
    BY <2>1
  <2> QED
    BY <2>2
<1>2. [i \in 1..0 |-> 0] \in UpTo(MaxCasts, S)
  <2>1. [i \in 1..0 |-> 0] \in [1..0 -> S] /\ 0 \in 0..MaxCasts
    OBVIOUS
  <2> QED
    BY Zenon, <2>1 DEF UpTo
<1> QED
  BY Zenon, <1>1, <1>2

\* Short sequences.
LEMMA ShortSends ==
  ASSUME NEW T
  PROVE  /\ <<>> \in Seq(T)
         /\ \A a \in T : <<a>> \in Seq(T)
         /\ \A a, b \in T : <<a, b>> \in Seq(T)
         /\ \A q, r \in Seq(T) : q \o r \in Seq(T)
OBVIOUS

\* Every message has a handler, which calls only the servers it may.
LEMMA SendsAreOrders ==
  ASSUME NEW s \in Server, NEW m \in Messages(s)
  PROVE  Sends(m) # {} /\ Sends(m) \subseteq Seq(OrderOf(s))
<1> DEFINE PHNote == Call("PH", "Note")
           PHCast == Cast("PH", "Note")
<1>1. PHCast \in OrderOf(s) /\ PHNote \in OrderOf(s)
  BY Zenon, OrderParts, MessagesOf DEF Server, MayCall
<1>2. Cast("HS", "Packet") \in OrderOf(s) /\ Cast("HS", "SendHello") \in OrderOf(s)
      /\ Cast("HS", "Note") \in OrderOf(s)
  BY Zenon, OrderParts, MessagesOf DEF Server
<1>3. \A x \in {"Status", "Subscription", "Note"} : Cast("PM", x) \in OrderOf(s)
  BY Zenon, OrderParts, MessagesOf DEF Server
<1>4. s = "HS" => Call("PM", "Status") \in OrderOf(s)
  BY Zenon, OrderParts, MessagesOf DEF Server, MayCall
<1> HIDE DEF PHNote, PHCast
<1>5. CASE m = "Recv"
  <2>1. Sends(m) = Recv
    BY Zenon, <1>5 DEF Sends
  <2>2. <<>> \in Recv
    BY Zenon DEF Recv
  <2>3. ASSUME NEW q \in Recv PROVE q \in Seq(OrderOf(s))
    <3>1. \/ q = <<>> \/ q = <<Cast("HS", "Packet")>> \/ q = <<PHNote>>
          \/ \E x \in {"Status", "Subscription", "Note"} : q = <<Cast("PM", x)>>
      BY Zenon, <2>3 DEF Recv, PHNote
    <3> QED
      BY Zenon, <1>1, <1>2, <1>3, <3>1, ShortSends
  <2> QED
    BY Zenon, <2>1, <2>2, <2>3
<1>6. CASE m = "Packet"
  <2>1. s = "HS"
    BY <1>6, MessagesOf DEF Server
  <2>2. Sends(m) = HandleHandshake
    BY Zenon, <1>6 DEF Sends
  <2> QED
    BY <1>1, <1>4, <2>1, <2>2, ShortSends DEF HandleHandshake, PHNote, PHCast
<1>7. CASE m = "SendHello"
  <2>1. Sends(m) = {<<PHCast>>}
    BY Zenon, <1>7 DEF Sends, PHCast
  <2> QED
    BY Zenon, <1>1, <2>1, ShortSends
<1>8. CASE m = "Status"
  <2>1. Sends(m) = PeerStatus
    BY Zenon, <1>8 DEF Sends
  <2>2. <<>> \o <<PHNote>> \o <<>> \in PeerStatus
    BY DEF PeerStatus, PHNote
  <2>3. ASSUME NEW q \in PeerStatus PROVE q \in Seq(OrderOf(s))
    <3>1. PICK before \in {<<>>, <<PHCast>>}, after \in {<<>>, <<PHCast>>} :
            q = before \o <<PHNote>> \o after
      BY <2>3 DEF PeerStatus, PHNote, PHCast
    <3>2. /\ before \in Seq(OrderOf(s)) /\ after \in Seq(OrderOf(s))
          /\ <<PHNote>> \in Seq(OrderOf(s))
      BY Zenon, <1>1, <3>1, ShortSends
    <3> QED
      BY Zenon, <3>1, <3>2, ShortSends
  <2> QED
    BY Zenon, <2>1, <2>2, <2>3
<1>9. CASE m = "Subscription"
  <2>1. Sends(m) = {<<PHCast, PHCast>>, <<PHCast>>}
    BY Zenon, <1>9 DEF Sends, Subscription, PHCast
  <2> QED
    BY <1>1, <2>1, ShortSends
<1>10. CASE m = "Reassign"
  <2>1. {Cast("PH", "Note"), Cast("HS", "SendHello")} \subseteq OrderOf(s)
    BY Zenon, <1>1, <1>2 DEF PHCast
  <2>2. Sends(m) = UpTo(MaxCasts, {Cast("PH", "Note"), Cast("HS", "SendHello")})
    BY Zenon, <1>10 DEF Sends, TriggerReassignment
  <2> QED
    BY Zenon, <2>1, <2>2, UpToSends
<1>11. CASE m = "SendHeartbeat"
  <2>1. {PHCast} \subseteq OrderOf(s)
    BY Zenon, <1>1
  <2>2. UpTo(MaxCasts, {PHCast}) \subseteq Seq(OrderOf(s)) /\ UpTo(MaxCasts, {PHCast}) # {}
    BY Zenon, <2>1, UpToSends
  <2>3. <<>> \in Seq(OrderOf(s)) /\ <<Cast("HS", "Note")>> \in Seq(OrderOf(s))
    BY Zenon, <1>2, ShortSends
  <2>4. PICK H : H = UpTo(MaxCasts, {PHCast})
    BY Zenon
  <2>5. Sends(m) = H \cup {<<Cast("HS", "Note")>> \o h : h \in H}
    BY Zenon, <1>11, <2>4 DEF Sends, SendHeartbeat, PHCast
  <2>6. {<<Cast("HS", "Note")>> \o h : h \in H} \subseteq Seq(OrderOf(s))
    BY Zenon, <2>2, <2>3, <2>4, ShortSends
  <2> QED
    BY Zenon, <2>2, <2>4, <2>5, <2>6
<1>12. CASE m = "Shutdown"
  <2>1. {PHNote} \subseteq OrderOf(s)
    BY Zenon, <1>1
  <2>2. Sends(m) = UpTo(MaxCasts, {PHNote})
    BY Zenon, <1>12 DEF Sends, Shutdown, PHNote
  <2> QED
    BY Zenon, <2>1, <2>2, UpToSends
<1>13. CASE m \in {"Start", "Note"}
  <2>1. Sends(m) = {<<>>}
    BY Zenon, <1>13 DEF Sends
  <2> QED
    BY Zenon, <2>1, ShortSends
<1> QED
  BY Zenon, <1>5, <1>6, <1>7, <1>8, <1>9, <1>10, <1>11, <1>12, <1>13, MessagesOf DEF Server

-----------------------------------------------------------------------------
(* What the steps do to the calls *)

\* A letter l is added to the mailbox of t, and everybody handles what they did.
Posts(t, l) ==
  /\ HasRoom(t)
  /\ mailbox' = [mailbox EXCEPT ![t] = Append(@, l)]
  /\ \A s \in Server : handler'[s].caller = handler[s].caller

\* A message that is put into a mailbox with room leaves the mailboxes as they should be.
LEMMA PostsMailboxes ==
  ASSUME Mailboxes, NEW t \in Server, NEW l \in LetterTo(t), Posts(t, l)
  PROVE  Mailboxes'
<1>1. l \in Letter
  BY Zenon DEF LetterTo, Letter, Messages, AnyMessage, Server
<1>2. Len(mailbox[t]) < Capacity /\ Len(mailbox[t]) \in Nat
  BY DEF Posts, HasRoom, Mailboxes
<1>3. mailbox' \in [Server -> Seq(Letter)]
  BY <1>1 DEF Posts, Mailboxes
<1>4. mailbox'[t] = Append(mailbox[t], l) /\ \A s \in Server \ {t} : mailbox'[s] = mailbox[s]
  BY Zenon DEF Posts, Mailboxes
<1>5. mailbox'[t] \in Seq(LetterTo(t)) /\ Len(mailbox'[t]) = Len(mailbox[t]) + 1
  BY <1>4 DEF Mailboxes
<1>6. Len(mailbox'[t]) <= Capacity
  BY <1>2, <1>5
<1>7. \A s \in Server : mailbox'[s] \in Seq(LetterTo(s)) /\ Len(mailbox'[s]) <= Capacity
  BY Zenon, <1>4, <1>5, <1>6 DEF Mailboxes
<1> QED
  BY Zenon, <1>3, <1>7 DEF Mailboxes

\* Where the calls are after a letter is added.
LEMMA PostsAt ==
  ASSUME Mailboxes, NEW t \in Server, NEW l \in LetterTo(t), Posts(t, l)
  PROVE  /\ Len(mailbox[t]) + 1 \in 0..Capacity
         /\ \A c \in Caller, s \in Server, i \in 0..Capacity :
              At(c, s, i)' <=> \/ At(c, s, i)
                               \/ s = t /\ i = Len(mailbox[t]) + 1 /\ c = l.from
<1>1. Len(mailbox[t]) < Capacity /\ Len(mailbox[t]) \in Nat
  BY DEF Posts, HasRoom, Mailboxes
<1>2. mailbox'[t] = Append(mailbox[t], l) /\ \A s \in Server \ {t} : mailbox'[s] = mailbox[s]
  BY DEF Posts, Mailboxes
<1>3. /\ DOMAIN mailbox[t] = 1..Len(mailbox[t])
      /\ DOMAIN mailbox'[t] = 1..(Len(mailbox[t]) + 1)
      /\ mailbox'[t][Len(mailbox[t]) + 1] = l
      /\ \A i \in 1..Len(mailbox[t]) : mailbox'[t][i] = mailbox[t][i]
  BY <1>2 DEF Mailboxes
<1>4. ASSUME NEW c \in Caller, NEW s \in Server, NEW i \in 0..Capacity
      PROVE  At(c, s, i)' <=> \/ At(c, s, i)
                              \/ s = t /\ i = Len(mailbox[t]) + 1 /\ c = l.from
  <2>1. handler'[s].caller = handler[s].caller
    BY Zenon DEF Posts
  <2>2. CASE s # t
    BY Zenon, <1>2, <2>1, <2>2 DEF At
  <2>3. CASE s = t
    BY <1>1, <1>3, <2>1, <2>3 DEF At
  <2> QED
    BY Zenon, <2>2, <2>3
<1> QED
  BY <1>1, <1>4

\* The calls, when a message is cast that nobody waits for.
LEMMA CastKeepsCalls ==
  ASSUME Mailboxes, Calls, NEW t \in Server, NEW l \in LetterTo(t), Posts(t, l),
         l.from = "nobody", up, 
         \A c \in Caller : Calling(c)' <=> Calling(c),
         \A c \in Caller, s \in Server : Calling(c) => (Called(c, s)' <=> Called(c, s))
  PROVE  Calls'
<1>1. \A c \in Caller, s \in Server, i \in 0..Capacity : At(c, s, i)' <=> At(c, s, i)
  BY Zenon, PostsAt DEF Caller
<1>2. CallsAreCalled'
  BY Zenon, <1>1 DEF Calls, CallsAreCalled
<1>3. CallsAreOne'
  BY <1>1 DEF Calls, CallsAreOne
<1>4. CallsAreKept'
  BY Zenon, <1>1 DEF Calls, CallsAreKept
<1> QED
  BY Zenon, <1>2, <1>3, <1>4 DEF Calls

\* The calls, when somebody makes a new one.
LEMMA CallKeepsCalls ==
  ASSUME Mailboxes, Calls, NEW t \in Server, NEW l \in LetterTo(t), Posts(t, l),
         l.from \in Caller, up, ~Calling(l.from), Called(l.from, t)',
         \A c \in Caller : Calling(c)' <=> Calling(c) \/ c = l.from,
         \A c \in Caller, s \in Server : Calling(c) => (Called(c, s)' <=> Called(c, s))
  PROVE  Calls'
<1>1. PICK n \in 0..Capacity : n = Len(mailbox[t]) + 1
  BY Zenon, PostsAt
<1>2. PICK k \in Caller : k = l.from
  BY Zenon
<1>3. \A c \in Caller, s \in Server, i \in 0..Capacity :
        At(c, s, i)' <=> At(c, s, i) \/ (s = t /\ i = n /\ c = k)
  BY <1>1, <1>2, PostsAt
<1>4. \A s \in Server, i \in 0..Capacity : ~At(k, s, i)
  BY Zenon, <1>2 DEF Calls, CallsAreCalled
<1>5. CallsAreCalled'
  BY <1>2, <1>3 DEF Calls, CallsAreCalled
<1>6. CallsAreOne'
  BY <1>3, <1>4 DEF Calls, CallsAreOne
<1>7. CallsAreKept'
  BY Zenon, <1>2, <1>3 DEF Calls, CallsAreKept
<1> QED
  BY Zenon, <1>5, <1>6, <1>7 DEF Calls

\* Where the calls are after s has taken a message.
LEMMA TakeAt ==
  ASSUME Mailboxes, Handlers, NEW s \in Server, Take(s)
  PROVE  /\ \A c \in Caller, t \in Server \ {s}, i \in 0..Capacity : At(c, t, i)' <=> At(c, t, i)
         /\ \A c \in Caller, i \in 0..Capacity : At(c, s, i)' <=> At(c, s, i + 1)
         /\ \A c \in Caller : ~At(c, s, 0)
         /\ \A c \in Caller, i \in 0..Capacity : At(c, s, i + 1) => i + 1 \in 0..Capacity
<1>1. PICK m, sends : /\ m = Head(mailbox[s])
                      /\ handler' = [handler EXCEPT ![s].caller = m.from, ![s].sends = sends]
  BY Zenon DEF Take
<1>2. handler'[s].caller = m.from /\ \A t \in Server \ {s} : handler'[t] = handler[t]
  BY Zenon, <1>1 DEF Handlers, HandlerState
<1>3. handler[s].caller = "nobody" /\ mailbox[s] # <<>>
  BY DEF Take, CanTake, Idle
<1>4. mailbox'[s] = Tail(mailbox[s]) /\ \A t \in Server \ {s} : mailbox'[t] = mailbox[t]
  BY Zenon DEF Take, Mailboxes
<1>5. /\ m = mailbox[s][1] /\ DOMAIN mailbox[s] = 1..Len(mailbox[s])
      /\ Len(mailbox[s]) \in 1..Capacity
      /\ DOMAIN mailbox'[s] = 1..(Len(mailbox[s]) - 1)
      /\ \A i \in DOMAIN mailbox'[s] : mailbox'[s][i] = mailbox[s][i + 1]
  BY <1>1, <1>3, <1>4 DEF Mailboxes
<1>6. \A c \in Caller, t \in Server \ {s}, i \in 0..Capacity : At(c, t, i)' <=> At(c, t, i)
  BY <1>2, <1>4 DEF At
<1>7. ASSUME NEW c \in Caller, NEW i \in 0..Capacity PROVE At(c, s, i)' <=> At(c, s, i + 1)
  <2>1. CASE i = 0
    BY <1>2, <1>5, <2>1 DEF At
  <2>2. CASE i # 0
    <3>1. i \in DOMAIN mailbox'[s] <=> i + 1 \in DOMAIN mailbox[s]
      BY <1>5, <2>2
    <3> QED
      BY <1>5, <2>2, <3>1 DEF At
  <2> QED
    BY Zenon, <2>1, <2>2
<1>8. \A c \in Caller : ~At(c, s, 0)
  BY <1>3, <1>5 DEF At, Caller
<1>9. \A c \in Caller, i \in 0..Capacity : At(c, s, i + 1) => i + 1 \in 0..Capacity
  BY <1>5 DEF At
<1> QED
  BY Zenon, <1>6, <1>7, <1>8, <1>9

\* Where the calls are after s has answered.
LEMMA FinishHandlers ==
  ASSUME Handlers, Calls, NEW s \in Server, Finish(s)
  PROVE  \E c \in Caller :
           /\ c = handler[s].caller /\ c # s /\ At(c, s, 0) /\ Calling(c)
           /\ handler' \in [Server -> HandlerState]
           /\ handler'[s] = Idle
           /\ c \in Server => /\ handler'[c].caller = handler[c].caller
                              /\ handler'[c].sends = Tail(handler[c].sends)
                              /\ handler'[c].calling = FALSE
           /\ \A t \in Server \ {s, c} : handler'[t] = handler[t]
<1>1. PICK c \in Caller : c = handler[s].caller
  BY Zenon DEF Finish, CanFinish, Handlers, HandlerState, Caller
<1>2. At(c, s, 0)
  BY Zenon, <1>1 DEF At
<1>3. Calling(c)
  BY <1>2 DEF Calls, CallsAreCalled
<1>4. c # s
  <2>1. ~Calling(s)
    BY Zenon DEF Finish, CanFinish, Handlers, Calling, Server
  <2> QED
    BY Zenon, <1>3, <2>1
<1>5. handler' = [Answered(handler, c) EXCEPT ![s] = Idle]
  BY Zenon, <1>1 DEF Finish
<1>6. Idle \in HandlerState
  BY DEF Idle, HandlerState, Client
<1>7. CASE c \in Server
  <2>1. handler[c].sends # <<>> /\ handler[c].sends \in Seq(Order)
    BY Zenon, <1>3, <1>7 DEF Calling, Handlers, HandlerState, Server
  <2>2. handler' = [[handler EXCEPT ![c].calling = FALSE, ![c].sends = Tail(@)] EXCEPT ![s] = Idle]
    BY Zenon, <1>5, <1>7 DEF Answered
  <2>3. PICK hc : hc = [handler[c] EXCEPT !.calling = FALSE, !.sends = Tail(@)]
    BY Zenon
  <2>4. /\ handler'[s] = Idle /\ handler'[c] = hc
        /\ \A t \in Server \ {s, c} : handler'[t] = handler[t]
        /\ DOMAIN handler' = Server
    BY Zenon, <1>4, <1>7, <2>2, <2>3 DEF Handlers
  <2>5. /\ hc \in HandlerState /\ hc.caller = handler[c].caller
        /\ hc.sends = Tail(handler[c].sends) /\ hc.calling = FALSE
    <3>1. Tail(handler[c].sends) \in Seq(Order)
      BY <2>1
    <3>2. handler[c] \in HandlerState
      BY Zenon, <1>7 DEF Handlers
    <3>3. PICK q \in Seq(Order) : q = Tail(handler[c].sends)
      BY Zenon, <3>1
    <3>4. hc = [handler[c] EXCEPT !.calling = FALSE, !.sends = q]
      BY Zenon, <2>3, <3>2, <3>3 DEF HandlerState
    <3> QED
      BY Zenon, <3>2, <3>3, <3>4 DEF HandlerState
  <2>6. handler' \in [Server -> HandlerState]
    BY <1>6, <1>7, <2>2, <2>4, <2>5 DEF Handlers
  <2> QED
    BY Zenon, <1>1, <1>2, <1>3, <1>4, <2>4, <2>5, <2>6
<1>8. CASE c \notin Server
  BY Zenon, <1>1, <1>2, <1>3, <1>4, <1>5, <1>6, <1>8 DEF Answered, Handlers
<1> QED
  BY Zenon, <1>7, <1>8

-----------------------------------------------------------------------------
(* The steps of the servers keep the invariant *)

\* What a handler has to send stays what it may send.
LEMMA OrdersAreOrders ==
  ASSUME NEW s \in Server
  PROVE  \A q \in Seq(OrderOf(s)) :
           /\ q \in Seq(Order)
           /\ q # <<>> => Head(q) \in OrderOf(s) /\ Tail(q) \in Seq(OrderOf(s))
<1>1. OrderOf(s) \subseteq Order
  BY Zenon DEF OrderOf
<1> QED
  BY <1>1

\* A server takes a message and starts its handler.
LEMMA TakeKeeps ==
  ASSUME Inv, NEW s \in Server, Take(s)
  PROVE  Inv'
<1> USE DEF Inv
<1>1. handler[s] = Idle /\ mailbox[s] # <<>> /\ up
  BY Zenon DEF Take, CanTake
<1>2. PICK m \in LetterTo(s) : m = Head(mailbox[s])
  BY <1>1 DEF Mailboxes
<1>3. m.message \in Messages(s) /\ m.from \in Client
  BY Zenon DEF LetterTo
<1>4. PICK sends \in Sends(m.message) :
        handler' = [handler EXCEPT ![s].caller = m.from, ![s].sends = sends]
  BY Zenon, <1>2 DEF Take
<1>5. sends \in Seq(OrderOf(s)) /\ sends \in Seq(Order)
  BY Zenon, <1>3, <1>4, SendsAreOrders, OrdersAreOrders
<1>6. /\ handler'[s].caller = m.from /\ handler'[s].sends = sends /\ handler'[s].calling = FALSE
      /\ \A t \in Server \ {s} : handler'[t] = handler[t]
  BY <1>1, <1>4 DEF Handlers, HandlerState, Idle
<1>7. Handlers'
  <2>1. handler' \in [Server -> HandlerState]
    BY Zenon, <1>3, <1>4, <1>5 DEF Handlers, HandlerState
  <2> QED
    BY Zenon, <1>5, <1>6, <2>1 DEF Handlers
<1>8. Mailboxes'
  <2>1. mailbox' \in [Server -> Seq(Letter)]
    BY <1>1 DEF Take, Mailboxes
  <2>2. mailbox'[s] = Tail(mailbox[s]) /\ \A t \in Server \ {s} : mailbox'[t] = mailbox[t]
    BY Zenon DEF Take, Mailboxes
  <2>3. mailbox'[s] \in Seq(LetterTo(s)) /\ Len(mailbox'[s]) <= Capacity
    BY <1>1, <2>2 DEF Mailboxes
  <2>4. \A t \in Server : mailbox'[t] \in Seq(LetterTo(t)) /\ Len(mailbox'[t]) <= Capacity
    BY Zenon, <2>2, <2>3 DEF Mailboxes
  <2> QED
    BY Zenon, <2>1, <2>4 DEF Mailboxes
<1>9. Calls'
  <2>1. \A c \in Caller : (Calling(c)' <=> Calling(c)) /\ (Calling(c) => c # s)
    <3>1. app' = app /\ task' = task
      BY Zenon DEF Take
    <3>2. ~handler[s].calling
      BY <1>1 DEF Idle
    <3>3. \A t \in Server : handler'[t].calling <=> handler[t].calling
      BY <1>6, <3>2
    <3>4. \A c \in Caller : Calling(c)' <=> Calling(c)
      BY <3>1, <3>3 DEF Calling
    <3>5. ~Calling(s)
      BY <3>2 DEF Calling, Server
    <3> QED
      BY Zenon, <3>4, <3>5
  <2>2. \A c \in Caller, t \in Server : Calling(c) => (Called(c, t)' <=> Called(c, t))
    BY <1>6, <2>1 DEF Called
  <2>3. CallsAreCalled'
    BY <2>1, <2>2, TakeAt DEF Calls, CallsAreCalled
  <2>4. CallsAreOne'
    BY TakeAt DEF Calls, CallsAreOne
  <2>5. CallsAreKept'
    <3>1. SUFFICES ASSUME NEW c \in Caller, Calling(c)
                   PROVE  \E t \in Server, i \in 0..Capacity : At(c, t, i)'
      BY <2>1 DEF CallsAreKept
    <3>2. PICK t \in Server, i \in 0..Capacity : At(c, t, i)
      BY <1>1, <3>1 DEF Calls, CallsAreKept
    <3>3. CASE t # s
      BY <3>2, <3>3, TakeAt
    <3>4. CASE t = s
      <4>1. i # 0
        BY <3>2, <3>4, TakeAt
      <4>2. PICK j \in 0..Capacity : i = j + 1
        BY <4>1
      <4> QED
        BY <3>2, <3>4, <4>2, TakeAt
    <3> QED
      BY Zenon, <3>3, <3>4
  <2> QED
    BY Zenon, <2>3, <2>4, <2>5 DEF Calls
<1>10. Flags' /\ DownIsIdle'
  BY Zenon, <1>1 DEF Take, Flags, DownIsIdle, notify
<1>11. CastsToMake' /\ Phases' /\ Acknowledging'
  BY DEF Take, CastsToMake, Phases, Acknowledging, notify
<1> QED
  BY Zenon, <1>7, <1>8, <1>9, <1>10, <1>11

\* A handler makes its next call or cast.
LEMMA SendKeeps ==
  ASSUME Inv, NEW s \in Server, Send(s)
  PROVE  Inv'
<1> USE DEF Inv
<1>1. /\ up /\ handler[s].sends # <<>> /\ ~handler[s].calling
      /\ HasRoom(Head(handler[s].sends).to)
  BY Zenon DEF Send, CanSend
<1>2. PICK next \in OrderOf(s) : next = Head(handler[s].sends)
  BY <1>1 DEF Handlers
<1>3. next.to \in Server /\ next.message \in Messages(next.to) /\ next.how \in {"call", "cast"}
  BY Zenon DEF OrderOf, Order
<1>4. PICK t \in Server : t = next.to
  BY Zenon, <1>3
<1>5. PICK from \in Client : from = IF next.how = "call" THEN s ELSE "nobody"
  BY Zenon DEF Client
<1>6. PICK l \in LetterTo(t) : l = [message |-> next.message, from |-> from] /\ l.from = from
  <2>1. [message |-> next.message, from |-> from] \in LetterTo(t)
    BY Zenon, <1>3, <1>4 DEF LetterTo
  <2> QED
    BY Zenon, <2>1
<1>7. /\ mailbox' = [mailbox EXCEPT ![t] = Append(@, l)]
      /\ handler' = IF next.how = "call" THEN [handler EXCEPT ![s].calling = TRUE]
                                         ELSE [handler EXCEPT ![s].sends = Tail(@)]
      /\ UNCHANGED <<up, receiving, ended, app, casts, task, permit, waiters, watched>>
  BY Zenon, <1>2, <1>4, <1>5, <1>6 DEF Send, notify
<1>8. /\ handler' \in [Server -> HandlerState]
      /\ handler'[s].caller = handler[s].caller
      /\ handler'[s].sends = IF next.how = "call" THEN handler[s].sends ELSE Tail(handler[s].sends)
      /\ handler'[s].calling = (next.how = "call")
      /\ \A r \in Server \ {s} : handler'[r] = handler[r]
  <2>1. handler[s] \in HandlerState /\ handler[s].sends \in Seq(Order)
    BY Zenon DEF Handlers, HandlerState
  <2>2. PICK q \in Seq(Order) : q = Tail(handler[s].sends)
    <3>1. Tail(handler[s].sends) \in Seq(Order)
      BY <1>1, <2>1
    <3> QED
      BY Zenon, <3>1
  <2>3. CASE next.how = "call"
    BY Zenon, <1>7, <2>1, <2>3 DEF Handlers, HandlerState
  <2>4. CASE next.how # "call"
    <3>1. handler' = [handler EXCEPT ![s].sends = q]
      BY <1>7, <2>2, <2>4, SMTT(20) DEF Handlers
    <3>2. handler[s].calling = FALSE
      BY <1>1, <2>1 DEF HandlerState
    <3> QED
      BY Zenon, <2>1, <2>2, <2>4, <3>1, <3>2 DEF Handlers, HandlerState
  <2> QED
    BY <2>3, <2>4
<1>9. Posts(t, l)
  BY <1>1, <1>2, <1>4, <1>7, <1>8 DEF Posts
<1>10. Mailboxes'
  BY <1>9, PostsMailboxes
<1>11. Handlers'
  <2>1. handler'[s].sends \in Seq(OrderOf(s))
    BY <1>1, <1>8, OrdersAreOrders DEF Handlers
  <2>2. handler'[s].calling => handler'[s].sends # <<>> /\ Head(handler'[s].sends).how = "call"
    BY Zenon, <1>1, <1>2, <1>8
  <2> QED
    BY Zenon, <1>8, <2>1, <2>2 DEF Handlers
<1>12. Calls'
  <2>1. ~Calling(s)
    BY <1>1 DEF Calling, Server
  <2>2. \A c \in Caller, r \in Server : Calling(c) => (Called(c, r)' <=> Called(c, r))
    BY <1>8, <2>1 DEF Called
  <2>3. CASE next.how = "call"
    <3>1. from = s /\ s \in Caller
      BY <1>5, <2>3 DEF Caller, Client, Server
    <3>2. \A c \in Caller : Calling(c)' <=> Calling(c) \/ c = s
      BY <1>7, <1>8, <2>1, <2>3 DEF Calling
    <3>3. Called(s, t)'
      BY <1>2, <1>4, <1>8, <2>3 DEF Called, Server
    <3> QED
      BY <1>1, <1>6, <1>9, <2>1, <2>2, <3>1, <3>2, <3>3, CallKeepsCalls
  <2>4. CASE next.how # "call"
    <3>1. \A c \in Caller : Calling(c)' <=> Calling(c)
      BY <1>1, <1>7, <1>8, <2>4 DEF Calling
    <3> QED
      BY <1>1, <1>5, <1>6, <1>9, <2>2, <2>4, <3>1, CastKeepsCalls
  <2> QED
    BY Zenon, <2>3, <2>4
<1>13. Flags' /\ DownIsIdle'
  BY <1>1, <1>7 DEF Flags, DownIsIdle
<1>14. CastsToMake' /\ Phases' /\ Acknowledging'
  BY <1>7 DEF CastsToMake, Phases, Acknowledging
<1> QED
  BY Zenon, <1>10, <1>11, <1>12, <1>13, <1>14

\* A handler ends and answers whoever called it.
LEMMA FinishKeeps ==
  ASSUME Inv, NEW s \in Server, Finish(s)
  PROVE  Inv'
<1> USE DEF Inv
<1>1. PICK c \in Caller :
        /\ c = handler[s].caller /\ c # s /\ At(c, s, 0) /\ Calling(c)
        /\ handler' \in [Server -> HandlerState]
        /\ handler'[s] = Idle
        /\ c \in Server => /\ handler'[c].caller = handler[c].caller
                           /\ handler'[c].sends = Tail(handler[c].sends)
                           /\ handler'[c].calling = FALSE
        /\ \A t \in Server \ {s, c} : handler'[t] = handler[t]
  BY Zenon, FinishHandlers
<1>2. /\ up /\ ~handler[s].calling
      /\ app' = IF c = "app" THEN "running" ELSE app
      /\ task' = IF c = "task" THEN "answered" ELSE task
      /\ ended' = (ended \/ c = "task")
      /\ UNCHANGED <<up, mailbox, receiving, casts, permit, waiters, watched>>
  BY <1>1 DEF Finish, CanFinish, notify, Handlers
<1>3. c \notin {"app", "task"} => c \in Server
  BY Zenon DEF Caller, Client
<1>4. (c = "app" => app = "calling") /\ (c = "task" => task = "calling")
  BY <1>1 DEF Calling, Server
<1>5. Mailboxes'
  BY <1>2 DEF Mailboxes
<1>6. Handlers'
  <2>1. handler'[s].sends \in Seq(OrderOf(s)) /\ ~handler'[s].calling
    BY <1>1 DEF Idle
  <2>2. CASE c \in Server
    <3>1. handler[c].sends # <<>>
      BY <1>1, <2>2 DEF Calling, Handlers, Server
    <3>2. handler'[c].sends \in Seq(OrderOf(c)) /\ ~handler'[c].calling
      BY Zenon, <1>1, <2>2, <3>1, OrdersAreOrders DEF Handlers
    <3> QED
      BY Zenon, <1>1, <2>1, <3>2 DEF Handlers
  <2>3. CASE c \notin Server
    BY <1>1, <2>1, <2>3 DEF Handlers
  <2> QED
    BY <2>2, <2>3
<1>7. Calls'
  <2>1. \A d \in Caller, t \in Server, i \in 0..Capacity :
          At(d, t, i)' <=> At(d, t, i) /\ ~(t = s /\ i = 0)
    <3>1. \A t \in Server \ {s} : handler'[t].caller = handler[t].caller
      BY <1>1
    <3>2. 0 \notin DOMAIN mailbox[s] /\ handler'[s].caller = "nobody"
      BY <1>1 DEF Mailboxes, Idle
    <3> QED
      BY <1>2, <3>1, <3>2 DEF At, Caller
  <2>2. \A d \in Caller : Calling(d)' <=> Calling(d) /\ d # c
    <3>1. ~handler'[s].calling
      BY <1>1 DEF Idle
    <3>2. \A t \in Server : handler'[t].calling <=> handler[t].calling /\ t # c
      BY <1>1, <1>2, <3>1
    <3>3. (app' = "calling" <=> app = "calling" /\ c # "app")
          /\ (task' = "calling" <=> task = "calling" /\ c # "task")
      BY <1>2
    <3> QED
      BY Zenon, <3>2, <3>3 DEF Calling
  <2>3. ~Calling(s)
    BY <1>2 DEF Calling, Server
  <2>4. \A d \in Caller, t \in Server : Calling(d) /\ d # c => (Called(d, t)' <=> Called(d, t))
    BY <1>1, <2>3 DEF Called
  <2>5. CallsAreCalled'
    <3>1. ASSUME NEW d \in Caller, NEW t \in Server, NEW i \in 0..Capacity, At(d, t, i)'
          PROVE  Calling(d)' /\ Called(d, t)'
      <4>1. At(d, t, i) /\ ~(t = s /\ i = 0)
        BY <2>1, <3>1
      <4>2. Calling(d) /\ Called(d, t)
        BY <4>1 DEF Calls, CallsAreCalled
      <4>3. d # c
        BY <1>1, <4>1 DEF Calls, CallsAreOne
      <4> QED
        BY <2>2, <2>4, <4>2, <4>3
    <3> QED
      BY <3>1 DEF CallsAreCalled
  <2>6. CallsAreOne'
    BY <2>1 DEF Calls, CallsAreOne
  <2>7. CallsAreKept'
    <3>1. ASSUME NEW d \in Caller, Calling(d)'
          PROVE  \E t \in Server, i \in 0..Capacity : At(d, t, i)'
      <4>1. Calling(d) /\ d # c
        BY <2>2, <3>1
      <4>2. PICK t \in Server, i \in 0..Capacity : At(d, t, i)
        BY <1>2, <4>1 DEF Calls, CallsAreKept
      <4>3. ~(t = s /\ i = 0)
        <5>1. 0 \notin DOMAIN mailbox[s]
          BY DEF Mailboxes
        <5> QED
          BY <1>1, <4>1, <4>2, <5>1 DEF At
      <4> QED
        BY <2>1, <4>2, <4>3
    <3> QED
      BY Zenon, <3>1 DEF CallsAreKept
  <2> QED
    BY <2>5, <2>6, <2>7 DEF Calls
<1>8. Flags' /\ DownIsIdle' /\ CastsToMake'
  BY <1>2 DEF Flags, DownIsIdle, CastsToMake, AppState, TaskState
<1>9. Phases'
  BY <1>2, <1>4 DEF Phases
<1>10. Acknowledging'
  BY Zenon, <1>2, <1>4 DEF Acknowledging
<1> QED
  BY Zenon, <1>5, <1>6, <1>7, <1>8, <1>9, <1>10

\* A message nobody waits for comes from a timer, a task or Server::run.
LEMMA ArrivalKeeps ==
  ASSUME Inv, NEW t \in Server, NEW m \in Messages(t), up, HasRoom(t),
         mailbox' = [mailbox EXCEPT ![t] = Append(@, [message |-> m, from |-> "nobody"])],
         UNCHANGED <<up, handler, receiving, ended>>,
         app' = "calling" <=> app = "calling", task' = "calling" <=> task = "calling"
  PROVE  Mailboxes' /\ Handlers' /\ Calls' /\ DownIsIdle'
<1> USE DEF Inv
<1>1. PICK l \in LetterTo(t) : l = [message |-> m, from |-> "nobody"] /\ l.from = "nobody"
  <2>1. [message |-> m, from |-> "nobody"] \in LetterTo(t)
    BY Zenon DEF LetterTo, Client
  <2> QED
    BY Zenon, <2>1
<1>2. Posts(t, l)
  BY <1>1 DEF Posts
<1>3. Mailboxes' /\ Handlers' /\ DownIsIdle'
  BY <1>2, PostsMailboxes DEF Handlers, DownIsIdle
<1>4. \A c \in Caller : /\ Calling(c)' <=> Calling(c)
                        /\ \A s \in Server : Called(c, s)' <=> Called(c, s)
  BY DEF Calling, Called
<1>5. Calls'
  BY <1>1, <1>2, <1>4, CastKeepsCalls
<1> QED
  BY Zenon, <1>3, <1>5

\* A packet or a timer puts a message into a mailbox.
LEMMA ArriveKeeps ==
  ASSUME Inv, NEW s \in Server, Arrive(s)
  PROVE  Inv'
<1>1. PICK m \in Timed(s) :
        mailbox' = [mailbox EXCEPT ![s] = Append(@, [message |-> m, from |-> "nobody"])]
  BY Zenon DEF Arrive
<1>2. m \in Messages(s)
  BY <1>1, MessagesOf DEF Timed, Server
<1>3. /\ up /\ HasRoom(s)
      /\ UNCHANGED <<up, handler, receiving, ended, app, casts, task, permit, waiters, watched>>
  BY Zenon DEF Arrive, notify
<1>4. Mailboxes' /\ Handlers' /\ Calls' /\ DownIsIdle'
  BY Zenon, <1>1, <1>2, <1>3, ArrivalKeeps
<1>5. Flags' /\ CastsToMake' /\ Phases' /\ Acknowledging'
  BY <1>3 DEF Inv, Flags, CastsToMake, Phases, Acknowledging
<1> QED
  BY <1>4, <1>5 DEF Inv

-----------------------------------------------------------------------------
(* The steps of the application and of the task keep the invariant *)

\* What may be in waiters.
LEMMA Waiters ==
  /\ <<"task">> # <<>> /\ Head(<<"task">>) = "task" /\ Tail(<<"task">>) = <<>>
  /\ <<"app">> # <<>> /\ Head(<<"app">>) = "app" /\ Tail(<<"app">>) = <<>>
  /\ <<"task">> # <<"app">>
  /\ Append(<<>>, "task") = <<"task">> /\ Append(<<>>, "app") = <<"app">>
OBVIOUS

\* What Server::run casts.
LEMMA StartupCasts ==
  /\ Startup \in Seq(Order) /\ Startup # <<>>
  /\ \A i \in DOMAIN Startup : Startup[i].message \in Messages(Startup[i].to)
<1>1. \A x \in {Cast("PM", "Note"), Cast("PH", "Note"), Cast("PH", "Start"), Cast("HS", "Note")} :
        x \in Order /\ x.message \in Messages(x.to)
  BY MessagesOf DEF Cast, Order, Server, AnyMessage
<1>2. Startup \in Seq({Cast("PM", "Note"), Cast("PH", "Note"), Cast("PH", "Start"),
                       Cast("HS", "Note")})
  BY DEF Startup
<1>3. Startup # <<>>
  BY Zenon DEF Startup
<1>4. PICK S : S = {Cast("PM", "Note"), Cast("PH", "Note"), Cast("PH", "Start"), Cast("HS", "Note")}
  BY Zenon
<1>5. Startup \in Seq(S) /\ S \subseteq Order /\ \A x \in S : x.message \in Messages(x.to)
  BY <1>1, <1>2, <1>4
<1>6. Startup \in Seq(Order) /\ \A i \in DOMAIN Startup : Startup[i] \in S
  BY <1>5
<1> QED
  BY Zenon, <1>3, <1>5, <1>6

\* Nothing is sent, and nobody's call begins or ends.
LEMMA QuietKeeps ==
  ASSUME Inv, UNCHANGED servers,
         app' = "calling" <=> app = "calling", task' = "calling" <=> task = "calling"
  PROVE  Mailboxes' /\ Handlers' /\ Calls' /\ DownIsIdle'
<1>1. UNCHANGED <<up, mailbox, handler>>
  BY Zenon DEF servers
<1>2. \A c \in Caller : /\ Calling(c)' <=> Calling(c)
                        /\ \A s \in Server : Called(c, s)' <=> Called(c, s)
                        /\ \A s \in Server, i \in 0..Capacity : At(c, s, i)' <=> At(c, s, i)
  BY <1>1 DEF Calling, Called, At
<1>3. CallsAreCalled' /\ CallsAreOne' /\ CallsAreKept'
  BY <1>1, <1>2 DEF Inv, Calls, CallsAreCalled, CallsAreOne, CallsAreKept
<1> QED
  BY <1>1, <1>3 DEF Inv, Mailboxes, Handlers, Calls, DownIsIdle

\* The servers are stopped: nothing is left of the calls.
LEMMA StopServersKeeps ==
  ASSUME Inv, StopServers
  PROVE  Mailboxes' /\ Handlers' /\ Calls' /\ DownIsIdle'
<1>1. /\ ~up' /\ mailbox' = [s \in Server |-> <<>>] /\ handler' = [s \in Server |-> Idle]
  BY Zenon DEF StopServers
<1>2. Idle \in HandlerState /\ Idle.sends = <<>> /\ ~Idle.calling /\ Idle.caller = "nobody"
  BY DEF Idle, HandlerState, Client
<1>3. Mailboxes'
  BY <1>1 DEF Mailboxes
<1>4. Handlers'
  <2>1. handler' \in [Server -> HandlerState] /\ \A s \in Server : handler'[s] = Idle
    BY Zenon, <1>1, <1>2
  <2>2. \A s \in Server : <<>> \in Seq(OrderOf(s))
    BY Zenon, ShortSends
  <2> QED
    BY Zenon, <1>2, <2>1, <2>2 DEF Handlers
<1>5. \A c \in Caller, s \in Server, i \in 0..Capacity : ~At(c, s, i)'
  BY <1>1, <1>2 DEF At, Caller
<1>6. Calls'
  BY <1>1, <1>5 DEF Calls, CallsAreCalled, CallsAreOne, CallsAreKept
<1> QED
  BY <1>1, <1>3, <1>4, <1>6 DEF DownIsIdle

\* Who waits for notify_shutdown.
LEMMA NotifyWakes ==
  ASSUME Inv
  PROVE  /\ Wakes("task") <=> task = "waiting"
         /\ Wakes("app") <=> app = "waiting"
         /\ NotifyOne => waiters' = <<>> /\ permit' = (task # "waiting" /\ app # "waiting")
BY Waiters DEF Inv, Phases, Wakes, NotifyOne

\* start, with the servers down: no call is there to be lost.
LEMMA StartKeeps ==
  ASSUME Inv, Start
  PROVE  Inv'
<1> USE DEF Inv
<1>1. ~up /\ app = "new" /\ task = "none" /\ ~permit
  BY DEF Start, Phases
<1>2. /\ up' = TRUE /\ app' = "starting" /\ casts' = Startup
      /\ UNCHANGED <<mailbox, handler, receiving, ended, task, permit, waiters, watched>>
  BY DEF Start, notify
<1>3. \A s \in Server : handler[s] = Idle /\ mailbox[s] = <<>>
  BY <1>1 DEF DownIsIdle
<1>4. \A c \in Caller, s \in Server, i \in 0..Capacity : ~At(c, s, i)'
  BY <1>2, <1>3 DEF At, Caller, Idle
<1>5. \A c \in Caller : ~Calling(c)'
  <2>1. \A s \in Server : ~handler'[s].calling
    BY <1>2, <1>3 DEF Idle
  <2> QED
    BY Zenon, <1>1, <1>2, <2>1 DEF Calling
<1>6. Calls'
  BY <1>4, <1>5 DEF Calls, CallsAreCalled, CallsAreOne, CallsAreKept
<1>7. Mailboxes' /\ Handlers' /\ DownIsIdle'
  BY Zenon, <1>2 DEF Mailboxes, Handlers, DownIsIdle
<1>8. CastsToMake'
  BY <1>2, StartupCasts DEF CastsToMake
<1>9. Flags' /\ Phases' /\ Acknowledging'
  BY <1>1, <1>2, Waiters DEF Flags, AppState, Phases, Acknowledging
<1> QED
  BY <1>6, <1>7, <1>8, <1>9

\* Gwyh::start returns the error of a bind that fails.
LEMMA BindFailsKeeps ==
  ASSUME Inv, BindFails
  PROVE  Inv'
<1>1. /\ app = "starting" /\ app' = "running" /\ casts' = <<>>
      /\ UNCHANGED <<servers, up, receiving, ended, task, permit, waiters, watched>>
  BY DEF BindFails, notify, servers
<1>2. Mailboxes' /\ Handlers' /\ Calls' /\ DownIsIdle'
  BY <1>1, QuietKeeps
<1>3. CastsToMake'
  BY <1>1 DEF CastsToMake
<1>4. Flags' /\ Phases' /\ Acknowledging'
  BY <1>1 DEF Inv, Flags, AppState, Phases, Acknowledging
<1> QED
  BY <1>2, <1>3, <1>4 DEF Inv

\* Server::run makes its next cast.
LEMMA RunKeeps ==
  ASSUME Inv, Run
  PROVE  Inv'
<1>1. app = "starting" /\ up /\ task = "none"
  BY DEF Run, Inv, Phases
<1>2. PICK q \in Seq(Order) : q = casts /\ q # <<>>
  BY <1>1 DEF Inv, CastsToMake
<1>3. /\ Head(q) = q[1] /\ 1 \in DOMAIN q /\ Head(q) \in Order /\ Tail(q) \in Seq(Order)
      /\ \A i \in DOMAIN Tail(q) : Tail(q)[i] = q[i + 1] /\ i + 1 \in DOMAIN q
  BY <1>2
<1>4. PICK t \in Server : t = Head(casts).to
  BY <1>2, <1>3 DEF Order
<1>5. PICK m \in Messages(t) : m = Head(casts).message
  BY <1>2, <1>3, <1>4 DEF Inv, CastsToMake
<1>6. /\ HasRoom(t)
      /\ mailbox' = [mailbox EXCEPT ![t] = Append(@, [message |-> m, from |-> "nobody"])]
      /\ casts' = Tail(q)
      /\ IF casts' = <<>> THEN app' = "running" /\ task' = "spawned"
                          ELSE UNCHANGED <<app, task>>
      /\ UNCHANGED <<up, handler, receiving, ended, permit, waiters, watched>>
  BY <1>2, <1>4, <1>5 DEF Run, notify
<1>7. Mailboxes' /\ Handlers' /\ Calls' /\ DownIsIdle'
  BY Zenon, <1>1, <1>6, ArrivalKeeps
<1>8. CastsToMake'
  BY <1>1, <1>2, <1>3, <1>6 DEF Inv, CastsToMake
<1>9. Flags' /\ Phases' /\ Acknowledging'
  BY <1>1, <1>6 DEF Inv, Flags, AppState, TaskState, Phases, Acknowledging
<1> QED
  BY <1>7, <1>8, <1>9 DEF Inv

\* broadcast and get_subscriber_count
LEMMA AppCallsKeeps ==
  ASSUME Inv, NEW t \in Server, "Note" \in Messages(t), AppCalls(t)
  PROVE  Inv'
<1> USE DEF Inv
<1>1. /\ app = "running" /\ app' = "calling" /\ up /\ HasRoom(t)
      /\ mailbox' = [mailbox EXCEPT ![t] = Append(@, [message |-> "Note", from |-> "app"])]
      /\ UNCHANGED <<up, handler, receiving, ended, casts, task, permit, waiters, watched>>
  BY DEF AppCalls, notify
<1>2. PICK l \in LetterTo(t) : l = [message |-> "Note", from |-> "app"] /\ l.from = "app"
  <2>1. [message |-> "Note", from |-> "app"] \in LetterTo(t)
    BY DEF LetterTo, Client
  <2> QED
    BY <2>1
<1>3. Posts(t, l)
  BY <1>1, <1>2 DEF Posts
<1>4. Mailboxes' /\ Handlers' /\ DownIsIdle'
  BY <1>1, <1>3, PostsMailboxes DEF Handlers, DownIsIdle
<1>5. Calls'
  <2>1. "app" \in Caller /\ ~Calling("app") /\ Called("app", t)'
    BY <1>1 DEF Caller, Client, Calling, Called, Server
  <2>2. \A c \in Caller : Calling(c)' <=> Calling(c) \/ c = "app"
    BY <1>1 DEF Calling
  <2>3. \A c \in Caller, s \in Server : Called(c, s)' <=> Called(c, s)
    BY <1>1 DEF Called
  <2> QED
    BY <1>1, <1>2, <1>3, <2>1, <2>2, <2>3, CallKeepsCalls
<1>6. Flags' /\ CastsToMake' /\ Phases' /\ Acknowledging'
  BY <1>1 DEF Flags, AppState, CastsToMake, Phases, Acknowledging
<1> QED
  BY <1>4, <1>5, <1>6

\* shutdown and drop notify, and shutdown waits.
LEMMA NotifyingKeeps ==
  ASSUME Inv, ShutDown \/ AwaitAcknowledgement \/ Drop
  PROVE  Inv'
<1>1. UNCHANGED <<servers, up, receiving, ended, casts>>
  BY Zenon DEF ShutDown, AwaitAcknowledgement, Drop, servers
<1>2. /\ app' # "calling" /\ app # "calling" /\ app' # "starting"
      /\ task' = "calling" <=> task = "calling"
  BY NotifyWakes DEF ShutDown, AwaitAcknowledgement, Drop
<1>3. Mailboxes' /\ Handlers' /\ Calls' /\ DownIsIdle'
  BY <1>1, <1>2, QuietKeeps
<1>4. CastsToMake'
  BY <1>1, <1>2 DEF Inv, CastsToMake
<1>5. CASE ShutDown
  <2>1. /\ app = "running" /\ app' = "notified" /\ up
        /\ waiters' = <<>> /\ permit' = (task # "waiting")
        /\ task' = IF task = "waiting" THEN "woken" ELSE task
        /\ watched' \in BOOLEAN /\ (watched' => task = "waiting")
    <3>1. app = "running" /\ app' = "notified" /\ up /\ NotifyOne
      BY <1>5 DEF ShutDown
    <3>2. task' = IF task = "waiting" THEN "woken" ELSE task
      BY <1>5, NotifyWakes DEF ShutDown
    <3>3. watched' \in BOOLEAN /\ (watched' => task = "waiting")
      BY Zenon, <1>5, NotifyWakes DEF ShutDown, Wakes
    <3>4. waiters' = <<>> /\ permit' = (task # "waiting")
      BY <3>1, NotifyWakes
    <3> QED
      BY <3>1, <3>2, <3>3, <3>4
  <2>2. task \in {"none", "spawned", "waiting"}
    BY <2>1 DEF Inv, Phases
  <2>3. Flags' /\ Phases' /\ Acknowledging'
    BY Zenon, <1>1, <2>1, <2>2, Waiters DEF Inv, Flags, AppState, TaskState, Phases, Acknowledging
  <2> QED
    BY <1>3, <1>4, <2>3 DEF Inv
<1>6. CASE AwaitAcknowledgement
  <2>1. app = "notified" /\ up /\ waiters = <<>> /\ task # "waiting"
    BY <1>6, Waiters DEF AwaitAcknowledgement, Inv, Phases
  <2>2. /\ app' = IF permit THEN "acknowledged" ELSE "waiting"
        /\ permit' = FALSE /\ waiters' = IF permit THEN <<>> ELSE <<"app">>
        /\ UNCHANGED <<task, watched>>
    BY <1>6, <2>1, Waiters DEF AwaitAcknowledgement, Notified
  <2>3. ~permit => task \in {"woken", "calling", "answered"}
    BY <2>1 DEF Inv, Phases, Flags, TaskState
  <2>4. Flags' /\ Phases' /\ Acknowledging'
    BY Zenon, <1>1, <2>1, <2>2, <2>3, Waiters DEF Inv, Flags, AppState, Phases, Acknowledging
  <2> QED
    BY <1>3, <1>4, <2>4 DEF Inv
<1>7. CASE Drop
  <2>1. /\ app' \in {"panicked", "dropping"} /\ app # "waiting"
        /\ waiters' = <<>> /\ permit' = (task # "waiting")
        /\ task' = IF task = "waiting" THEN "woken" ELSE task
        /\ watched' = watched
    BY <1>7, NotifyWakes DEF Drop
  <2>2. Flags' /\ Phases' /\ Acknowledging'
    BY <1>1, <2>1, Waiters DEF Inv, Flags, AppState, TaskState, Phases, Acknowledging
  <2> QED
    BY <1>3, <1>4, <2>2 DEF Inv
<1> QED
  BY Zenon, <1>5, <1>6, <1>7

\* The registry is shut down.
LEMMA StoppingKeeps ==
  ASSUME Inv, Stop \/ DropStops
  PROVE  Inv'
<1>1. /\ StopServers /\ ~up' /\ app' \in {"stopped", "dropped"} /\ app # "waiting"
      /\ app' = "stopped" => app = "acknowledged"
      /\ UNCHANGED <<receiving, ended, casts, task, permit, waiters, watched>>
  BY Zenon DEF Stop, DropStops, StopServers, notify
<1>2. Mailboxes' /\ Handlers' /\ Calls' /\ DownIsIdle'
  BY Zenon, <1>1, StopServersKeeps
<1>3. Flags'
  BY Zenon, <1>1 DEF StopServers, Inv, Flags, AppState
<1>4. CastsToMake' /\ Phases'
  BY <1>1 DEF Inv, CastsToMake, Phases
<1>5. Acknowledging'
  BY Zenon, <1>1 DEF Inv, Acknowledging
<1> QED
  BY Zenon, <1>2, <1>3, <1>4, <1>5 DEF Inv

\* The task of Server::run waits for the shutdown.
LEMMA TaskAwaitsKeeps ==
  ASSUME Inv, TaskAwaitsShutdown
  PROVE  Inv'
<1>1. task = "spawned" /\ waiters = <<>> /\ app # "waiting"
  BY Zenon, Waiters DEF TaskAwaitsShutdown, Inv, Phases
<1>2. /\ permit' = FALSE /\ waiters' = IF permit THEN <<>> ELSE <<"task">>
      /\ task' = IF permit THEN "woken" ELSE "waiting"
      /\ UNCHANGED <<servers, up, receiving, ended, app, casts, watched>>
  BY <1>1, Waiters DEF TaskAwaitsShutdown, Notified, servers
<1>3. Mailboxes' /\ Handlers' /\ Calls' /\ DownIsIdle'
  BY <1>1, <1>2, QuietKeeps
<1>4. Flags' /\ CastsToMake' /\ Phases' /\ Acknowledging'
  BY Zenon, <1>1, <1>2, Waiters DEF Inv, Flags, TaskState, CastsToMake, Phases, Acknowledging
<1> QED
  BY <1>3, <1>4 DEF Inv

\* The task that was woken calls the PeerManager with Shutdown.
LEMMA TaskShutsDownKeeps ==
  ASSUME Inv, TaskShutsDown
  PROVE  Inv'
<1> USE DEF Inv
<1>1. /\ task = "woken" /\ task' = IF up THEN "calling" ELSE "answered"
      /\ UNCHANGED <<up, handler, receiving, ended, app, casts, permit, waiters, watched>>
  BY Zenon DEF TaskShutsDown, notify
<1>2. CASE up
  <2>1. PICK t \in Server : t = "PM"
    BY Zenon DEF Server
  <2>2. PICK l \in LetterTo(t) : l = [message |-> "Shutdown", from |-> "task"] /\ l.from = "task"
    <3>1. [message |-> "Shutdown", from |-> "task"] \in LetterTo(t)
      BY <2>1, MessagesOf DEF LetterTo, Client
    <3> QED
      BY Zenon, <3>1
  <2>3. Posts(t, l)
    BY <1>1, <1>2, <2>1, <2>2 DEF TaskShutsDown, Posts
  <2>4. Mailboxes' /\ Handlers' /\ DownIsIdle'
    BY <1>1, <1>2, <2>3, PostsMailboxes DEF Handlers, DownIsIdle
  <2>5. "task" \in Caller /\ ~Calling("task") /\ Called("task", t)'
    BY <1>1, <2>1 DEF Caller, Client, Calling, Called, Server
  <2>6. \A c \in Caller : Calling(c)' <=> Calling(c) \/ c = "task"
    BY <1>1, <1>2 DEF Calling
  <2>7. \A c \in Caller, s \in Server : Called(c, s)' <=> Called(c, s)
    BY Zenon, <1>1 DEF Called
  <2>8. Calls'
    BY <1>2, <2>2, <2>3, <2>5, <2>6, <2>7, CallKeepsCalls
  <2> QED
    BY <2>4, <2>8, <1>1, <1>2 DEF Flags, TaskState, CastsToMake, Phases, Acknowledging
<1>3. CASE ~up
  <2>1. UNCHANGED servers
    BY Zenon, <1>1, <1>3 DEF TaskShutsDown, servers
  <2>2. Mailboxes' /\ Handlers' /\ Calls' /\ DownIsIdle'
    BY <1>1, <1>3, <2>1, QuietKeeps
  <2> QED
    BY <2>2, <1>1, <1>3 DEF Flags, TaskState, CastsToMake, Phases, Acknowledging
<1> QED
  BY <1>2, <1>3

\* The servers have ended, and the call with them.
LEMMA TaskCallFailsKeeps ==
  ASSUME Inv, TaskCallFails
  PROVE  Inv'
<1> USE DEF Inv
<1>1. /\ task = "calling" /\ ~up /\ task' = "answered"
      /\ UNCHANGED <<up, mailbox, handler, receiving, ended, app, casts, permit, waiters, watched>>
  BY Zenon DEF TaskCallFails, servers, notify
<1>2. \A c \in Caller, s \in Server, i \in 0..Capacity : ~At(c, s, i)'
  <2>1. \A s \in Server : handler[s] = Idle /\ mailbox[s] = <<>>
    BY Zenon, <1>1 DEF DownIsIdle
  <2> QED
    BY <1>1, <2>1 DEF At, Caller, Idle
<1>3. Calls'
  BY Zenon, <1>1, <1>2 DEF Calls, CallsAreCalled, CallsAreOne, CallsAreKept
<1>4. Mailboxes' /\ Handlers' /\ DownIsIdle'
  BY Zenon, <1>1 DEF Mailboxes, Handlers, DownIsIdle
<1>5. Flags' /\ CastsToMake' /\ Phases' /\ Acknowledging'
  BY <1>1 DEF Flags, TaskState, CastsToMake, Phases, Acknowledging
<1> QED
  BY <1>3, <1>4, <1>5

\* The task that has its answer notifies shutdown.
LEMMA TaskAcknowledgesKeeps ==
  ASSUME Inv, TaskAcknowledges
  PROVE  Inv'
<1>1. /\ task = "answered" /\ task' = "ended"
      /\ waiters' = <<>> /\ permit' = (app # "waiting")
      /\ app' = IF app = "waiting" THEN "acknowledged" ELSE app
      /\ UNCHANGED <<servers, up, receiving, ended, casts, watched>>
  BY Zenon, NotifyWakes DEF TaskAcknowledges, servers
<1>2. Mailboxes' /\ Handlers' /\ Calls' /\ DownIsIdle'
  BY <1>1, QuietKeeps
<1>3. Flags' /\ CastsToMake' /\ Phases' /\ Acknowledging'
  BY <1>1, Waiters DEF Inv, Flags, AppState, TaskState, CastsToMake, Phases, Acknowledging
<1> QED
  BY <1>2, <1>3 DEF Inv

-----------------------------------------------------------------------------
(* Results *)

\* The invariant: messages and sends are what their server handles and may
\* send; a call waits in exactly one place, and its caller waits for it; and the
\* application, the server's task and notify_shutdown keep step.
THEOREM NodeInvariant == Spec => []Inv
<1>1. Init => Inv
  <2> SUFFICES ASSUME Init PROVE Inv
    BY Zenon
  <2>1. /\ Idle \in HandlerState /\ Idle.sends = <<>> /\ ~Idle.calling
        /\ Idle.caller = "nobody"
    BY DEF Idle, HandlerState, Client
  <2>2. Flags /\ DownIsIdle /\ CastsToMake /\ Phases /\ Acknowledging
    <3>1. Flags /\ DownIsIdle
      BY Zenon DEF Init, Flags, AppState, TaskState, DownIsIdle
    <3>2. CastsToMake
      BY DEF Init, CastsToMake
    <3>3. Phases /\ Acknowledging
      BY Zenon, Waiters DEF Init, Phases, Acknowledging
    <3> QED
      BY Zenon, <3>1, <3>2, <3>3
  <2>3. Mailboxes
    BY DEF Init, Mailboxes
  <2>4. Handlers
    <3>1. handler \in [Server -> HandlerState] /\ \A s \in Server : handler[s] = Idle
      BY Zenon, <2>1 DEF Init
    <3>2. \A s \in Server : <<>> \in Seq(OrderOf(s))
      BY Zenon, ShortSends
    <3> QED
      BY Zenon, <2>1, <3>1, <3>2 DEF Handlers
  <2>5. \A c \in Caller, s \in Server, i \in 0..Capacity : ~At(c, s, i)
    BY <2>1 DEF Init, At, Caller
  <2>6. Calls
    BY <2>5 DEF Init, Calls, CallsAreCalled, CallsAreOne, CallsAreKept
  <2> QED
    BY Zenon, <2>2, <2>3, <2>4, <2>6 DEF Inv
<1>2. Inv /\ [Next]_vars => Inv'
  <2> SUFFICES ASSUME Inv, [Next]_vars PROVE Inv'
    OBVIOUS
  <2>1. CASE \E s \in Server : Take(s)
    BY <2>1, TakeKeeps
  <2>2. CASE \E s \in Server : Send(s)
    BY <2>2, SendKeeps
  <2>3. CASE \E s \in Server : Finish(s)
    BY <2>3, FinishKeeps
  <2>4. CASE \E s \in Server : Arrive(s)
    BY <2>4, ArriveKeeps
  <2>5. CASE Start
    BY <2>5, StartKeeps
  <2>6. CASE BindFails
    BY <2>6, BindFailsKeeps
  <2>7. CASE Run
    BY <2>7, RunKeeps
  <2>8. CASE Broadcast \/ GetSubscriberCount
    BY <2>8, AppCallsKeeps, MessagesOf DEF Broadcast, GetSubscriberCount, Server
  <2>9. CASE ShutDown \/ AwaitAcknowledgement \/ Drop
    BY <2>9, NotifyingKeeps
  <2>10. CASE Stop \/ DropStops
    BY <2>10, StoppingKeeps
  <2>11. CASE ServerTask
    BY <2>11, TaskAwaitsKeeps, TaskShutsDownKeeps, TaskCallFailsKeeps, TaskAcknowledgesKeeps
       DEF ServerTask
  <2>12. CASE UNCHANGED vars
    <3>1. UNCHANGED <<servers, up, receiving, ended, app, casts, task, permit, waiters, watched>>
      BY Zenon, <2>12 DEF vars, servers, notify
    <3>2. Mailboxes' /\ Handlers' /\ Calls' /\ DownIsIdle'
      BY Zenon, <3>1, QuietKeeps
    <3> QED
      BY <3>1, <3>2 DEF Inv, Flags, CastsToMake, Phases, Acknowledging
  <2> QED
    BY <2>1, <2>2, <2>3, <2>4, <2>5, <2>6, <2>7, <2>8, <2>9, <2>10, <2>11, <2>12 DEF Next
<1> QED
  BY <1>1, <1>2, PTL DEF Spec

\* Mailboxes keep their capacity and hold only what their server handles, and
\* of notify_shutdown's two users at most one waits.
THEOREM NodeTypes == Spec => []TypeOK
<1>1. Inv => TypeOK
  <2> SUFFICES ASSUME Inv PROVE TypeOK
    OBVIOUS
  <2>1. \A s \in Server : mailbox[s] \in Seq([message : Messages(s), from : Client])
    BY DEF Inv, Mailboxes, LetterTo
  <2>2. \A s \in Server : Len(mailbox[s]) <= Capacity /\ handler[s].caller \in Client
    BY DEF Inv, Mailboxes, Handlers, HandlerState
  <2> QED
    BY <2>1, <2>2 DEF Inv, Flags, AppState, TaskState, Phases, TypeOK
<1> QED
  BY <1>1, NodeInvariant, PTL

\* The calls between the servers go one way: servers that wait for each other
\* in a circle wait for room in a mailbox, or the PacketHandler for itself.
THEOREM CirclesAreOfFullMailboxes == Spec => []CirclesNeedFullMailbox
<1>1. Inv => CirclesNeedFullMailbox
  <2> SUFFICES ASSUME Inv, NEW S \in SUBSET Server, CircularWait(S),
                      \A s \in S : handler[s].calling
               PROVE  handler["PH"].calling /\ WaitsFor("PH") = {"PH"}
    BY DEF CirclesNeedFullMailbox
  <2>1. ASSUME NEW s \in S
        PROVE  \E t \in S : t \in MayCall(s) /\ WaitsFor(s) = {t}
    <3>1. handler[s].sends # <<>> /\ Head(handler[s].sends).how = "call"
      BY Zenon DEF Inv, Handlers
    <3>2. Head(handler[s].sends) \in OrderOf(s)
      BY <3>1 DEF Inv, Handlers
    <3>3. WaitsFor(s) = {Head(handler[s].sends).to}
      BY Zenon, <3>1 DEF WaitsFor
    <3>4. Head(handler[s].sends).to \in MayCall(s)
      BY Zenon, <3>1, <3>2 DEF OrderOf
    <3> QED
      BY <3>3, <3>4 DEF CircularWait
  <2>2. "PH" \in S
    <3>1. "PM" \in S => "PH" \in S
      BY <2>1 DEF MayCall
    <3>2. "HS" \in S => "PH" \in S
      BY <2>1, <3>1 DEF MayCall
    <3> QED
      BY Zenon, <3>1, <3>2 DEF CircularWait, Server
  <2> QED
    BY <2>1, <2>2 DEF MayCall
<1> QED
  BY <1>1, NodeInvariant, PTL

\* A shutdown the server's task was waiting for returns only after the
\* PeerManager has answered that its subscriptions have ended.
THEOREM ShutdownAcknowledged == Spec => []ShutdownIsAcknowledged
<1>1. Inv => ShutdownIsAcknowledged
  BY DEF Inv, Acknowledging, ShutdownIsAcknowledged
<1> QED
  BY <1>1, NodeInvariant, PTL

\* While shutdown waits for its acknowledgement, the server's task or a server
\* can take a step, unless servers wait for each other in a circle.
THEOREM AcknowledgementIsNotLost == Spec => []ShutdownGoesOn
<1>1. Inv => ShutdownGoesOn
  <2> SUFFICES ASSUME Inv, app = "waiting", ~TaskCanGoOn,
                      \A s \in Server : ~CanTake(s) /\ ~CanSend(s) /\ ~CanFinish(s)
               PROVE  Jammed
    BY Zenon DEF ShutdownGoesOn
  <2>1. up /\ task \in {"woken", "calling"}
    BY Zenon DEF Inv, Phases, TaskCanGoOn
  <2> DEFINE Busy(s) == handler[s] # Idle \/ mailbox[s] # <<>>
  <2>2. ASSUME NEW t \in Server, NEW c \in Caller, NEW i \in 0..Capacity, At(c, t, i)
        PROVE  Busy(t)
    BY <2>2 DEF At, Idle, Caller
  <2>3. ASSUME NEW t \in Server, ~HasRoom(t) PROVE Busy(t)
    BY <2>3 DEF HasRoom
  <2>4. Busy("PM")
    <3>1. CASE task = "woken"
      BY <2>1, <2>3, <3>1 DEF TaskCanGoOn, Server
    <3>2. CASE task = "calling"
      <4>1. "task" \in Caller /\ Calling("task")
        BY <3>2 DEF Caller, Client, Calling, Server
      <4>2. PICK t \in Server, i \in 0..Capacity : At("task", t, i)
        BY <2>1, <4>1 DEF Inv, Calls, CallsAreKept
      <4>3. t = "PM"
        BY <4>1, <4>2 DEF Inv, Calls, CallsAreCalled, Called
      <4> QED
        BY <2>2, <4>1, <4>2, <4>3
    <3> QED
      BY <2>1, <3>1, <3>2
  <2>5. ASSUME NEW s \in Server, Busy(s)
        PROVE  \E t \in Server : Busy(t) /\ WaitsFor(s) = {t}
    <3>1. handler[s] # Idle
      BY <2>1, <2>5 DEF CanTake
    <3>2. handler[s].sends # <<>>
      <4>1. SUFFICES ASSUME handler[s].sends = <<>> PROVE handler[s] = Idle
        BY <3>1
      <4>2. handler[s] \in HandlerState /\ handler[s].caller = "nobody"
        BY Zenon, <2>1, <4>1 DEF CanFinish, Inv, Handlers
      <4>3. handler[s].calling = FALSE
        BY <4>1, <4>2 DEF Inv, Handlers, HandlerState
      <4> QED
        BY Zenon, <4>1, <4>2, <4>3 DEF HandlerState, Idle
    <3>3. PICK t \in Server : t = Head(handler[s].sends).to
      <4>1. Head(handler[s].sends) \in OrderOf(s)
        BY <3>2 DEF Inv, Handlers
      <4> QED
        BY <4>1 DEF OrderOf, Order
    <3>4. CASE handler[s].calling
      <4>1. WaitsFor(s) = {t}
        BY Zenon, <3>2, <3>3, <3>4 DEF WaitsFor
      <4>2. s \in Caller /\ Calling(s)
        BY Zenon, <3>4 DEF Caller, Client, Server, Calling
      <4>3. PICK r \in Server, i \in 0..Capacity : At(s, r, i)
        BY Zenon, <2>1, <4>2 DEF Inv, Calls, CallsAreKept
      <4>4. r = t
        BY Zenon, <3>3, <4>2, <4>3 DEF Inv, Calls, CallsAreCalled, Called
      <4> QED
        BY Zenon, <2>2, <4>1, <4>2, <4>3, <4>4
    <3>5. CASE ~handler[s].calling
      <4>1. ~HasRoom(t)
        BY <2>1, <3>2, <3>3, <3>5 DEF CanSend
      <4>2. WaitsFor(s) = {t}
        BY <3>2, <3>3, <4>1 DEF WaitsFor
      <4> QED
        BY <2>3, <4>1, <4>2
    <3> QED
      BY <3>4, <3>5
  <2>6. PICK S \in SUBSET Server : S = {s \in Server : Busy(s)}
    BY Zenon
  <2> HIDE DEF Busy
  <2>7. CircularWait(S)
    BY <2>4, <2>5, <2>6 DEF CircularWait, Server
  <2> QED
    BY <2>7 DEF Jammed
<1> QED
  BY <1>1, NodeInvariant, PTL
=============================================================================
