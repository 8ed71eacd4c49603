---------------------------- MODULE Subscription ----------------------------
(***************************************************************************)
(* One subscription from end to end: alice subscribes to bob.  It is kept  *)
(* by the Handshakers, PeerManagers and PacketHandlers of both and by the  *)
(* network between them, and each part is reduced to what concerns it.     *)
(*                                                                         *)
(* Alice has no other peer.  Her PeerManager has its mailbox; the handlers *)
(* of bob's servers follow at once upon a packet (their interleavings are  *)
(* the subject of PeerManager).  A handshake makes one pair of keys, taken *)
(* by the responder first and by the initiator when the GoTeam arrives;    *)
(* MatchingKeys of Handshake says that they are the same pair.  A packet   *)
(* is opened only with the keys it was closed with.                        *)
(*                                                                         *)
(* A watchdog lasts for three heartbeat intervals.  So it fires when no    *)
(* heartbeats come any more, and it may fire when three in a row are late. *)
(***************************************************************************)
EXTENDS Integers, Sequences

CONSTANTS
  None,               \* no keys, or no handshake
  PeerSubscriptions,  \* NodeInfo.peer_subscriptions
  Key,                \* pairs of keys; what nobody has any more is as good as new
  MaxMailbox,         \* bound: messages waiting for alice's PeerManager
  MaxLoss,            \* bound: packets lost, those of handshakes included
  MaxLate,            \* bound: watchdogs and ticks that come before what they wait for
  MaxDown,            \* bound: statuses that mark one of them down at the other
  MaxGreeting         \* bound: handshakes that bob starts

ASSUME SubscriptionAssumption ==
  /\ PeerSubscriptions \in Nat \ {0}
  /\ MaxMailbox \in Nat \ {0}
  /\ MaxLoss \in Nat /\ MaxLate \in Nat /\ MaxDown \in Nat /\ MaxGreeting \in Nat

Homie == {"alice", "bob"}

VARIABLES
  keys,            \* the keys each of them has of the other, in known and in the PacketHandler
  subscribed,      \* alice, subscribed_to: does it have bob?
  watchdog,        \* alice, heartbeat_watchdogs: is bob's running?
  reassign_timer,  \* alice, reassign_timer: is it running?
  bootstrap,       \* alice, Handshaker: has it been told to bootstrap?
  mailbox,         \* alice, PeerManager: its mailbox
  subscriber,      \* bob, PeerManager: is alice one of the subscribers?
  broadcasting,    \* bob, PacketHandler: is alice one of the subscribers?
  alive,           \* has bob not crashed?
  handshake,       \* the handshake under way
  net,             \* packets under way: what is asked or answered, with which keys
  faults,          \* what has gone wrong so far
  stray            \* history: did alice take a SubscriptionStarted of an unknown bob?

alice == <<subscribed, watchdog, reassign_timer, bootstrap, mailbox, stray>>
bob   == <<subscriber, broadcasting, alive>>
vars  == <<keys, alice, bob, handshake, net, faults>>

Other(n) == IF n = "alice" THEN "bob" ELSE "alice"

Message == [type : {"Up"}, keys : Key]
           \cup [type : {"Down", "SubscriptionStarted", "Heartbeat", "Reassign"}]
Packet  == [type : {"StartSubscription", "SubscriptionStarted"}, keys : Key]

\* The stages of a handshake: until the OkBoss is there, while alice's
\* Handshaker calls her PeerManager, and until the GoTeam is there.
Handshake == [initiator : Homie, keys : Key, stage : {"okboss", "calling", "goteam"}]

Faults == [loss : 0..MaxLoss, late : 0..MaxLate, down : 0..MaxDown, greeting : 0..MaxGreeting]

ASSUME NoneAssumption == None \notin Key /\ None \notin Handshake

-----------------------------------------------------------------------------
(* Alice's PeerManager: the handlers, for the message m *)

\* start_reassign_timer, with sub telling whether alice is subscribed.
StartReassignTimer(sub) ==
  reassign_timer' = (reassign_timer \/ (IF sub THEN 1 ELSE 0) < PeerSubscriptions)

\* add_peer, called by the Handshaker, which then sends the GoTeam or is done.
AddPeer(m) ==
  /\ m.type = "Up"
  /\ keys' = [keys EXCEPT !["alice"] = m.keys]
  /\ handshake' = IF handshake.initiator = "alice" THEN None ELSE [handshake EXCEPT !.stage = "goteam"]
  /\ StartReassignTimer(subscribed)
  /\ UNCHANGED <<subscribed, watchdog, net>>

\* remove_peer
RemovePeer(m) ==
  /\ m.type = "Down"
  /\ keys' = [keys EXCEPT !["alice"] = None]
  /\ subscribed' = FALSE
  /\ watchdog' = FALSE
  /\ StartReassignTimer(FALSE)
  /\ UNCHANGED <<handshake, net>>

\* Mutant: the watchdog is armed without a look at the known peers.
ResetWatchdogUnknown(sub) == watchdog' = sub

\* reset_heartbeat_watchdog, with sub telling whether alice is subscribed.
ResetWatchdog(sub) == watchdog' = (sub /\ keys["alice"] # None)

\* Mutant: the new subscription gets no watchdog.
SubscriptionStartedUnwatched(m) ==
  /\ m.type = "SubscriptionStarted"
  /\ subscribed' = TRUE
  /\ UNCHANGED <<keys, watchdog, reassign_timer, handshake, net>>

\* subscription_started
SubscriptionStarted(m) ==
  /\ m.type = "SubscriptionStarted"
  /\ subscribed' = TRUE
  /\ ResetWatchdog(TRUE)
  /\ UNCHANGED <<keys, reassign_timer, handshake, net>>

Heartbeat(m) ==
  /\ m.type = "Heartbeat"
  /\ ResetWatchdog(subscribed)
  /\ UNCHANGED <<keys, subscribed, reassign_timer, handshake, net>>

\* reassign: bob is chosen if he is known.  If he is not, the EndSubscription
\* to him is not sent, for want of keys.
Reassign(m) ==
  /\ m.type = "Reassign"
  /\ IF keys["alice"] # None
     THEN /\ net' = IF subscribed THEN net
                    ELSE net \cup {[type |-> "StartSubscription", keys |-> keys["alice"]]}
          /\ UNCHANGED <<subscribed, watchdog>>
     ELSE /\ subscribed' = FALSE
          /\ watchdog' = FALSE
          /\ UNCHANGED net
  /\ UNCHANGED <<keys, reassign_timer, handshake>>

HandleMessage ==
  /\ mailbox # <<>>
  /\ mailbox' = Tail(mailbox)
  /\ LET m == Head(mailbox)
     IN  AddPeer(m) \/ RemovePeer(m) \/ SubscriptionStarted(m) \/ Heartbeat(m) \/ Reassign(m)
  /\ stray' = (stray \/ (Head(mailbox).type = "SubscriptionStarted" /\ keys["alice"] = None))
  /\ UNCHANGED <<bootstrap, bob, faults>>

-----------------------------------------------------------------------------
(* Alice's timers, and what else comes into her mailbox *)

\* Mutant: the sender does not wait for room.
CastUnbounded(m) == mailbox' = Append(mailbox, m)

\* call or cast to alice's PeerManager.
Cast(m) ==
  /\ Len(mailbox) < MaxMailbox
  /\ mailbox' = Append(mailbox, m)

ReassignTimerFires ==
  /\ reassign_timer
  /\ Cast([type |-> "Reassign"])
  /\ reassign_timer' = FALSE
  /\ UNCHANGED <<keys, subscribed, watchdog, bootstrap, bob, handshake, net, faults, stray>>

\* Bob sends heartbeats to his subscribers, and alice can open them.
Heartbeats == alive /\ subscriber /\ keys["bob"] # None /\ keys["bob"] = keys["alice"]

HeartbeatArrives ==
  /\ Heartbeats
  /\ Cast([type |-> "Heartbeat"])
  /\ UNCHANGED <<keys, subscribed, watchdog, reassign_timer, bootstrap, bob, handshake, net, faults, stray>>

\* The watchdog casts Down.
WatchdogFires ==
  /\ watchdog
  /\ IF Heartbeats THEN /\ faults.late < MaxLate
                        /\ faults' = [faults EXCEPT !.late = @ + 1]
                   ELSE UNCHANGED faults
  /\ Cast([type |-> "Down"])
  /\ watchdog' = FALSE
  /\ UNCHANGED <<keys, subscribed, reassign_timer, bootstrap, bob, handshake, net, stray>>

\* Somebody else tells alice that bob is down.
DownArrives ==
  /\ faults.down < MaxDown
  /\ faults' = [faults EXCEPT !.down = @ + 1]
  /\ Cast([type |-> "Down"])
  /\ UNCHANGED <<keys, subscribed, watchdog, reassign_timer, bootstrap, bob, handshake, net, stray>>

\* Nothing is under way between the two but heartbeats.
Quiet ==
  /\ handshake = None /\ net = {} /\ ~reassign_timer
  /\ \A i \in DOMAIN mailbox : mailbox[i].type = "Heartbeat"

\* The heartbeat interval ticks.  A handshake and the reassignment after it are
\* mostly over by then.  The delays drawn for them may add up to a little more
\* than the interval, and are drawn anew each time: MaxLate bounds how often.
Tick ==
  /\ IF Quiet THEN UNCHANGED faults
     ELSE /\ faults.late < MaxLate
          /\ faults' = [faults EXCEPT !.late = @ + 1]
  /\ UNCHANGED <<keys, subscribed, watchdog, reassign_timer, mailbox, bob, handshake, net, stray>>

\* Mutant: a node that has keys is not taken for an island.
SendHeartbeatUnlessKnown ==
  /\ ~subscribed /\ keys["alice"] = None
  /\ bootstrap' = TRUE
  /\ Tick

\* send_heartbeat: without a subscription, the Handshaker is to bootstrap.
SendHeartbeat ==
  /\ ~subscribed
  /\ bootstrap' = TRUE
  /\ Tick

-----------------------------------------------------------------------------
(* Handshakes *)

Unused ==
  {k \in Key : /\ k \notin {keys["alice"], keys["bob"]}
               /\ handshake # None => handshake.keys # k
               /\ \A p \in net : p.keys # k}

\* n sends a Hello.
Greet(n) ==
  /\ handshake = None /\ Unused # {}
  /\ handshake' = [initiator |-> n, keys |-> CHOOSE k \in Unused : TRUE, stage |-> "okboss"]
  /\ UNCHANGED <<keys, subscribed, watchdog, reassign_timer, mailbox, bob, net, stray>>

\* bootstrap, alice's: bob is one of her bootstrap peers.
Bootstraps ==
  /\ bootstrap /\ alive
  /\ bootstrap' = FALSE
  /\ Greet("alice")
  /\ UNCHANGED faults

\* Bob greets alice, to bootstrap or to subscribe to her in his turn.
BobGreets ==
  /\ alive /\ faults.greeting < MaxGreeting
  /\ faults' = [faults EXCEPT !.greeting = @ + 1]
  /\ Greet("bob")
  /\ UNCHANGED bootstrap

\* n takes the keys of the handshake: bob at once, alice when her PeerManager
\* has handled the call.  The responder then sends the GoTeam.
TakeKeys(n) ==
  IF n = "alice"
  THEN /\ Cast([type |-> "Up", keys |-> handshake.keys])
       /\ handshake' = [handshake EXCEPT !.stage = "calling"]
       /\ UNCHANGED keys
  ELSE /\ alive
       /\ keys' = [keys EXCEPT !["bob"] = handshake.keys]
       /\ handshake' = IF handshake.initiator = "bob" THEN None
                                                      ELSE [handshake EXCEPT !.stage = "goteam"]
       /\ UNCHANGED mailbox

\* The responder gets the OkBoss.
OkBossArrives ==
  /\ handshake # None /\ handshake.stage = "okboss"
  /\ TakeKeys(Other(handshake.initiator))
  /\ UNCHANGED <<subscribed, watchdog, reassign_timer, bootstrap, bob, net, faults, stray>>

\* The initiator gets the GoTeam.
GoTeamArrives ==
  /\ handshake # None /\ handshake.stage = "goteam"
  /\ TakeKeys(handshake.initiator)
  /\ UNCHANGED <<subscribed, watchdog, reassign_timer, bootstrap, bob, net, faults, stray>>

\* A packet of the handshake is lost, or bob is not there to answer it.
HandshakeFails ==
  /\ handshake # None /\ handshake.stage # "calling"
  /\ IF alive THEN /\ faults.loss < MaxLoss
                   /\ faults' = [faults EXCEPT !.loss = @ + 1]
              ELSE UNCHANGED faults
  /\ handshake' = None
  /\ UNCHANGED <<keys, alice, bob, net>>

-----------------------------------------------------------------------------
(* The packets of the subscription *)

\* Mutant: the PacketHandler is not told of the new subscriber.
StartSubscriptionNotBroadcast(p) ==
  /\ p.type = "StartSubscription" /\ alive
  /\ IF p.keys = keys["bob"]
     THEN /\ subscriber' = TRUE
          /\ net' = (net \ {p}) \cup {[type |-> "SubscriptionStarted", keys |-> p.keys]}
     ELSE /\ net' = net \ {p}
          /\ UNCHANGED subscriber
  /\ UNCHANGED <<keys, alice, broadcasting, alive, handshake, faults>>

\* bob's PacketHandler opens it and his PeerManager answers: start_subscription
StartSubscriptionArrives(p) ==
  /\ p.type = "StartSubscription" /\ alive
  /\ IF p.keys = keys["bob"]
     THEN /\ subscriber' = TRUE
          /\ broadcasting' = TRUE
          /\ net' = (net \ {p}) \cup {[type |-> "SubscriptionStarted", keys |-> p.keys]}
     ELSE /\ net' = net \ {p}
          /\ UNCHANGED <<subscriber, broadcasting>>
  /\ UNCHANGED <<keys, alice, alive, handshake, faults>>

\* alice's PacketHandler opens it and casts it to her PeerManager.
SubscriptionStartedArrives(p) ==
  /\ p.type = "SubscriptionStarted"
  /\ net' = net \ {p}
  /\ IF p.keys = keys["alice"] THEN Cast([type |-> "SubscriptionStarted"])
                               ELSE UNCHANGED mailbox
  /\ UNCHANGED <<keys, subscribed, watchdog, reassign_timer, bootstrap, bob, handshake, faults, stray>>

Lose(p) ==
  /\ IF p.type = "StartSubscription" /\ ~alive
     THEN UNCHANGED faults
     ELSE /\ faults.loss < MaxLoss
          /\ faults' = [faults EXCEPT !.loss = @ + 1]
  /\ net' = net \ {p}
  /\ UNCHANGED <<keys, alice, bob, handshake>>

-----------------------------------------------------------------------------
(* What happens to bob *)

\* Bob is told that alice is down: remove_peer.  The PacketHandler is sent
\* the subscribers as they were before.
BobRemovesAlice ==
  /\ alive /\ faults.down < MaxDown
  /\ faults' = [faults EXCEPT !.down = @ + 1]
  /\ broadcasting' = subscriber
  /\ subscriber' = FALSE
  /\ keys' = [keys EXCEPT !["bob"] = None]
  /\ UNCHANGED <<alice, alive, handshake, net>>

\* Nothing of bob is heard of any more.
Crash ==
  /\ alive
  /\ alive' = FALSE
  /\ UNCHANGED <<keys, alice, subscriber, broadcasting, handshake, net, faults>>

-----------------------------------------------------------------------------
Init ==
  /\ keys = [n \in Homie |-> None]
  /\ subscribed = FALSE /\ watchdog = FALSE /\ reassign_timer = FALSE
  /\ bootstrap = TRUE
  /\ mailbox = <<>>
  /\ subscriber = FALSE /\ broadcasting = FALSE /\ alive = TRUE
  /\ handshake = None
  /\ net = {}
  /\ stray = FALSE
  /\ faults = [loss |-> 0, late |-> 0, down |-> 0, greeting |-> 0]

Next ==
  \/ HandleMessage
  \/ ReassignTimerFires
  \/ HeartbeatArrives
  \/ WatchdogFires
  \/ DownArrives
  \/ SendHeartbeat
  \/ Bootstraps
  \/ BobGreets
  \/ OkBossArrives
  \/ GoTeamArrives
  \/ HandshakeFails
  \/ \E p \in net : StartSubscriptionArrives(p) \/ SubscriptionStartedArrives(p) \/ Lose(p)
  \/ BobRemovesAlice
  \/ Crash

\* The PeerManager takes its messages and the timers run out; a task that
\* waits for room in the mailbox gets it in its turn, whoever else casts.
\* A packet that is not lost arrives, and an unanswered handshake expires.
Fairness ==
  /\ WF_vars(HandleMessage)
  /\ SF_vars(ReassignTimerFires)
  /\ SF_vars(WatchdogFires)
  /\ SF_vars(HeartbeatArrives)
  /\ WF_vars(SendHeartbeat)
  /\ WF_vars(Bootstraps)
  /\ SF_vars(OkBossArrives) /\ SF_vars(GoTeamArrives)
  /\ WF_vars(HandshakeFails /\ ~alive)
  /\ SF_vars(\E p \in net : StartSubscriptionArrives(p) \/ SubscriptionStartedArrives(p))

Spec == Init /\ [][Next]_vars /\ Fairness

-----------------------------------------------------------------------------
(* Properties *)

\* The variables have their types and the mailbox of the PeerManager its bound.
TypeOK ==
  /\ keys \in [Homie -> Key \cup {None}]
  /\ {subscribed, watchdog, reassign_timer, bootstrap, stray} \subseteq BOOLEAN
  /\ mailbox \in Seq(Message) /\ Len(mailbox) <= MaxMailbox
  /\ {subscriber, broadcasting, alive} \subseteq BOOLEAN
  /\ handshake \in Handshake \cup {None}
  /\ net \subseteq Packet
  /\ faults \in Faults

\* A watchdog runs only for a bob that alice knows and is subscribed to, in
\* whatever order her PeerManager gets statuses, answers and heartbeats: so she
\* marks nobody down for heartbeats that nobody owes her.
WatchdogGuardsSubscription == watchdog => subscribed /\ keys["alice"] # None

Waiting(type) == \E i \in DOMAIN mailbox : mailbox[i].type = type

\* A subscription of alice's has a watchdog, or the Down of its watchdog is in
\* her mailbox, unless she took a SubscriptionStarted of a bob she did not
\* know: whatever order statuses, answers, heartbeats and timers come in,
\* nothing else leaves a subscription that nobody watches.
UnwatchedIsStray == subscribed => watchdog \/ stray \/ Waiting("Down")

\* As long as neither was wrongly told that the other is down, alice never takes
\* herself for subscribed while bob does not broadcast to her: he has answered
\* as the last step of start_subscription, and neither new keys nor the Down of
\* her watchdog take her from his subscribers.
SubscribedIsServed == subscribed /\ faults.down = 0 => subscriber /\ broadcasting

\* Alice gets the broadcasts of bob and would notice if they ended.
Served ==
  /\ subscribed /\ watchdog
  /\ subscriber /\ broadcasting
  /\ keys["alice"] # None /\ keys["alice"] = keys["bob"]

\* A SubscriptionStarted that came after a Down has left alice with a
\* subscription, no watchdog on it and no heartbeats.
Unwatched == stray /\ subscribed /\ ~watchdog /\ ~Heartbeats

\* Whatever is lost, late or wrongly reported, once that has ended the two
\* find back to a subscription with the same keys at both ends and a watchdog
\* on it, without any help: send_heartbeat bootstraps a node that has none.
\* And alice drops a bob that has crashed.  Only a stray SubscriptionStarted
\* can keep her from it.
Heals == <>[](IF alive THEN Served ELSE ~subscribed) \/ <>[]Unwatched

\* "When 3 consecutive heartbeats are missed, a peer is marked as DOWN"
\* (docs/PROTOCOL.md:137-138): there are heartbeats again and again, or there
\* is no subscription.
MissedIsDown == []<>(Heartbeats \/ ~subscribed)

=============================================================================
