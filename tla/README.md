# A TLA+ model of gwyh

gwyh is a library for gossip over UDP. Nodes ("homies") shake hands with a
pre-shared key, learn of each other, subscribe to some peers and pass broadcasts
on to their own subscribers. Source paths below are relative to the repository.

## The system

Every node runs three GenServers. Each has a mailbox and handles one message at a
time; a `call` waits for the answer, a `cast` only for room in the mailbox.

| part | state | operations | hard behaviour |
|---|---|---|---|
| Handshaker (`src/handshake.rs`) | `hellos`, `ohais`, `okboss`, `inflight`, `hashed_keys`, `bootstrap` | Bootstrap, SendHello, Hello, Ohai, OkBoss, GoTeam, Dead | crossing handshakes, lost and repeated packets, a timer whose Dead is already queued |
| PeerManager (`src/peer_manager.rs`) | `known`, `subscribers`, `subscribed_to`, reassignment timer, heartbeat, watchdogs, `notify_ready` | seven PeerRequests, SetNotify, Reassign, StartHeartbeats, SendHeartbeat, Shutdown, GetSubscriberCount | late requests, timers against messages, copies of its state in another server |
| PacketHandler (`src/packet_handler.rs`) | `keys`, `subscribers`, `seen`, sequence numbers, `nak_count`, `tx_delay` | Start, SetBroadcastHandler, Send, Recv, SendMessage, SendBroadcast, BroadcastPeerStatus, KeysUpdated, SubscribersUpdated, RateControl | repeated packets, several paths, a cache that overflows, numbers that wrap |
| Server, Gwyh (`src/server.rs`, `src/lib.rs`) | two Notifys | start, run, broadcast, get_subscriber_count, shutdown, drop | shutdown waits on the Notify that it notifies |
| Delayed, Interval, AndThen | a task | abort on drop, run | a timer that fired cannot be taken back |

The PacketHandler passes handshake packets to the Handshaker and requests to the
PeerManager. The Handshaker calls the PeerManager when a handshake ends. The
PeerManager calls the PacketHandler with new keys, casts new subscribers to it, and
casts to the Handshaker to greet a peer or to bootstrap.

## Modules

| module | models | checked by |
|---|---|---|
| `Handshake` | the Handshakers of all nodes, the entries of `known` that they write, UDP | `MCHandshake`; proofs in `HandshakeTypes`, `HandshakeProofs` |
| `HandshakeInductive` | the inductive invariant of `Handshake` | the proofs |
| `KeyExchange` | what the handshake promises the other servers: sessions with new keys | implemented by `Handshake`: run and proof |
| `HandshakeExchange` | how the state of `Handshake` maps to that of `KeyExchange` | `MCHandshake`, `HandshakeProofs` |
| `PeerSelection` | `choose_peers`: the sets each strategy may choose | through `PeerManager` |
| `PeerManager` | the PeerManager of one node, and what the other two servers keep for it | `MCPeerManager`; `PeerManagerProofs` |
| `PacketHandler` | the PacketHandlers of all nodes: messages, forwarding, the cache | `MCPacketHandler`; `PacketHandlerProofs` |
| `Broadcast` | what an application is promised: at-most-once broadcast | implemented by `PacketHandler`: run and proof |
| `RateControl` | two ends of a link: sequence numbers, Naks, delays | itself; proofs in `RateControlLinks`, `RateControlProofs` |
| `Subscription` | one subscription from end to end: both nodes, all three servers, the network | itself; `SubscriptionProofs` |
| `Node` | one node: Gwyh, Server, the three servers and their mailboxes, calls and casts | itself; `NodeProofs` |
| `HandshakeWindow` | the handshake in time: the HMAC window, the delay of an Ohai, `inflight` | itself |

Operators with a comment "Mutant: ..." are wrong versions of the
definition that follows them. Each property is violated when the definition is
replaced by such a version.

### Handshake

A fresh number stands for what is drawn at random: a handshake id together with the
initiator's key pair, or a challenge together with the responder's. An HMAC or a
response is a record of what was hashed, so it can be compared but not forged.
`hellos`, `ohais` and `okboss` are the three maps; `dead` holds the Dead messages
that timers have put into the mailbox; `done` is the history of `send_peer_up`.
Whether a timestamp is inside the HMAC window is a free choice at every check. The
network loses (`MaxLoss`) and repeats (`MaxDup`) packets and delivers in any order.
`KeyExchange` is the abstract specification: two homies agree on a session with an id
and keys that no other session has, the initiator confirms it once or never, and each
uses the newest keys it has got until it takes the other for down. The outcomes of the
responders in `done` are the sessions agreed on, those of the initiators the ones
confirmed; the keys in use are those of the handshaken entries of `known`, which is
what `update_keys` hands to the PacketHandler. Packets, timers and gossip are
stuttering steps.

### PeerManager

`known` maps a peer to 0 (heard of, no keys) or to the timestamp of its handshake.
`HandleMessage` takes the head of the mailbox and does the whole handler, calls
included. `update_keys` is a call, so it empties the PacketHandler's mailbox first;
`update_subscribers` is a cast. Peers may send any request at any time once the
PacketHandler has keys for them, because requests are forwarded, repeated and late.
GetSubscriberCount changes nothing and is left out.

### PacketHandler

`seen` is the LRU cache as a sequence. A packet stays in `net`, so it can arrive any
number of times. A Nak has a fresh id that takes up a place in the sender's cache.
Keys that do not match are keys the receiver does not have. The socket is bound and
the handler is set before the first state, and a peer with keys has been heard.
`Broadcast` is the abstract specification: a message is published once and handed to
a handler at most once, and not to that of its own node, unless the node has
forgotten it. `published` is mapped to the origins of the broadcasts in `messages`,
`forgotten` to `evicted`, the ids that have fallen out of a cache; `delivered` is the
same in both.

### RateControl

Numbers are taken modulo `Modulus` and subtraction wraps, as in a release build.
The factor by which a delay grows is any integer result of a factor from 2 to 8.

### Subscription

Alice subscribes to bob. Her PeerManager has its mailbox, timers and watchdog; bob's
servers act at once upon a packet, since the interleavings inside a node are the
subject of `PeerManager`. A handshake gives a pair of keys to the responder first and
to the initiator when the GoTeam arrives; `MatchingKeys`, which is proved, is why one
name for the pair is enough. Packets are opened only with the keys they were closed
with. One handshake is under way at a time, so each has a newer timestamp than the
keys it replaces; that they cross is the subject of `Handshake`. Faults are counted and bounded: packets lost, watchdogs or heartbeats that come
before what they wait for, wrong Downs at either end, handshakes that bob starts; and
bob may crash at any moment. `stray` is a history variable: alice has taken a
SubscriptionStarted from a bob she does not know.

### Node

A handler is the sequence of calls and casts it makes, any of those its code can make
(`Sends`); a server takes one message at a time, waits for room for every send and for
the answer of a call. Tasks and timers only send, so they are messages that arrive.
Around the servers are `start` (with a bind that fails), the five casts of
`Server::run`, its task, `broadcast`, `get_subscriber_count`, `shutdown` and `drop`,
with tokio's `Notify` as a permit and a queue. `watched` and `ended` are history: was
the task waiting when `shutdown` was called, and has the PeerManager handled Shutdown.

### HandshakeWindow

Ages in units of 10 milliseconds: how old alice's timestamp is, how long a packet has
been under way, how long bob's Ohai still waits. Only one handshake is under way at a
time, and no packet is lost. Once the longest delay and the packets after it are over,
nothing happens until the timeout, so `Timeout` is 300 ms instead of 60 s.

## Runs

| run | instance | shows |
|---|---|---|
| `handshake_crossing` | two nodes greet each other, two timestamps, keys being rotated, one loss, one Down | `NewestKeysWin`, `KeysAgree`, `KeysOnlyMoveForward`: the newest handshake wins at both ends, in whatever order they end |
| `handshake_faults` | one initiator that also greets itself, two repetitions, three timeouts, packets that never arrive | `MatchingKeys`, `CompletesOnce`; `ImplementsKeyExchange`: the refinement; `HandshakesExpire`: nothing stays in `hellos` or `ohais` |
| `handshake_gossip` | two nodes that meet through a third | `ContinuationAfterKeys`: a StartSubscription waits for the keys |
| `peer_subscriptions` | two peers in another zone, a mailbox of one, two casts | `WatchdogsGuardSubscriptions`, `SubscribersServed`, `KeysInStep` |
| `packet_once` | three nodes in a row with subscriptions both ways, one message, a cache of two, one update | `AtMostOnce`, until the id has fallen out of the cache; `Disseminated`: once all packets have arrived, every node on a path of subscriptions has the message; `ImplementsBroadcast`: the refinement |
| `rate_in_order` | numbers modulo 5, three losses, no overtaking | `NaksCountLostPackets` |
| `subscription` | a mailbox of two, one fault of each kind, a crash | `Heals`: in the end alice is served with the same keys at both ends and a watchdog, or has dropped a crashed bob, unless a stray SubscriptionStarted has left her unwatched; `UnwatchedIsStray`: nothing else does; `SubscribedIsServed`: until a wrong Down, bob serves her whenever she takes herself for subscribed; `WatchdogGuardsSubscription` |
| `node` | mailboxes of one, handlers that send to one peer, an application whose handler broadcasts | `CirclesNeedFullMailbox`, `ShutdownIsAcknowledged`, `ShutdownGoesOn` |
| `subscription_unwatched` | violation | a subscription that no heartbeat and no watchdog ends |
| `packet_forward` | violation | a request carried out in the name of the forwarder |
| `rate_overtaken` | violation | a Nak range that wraps though nothing was lost |
| `handshake_window` | violation | a second handshake refused, with clocks in step |

Bounds. Two nodes are both ends of a handshake, and a third is needed only for
gossip. `MaxFresh = 4` is two handshakes that cross, each with a responder; 3 is one
handshake answered by two challenges. Two repetitions are enough for a Hello and the
OkBoss that answers its first copy. In `peer_subscriptions` one of two peers of a
remote zone is chosen, so that a reassignment may exchange them; several remote zones,
which `HubAndSpoke` would group, need more peers than TLC can take here. A mailbox of
one puts every message of two peers against every timer; messages that
wait behind each other are in `subscription`, where the mailbox has two places. Three
keys let alice, bob and a packet under way all have different ones, and keys that
nobody has any more may be drawn again, as new ones. Three nodes in a row give a
message a forwarder and a way back; a cache of two is overfull as soon as Naks are
sent. Three losses modulo 5 let the numbers wrap within a run. Mailboxes of one make
a full mailbox common; GenServer's are larger, which makes the same circles rare.
No invariant depends on the bounds: all are proved.

Fairness. `handshake_faults` assumes that armed timers fire and that the mailbox is
served, which tokio does; the network need not deliver. `subscription` assumes that
the PeerManager serves its mailbox, that timers run out, that packets arrive which
the bounded number of faults does not lose, and that bob's heartbeats come while he
is alive and has the keys. Timers and arrivals are strongly fair, because a task that
waits for room in a tokio channel is queued and gets its turn however many others
send.

One assumption is not fairness. Each heartbeat of alice finds the last handshake and
reassignment over, except for `MaxLate` of them. The interval is 5 s; the delay of the
bootstrap (below 150 ms) and that of the reassignment (25 ms to 5 s) are drawn anew
each time and seldom add up to more. If they did so every time, each bootstrap would
restart the reassignment timer, and a subscription would never come about: without
the bound TLC finds that behaviour. It has probability 0, which TLC cannot express.
The same holds for handshakes that `handshake_window` shows to be refused: `Heals`
counts them as losses, of which there are finitely many.

Deadlock is not checked for RateControl, where a link may fall silent, for Node, which
ends when the application drops it and where servers may wait in a circle, and for
Subscription, which comes to rest when bob has crashed and alice keeps an unwatched
subscription.

## What the violations show

* `subscription_unwatched`: `subscription_started` does not ask whether the peer is
  known. Behind a Down it makes a subscription without a watchdog. The reassignment
  that follows a Down drops it again, but not if a new handshake with the peer ends
  before. Then, if the peer has crashed or lacks the new keys, the subscription stays
  for ever, though `docs/PROTOCOL.md` says that three missed heartbeats mark a peer as
  down. `Heals` shows that, within its bounds and assumptions, nothing else keeps the
  two from healing.
* `packet_forward`: `recv_peer_request` forwards every request, not only a status.
  The receiver takes a StartSubscription or EndSubscription for the forwarder's.
* `rate_overtaken`: `send` numbers a handshake packet before its task waits, and a
  message overtakes it. The missed range is then reversed. Its length wraps, or
  panics in a build with overflow checks.
* `handshake_window`: the window is 60 ms where the protocol says 60 s, and
  `inflight` is cleared only by a Dead, which a handshake that completes cancels. So
  the Ohai of the next handshake with the address waits for 10 to 149 ms, and with
  more than 60 ms it comes too late. The Dead of that one clears `inflight` again.

Other places where code and text differ, which no run covers: `remove_peer` hands
over the subscribers before it removes the peer, so that a peer that comes back gets
broadcasts it has not subscribed to (`src/peer_manager.rs:284`);
`HubAndSpoke` groups by zone without sorting (`:333`); the reassignment timer is not
stopped by a subscription that starts (`:295`); a Nak is sent also for an empty
range, and answered with another (`src/packet_handler.rs:292`); the loss rate "for
this interval" is that of all time (`:191`); nobody sends PeerList
(`src/handshake.rs:529`); a shutdown that is called before the server's task has run
takes its own permit for the acknowledgement (`src/lib.rs:116`), which is why
`ShutdownIsAcknowledged` speaks of a task that waits; a subscriber that crashes is
removed only if some other node watches it and tells (`src/peer_manager.rs:520`); the receiving loop goes on after a shutdown
(`src/packet_handler.rs:232`); drop panics on a Gwyh that was
never started (`src/lib.rs:152`); and a handler that awaits `broadcast` makes the PacketHandler
wait for itself (`src/packet_handler.rs:446`).

## Proofs

TLC checks the instances above; these theorems hold for every value of the
constants that the named assumption allows.

| module | theorem | states |
|---|---|---|
| `HandshakeTypes` | `TypeCorrect`, `NewestKeysInTable`, `KeysMoveForward` | `TypeOK`, `NewestKeysWin`, `KeysOnlyMoveForward` |
| `HandshakeProofs` | `KeysMatch`, `CompletesAtMostOnce`, `ContinuationHasKeys`, `EndsAgree`, `HandshakeImplementsKeyExchange` | `MatchingKeys`, `CompletesOnce`, `ContinuationAfterKeys`, `KeysAgree`, `ImplementsKeyExchange` |
| `PeerManagerProofs` | `PeerTypes`, `KeysStayInStep`, `WatchdogsGuard`, `SubscribersAreServed` | `TypeOK`, `KeysInStep`, `WatchdogsGuardSubscriptions`, `SubscribersServed` |
| `PacketHandlerProofs` | `PacketTypes`, `DeliveredAtMostOnce`, `BroadcastReaches`, `Refinement` | `TypeOK`, `AtMostOnce`, `Disseminated`, `ImplementsBroadcast` |
| `NodeProofs` | `NodeTypes`, `CirclesAreOfFullMailboxes`, `ShutdownAcknowledged`, `AcknowledgementIsNotLost` | `TypeOK`, `CirclesNeedFullMailbox`, `ShutdownIsAcknowledged`, `ShutdownGoesOn` |
| `RateControlProofs` | `RateTypes`, `NaksAreOfLostPackets` | `TypeOK`, `NaksCountLostPackets` |
| `SubscriptionProofs` | `SubscriptionTypes`, `WatchdogGuards`, `NothingElseUnwatched`, `SubscribedMeansServed` | `TypeOK`, `WatchdogGuardsSubscription`, `UnwatchedIsStray`, `SubscribedIsServed` |

Every proof has the same shape: an inductive invariant, a lemma for each handler that
it keeps the invariant, and the properties read off it.

**Handshake**, from `HandshakeAssumption`: any nodes, keys, bootstrap lists, losses and
repetitions. `MatchingKeys` is not inductive: when a GoTeam arrives one must know that
it was sent for *this* choice of keys. `HandshakeInv` adds what carries that. Ids are
drawn once, for one initiator and one responder (`IdsDrawn`, `OneEntry`, `OneInitiator`,
`OneResponder`). An Ohai uses up the Hello, so one
responder key is chosen and every OkBoss answers it (`HelloComesFirst`,
`ResponseToChosenKey`). A responder that is greeted again draws a new challenge
that no other entry and no outcome has (`NewChallenge`), so an old OkBoss cannot end the
handshake again. The responder's outcome mirrors what the initiator waits with
(`OkBossMirrors`, `HelloUnchanged`,
`OhaiToHello`), and a GoTeam comes after it (`GoTeamAfterUp`). Each handler is one of
six kinds of step, with one lemma each. The theorems about the table follow from one
lemma on how a step may change an entry, for `EndsAgree` together with `HandshakeInv`.
For the refinement the same lemma says which entry an outcome ends. An outcome of a
responder is a new session: `NewChallenge` leaves no other with its key, and `OneResponder`,
`OneInitiator` and `CompletesOnce` none with its id. One of an initiator confirms a session that was agreed on, by
`MatchingKeys`, and that it has not confirmed, by `OkBossBeforeDone`. A Down forgets the
keys, and every other step maps to a stutter. The proof is two modules: the types, the
table and the steps for an Ohai, a Hello and whatever only forgets; the steps for SendHello,
an OkBoss and a GoTeam, and the theorems.

**PeerManager**, from `SelectionAssumption` and `PeerManagerAssumption`: any finite set
of peers that contains the node itself, any zones, strategy, number of subscriptions and
mailbox size. The three properties are inductive together with the types, but for one
fact about the mailbox: a Shutdown is only found there once the server stops
(`ShutdownIsLast`), because `WatchdogsGuardSubscriptions` is given up at that moment.
`SubscribersServed` looks through the casts that wait for the PacketHandler; the lemmas
about `SubscribersAfter` say what one more cast, or a mailbox that is emptied, does to
that.

**PacketHandler**, from `PacketHandlerAssumption`: any cluster, any subscriptions and
keys, any size of the cache. A node knows an id that is in its cache or fell out of it.
`AtMostOnce` needs that the origin and whoever was handed a broadcast know it
(`OriginKnows`, `DeliveredIsKnown`), so that only an evicted id can be taken for new; the
lemmas about `Put` and `PutAll` say that the cache forgets nothing without recording it.
`Disseminated` needs the converse (`KnownIsDelivered`) and that whoever knows a broadcast
has sent it on (`KnownIsSentOn`, while nothing was updated): then those who have it are a
set closed under subscriptions, and contain every node on a path of any length. For
`Refinement`, Init and each action are mapped to `Broadcast`; only the steps that publish,
deliver or evict are not stuttering ones.

**Node**, from `NodeAssumption`: mailboxes of any capacity. `CirclesNeedFullMailbox` rests
on the order of the calls: what a handler has still to send is among the calls its code can
make (`Handlers`), and the calls go from the Handshaker to the PeerManager to the
PacketHandler. `ShutdownGoesOn` needs that no call gets lost: each waiting caller is in
exactly one mailbox or handler, that of the server it called (`Calls`), and the permit and
the queue of the `Notify` fit the phase of the application and of the task (`Phases`).
`ShutdownIsAcknowledged` needs `Acknowledging`: if the task was waiting, then until the
subscriptions have ended the task is under way, and there is no permit that shutdown could
take for its acknowledgement. `ShutdownGoesOn` says through the guards of the actions that one of
them can be taken, not through ENABLED, which the prover does not have.

**RateControl**, from `RateControlAssumption`: any modulus, any traffic, fewer losses in
a direction than there are numbers. `RateTypes` holds on any network.
`NaksAreOfLostPackets` has the hypotheses `Fifo` and `~Overtaking`, and without the second
`rate_overtaken` refutes it. Numbers wrap, so nothing can be concluded from comparing them.
`Linked` says that there are *positions* in the stream, which never wrap, whose remainders
are the numbers: of the last packet numbered, sent and received, and of every packet on
the wire, in rising order. The losses are then at least what the sender has counted, plus
what the Naks on their way back tell of, plus the gaps between the packets on the wire.
A gap is shorter than the modulus because the losses are, so its length is the one that
wrapping subtraction gives. `Linked` quantifies over functions on Nat, which TLC cannot
enumerate; all other inductive invariants were checked by TLC on the runs' instances
before they were proved.

**Subscription**, from `SubscriptionAssumption` and `NoneAssumption`: a mailbox of any
size, any keys and any number of faults. For `UnwatchedIsStray`, what is left of a watchdog
that fired is a Down in the mailbox, and the handler that takes it ends the subscription.
The types need `OneCall`: a call of the Handshaker waits in the mailbox at most once, and
while it does its handshake is there, which goes on when `add_peer` has answered. `SubscribedIsServed`
needs `AnswerFromServer`: also while the answer to StartSubscription is still a packet, or
waits in the mailbox, bob has the subscriber and broadcasts to it, because he answers last.

Only model-checked: liveness (`HandshakesExpire`, `Heals`), which is out of the prover's
reach. The properties of the four violation runs do not hold.

## Not modelled

Cryptography beyond who can make or open what; serialization; frames, which the code
ignores; `broadcast.rs` and `framer.rs`, which are not used; configuration and
errors. Of time, `HandshakeWindow` has the window and the delays of a handshake;
elsewhere timers fire in any order, so that statuses which restart the reassignment
timer for ever (`src/peer_manager.rs:300`) are not examined. A Gwyh that is started
again after a shutdown is left out. Larger instances are out of TLC's reach: with a
mailbox of two, `peer_subscriptions` has more than 30 million states.
