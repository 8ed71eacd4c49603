---------------------------- MODULE PacketHandler ----------------------------
(***************************************************************************)
(* The PacketHandlers of a cluster (src/packet_handler.rs): how broadcasts *)
(* and peer requests travel from node to node.                             *)
(*                                                                         *)
(* A node sends a message to its subscribers, and everybody who sees it    *)
(* for the first time sends it on to theirs.  `seen' is an LRU cache of    *)
(* message ids.  A packet that is decrypted is answered with a Nak if the  *)
(* sender was heard before; the ranges the Naks carry, and what is counted *)
(* with them, are the subject of RateControl.  Here only this matters of a *)
(* Nak: its fresh id takes up a place in the sender's cache.  No Nak's id  *)
(* is looked up again, so all are one value.                               *)
(*                                                                         *)
(* Packets are UDP datagrams.  One that was sent can arrive at any time,   *)
(* any number of times, or never.                                          *)
(***************************************************************************)
EXTENDS Integers, Sequences, FiniteSets

CONSTANTS
  Node,
  Subscribers,   \* the subscribers each node starts with
  Keys,          \* the peers each node starts with keys of
  SeenSize,      \* LruCache::new(10_000)
  Nak,           \* the id of a Nak, different from the ids below
  MaxMessages,   \* bound: messages with an id of their own
  MaxUpdates     \* bound: changes of keys and subscribers

ASSUME PacketHandlerAssumption ==
  /\ Subscribers \in [Node -> SUBSET Node]
  /\ Keys \in [Node -> SUBSET Node]
  /\ SeenSize \in Nat \ {0}
  /\ MaxMessages \in Nat
  /\ MaxUpdates \in Nat
  /\ Nak \notin 1..MaxMessages

\* Message ids, and what a message is: a broadcast, a peer status, or one of
\* the requests that are meant for one peer.
Id   == 1..MaxMessages
Kind == {"Broadcast", "PeerStatus", "Request"}

\* A packet: the socket addresses it travels between, and the message in it.
Packet == [from : Node, to : Node, id : Id \cup {Nak}]

VARIABLES
  keys,          \* keys: the peers whose keys this node has
  subscribers,   \* subscribers
  seen,          \* seen: message ids, least recently used first
  heard,         \* rx_sequences: the peers a packet has come from
  net,           \* the packets sent so far
  messages,      \* the messages with an id of their own: kind and origin
  delivered,     \* history: how often the broadcast handler got each message
  requests,      \* history: the requests handed to the PeerManager
  evicted,       \* history: the ids that have fallen out of seen
  updates        \* changes of keys and subscribers so far

vars == <<keys, subscribers, seen, heard, net, messages, delivered, requests, evicted, updates>>

-----------------------------------------------------------------------------
(* The LRU cache *)

Elements(s) == {s[i] : i \in DOMAIN s}

\* The cache without the id x.
Without(s, x) ==
  IF x \in Elements(s)
  THEN LET i == CHOOSE i \in DOMAIN s : s[i] = x
       IN  [j \in 1..(Len(s) - 1) |-> IF j < i THEN s[j] ELSE s[j + 1]]
  ELSE s

\* Mutant: nothing falls out of the cache.
PutUnbounded(s, x) == Append(IF x = Nak THEN s ELSE Without(s, x), x)

\* LruCache::put: x becomes the most recently used; the ids of Naks are fresh.
Put(s, x) ==
  LET t == Append(IF x = Nak THEN s ELSE Without(s, x), x)
  IN  IF Len(t) > SeenSize THEN Tail(t) ELSE t

\* The ids that putting x pushes out.
PutOut(s, x) == (Elements(s) \cap Id) \ Elements(Put(s, x))

-----------------------------------------------------------------------------
(* The steps of the handlers *)

\* encrypt_and_send_messages and multisend: the packets that go out.  A target
\* without keys is skipped.
SendTo(n, targets, id) ==
  [from : {n}, to : targets \cap keys[n], id : {id}]

\* Mutant: the id of a message of one's own is not put into the cache.
OriginateUnseen(n, kind, targets) ==
  /\ Len(messages) < MaxMessages
  /\ messages' = Append(messages, [kind |-> kind, origin |-> n])
  /\ net' = net \cup SendTo(n, targets, Len(messages) + 1)
  /\ UNCHANGED <<keys, subscribers, seen, heard, delivered, requests, evicted, updates>>

\* A message of this kind is made at n, and sent to these targets.
Originate(n, kind, targets) ==
  LET id == Len(messages) + 1
  IN  /\ Len(messages) < MaxMessages
      /\ messages' = Append(messages, [kind |-> kind, origin |-> n])
      /\ seen' = [seen EXCEPT ![n] = Put(@, id)]
      /\ evicted' = [evicted EXCEPT ![n] = @ \cup PutOut(seen[n], id)]
      /\ net' = net \cup SendTo(n, targets, id)
      /\ UNCHANGED <<keys, subscribers, heard, delivered, requests, updates>>

SendBroadcast(n)  == Originate(n, "Broadcast", subscribers[n])
SendPeerStatus(n) == Originate(n, "PeerStatus", subscribers[n])
SendMessage(n, m) == Originate(n, "Request", {m})

\* decrypt: the keys of the sender, by its node id.
CanDecrypt(p) == p.from \in keys[p.to]

\* Mutant: a message that is being received is not looked up first.
IsNewAlways(p) == p.id # Nak

\* Is it a message that this node has to act upon?
IsNew(p) == p.id # Nak /\ p.id \notin Elements(seen[p.to])

\* Mutant: a message that came from elsewhere is not sent on.
ForwardNothing(p) == {}

\* send_broadcast_to_subscribers, by recv_broadcast and recv_peer_request.
Forward(p) == IF IsNew(p) THEN SendTo(p.to, subscribers[p.to], p.id) ELSE {}

\* recv: a Nak is the answer if the sender was heard before this packet.
Answer(p) == IF p.from \in heard[p.to] THEN SendTo(p.to, {p.from}, Nak) ELSE {}

\* The ids that recv puts in the cache, in this order: the message (by
\* encrypt_and_send_messages, and again by recv), then the Nak.
Remember(p) == (IF IsNew(p) THEN <<p.id>> ELSE <<>>)
               \o (IF p.from \in heard[p.to] THEN <<Nak>> ELSE <<>>)

\* The cache and what fell out of it, after putting one id or two.
PutAll(s, ids) ==
  CASE Len(ids) = 0 -> s
    [] Len(ids) = 1 -> Put(s, ids[1])
    [] Len(ids) = 2 -> Put(Put(s, ids[1]), ids[2])

PutAllOut(s, ids) ==
  ((Elements(s) \cup Elements(ids)) \cap Id) \ Elements(PutAll(s, ids))

Recv(p) ==
  /\ p \in net
  /\ heard' = [heard EXCEPT ![p.to] = @ \cup {p.from}]
  /\ IF CanDecrypt(p)
     THEN /\ net' = net \cup Forward(p) \cup Answer(p)
          /\ seen' = [seen EXCEPT ![p.to] = PutAll(@, Remember(p))]
          /\ evicted' = [evicted EXCEPT ![p.to] = @ \cup PutAllOut(seen[p.to], Remember(p))]
          /\ delivered' = IF IsNew(p) /\ messages[p.id].kind = "Broadcast"
                          THEN [delivered EXCEPT ![p.to][p.id] = IF @ < 2 THEN @ + 1 ELSE @]
                          ELSE delivered
          /\ requests' = IF IsNew(p) /\ messages[p.id].kind # "Broadcast"
                         THEN requests \cup {p}
                         ELSE requests
     ELSE UNCHANGED <<net, seen, evicted, delivered, requests>>
  /\ UNCHANGED <<keys, subscribers, messages, updates>>

\* recv, of a handshake packet: passed to the Handshaker.
RecvHandshake(n, m) ==
  /\ n # m
  /\ heard' = [heard EXCEPT ![n] = @ \cup {m}]
  /\ UNCHANGED <<keys, subscribers, seen, net, messages, delivered, requests, evicted, updates>>

\* KeysUpdated, from the PeerManager.
KeysUpdated(n, ks) ==
  /\ updates < MaxUpdates
  /\ keys' = [keys EXCEPT ![n] = ks]
  /\ updates' = updates + 1
  /\ UNCHANGED <<subscribers, seen, heard, net, messages, delivered, requests, evicted>>

\* SubscribersUpdated, from the PeerManager.
SubscribersUpdated(n, ns) ==
  /\ updates < MaxUpdates
  /\ subscribers' = [subscribers EXCEPT ![n] = ns]
  /\ updates' = updates + 1
  /\ UNCHANGED <<keys, seen, heard, net, messages, delivered, requests, evicted>>

-----------------------------------------------------------------------------
\* Who has keys of a peer has heard it in the handshake.
Init ==
  /\ keys = Keys
  /\ subscribers = Subscribers
  /\ seen = [n \in Node |-> <<>>]
  /\ heard = Keys
  /\ net = {}
  /\ messages = <<>>
  /\ delivered = [n \in Node |-> [id \in Id |-> 0]]
  /\ requests = {}
  /\ evicted = [n \in Node |-> {}]
  /\ updates = 0

Next ==
  \/ \E p \in Packet : Recv(p)
  \/ \E n \in Node : SendBroadcast(n) \/ SendPeerStatus(n)
  \/ \E n, m \in Node : SendMessage(n, m) \/ RecvHandshake(n, m)
  \/ \E n \in Node, S \in SUBSET Node : KeysUpdated(n, S \ {n}) \/ SubscribersUpdated(n, S \ {n})

Spec == Init /\ [][Next]_vars

-----------------------------------------------------------------------------
(* Properties *)

\* Every variable has its type, and the cache never holds more than it may.
TypeOK ==
  /\ keys \in [Node -> SUBSET Node]
  /\ subscribers \in [Node -> SUBSET Node]
  /\ seen \in [Node -> Seq(Id \cup {Nak})]
  /\ \A n \in Node : Len(seen[n]) <= SeenSize
  /\ heard \in [Node -> SUBSET Node]
  /\ net \subseteq Packet
  /\ messages \in Seq([kind : Kind, origin : Node])
  /\ Len(messages) <= MaxMessages
  /\ delivered \in [Node -> [Id -> 0..2]]
  /\ requests \subseteq Packet
  /\ evicted \in [Node -> SUBSET Id]
  /\ updates \in 0..MaxUpdates

\* However packets are repeated and whichever ways a broadcast takes, the
\* broadcast handler gets it at most once, and never at the node it comes from,
\* as long as its id has not fallen out of that node's cache.
AtMostOnce ==
  \A n \in Node, id \in Id :
    id \notin evicted[n] =>
      /\ delivered[n][id] <= 1
      /\ id \in DOMAIN messages /\ messages[id].origin = n => delivered[n][id] = 0

\* The nodes that are reached from n by subscriptions, in any number of hops: they
\* are in every set that has n and, with a node, the subscribers it has keys of.
ReachableFrom(n) ==
  {m \in Node \ {n} : \A S \in SUBSET Node :
     n \in S /\ (\A k \in S : Subscribers[k] \cap Keys[k] \subseteq S) => m \in S}

\* Every packet of this message has arrived where it was sent, at least once.
AllArrived(id) ==
  \A p \in net : p.id = id => id \in Elements(seen[p.to]) \cup evicted[p.to]

\* Where nobody's keys or subscriptions change, a broadcast of which no packet
\* is still on its way has got to every node that is reached by subscriptions
\* from its origin, through the nodes that send it on (recv_broadcast).
Disseminated ==
  updates = 0 =>
    \A id \in DOMAIN messages :
      messages[id].kind = "Broadcast" /\ AllArrived(id) =>
        \A m \in ReachableFrom(messages[id].origin) : delivered[m][id] > 0

\* The cluster as its application sees it: what was broadcast, what each
\* handler got, and which ids a node no longer remembers.
Abstract == INSTANCE Broadcast WITH
  published <- [id \in {i \in DOMAIN messages : messages[i].kind = "Broadcast"} |->
                  messages[id].origin],
  forgotten <- evicted

\* All of this, packets, keys, forwarding and the cache, is an implementation of
\* at-most-once broadcast: the handlers get only what an application broadcast
\* (send_broadcast), and each of them once, unless the id has been forgotten.
ImplementsBroadcast == Abstract!Spec

\* src/packet_handler.rs:462: what is forwarded to subscribers is a status.  So a
\* request meant for one peer comes from the node that made it.
RequestsComeFromTheirOrigin ==
  \A p \in requests :
    messages[p.id].kind = "Request" => messages[p.id].origin = p.from
=============================================================================
