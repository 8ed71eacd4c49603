------------------------- MODULE PacketHandlerProofs -------------------------
(***************************************************************************)
(* Proofs about PacketHandler, for any cluster, any keys and subscribers,  *)
(* and a cache of any size: at-most-once delivery, that the protocol       *)
(* implements Broadcast, and that a broadcast gets to whomever it should.  *)
(***************************************************************************)
EXTENDS PacketHandler, TLAPS

USE PacketHandlerAssumption

\* What the cache holds: the ids of messages and of Naks.
Cached == Id \cup {Nak}

\* The elements of a sequence.
LEMMA SeqElement == \A S : \A s \in Seq(S) : \A i \in DOMAIN s : s[i] \in S
OBVIOUS

-----------------------------------------------------------------------------
(* The LRU cache *)

\* Removing an id from the cache leaves a cache, not longer, of its ids.
LEMMA WithoutIsCache ==
  ASSUME NEW s \in Seq(Cached), NEW x
  PROVE  /\ Without(s, x) \in Seq(Cached)
         /\ Len(Without(s, x)) <= Len(s)
         /\ x \in Elements(s) => Len(Without(s, x)) = Len(s) - 1
         /\ Elements(Without(s, x)) \subseteq Elements(s)
<1>1. CASE x \notin Elements(s)
  BY <1>1 DEF Without
<1>2. CASE x \in Elements(s)
  <2>1. PICK i \in DOMAIN s : i = CHOOSE k \in DOMAIN s : s[k] = x
    BY Zenon, <1>2 DEF Elements
  <2> DEFINE t == [j \in 1..(Len(s) - 1) |-> IF j < i THEN s[j] ELSE s[j + 1]]
  <2>2. Without(s, x) = t
    BY Zenon, <1>2, <2>1 DEF Without
  <2>3. /\ i \in 1..Len(s)
        /\ Len(s) - 1 \in Nat
        /\ \A j \in 1..(Len(s) - 1) : t[j] \in Elements(s) /\ t[j] \in Cached
    BY DEF Elements
  <2>4. t \in Seq(Cached) /\ Len(t) = Len(s) - 1
    BY <2>3
  <2>5. Elements(t) \subseteq Elements(s)
    BY <2>3 DEF Elements
  <2> QED
    BY <2>2, <2>4, <2>5
<1> QED
  BY Zenon, <1>1, <1>2

\* LruCache::put keeps the cache within its size, holds the id put, and
\* nothing that was not there before.
LEMMA PutIsCache ==
  ASSUME NEW s \in Seq(Cached), Len(s) <= SeenSize, NEW x \in Cached
  PROVE  /\ Put(s, x) \in Seq(Cached)
         /\ Len(Put(s, x)) <= SeenSize
         /\ x \in Elements(Put(s, x))
         /\ Elements(Put(s, x)) \subseteq Elements(s) \cup {x}
<1> DEFINE r == IF x = Nak THEN s ELSE Without(s, x)
           t == Append(r, x)
<1>1. /\ r \in Seq(Cached) /\ Len(r) <= SeenSize
      /\ Elements(r) \subseteq Elements(s)
  BY WithoutIsCache
<1> HIDE DEF r
<1>2. /\ t \in Seq(Cached) /\ Len(t) = Len(r) + 1 /\ t[Len(t)] = x
      /\ \A k \in 1..Len(t) : t[k] \in Elements(r) \cup {x}
  BY <1>1 DEF Elements
<1> HIDE DEF t
<1>3. CASE Len(t) > SeenSize
  <2>1. Put(s, x) = Tail(t)
    BY Zenon, <1>3 DEF Put, t, r
  <2>2. /\ Tail(t) \in Seq(Cached) /\ Len(Tail(t)) = Len(t) - 1
        /\ \A k \in 1..Len(Tail(t)) : Tail(t)[k] = t[k + 1]
    BY <1>2, <1>3
  <2>3. Len(Tail(t)) \in DOMAIN Tail(t) /\ Tail(t)[Len(Tail(t))] = x
    BY <1>1, <1>2, <1>3, <2>2
  <2>4. Elements(Tail(t)) \subseteq Elements(r) \cup {x}
    <3>1. DOMAIN Tail(t) = 1..Len(Tail(t))
      BY <2>2
    <3>2. \A k \in DOMAIN Tail(t) : Tail(t)[k] \in Elements(r) \cup {x}
      BY <1>2, <1>1, <2>2, <3>1
    <3> QED
      BY <3>2, Zenon DEF Elements
  <2>5. x \in Elements(Tail(t))
    BY Zenon, <2>3 DEF Elements
  <2> QED
    BY <1>1, <1>2, <2>1, <2>2, <2>4, <2>5
<1>4. CASE ~(Len(t) > SeenSize)
  <2>1. Put(s, x) = t
    BY Zenon, <1>4 DEF Put, t, r
  <2>2. Len(t) \in DOMAIN t /\ DOMAIN t = 1..Len(t)
    BY <1>1, <1>2
  <2>3. x \in Elements(t) /\ Elements(t) \subseteq Elements(r) \cup {x}
    BY Zenon, <1>2, <2>2 DEF Elements
  <2> QED
    BY <1>1, <1>2, <1>4, <2>1, <2>3
<1> QED
  BY Zenon, <1>3, <1>4

\* The same of the ids, two at most, that recv puts in the cache.
LEMMA PutAllIsCache ==
  ASSUME NEW s \in Seq(Cached), Len(s) <= SeenSize,
         NEW ids \in Seq(Cached), Len(ids) \in 0..2
  PROVE  /\ PutAll(s, ids) \in Seq(Cached)
         /\ Len(PutAll(s, ids)) <= SeenSize
         /\ Elements(PutAll(s, ids)) \subseteq Elements(s) \cup Elements(ids)
<1>1. CASE Len(ids) = 0
  BY <1>1 DEF PutAll
<1>2. CASE Len(ids) \in {1, 2}
  <2>0. PICK q : q = Put(s, ids[1])
    BY Zenon
  <2>1. ids[1] \in Cached /\ ids[1] \in Elements(ids)
    <3>1. 1 \in DOMAIN ids
      BY <1>2
    <3> QED
      BY Zenon, <3>1, SeqElement DEF Elements
  <2>2. /\ q \in Seq(Cached) /\ Len(q) <= SeenSize
        /\ Elements(q) \subseteq Elements(s) \cup {ids[1]}
    BY <2>0, <2>1, PutIsCache
  <2>3. CASE Len(ids) = 1
    <3>1. PutAll(s, ids) = Put(s, ids[1])
      BY <2>3 DEF PutAll
    <3> QED
      BY Zenon, <2>0, <2>1, <2>2, <3>1
  <2>4. CASE Len(ids) = 2
    <3>1. ids[2] \in Cached /\ ids[2] \in Elements(ids)
      <4>1. 2 \in DOMAIN ids
        BY <2>4
      <4> QED
        BY Zenon, <4>1, SeqElement DEF Elements
    <3>2. ASSUME NEW y \in Cached
          PROVE  /\ Put(q, y) \in Seq(Cached) /\ Len(Put(q, y)) <= SeenSize
                 /\ Elements(Put(q, y)) \subseteq Elements(q) \cup {y}
      BY Zenon, <2>2, PutIsCache
    <3>3. PutAll(s, ids) = Put(Put(s, ids[1]), ids[2])
      BY <2>4 DEF PutAll
    <3>4. PICK y \in Cached : y = ids[2]
      BY Zenon, <3>1
    <3>5. PutAll(s, ids) = Put(q, y)
      BY Zenon, <2>0, <3>3, <3>4
    <3> QED
      BY ZenonT(30), <2>1, <2>2, <3>1, <3>2, <3>4, <3>5
  <2> QED
    BY Zenon, <1>2, <2>3, <2>4
<1> QED
  BY <1>1, <1>2

-----------------------------------------------------------------------------
(* The inductive invariant *)

\* The messages that n has put in its cache, those it has forgotten included.
Known(n) == Elements(seen[n]) \cup evicted[n]

\* Packets carry Naks, or messages that were made.
NetCarriesMessages == \A p \in net : p.id # Nak => p.id \in DOMAIN messages

\* Whoever makes a message, or gets it, knows it.
OriginKnows == \A id \in DOMAIN messages : id \in Known(messages[id].origin)

DeliveredIsKnown ==
  \A n \in Node, id \in Id :
    delivered[n][id] > 0 => /\ id \in DOMAIN messages /\ messages[id].kind = "Broadcast"
                            /\ id \in Known(n)

\* Whoever knows a broadcast has made it or got it.
KnownIsDelivered ==
  \A n \in Node, id \in Id :
    id \in Known(n) =>
      /\ id \in DOMAIN messages
      /\ messages[id].kind = "Broadcast" => messages[id].origin = n \/ delivered[n][id] > 0

\* Whoever knows a broadcast has sent it to the subscribers it has keys of.
KnownIsSentOn ==
  \A n \in Node : \A id \in DOMAIN messages :
    messages[id].kind = "Broadcast" /\ id \in Known(n) =>
      \A m \in Subscribers[n] \cap Keys[n] : [from |-> n, to |-> m, id |-> id] \in net

Undisturbed == updates = 0 => keys = Keys /\ subscribers = Subscribers /\ KnownIsSentOn

Inv ==
  /\ TypeOK
  /\ NetCarriesMessages
  /\ OriginKnows
  /\ DeliveredIsKnown
  /\ KnownIsDelivered
  /\ AtMostOnce
  /\ Undisturbed

-----------------------------------------------------------------------------
(* What the steps do to the caches *)

\* recv, of a packet it can decrypt: the node that receives it knows the message
\* from then on, and no other node learns or unlearns anything.
LEMMA RecvCache ==
  ASSUME TypeOK, NEW p \in Packet, Recv(p), CanDecrypt(p)
  PROVE  /\ seen' \in [Node -> Seq(Cached)]
         /\ \A n \in Node : Len(seen'[n]) <= SeenSize
         /\ evicted' \in [Node -> SUBSET Id]
         /\ \A n \in Node : evicted[n] \subseteq evicted'[n]
         /\ \A n \in Node, id \in Id :
              id \in Known(n)' <=> id \in Known(n) \/ (n = p.to /\ id = p.id /\ IsNew(p))
<1> DEFINE ids == Remember(p)
           s == seen[p.to]
<1>1. /\ p.to \in Node /\ p.id \in Cached
      /\ s \in Seq(Cached) /\ Len(s) <= SeenSize
      /\ evicted \in [Node -> SUBSET Id] /\ seen \in [Node -> Seq(Cached)]
      /\ \A n \in Node : Len(seen[n]) <= SeenSize
  BY Zenon DEF TypeOK, Packet, Cached
<1>2. /\ ids \in Seq(Cached) /\ Len(ids) \in 0..2
      /\ \A id \in Id : id \in Elements(ids) <=> id = p.id /\ IsNew(p)
  <2> DEFINE new == IF IsNew(p) THEN <<p.id>> ELSE <<>>
             nak == IF p.from \in heard[p.to] THEN <<Nak>> ELSE <<>>
  <2>1. Nak \in Cached /\ Nak \notin Id
    BY Zenon DEF Cached, Id
  <2>2. /\ new \in Seq(Cached) /\ Len(new) \in 0..1
        /\ Len(new) = 1 <=> IsNew(p)
        /\ IsNew(p) => new[1] = p.id
    BY <1>1
  <2>3. /\ nak \in Seq(Cached) /\ Len(nak) \in 0..1
        /\ Len(nak) = 1 => nak[1] = Nak
    BY <2>1
  <2>4. ids = new \o nak
    BY Zenon DEF Remember
  <2> HIDE DEF ids, new, nak
  <2>5. /\ ids \in Seq(Cached) /\ Len(ids) = Len(new) + Len(nak)
        /\ \A k \in 1..Len(new) : ids[k] = new[k]
        /\ \A k \in 1..Len(nak) : ids[Len(new) + k] = nak[k]
    BY <2>2, <2>3, <2>4
  <2>6. ASSUME NEW id \in Id PROVE id \in Elements(ids) <=> id = p.id /\ IsNew(p)
    BY <2>1, <2>2, <2>3, <2>5 DEF Elements
  <2> QED
    BY <2>2, <2>3, <2>5, <2>6
<1>3. /\ seen' = [seen EXCEPT ![p.to] = PutAll(s, ids)]
      /\ evicted' = [evicted EXCEPT ![p.to] = @ \cup PutAllOut(s, ids)]
  BY Zenon, <1>1 DEF Recv
<1> HIDE DEF ids, s
<1>4. /\ PutAll(s, ids) \in Seq(Cached)
      /\ Len(PutAll(s, ids)) <= SeenSize
      /\ Elements(PutAll(s, ids)) \subseteq Elements(s) \cup Elements(ids)
  BY Zenon, <1>1, <1>2, PutAllIsCache
<1>5. PutAllOut(s, ids) = ((Elements(s) \cup Elements(ids)) \cap Id) \ Elements(PutAll(s, ids))
  BY Zenon DEF PutAllOut
<1>6. /\ seen' \in [Node -> Seq(Cached)]
      /\ \A n \in Node : Len(seen'[n]) <= SeenSize
      /\ evicted' \in [Node -> SUBSET Id]
      /\ \A n \in Node : evicted[n] \subseteq evicted'[n]
  BY Zenon, <1>1, <1>3, <1>4, <1>5
<1>7. ASSUME NEW n \in Node, NEW id \in Id
      PROVE  id \in Known(n)' <=> id \in Known(n) \/ (n = p.to /\ id = p.id /\ IsNew(p))
  <2>1. CASE n = p.to
    <3>1. seen'[n] = PutAll(s, ids) /\ evicted'[n] = evicted[n] \cup PutAllOut(s, ids)
      BY Zenon, <1>1, <1>3, <2>1
    <3> QED
      BY Zenon, <1>2, <1>4, <1>5, <2>1, <3>1 DEF Known, s
  <2>2. CASE n # p.to
    <3>1. seen'[n] = seen[n] /\ evicted'[n] = evicted[n]
      BY Zenon, <1>1, <1>3, <2>2
    <3> QED
      BY Zenon, <2>2, <3>1 DEF Known
  <2> QED
    BY Zenon, <2>1, <2>2
<1> QED
  BY Zenon, <1>6, <1>7

\* A message of one's own: its origin knows it from then on.
LEMMA OriginateCache ==
  ASSUME TypeOK, NEW o \in Node, NEW kind, NEW targets, Originate(o, kind, targets)
  PROVE  /\ seen' \in [Node -> Seq(Cached)]
         /\ \A n \in Node : Len(seen'[n]) <= SeenSize
         /\ evicted' \in [Node -> SUBSET Id]
         /\ \A n \in Node : evicted[n] \subseteq evicted'[n]
         /\ \A n \in Node, id \in Id :
              id \in Known(n)' <=> id \in Known(n) \/ (n = o /\ id = Len(messages) + 1)
<1> DEFINE new == Len(messages) + 1
           s == seen[o]
<1>1. /\ new \in Id /\ new \in Cached
      /\ s \in Seq(Cached) /\ Len(s) <= SeenSize
      /\ evicted \in [Node -> SUBSET Id] /\ seen \in [Node -> Seq(Cached)]
      /\ \A n \in Node : Len(seen[n]) <= SeenSize
  BY DEF TypeOK, Cached, Id, Originate
<1>2. /\ seen' = [seen EXCEPT ![o] = Put(s, new)]
      /\ evicted' = [evicted EXCEPT ![o] = @ \cup PutOut(s, new)]
  BY Zenon, <1>1 DEF Originate
<1> HIDE DEF new, s
<1>3. /\ Put(s, new) \in Seq(Cached)
      /\ Len(Put(s, new)) <= SeenSize
      /\ new \in Elements(Put(s, new))
      /\ Elements(Put(s, new)) \subseteq Elements(s) \cup {new}
  BY Zenon, <1>1, PutIsCache
<1>4. PutOut(s, new) = (Elements(s) \cap Id) \ Elements(Put(s, new))
  BY Zenon DEF PutOut
<1>5. /\ seen' \in [Node -> Seq(Cached)]
      /\ \A n \in Node : Len(seen'[n]) <= SeenSize
      /\ evicted' \in [Node -> SUBSET Id]
      /\ \A n \in Node : evicted[n] \subseteq evicted'[n]
  BY Zenon, <1>1, <1>2, <1>3, <1>4
<1>6. ASSUME NEW n \in Node, NEW id \in Id
      PROVE  id \in Known(n)' <=> id \in Known(n) \/ (n = o /\ id = new)
  <2>1. CASE n = o
    <3>1. seen'[n] = Put(s, new) /\ evicted'[n] = evicted[n] \cup PutOut(s, new)
      BY Zenon, <1>1, <1>2, <2>1
    <3> QED
      BY Zenon, <1>3, <1>4, <2>1, <3>1 DEF Known, s
  <2>2. CASE n # o
    <3>1. seen'[n] = seen[n] /\ evicted'[n] = evicted[n]
      BY Zenon, <1>1, <1>2, <2>2
    <3> QED
      BY Zenon, <2>2, <3>1 DEF Known
  <2> QED
    BY Zenon, <2>1, <2>2
<1> QED
  BY Zenon, <1>5, <1>6 DEF new

-----------------------------------------------------------------------------
(* Types *)

\* Every step of the PacketHandlers keeps the types of the variables.
LEMMA TypeStep == TypeOK /\ [Next]_vars => TypeOK'
<1> SUFFICES ASSUME TypeOK, [Next]_vars PROVE TypeOK'
  BY Zenon
<1>1. ASSUME NEW p \in Packet, Recv(p) PROVE TypeOK'
  <2>1. p.from \in Node /\ p.to \in Node /\ p.id \in Cached
    BY Zenon DEF Packet, Cached
  <2>2. /\ heard' \in [Node -> SUBSET Node]
        /\ UNCHANGED <<keys, subscribers, messages, updates>>
    BY <1>1, <2>1 DEF Recv, TypeOK
  <2>3. CASE ~CanDecrypt(p)
    BY <1>1, <2>2, <2>3 DEF Recv, TypeOK
  <2>4. CASE CanDecrypt(p)
    <3>1. /\ seen' \in [Node -> Seq(Cached)]
          /\ \A n \in Node : Len(seen'[n]) <= SeenSize
          /\ evicted' \in [Node -> SUBSET Id]
      BY Zenon, <1>1, <2>4, RecvCache
    <3>2. net' \subseteq Packet
      BY <1>1, <2>1, <2>4 DEF Recv, TypeOK, Forward, Answer, SendTo, Packet, Cached
    <3>3. delivered' \in [Node -> [Id -> 0..2]]
      <4>1. IsNew(p) => p.id \in Id
        BY Zenon, <2>1 DEF IsNew, Cached
      <4>2. CASE delivered' = delivered
        BY Zenon, <4>2 DEF TypeOK
      <4>3. CASE /\ IsNew(p)
                 /\ delivered' = [delivered EXCEPT ![p.to][p.id] = IF @ < 2 THEN @ + 1 ELSE @]
        BY <2>1, <4>1, <4>3 DEF TypeOK
      <4> QED
        BY Zenon, <1>1, <2>4, <4>2, <4>3 DEF Recv
    <3>4. requests' \subseteq Packet
      BY <1>1, <2>4 DEF Recv, TypeOK
    <3> QED
      BY Zenon, <2>2, <3>1, <3>2, <3>3, <3>4 DEF TypeOK, Cached
  <2> QED
    BY Zenon, <2>3, <2>4
<1>2. ASSUME NEW n \in Node, NEW kind \in Kind, NEW targets \in SUBSET Node,
             Originate(n, kind, targets)
      PROVE  TypeOK'
  <2>1. /\ seen' \in [Node -> Seq(Cached)]
        /\ \A m \in Node : Len(seen'[m]) <= SeenSize
        /\ evicted' \in [Node -> SUBSET Id]
    BY Zenon, <1>2, OriginateCache
  <2>2. /\ messages' \in Seq([kind : Kind, origin : Node])
        /\ Len(messages') <= MaxMessages
        /\ Len(messages) + 1 \in Id
    BY <1>2 DEF Originate, TypeOK, Id
  <2>3. net' \subseteq Packet
    BY <1>2, <2>2 DEF Originate, TypeOK, SendTo, Packet
  <2> QED
    BY Zenon, <1>2, <2>1, <2>2, <2>3 DEF Originate, TypeOK, Cached
<1>3. ASSUME NEW n \in Node, NEW m \in Node, RecvHandshake(n, m) PROVE TypeOK'
  BY <1>3 DEF RecvHandshake, TypeOK
<1>4. ASSUME NEW n \in Node, NEW S \in SUBSET Node, KeysUpdated(n, S \ {n}) PROVE TypeOK'
  BY <1>4 DEF KeysUpdated, TypeOK
<1>5. ASSUME NEW n \in Node, NEW S \in SUBSET Node, SubscribersUpdated(n, S \ {n}) PROVE TypeOK'
  BY <1>5 DEF SubscribersUpdated, TypeOK
<1>6. CASE UNCHANGED vars
  BY Zenon, <1>6 DEF vars, TypeOK
<1>7. ASSUME NEW n \in Node, SendBroadcast(n) \/ SendPeerStatus(n) PROVE TypeOK'
  <2>1. subscribers[n] \in SUBSET Node
    BY Zenon DEF TypeOK
  <2> QED
    BY Zenon, <1>2, <1>7, <2>1 DEF SendBroadcast, SendPeerStatus, Kind
<1>8. ASSUME NEW n \in Node, NEW m \in Node, SendMessage(n, m) PROVE TypeOK'
  BY <1>2, <1>8 DEF SendMessage, Kind
<1> QED
  BY Zenon, <1>1, <1>3, <1>4, <1>5, <1>6, <1>7, <1>8 DEF Next

-----------------------------------------------------------------------------
(* The steps keep the invariant *)

\* Every message has an id, and comes from a node.
LEMMA MessagesHaveOrigins ==
  ASSUME TypeOK
  PROVE  /\ DOMAIN messages = 1..Len(messages) /\ DOMAIN messages \subseteq Id
         /\ \A id \in DOMAIN messages : messages[id].origin \in Node
<1>1. messages \in Seq([kind : Kind, origin : Node]) /\ Len(messages) <= MaxMessages
  BY Zenon DEF TypeOK
<1>2. DOMAIN messages = 1..Len(messages) /\ Len(messages) \in Nat
  BY <1>1
<1>3. \A id \in DOMAIN messages : messages[id] \in [kind : Kind, origin : Node]
  BY <1>1, SeqElement, Zenon
<1> QED
  BY <1>1, <1>2, <1>3 DEF Id

\* recv: a message that is new to a node is delivered if it is a broadcast, and
\* sent on; the node knows it from then on.
LEMMA RecvKeepsInv ==
  ASSUME Inv, NEW p \in Packet, Recv(p)
  PROVE  Inv'
<1>1. TypeOK /\ TypeOK'
  BY Zenon, TypeStep DEF Inv, Next
<1>2. /\ p \in net /\ p.from \in Node /\ p.to \in Node
      /\ UNCHANGED <<keys, subscribers, messages, updates>>
      /\ IsNew(p) => p.id \in DOMAIN messages /\ p.id \in Id
  BY Zenon DEF Recv, Packet, Inv, NetCarriesMessages, IsNew
<1>3. CASE ~CanDecrypt(p)
  <2>1. UNCHANGED <<net, seen, evicted, delivered>>
    BY Zenon, <1>3 DEF Recv
  <2>2. \A n : Known(n)' = Known(n)
    BY Zenon, <2>1 DEF Known
  <2> QED
    BY <1>1, <1>2, <2>1, <2>2 DEF Inv, NetCarriesMessages, OriginKnows, DeliveredIsKnown,
         KnownIsDelivered, AtMostOnce, Undisturbed, KnownIsSentOn
<1>4. CASE CanDecrypt(p)
  <2>1. /\ \A n \in Node, id \in Id :
             id \in Known(n)' <=> id \in Known(n) \/ (n = p.to /\ id = p.id /\ IsNew(p))
        /\ \A n \in Node : evicted[n] \subseteq evicted'[n]
    BY Zenon, <1>1, <1>4, RecvCache
  <2>2. net' = net \cup Forward(p) \cup Answer(p)
    BY Zenon, <1>4 DEF Recv
  <2>3. \A n \in Node, id \in Id :
          delivered'[n][id] =
            IF n = p.to /\ id = p.id /\ IsNew(p) /\ messages[id].kind = "Broadcast"
            THEN IF delivered[n][id] < 2 THEN delivered[n][id] + 1 ELSE delivered[n][id]
            ELSE delivered[n][id]
    <3>1. delivered \in [Node -> [Id -> 0..2]]
      BY Zenon, <1>1 DEF TypeOK
    <3>2. CASE IsNew(p) /\ messages[p.id].kind = "Broadcast"
      <4>1. delivered' = [delivered EXCEPT ![p.to][p.id] = IF @ < 2 THEN @ + 1 ELSE @]
        BY Zenon, <1>4, <3>2 DEF Recv
      <4> QED
        BY <1>2, <3>1, <3>2, <4>1
    <3>3. CASE ~(IsNew(p) /\ messages[p.id].kind = "Broadcast")
      BY <1>4, <3>3 DEF Recv
    <3> QED
      BY Zenon, <3>2, <3>3
  <2>4. DOMAIN messages \subseteq Id /\ \A id \in DOMAIN messages : messages[id].origin \in Node
    BY Zenon, <1>1, MessagesHaveOrigins
  <2>5. NetCarriesMessages'
    BY Zenon, <1>2, <2>2 DEF Inv, NetCarriesMessages, Forward, Answer, SendTo
  <2>6. OriginKnows'
    <3>1. \A id \in DOMAIN messages : id \in Known(messages[id].origin)'
      BY <1>2, <2>1, <2>4 DEF Inv, OriginKnows
    <3> QED
      BY <1>2, <3>1 DEF OriginKnows
  <2>7. DeliveredIsKnown'
    <3> SUFFICES ASSUME NEW n \in Node, NEW id \in Id, delivered'[n][id] > 0
                 PROVE  /\ id \in DOMAIN messages /\ messages[id].kind = "Broadcast"
                        /\ id \in Known(n)'
      BY Zenon, <1>2 DEF DeliveredIsKnown
    <3>1. delivered[n][id] \in 0..2
      BY <1>1 DEF TypeOK
    <3>2. CASE delivered[n][id] > 0
      BY Zenon, <2>1, <3>2 DEF Inv, DeliveredIsKnown
    <3>3. CASE n = p.to /\ id = p.id /\ IsNew(p) /\ messages[id].kind = "Broadcast"
      BY Zenon, <1>2, <2>1, <3>3
    <3> QED
      BY <2>3, <3>1, <3>2, <3>3
  <2>8. KnownIsDelivered'
    <3> SUFFICES ASSUME NEW n \in Node, NEW id \in Id, id \in Known(n)'
                 PROVE  /\ id \in DOMAIN messages
                        /\ messages[id].kind = "Broadcast" =>
                             messages[id].origin = n \/ delivered'[n][id] > 0
      BY Zenon, <1>2 DEF KnownIsDelivered
    <3>1. delivered[n][id] \in 0..2
      BY <1>1 DEF TypeOK
    <3> QED
      BY <1>2, <2>1, <2>3, <3>1 DEF Inv, KnownIsDelivered
  <2>9. AtMostOnce'
    <3> SUFFICES ASSUME NEW n \in Node, NEW id \in Id, id \notin evicted'[n]
                 PROVE  /\ delivered'[n][id] <= 1
                        /\ id \in DOMAIN messages /\ messages[id].origin = n =>
                             delivered'[n][id] = 0
      BY Zenon, <1>2 DEF AtMostOnce
    <3>1. delivered[n][id] \in 0..2 /\ id \notin evicted[n]
      BY <1>1, <2>1 DEF TypeOK
    <3>2. /\ delivered[n][id] <= 1
          /\ id \in DOMAIN messages /\ messages[id].origin = n => delivered[n][id] = 0
      BY Zenon, <3>1 DEF Inv, AtMostOnce
    <3>3. CASE n = p.to /\ id = p.id /\ IsNew(p)
      <4>1. id \notin Known(n)
        BY Zenon, <3>1, <3>3 DEF IsNew, Known
      <4>2. delivered[n][id] = 0 /\ (id \in DOMAIN messages => messages[id].origin # n)
        BY <3>1, <4>1 DEF Inv, DeliveredIsKnown, OriginKnows
      <4> QED
        BY <2>3, <4>2
    <3> QED
      BY <2>3, <3>2, <3>3
  <2>10. Undisturbed'
    <3> SUFFICES ASSUME updates = 0
                 PROVE  keys = Keys /\ subscribers = Subscribers /\ KnownIsSentOn'
      BY Zenon, <1>2 DEF Undisturbed
    <3>1. keys = Keys /\ subscribers = Subscribers /\ KnownIsSentOn
      BY Zenon DEF Inv, Undisturbed
    <3>2. ASSUME NEW n \in Node, NEW id \in DOMAIN messages, messages[id].kind = "Broadcast",
                 id \in Known(n)', NEW m \in Subscribers[n] \cap Keys[n]
          PROVE  [from |-> n, to |-> m, id |-> id] \in net'
      <4>1. CASE id \in Known(n)
        BY Zenon, <2>2, <3>1, <3>2, <4>1 DEF KnownIsSentOn
      <4>2. CASE n = p.to /\ id = p.id /\ IsNew(p)
        <5>1. Forward(p) = [from : {n}, to : Subscribers[n] \cap Keys[n], id : {id}]
          BY Zenon, <3>1, <4>2 DEF Forward, SendTo
        <5> QED
          BY Zenon, <2>2, <5>1
      <4> QED
        BY <2>1, <2>4, <3>2, <4>1, <4>2
    <3> QED
      BY Zenon, <1>2, <3>1, <3>2 DEF KnownIsSentOn
  <2> QED
    BY Zenon, <1>1, <2>5, <2>6, <2>7, <2>8, <2>9, <2>10 DEF Inv
<1> QED
  BY Zenon, <1>3, <1>4

\* send_broadcast and the like: the new message has a new id, its origin knows
\* it, and a broadcast goes to all subscribers.
LEMMA OriginateKeepsInv ==
  ASSUME Inv, [Next]_vars, NEW o \in Node, NEW kind, NEW targets, Originate(o, kind, targets),
         kind = "Broadcast" => targets = subscribers[o]
  PROVE  Inv'
<1> DEFINE new == Len(messages) + 1
<1>1. TypeOK /\ TypeOK'
  BY Zenon, TypeStep DEF Inv
<1>2. /\ UNCHANGED <<keys, subscribers, delivered, updates>>
      /\ net' = net \cup SendTo(o, targets, new)
  BY Zenon DEF Originate
<1>3. /\ DOMAIN messages = 1..Len(messages) /\ DOMAIN messages \subseteq Id
      /\ \A id \in DOMAIN messages : messages[id].origin \in Node
  BY Zenon, <1>1, MessagesHaveOrigins
<1>4. /\ new \in Id /\ new \notin DOMAIN messages
      /\ DOMAIN messages' = DOMAIN messages \cup {new}
      /\ messages'[new] = [kind |-> kind, origin |-> o]
      /\ \A id \in DOMAIN messages : messages'[id] = messages[id]
  <2>1. messages \in Seq([kind : Kind, origin : Node]) /\ Len(messages) < MaxMessages
    BY Zenon, <1>1 DEF Originate, TypeOK
  <2>2. messages' = Append(messages, [kind |-> kind, origin |-> o])
    BY Zenon DEF Originate
  <2> QED
    BY <1>3, <2>1, <2>2 DEF Id
<1>5. /\ \A n \in Node, id \in Id :
           id \in Known(n)' <=> id \in Known(n) \/ (n = o /\ id = new)
      /\ \A n \in Node : evicted[n] \subseteq evicted'[n]
  BY Zenon, <1>1, OriginateCache
<1> HIDE DEF new
<1>6. \A n \in Node, id \in Id : delivered[n][id] \in 0..2
  BY <1>1 DEF TypeOK
<1>7. \A n \in Node : delivered[n][new] = 0
  BY <1>4, <1>6 DEF Inv, DeliveredIsKnown
<1>8. NetCarriesMessages'
  BY Zenon, <1>2, <1>4 DEF Inv, NetCarriesMessages, SendTo
<1>9. OriginKnows'
  <2> SUFFICES ASSUME NEW id \in DOMAIN messages' PROVE id \in Known(messages[id].origin)'
    BY Zenon DEF OriginKnows
  <2>1. CASE id = new
    BY <1>4, <1>5, <2>1
  <2>2. CASE id \in DOMAIN messages
    BY Zenon, <1>3, <1>4, <1>5, <2>2 DEF Inv, OriginKnows
  <2> QED
    BY Zenon, <1>4, <2>1, <2>2
<1>10. DeliveredIsKnown'
  BY <1>2, <1>4, <1>5 DEF Inv, DeliveredIsKnown
<1>11. KnownIsDelivered'
  <2> SUFFICES ASSUME NEW n \in Node, NEW id \in Id, id \in Known(n)'
               PROVE  /\ id \in DOMAIN messages'
                      /\ messages'[id].kind = "Broadcast" =>
                           messages'[id].origin = n \/ delivered[n][id] > 0
    BY Zenon, <1>2 DEF KnownIsDelivered
  <2>1. CASE n = o /\ id = new
    BY <1>4, <2>1
  <2>2. CASE id \in Known(n)
    BY Zenon, <1>4, <2>2 DEF Inv, KnownIsDelivered
  <2> QED
    BY Zenon, <1>5, <2>1, <2>2
<1>12. AtMostOnce'
  <2> SUFFICES ASSUME NEW n \in Node, NEW id \in Id, id \notin evicted'[n]
               PROVE  /\ delivered[n][id] <= 1
                      /\ id \in DOMAIN messages' /\ messages'[id].origin = n =>
                           delivered[n][id] = 0
    BY Zenon, <1>2 DEF AtMostOnce
  <2>1. id \notin evicted[n]
    BY Zenon, <1>5
  <2> QED
    BY <1>4, <1>7, <2>1 DEF Inv, AtMostOnce
<1>13. Undisturbed'
  <2> SUFFICES ASSUME updates = 0
               PROVE  keys = Keys /\ subscribers = Subscribers /\ KnownIsSentOn'
    BY Zenon, <1>2 DEF Undisturbed
  <2>1. keys = Keys /\ subscribers = Subscribers /\ KnownIsSentOn
    BY Zenon DEF Inv, Undisturbed
  <2>2. ASSUME NEW n \in Node, NEW id \in DOMAIN messages', messages'[id].kind = "Broadcast",
               id \in Known(n)', NEW m \in Subscribers[n] \cap Keys[n]
        PROVE  [from |-> n, to |-> m, id |-> id] \in net'
    <3>1. CASE id \in DOMAIN messages
      <4>1. id # new /\ id \in Known(n)
        BY <1>3, <1>4, <1>5, <2>2, <3>1
      <4> QED
        BY <1>2, <1>4, <2>1, <2>2, <3>1, <4>1 DEF KnownIsSentOn
    <3>2. CASE id = new
      <4>1. n = o
        BY <1>4, <1>5, <2>2, <3>2 DEF Inv, KnownIsDelivered
      <4>2. SendTo(o, targets, new) = [from : {o}, to : Subscribers[o] \cap Keys[o], id : {new}]
        <5>1. kind = "Broadcast"
          BY <1>4, <2>2, <3>2
        <5> QED
          BY Zenon, <2>1, <5>1 DEF SendTo
      <4> QED
        BY <1>2, <2>2, <3>2, <4>1, <4>2
    <3> QED
      BY Zenon, <1>4, <2>2, <3>1, <3>2
  <2> QED
    BY Zenon, <2>1, <2>2 DEF KnownIsSentOn
<1> QED
  BY <1>1, <1>8, <1>9, <1>10, <1>11, <1>12, <1>13 DEF Inv

\* What changes keys or subscribers, or only what was heard, leaves the rest alone.
LEMMA OtherStepsKeepInv ==
  ASSUME Inv, [Next]_vars, UNCHANGED <<seen, net, messages, delivered, evicted>>,
         updates' = 0 => UNCHANGED <<keys, subscribers, updates>>
  PROVE  Inv'
<1>1. TypeOK'
  BY Zenon, TypeStep DEF Inv
<1>2. \A n : Known(n)' = Known(n)
  BY Zenon DEF Known
<1> QED
  BY <1>1, <1>2 DEF Inv, NetCarriesMessages, OriginKnows, DeliveredIsKnown,
       KnownIsDelivered, AtMostOnce, Undisturbed, KnownIsSentOn

-----------------------------------------------------------------------------
(* The theorems *)

\* Every reachable state of the PacketHandlers satisfies the invariant.
THEOREM PacketHandlerInvariant == Spec => []Inv
<1>1. Init => Inv
  <2> SUFFICES ASSUME Init PROVE Inv
    BY Zenon
  <2>1. TypeOK
    BY DEF Init, TypeOK
  <2>2. \A n \in Node : Known(n) = {}
    BY DEF Init, Known, Elements
  <2> QED
    BY <2>1, <2>2 DEF Init, Inv, NetCarriesMessages, OriginKnows, DeliveredIsKnown,
         KnownIsDelivered, AtMostOnce, Undisturbed, KnownIsSentOn
<1>2. Inv /\ [Next]_vars => Inv'
  <2> SUFFICES ASSUME Inv, [Next]_vars PROVE Inv'
    BY Zenon
  <2>1. ASSUME NEW p \in Packet, Recv(p) PROVE Inv'
    BY Zenon, <2>1, RecvKeepsInv
  <2>2. ASSUME NEW n \in Node, SendBroadcast(n) PROVE Inv'
    BY Zenon, <2>2, OriginateKeepsInv DEF SendBroadcast
  <2>3. ASSUME NEW n \in Node, SendPeerStatus(n) PROVE Inv'
    BY Zenon, <2>3, OriginateKeepsInv DEF SendPeerStatus
  <2>4. ASSUME NEW n \in Node, NEW m \in Node, SendMessage(n, m) PROVE Inv'
    BY Zenon, <2>4, OriginateKeepsInv DEF SendMessage
  <2>5. ASSUME NEW n \in Node, NEW m \in Node, RecvHandshake(n, m) PROVE Inv'
    BY Zenon, <2>5, OtherStepsKeepInv DEF RecvHandshake
  <2>6. ASSUME NEW n \in Node, NEW S \in SUBSET Node,
               KeysUpdated(n, S \ {n}) \/ SubscribersUpdated(n, S \ {n})
        PROVE  Inv'
    <3>1. updates' # 0
      BY <2>6 DEF KeysUpdated, SubscribersUpdated, Inv, TypeOK
    <3> QED
      BY Zenon, <2>6, <3>1, OtherStepsKeepInv DEF KeysUpdated, SubscribersUpdated
  <2>7. CASE UNCHANGED vars
    BY Zenon, <2>7, OtherStepsKeepInv DEF vars
  <2> QED
    BY Zenon, <2>1, <2>2, <2>3, <2>4, <2>5, <2>6, <2>7 DEF Next
<1> QED
  BY <1>1, <1>2, PTL DEF Spec

\* The variables of the PacketHandlers always have their types, and the cache of
\* seen ids never outgrows its size (LruCache::put).
THEOREM PacketTypes == Spec => []TypeOK
<1>1. Inv => TypeOK
  BY Zenon DEF Inv
<1> QED
  BY <1>1, PacketHandlerInvariant, PTL

\* However packets are repeated, delayed or reordered, and however keys and
\* subscriptions change, recv_broadcast hands a broadcast to the handler of a
\* node at most once, and never at its origin, until the id is evicted there.
THEOREM DeliveredAtMostOnce == Spec => []AtMostOnce
<1>1. Inv => AtMostOnce
  BY Zenon DEF Inv
<1> QED
  BY <1>1, PacketHandlerInvariant, PTL

\* In a cluster of any size and any shape, a broadcast of which no packet is on
\* its way any more has got to every node that is reached from its origin by
\* subscriptions (send_broadcast_to_subscribers), while nobody's keys or
\* subscriptions change.  Those who made the broadcast or got it are a set that
\* is closed under subscriptions.
THEOREM BroadcastReaches == Spec => []Disseminated
<1>1. Inv => Disseminated
  <2> SUFFICES ASSUME Inv, updates = 0,
                      NEW id \in DOMAIN messages, messages[id].kind = "Broadcast", AllArrived(id),
                      NEW m \in ReachableFrom(messages[id].origin)
               PROVE  delivered[m][id] > 0
    BY Zenon DEF Disseminated
  <2> DEFINE origin == messages[id].origin
             got == {n \in Node : n = origin \/ delivered[n][id] > 0}
  <2>1. id \in Id /\ origin \in Node
    BY Zenon, MessagesHaveOrigins DEF Inv
  <2>2. ASSUME NEW k \in got, NEW n \in Subscribers[k] \cap Keys[k] PROVE n \in got
    <3>1. id \in Known(k) /\ n \in Node
      BY Zenon, <2>1 DEF Inv, OriginKnows, DeliveredIsKnown
    <3>2. [from |-> k, to |-> n, id |-> id] \in net
      BY Zenon, <3>1 DEF Inv, Undisturbed, KnownIsSentOn
    <3>3. id \in Known(n)
      BY Zenon, <3>2 DEF AllArrived, Known
    <3> QED
      BY Zenon, <2>1, <3>1, <3>3 DEF Inv, KnownIsDelivered
  <2>3. got \in SUBSET Node /\ origin \in got
    BY Zenon, <2>1
  <2>4. m \in Node /\ m # origin
    BY Zenon DEF ReachableFrom
  <2>5. m \in got
    <3> HIDE DEF got, origin
    <3>1. m \in ReachableFrom(origin)
      BY Zenon DEF origin
    <3> QED
      BY Zenon, <2>2, <2>3, <3>1 DEF ReachableFrom
  <2> QED
    BY Zenon, <2>4, <2>5
<1> QED
  BY <1>1, PacketHandlerInvariant, PTL

-----------------------------------------------------------------------------
(* The refinement *)

\* The ids of the broadcasts, and where each comes from: what Broadcast calls
\* published.
Broadcasts == {id \in DOMAIN messages : messages[id].kind = "Broadcast"}
Published  == [id \in Broadcasts |-> messages[id].origin]

\* A step that makes no broadcast and delivers none is one of Other: the
\* application sees nothing of it.
LEMMA OtherIsOther ==
  ASSUME UNCHANGED <<Published, delivered>>,
         evicted' \in [Node -> SUBSET Id], \A n \in Node : evicted[n] \subseteq evicted'[n]
  PROVE  Abstract!Next
BY Zenon DEF Abstract!Next, Abstract!Other, Abstract!Forgets, Published, Broadcasts

\* A packet that is received hands a broadcast to the handler, which has been
\* published and is new to the node, or shows the application nothing.
LEMMA RecvRefines ==
  ASSUME Inv, NEW p \in Packet, Recv(p)
  PROVE  Abstract!Next
<1>1. p \in net /\ p.to \in Node /\ UNCHANGED messages
  BY Zenon DEF Recv, Packet
<1>2. UNCHANGED Published
  BY Zenon, <1>1 DEF Published, Broadcasts
<1>3. /\ evicted' \in [Node -> SUBSET Id]
      /\ \A n \in Node : evicted[n] \subseteq evicted'[n]
  <2>1. CASE CanDecrypt(p)
    BY Zenon, <2>1, RecvCache DEF Inv
  <2>2. CASE ~CanDecrypt(p)
    BY Zenon, <2>2 DEF Recv, Inv, TypeOK
  <2> QED
    BY Zenon, <2>1, <2>2
<1>4. CASE CanDecrypt(p) /\ IsNew(p) /\ messages[p.id].kind = "Broadcast"
  <2>1. p.id \in Id /\ p.id \in Broadcasts
    BY Zenon, <1>1, <1>4 DEF Inv, NetCarriesMessages, IsNew, Packet, Broadcasts
  <2>2. p.id \in evicted[p.to] \/ p.id \notin Known(p.to)
    BY Zenon, <1>4 DEF IsNew, Known
  <2>3. p.id \in evicted[p.to] \/ (delivered[p.to][p.id] = 0 /\ Published[p.id] # p.to)
    <3>1. delivered[p.to][p.id] \in 0..2
      BY <1>1, <2>1 DEF Inv, TypeOK
    <3> QED
      BY <1>1, <2>1, <2>2, <3>1 DEF Inv, DeliveredIsKnown, OriginKnows, Published, Broadcasts
  <2>4. delivered' = [delivered EXCEPT ![p.to][p.id] = IF @ < 2 THEN @ + 1 ELSE @]
    BY Zenon, <1>4 DEF Recv
  <2>5. Abstract!Deliver(p.to, p.id)
    BY <1>2, <1>3, <2>1, <2>3, <2>4 DEF Abstract!Deliver, Abstract!Forgets, Published, Broadcasts
  <2> QED
    BY Zenon, <1>1, <2>1, <2>5 DEF Abstract!Next
<1>5. CASE ~(CanDecrypt(p) /\ IsNew(p) /\ messages[p.id].kind = "Broadcast")
  <2>1. UNCHANGED delivered
    BY Zenon, <1>5 DEF Recv
  <2> QED
    BY <1>2, <1>3, <2>1, OtherIsOther
<1> QED
  BY Zenon, <1>4, <1>5

\* Making a message publishes it if it is a broadcast.
LEMMA OriginateRefines ==
  ASSUME Inv, NEW o \in Node, NEW kind, NEW targets, Originate(o, kind, targets)
  PROVE  Abstract!Next
<1>0. PICK new : new = Len(messages) + 1
  BY Zenon
<1>1. /\ evicted' \in [Node -> SUBSET Id]
      /\ \A n \in Node : evicted[n] \subseteq evicted'[n]
      /\ UNCHANGED delivered
  BY ZenonT(30), OriginateCache DEF Inv, Originate
<1>2. /\ DOMAIN messages = 1..Len(messages) /\ DOMAIN messages \subseteq Id
  BY Zenon, MessagesHaveOrigins DEF Inv
<1>3. /\ new \in Id /\ new \notin DOMAIN messages
      /\ DOMAIN messages' = DOMAIN messages \cup {new}
      /\ messages'[new] = [kind |-> kind, origin |-> o]
      /\ \A id \in DOMAIN messages : messages'[id] = messages[id]
  <2>1. messages \in Seq([kind : Kind, origin : Node]) /\ Len(messages) < MaxMessages
    BY Zenon DEF Originate, Inv, TypeOK
  <2>2. messages' = Append(messages, [kind |-> kind, origin |-> o])
    BY Zenon DEF Originate
  <2> QED
    BY <1>0, <1>2, <2>1, <2>2 DEF Id
<1>4. CASE kind = "Broadcast"
  <2>1. Broadcasts' = Broadcasts \cup {new} /\ new \notin Broadcasts
    BY <1>3, <1>4 DEF Broadcasts
  <2>2. Published' = [i \in DOMAIN Published \cup {new} |-> IF i = new THEN o ELSE Published[i]]
    BY <1>3, <2>1 DEF Published, Broadcasts
  <2>3. Abstract!Publish(o, new)
    BY Zenon, <1>1, <2>1, <2>2 DEF Abstract!Publish, Abstract!Forgets, Published, Broadcasts
  <2>4. new \in Id
    BY Zenon, <1>3
  <2> QED
    BY <2>3, <2>4, Zenon DEF Abstract!Next
<1>5. CASE kind # "Broadcast"
  <2>1. Broadcasts' = Broadcasts
    BY <1>3, <1>5 DEF Broadcasts
  <2>2. UNCHANGED Published
    BY Zenon, <1>3, <2>1 DEF Published, Broadcasts
  <2> QED
    BY Zenon, <1>1, <2>2, OtherIsOther
<1> QED
  BY Zenon, <1>4, <1>5

\* The cluster of PacketHandlers implements at-most-once broadcast: its initial
\* states are initial states of Broadcast, and every step is one of Broadcast's
\* or a stuttering one.
THEOREM Refinement == Spec => ImplementsBroadcast
<1>1. Init => Abstract!Init
  BY DEF Init, Abstract!Init
<1>2. Inv /\ [Next]_vars => [Abstract!Next]_Abstract!vars
  <2> SUFFICES ASSUME Inv, [Next]_vars PROVE Abstract!Next \/ UNCHANGED Abstract!vars
    BY Zenon
  <2>1. ASSUME NEW p \in Packet, Recv(p) PROVE Abstract!Next
    BY Zenon, <2>1, RecvRefines
  <2>2. ASSUME NEW n \in Node, SendBroadcast(n) \/ SendPeerStatus(n) PROVE Abstract!Next
    BY Zenon, <2>2, OriginateRefines DEF SendBroadcast, SendPeerStatus
  <2>3. ASSUME NEW n \in Node, NEW m \in Node, SendMessage(n, m) PROVE Abstract!Next
    BY Zenon, <2>3, OriginateRefines DEF SendMessage
  <2>4. CASE UNCHANGED <<messages, delivered, evicted>>
    BY Zenon, <2>4 DEF Abstract!vars
  <2> QED
    BY Zenon, <2>1, <2>2, <2>3, <2>4 DEF Next, RecvHandshake, KeysUpdated, SubscribersUpdated, vars
<1> QED
  BY <1>1, <1>2, PacketHandlerInvariant, PTL DEF Spec, ImplementsBroadcast, Abstract!Spec
=============================================================================
