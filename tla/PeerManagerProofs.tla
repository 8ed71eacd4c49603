-------------------------- MODULE PeerManagerProofs --------------------------
(***************************************************************************)
(* Proofs about PeerManager, for any set of peers, any zones, strategy and *)
(* number of subscriptions, and mailboxes of any size.                     *)
(***************************************************************************)
EXTENDS PeerManager, FiniteSetTheorems, SequenceTheorems, TLAPS

USE SelectionAssumption, PeerManagerAssumption

-----------------------------------------------------------------------------
(* Lemmas about sequences and numbers *)

\* The elements of a sequence.
LEMMA SeqElement == \A S : \A s \in Seq(S) : \A i \in DOMAIN s : s[i] \in S
OBVIOUS

\* A set of positions of a sequence that is not empty has a last one.
LEMMA HasLast ==
  ASSUME NEW n \in Nat, NEW P \in SUBSET (1..n), P # {}
  PROVE  \E i \in P : \A j \in P : j <= i
<1> DEFINE T == {n - i : i \in P}
<1>1. T \subseteq Nat /\ T # {}
  <2>1. \A i \in P : n - i \in Nat
    OBVIOUS
  <2>2. PICK i \in P : TRUE
    BY Zenon
  <2>3. n - i \in T
    BY Zenon
  <2> QED
    BY Zenon, <2>1, <2>3
<1> DEFINE less == {p \in Nat \X Nat : p[1] < p[2]}
<1>2. IsWellFoundedOn(less, Nat)
  BY Zenon, NatLessThanWellFounded DEF OpToRel
<1>3. \A y, x \in Nat : y < x => <<y, x>> \in less
  BY Zenon
<1> HIDE DEF less, T
<1>4. PICK x \in T : \A y \in T : ~(<<y, x>> \in less)
  BY Zenon, <1>1, <1>2, WFMin
<1>5. \A y \in T : ~(y < x)
  BY Zenon, <1>1, <1>3, <1>4
<1> USE DEF T
<1>6. PICK i \in P : x = n - i
  BY Zenon
<1>7. ASSUME NEW j \in P PROVE j <= i
  <2>1. n - j \in T
    BY Zenon
  <2>2. ~(n - j < n - i)
    BY Zenon, <1>5, <1>6, <2>1
  <2> QED
    BY <2>2
<1> QED
  BY Zenon, <1>7

-----------------------------------------------------------------------------
(* The PacketHandler's subscribers *)

\* What may be cast to the PacketHandler.
CastType == [type : {"SubscribersUpdated"}, peers : SUBSET Peer]
            \cup [type : {"StartSubscription"}, to : Peer]

Updates(box) == {i \in DOMAIN box : box[i].type = "SubscribersUpdated"}

\* Without an update the subscribers are what they were, else those of the last.
LEMMA LastUpdate ==
  ASSUME NEW box \in Seq(CastType), NEW s
  PROVE  /\ Updates(box) = {} => SubscribersAfter(box, s) = s
         /\ \A i \in Updates(box) :
              (\A j \in Updates(box) : j <= i) => SubscribersAfter(box, s) = box[i].peers
         /\ Updates(box) # {} => \E i \in Updates(box) : \A j \in Updates(box) : j <= i
<1>1. Updates(box) = {} => SubscribersAfter(box, s) = s
  BY Zenon DEF SubscribersAfter, Updates
<1>2. ASSUME NEW i \in Updates(box), \A j \in Updates(box) : j <= i
      PROVE  SubscribersAfter(box, s) = box[i].peers
  <2> DEFINE last == CHOOSE k \in Updates(box) : \A j \in Updates(box) : j <= k
  <2>1. last \in Updates(box) /\ \A j \in Updates(box) : j <= last
    BY Zenon, <1>2
  <2>2. last \in Int /\ i \in Int
    BY <2>1 DEF Updates
  <2>3. last = i
    BY <1>2, <2>1, <2>2
  <2>4. SubscribersAfter(box, s) = box[last].peers
    BY Zenon, <2>1 DEF SubscribersAfter, Updates
  <2> QED
    BY Zenon, <2>3, <2>4
<1>3. Updates(box) # {} => \E i \in Updates(box) : \A j \in Updates(box) : j <= i
  <2>1. Updates(box) \in SUBSET (1..Len(box)) /\ Len(box) \in Nat
    BY DEF Updates
  <2> QED
    BY Zenon, <2>1, HasLast
<1> QED
  BY Zenon, <1>1, <1>2, <1>3

\* update_subscribers: the subscribers that were cast last are those that count.
LEMMA AfterUpdate ==
  ASSUME NEW box \in Seq(CastType), NEW new \in SUBSET Peer, NEW s
  PROVE  /\ Append(box, SubscribersUpdated(new)) \in Seq(CastType)
         /\ SubscribersAfter(Append(box, SubscribersUpdated(new)), s) = new
<1> DEFINE b == Append(box, SubscribersUpdated(new))
           n == Len(box) + 1
<1>1. SubscribersUpdated(new) \in CastType
  BY Zenon DEF SubscribersUpdated, CastType
<1>2. /\ b \in Seq(CastType) /\ DOMAIN b = 1..n
      /\ b[n] = SubscribersUpdated(new) /\ n \in Nat \ {0}
  BY <1>1
<1> HIDE DEF b, n
<1>3. n \in Updates(b) /\ b[n].peers = new
  BY <1>2 DEF Updates, SubscribersUpdated
<1>4. \A j \in Updates(b) : j <= n
  BY <1>2 DEF Updates
<1> QED
  BY Zenon, <1>2, <1>3, <1>4, LastUpdate DEF b

\* A StartSubscription that is cast changes nothing in the PacketHandler.
LEMMA AfterStarts ==
  ASSUME NEW box \in Seq(CastType), NEW starts \in Seq(CastType), NEW s,
         \A i \in DOMAIN starts : starts[i].type = "StartSubscription"
  PROVE  /\ box \o starts \in Seq(CastType)
         /\ SubscribersAfter(box \o starts, s) = SubscribersAfter(box, s)
<1> DEFINE b == box \o starts
<1>1. /\ b \in Seq(CastType) /\ DOMAIN b = 1..(Len(box) + Len(starts))
      /\ \A i \in 1..Len(box) : b[i] = box[i]
      /\ \A i \in (Len(box) + 1)..(Len(box) + Len(starts)) : b[i] = starts[i - Len(box)]
  OBVIOUS
<1>2. DOMAIN box = 1..Len(box) /\ DOMAIN starts = 1..Len(starts)
      /\ Len(box) \in Nat /\ Len(starts) \in Nat
  OBVIOUS
<1> HIDE DEF b
<1>3. ASSUME NEW i \in DOMAIN b, i \notin DOMAIN box PROVE b[i].type = "StartSubscription"
  <2>1. b[i] = starts[i - Len(box)] /\ i - Len(box) \in DOMAIN starts
    BY <1>1, <1>2, <1>3
  <2> QED
    BY Zenon, <2>1
<1>4. Updates(b) = Updates(box) /\ \A i \in Updates(box) : b[i] = box[i]
  BY <1>1, <1>2, <1>3 DEF Updates
<1>5. SubscribersAfter(b, s) = SubscribersAfter(box, s)
  <2>1. CASE Updates(box) = {}
    BY Zenon, <1>1, <1>4, <2>1, LastUpdate
  <2>2. CASE Updates(box) # {}
    <3>1. PICK i \in Updates(box) : \A j \in Updates(box) : j <= i
      BY Zenon, <2>2, LastUpdate
    <3>2. SubscribersAfter(box, s) = box[i].peers
      BY Zenon, <3>1, LastUpdate
    <3>3. SubscribersAfter(b, s) = b[i].peers
      BY <1>1, <1>4, <3>1, LastUpdate
    <3> QED
      BY Zenon, <1>4, <3>2, <3>3
  <2> QED
    BY Zenon, <2>1, <2>2
<1> QED
  BY Zenon, <1>1, <1>5 DEF b

\* A PacketHandler that takes the next cast gets to the same subscribers.
LEMMA AfterHead ==
  ASSUME NEW box \in Seq(CastType), box # <<>>, NEW s
  PROVE  SubscribersAfter(Tail(box), SubscribersAfter(<<Head(box)>>, s))
           = SubscribersAfter(box, s)
<1> DEFINE t == Tail(box)
           h == <<Head(box)>>
           r == SubscribersAfter(h, s)
<1>1. /\ t \in Seq(CastType) /\ DOMAIN t = 1..(Len(box) - 1)
      /\ \A i \in DOMAIN t : t[i] = box[i + 1]
      /\ DOMAIN box = 1..Len(box) /\ Len(box) \in Nat \ {0}
  OBVIOUS
<1>2. h \in Seq(CastType) /\ DOMAIN h = {1} /\ h[1] = box[1]
  BY SeqElement
<1> HIDE DEF t, h
<1>0. \A j \in Updates(box) : j = 1 \/ j - 1 \in Updates(t)
  <2> SUFFICES ASSUME NEW j \in DOMAIN box, box[j].type = "SubscribersUpdated", j # 1
               PROVE  j - 1 \in Updates(t)
    BY Zenon DEF Updates
  <2>1. j - 1 \in DOMAIN t /\ t[j - 1] = box[(j - 1) + 1] /\ (j - 1) + 1 = j
    BY <1>1
  <2> QED
    BY Zenon, <2>1 DEF Updates
<1>3. CASE Updates(t) # {}
  <2>1. PICK i \in Updates(t) : \A j \in Updates(t) : j <= i
    BY Zenon, <1>1, <1>3, LastUpdate
  <2>2. i \in DOMAIN t /\ i + 1 \in Updates(box)
    BY <1>1, <2>1 DEF Updates
  <2>5. \A j \in Updates(box) : j <= i + 1
    <3>1. i \in Nat /\ \A j \in Updates(box) : j \in Nat
      BY <1>1, <2>2 DEF Updates
    <3> QED
      BY <1>0, <2>1, <3>1
  <2>3. SubscribersAfter(box, s) = box[i + 1].peers
    BY Zenon, <2>2, <2>5, LastUpdate
  <2>4. SubscribersAfter(t, r) = t[i].peers
    BY <1>1, <2>1, LastUpdate
  <2> QED
    BY Zenon, <1>1, <2>2, <2>3, <2>4 DEF t, h
<1>4. CASE Updates(t) = {} /\ box[1].type = "SubscribersUpdated"
  <2>1. 1 \in Updates(box) /\ \A j \in Updates(box) : j <= 1
    <3>1. 1 \in Updates(box)
      BY <1>1, <1>4 DEF Updates
    <3> QED
      BY <1>0, <1>4, <3>1
  <2>2. 1 \in Updates(h) /\ \A j \in Updates(h) : j <= 1
    BY <1>2, <1>4 DEF Updates
  <2>3. SubscribersAfter(box, s) = box[1].peers /\ r = h[1].peers
    BY <1>2, <2>1, <2>2, LastUpdate
  <2>4. SubscribersAfter(t, r) = r
    BY Zenon, <1>1, <1>4, LastUpdate
  <2> QED
    BY Zenon, <1>2, <2>3, <2>4 DEF t, h
<1>5. CASE Updates(t) = {} /\ box[1].type # "SubscribersUpdated"
  <2>1. Updates(box) = {} /\ Updates(h) = {}
    <3>1. 1 \notin Updates(box) /\ Updates(h) = {}
      BY Zenon, <1>2, <1>5 DEF Updates
    <3> QED
      BY Zenon, <1>0, <1>5, <3>1
  <2>2. SubscribersAfter(box, s) = s /\ r = s
    BY Zenon, <1>2, <2>1, LastUpdate
  <2>3. SubscribersAfter(t, r) = r
    BY Zenon, <1>1, <1>5, LastUpdate
  <2> QED
    BY Zenon, <2>2, <2>3 DEF t, h
<1> QED
  BY Zenon, <1>3, <1>4, <1>5

-----------------------------------------------------------------------------
(* Choosing peers *)

\* choose_peers chooses among the peers it is given, and never this node.
LEMMA ChosenArePeers ==
  ASSUME NEW K \in SUBSET Peer, NEW C \in ChoosePeers(K)
  PROVE  C \subseteq K \ {Self}
<1> DEFINE P == K \ {Self}
<1>1. ASSUME NEW S, NEW n, NEW D \in ChooseMultiple(S, n) PROVE D \subseteq S
  BY Zenon DEF ChooseMultiple
<1>2. CASE Strategy # "HubAndSpoke"
  BY Zenon, <1>1, <1>2 DEF ChoosePeers
<1>3. CASE Strategy = "HubAndSpoke"
  <2> DEFINE local == {p \in P : Zone[p] = Zone[Self]}
             remote == P \ local
  <2>1. C \in HubAndSpoke(P)
    BY Zenon, <1>3 DEF ChoosePeers
  <2>2. PICK s \in Orders(remote) : \E r \in OneOfEach(ChunkBy(s)) :
          \E l \in ChooseMultiple(local, SaturatingSub(PeerSubscriptions, Cardinality(r))) :
            C = l \cup r
    BY <2>1 DEF HubAndSpoke
  <2>3. PICK r \in OneOfEach(ChunkBy(s)) :
          \E l \in ChooseMultiple(local, SaturatingSub(PeerSubscriptions, Cardinality(r))) :
            C = l \cup r
    BY Zenon, <2>2
  <2>4. UNION ChunkBy(s) \subseteq remote
    <3>1. \A k \in DOMAIN s : s[k] \in remote
      BY Zenon DEF Orders
    <3>2. DOMAIN s = 1..Cardinality(remote) /\ Cardinality(remote) \in Nat
      <4>1. IsFiniteSet(remote)
        BY Zenon, FS_Subset
      <4> QED
        BY Zenon, <4>1, FS_CardinalityType DEF Orders
    <3>3. ASSUME NEW a \in DOMAIN s, NEW b \in DOMAIN s, NEW k \in a..b PROVE k \in DOMAIN s
      BY <3>2
    <3>4. ASSUME NEW c \in ChunkBy(s), NEW x \in c PROVE x \in remote
      <4>1. PICK run \in (DOMAIN s) \X (DOMAIN s) : c = {s[k] : k \in run[1]..run[2]}
        BY Zenon DEF ChunkBy
      <4>2. PICK k \in run[1]..run[2] : x = s[k]
        BY Zenon, <4>1
      <4>3. k \in DOMAIN s
        BY Zenon, <3>3
      <4> QED
        BY Zenon, <3>1, <4>2, <4>3
    <3> QED
      BY Zenon, <3>4
  <2>5. r \subseteq remote
    BY Zenon, <2>4 DEF OneOfEach
  <2> QED
    BY Zenon, <1>1, <2>3, <2>5
<1> QED
  BY Zenon, <1>2, <1>3

\* The StartSubscriptions that trigger_reassignment casts.
LEMMA StartsAreCasts ==
  ASSUME NEW S \in SUBSET Peer, NEW starts \in SendStarts(S)
  PROVE  /\ starts \in Seq(CastType)
         /\ \A i \in DOMAIN starts : starts[i].type = "StartSubscription"
<1>1. Cardinality(S) \in Nat
  BY Zenon, FS_Subset, FS_CardinalityType
<1>2. PICK s \in Orders(S) : starts = [i \in DOMAIN s |-> SendStart(s[i])]
  BY Zenon DEF SendStarts
<1>3. DOMAIN s = 1..Cardinality(S) /\ \A i \in DOMAIN s : s[i] \in Peer
  BY Zenon DEF Orders
<1>4. \A i \in DOMAIN s : SendStart(s[i]) \in CastType
  BY Zenon, <1>3 DEF SendStart, CastType
<1>5. /\ DOMAIN starts = 1..Cardinality(S)
      /\ \A i \in DOMAIN starts : starts[i] \in CastType /\ starts[i].type = "StartSubscription"
  BY <1>2, <1>3, <1>4 DEF SendStart
<1>6. starts \in [1..Cardinality(S) -> CastType]
  BY Zenon, <1>2, <1>3, <1>4
<1> QED
  BY <1>1, <1>5, <1>6

-----------------------------------------------------------------------------
(* The inductive invariant *)

HandshakerType == [peer : Peer, and_then : BOOLEAN, replied : BOOLEAN]

\* The types of all variables but the mailbox.
TablesType ==
  /\ DOMAIN known \in SUBSET Peer /\ known \in [DOMAIN known -> 0..MaxTimestamp]
  /\ subscribers \in SUBSET Peer /\ subscribed_to \in SUBSET Peer
  /\ reassign_timer \in BOOLEAN /\ watchdogs \in SUBSET Peer /\ heartbeat \in BOOLEAN
  /\ notify_ready \in BOOLEAN
  /\ ph_subscribers \in SUBSET Peer
  /\ ph_mailbox \in Seq(CastType)
  /\ greeting \in SUBSET Peer
  /\ handshaker \in SUBSET HandshakerType
  /\ bootstrap \in BOOLEAN
  /\ server \in {"starting", "running", "stopping"}

\* What holds of the tables, the timers and the copies, whatever is in the mailbox.
Tables ==
  /\ TablesType
  /\ KeysInStep
  /\ WatchdogsGuardSubscriptions
  /\ SubscribersServed

\* A Shutdown comes only from the application, when it stops the server.
ShutdownIsLast ==
  \A i \in DOMAIN mailbox : mailbox[i].type = "Shutdown" => server = "stopping"

Inv == Tables /\ mailbox \in Seq(Request) /\ ShutdownIsLast

\* The fields of a message.
LEMMA RequestFields ==
  ASSUME NEW m \in Request
  PROVE  /\ m.type = "Up" => m.own \in BOOLEAN /\ m.peer \in Peer /\ m.ts \in 0..MaxTimestamp
         /\ m.type = "Down" => m.peer \in Peer
         /\ m.type = "Peers" => m.peers \in SUBSET Peer
         /\ m.type \in PlainRequest => m.from \in Peer
BY Zenon DEF Request, PlainRequest, OwnRequest

\* The subscribers the PacketHandler is told of are peers.
LEMMA AfterArePeers ==
  ASSUME NEW box \in Seq(CastType), NEW s \in SUBSET Peer
  PROVE  SubscribersAfter(box, s) \in SUBSET Peer
<1>1. CASE Updates(box) = {}
  BY Zenon, <1>1, LastUpdate
<1>2. CASE Updates(box) # {}
  <2>1. PICK i \in Updates(box) : \A j \in Updates(box) : j <= i
    BY <1>2, LastUpdate
  <2>2. SubscribersAfter(box, s) = box[i].peers
    BY Zenon, <2>1, LastUpdate
  <2>3. i \in DOMAIN box /\ box[i].type = "SubscribersUpdated"
    BY Zenon, <2>1 DEF Updates
  <2>4. box[i] \in CastType
    BY Zenon, <2>3, SeqElement
  <2> QED
    BY <2>2, <2>3, <2>4 DEF CastType
<1> QED
  BY Zenon, <1>1, <1>2

\* Nothing waits: the subscribers are what they are.
LEMMA AfterNothing ==
  ASSUME NEW s
  PROVE  <<>> \in Seq(CastType) /\ SubscribersAfter(<<>>, s) = s
<1>1. <<>> \in Seq(CastType) /\ Updates(<<>>) = {}
  BY DEF Updates
<1> QED
  BY Zenon, <1>1, LastUpdate

-----------------------------------------------------------------------------
(* The handlers keep it *)

\* The handler of Up (add_peer) keeps the tables in step.
LEMMA AddPeerKeeps ==
  ASSUME Tables, NEW m \in Request, AddPeer(m)
  PROVE  Tables'
<1>1. m.type = "Up" /\ m.own \in BOOLEAN /\ m.peer \in Peer /\ m.ts \in 0..MaxTimestamp
  BY Zenon, RequestFields DEF AddPeer
<1>2. /\ DOMAIN known' \in SUBSET Peer /\ known' \in [DOMAIN known' -> 0..MaxTimestamp]
      /\ DOMAIN known \subseteq DOMAIN known'
  BY Zenon, <1>1 DEF AddPeer, NewPeer, Insert, Tables, TablesType
<1>3. /\ ph_mailbox' = <<>> /\ ph_keys' = [p \in Handshaken(known') |-> known'[p]]
      /\ ph_subscribers' = SubscribersAfter(ph_mailbox, ph_subscribers)
  BY Zenon DEF AddPeer, UpdateKeys
<1>4. /\ ph_mailbox' \in Seq(CastType) /\ ph_subscribers' \in SUBSET Peer
      /\ SubscribersAfter(ph_mailbox', ph_subscribers')
           = SubscribersAfter(ph_mailbox, ph_subscribers)
  BY Zenon, <1>3, AfterArePeers, AfterNothing DEF Tables, TablesType
<1>5. handshaker' \in SUBSET HandshakerType
  BY <1>1, ZenonT(30) DEF AddPeer, Reply, Tables, TablesType, HandshakerType
<1>6. reassign_timer' \in BOOLEAN
  BY Zenon DEF AddPeer, StartReassignTimer
<1>7. UNCHANGED <<subscribers, subscribed_to, watchdogs, heartbeat, notify_ready,
                  greeting, bootstrap, server>>
  BY Zenon DEF AddPeer
<1>8. TablesType'
  BY Zenon, <1>2, <1>4, <1>5, <1>6, <1>7 DEF Tables, TablesType
<1>9. KeysInStep'
  BY Zenon, <1>3 DEF KeysInStep, Handshaken
<1>10. WatchdogsGuardSubscriptions'
  BY Zenon, <1>2, <1>7 DEF Tables, WatchdogsGuardSubscriptions
<1>11. SubscribersServed'
  BY Zenon, <1>2, <1>4, <1>7 DEF Tables, SubscribersServed
<1> QED
  BY Zenon, <1>8, <1>9, <1>10, <1>11 DEF Tables

\* The handler of Down (remove_peer) keeps the tables in step.
LEMMA RemovePeerKeeps ==
  ASSUME Tables, NEW m \in Request, RemovePeer(m)
  PROVE  Tables'
<1>1. m.type = "Down" /\ m.peer \in Peer
  BY Zenon, RequestFields DEF RemovePeer
<1>2. /\ DOMAIN known' = DOMAIN known \ {m.peer}
      /\ DOMAIN known' \in SUBSET Peer /\ known' \in [DOMAIN known' -> 0..MaxTimestamp]
  BY Zenon DEF RemovePeer, Remove, Tables, TablesType
<1>3. /\ ph_mailbox' = <<>> /\ ph_keys' = [p \in Handshaken(known') |-> known'[p]]
      /\ ph_subscribers'
           = SubscribersAfter(Append(ph_mailbox, SubscribersUpdated(subscribers)), ph_subscribers)
  BY Zenon DEF RemovePeer, UpdateKeys, UpdateSubscribers
<1>4. /\ ph_subscribers' = subscribers /\ ph_mailbox' \in Seq(CastType)
      /\ SubscribersAfter(ph_mailbox', ph_subscribers') = subscribers
  BY <1>3, AfterUpdate, AfterNothing DEF Tables, TablesType
<1>5. reassign_timer' \in BOOLEAN
  BY Zenon DEF RemovePeer, StartReassignTimer
<1>6. /\ watchdogs' = watchdogs \ {m.peer} /\ subscribed_to' = subscribed_to \ {m.peer}
      /\ subscribers' = subscribers \ {m.peer}
      /\ UNCHANGED <<heartbeat, notify_ready, greeting, handshaker, bootstrap, server>>
  BY Zenon DEF RemovePeer, shaker
<1>7. TablesType'
  BY Zenon, <1>2, <1>4, <1>5, <1>6 DEF Tables, TablesType
<1>8. KeysInStep'
  BY Zenon, <1>3 DEF KeysInStep, Handshaken
<1>9. WatchdogsGuardSubscriptions'
  BY Zenon, <1>2, <1>6 DEF Tables, WatchdogsGuardSubscriptions
<1>10. SubscribersServed'
  BY Zenon, <1>2, <1>4, <1>6 DEF Tables, SubscribersServed
<1> QED
  BY <1>7, <1>8, <1>9, <1>10 DEF Tables

\* The handler of a peer list (update_peers) keeps the tables in step.
LEMMA UpdatePeersKeeps ==
  ASSUME Tables, NEW m \in Request, UpdatePeers(m)
  PROVE  Tables'
<1>1. m.type = "Peers" /\ m.peers \in SUBSET Peer
  BY Zenon, RequestFields DEF UpdatePeers
<1>2. /\ DOMAIN known' = DOMAIN known \cup m.peers
      /\ \A p \in DOMAIN known' : known'[p] = IF p \in DOMAIN known THEN known[p] ELSE 0
      /\ known' \in [DOMAIN known' -> 0..MaxTimestamp]
  BY <1>1 DEF UpdatePeers, Tables, TablesType
<1>3. reassign_timer' \in BOOLEAN
  BY Zenon DEF UpdatePeers, StartReassignTimer, Tables, TablesType
<1>4. UNCHANGED <<subscribers, subscribed_to, watchdogs, heartbeat, notify_ready, ph_keys,
                  ph_subscribers, ph_mailbox, greeting, handshaker, bootstrap, server>>
  BY Zenon DEF UpdatePeers, packets, shaker
<1>5. TablesType'
  BY Zenon, <1>1, <1>2, <1>3, <1>4 DEF Tables, TablesType
<1>6. KeysInStep'
  <2>1. Handshaken(known') = Handshaken(known)
    BY <1>2 DEF Handshaken
  <2>2. \A p \in Handshaken(known) : known'[p] = known[p]
    BY Zenon, <1>2 DEF Handshaken
  <2> QED
    BY Zenon, <1>4, <2>1, <2>2 DEF KeysInStep, Tables
<1>7. WatchdogsGuardSubscriptions'
  BY Zenon, <1>2, <1>4 DEF Tables, WatchdogsGuardSubscriptions
<1>8. SubscribersServed'
  BY Zenon, <1>2, <1>4 DEF Tables, SubscribersServed
<1> QED
  BY <1>5, <1>6, <1>7, <1>8 DEF Tables

\* StartSubscription and EndSubscription: the PacketHandler is told.
LEMMA SubscribersChangeKeeps ==
  ASSUME Tables, NEW m \in Request, StartSubscription(m) \/ EndSubscription(m)
  PROVE  Tables'
<1>1. m.from \in Peer
  BY Zenon, RequestFields DEF StartSubscription, EndSubscription, PlainRequest
<1>2. /\ subscribers' \in SUBSET Peer /\ heartbeat' \in BOOLEAN
      /\ ph_mailbox' = Append(ph_mailbox, SubscribersUpdated(subscribers'))
      /\ UNCHANGED <<known, subscribed_to, reassign_timer, watchdogs, notify_ready,
                     ph_keys, ph_subscribers, greeting, handshaker, bootstrap, server>>
  BY Zenon, <1>1 DEF StartSubscription, EndSubscription, UpdateSubscribers, timers, shaker,
              Tables, TablesType
<1>3. /\ ph_mailbox' \in Seq(CastType)
      /\ SubscribersAfter(ph_mailbox', ph_subscribers') = subscribers'
  <2>1. PICK new \in SUBSET Peer : new = subscribers'
    BY <1>2
  <2> QED
    BY <1>2, <2>1, AfterUpdate DEF Tables, TablesType
<1>4. \A p \in subscribers' : p \in DOMAIN known /\ heartbeat'
  BY DEF StartSubscription, EndSubscription, timers, Tables, SubscribersServed
<1>5. TablesType'
  BY <1>2, <1>3 DEF Tables, TablesType
<1>6. KeysInStep' /\ WatchdogsGuardSubscriptions'
  BY Zenon, <1>2 DEF Tables, KeysInStep, Handshaken, WatchdogsGuardSubscriptions
<1>7. SubscribersServed'
  BY <1>2, <1>3, <1>4 DEF SubscribersServed
<1> QED
  BY Zenon, <1>5, <1>6, <1>7 DEF Tables

\* SubscriptionStarted and Heartbeat: the watchdog of a subscription is armed.
LEMMA WatchdogIsResetKeeps ==
  ASSUME Tables, NEW m \in Request, SubscriptionStarted(m) \/ Heartbeat(m)
  PROVE  Tables'
<1>1. m.from \in Peer
  BY Zenon, RequestFields DEF SubscriptionStarted, Heartbeat, PlainRequest
<1>2. /\ subscribed_to \subseteq subscribed_to' /\ subscribed_to' \in SUBSET Peer
      /\ watchdogs' = IF m.from \in subscribed_to' \cap DOMAIN known
                      THEN watchdogs \cup {m.from} ELSE watchdogs \ {m.from}
      /\ notify_ready' \in BOOLEAN
      /\ UNCHANGED <<known, subscribers, reassign_timer, heartbeat, ph_keys, ph_subscribers,
                     ph_mailbox, greeting, handshaker, bootstrap, server>>
  BY Zenon, <1>1 DEF SubscriptionStarted, Heartbeat, ResetWatchdog, tables, packets, shaker,
              Tables, TablesType
<1>3. TablesType'
  BY Zenon, <1>1, <1>2 DEF Tables, TablesType
<1>4. KeysInStep' /\ SubscribersServed'
  BY Zenon, <1>2 DEF Tables, KeysInStep, Handshaken, SubscribersServed
<1>5. WatchdogsGuardSubscriptions'
  BY Zenon, <1>2 DEF Tables, WatchdogsGuardSubscriptions
<1> QED
  BY <1>3, <1>4, <1>5 DEF Tables

\* Reassign: subscriptions that are dropped lose their watchdogs.
LEMMA ReassignKeeps ==
  ASSUME Tables, NEW m \in Request, Reassign(m)
  PROVE  Tables'
<1>1. PICK C \in ChoosePeers(DOMAIN known) : TriggerReassignment(C)
  BY Zenon DEF Reassign
<1>2. C \subseteq Peer
  BY ChosenArePeers DEF Tables, TablesType
<1>3. PICK starts \in SendStarts((C \ subscribed_to) \cap Handshaken(known)) :
        ph_mailbox' = ph_mailbox \o starts
  BY Zenon, <1>1 DEF TriggerReassignment
<1>4. starts \in Seq(CastType) /\ \A i \in DOMAIN starts : starts[i].type = "StartSubscription"
  BY Zenon, <1>2, StartsAreCasts
<1>5. /\ greeting' \in SUBSET Peer /\ watchdogs' = watchdogs \ (subscribed_to \ C)
      /\ subscribed_to' = subscribed_to \cap C
      /\ UNCHANGED <<known, subscribers, reassign_timer, heartbeat, notify_ready,
                     ph_keys, ph_subscribers, handshaker, bootstrap, server>>
  BY Zenon, <1>1, <1>2 DEF TriggerReassignment, Reassign, Tables, TablesType
<1>6. /\ ph_mailbox' \in Seq(CastType)
      /\ SubscribersAfter(ph_mailbox', ph_subscribers')
           = SubscribersAfter(ph_mailbox, ph_subscribers)
  BY <1>3, <1>4, <1>5, AfterStarts DEF Tables, TablesType
<1>7. TablesType'
  BY Zenon, <1>5, <1>6 DEF Tables, TablesType
<1>8. KeysInStep' /\ WatchdogsGuardSubscriptions'
  BY Zenon, <1>5 DEF Tables, KeysInStep, Handshaken, WatchdogsGuardSubscriptions
<1>9. SubscribersServed'
  BY <1>5, <1>6 DEF Tables, SubscribersServed
<1> QED
  BY Zenon, <1>7, <1>8, <1>9 DEF Tables

\* Shutdown: the subscriptions go before their watchdogs do.
LEMMA ShutdownKeeps ==
  ASSUME Tables, NEW m \in Request, Shutdown(m), server = "stopping"
  PROVE  Tables'
<1>1. /\ subscribed_to' = {}
      /\ UNCHANGED <<known, subscribers, reassign_timer, watchdogs, heartbeat, notify_ready,
                     ph_keys, greeting, handshaker, bootstrap, server>>
  BY Zenon DEF Shutdown, timers, shaker, packets
<1>2. /\ ph_mailbox' \in Seq(CastType) /\ ph_subscribers' \in SUBSET Peer
      /\ SubscribersAfter(ph_mailbox', ph_subscribers')
           = SubscribersAfter(ph_mailbox, ph_subscribers)
  <2>1. CASE subscribed_to = {}
    BY Zenon, <2>1 DEF Shutdown, packets, Tables, TablesType
  <2>2. CASE subscribed_to # {}
    BY <2>2, AfterArePeers, AfterNothing, ZenonT(30) DEF Shutdown, Tables, TablesType
  <2> QED
    BY <2>1, <2>2
<1>3. TablesType'
  BY Zenon, <1>1, <1>2 DEF Tables, TablesType
<1>4. KeysInStep' /\ WatchdogsGuardSubscriptions'
  BY Zenon, <1>1 DEF Tables, KeysInStep, Handshaken, WatchdogsGuardSubscriptions
<1>5. SubscribersServed'
  BY Zenon, <1>1, <1>2 DEF Tables, SubscribersServed
<1> QED
  BY <1>3, <1>4, <1>5 DEF Tables

\* The handlers that only set a flag or send.
LEMMA FlagHandlersKeep ==
  ASSUME Tables, NEW m \in Request,
         PeerList(m) \/ SetNotify(m) \/ StartHeartbeats(m) \/ SendHeartbeat(m)
  PROVE  Tables'
<1>1. /\ heartbeat' \in BOOLEAN /\ (heartbeat => heartbeat')
      /\ notify_ready' \in BOOLEAN /\ bootstrap' \in BOOLEAN
      /\ UNCHANGED <<known, subscribers, subscribed_to, reassign_timer, watchdogs, ph_keys,
                     ph_subscribers, ph_mailbox, greeting, handshaker, server>>
  BY Zenon DEF PeerList, SetNotify, StartHeartbeats, SendHeartbeat, tables, timers, packets, shaker,
         Tables, TablesType
<1>2. TablesType'
  BY Zenon, <1>1 DEF Tables, TablesType
<1>3. KeysInStep' /\ WatchdogsGuardSubscriptions'
  BY Zenon, <1>1 DEF Tables, KeysInStep, Handshaken, WatchdogsGuardSubscriptions
<1>4. SubscribersServed'
  BY Zenon, <1>1 DEF Tables, SubscribersServed
<1> QED
  BY Zenon, <1>2, <1>3, <1>4 DEF Tables

-----------------------------------------------------------------------------
(* The steps keep it *)

\* A message that is added to the mailbox, and one that is taken.
LEMMA CastKeeps ==
  ASSUME Inv, NEW m \in Request, Cast(m), m.type = "Shutdown" => server' = "stopping",
         server = "stopping" => server' = "stopping"
  PROVE  mailbox' \in Seq(Request) /\ ShutdownIsLast'
<1>1. /\ mailbox' \in Seq(Request)
      /\ DOMAIN mailbox' = 1..(Len(mailbox) + 1)
      /\ \A i \in DOMAIN mailbox' :
           mailbox'[i] = IF i = Len(mailbox) + 1 THEN m ELSE mailbox[i]
  BY DEF Cast, Inv
<1>2. DOMAIN mailbox = 1..Len(mailbox) /\ Len(mailbox) \in Nat
  BY DEF Inv
<1>3. ASSUME NEW i \in DOMAIN mailbox', mailbox'[i].type = "Shutdown"
      PROVE  server' = "stopping"
  <2>1. CASE i = Len(mailbox) + 1
    BY Zenon, <1>1, <1>3, <2>1
  <2>2. CASE i # Len(mailbox) + 1
    <3>1. i \in DOMAIN mailbox
      BY <1>1, <1>2, <2>2
    <3> QED
      BY Zenon, <1>1, <1>3, <2>2, <3>1 DEF Inv, ShutdownIsLast
  <2> QED
    BY Zenon, <2>1, <2>2
<1> QED
  BY Zenon, <1>1, <1>3 DEF ShutdownIsLast

\* The PeerManager takes the head of its mailbox.
LEMMA TakeKeeps ==
  ASSUME Inv, mailbox # <<>>, mailbox' = Tail(mailbox), server' = server
  PROVE  /\ mailbox' \in Seq(Request) /\ ShutdownIsLast'
         /\ Head(mailbox) \in Request
         /\ Head(mailbox).type = "Shutdown" => server = "stopping"
<1>1. /\ mailbox' \in Seq(Request) /\ Head(mailbox) \in Request
      /\ Head(mailbox) = mailbox[1] /\ 1 \in DOMAIN mailbox
      /\ \A i \in DOMAIN mailbox' : mailbox'[i] = mailbox[i + 1] /\ i + 1 \in DOMAIN mailbox
  BY DEF Inv
<1> QED
  BY Zenon, <1>1 DEF Inv, ShutdownIsLast

\* A message is handled.
LEMMA HandlersKeep ==
  ASSUME Inv, HandleMessage
  PROVE  Inv'
<1>1. server' = server
  BY Zenon DEF HandleMessage, AddPeer, RemovePeer, UpdatePeers, StartSubscription, EndSubscription,
         SubscriptionStarted, Heartbeat, PeerList, Reassign, SetNotify, StartHeartbeats,
         SendHeartbeat, Shutdown
<1>2. /\ mailbox' \in Seq(Request) /\ ShutdownIsLast' /\ Head(mailbox) \in Request
      /\ Head(mailbox).type = "Shutdown" => server = "stopping"
  BY Zenon, <1>1, TakeKeeps DEF HandleMessage
<1> SUFFICES Tables'
  BY Zenon, <1>2 DEF Inv
<1>3. PICK m \in Request : m = Head(mailbox)
  BY Zenon, <1>2
<1> Tables
  BY Zenon DEF Inv
<1>4. CASE AddPeer(m)
  BY Zenon, <1>4, AddPeerKeeps
<1>5. CASE RemovePeer(m)
  BY <1>5, RemovePeerKeeps
<1>6. CASE UpdatePeers(m)
  BY <1>6, UpdatePeersKeeps
<1>7. CASE StartSubscription(m) \/ EndSubscription(m)
  BY <1>7, SubscribersChangeKeeps
<1>8. CASE SubscriptionStarted(m) \/ Heartbeat(m)
  BY <1>8, WatchdogIsResetKeeps
<1>9. CASE Reassign(m)
  BY <1>9, ReassignKeeps
<1>10. CASE PeerList(m) \/ SetNotify(m) \/ StartHeartbeats(m) \/ SendHeartbeat(m)
  BY Zenon, <1>10, FlagHandlersKeep
<1>11. CASE Shutdown(m)
  <2>1. server = "stopping"
    BY <1>2, <1>3, <1>11 DEF Shutdown
  <2> QED
    BY <1>11, <2>1, ShutdownKeeps
<1> QED
  BY Zenon, <1>3, <1>4, <1>5, <1>6, <1>7, <1>8, <1>9, <1>10, <1>11 DEF HandleMessage

\* The timers, the server and the other nodes add a message to the mailbox.
LEMMA SendersKeep ==
  ASSUME Inv,
         \/ Timers \/ ServerRuns \/ ServerStops
         \/ \E p \in Peer : RequestArrives(p)
  PROVE  Inv'
<1>1. /\ reassign_timer' \in BOOLEAN /\ watchdogs' \subseteq watchdogs
      /\ server' \in {"starting", "running", "stopping"}
      /\ server = "stopping" => server' = "stopping"
      /\ UNCHANGED <<known, subscribers, subscribed_to, heartbeat, notify_ready, ph_keys,
                     ph_subscribers, ph_mailbox, greeting, handshaker, bootstrap>>
  BY Zenon DEF Timers, ReassignTimerFires, HeartbeatTicks, WatchdogFires, ServerRuns, ServerStops,
         RequestArrives, tables, timers, packets, shaker, Inv, Tables, TablesType
<1>2. Tables'
  <2>1. TablesType'
    BY Zenon, <1>1 DEF Inv, Tables, TablesType
  <2>2. KeysInStep' /\ SubscribersServed'
    BY Zenon, <1>1 DEF Inv, Tables, KeysInStep, Handshaken, SubscribersServed
  <2>3. WatchdogsGuardSubscriptions'
    BY Zenon, <1>1 DEF Inv, Tables, WatchdogsGuardSubscriptions
  <2> QED
    BY Zenon, <2>1, <2>2, <2>3 DEF Tables
<1>3. \E m \in Request : Cast(m) /\ (m.type = "Shutdown" => server' = "stopping")
  <2>1. CASE Timers
    <3>1. CASE ReassignTimerFires
      BY <3>1 DEF ReassignTimerFires, Request, OwnRequest
    <3>2. CASE HeartbeatTicks
      BY <3>2 DEF HeartbeatTicks, Request, OwnRequest
    <3>3. CASE \E p \in Peer : WatchdogFires(p)
      <4>1. PICK p \in Peer : Cast(Down(TRUE, p))
        BY ZenonT(30), <3>3 DEF WatchdogFires
      <4>2. Down(TRUE, p) \in Request /\ Down(TRUE, p).type # "Shutdown"
        BY Zenon DEF Down, Request
      <4> QED
        BY Zenon, <4>1, <4>2
    <3> QED
      BY <2>1, <3>1, <3>2, <3>3 DEF Timers
  <2>2. CASE ServerRuns
    BY <2>2 DEF ServerRuns, Request, OwnRequest
  <2>3. CASE ServerStops
    BY <2>3 DEF ServerStops, Request, OwnRequest
  <2>4. CASE \E p \in Peer : RequestArrives(p)
    <3>1. PICK q \in Peer : \E m \in RequestFrom(q) : Cast(m)
      BY <2>4 DEF RequestArrives
    <3>2. PICK m \in RequestFrom(q) : Cast(m)
      BY Zenon, <3>1
    <3>3. m \in Request /\ m.type # "Shutdown"
      <4>1. CASE \E p \in Gossip : m = Up(FALSE, p, 0)
        BY <4>1 DEF Up, Request
      <4>2. CASE \E p \in Gossip : m = Down(FALSE, p)
        BY <4>2 DEF Down, Request
      <4>3. CASE \E ps \in SUBSET Gossip : m = Peers(ps)
        BY <4>3 DEF Peers, Request
      <4>4. CASE \E t \in PlainRequest : m = Plain(t, q)
        BY <4>4 DEF Plain, Request, PlainRequest
      <4> QED
        BY Zenon, <4>1, <4>2, <4>3, <4>4 DEF RequestFrom
    <3> QED
      BY <3>2, <3>3
  <2> QED
    BY <2>1, <2>2, <2>3, <2>4
<1> QED
  BY <1>1, <1>2, <1>3, CastKeeps DEF Inv

\* The PacketHandler takes a cast.
LEMMA PacketHandlerKeeps ==
  ASSUME Inv, PacketHandlerStep
  PROVE  Inv'
<1>1. ph_mailbox \in Seq(CastType) /\ ph_mailbox # <<>> /\ ph_subscribers \in SUBSET Peer
  BY Zenon DEF PacketHandlerStep, Inv, Tables, TablesType
<1>2. UNCHANGED <<known, subscribers, subscribed_to, reassign_timer, watchdogs, heartbeat,
                  notify_ready, mailbox, ph_keys, greeting, handshaker, bootstrap, server>>
  BY Zenon DEF PacketHandlerStep, tables, timers, shaker
<1>3. <<Head(ph_mailbox)>> \in Seq(CastType) /\ Tail(ph_mailbox) \in Seq(CastType)
  BY <1>1
<1>4. /\ ph_subscribers' \in SUBSET Peer /\ ph_mailbox' \in Seq(CastType)
      /\ SubscribersAfter(ph_mailbox', ph_subscribers')
           = SubscribersAfter(ph_mailbox, ph_subscribers)
  BY ZenonT(30), <1>1, <1>3, AfterArePeers, AfterHead DEF PacketHandlerStep
<1>5. TablesType'
  BY Zenon, <1>2, <1>4 DEF Inv, Tables, TablesType
<1>6. KeysInStep' /\ WatchdogsGuardSubscriptions' /\ ShutdownIsLast'
  BY Zenon, <1>2 DEF Inv, Tables, KeysInStep, Handshaken, WatchdogsGuardSubscriptions, ShutdownIsLast
<1>7. SubscribersServed'
  BY Zenon, <1>2, <1>4 DEF Inv, Tables, SubscribersServed
<1> QED
  BY <1>2, <1>5, <1>6, <1>7 DEF Inv, Tables

\* The Handshaker: a handshake ends, it goes on, a greeting expires, it bootstraps.
LEMMA HandshakerKeeps ==
  ASSUME Inv,
         \/ HandshakerGoesOn \/ Bootstraps
         \/ \E p \in Peer : HandshakeEnds(p) \/ GreetingExpires(p)
  PROVE  Inv'
<1>1. /\ UNCHANGED <<known, subscribers, subscribed_to, reassign_timer, watchdogs, heartbeat,
                     notify_ready, ph_keys, ph_subscribers, server>>
      /\ greeting' \in SUBSET Peer /\ bootstrap' \in BOOLEAN
  BY Zenon DEF HandshakerGoesOn, Bootstraps, HandshakeEnds, GreetingExpires, tables, timers, packets,
         Inv, Tables, TablesType
<1>2. handshaker' \in SUBSET HandshakerType
  <2>1. CASE HandshakerGoesOn \/ Bootstraps \/ \E p \in Peer : GreetingExpires(p)
    BY Zenon, <2>1 DEF HandshakerGoesOn, Bootstraps, GreetingExpires, Inv, Tables, TablesType
  <2>2. CASE \E p \in Peer : HandshakeEnds(p)
    BY <2>2 DEF HandshakeEnds, HandshakerType
  <2> QED
    BY Zenon, <2>1, <2>2
<1>3. /\ ph_mailbox' \in Seq(CastType)
      /\ SubscribersAfter(ph_mailbox', ph_subscribers')
           = SubscribersAfter(ph_mailbox, ph_subscribers)
  <2>1. CASE ph_mailbox' = ph_mailbox
    BY Zenon, <1>1, <2>1 DEF Inv, Tables, TablesType
  <2>2. CASE \E h \in handshaker : ph_mailbox' = Append(ph_mailbox, SendStart(h.peer))
    <3>1. PICK h \in handshaker : ph_mailbox' = Append(ph_mailbox, SendStart(h.peer))
      BY Zenon, <2>2
    <3>2. SendStart(h.peer) \in CastType
      BY Zenon DEF SendStart, CastType, HandshakerType, Inv, Tables, TablesType
    <3>3. PICK c \in CastType : c = SendStart(h.peer)
      BY Zenon, <3>2
    <3>4. /\ <<c>> \in Seq(CastType)
          /\ \A i \in DOMAIN <<c>> : <<c>>[i].type = "StartSubscription"
      BY <3>3 DEF SendStart
    <3>5. ph_mailbox \in Seq(CastType)
      BY Zenon DEF Inv, Tables, TablesType
    <3>6. PICK starts \in Seq(CastType) :
            /\ ph_mailbox' = ph_mailbox \o starts
            /\ \A i \in DOMAIN starts : starts[i].type = "StartSubscription"
      BY Zenon, <3>1, <3>3, <3>4, <3>5, AppendIsConcat
    <3> QED
      BY <1>1, <3>5, <3>6, AfterStarts, Zenon
  <2> QED
    BY Zenon, <2>1, <2>2 DEF HandshakerGoesOn, Bootstraps, HandshakeEnds, GreetingExpires, packets
<1>4. mailbox' \in Seq(Request) /\ ShutdownIsLast'
  <2>1. CASE mailbox' = mailbox
    BY Zenon, <1>1, <2>1 DEF Inv, ShutdownIsLast
  <2>2. CASE \E p \in Peer : HandshakeEnds(p)
    <3>1. PICK p \in Peer, ts \in 1..MaxTimestamp : Cast(Up(TRUE, p, ts))
      BY Zenon, <2>2 DEF HandshakeEnds
    <3>2. Up(TRUE, p, ts) \in Request /\ Up(TRUE, p, ts).type # "Shutdown"
      BY DEF Up, Request
    <3> QED
      BY Zenon, <1>1, <3>1, <3>2, CastKeeps
  <2> QED
    BY Zenon, <2>1, <2>2 DEF HandshakerGoesOn, Bootstraps, GreetingExpires
<1>5. TablesType'
  BY Zenon, <1>1, <1>2, <1>3 DEF Inv, Tables, TablesType
<1>6. KeysInStep' /\ WatchdogsGuardSubscriptions'
  BY Zenon, <1>1 DEF Inv, Tables, KeysInStep, Handshaken, WatchdogsGuardSubscriptions
<1>7. SubscribersServed'
  BY Zenon, <1>1, <1>3 DEF Inv, Tables, SubscribersServed
<1> QED
  BY <1>4, <1>5, <1>6, <1>7 DEF Inv, Tables

-----------------------------------------------------------------------------
(* Results *)

\* The invariant: the tables of the PeerManager, its timers and the copies the
\* PacketHandler has of them agree in every state, and a Shutdown waits only
\* when the application has stopped the server.
THEOREM PeerManagerInvariant == Spec => []Inv
<1>1. Init => Inv
  <2> SUFFICES ASSUME Init PROVE Inv
    BY Zenon
  <2>1. mailbox \in Seq(Request) /\ ShutdownIsLast
    BY DEF Init, Request, OwnRequest, ShutdownIsLast
  <2>2. TablesType
    <3>1. DOMAIN known = {} /\ known \in [DOMAIN known -> 0..MaxTimestamp]
      BY Zenon DEF Init
    <3>2. ph_mailbox \in Seq(CastType)
      BY DEF Init
    <3> QED
      BY Zenon, <3>1, <3>2 DEF Init, TablesType
  <2>3. KeysInStep
    BY Zenon DEF Init, KeysInStep, Handshaken
  <2>4. WatchdogsGuardSubscriptions /\ SubscribersServed
    BY Zenon DEF Init, WatchdogsGuardSubscriptions, SubscribersServed
  <2> QED
    BY Zenon, <2>1, <2>2, <2>3, <2>4 DEF Inv, Tables
<1>2. Inv /\ [Next]_vars => Inv'
  <2> SUFFICES ASSUME Inv, [Next]_vars PROVE Inv'
    BY Zenon
  <2>1. CASE HandleMessage
    BY Zenon, <2>1, HandlersKeep
  <2>2. CASE Timers \/ ServerRuns \/ ServerStops \/ \E p \in Peer : RequestArrives(p)
    BY <2>2, SendersKeep
  <2>3. CASE PacketHandlerStep
    BY <2>3, PacketHandlerKeeps
  <2>4. CASE \/ HandshakerGoesOn \/ Bootstraps
             \/ \E p \in Peer : HandshakeEnds(p) \/ GreetingExpires(p)
    BY <2>4, HandshakerKeeps
  <2>5. CASE UNCHANGED vars
    BY Zenon, <2>5 DEF vars, tables, timers, packets, shaker, Inv, Tables, TablesType, KeysInStep,
                Handshaken, WatchdogsGuardSubscriptions, SubscribersServed, ShutdownIsLast
  <2> QED
    BY <2>1, <2>2, <2>3, <2>4, <2>5 DEF Next
<1> QED
  BY <1>1, <1>2, PTL DEF Spec

\* The PeerManager's tables and mailbox, and the copies of the PacketHandler,
\* have their types: the keys it is handed are of handshaken peers only.
THEOREM PeerTypes == Spec => []TypeOK
<1>1. Inv => TypeOK
  <2> SUFFICES ASSUME Inv PROVE TypeOK
    BY Zenon
  <2>1. \E S \in SUBSET Peer : known \in [S -> 0..MaxTimestamp]
    BY Zenon DEF Inv, Tables, TablesType
  <2>2. \E S \in SUBSET Peer : ph_keys \in [S -> 1..MaxTimestamp]
    <3>1. Handshaken(known) \in SUBSET Peer
      BY Zenon DEF Inv, Tables, TablesType, Handshaken
    <3>2. ph_keys \in [Handshaken(known) -> 1..MaxTimestamp]
      BY DEF Inv, Tables, TablesType, KeysInStep, Handshaken
    <3> QED
      BY <3>1, <3>2
  <2> QED
    BY <2>1, <2>2 DEF Inv, Tables, TablesType, CastType, HandshakerType, TypeOK
<1> QED
  BY <1>1, PeerManagerInvariant, PTL

\* add_peer, remove_peer and update_peers never leave the PacketHandler with
\* other keys than those of the last handshake of each handshaken peer.
THEOREM KeysStayInStep == Spec => []KeysInStep
<1>1. Inv => KeysInStep
  BY Zenon DEF Inv, Tables
<1> QED
  BY <1>1, PeerManagerInvariant, PTL

\* Until the node is shut down, reset_heartbeat_watchdog, remove_peer and
\* trigger_reassignment keep watchdogs for subscriptions to known peers only.
THEOREM WatchdogsGuard == Spec => []WatchdogsGuardSubscriptions
<1>1. Inv => WatchdogsGuardSubscriptions
  BY Zenon DEF Inv, Tables
<1> QED
  BY <1>1, PeerManagerInvariant, PTL

\* A subscriber the PeerManager counts is known, gets heartbeats, and is among
\* those the PacketHandler broadcasts to once it has taken what was cast to it.
THEOREM SubscribersAreServed == Spec => []SubscribersServed
<1>1. Inv => SubscribersServed
  BY Zenon DEF Inv, Tables
<1> QED
  BY <1>1, PeerManagerInvariant, PTL
=============================================================================
