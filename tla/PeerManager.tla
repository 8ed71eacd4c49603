----------------------------- MODULE PeerManager -----------------------------
(***************************************************************************)
(* The PeerManager of one node (src/peer_manager.rs), with the two servers *)
(* it works with reduced to what they keep for it.                         *)
(*                                                                         *)
(* The PeerManager handles the messages of its mailbox one at a time and   *)
(* in order.  The messages come from the other nodes (through the          *)
(* PacketHandler, which only lets in what it can decrypt), from the node's *)
(* Handshaker, from its timers and from the application.                   *)
(*                                                                         *)
(* The PacketHandler has copies of the keys and of the subscribers.  New   *)
(* keys are a call: the PeerManager waits until the PacketHandler has      *)
(* taken them.  New subscribers are a cast: they wait in the               *)
(* PacketHandler's mailbox, which it empties in order.  Other messages     *)
(* handed to the PacketHandler (heartbeats, answers, peer lists, statuses) *)
(* leave the node and change nothing in it; a StartSubscription is         *)
(* followed until it does, because the Handshaker sends it too.            *)
(***************************************************************************)
EXTENDS PeerSelection, Sequences

CONSTANTS
  Gossip,         \* the nodes that the others tell this one about
  MaxTimestamp,   \* bound: handshakes are stamped 1..MaxTimestamp
  MaxMailbox,     \* bound: messages waiting for the PeerManager
  MaxCasts        \* bound: messages waiting for the PacketHandler

ASSUME PeerManagerAssumption ==
  /\ Gossip \subseteq Peer
  /\ MaxTimestamp \in Nat
  /\ MaxMailbox \in Nat
  /\ MaxCasts \in Nat

VARIABLES
  known,            \* the peers known: 0 (gossip only) or the handshake timestamp
  subscribers,      \* peers that are subscribed to this node
  subscribed_to,    \* peers this node is subscribed to
  reassign_timer,   \* is the reassignment timer running?
  watchdogs,        \* the peers whose heartbeat watchdog is running
  heartbeat,        \* is the heartbeat interval running?
  notify_ready,     \* is there still somebody to notify?
  mailbox,          \* the PeerManager's mailbox
  ph_keys,          \* PacketHandler: the peers it has keys of, and which
  ph_subscribers,   \* PacketHandler: the peers it broadcasts to
  ph_mailbox,       \* PacketHandler: what the PeerManager has cast
  greeting,         \* Handshaker: peers greeted for a subscription
  handshaker,       \* Handshaker: the PeerStatus call it is waiting in, if any
  bootstrap,        \* Handshaker: has it been told to bootstrap?
  server            \* "starting", "running", then "stopping"

tables   == <<known, subscribers, subscribed_to>>
timers   == <<reassign_timer, watchdogs, heartbeat>>
packets  == <<ph_keys, ph_subscribers, ph_mailbox>>
shaker   == <<greeting, handshaker, bootstrap>>
vars     == <<tables, timers, notify_ready, mailbox, packets, shaker, server>>

-----------------------------------------------------------------------------
(* Messages *)

\* PeerManagerRequest::Request.  Who a request is from is kept where the
\* handler looks at it; a status is from the node itself or from another.
Up(own, p, ts)     == [type |-> "Up", own |-> own, peer |-> p, ts |-> ts]
Down(own, p)       == [type |-> "Down", own |-> own, peer |-> p]
Peers(ps)          == [type |-> "Peers", peers |-> ps]
Plain(type, from)  == [type |-> type, from |-> from]

\* The PeerRequests that carry nothing.
PlainRequest == {"StartSubscription", "SubscriptionStarted", "EndSubscription",
                 "Heartbeat", "PeerList"}

\* The messages of the node to itself.
OwnRequest == {"SetNotify", "StartHeartbeats", "SendHeartbeat", "Reassign", "Shutdown"}

Request ==
       [type : {"Up"}, own : BOOLEAN, peer : Peer, ts : 0..MaxTimestamp]
  \cup [type : {"Down"}, own : BOOLEAN, peer : Peer]
  \cup [type : {"Peers"}, peers : SUBSET Peer]
  \cup [type : PlainRequest, from : Peer]
  \cup [type : OwnRequest]

\* What the PeerManager and the Handshaker cast to the PacketHandler.
SubscribersUpdated(s)    == [type |-> "SubscribersUpdated", peers |-> s]
SendStart(p)             == [type |-> "StartSubscription", to |-> p]

-----------------------------------------------------------------------------
(* The steps of the handlers *)

Handshaken(k) == {p \in DOMAIN k : k[p] > 0}

\* The map k with p mapped to ts, and without p.
Insert(k, p, ts) == [q \in DOMAIN k \cup {p} |-> IF q = p THEN ts ELSE k[q]]
Remove(k, p)     == [q \in DOMAIN k \ {p} |-> k[q]]

\* add_peer, on the map of known peers: the last handshake wins.
NewPeer(k, p, ts) ==
  IF p \notin DOMAIN k \/ ts > k[p] THEN Insert(k, p, ts) ELSE k

\* start_reassign_timer, with sub the subscriptions.
StartReassignTimer(sub) ==
  reassign_timer' = (reassign_timer \/ Cardinality(sub) < PeerSubscriptions)

\* The PacketHandler's subscribers once it has taken the casts of box.
SubscribersAfter(box, s) ==
  LET updates == {i \in DOMAIN box : box[i].type = "SubscribersUpdated"}
  IN  IF updates = {} THEN s
      ELSE box[CHOOSE i \in updates : \A j \in updates : j <= i].peers

\* Mutant: the keys are not handed over.
UpdateKeysForgotten(k, box) ==
  /\ ph_mailbox' = box
  /\ UNCHANGED <<ph_keys, ph_subscribers>>

\* Mutant: peers known only from gossip are handed over too.
UpdateKeysUnfiltered(k, box) ==
  /\ ph_keys' = k
  /\ ph_subscribers' = SubscribersAfter(box, ph_subscribers)
  /\ ph_mailbox' = <<>>

\* update_keys: a call, so the PacketHandler has first done what was cast before.
UpdateKeys(k, box) ==
  /\ ph_keys' = [p \in Handshaken(k) |-> k[p]]
  /\ ph_subscribers' = SubscribersAfter(box, ph_subscribers)
  /\ ph_mailbox' = <<>>

\* Mutant: the PacketHandler is not told.
UpdateSubscribersForgotten(s) == ph_mailbox

\* update_subscribers: the PacketHandler's mailbox after the cast.
UpdateSubscribers(s) == Append(ph_mailbox, SubscribersUpdated(s))

\* Mutant: the watchdog is armed without a look at the subscriptions.
ResetWatchdogAnyPeer(sub, p) ==
  watchdogs' = IF p \in DOMAIN known THEN watchdogs \cup {p} ELSE watchdogs \ {p}

\* reset_heartbeat_watchdog, with sub the subscriptions.
ResetWatchdog(sub, p) ==
  watchdogs' = IF p \in sub \cap DOMAIN known THEN watchdogs \cup {p} ELSE watchdogs \ {p}

\* The Handshaker called and is answered; everything else was cast.
Reply(m) ==
  handshaker' = IF m.own THEN {[h EXCEPT !.replied = TRUE] : h \in handshaker} ELSE handshaker

-----------------------------------------------------------------------------
(* The handlers.  Each takes the message m from the head of the mailbox. *)

AddPeer(m) ==
  /\ m.type = "Up"
  /\ known' = NewPeer(known, m.peer, m.ts)
  /\ UpdateKeys(known', ph_mailbox)
  /\ StartReassignTimer(subscribed_to)
  /\ Reply(m)
  /\ UNCHANGED <<subscribers, subscribed_to, watchdogs, heartbeat, notify_ready,
                 greeting, bootstrap, server>>

\* The subscribers are sent to the PacketHandler before the peer is removed.
RemovePeer(m) ==
  /\ m.type = "Down"
  /\ watchdogs' = watchdogs \ {m.peer}
  /\ subscribed_to' = subscribed_to \ {m.peer}
  /\ subscribers' = subscribers \ {m.peer}
  /\ known' = Remove(known, m.peer)
  /\ UpdateKeys(known', UpdateSubscribers(subscribers))
  /\ StartReassignTimer(subscribed_to')
  /\ UNCHANGED <<heartbeat, notify_ready, shaker, server>>

UpdatePeers(m) ==
  /\ m.type = "Peers"
  /\ known' = [p \in DOMAIN known \cup m.peers |-> IF p \in DOMAIN known THEN known[p] ELSE 0]
  /\ IF m.peers \subseteq DOMAIN known THEN UNCHANGED reassign_timer
                                       ELSE StartReassignTimer(subscribed_to)
  /\ UNCHANGED <<subscribers, subscribed_to, watchdogs, heartbeat, notify_ready,
                 packets, shaker, server>>

StartSubscription(m) ==
  /\ m.type = "StartSubscription"
  /\ subscribers' = IF m.from \in DOMAIN known THEN subscribers \cup {m.from}
                                               ELSE subscribers \ {m.from}
  /\ ph_mailbox' = UpdateSubscribers(subscribers')
  /\ heartbeat' = TRUE
  /\ UNCHANGED <<known, subscribed_to, reassign_timer, watchdogs, notify_ready,
                 ph_keys, ph_subscribers, shaker, server>>

EndSubscription(m) ==
  /\ m.type = "EndSubscription"
  /\ subscribers' = subscribers \ {m.from}
  /\ ph_mailbox' = UpdateSubscribers(subscribers')
  /\ UNCHANGED <<known, subscribed_to, timers, notify_ready,
                 ph_keys, ph_subscribers, shaker, server>>

\* Nothing is asked about the peer: it need not be known any more.
SubscriptionStarted(m) ==
  /\ m.type = "SubscriptionStarted"
  /\ subscribed_to' = subscribed_to \cup {m.from}
  /\ ResetWatchdog(subscribed_to', m.from)
  /\ notify_ready' = FALSE
  /\ UNCHANGED <<known, subscribers, reassign_timer, heartbeat,
                 packets, shaker, server>>

Heartbeat(m) ==
  /\ m.type = "Heartbeat"
  /\ ResetWatchdog(subscribed_to, m.from)
  /\ UNCHANGED <<tables, reassign_timer, heartbeat, notify_ready,
                 packets, shaker, server>>

\* send_peerlist only sends.
PeerList(m) ==
  /\ m.type = "PeerList"
  /\ UNCHANGED <<tables, timers, notify_ready, packets, shaker, server>>

\* The casts of a StartSubscription to each peer of S, in some order.
SendStarts(S) == {[i \in DOMAIN s |-> SendStart(s[i])] : s \in Orders(S)}

\* trigger_reassignment, to the peers of C: the new ones are sent a
\* StartSubscription or, without keys, a Hello; the others are dropped.
TriggerReassignment(C) ==
  /\ \E starts \in SendStarts((C \ subscribed_to) \cap Handshaken(known)) :
        ph_mailbox' = ph_mailbox \o starts
  /\ greeting' = greeting \cup ((C \ subscribed_to) \ Handshaken(known))
  /\ watchdogs' = watchdogs \ (subscribed_to \ C)
  /\ subscribed_to' = subscribed_to \cap C

Reassign(m) ==
  /\ m.type = "Reassign"
  /\ \E C \in ChoosePeers(DOMAIN known) : TriggerReassignment(C)
  /\ UNCHANGED <<known, subscribers, reassign_timer, heartbeat, notify_ready,
                 ph_keys, ph_subscribers, handshaker, bootstrap, server>>

SetNotify(m) ==
  /\ m.type = "SetNotify"
  /\ notify_ready' = TRUE
  /\ UNCHANGED <<tables, timers, packets, shaker, server>>

StartHeartbeats(m) ==
  /\ m.type = "StartHeartbeats"
  /\ heartbeat' = TRUE
  /\ UNCHANGED <<tables, reassign_timer, watchdogs, notify_ready,
                 packets, shaker, server>>

SendHeartbeat(m) ==
  /\ m.type = "SendHeartbeat"
  /\ bootstrap' = (bootstrap \/ subscribed_to = {})
  /\ UNCHANGED <<tables, timers, notify_ready, packets, greeting, handshaker, server>>

\* shutdown: each EndSubscription is a call, so earlier casts are done first.
Shutdown(m) ==
  /\ m.type = "Shutdown"
  /\ subscribed_to' = {}
  /\ IF subscribed_to = {} THEN UNCHANGED packets
     ELSE /\ ph_subscribers' = SubscribersAfter(ph_mailbox, ph_subscribers)
          /\ ph_mailbox' = <<>>
          /\ UNCHANGED ph_keys
  /\ UNCHANGED <<known, subscribers, timers, notify_ready, shaker, server>>

\* A handler ends when its casts have found room in the PacketHandler's mailbox.
HandleMessage ==
  /\ mailbox # <<>>
  /\ mailbox' = Tail(mailbox)
  /\ LET m == Head(mailbox)
     IN  \/ AddPeer(m)
         \/ RemovePeer(m)
         \/ UpdatePeers(m)
         \/ StartSubscription(m)
         \/ EndSubscription(m)
         \/ SubscriptionStarted(m)
         \/ Heartbeat(m)
         \/ PeerList(m)
         \/ Reassign(m)
         \/ SetNotify(m)
         \/ StartHeartbeats(m)
         \/ SendHeartbeat(m)
         \/ Shutdown(m)
  /\ Len(ph_mailbox') <= MaxCasts

-----------------------------------------------------------------------------
(* Where the messages come from *)

\* call or cast to the PeerManager: the sender waits for room in the mailbox.
Cast(m) ==
  /\ Len(mailbox) < MaxMailbox
  /\ mailbox' = Append(mailbox, m)

\* The reassignment timer casts Reassign.
ReassignTimerFires ==
  /\ reassign_timer
  /\ Cast([type |-> "Reassign"])
  /\ reassign_timer' = FALSE
  /\ UNCHANGED <<tables, watchdogs, heartbeat, notify_ready, packets, shaker, server>>

\* A watchdog casts Down, in the name of this node.
WatchdogFires(p) ==
  /\ p \in watchdogs
  /\ Cast(Down(TRUE, p))
  /\ watchdogs' = watchdogs \ {p}
  /\ UNCHANGED <<tables, reassign_timer, heartbeat, notify_ready, packets, shaker, server>>

\* The heartbeat interval casts SendHeartbeat.
HeartbeatTicks ==
  /\ heartbeat
  /\ Cast([type |-> "SendHeartbeat"])
  /\ UNCHANGED <<tables, timers, notify_ready, packets, shaker, server>>

\* What a peer may send.  A node forwards the requests it receives under its
\* own name, so requests may be late or repeated, and a peer that has got a
\* forwarded StartSubscription answers without being asked.  A peer in a
\* packet has no keys: they are not serialized.
RequestFrom(q) ==
       {Up(FALSE, p, 0) : p \in Gossip}
  \cup {Down(FALSE, p) : p \in Gossip}
  \cup {Peers(ps) : ps \in SUBSET Gossip}
  \cup {Plain(t, q) : t \in PlainRequest}

\* The PacketHandler has decrypted a request from q.
RequestArrives(q) ==
  /\ q \in DOMAIN ph_keys
  /\ \E m \in RequestFrom(q) : Cast(m)
  /\ UNCHANGED <<tables, timers, notify_ready, packets, shaker, server>>

\* The PacketHandler takes the next cast from its mailbox.
PacketHandlerStep ==
  /\ ph_mailbox # <<>>
  /\ ph_subscribers' = SubscribersAfter(<<Head(ph_mailbox)>>, ph_subscribers)
  /\ ph_mailbox' = Tail(ph_mailbox)
  /\ UNCHANGED <<tables, timers, notify_ready, mailbox, ph_keys, shaker, server>>

\* A handshake with p completes: the Handshaker calls the PeerManager and waits.
HandshakeEnds(p) ==
  /\ p # Self /\ handshaker = {}
  /\ \E ts \in 1..MaxTimestamp : Cast(Up(TRUE, p, ts))
  /\ \E and_then \in {FALSE} \cup {p \in greeting} :
        /\ handshaker' = {[peer |-> p, and_then |-> and_then, replied |-> FALSE]}
        /\ greeting' = IF and_then THEN greeting \ {p} ELSE greeting
  /\ UNCHANGED <<tables, timers, notify_ready, packets, bootstrap, server>>

\* The Handshaker goes on: it runs the and_then of a greeting.
HandshakerGoesOn ==
  \E h \in handshaker :
    /\ h.replied
    /\ handshaker' = {}
    /\ ph_mailbox' = IF h.and_then THEN Append(ph_mailbox, SendStart(h.peer)) ELSE ph_mailbox
    /\ Len(ph_mailbox') <= MaxCasts
    /\ UNCHANGED <<tables, timers, notify_ready, mailbox, ph_keys, ph_subscribers,
                   greeting, bootstrap, server>>

\* A greeting is never answered: the Handshaker drops it, and its and_then.
GreetingExpires(p) ==
  /\ p \in greeting /\ handshaker = {}
  /\ greeting' = greeting \ {p}
  /\ UNCHANGED <<tables, timers, notify_ready, mailbox, packets, handshaker, bootstrap,
                 server>>

\* The Handshaker takes the Bootstrap from its mailbox.
Bootstraps ==
  /\ bootstrap /\ handshaker = {}
  /\ bootstrap' = FALSE
  /\ UNCHANGED <<tables, timers, notify_ready, mailbox, packets, greeting, handshaker,
                 server>>

\* Server::run starts the heartbeats once the socket is bound.
ServerRuns ==
  /\ server = "starting"
  /\ Cast([type |-> "StartHeartbeats"])
  /\ server' = "running"
  /\ UNCHANGED <<tables, timers, notify_ready, packets, shaker>>

\* The application shuts the node down.
ServerStops ==
  /\ server = "running"
  /\ Cast([type |-> "Shutdown"])
  /\ server' = "stopping"
  /\ UNCHANGED <<tables, timers, notify_ready, packets, shaker>>

-----------------------------------------------------------------------------
\* Server::run has called SetNotify.
Init ==
  /\ known = [p \in {} |-> 0]
  /\ subscribers = {} /\ subscribed_to = {}
  /\ reassign_timer = FALSE /\ watchdogs = {} /\ heartbeat = FALSE
  /\ notify_ready = FALSE
  /\ mailbox = <<[type |-> "SetNotify"]>>
  /\ ph_keys = [p \in {} |-> 0] /\ ph_subscribers = {} /\ ph_mailbox = <<>>
  /\ greeting = {} /\ handshaker = {} /\ bootstrap = FALSE
  /\ server = "starting"

Timers    == ReassignTimerFires \/ HeartbeatTicks \/ \E p \in Peer : WatchdogFires(p)

Next ==
  \/ HandleMessage
  \/ Timers
  \/ PacketHandlerStep
  \/ HandshakerGoesOn
  \/ Bootstraps
  \/ ServerRuns
  \/ ServerStops
  \/ \E p \in Peer : RequestArrives(p) \/ HandshakeEnds(p) \/ GreetingExpires(p)

Spec == Init /\ [][Next]_vars

-----------------------------------------------------------------------------
(* Properties *)

\* Every variable has its type.
TypeOK ==
  /\ \E S \in SUBSET Peer : known \in [S -> 0..MaxTimestamp]
  /\ subscribers \subseteq Peer
  /\ subscribed_to \subseteq Peer
  /\ reassign_timer \in BOOLEAN
  /\ watchdogs \subseteq Peer
  /\ heartbeat \in BOOLEAN
  /\ notify_ready \in BOOLEAN
  /\ mailbox \in Seq(Request)
  /\ \E S \in SUBSET Peer : ph_keys \in [S -> 1..MaxTimestamp]
  /\ ph_subscribers \subseteq Peer
  /\ ph_mailbox \in Seq([type : {"SubscribersUpdated"}, peers : SUBSET Peer]
                        \cup [type : {"StartSubscription"}, to : Peer])
  /\ greeting \subseteq Peer
  /\ handshaker \in SUBSET [peer : Peer, and_then : BOOLEAN, replied : BOOLEAN]
  /\ bootstrap \in BOOLEAN
  /\ server \in {"starting", "running", "stopping"}

\* The PacketHandler encrypts with the keys of the last handshake of every peer
\* that is handshaken, and with no others: whatever add_peer, remove_peer and
\* update_peers do to the known peers, update_keys brings it into step.
KeysInStep == ph_keys = [p \in Handshaken(known) |-> known[p]]

\* A watchdog runs only for a peer this node is subscribed to and knows, until
\* the node is shut down: so no peer is marked down for heartbeats it does not
\* owe this node.
WatchdogsGuardSubscriptions ==
  server # "stopping" => watchdogs \subseteq subscribed_to \cap DOMAIN known

\* Whoever is counted as a subscriber is known, gets heartbeats, and gets
\* broadcasts as soon as the PacketHandler has emptied its mailbox.
SubscribersServed ==
  \A p \in subscribers :
    /\ p \in DOMAIN known
    /\ heartbeat
    /\ p \in SubscribersAfter(ph_mailbox, ph_subscribers)
=============================================================================
