------------------------------ MODULE Handshake ------------------------------
(***************************************************************************)
(* The Handshaker of every homie (src/handshake.rs), the table of known    *)
(* peers that its outcome is written to (PeerManager::add_peer and         *)
(* remove_peer) and the UDP network between the homies.                    *)
(*                                                                         *)
(* A homie binds one socket, so a node stands for its id and its address.  *)
(* A fresh number stands for whatever the code draws at random: a          *)
(* handshake id together with the initiator's key pair, or the challenge   *)
(* of a responder together with its key pair.                              *)
(*                                                                         *)
(* Wall-clock time is left out: a timestamp is any element of Timestamp    *)
(* (clocks are skewed and may step back), whether it is inside the HMAC    *)
(* window when it is looked at is a free choice, and a timer may fire      *)
(* whenever it is armed.  The delay of an Ohai (the only use of the        *)
(* inflight set) is part of the latency of the network.                    *)
(***************************************************************************)
EXTENDS Integers, FiniteSets

CONSTANTS
  Node,       \* the homies
  Psk,        \* pre-shared keys
  NodeKeys,   \* NodeInfo.keys of each node
  Peers,      \* NodeInfo.peers of each node: the addresses it bootstraps from
  Timestamp,  \* what Utc::now() may return
  MaxFresh,   \* bound: random draws
  MaxLoss,    \* bound: packets the network loses
  MaxDup,     \* bound: packets the network delivers once more
  MaxTimeout, \* bound: handshake timers that fire
  MaxDown     \* bound: peers marked as down

ASSUME HandshakeAssumption ==
  /\ NodeKeys \in [Node -> SUBSET Psk]
  /\ Peers \in [Node -> SUBSET Node]
  /\ Timestamp \subseteq Nat
  /\ {MaxFresh, MaxLoss, MaxDup, MaxTimeout, MaxDown} \subseteq Nat

VARIABLES
  hashed,     \* hashed_keys.is_some()
  bootstrap,  \* addresses the bootstrap task has still to greet
  hellos,     \* handshakes this node started, waiting for Ohai
  ohais,      \* handshakes it answered, waiting for OkBoss
  okboss,     \* handshakes it started, waiting for GoTeam
  dead,       \* Dead steps that timers have put into the mailbox
  known,      \* PeerManager.known
  started,    \* handshakes whose and_then (StartSubscription) has run
  done,       \* history: handshakes that ended with send_peer_up
  net,        \* packets in flight
  fresh,      \* the next random draw
  faults      \* how often the network, the timers and the watchdogs interfered

nodeVars == <<hashed, bootstrap, hellos, ohais, okboss, dead>>
peerVars == <<known, started, done>>
vars == <<nodeVars, peerVars, net, fresh, faults>>

-----------------------------------------------------------------------------
(* Data                                                                    *)

Role == {"initiator", "responder"}

Hmac == [key : Psk, ts : Timestamp]

Response == [key : Psk, challenge : Nat, pk : Nat, id : Nat]

\* Entries of the three maps, whose key is (id, addr): the own and the peer's
\* public key; Dead names the entry whose timer sent it by its own key.
Hello  == [id : Nat, addr : Node, ts : Timestamp, own : Nat, andThen : BOOLEAN, timer : BOOLEAN]
Ohai   == [id : Nat, addr : Node, ts : Timestamp, own : Nat, their : Nat, timer : BOOLEAN]
OkBoss == [id : Nat, addr : Node, ts : Timestamp, own : Nat, their : Nat, andThen : BOOLEAN]
Dead   == [id : Nat, addr : Node, own : Nat]

HelloPacket  == [type : {"Hello"}, id : Nat, src : Node, dst : Node, pk : Nat,
                 hmacs : SUBSET Hmac, ts : Timestamp]
OhaiPacket   == [type : {"Ohai"}, id : Nat, src : Node, dst : Node, pk : Nat,
                 hmacs : SUBSET Hmac, challenge : Nat]
OkBossPacket == [type : {"OkBoss"}, id : Nat, src : Node, dst : Node,
                 response : SUBSET Response]
GoTeamPacket == [type : {"GoTeam"}, id : Nat, src : Node, dst : Node]
Packet == HelloPacket \cup OhaiPacket \cup OkBossPacket \cup GoTeamPacket

\* A peer of the table: never heard of, heard of through gossip (the keys are
\* not serialized), or handshaken with the keys of one handshake.
Peer == [state : {"unknown", "gossiped", "handshaken"},
         own : Nat, their : Nat, ts : Nat]

Unknown  == [state |-> "unknown", own |-> 0, their |-> 0, ts |-> 0]
Gossiped == [state |-> "gossiped", own |-> 0, their |-> 0, ts |-> 0]
Handshaken(e) == [state |-> "handshaken", own |-> e.own, their |-> e.their, ts |-> e.ts]

IsHandshaken(p) == p.state = "handshaken"

Outcome == [id : Nat, peer : Node, own : Nat, their : Nat, ts : Timestamp, role : Role]

-----------------------------------------------------------------------------
(* Helpers                                                                 *)

\* compute_hmacs: one time-locked HMAC for each pre-shared key.
ComputeHmacs(n, ts) ==
  {[key |-> k, ts |-> ts] : k \in {x \in NodeKeys[n] : hashed[n]}}

\* has_valid_hmac; inWindow is the verdict of is_valid_timestamp_for.
HasValidHmac(n, ts, hmacs, inWindow) ==
  /\ hashed[n]
  /\ inWindow
  /\ \E k \in NodeKeys[n] : [key |-> k, ts |-> ts] \in hmacs

\* Mutant: the hash covers neither the challenge nor the public key.
ComputeResponseKeyOnly(n, id, pk, challenge) ==
  {[key |-> k, challenge |-> 0, pk |-> 0, id |-> id] : k \in NodeKeys[n]}

\* compute_response: one hash over key, challenge, public key and id per key.
ComputeResponse(n, id, pk, challenge) ==
  {[key |-> k, challenge |-> challenge, pk |-> pk, id |-> id] : k \in NodeKeys[n]}

\* Mutant: the Hello stays as it is, with its timer and without their key.
GotOhaiKeepsHello(e, m) == e

\* got_ohai: the Hello e goes on to OkBoss, without a timer.
GotOhai(e, m) ==
  [id |-> e.id, addr |-> e.addr, ts |-> e.ts, own |-> e.own, their |-> m.pk,
   andThen |-> e.andThen]

\* Mutant: any response made with one of our keys will do.
GotOkBossAnyChallenge(n, e, response) ==
  \E r \in response : r.key \in NodeKeys[n] /\ r.id = e.id

\* got_okboss: does the response match what this node would have computed?
GotOkBoss(n, e, response) ==
  ComputeResponse(n, e.id, e.own, e.own) \cap response # {}

\* Mutant: the first write wins.
AddPeerFirstWins(old, new) ==
  IF old.state = "unknown" \/ (IsHandshaken(new) /\ ~IsHandshaken(old)) THEN new ELSE old

\* Mutant: the last handshake to end wins.
AddPeerLastToEnd(old, new) ==
  IF old.state = "unknown" \/ IsHandshaken(new) THEN new ELSE old

\* Mutant: gossip about a peer replaces the entry.
AddPeerGossipWins(old, new) ==
  IF IsHandshaken(new) /\ IsHandshaken(old) /\ new.ts <= old.ts THEN old ELSE new

\* add_peer on one entry: the last write wins, gossip never replaces keys.
AddPeer(old, new) ==
  IF \/ old.state = "unknown"
     \/ IsHandshaken(new) /\ (IsHandshaken(old) => new.ts > old.ts)
  THEN new
  ELSE old

At(entries, id, addr) == {e \in entries : e.id = id /\ e.addr = addr}

\* The packet m is handled and the packets of replies are sent. UDP may
\* deliver m once more later.
Handle(m, replies) ==
  \/ /\ net' = (net \ {m}) \cup replies
     /\ UNCHANGED faults
  \/ /\ faults.dup < MaxDup
     /\ net' = net \cup replies
     /\ faults' = [faults EXCEPT !.dup = @ + 1]

\* Mutant: the keys of the two ends are mixed up.
SendPeerUpSwapped(n, e, role) ==
  /\ known' = [known EXCEPT ![n][e.addr] =
                 AddPeer(@, [Handshaken(e) EXCEPT !.own = e.their, !.their = e.own])]
  /\ done' = [done EXCEPT ![n] = @ \cup
                {[id |-> e.id, peer |-> e.addr, own |-> e.own,
                  their |-> e.their, ts |-> e.ts, role |-> role]}]

\* send_peer_up: the peer manager adds the peer with the keys of e.
SendPeerUp(n, e, role) ==
  /\ known' = [known EXCEPT ![n][e.addr] = AddPeer(@, Handshaken(e))]
  /\ done' = [done EXCEPT ![n] = @ \cup
                {[id |-> e.id, peer |-> e.addr, own |-> e.own,
                  their |-> e.their, ts |-> e.ts, role |-> role]}]

-----------------------------------------------------------------------------
(* Initiating                                                              *)

\* send_hello: a new handshake with a key pair, a timestamp and a timer.
SendHello(n, addr, andThen) ==
  \E ts \in Timestamp :
    /\ fresh <= MaxFresh
    /\ hellos' = [hellos EXCEPT ![n] = @ \cup
                    {[id |-> fresh, addr |-> addr, ts |-> ts,
                      own |-> fresh, andThen |-> andThen, timer |-> TRUE]}]
    /\ net' = net \cup {[type |-> "Hello", id |-> fresh, src |-> n, dst |-> addr,
                         pk |-> fresh, hmacs |-> ComputeHmacs(n, ts), ts |-> ts]}
    /\ fresh' = fresh + 1

\* bootstrap: hash the keys once and (re)start the delayed task that greets
\* every bootstrap peer; a task that is still running is aborted.
Bootstrap(n) ==
  /\ hashed' = [hashed EXCEPT ![n] = TRUE]
  /\ bootstrap' = [bootstrap EXCEPT ![n] = Peers[n]]
  /\ UNCHANGED <<hellos, ohais, okboss, dead, peerVars, net, fresh, faults>>

\* One turn of the loop of the bootstrap task.
BootstrapPeer(n, addr) ==
  /\ addr \in bootstrap[n]
  /\ bootstrap' = [bootstrap EXCEPT ![n] = @ \ {addr}]
  /\ SendHello(n, addr, FALSE)
  /\ UNCHANGED <<hashed, ohais, okboss, dead, peerVars, faults>>

\* The same turn for an address that does not resolve.
BootstrapUnresolved(n, addr) ==
  /\ addr \in bootstrap[n]
  /\ bootstrap' = [bootstrap EXCEPT ![n] = @ \ {addr}]
  /\ UNCHANGED <<hashed, hellos, ohais, okboss, dead, peerVars, net, fresh, faults>>

\* trigger_reassignment chose a peer there are no keys for yet: shake hands
\* and then start the subscription.
HelloAndThen(n, m) ==
  /\ m # n
  /\ known[n][m].state = "gossiped"
  /\ SendHello(n, m, TRUE)
  /\ UNCHANGED <<hashed, bootstrap, ohais, okboss, dead, peerVars, faults>>

-----------------------------------------------------------------------------
(* handle_handshake                                                        *)

\* Hello from another node that knows one of our keys: answer with a new
\* challenge, which replaces the state of an earlier copy of the Hello.
AcceptHello(n, m, inWindow) ==
  /\ m.src # n
  /\ HasValidHmac(n, m.ts, m.hmacs, inWindow)
  /\ fresh <= MaxFresh
  /\ ohais' = [ohais EXCEPT ![n] = (@ \ At(@, m.id, m.src)) \cup
                 {[id |-> m.id, addr |-> m.src, ts |-> m.ts, own |-> fresh,
                   their |-> m.pk, timer |-> TRUE]}]
  /\ Handle(m, {[type |-> "Ohai", id |-> m.id, src |-> n, dst |-> m.src, pk |-> fresh,
                 hmacs |-> ComputeHmacs(n, m.ts), challenge |-> fresh]})
  /\ fresh' = fresh + 1
  /\ UNCHANGED <<hashed, bootstrap, hellos, okboss, dead, peerVars>>

IgnoreHello(n, m, inWindow) ==
  /\ m.src = n \/ ~HasValidHmac(n, m.ts, m.hmacs, inWindow)
  /\ Handle(m, {})
  /\ UNCHANGED <<nodeVars, peerVars, fresh>>

RecvHello(n, m) ==
  /\ m.type = "Hello"
  /\ \E inWindow \in BOOLEAN :
       AcceptHello(n, m, inWindow) \/ IgnoreHello(n, m, inWindow)

\* Mutant: the subscription is started without waiting for GoTeam.
AcceptOhaiEager(n, m, e) ==
  /\ okboss' = [okboss EXCEPT ![n] = (@ \ At(@, m.id, m.src)) \cup {GotOhai(e, m)}]
  /\ Handle(m, {[type |-> "OkBoss", id |-> e.id, src |-> n, dst |-> m.src,
                 response |-> ComputeResponse(n, e.id, m.pk, m.challenge)]})
  /\ started' = [started EXCEPT ![n] = @ \cup {x \in {e.id} : e.andThen}]
  /\ UNCHANGED <<known, done>>

\* Ohai for the Hello e of ours: answer the challenge and wait for GoTeam.
AcceptOhai(n, m, e) ==
  /\ okboss' = [okboss EXCEPT ![n] = (@ \ At(@, m.id, m.src)) \cup {GotOhai(e, m)}]
  /\ Handle(m, {[type |-> "OkBoss", id |-> e.id, src |-> n, dst |-> m.src,
                 response |-> ComputeResponse(n, e.id, m.pk, m.challenge)]})
  /\ UNCHANGED peerVars

\* The Hello is taken out of the map, and its timer dropped, whatever the
\* verdict on the HMAC.
RecvOhai(n, m) ==
  /\ m.type = "Ohai"
  /\ hellos' = [hellos EXCEPT ![n] = @ \ At(@, m.id, m.src)]
  /\ \E inWindow \in BOOLEAN :
       \/ \E e \in At(hellos[n], m.id, m.src) :
            HasValidHmac(n, e.ts, m.hmacs, inWindow) /\ AcceptOhai(n, m, e)
       \/ /\ \A e \in At(hellos[n], m.id, m.src) : ~HasValidHmac(n, e.ts, m.hmacs, inWindow)
          /\ Handle(m, {})
          /\ UNCHANGED <<okboss, peerVars>>
  /\ UNCHANGED <<hashed, bootstrap, ohais, dead, fresh>>

\* OkBoss for an Ohai of ours: the Ohai is taken out; when the response is
\* right the peer is up, and then the initiator is told.
RecvOkBoss(n, m) ==
  /\ m.type = "OkBoss"
  /\ ohais' = [ohais EXCEPT ![n] = @ \ At(@, m.id, m.src)]
  /\ \/ \E e \in At(ohais[n], m.id, m.src) :
          /\ GotOkBoss(n, e, m.response)
          /\ SendPeerUp(n, e, "responder")
          /\ Handle(m, {[type |-> "GoTeam", id |-> e.id, src |-> n, dst |-> m.src]})
     \/ /\ \A e \in At(ohais[n], m.id, m.src) : ~GotOkBoss(n, e, m.response)
        /\ UNCHANGED <<known, done>>
        /\ Handle(m, {})
  /\ UNCHANGED <<hashed, bootstrap, hellos, okboss, dead, started, fresh>>

\* GoTeam for an OkBoss of ours: the peer is up, then and_then runs.
RecvGoTeam(n, m) ==
  /\ m.type = "GoTeam"
  /\ okboss' = [okboss EXCEPT ![n] = @ \ At(@, m.id, m.src)]
  /\ \/ \E e \in At(okboss[n], m.id, m.src) :
          /\ SendPeerUp(n, e, "initiator")
          /\ started' = [started EXCEPT ![n] = @ \cup {x \in {e.id} : e.andThen}]
     \/ /\ At(okboss[n], m.id, m.src) = {}
        /\ UNCHANGED peerVars
  /\ Handle(m, {})
  /\ UNCHANGED <<hashed, bootstrap, hellos, ohais, dead, fresh>>

\* A timer of hellos or ohais fires: the Dead step goes to the mailbox and can
\* no longer be called back by dropping the timer.
TimerFires(n, e) ==
  /\ e.timer
  /\ faults.timeout < MaxTimeout
  /\ \/ /\ e \in hellos[n]
        /\ hellos' = [hellos EXCEPT ![n] = (@ \ {e}) \cup {[e EXCEPT !.timer = FALSE]}]
        /\ UNCHANGED ohais
     \/ /\ e \in ohais[n]
        /\ ohais' = [ohais EXCEPT ![n] = (@ \ {e}) \cup {[e EXCEPT !.timer = FALSE]}]
        /\ UNCHANGED hellos
  /\ dead' = [dead EXCEPT ![n] = @ \cup {[id |-> e.id, addr |-> e.addr, own |-> e.own]}]
  /\ faults' = [faults EXCEPT !.timeout = @ + 1]
  /\ UNCHANGED <<hashed, bootstrap, okboss, peerVars, net, fresh>>

\* Mutant: a responder forgets to drop the handshake.
RecvDeadKeepsOhais(n, k) ==
  /\ k \in dead[n]
  /\ dead' = [dead EXCEPT ![n] = @ \ {k}]
  /\ hellos' = [hellos EXCEPT ![n] = @ \ At(@, k.id, k.addr)]
  /\ okboss' = [okboss EXCEPT ![n] = @ \ At(@, k.id, k.addr)]
  /\ UNCHANGED <<hashed, bootstrap, ohais, peerVars, net, fresh, faults>>

\* Dead: drop the handshake, whichever of the maps it is in by now.
RecvDead(n, k) ==
  /\ k \in dead[n]
  /\ dead' = [dead EXCEPT ![n] = @ \ {k}]
  /\ hellos' = [hellos EXCEPT ![n] = @ \ At(@, k.id, k.addr)]
  /\ ohais' = [ohais EXCEPT ![n] = @ \ At(@, k.id, k.addr)]
  /\ okboss' = [okboss EXCEPT ![n] = @ \ At(@, k.id, k.addr)]
  /\ UNCHANGED <<hashed, bootstrap, peerVars, net, fresh, faults>>

-----------------------------------------------------------------------------
(* The other writers of the peer table, and the network                    *)

\* PeerStatus Up about m, forwarded by some r that n shares keys with: the
\* keys do not travel.
GossipUp(n, m) ==
  /\ \E r \in Node : IsHandshaken(known[n][r])
  /\ \E r \in Node : \E d \in done[r] : d.peer = m
  /\ known' = [known EXCEPT ![n][m] = AddPeer(@, Gossiped)]
  /\ UNCHANGED <<nodeVars, started, done, net, fresh, faults>>

\* PeerStatus Down about m, from a watchdog of n or from another node.
RemovePeer(n, m) ==
  /\ known[n][m] # Unknown
  /\ faults.down < MaxDown
  /\ known' = [known EXCEPT ![n][m] = Unknown]
  /\ faults' = [faults EXCEPT !.down = @ + 1]
  /\ UNCHANGED <<nodeVars, started, done, net, fresh>>

Lose(m) ==
  /\ faults.loss < MaxLoss
  /\ net' = net \ {m}
  /\ faults' = [faults EXCEPT !.loss = @ + 1]
  /\ UNCHANGED <<nodeVars, peerVars, fresh>>

-----------------------------------------------------------------------------
(* Specification                                                           *)

Init ==
  /\ hashed = [n \in Node |-> FALSE]
  /\ bootstrap = [n \in Node |-> {}]
  /\ hellos = [n \in Node |-> {}]
  /\ ohais = [n \in Node |-> {}]
  /\ okboss = [n \in Node |-> {}]
  /\ dead = [n \in Node |-> {}]
  /\ known = [n \in Node |-> [m \in Node |-> Unknown]]
  /\ started = [n \in Node |-> {}]
  /\ done = [n \in Node |-> {}]
  /\ net = {}
  /\ fresh = 1
  /\ faults = [loss |-> 0, dup |-> 0, timeout |-> 0, down |-> 0]

Recv(m) ==
  \/ RecvHello(m.dst, m)
  \/ RecvOhai(m.dst, m)
  \/ RecvOkBoss(m.dst, m)
  \/ RecvGoTeam(m.dst, m)

Timer(n) ==
  \/ \E e \in hellos[n] \cup ohais[n] : TimerFires(n, e)
  \/ \E k \in dead[n] : RecvDead(n, k)

Next ==
  \/ \E n \in Node : Bootstrap(n)
  \/ \E n, addr \in Node : BootstrapPeer(n, addr) \/ BootstrapUnresolved(n, addr)
  \/ \E n, m \in Node : HelloAndThen(n, m) \/ GossipUp(n, m) \/ RemovePeer(n, m)
  \/ \E m \in net : Recv(m) \/ Lose(m)
  \/ \E n \in Node : Timer(n)

Spec == Init /\ [][Next]_vars

\* Tokio runs a timer once it is due and the mailbox is served in order; a
\* homie neither has to receive a packet nor to start a handshake.
Fairness ==
  \A n \in Node :
    /\ WF_vars(\E e \in hellos[n] \cup ohais[n] : TimerFires(n, e))
    /\ WF_vars(\E k \in dead[n] : RecvDead(n, k))

FairSpec == Spec /\ Fairness

-----------------------------------------------------------------------------
(* Properties                                                              *)

\* Every variable of the Handshaker, the peer table and the network has its
\* type.
TypeOK ==
  /\ hashed \in [Node -> BOOLEAN]
  /\ bootstrap \in [Node -> SUBSET Node]
  /\ hellos \in [Node -> SUBSET Hello]
  /\ ohais \in [Node -> SUBSET Ohai]
  /\ okboss \in [Node -> SUBSET OkBoss]
  /\ dead \in [Node -> SUBSET Dead]
  /\ known \in [Node -> [Node -> Peer]]
  /\ started \in [Node -> SUBSET Nat]
  /\ done \in [Node -> SUBSET Outcome]
  /\ net \subseteq Packet
  /\ fresh \in Nat
  /\ faults \in [loss : Nat, dup : Nat, timeout : Nat, down : Nat]

\* Two outcomes are the two ends of one handshake with the same pair of keys.
Mirror(n, d, m, c) ==
  /\ c.id = d.id
  /\ d.peer = m /\ c.peer = n
  /\ d.own = c.their /\ d.their = c.own
  /\ d.ts = c.ts

\* A GoTeam makes the initiator take the responder for a peer only when the
\* responder has taken the initiator for a peer in the same handshake, with
\* the same timestamp and with the keys crossed over: whatever packets are
\* lost, repeated or overtaken and whichever timers fire in between.
MatchingKeys ==
  \A n \in Node : \A d \in done[n] :
    d.role = "initiator" =>
      \E c \in done[d.peer] : c.role = "responder" /\ Mirror(n, d, d.peer, c)

\* One Hello brings a peer up at most once at each end: a copy of a Hello
\* gets a new challenge, which no earlier OkBoss answers (send_peer_up).
CompletesOnce ==
  \A n \in Node : \A c, d \in done[n] :
    c.id = d.id /\ c.peer = d.peer => c = d

\* The keys in the table are those of a handshake that has ended and, as long
\* as no peer was removed, of the newest one with this peer, although
\* handshakes end in any order and gossip about the peer arrives at any time
\* (add_peer, last write wins).
NewestKeysWin ==
  /\ \A n, m \in Node :
       IsHandshaken(known[n][m]) =>
         \E d \in done[n] : d.peer = m /\ known[n][m] = Handshaken(d)
  /\ faults.down = 0 =>
       \A n \in Node : \A d \in done[n] :
         IsHandshaken(known[n][d.peer]) /\ known[n][d.peer].ts >= d.ts

Between(n, m) == {d \in done[n] : d.peer = m}

\* Two homies that have finished the same handshakes, no two of them started
\* in the same instant, encrypt with matching keys, even when both started
\* handshakes at once and saw them end in different orders (add_peer).
KeysAgree ==
  \A n, m \in Node :
    /\ faults.down = 0
    /\ Between(n, m) # {}
    /\ {d.id : d \in Between(n, m)} = {d.id : d \in Between(m, n)}
    /\ \A c, d \in Between(n, m) : c.ts = d.ts => c = d
    => /\ known[n][m].own = known[m][n].their
       /\ known[n][m].their = known[m][n].own

\* A subscription that waited for a handshake (and_then) is started only when
\* both ends have the keys of that handshake.
ContinuationAfterKeys ==
  \A n \in Node : \A i \in started[n] :
    \E d \in done[n] :
      /\ d.id = i
      /\ \E c \in done[d.peer] : Mirror(n, d, d.peer, c)

\* Neither gossip nor an older handshake takes keys away from a known peer or
\* replaces them by older ones: only a Down removes them (add_peer).
KeysOnlyMoveForward ==
  [][\A n, m \in Node :
       IsHandshaken(known[n][m]) /\ known'[n][m] # known[n][m] =>
         \/ known'[n][m] = Unknown
         \/ IsHandshaken(known'[n][m]) /\ known'[n][m].ts > known[n][m].ts]_vars

Pending(n, i) == \E e \in hellos[n] \cup ohais[n] : e.id = i

\* A handshake that waits for an Ohai or for an OkBoss does not wait for ever
\* (start_timer, Dead), even if a copy of the Hello replaces the entry while
\* the Dead of the old timer is in the mailbox.
HandshakesExpire ==
  \A n \in Node : \A i \in 1..MaxFresh : Pending(n, i) ~> ~Pending(n, i)
=============================================================================
