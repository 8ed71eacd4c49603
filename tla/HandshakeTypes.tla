--------------------------- MODULE HandshakeTypes ---------------------------
(***************************************************************************)
(* Every step of the handshake keeps the types of its variables; what      *)
(* follows from the types alone: the peer table holds the newest keys; and *)
(* the steps that go on with a handshake, or only forget one, keep         *)
(* HandshakeInv.                                                           *)
(***************************************************************************)
EXTENDS HandshakeInductive, TLAPS

\* add_peer makes an entry of the table of two such entries.
LEMMA AddPeerType ==
  ASSUME NEW old \in Peer, NEW new \in Peer
  PROVE  AddPeer(old, new) \in Peer
BY Zenon DEF AddPeer

\* compute_hmacs makes HMACs.
LEMMA HmacsType ==
  ASSUME TypeOK, NEW n \in Node, NEW ts \in Timestamp
  PROVE  ComputeHmacs(n, ts) \in SUBSET Hmac
BY HandshakeAssumption DEF ComputeHmacs, Hmac, TypeOK

\* compute_response makes responses.
LEMMA ResponseType ==
  ASSUME NEW n \in Node, NEW id \in Nat, NEW pk \in Nat, NEW challenge \in Nat
  PROVE  ComputeResponse(n, id, pk, challenge) \in SUBSET Response
BY HandshakeAssumption DEF ComputeResponse, Response

\* Taking a packet from the network and sending replies leaves packets in it.
LEMMA HandleType ==
  ASSUME TypeOK, NEW m \in net, NEW replies \in SUBSET Packet, Handle(m, replies)
  PROVE  net' \subseteq Packet /\ faults' \in [loss : Nat, dup : Nat, timeout : Nat, down : Nat]
BY DEF Handle, TypeOK

\* send_peer_up keeps the types of the table and of the history.
LEMMA SendPeerUpType ==
  ASSUME TypeOK, NEW n \in Node, NEW role \in Role, NEW e,
         e.id \in Nat, e.addr \in Node, e.own \in Nat, e.their \in Nat, e.ts \in Timestamp,
         SendPeerUp(n, e, role)
  PROVE  known' \in [Node -> [Node -> Peer]] /\ done' \in [Node -> SUBSET Outcome]
<1>1. Handshaken(e) \in Peer
  BY Zenon, HandshakeAssumption DEF Handshaken, Peer
<1>2. AddPeer(known[n][e.addr], Handshaken(e)) \in Peer
  BY Zenon, <1>1, AddPeerType DEF TypeOK
<1>3. known' \in [Node -> [Node -> Peer]]
  BY Zenon, <1>2 DEF SendPeerUp, TypeOK
<1>4. done' \in [Node -> SUBSET Outcome]
  BY DEF SendPeerUp, TypeOK, Outcome
<1> QED BY Zenon, <1>3, <1>4

\* send_hello keeps the types.
LEMMA SendHelloType ==
  ASSUME TypeOK, NEW n \in Node, NEW addr \in Node, NEW andThen \in BOOLEAN,
         SendHello(n, addr, andThen)
  PROVE  /\ hellos' \in [Node -> SUBSET Hello]
         /\ net' \subseteq Packet
         /\ fresh' \in Nat
<1> PICK ts \in Timestamp :
      /\ hellos' = [hellos EXCEPT ![n] = @ \cup
                      {[id |-> fresh, addr |-> addr, ts |-> ts,
                        own |-> fresh, andThen |-> andThen, timer |-> TRUE]}]
      /\ net' = net \cup {[type |-> "Hello", id |-> fresh, src |-> n, dst |-> addr,
                           pk |-> fresh, hmacs |-> ComputeHmacs(n, ts), ts |-> ts]}
      /\ fresh' = fresh + 1
  BY Zenon DEF SendHello
<1>0. [id |-> fresh, addr |-> addr, ts |-> ts,
       own |-> fresh, andThen |-> andThen, timer |-> TRUE] \in Hello
  BY Zenon DEF TypeOK, Hello
<1>1. hellos' \in [Node -> SUBSET Hello]
  BY Zenon, <1>0 DEF TypeOK
<1>2. ComputeHmacs(n, ts) \in SUBSET Hmac
  BY Zenon, HmacsType
<1>3. [type |-> "Hello", id |-> fresh, src |-> n, dst |-> addr,
       pk |-> fresh, hmacs |-> ComputeHmacs(n, ts), ts |-> ts] \in HelloPacket
  BY Zenon, <1>2 DEF HelloPacket, TypeOK
<1>4. net' \subseteq Packet
  BY Zenon, <1>3 DEF TypeOK, Packet
<1> QED BY <1>1, <1>4 DEF TypeOK

\* The type of a packet tells its fields.
LEMMA PacketType ==
  ASSUME TypeOK, NEW m \in net
  PROVE  /\ m.id \in Nat /\ m.src \in Node /\ m.dst \in Node
         /\ m.type \in {"Hello", "Ohai", "OkBoss", "GoTeam"}
         /\ m.type = "Hello" => m \in HelloPacket
         /\ m.type = "Ohai" => m \in OhaiPacket
         /\ m.type = "OkBoss" => m \in OkBossPacket
         /\ m.type = "GoTeam" => m \in GoTeamPacket
BY Zenon DEF TypeOK, Packet, HelloPacket, OhaiPacket, OkBossPacket, GoTeamPacket

\* The handler of a Hello keeps the types.
LEMMA AcceptHelloType ==
  ASSUME TypeOK, NEW m \in net, m.type = "Hello", NEW inWindow \in BOOLEAN,
         AcceptHello(m.dst, m, inWindow)
  PROVE  TypeOK'
<1> DEFINE o == [id |-> m.id, addr |-> m.src, ts |-> m.ts, own |-> fresh,
                 their |-> m.pk, timer |-> TRUE]
           p == [type |-> "Ohai", id |-> m.id, src |-> m.dst, dst |-> m.src, pk |-> fresh,
                 hmacs |-> ComputeHmacs(m.dst, m.ts), challenge |-> fresh]
<1>1. m \in HelloPacket
  BY Zenon, PacketType
<1>2. o \in Ohai
  BY Zenon, <1>1 DEF HelloPacket, Ohai, TypeOK
<1>3. ohais' \in [Node -> SUBSET Ohai]
  <2>1. ohais' = [ohais EXCEPT ![m.dst] = (@ \ At(@, m.id, m.src)) \cup {o}]
    BY Zenon DEF AcceptHello
  <2> HIDE DEF o
  <2> QED BY Zenon, <1>2, <2>1 DEF TypeOK, At
<1>4. p \in OhaiPacket
  <2>1. ComputeHmacs(m.dst, m.ts) \in SUBSET Hmac
    BY Zenon, <1>1, HmacsType DEF HelloPacket
  <2> QED BY Zenon, <1>1, <2>1 DEF HelloPacket, OhaiPacket, TypeOK
<1>5. /\ net' \subseteq Packet
      /\ faults' \in [loss : Nat, dup : Nat, timeout : Nat, down : Nat]
  <2>1. Handle(m, {p})
    BY Zenon DEF AcceptHello
  <2>2. {p} \in SUBSET Packet
    BY Zenon, <1>4 DEF Packet
  <2> HIDE DEF p
  <2> QED BY Zenon, <2>1, <2>2, HandleType
<1>6. fresh' \in Nat
  BY DEF AcceptHello, TypeOK
<1>7. UNCHANGED <<hashed, bootstrap, hellos, okboss, dead, known, started, done>>
  BY Zenon DEF AcceptHello, peerVars
<1> QED BY Zenon, <1>3, <1>5, <1>6, <1>7 DEF TypeOK

\* The handler of an Ohai keeps the types.
LEMMA RecvOhaiType ==
  ASSUME TypeOK, NEW m \in net, RecvOhai(m.dst, m)
  PROVE  TypeOK'
<1>1. m \in OhaiPacket
  BY Zenon, PacketType DEF RecvOhai
<1>2. hellos' \in [Node -> SUBSET Hello]
  <2>1. hellos' = [hellos EXCEPT ![m.dst] = @ \ At(@, m.id, m.src)]
    BY Zenon DEF RecvOhai
  <2> QED BY Zenon, <2>1 DEF TypeOK, At
<1>3. /\ okboss' \in [Node -> SUBSET OkBoss]
      /\ net' \subseteq Packet
      /\ faults' \in [loss : Nat, dup : Nat, timeout : Nat, down : Nat]
      /\ UNCHANGED peerVars
  <2>1. CASE UNCHANGED <<okboss, peerVars>> /\ Handle(m, {})
    BY Zenon, <2>1, HandleType DEF TypeOK
  <2>2. ASSUME NEW e \in At(hellos[m.dst], m.id, m.src), AcceptOhai(m.dst, m, e)
        PROVE  /\ okboss' \in [Node -> SUBSET OkBoss]
               /\ net' \subseteq Packet
               /\ faults' \in [loss : Nat, dup : Nat, timeout : Nat, down : Nat]
               /\ UNCHANGED peerVars
    <3> DEFINE p == [type |-> "OkBoss", id |-> e.id, src |-> m.dst, dst |-> m.src,
                     response |-> ComputeResponse(m.dst, e.id, m.pk, m.challenge)]
    <3>1. e \in Hello
      BY Zenon, PacketType DEF TypeOK, At
    <3>2. GotOhai(e, m) \in OkBoss
      BY Zenon, <1>1, <3>1 DEF Hello, OkBoss, GotOhai, OhaiPacket
    <3>3. okboss' \in [Node -> SUBSET OkBoss]
      BY Zenon, <2>2, <3>2 DEF AcceptOhai, TypeOK, At
    <3>4. ComputeResponse(m.dst, e.id, m.pk, m.challenge) \in SUBSET Response
      BY Zenon, <1>1, <3>1, ResponseType DEF OhaiPacket, Hello
    <3>5. {p} \in SUBSET Packet
      BY <1>1, <3>1, <3>4 DEF OkBossPacket, Packet, OhaiPacket, Hello
    <3>6. Handle(m, {p})
      BY Zenon, <2>2 DEF AcceptOhai
    <3> HIDE DEF p
    <3> QED BY Zenon, <2>2, <3>3, <3>5, <3>6, HandleType DEF AcceptOhai
  <2> QED BY Zenon, <2>1, <2>2 DEF RecvOhai
<1> QED BY Zenon, <1>2, <1>3 DEF RecvOhai, TypeOK, peerVars

\* The handler of an OkBoss keeps the types.
LEMMA RecvOkBossType ==
  ASSUME TypeOK, NEW m \in net, RecvOkBoss(m.dst, m)
  PROVE  TypeOK'
<1>1. m \in OkBossPacket
  BY Zenon, PacketType DEF RecvOkBoss
<1>2. ohais' \in [Node -> SUBSET Ohai]
  <2>1. ohais' = [ohais EXCEPT ![m.dst] = @ \ At(@, m.id, m.src)]
    BY Zenon DEF RecvOkBoss
  <2> QED BY Zenon, <2>1 DEF TypeOK, At
<1>3. /\ known' \in [Node -> [Node -> Peer]]
      /\ done' \in [Node -> SUBSET Outcome]
      /\ net' \subseteq Packet
      /\ faults' \in [loss : Nat, dup : Nat, timeout : Nat, down : Nat]
  <2>1. CASE UNCHANGED <<known, done>> /\ Handle(m, {})
    BY Zenon, <2>1, HandleType DEF TypeOK
  <2>2. ASSUME NEW e \in At(ohais[m.dst], m.id, m.src),
               SendPeerUp(m.dst, e, "responder"),
               Handle(m, {[type |-> "GoTeam", id |-> e.id, src |-> m.dst, dst |-> m.src]})
        PROVE  /\ known' \in [Node -> [Node -> Peer]]
               /\ done' \in [Node -> SUBSET Outcome]
               /\ net' \subseteq Packet
               /\ faults' \in [loss : Nat, dup : Nat, timeout : Nat, down : Nat]
    <3>1. e \in Ohai
      BY Zenon, PacketType DEF TypeOK, At
    <3>2. known' \in [Node -> [Node -> Peer]] /\ done' \in [Node -> SUBSET Outcome]
      BY Zenon, <2>2, <3>1, SendPeerUpType, PacketType DEF Ohai, Role
    <3>3. {[type |-> "GoTeam", id |-> e.id, src |-> m.dst, dst |-> m.src]} \in SUBSET Packet
      BY <1>1, <3>1 DEF OkBossPacket, Ohai, GoTeamPacket, Packet
    <3> QED BY Zenon, <2>2, <3>2, <3>3, HandleType
  <2> QED BY Zenon, <2>1, <2>2 DEF RecvOkBoss
<1> QED BY Zenon, <1>2, <1>3 DEF RecvOkBoss, TypeOK

\* The handler of a GoTeam keeps the types.
LEMMA RecvGoTeamType ==
  ASSUME TypeOK, NEW m \in net, RecvGoTeam(m.dst, m)
  PROVE  TypeOK'
<1>1. m.dst \in Node
  BY Zenon, PacketType
<1>2. okboss' \in [Node -> SUBSET OkBoss]
  <2>1. okboss' = [okboss EXCEPT ![m.dst] = @ \ At(@, m.id, m.src)]
    BY Zenon DEF RecvGoTeam
  <2> QED BY Zenon, <2>1 DEF TypeOK, At
<1>3. /\ known' \in [Node -> [Node -> Peer]]
      /\ done' \in [Node -> SUBSET Outcome]
      /\ started' \in [Node -> SUBSET Nat]
  <2>1. CASE UNCHANGED peerVars
    BY Zenon, <2>1 DEF TypeOK, peerVars
  <2>2. ASSUME NEW e \in At(okboss[m.dst], m.id, m.src),
               SendPeerUp(m.dst, e, "initiator"),
               started' = [started EXCEPT ![m.dst] = @ \cup {x \in {e.id} : e.andThen}]
        PROVE  /\ known' \in [Node -> [Node -> Peer]]
               /\ done' \in [Node -> SUBSET Outcome]
               /\ started' \in [Node -> SUBSET Nat]
    <3>1. e \in OkBoss
      BY Zenon, <1>1 DEF TypeOK, At
    <3>2. known' \in [Node -> [Node -> Peer]] /\ done' \in [Node -> SUBSET Outcome]
      BY Zenon, <1>1, <2>2, <3>1, SendPeerUpType DEF OkBoss, Role
    <3>3. {x \in {e.id} : e.andThen} \in SUBSET Nat
      BY Zenon, <3>1 DEF OkBoss
    <3>4. started' \in [Node -> SUBSET Nat]
      BY Zenon, <2>2, <3>3 DEF TypeOK
    <3> QED BY Zenon, <3>2, <3>4
  <2> QED BY Zenon, <2>1, <2>2 DEF RecvGoTeam
<1>4. /\ net' \subseteq Packet
      /\ faults' \in [loss : Nat, dup : Nat, timeout : Nat, down : Nat]
  BY Zenon, HandleType DEF RecvGoTeam
<1> QED BY Zenon, <1>2, <1>3, <1>4 DEF RecvGoTeam, TypeOK

\* A timer that fires keeps the types.
LEMMA TimerFiresType ==
  ASSUME TypeOK, NEW n \in Node, NEW e \in hellos[n] \cup ohais[n], TimerFires(n, e)
  PROVE  TypeOK'
<1>1. [id |-> e.id, addr |-> e.addr, own |-> e.own] \in Dead
  BY DEF TypeOK, Hello, Ohai, Dead
<1>2. dead' \in [Node -> SUBSET Dead]
  BY <1>1 DEF TimerFires, TypeOK
<1>3. faults' \in [loss : Nat, dup : Nat, timeout : Nat, down : Nat]
  <2>1. faults' = [faults EXCEPT !.timeout = @ + 1]
    BY Zenon DEF TimerFires
  <2>2. faults \in [loss : Nat, dup : Nat, timeout : Nat, down : Nat]
    BY Zenon DEF TypeOK
  <2> QED BY <2>1, <2>2
<1>4. hellos' \in [Node -> SUBSET Hello] /\ ohais' \in [Node -> SUBSET Ohai]
  <2>1. CASE /\ e \in hellos[n]
             /\ hellos' = [hellos EXCEPT ![n] = (@ \ {e}) \cup {[e EXCEPT !.timer = FALSE]}]
             /\ UNCHANGED ohais
    <3>0. e \in Hello
      BY Zenon, <2>1 DEF TypeOK
    <3>1. [e EXCEPT !.timer = FALSE] \in Hello
      BY Zenon, <3>0 DEF Hello
    <3> QED BY Zenon, <2>1, <3>1 DEF TypeOK
  <2>2. CASE /\ e \in ohais[n]
             /\ ohais' = [ohais EXCEPT ![n] = (@ \ {e}) \cup {[e EXCEPT !.timer = FALSE]}]
             /\ UNCHANGED hellos
    <3>0. e \in Ohai
      BY Zenon, <2>2 DEF TypeOK
    <3>1. [e EXCEPT !.timer = FALSE] \in Ohai
      BY Zenon, <3>0 DEF Ohai
    <3> QED BY Zenon, <2>2, <3>1 DEF TypeOK
  <2> QED BY Zenon, <2>1, <2>2 DEF TimerFires
<1> QED BY Zenon, <1>2, <1>3, <1>4 DEF TimerFires, TypeOK, peerVars

\* Every step keeps the types.
LEMMA TypeStep == TypeOK /\ [Next]_vars => TypeOK'
<1> SUFFICES ASSUME TypeOK, [Next]_vars PROVE TypeOK'
  BY Zenon
<1>1. CASE UNCHANGED vars
  BY Zenon, <1>1 DEF TypeOK, vars, nodeVars, peerVars
<1>2. ASSUME NEW n \in Node, Bootstrap(n) PROVE TypeOK'
  BY Zenon, <1>2, HandshakeAssumption DEF Bootstrap, TypeOK, peerVars
<1>3. ASSUME NEW n \in Node, NEW addr \in Node, BootstrapPeer(n, addr) PROVE TypeOK'
  <2>1. bootstrap' \in [Node -> SUBSET Node]
    BY Zenon, <1>3 DEF BootstrapPeer, TypeOK
  <2>2. /\ hellos' \in [Node -> SUBSET Hello]
        /\ net' \subseteq Packet
        /\ fresh' \in Nat
    BY Zenon, <1>3, SendHelloType DEF BootstrapPeer
  <2> QED BY Zenon, <1>3, <2>1, <2>2 DEF BootstrapPeer, TypeOK, peerVars
<1>4. ASSUME NEW n \in Node, NEW addr \in Node, BootstrapUnresolved(n, addr) PROVE TypeOK'
  BY Zenon, <1>4 DEF BootstrapUnresolved, TypeOK, peerVars
<1>5. ASSUME NEW n \in Node, NEW m \in Node, HelloAndThen(n, m) PROVE TypeOK'
  <2>1. /\ hellos' \in [Node -> SUBSET Hello]
        /\ net' \subseteq Packet
        /\ fresh' \in Nat
    BY Zenon, <1>5, SendHelloType DEF HelloAndThen
  <2> QED BY Zenon, <1>5, <2>1 DEF HelloAndThen, TypeOK, peerVars
<1>6. ASSUME NEW n \in Node, NEW m \in Node, GossipUp(n, m) PROVE TypeOK'
  <2>1. Gossiped \in Peer
    BY Zenon DEF Gossiped, Peer
  <2>2. AddPeer(known[n][m], Gossiped) \in Peer
    BY Zenon, <2>1, AddPeerType DEF TypeOK
  <2>3. known' \in [Node -> [Node -> Peer]]
    BY Zenon, <1>6, <2>2 DEF GossipUp, TypeOK
  <2> QED BY Zenon, <1>6, <2>3 DEF GossipUp, TypeOK, nodeVars
<1>7. ASSUME NEW n \in Node, NEW m \in Node, RemovePeer(n, m) PROVE TypeOK'
  <2>1. Unknown \in Peer
    BY Zenon DEF Unknown, Peer
  <2>2. known' \in [Node -> [Node -> Peer]]
    BY Zenon, <1>7, <2>1 DEF RemovePeer, TypeOK
  <2>3. faults' \in [loss : Nat, dup : Nat, timeout : Nat, down : Nat]
    <3>1. faults' = [faults EXCEPT !.down = faults.down + 1]
      BY Zenon, <1>7 DEF RemovePeer
    <3>2. faults \in [loss : Nat, dup : Nat, timeout : Nat, down : Nat]
      BY Zenon DEF TypeOK
    <3> HIDE <1>7
    <3> QED BY <3>1, <3>2
  <2> QED BY Zenon, <1>7, <2>2, <2>3 DEF RemovePeer, TypeOK, nodeVars
<1>8. ASSUME NEW m \in net, RecvHello(m.dst, m) PROVE TypeOK'
  <2>1. ASSUME NEW inWindow \in BOOLEAN, IgnoreHello(m.dst, m, inWindow) PROVE TypeOK'
    BY Zenon, <2>1, HandleType DEF IgnoreHello, TypeOK, nodeVars, peerVars
  <2> QED BY Zenon, <1>8, <2>1, AcceptHelloType DEF RecvHello
<1>9. ASSUME NEW m \in net, Lose(m) PROVE TypeOK'
  BY <1>9 DEF Lose, TypeOK, nodeVars, peerVars
<1>10. ASSUME NEW n \in Node, NEW k \in dead[n], RecvDead(n, k) PROVE TypeOK'
  BY Zenon, <1>10 DEF RecvDead, TypeOK, At, peerVars
<1> QED
  BY Zenon, <1>1, <1>2, <1>3, <1>4, <1>5, <1>6, <1>7, <1>8, <1>9, <1>10, RecvOhaiType,
     RecvOkBossType, RecvGoTeamType, TimerFiresType DEF Next, Recv, Timer

\* The types hold at the start.
LEMMA TypeInit == Init => TypeOK
<1>1. Unknown \in Peer
  BY Zenon DEF Unknown, Peer
<1> QED BY <1>1 DEF Init, TypeOK

\* Whatever happens, the state of the handshakers, the peer tables and the
\* packets in flight are well-formed.
THEOREM TypeCorrect == Spec => []TypeOK
BY TypeInit, TypeStep, PTL DEF Spec

-----------------------------------------------------------------------------
(* The peer table                                                          *)

\* Outcome d ends a handshake that node n has an entry for.
EndsEntry(n, d) ==
  \/ d.role = "responder" /\ \E o \in ohais[n] : o.id = d.id /\ o.own = d.own /\ o.their = d.their
  \/ d.role = "initiator" /\ \E e \in okboss[n] : e.id = d.id /\ e.own = d.own

\* How one step may change the table: nothing, one gossiped peer, one outcome
\* of a handshake or one removal.
LEMMA TableStep ==
  ASSUME TypeOK, [Next]_vars
  PROVE  \/ UNCHANGED <<known, done>> /\ (faults'.down = faults.down)
         \/ \E n, m \in Node :
              /\ known' = [known EXCEPT ![n][m] = AddPeer(@, Gossiped)]
              /\ UNCHANGED <<done, faults>>
         \/ \E n \in Node : \E d \in Outcome :
              /\ EndsEntry(n, d)
              /\ known' = [known EXCEPT ![n][d.peer] = AddPeer(@, Handshaken(d))]
              /\ done' = [done EXCEPT ![n] = @ \cup {d}]
              /\ faults'.down = faults.down
         \/ \E n, m \in Node :
              /\ known' = [known EXCEPT ![n][m] = Unknown]
              /\ faults'.down = faults.down + 1
              /\ UNCHANGED done
<1> DEFINE Same == UNCHANGED <<known, done>> /\ (faults'.down = faults.down)
           Up(n, d) == /\ EndsEntry(n, d)
                       /\ known' = [known EXCEPT ![n][d.peer] = AddPeer(@, Handshaken(d))]
                       /\ done' = [done EXCEPT ![n] = @ \cup {d}]
                       /\ faults'.down = faults.down
<1>f. faults \in [loss : Nat, dup : Nat, timeout : Nat, down : Nat]
  BY Zenon DEF TypeOK
<1>h. ASSUME NEW m, NEW replies, Handle(m, replies) PROVE faults'.down = faults.down
  BY Zenon, <1>f, <1>h DEF Handle
<1>p. ASSUME NEW n \in Node, NEW role \in Role, NEW e, SendPeerUp(n, e, role),
             e.id \in Nat, e.addr \in Node, e.own \in Nat, e.their \in Nat, e.ts \in Timestamp,
             faults'.down = faults.down,
             role = "responder" => e \in ohais[n], role = "initiator" => e \in okboss[n]
      PROVE  \E d \in Outcome : Up(n, d)
  <2> DEFINE d == [id |-> e.id, peer |-> e.addr, own |-> e.own,
                   their |-> e.their, ts |-> e.ts, role |-> role]
  <2>1. d \in Outcome
    BY Zenon, <1>p DEF Outcome
  <2>2. Handshaken(e) = Handshaken(d) /\ d.peer = e.addr
    BY Zenon DEF Handshaken
  <2>3. EndsEntry(n, d)
    BY Zenon, <1>p DEF EndsEntry, Role
  <2>4. Up(n, d)
    BY Zenon, <1>p, <2>2, <2>3 DEF SendPeerUp
  <2> QED BY Zenon, <2>1, <2>4
<1>1. CASE UNCHANGED vars
  BY Zenon, <1>1 DEF vars, peerVars
<1>2. ASSUME NEW n \in Node, NEW addr \in Node,
             \/ Bootstrap(n) \/ BootstrapPeer(n, addr) \/ BootstrapUnresolved(n, addr)
             \/ HelloAndThen(n, addr)
      PROVE  Same
  BY Zenon, <1>2 DEF Bootstrap, BootstrapPeer, BootstrapUnresolved, HelloAndThen, peerVars
<1>3. ASSUME NEW n \in Node, NEW m \in Node, RemovePeer(n, m)
      PROVE  /\ known' = [known EXCEPT ![n][m] = Unknown]
             /\ faults'.down = faults.down + 1
             /\ UNCHANGED done
  BY Zenon, <1>3, <1>f DEF RemovePeer
<1>4. ASSUME NEW m \in net, Lose(m) \/ RecvHello(m.dst, m) \/ RecvOhai(m.dst, m) PROVE Same
  <2>1. CASE Lose(m)
    BY Zenon, <2>1, <1>f DEF Lose, peerVars
  <2>2. CASE RecvHello(m.dst, m)
    BY Zenon, <2>2, <1>h DEF RecvHello, AcceptHello, IgnoreHello, peerVars
  <2>3. CASE RecvOhai(m.dst, m)
    BY Zenon, <2>3, <1>h DEF RecvOhai, AcceptOhai, peerVars
  <2> QED BY Zenon, <1>4, <2>1, <2>2, <2>3
<1>5. ASSUME NEW m \in net, RecvOkBoss(m.dst, m)
      PROVE  Same \/ \E n \in Node : \E d \in Outcome : Up(n, d)
  <2>1. CASE UNCHANGED <<known, done>> /\ Handle(m, {})
    BY Zenon, <2>1, <1>h
  <2>2. ASSUME NEW e \in At(ohais[m.dst], m.id, m.src), SendPeerUp(m.dst, e, "responder"),
               Handle(m, {[type |-> "GoTeam", id |-> e.id, src |-> m.dst, dst |-> m.src]})
        PROVE  \E n \in Node : \E d \in Outcome : Up(n, d)
    <3>1. m.dst \in Node
      BY Zenon, PacketType
    <3>2. e \in Ohai /\ e \in ohais[m.dst]
      BY Zenon, <3>1 DEF TypeOK, At
    <3>3. faults'.down = faults.down
      BY Zenon, <2>2, <1>h
    <3> HIDE DEF Up
    <3> QED BY Zenon, <1>p, <2>2, <3>1, <3>2, <3>3 DEF Ohai, Role
  <2> QED BY Zenon, <1>5, <2>1, <2>2 DEF RecvOkBoss
<1>6. ASSUME NEW m \in net, RecvGoTeam(m.dst, m)
      PROVE  Same \/ \E n \in Node : \E d \in Outcome : Up(n, d)
  <2>0. faults'.down = faults.down
    BY Zenon, <1>6, <1>h DEF RecvGoTeam
  <2>1. CASE UNCHANGED peerVars
    BY Zenon, <2>0, <2>1 DEF peerVars
  <2>2. ASSUME NEW e \in At(okboss[m.dst], m.id, m.src), SendPeerUp(m.dst, e, "initiator")
        PROVE  \E n \in Node : \E d \in Outcome : Up(n, d)
    <3>1. m.dst \in Node
      BY PacketType
    <3>2. e \in OkBoss /\ e \in okboss[m.dst]
      BY Zenon, <3>1 DEF TypeOK, At
    <3> HIDE DEF Up
    <3> QED BY Zenon, <1>p, <2>0, <2>2, <3>1, <3>2 DEF OkBoss, Role
  <2> QED BY Zenon, <1>6, <2>1, <2>2 DEF RecvGoTeam
<1>7. ASSUME NEW n \in Node, NEW e \in hellos[n] \cup ohais[n], TimerFires(n, e) PROVE Same
  BY Zenon, <1>7, <1>f DEF TimerFires, peerVars
<1>8. ASSUME NEW n \in Node, NEW k \in dead[n], RecvDead(n, k) PROVE Same
  BY Zenon, <1>8 DEF RecvDead, peerVars
<1>9. ASSUME NEW n \in Node, NEW m \in Node, GossipUp(n, m)
      PROVE  known' = [known EXCEPT ![n][m] = AddPeer(@, Gossiped)] /\ UNCHANGED <<done, faults>>
  BY Zenon, <1>9 DEF GossipUp
<1> QED
  BY Zenon, <1>1, <1>2, <1>3, <1>4, <1>5, <1>6, <1>7, <1>8, <1>9 DEF Next, Recv, Timer

\* The table entry of an outcome has the fields of the outcome.
LEMMA HandshakenFields ==
  ASSUME NEW d \in Outcome
  PROVE  /\ Handshaken(d) \in Peer /\ IsHandshaken(Handshaken(d)) /\ Handshaken(d).ts = d.ts
         /\ Handshaken(d).own = d.own /\ Handshaken(d).their = d.their
         /\ d.peer \in Node /\ d.ts \in Nat
BY Zenon, HandshakeAssumption DEF Handshaken, IsHandshaken, Outcome, Peer

\* Every step keeps the newest keys in the table.
LEMMA NewestStep == TypeOK /\ NewestKeysWin /\ [Next]_vars => NewestKeysWin'
<1> SUFFICES ASSUME TypeOK, NewestKeysWin, [Next]_vars PROVE NewestKeysWin'
  BY Zenon
<1>1. /\ faults.down \in Nat
      /\ \A n \in Node : \A d \in done[n] : d.peer \in Node
      /\ \A n, m \in Node : known[n][m].ts \in Nat
  BY DEF TypeOK, Outcome, Peer
<1>2. CASE UNCHANGED <<known, done>> /\ (faults'.down = faults.down)
  BY <1>2 DEF NewestKeysWin, IsHandshaken, Handshaken
<1>3. ASSUME NEW n \in Node, NEW m \in Node,
             known' = [known EXCEPT ![n][m] = AddPeer(@, Gossiped)],
             UNCHANGED <<done, faults>>
      PROVE  NewestKeysWin'
  <2>1. /\ \A r, q \in Node : known'[r][q] = known[r][q] \/ ~IsHandshaken(known'[r][q])
        /\ \A r, q \in Node : IsHandshaken(known[r][q]) => known'[r][q] = known[r][q]
    BY Zenon, <1>3 DEF AddPeer, IsHandshaken, Gossiped, TypeOK
  <2> QED BY <1>1, <1>3, <2>1 DEF NewestKeysWin, IsHandshaken, Handshaken
<1>4. ASSUME NEW n \in Node, NEW b \in Outcome,
             known' = [known EXCEPT ![n][b.peer] = AddPeer(@, Handshaken(b))],
             done' = [done EXCEPT ![n] = @ \cup {b}],
             faults'.down = faults.down
      PROVE  NewestKeysWin'
  <2> DEFINE old == known[n][b.peer]
             new == known'[n][b.peer]
  <2>1. /\ \A r, q \in Node : r # n \/ q # b.peer => known'[r][q] = known[r][q]
        /\ \A r \in Node : done'[r] = IF r = n THEN done[n] \cup {b} ELSE done[r]
        /\ new = AddPeer(old, Handshaken(b))
    BY Zenon, <1>4, HandshakenFields DEF TypeOK
  <2>2. /\ b.peer \in Node /\ b.ts \in Nat /\ old.ts \in Nat
        /\ IsHandshaken(Handshaken(b)) /\ Handshaken(b).ts = b.ts
    BY Zenon, <1>1, HandshakenFields
  <2>3. \/ new = Handshaken(b) /\ (IsHandshaken(old) => b.ts > old.ts)
        \/ new = old /\ IsHandshaken(old) /\ b.ts <= old.ts
    BY <2>1, <2>2 DEF AddPeer, IsHandshaken
  <2>4. IsHandshaken(new) /\ new.ts >= b.ts /\ (IsHandshaken(old) => new.ts >= old.ts)
    BY <2>2, <2>3
  <2>5. \E d \in done'[n] : d.peer = b.peer /\ new = Handshaken(d)
    BY <2>1, <2>2, <2>3 DEF NewestKeysWin
  <2> HIDE DEF old, new
  <2>6. ASSUME NEW r \in Node, NEW q \in Node, IsHandshaken(known'[r][q])
        PROVE  \E d \in done'[r] : d.peer = q /\ known'[r][q] = Handshaken(d)
    <3>1. CASE r = n /\ q = b.peer
      BY Zenon, <2>5, <3>1 DEF new
    <3>2. CASE ~(r = n /\ q = b.peer)
      BY <2>1, <2>6, <3>2 DEF NewestKeysWin
    <3> QED BY Zenon, <3>1, <3>2
  <2>7. ASSUME faults'.down = 0, NEW r \in Node, NEW d \in done'[r]
        PROVE  IsHandshaken(known'[r][d.peer]) /\ known'[r][d.peer].ts >= d.ts
    <3>1. CASE r = n /\ d = b
      BY Zenon, <2>4, <3>1 DEF new
    <3>2. CASE ~(r = n /\ d = b)
      <4>1. d \in done[r] /\ d.peer \in Node /\ d.ts \in Nat
        <5>1. d \in done[r]
          BY Zenon, <2>1, <2>7, <3>2
        <5>2. d \in Outcome
          BY Zenon, <5>1 DEF TypeOK
        <5> QED BY Zenon, <5>1, <5>2, HandshakenFields
      <4>2. IsHandshaken(known[r][d.peer]) /\ known[r][d.peer].ts >= d.ts
        BY Zenon, <1>4, <2>7, <4>1 DEF NewestKeysWin
      <4>3. CASE r = n /\ d.peer = b.peer
        <5>1. new.ts \in Nat
          BY Zenon, <2>2, <2>3
        <5> QED BY <2>2, <2>4, <4>1, <4>2, <4>3, <5>1 DEF new, old
      <4>4. CASE ~(r = n /\ d.peer = b.peer)
        BY Zenon, <2>1, <4>1, <4>2, <4>4
      <4> QED BY Zenon, <4>3, <4>4
    <3> QED BY Zenon, <3>1, <3>2
  <2> QED BY Zenon, <2>6, <2>7 DEF NewestKeysWin, IsHandshaken, Handshaken
<1>5. ASSUME NEW n \in Node, NEW m \in Node,
             known' = [known EXCEPT ![n][m] = Unknown],
             faults'.down = faults.down + 1,
             UNCHANGED done
      PROVE  NewestKeysWin'
  <2>1. \A r, q \in Node : known'[r][q] = known[r][q] \/ ~IsHandshaken(known'[r][q])
    BY Zenon, <1>5 DEF IsHandshaken, Unknown, TypeOK
  <2>2. faults'.down # 0
    BY <1>1, <1>5
  <2> QED BY <1>5, <2>1, <2>2 DEF NewestKeysWin, IsHandshaken, Handshaken
<1> QED BY Zenon, <1>2, <1>3, <1>4, <1>5, TableStep

\* The peer table holds the keys of the newest handshake.
THEOREM NewestKeysInTable == Spec => []NewestKeysWin
<1>1. Init => NewestKeysWin
  BY DEF Init, NewestKeysWin, IsHandshaken, Unknown
<1> QED BY <1>1, NewestStep, TypeCorrect, PTL DEF Spec

\* Keys in the table are only replaced by newer ones or removed.
THEOREM KeysMoveForward == Spec => KeysOnlyMoveForward
<1> DEFINE Forward == \A n, m \in Node :
             IsHandshaken(known[n][m]) /\ known'[n][m] # known[n][m] =>
               \/ known'[n][m] = Unknown
               \/ IsHandshaken(known'[n][m]) /\ known'[n][m].ts > known[n][m].ts
<1>1. TypeOK /\ [Next]_vars => [Forward]_vars
  <2> SUFFICES ASSUME TypeOK, [Next]_vars, NEW n \in Node, NEW m \in Node,
                      IsHandshaken(known[n][m]), known'[n][m] # known[n][m]
               PROVE  \/ known'[n][m] = Unknown
                      \/ IsHandshaken(known'[n][m]) /\ known'[n][m].ts > known[n][m].ts
    BY Zenon DEF IsHandshaken, Unknown
  <2>1. ASSUME NEW r \in Node, NEW q \in Node,
               known' = [known EXCEPT ![r][q] = AddPeer(@, Gossiped)]
        PROVE  FALSE
    BY Zenon, <2>1 DEF AddPeer, IsHandshaken, Gossiped, TypeOK
  <2>2. ASSUME NEW r \in Node, NEW b \in Outcome,
               known' = [known EXCEPT ![r][b.peer] = AddPeer(@, Handshaken(b))]
        PROVE  IsHandshaken(known'[n][m]) /\ known'[n][m].ts > known[n][m].ts
    <3>1. r = n /\ b.peer = m /\ known'[n][m] = AddPeer(known[n][m], Handshaken(b))
      BY Zenon, <2>2, HandshakenFields DEF TypeOK
    <3>2. known'[n][m] = Handshaken(b) /\ Handshaken(b).ts > known[n][m].ts
      BY Zenon, <3>1 DEF AddPeer, IsHandshaken
    <3> QED BY Zenon, <3>2, HandshakenFields
  <2>3. ASSUME NEW r \in Node, NEW q \in Node, known' = [known EXCEPT ![r][q] = Unknown]
        PROVE  known'[n][m] = Unknown
    BY Zenon, <2>3 DEF TypeOK
  <2> QED BY Zenon, <2>1, <2>2, <2>3, TableStep
<1> QED BY <1>1, TypeCorrect, PTL DEF Spec, KeysOnlyMoveForward

\* If both ends of a handshake have mirrored keys and the newest keys win, two
\* homies with the same completed handshakes have matching keys.
LEMMA InvKeysAgree == HandshakeInv /\ NewestKeysWin => KeysAgree
<1> SUFFICES ASSUME HandshakeInv, NewestKeysWin, NEW n \in Node, NEW m \in Node,
                    faults.down = 0, Between(n, m) # {},
                    {d.id : d \in Between(n, m)} = {d.id : d \in Between(m, n)},
                    \A c, d \in Between(n, m) : c.ts = d.ts => c = d
             PROVE  /\ known[n][m].own = known[m][n].their
                    /\ known[n][m].their = known[m][n].own
  BY Zenon DEF KeysAgree
<1>1. ASSUME NEW q \in Node, NEW r \in Node, NEW c \in Between(q, r), NEW d \in Between(r, q),
             c.id = d.id
      PROVE  Mirror(q, c, r, d)
  <2>1. /\ c \in done[q] /\ c.peer = r /\ c \in Outcome
        /\ d \in done[r] /\ d.peer = q /\ d \in Outcome
    BY Zenon DEF Between, HandshakeInv, TypeOK
  <2>2. CASE c.role = "initiator"
    <3>1. PICK b \in done[r] : b.role = "responder" /\ Mirror(q, c, r, b)
      BY Zenon, <2>1, <2>2 DEF HandshakeInv, MatchingKeys
    <3>2. b = d
      BY Zenon, <1>1, <2>1, <3>1 DEF HandshakeInv, CompletesOnce, Mirror
    <3> QED BY Zenon, <3>1, <3>2
  <2>3. CASE d.role = "initiator"
    <3>1. PICK b \in done[q] : b.role = "responder" /\ Mirror(r, d, q, b)
      BY Zenon, <2>1, <2>3 DEF HandshakeInv, MatchingKeys
    <3>2. b = c
      BY Zenon, <1>1, <2>1, <3>1 DEF HandshakeInv, CompletesOnce, Mirror
    <3> QED BY Zenon, <3>1, <3>2 DEF Mirror
  <2>4. CASE c.role = "responder" /\ d.role = "responder"
    <3>1. Greeted(r, c.id) /\ Greeted(q, c.id) /\ c.id \in Nat
      BY Zenon, <1>1, <2>1, <2>4 DEF Greeted, IsResponder, Outcome
    <3>2. q = r
      BY Zenon, <3>1 DEF HandshakeInv, OneInitiator
    <3> QED BY Zenon, <2>1, <2>4, <3>2 DEF HandshakeInv, NotWithSelf, IsResponder
  <2> QED BY Zenon, <2>1, <2>2, <2>3, <2>4 DEF Outcome, Role
<1>2. ASSUME NEW q \in Node, NEW r \in Node, Between(q, r) # {}
      PROVE  \E c \in Between(q, r) :
               /\ known[q][r] = Handshaken(c)
               /\ \A d \in Between(q, r) : c.ts >= d.ts
  <2>1. PICK b \in done[q] : b.peer = r
    BY Zenon, <1>2 DEF Between
  <2>2. IsHandshaken(known[q][r]) /\ \A d \in Between(q, r) : known[q][r].ts >= d.ts
    BY Zenon, <2>1 DEF NewestKeysWin, Between
  <2>3. PICK c \in done[q] : c.peer = r /\ known[q][r] = Handshaken(c)
    BY Zenon, <2>2 DEF NewestKeysWin
  <2>4. known[q][r].ts = c.ts
    BY <2>3 DEF Handshaken
  <2> QED BY Zenon, <2>2, <2>3, <2>4 DEF Between
<1>3. Between(m, n) # {}
  OBVIOUS
<1>4. PICK c \in Between(n, m) : /\ known[n][m] = Handshaken(c)
                                 /\ \A d \in Between(n, m) : c.ts >= d.ts
  BY Zenon, <1>2
<1>5. PICK d \in Between(m, n) : /\ known[m][n] = Handshaken(d)
                                 /\ \A b \in Between(m, n) : d.ts >= b.ts
  BY Zenon, <1>2, <1>3
<1>6. PICK cc \in Between(m, n) : cc.id = c.id
  BY Zenon, <1>4
<1>7. PICK dd \in Between(n, m) : dd.id = d.id
  BY <1>5
<1>8. Mirror(n, c, m, cc) /\ Mirror(m, d, n, dd)
  BY Zenon, <1>1, <1>6, <1>7
<1>9. c.ts \in Nat /\ d.ts \in Nat
  BY Zenon, HandshakenFields DEF HandshakeInv, TypeOK, Between
<1>10. c.ts = dd.ts
  BY <1>4, <1>5, <1>8, <1>9 DEF Mirror
<1>11. c = dd
  BY Zenon, <1>10
<1> QED BY <1>4, <1>5, <1>8, <1>11 DEF Mirror, Handshaken

-----------------------------------------------------------------------------
(* The steps that go on with a handshake                                   *)

\* Answering an Ohai keeps the invariant: the Hello is used up, so that one
\* responder key is chosen.
LEMMA AcceptOhaiStep ==
  ASSUME HandshakeInv, TypeOK', NEW m \in net, m.type = "Ohai",
         NEW e \in At(hellos[m.dst], m.id, m.src),
         hellos' = [hellos EXCEPT ![m.dst] = @ \ At(@, m.id, m.src)],
         AcceptOhai(m.dst, m, e),
         UNCHANGED <<ohais, fresh>>
  PROVE  HandshakeInv'
<1> DEFINE n == m.dst
           k == GotOhai(e, m)
           p == [type |-> "OkBoss", id |-> e.id, src |-> n, dst |-> m.src,
                 response |-> ComputeResponse(n, e.id, m.pk, m.challenge)]
<1>a. /\ k.id = e.id /\ k.addr = e.addr /\ k.ts = e.ts /\ k.own = e.own /\ k.their = m.pk
      /\ p.type = "OkBoss" /\ p.id = e.id /\ p.src = n
      /\ \A x \in p.response : x.pk = m.pk
  BY DEF GotOhai, ComputeResponse
<1>b. /\ n \in Node /\ m.src \in Node
      /\ e \in hellos[n] /\ e.id = m.id /\ e.addr = m.src /\ e.id \in Nat
  BY Zenon, PacketType DEF HandshakeInv, At
<1>c. /\ \A r \in Node : okboss'[r] = IF r = n THEN (okboss[n] \ At(okboss[n], m.id, m.src)) \cup {k}
                                               ELSE okboss[r]
      /\ \A r \in Node : hellos'[r] = IF r = n THEN hellos[n] \ At(hellos[n], m.id, m.src)
                                               ELSE hellos[r]
      /\ net' \subseteq net \cup {p}
      /\ fresh' = fresh /\ ohais' = ohais /\ done' = done /\ started' = started
  BY Zenon, <1>b DEF AcceptOhai, Handle, HandshakeInv, TypeOK, peerVars
<1> HIDE DEF n, k, p
<1>d. /\ OkBosses' \subseteq OkBosses \cup {p}
      /\ GoTeams' \subseteq GoTeams
      /\ Hellos' \subseteq Hellos
  BY Zenon, <1>a, <1>c DEF OkBosses, GoTeams, Hellos
<1>e. \A f \in hellos'[n] : f.id # e.id
  <2>0. hellos'[n] = hellos[n] \ At(hellos[n], m.id, m.src)
    BY Zenon, <1>b, <1>c
  <2>1. \A f \in hellos'[n] : f \in hellos[n] /\ ~(f.id = m.id /\ f.addr = m.src)
    BY Zenon, <2>0 DEF At
  <2> QED BY <1>b, <2>1 DEF HandshakeInv, OneEntry
<1>1. IdsDrawn'
  BY <1>a, <1>b, <1>c DEF HandshakeInv, IdsDrawn
<1>2. OneEntry'
  BY <1>a, <1>b, <1>c DEF HandshakeInv, OneEntry, HelloComesFirst
<1>3. HelloComesFirst'
  BY <1>a, <1>b, <1>c, <1>d, <1>e
     DEF HandshakeInv, HelloComesFirst, IsInitiator, IsResponder
<1>4. OkBossBeforeDone'
  BY <1>a, <1>b, <1>c DEF HandshakeInv, HelloComesFirst, OkBossBeforeDone, IsInitiator
<1>5. ResponseToChosenKey'
  <2>1. \A l \in OkBosses : l.src = n => l.id # e.id
    BY Zenon, <1>b DEF HandshakeInv, HelloComesFirst
  <2>2. \A f \in okboss[n] : f.id # e.id
    BY Zenon, <1>b DEF HandshakeInv, HelloComesFirst
  <2>3. \A r \in Node : \A d \in done[r] : IsResponder(d) /\ d.peer = n => d.id # e.id
    BY Zenon, <1>b DEF HandshakeInv, HelloComesFirst
  <2>4. \A l \in OkBosses : l.src \in Node
    BY Zenon, PacketType DEF HandshakeInv, OkBosses
  <2> QED BY <1>a, <1>b, <1>c, <1>d, <2>1, <2>2, <2>3, <2>4
             DEF HandshakeInv, ResponseToChosenKey, IsResponder
<1>6. HelloUnchanged'
  <2>1. \A l \in Hellos : l.src \in Node
    BY Zenon, PacketType DEF HandshakeInv, Hellos
  <2> QED BY <1>a, <1>b, <1>c, <1>d, <2>1 DEF HandshakeInv, HelloUnchanged
<1>7. OhaiToHello'
  BY <1>a, <1>b, <1>c DEF HandshakeInv, OhaiToHello
<1>8. OkBossMirrors'
  BY <1>a, <1>b, <1>c DEF HandshakeInv, HelloComesFirst, OkBossMirrors, IsResponder
<1>9. GoTeamAfterUp' /\ NewChallenge'
  <2>1. GoTeamAfterUp'
    BY Zenon, <1>c, <1>d DEF HandshakeInv, GoTeamAfterUp, IsResponder
  <2>2. ohais' = ohais /\ done' = done
    BY Zenon, <1>c
  <2>3. NewChallenge'
    BY <2>2 DEF HandshakeInv, NewChallenge, IsResponder
  <2> QED BY Zenon, <2>1, <2>3
<1>10. OneInitiator'
  <2>1. ASSUME NEW r \in Node, NEW i \in Nat, Initiated(r, i)' PROVE Initiated(r, i)
    BY <1>a, <1>b, <1>c, <2>1 DEF Initiated, IsInitiator
  <2>2. ASSUME NEW r \in Node, NEW i \in Nat, Greeted(r, i)' PROVE Greeted(r, i)
    BY Zenon, <1>c, <1>d, <2>2 DEF Greeted, IsResponder
  <2> QED BY Zenon, <2>1, <2>2 DEF HandshakeInv, OneInitiator
<1>12. OneResponder'
  <2>1. ASSUME NEW r \in Node, NEW i \in Nat, Addressed(r, i)' PROVE Addressed(r, i)
    BY Zenon, <1>c, <1>d, <2>1 DEF Addressed, IsResponder
  <2> QED BY Zenon, <2>1 DEF HandshakeInv, OneResponder
<1>11. NotWithSelf' /\ StartedIsDone' /\ MatchingKeys' /\ CompletesOnce'
  BY <1>c DEF HandshakeInv, NotWithSelf, StartedIsDone, MatchingKeys, CompletesOnce, Mirror,
              IsInitiator, IsResponder
<1> QED BY Zenon, <1>1, <1>2, <1>3, <1>4, <1>5, <1>6, <1>7, <1>8, <1>9, <1>10, <1>11, <1>12
           DEF HandshakeInv

\* Answering a Hello keeps the invariant: the challenge is new.
LEMMA AcceptHelloStep ==
  ASSUME HandshakeInv, TypeOK', NEW m \in net, m.type = "Hello", NEW inWindow \in BOOLEAN,
         AcceptHello(m.dst, m, inWindow)
  PROVE  HandshakeInv'
<1> DEFINE n == m.dst
           o == [id |-> m.id, addr |-> m.src, ts |-> m.ts, own |-> fresh,
                 their |-> m.pk, timer |-> TRUE]
           p == [type |-> "Ohai", id |-> m.id, src |-> n, dst |-> m.src, pk |-> fresh,
                 hmacs |-> ComputeHmacs(n, m.ts), challenge |-> fresh]
<1>a. /\ o.id = m.id /\ o.addr = m.src /\ o.ts = m.ts /\ o.own = fresh /\ o.their = m.pk
      /\ p.type = "Ohai" /\ p.id = m.id
  BY Zenon
<1>b. /\ n \in Node /\ m.src \in Node /\ m.id \in Nat
      /\ m \in Hellos
  BY Zenon, PacketType DEF HandshakeInv, Hellos
<1>c. /\ \A r \in Node : ohais'[r] = IF r = n THEN (ohais[n] \ At(ohais[n], m.id, m.src)) \cup {o}
                                              ELSE ohais[r]
      /\ net' \subseteq net \cup {p}
      /\ fresh \in Nat
      /\ fresh <= MaxFresh
      /\ fresh' = fresh + 1
      /\ m.src # n
      /\ okboss' = okboss /\ hellos' = hellos /\ done' = done /\ started' = started
  BY Zenon, <1>b DEF AcceptHello, Handle, HandshakeInv, TypeOK, peerVars
<1>d. /\ \A l \in net : l.id \in Nat
      /\ \A r \in Node :
           /\ \A e \in hellos[r] : e.id \in Nat
           /\ \A e \in ohais[r] : e.id \in Nat /\ e.own \in Nat
           /\ \A e \in okboss[r] : e.id \in Nat
           /\ \A d \in done[r] : d.id \in Nat /\ d.own \in Nat
  BY PacketType DEF HandshakeInv, TypeOK, Hello, Ohai, OkBoss, Outcome
<1> HIDE DEF n, o, p
<1>e. /\ OkBosses' \subseteq OkBosses
      /\ GoTeams' \subseteq GoTeams
      /\ Hellos' \subseteq Hellos
  BY Zenon, <1>a, <1>c DEF OkBosses, GoTeams, Hellos
<1>1. IdsDrawn'
  <2>1. fresh' <= MaxFresh + 1
    BY <1>c, HandshakeAssumption
  <2> QED BY <1>a, <1>b, <1>c, <1>d, <2>1 DEF HandshakeInv, IdsDrawn, Hellos
<1>2. OneEntry'
  <2>0. ohais'[n] = (ohais[n] \ At(ohais[n], m.id, m.src)) \cup {o}
    BY Zenon, <1>b, <1>c
  <2>1. \A f \in ohais'[n] : f = o \/ (f \in ohais[n] /\ ~(f.id = m.id /\ f.addr = m.src))
    BY Zenon, <2>0 DEF At
  <2> QED BY <1>a, <1>c, <2>1 DEF HandshakeInv, OneEntry
<1>3. HelloComesFirst' /\ OkBossBeforeDone'
  BY <1>c, <1>e DEF HandshakeInv, HelloComesFirst, OkBossBeforeDone, IsInitiator, IsResponder
<1>4. ResponseToChosenKey'
  BY Zenon, <1>c, <1>e DEF HandshakeInv, ResponseToChosenKey, IsResponder
<1>5. HelloUnchanged'
  BY Zenon, <1>c, <1>e DEF HandshakeInv, HelloUnchanged
<1>6. OhaiToHello'
  BY <1>a, <1>b, <1>c DEF HandshakeInv, HelloUnchanged, OhaiToHello
<1>7. OkBossMirrors' /\ GoTeamAfterUp'
  BY Zenon, <1>c, <1>e DEF HandshakeInv, OkBossMirrors, GoTeamAfterUp, IsResponder
<1>8. NewChallenge'
  BY <1>a, <1>c, <1>d DEF HandshakeInv, IdsDrawn, NewChallenge, IsResponder
<1>9. OneInitiator'
  <2>1. ASSUME NEW r \in Node, NEW i \in Nat, Initiated(r, i)' PROVE Initiated(r, i)
    BY Zenon, <1>c, <2>1 DEF Initiated, IsInitiator
  <2>2. ASSUME NEW r \in Node, NEW i \in Nat, Greeted(r, i)' PROVE Greeted(r, i)
    BY <1>a, <1>b, <1>c, <1>e, <2>2 DEF Greeted, IsResponder
  <2> QED BY Zenon, <2>1, <2>2 DEF HandshakeInv, OneInitiator
<1>11. OneResponder'
  <2>1. ASSUME NEW r \in Node, NEW i \in Nat, Addressed(r, i)' PROVE Addressed(r, i)
    BY <1>a, <1>b, <1>c, <1>e, <2>1 DEF Addressed, IsResponder, n
  <2> QED BY Zenon, <2>1 DEF HandshakeInv, OneResponder
<1>10. NotWithSelf' /\ StartedIsDone' /\ MatchingKeys' /\ CompletesOnce'
  BY <1>c DEF HandshakeInv, NotWithSelf, StartedIsDone, MatchingKeys, CompletesOnce, Mirror,
              IsInitiator, IsResponder
<1> QED BY Zenon, <1>1, <1>2, <1>3, <1>4, <1>5, <1>6, <1>7, <1>8, <1>9, <1>10, <1>11
           DEF HandshakeInv

-----------------------------------------------------------------------------
(* Steps that only forget                                                  *)

\* Two entries for one handshake, apart from their timers.
SameEntry(e, f) == e.id = f.id /\ e.addr = f.addr /\ e.ts = f.ts /\ e.own = f.own

\* Packets and entries may disappear and timers may fire.
Forget ==
  /\ net' \subseteq net
  /\ \A n \in Node :
       /\ \A e \in hellos'[n] : \E f \in hellos[n] : SameEntry(e, f)
       /\ \A e \in ohais'[n] : \E f \in ohais[n] : SameEntry(e, f) /\ e.their = f.their
       /\ okboss'[n] \subseteq okboss[n]
  /\ UNCHANGED <<done, started, fresh>>

\* A step that only takes away packets and entries keeps the invariant.
LEMMA ForgetStep ==
  ASSUME HandshakeInv, TypeOK', Forget
  PROVE  HandshakeInv'
<1> USE DEF Forget, SameEntry
<1>1. IdsDrawn'
  BY DEF HandshakeInv, IdsDrawn
<1>2. OneEntry'
  BY DEF HandshakeInv, OneEntry
<1>3. HelloComesFirst'
  BY DEF HandshakeInv, HelloComesFirst, OkBosses, IsInitiator, IsResponder
<1>4. OkBossBeforeDone'
  BY Zenon DEF HandshakeInv, OkBossBeforeDone, IsInitiator
<1>5. ResponseToChosenKey'
  BY PacketType DEF HandshakeInv, ResponseToChosenKey, OkBosses, IsResponder
<1>6. HelloUnchanged'
  BY PacketType DEF HandshakeInv, HelloUnchanged, Hellos
<1>12. OhaiToHello'
  BY DEF HandshakeInv, OhaiToHello
<1>7. OkBossMirrors'
  BY Zenon DEF HandshakeInv, OkBossMirrors, IsResponder
<1>8. GoTeamAfterUp'
  BY Zenon DEF HandshakeInv, GoTeamAfterUp, GoTeams, IsResponder
<1>9. NewChallenge'
  BY DEF HandshakeInv, NewChallenge, IsResponder
<1>10. OneInitiator'
  <2>1. ASSUME NEW n \in Node, NEW i \in Nat, Initiated(n, i)' PROVE Initiated(n, i)
    BY <2>1 DEF Initiated, IsInitiator
  <2>2. ASSUME NEW n \in Node, NEW i \in Nat, Greeted(n, i)' PROVE Greeted(n, i)
    BY <2>2 DEF Greeted, Hellos, IsResponder
  <2> QED BY Zenon, <2>1, <2>2 DEF HandshakeInv, OneInitiator
<1>13. OneResponder'
  <2>1. ASSUME NEW r \in Node, NEW i \in Nat, Addressed(r, i)' PROVE Addressed(r, i)
    BY <2>1 DEF Addressed, Hellos, IsResponder
  <2> QED BY Zenon, <2>1 DEF HandshakeInv, OneResponder
<1>11. NotWithSelf' /\ StartedIsDone' /\ MatchingKeys' /\ CompletesOnce'
  <2>1. NotWithSelf' /\ StartedIsDone'
    BY Zenon DEF HandshakeInv, NotWithSelf, StartedIsDone, IsInitiator, IsResponder
  <2>2. MatchingKeys'
    BY DEF HandshakeInv, MatchingKeys, Mirror
  <2>3. CompletesOnce'
    BY Zenon DEF HandshakeInv, CompletesOnce
  <2> QED BY Zenon, <2>1, <2>2, <2>3
<1> QED BY Zenon, <1>1, <1>2, <1>3, <1>4, <1>5, <1>6, <1>7, <1>8, <1>9, <1>10, <1>11, <1>12, <1>13
     DEF HandshakeInv
=============================================================================
