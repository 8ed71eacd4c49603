-------------------------- MODULE HandshakeProofs ---------------------------
(***************************************************************************)
(* Theorems about the handshake, for any set of nodes, any keys, any       *)
(* bootstrap lists and any number of faults.                               *)
(***************************************************************************)
EXTENDS HandshakeTypes, HandshakeExchange

-----------------------------------------------------------------------------
(* The steps that start a handshake and end it                             *)

\* Starting a handshake keeps the invariant: its id is new.
LEMMA SendHelloStep ==
  ASSUME HandshakeInv, TypeOK', NEW n \in Node, NEW addr \in Node, NEW andThen \in BOOLEAN,
         SendHello(n, addr, andThen), UNCHANGED <<ohais, okboss, done, started>>
  PROVE  HandshakeInv'
<1> PICK ts \in Timestamp :
      /\ fresh <= MaxFresh
      /\ hellos' = [hellos EXCEPT ![n] = @ \cup
                      {[id |-> fresh, addr |-> addr, ts |-> ts,
                        own |-> fresh, andThen |-> andThen, timer |-> TRUE]}]
      /\ net' = net \cup {[type |-> "Hello", id |-> fresh, src |-> n, dst |-> addr,
                           pk |-> fresh, hmacs |-> ComputeHmacs(n, ts), ts |-> ts]}
      /\ fresh' = fresh + 1
  BY Zenon DEF SendHello
<1> DEFINE h == [id |-> fresh, addr |-> addr, ts |-> ts,
                 own |-> fresh, andThen |-> andThen, timer |-> TRUE]
           p == [type |-> "Hello", id |-> fresh, src |-> n, dst |-> addr,
                 pk |-> fresh, hmacs |-> ComputeHmacs(n, ts), ts |-> ts]
<1>a. /\ h.id = fresh /\ h.addr = addr /\ h.ts = ts /\ h.own = fresh
      /\ p.type = "Hello" /\ p.id = fresh /\ p.src = n /\ p.dst = addr /\ p.pk = fresh /\ p.ts = ts
  BY Zenon
<1>b. /\ \A r \in Node : hellos'[r] = IF r = n THEN hellos[n] \cup {h} ELSE hellos[r]
      /\ net' = net \cup {p}
      /\ fresh \in Nat
      /\ fresh' = fresh + 1
      /\ okboss' = okboss /\ ohais' = ohais /\ done' = done /\ started' = started
  BY Zenon DEF HandshakeInv, TypeOK
<1>c. /\ \A m \in net : m.id \in Nat /\ m.src \in Node
      /\ \A r \in Node :
           /\ \A e \in hellos[r] : e.id \in Nat
           /\ \A e \in ohais[r] : e.id \in Nat /\ e.own \in Nat
           /\ \A e \in okboss[r] : e.id \in Nat
           /\ \A d \in done[r] : d.id \in Nat /\ d.own \in Nat
  BY PacketType DEF HandshakeInv, TypeOK, Hello, Ohai, OkBoss, Outcome
<1> HIDE DEF h, p
<1>d. /\ OkBosses' = OkBosses
      /\ GoTeams' = GoTeams
      /\ Hellos' = Hellos \cup {p}
  BY Zenon, <1>a, <1>b DEF OkBosses, GoTeams, Hellos
<1>1. IdsDrawn'
  <2>1. fresh' <= MaxFresh + 1
    BY <1>b, HandshakeAssumption
  <2> QED BY <1>a, <1>b, <1>c, <2>1 DEF HandshakeInv, IdsDrawn
<1>2. OneEntry'
  BY <1>a, <1>b DEF HandshakeInv, IdsDrawn, OneEntry
<1>3. HelloComesFirst'
  BY <1>a, <1>b, <1>d DEF HandshakeInv, IdsDrawn, HelloComesFirst, OkBosses, IsInitiator, IsResponder
<1>4. OkBossBeforeDone'
  BY Zenon, <1>b DEF HandshakeInv, OkBossBeforeDone, IsInitiator
<1>5. ResponseToChosenKey'
  BY Zenon, <1>b, <1>d DEF HandshakeInv, ResponseToChosenKey, IsResponder
<1>6. HelloUnchanged'
  BY <1>a, <1>b, <1>c, <1>d DEF HandshakeInv, IdsDrawn, HelloUnchanged, Hellos
<1>7. OhaiToHello'
  BY <1>a, <1>b DEF HandshakeInv, IdsDrawn, OhaiToHello
<1>8. OkBossMirrors' /\ GoTeamAfterUp' /\ NewChallenge'
  BY <1>b, <1>d DEF HandshakeInv, OkBossMirrors, GoTeamAfterUp, NewChallenge, IsResponder
<1>9. OneInitiator'
  <2>1. ASSUME NEW r \in Node, NEW i \in Nat, Initiated(r, i)'
        PROVE  Initiated(r, i) \/ (r = n /\ i = fresh)
    BY <1>a, <1>b, <2>1 DEF Initiated, IsInitiator
  <2>2. ASSUME NEW r \in Node, NEW i \in Nat, Greeted(r, i)'
        PROVE  Greeted(r, i) \/ (r = n /\ i = fresh)
    BY Zenon, <1>a, <1>b, <1>d, <2>2 DEF Greeted, IsResponder
  <2>3. ASSUME NEW r \in Node PROVE ~Initiated(r, fresh) /\ ~Greeted(r, fresh)
    BY <1>b DEF Initiated, Greeted, HandshakeInv, IdsDrawn, Hellos
  <2> QED BY <2>1, <2>2, <2>3 DEF HandshakeInv, OneInitiator
<1>11. OneResponder'
  <2>1. ASSUME NEW r \in Node, NEW i \in Nat, Addressed(r, i)'
        PROVE  Addressed(r, i) \/ (r = addr /\ i = fresh)
    BY Zenon, <1>a, <1>b, <1>d, <2>1 DEF Addressed, IsResponder
  <2>2. ASSUME NEW r \in Node PROVE ~Addressed(r, fresh)
    BY <1>b DEF Addressed, HandshakeInv, IdsDrawn, Hellos
  <2> QED BY Zenon, <2>1, <2>2 DEF HandshakeInv, OneResponder
<1>10. NotWithSelf' /\ StartedIsDone' /\ MatchingKeys' /\ CompletesOnce'
  BY <1>b DEF HandshakeInv, NotWithSelf, StartedIsDone, MatchingKeys, CompletesOnce, Mirror,
              IsInitiator, IsResponder
<1> QED BY Zenon, <1>1, <1>2, <1>3, <1>4, <1>5, <1>6, <1>7, <1>8, <1>9, <1>10, <1>11
           DEF HandshakeInv

\* Ending a handshake at the initiator keeps the invariant: the responder has
\* ended it with the mirrored keys.
LEMMA GoTeamUpStep ==
  ASSUME HandshakeInv, TypeOK', NEW m \in net, m.type = "GoTeam",
         NEW e \in At(okboss[m.dst], m.id, m.src),
         okboss' = [okboss EXCEPT ![m.dst] = @ \ At(@, m.id, m.src)],
         SendPeerUp(m.dst, e, "initiator"),
         started' = [started EXCEPT ![m.dst] = @ \cup {x \in {e.id} : e.andThen}],
         Handle(m, {}),
         UNCHANGED <<hellos, ohais, fresh>>
  PROVE  HandshakeInv'
<1> DEFINE n == m.dst
           d == [id |-> e.id, peer |-> e.addr, own |-> e.own, their |-> e.their,
                 ts |-> e.ts, role |-> "initiator"]
<1>a. /\ d.id = e.id /\ d.peer = e.addr /\ d.own = e.own /\ d.their = e.their /\ d.ts = e.ts
      /\ d.role = "initiator"
  BY Zenon
<1>b. /\ n \in Node /\ m.src \in Node
      /\ e \in okboss[n] /\ e.id = m.id /\ e.addr = m.src
      /\ m \in GoTeams
  BY Zenon, PacketType DEF HandshakeInv, At, GoTeams
<1>c. /\ \A r \in Node : okboss'[r] = IF r = n THEN okboss[n] \ At(okboss[n], m.id, m.src) ELSE okboss[r]
      /\ \A r \in Node : done'[r] = IF r = n THEN done[n] \cup {d} ELSE done[r]
      /\ \A r \in Node : started'[r] \subseteq IF r = n THEN started[n] \cup {e.id} ELSE started[r]
      /\ net' \subseteq net
      /\ fresh' = fresh /\ hellos' = hellos /\ ohais' = ohais
  BY <1>b DEF SendPeerUp, Handle, HandshakeInv, TypeOK
<1>d. e.id \in Nat /\ e.own \in Nat /\ e.own = e.id
  BY <1>b DEF HandshakeInv, TypeOK, OkBoss, HelloUnchanged
<1> HIDE DEF n, d
<1>e. /\ OkBosses' \subseteq OkBosses
      /\ GoTeams' \subseteq GoTeams
      /\ Hellos' \subseteq Hellos
  BY Zenon, <1>c DEF OkBosses, GoTeams, Hellos
<1>f. \A k \in okboss'[n] : k.id # e.id
  <2>1. okboss'[n] = okboss[n] \ At(okboss[n], m.id, m.src)
    BY Zenon, <1>b, <1>c
  <2>2. \A k \in okboss'[n] : k \in okboss[n] /\ ~(k.id = m.id /\ k.addr = m.src)
    BY Zenon, <2>1 DEF At
  <2> QED BY Zenon, <1>b, <2>2 DEF HandshakeInv, OneEntry
<1>g. \A r \in Node : okboss'[r] \subseteq okboss[r]
  BY <1>c
<1>1. IdsDrawn'
  BY <1>a, <1>b, <1>c, <1>d, <1>g DEF HandshakeInv, IdsDrawn
<1>2. OneEntry'
  BY <1>c, <1>g DEF HandshakeInv, OneEntry
<1>3. HelloComesFirst'
  BY <1>a, <1>b, <1>c, <1>e, <1>g DEF HandshakeInv, HelloComesFirst, IsInitiator, IsResponder
<1>4. OkBossBeforeDone'
  BY <1>a, <1>c, <1>f, <1>g DEF HandshakeInv, OkBossBeforeDone, IsInitiator
<1>5. ResponseToChosenKey'
  <2>1. \A l \in OkBosses : l.src \in Node
    BY Zenon, PacketType DEF HandshakeInv, OkBosses
  <2> QED BY <1>a, <1>c, <1>e, <1>g, <2>1 DEF HandshakeInv, ResponseToChosenKey, IsResponder
<1>6. HelloUnchanged' /\ OhaiToHello'
  <2>1. \A l \in Hellos : l.src \in Node
    BY Zenon, PacketType DEF HandshakeInv, Hellos
  <2> QED BY <1>c, <1>e, <1>g, <2>1 DEF HandshakeInv, HelloUnchanged, OhaiToHello
<1>7. OkBossMirrors'
  <2>1. \A q \in Node : \A f \in okboss[q] : f.addr \in Node
    BY DEF HandshakeInv, TypeOK, OkBoss
  <2> QED BY <1>a, <1>c, <1>g, <2>1 DEF HandshakeInv, OkBossMirrors, IsResponder
<1>8. GoTeamAfterUp' /\ NewChallenge'
  <2>1. \A l \in GoTeams : l.src \in Node
    BY Zenon, PacketType DEF HandshakeInv, GoTeams
  <2> QED BY <1>a, <1>c, <1>e, <2>1 DEF HandshakeInv, GoTeamAfterUp, NewChallenge, IsResponder
<1>9. OneInitiator'
  <2>1. ASSUME NEW r \in Node, NEW i \in Nat, Initiated(r, i)' PROVE Initiated(r, i)
    BY <1>a, <1>b, <1>c, <1>g, <2>1 DEF Initiated, IsInitiator
  <2>2. ASSUME NEW r \in Node, NEW i \in Nat, Greeted(r, i)' PROVE Greeted(r, i)
    BY <1>a, <1>c, <1>e, <2>2 DEF Greeted, IsResponder
  <2> QED BY Zenon, <2>1, <2>2 DEF HandshakeInv, OneInitiator
<1>13. OneResponder'
  <2>1. ASSUME NEW r \in Node, NEW i \in Nat, Addressed(r, i)' PROVE Addressed(r, i)
    BY <1>a, <1>c, <1>e, <2>1 DEF Addressed, IsResponder
  <2> QED BY Zenon, <2>1 DEF HandshakeInv, OneResponder
<1>10. NotWithSelf' /\ StartedIsDone'
  BY <1>a, <1>b, <1>c DEF HandshakeInv, NotWithSelf, StartedIsDone, IsInitiator, IsResponder
<1>11. MatchingKeys'
  <2>1. \A r \in Node : \A c \in done[r] : c.peer \in Node
    BY DEF HandshakeInv, TypeOK, Outcome
  <2>2. \E c \in done[m.src] : IsResponder(c) /\ Mirror(n, d, m.src, c)
    <3>1. PICK c \in done[m.src] : IsResponder(c) /\ c.id = m.id /\ c.peer = n
      BY Zenon, <1>b DEF HandshakeInv, GoTeamAfterUp, n
    <3>2. c.own = e.their /\ c.their = e.own /\ c.ts = e.ts
      BY <1>b, <3>1 DEF HandshakeInv, OkBossMirrors
    <3> QED BY Zenon, <1>a, <1>b, <3>1, <3>2 DEF Mirror
  <2> QED BY <1>a, <1>b, <1>c, <2>1, <2>2 DEF HandshakeInv, MatchingKeys, Mirror, IsResponder
<1>12. CompletesOnce'
  <2>1. ASSUME NEW c \in done[n], c.id = d.id, c.peer = d.peer PROVE FALSE
    <3>1. c.role \in Role /\ c.peer \in Node
      BY <1>b DEF HandshakeInv, TypeOK, Outcome
    <3>2. CASE IsInitiator(c)
      BY Zenon, <1>a, <1>b, <2>1, <3>2 DEF HandshakeInv, OkBossBeforeDone
    <3>3. CASE IsResponder(c)
      <4>1. Initiated(n, e.id) /\ Greeted(c.peer, e.id)
        BY Zenon, <1>a, <1>b, <2>1, <3>3 DEF Initiated, Greeted
      <4>2. c.peer = n
        BY Zenon, <1>b, <1>d, <3>1, <4>1 DEF HandshakeInv, OneInitiator
      <4> QED BY Zenon, <1>b, <3>3, <4>2 DEF HandshakeInv, NotWithSelf
    <3> QED BY Zenon, <3>1, <3>2, <3>3 DEF Role, IsInitiator, IsResponder
  <2> QED BY <1>c, <2>1 DEF HandshakeInv, CompletesOnce
<1> QED BY Zenon, <1>1, <1>2, <1>3, <1>4, <1>5, <1>6, <1>7, <1>8, <1>9, <1>10, <1>11, <1>12, <1>13
           DEF HandshakeInv

\* Ending a handshake at the responder keeps the invariant: the response is to
\* the challenge of the entry that is used up.
LEMMA OkBossUpStep ==
  ASSUME HandshakeInv, TypeOK', NEW m \in net, m.type = "OkBoss",
         NEW e \in At(ohais[m.dst], m.id, m.src),
         GotOkBoss(m.dst, e, m.response),
         ohais' = [ohais EXCEPT ![m.dst] = @ \ At(@, m.id, m.src)],
         SendPeerUp(m.dst, e, "responder"),
         Handle(m, {[type |-> "GoTeam", id |-> e.id, src |-> m.dst, dst |-> m.src]}),
         UNCHANGED <<hellos, okboss, started, fresh>>
  PROVE  HandshakeInv'
<1> DEFINE n == m.dst
           d == [id |-> e.id, peer |-> e.addr, own |-> e.own, their |-> e.their,
                 ts |-> e.ts, role |-> "responder"]
           p == [type |-> "GoTeam", id |-> e.id, src |-> n, dst |-> m.src]
<1>a. /\ d.id = e.id /\ d.peer = e.addr /\ d.own = e.own /\ d.their = e.their /\ d.ts = e.ts
      /\ d.role = "responder"
      /\ p.type = "GoTeam" /\ p.id = e.id /\ p.src = n /\ p.dst = m.src
  BY Zenon
<1>b. /\ n \in Node /\ m.src \in Node
      /\ e \in ohais[n] /\ e.id = m.id /\ e.addr = m.src /\ e.id \in Nat
      /\ m \in OkBosses
      /\ e.addr # n /\ e.their = e.id
  BY Zenon, PacketType DEF HandshakeInv, At, OkBosses, OhaiToHello
<1>c. /\ \A r \in Node : ohais'[r] = IF r = n THEN ohais[n] \ At(ohais[n], m.id, m.src) ELSE ohais[r]
      /\ \A r \in Node : done'[r] = IF r = n THEN done[n] \cup {d} ELSE done[r]
      /\ net' \subseteq net \cup {p}
      /\ fresh' = fresh /\ hellos' = hellos /\ okboss' = okboss /\ started' = started
  BY <1>b DEF SendPeerUp, Handle, HandshakeInv, TypeOK
<1>d. PICK x \in m.response : x.pk = e.own
  BY DEF GotOkBoss, ComputeResponse
<1> HIDE DEF n, d, p
<1>e. /\ OkBosses' \subseteq OkBosses
      /\ GoTeams' \subseteq GoTeams \cup {p}
      /\ Hellos' \subseteq Hellos
  BY Zenon, <1>a, <1>c DEF OkBosses, GoTeams, Hellos
<1>f. \A l \in OkBosses : l.src = m.src /\ l.id = m.id => \A y \in l.response : y.pk = e.own
  BY Zenon, <1>b, <1>d DEF HandshakeInv, ResponseToChosenKey
<1>g. \A o \in ohais'[n] : o \in ohais[n] /\ ~(o.id = m.id /\ o.addr = m.src)
  <2>1. ohais'[n] = ohais[n] \ At(ohais[n], m.id, m.src)
    BY Zenon, <1>b, <1>c
  <2> QED BY Zenon, <2>1 DEF At
<1>h. \A r \in Node : ohais'[r] \subseteq ohais[r]
  BY <1>c
<1>1. IdsDrawn'
  BY <1>a, <1>b, <1>c, <1>h DEF HandshakeInv, IdsDrawn
<1>2. OneEntry'
  BY <1>c, <1>h DEF HandshakeInv, OneEntry
<1>3. HelloComesFirst' /\ OkBossBeforeDone'
  BY <1>a, <1>b, <1>c, <1>e
     DEF HandshakeInv, HelloComesFirst, OkBossBeforeDone, IsInitiator, IsResponder
<1>4. ResponseToChosenKey'
  BY <1>a, <1>b, <1>c, <1>e, <1>f DEF HandshakeInv, ResponseToChosenKey, IsResponder
<1>5. HelloUnchanged' /\ OhaiToHello'
  BY <1>c, <1>e, <1>h DEF HandshakeInv, HelloUnchanged, OhaiToHello
<1>6. OkBossMirrors'
  <2>1. ASSUME NEW q \in Node, NEW f \in okboss[q], f.id = e.id, q = m.src
        PROVE  e.own = f.their /\ e.their = f.own /\ e.ts = f.ts
    <3>1. x.pk = f.their
      BY Zenon, <1>b, <2>1 DEF HandshakeInv, ResponseToChosenKey
    <3>2. f.own = f.id
      BY Zenon, <2>1 DEF HandshakeInv, HelloUnchanged
    <3>3. f.ts = e.ts
      BY Zenon, <1>b, <2>1 DEF HandshakeInv, OhaiToHello
    <3> QED BY Zenon, <1>b, <1>d, <2>1, <3>1, <3>2, <3>3
  <2>2. \A q \in Node : \A f \in okboss[q] : f.addr \in Node
    BY DEF HandshakeInv, TypeOK, OkBoss
  <2> QED BY <1>a, <1>b, <1>c, <2>1, <2>2 DEF HandshakeInv, OkBossMirrors, IsResponder
<1>7. GoTeamAfterUp'
  <2>1. \A l \in GoTeams : l.src \in Node
    BY Zenon, PacketType DEF HandshakeInv, GoTeams
  <2> QED BY <1>a, <1>b, <1>c, <1>e, <2>1 DEF HandshakeInv, GoTeamAfterUp, IsResponder
<1>8. NewChallenge'
  BY <1>a, <1>b, <1>c, <1>g, <1>h DEF HandshakeInv, NewChallenge, IsResponder
<1>9. OneInitiator'
  <2>1. ASSUME NEW r \in Node, NEW i \in Nat, Initiated(r, i)' PROVE Initiated(r, i)
    BY Zenon, <1>a, <1>c, <2>1 DEF Initiated, IsInitiator
  <2>2. ASSUME NEW r \in Node, NEW i \in Nat, Greeted(r, i)' PROVE Greeted(r, i)
    BY <1>a, <1>b, <1>c, <1>e, <1>h, <2>2 DEF Greeted, IsResponder
  <2> QED BY Zenon, <2>1, <2>2 DEF HandshakeInv, OneInitiator
<1>13. OneResponder'
  <2>1. ASSUME NEW r \in Node, NEW i \in Nat, Addressed(r, i)' PROVE Addressed(r, i)
    BY <1>a, <1>b, <1>c, <1>e, <1>h, <2>1 DEF Addressed, IsResponder
  <2> QED BY Zenon, <2>1 DEF HandshakeInv, OneResponder
<1>10. NotWithSelf' /\ StartedIsDone'
  BY <1>a, <1>b, <1>c DEF HandshakeInv, NotWithSelf, StartedIsDone, IsInitiator, IsResponder
<1>11. MatchingKeys'
  <2>1. \A r \in Node : \A c \in done[r] : c.peer \in Node
    BY DEF HandshakeInv, TypeOK, Outcome
  <2> QED BY <1>a, <1>c, <2>1 DEF HandshakeInv, MatchingKeys, Mirror
<1>12. CompletesOnce'
  <2>1. ASSUME NEW c \in done[n], c.id = d.id, c.peer = d.peer PROVE FALSE
    <3>1. c.role \in Role
      BY <1>b DEF HandshakeInv, TypeOK, Outcome
    <3>2. CASE IsResponder(c)
      BY <1>a, <1>b, <1>d, <2>1, <3>2 DEF HandshakeInv, ResponseToChosenKey, NewChallenge
    <3>3. CASE IsInitiator(c)
      <4>1. Initiated(n, e.id) /\ Greeted(m.src, e.id)
        BY Zenon, <1>a, <1>b, <2>1, <3>3 DEF Initiated, Greeted
      <4> QED BY Zenon, <1>b, <4>1 DEF HandshakeInv, OneInitiator
    <3> QED BY Zenon, <3>1, <3>2, <3>3 DEF Role, IsInitiator, IsResponder
  <2> QED BY <1>c, <2>1 DEF HandshakeInv, CompletesOnce
<1> QED BY Zenon, <1>1, <1>2, <1>3, <1>4, <1>5, <1>6, <1>7, <1>8, <1>9, <1>10, <1>11, <1>12, <1>13
           DEF HandshakeInv

-----------------------------------------------------------------------------
(* The theorems                                                            *)

\* The invariant holds at the start.
LEMMA HandshakeInit == Init => HandshakeInv
<1> SUFFICES ASSUME Init PROVE HandshakeInv
  BY Zenon
<1>1. TypeOK
  BY Zenon, TypeInit
<1>5. IdsDrawn
  BY HandshakeAssumption DEF Init, IdsDrawn
<1>2. OneEntry /\ HelloComesFirst /\ OkBossBeforeDone /\ ResponseToChosenKey
  BY Zenon DEF Init, OneEntry, HelloComesFirst, OkBossBeforeDone, ResponseToChosenKey,
         OkBosses
<1>3. HelloUnchanged /\ OhaiToHello /\ OkBossMirrors /\ GoTeamAfterUp /\ NewChallenge
  BY Zenon DEF Init, HelloUnchanged, OhaiToHello, OkBossMirrors, GoTeamAfterUp, NewChallenge,
         Hellos, GoTeams
<1>4. OneInitiator /\ OneResponder /\ NotWithSelf /\ StartedIsDone /\ MatchingKeys /\ CompletesOnce
  <2>1. OneInitiator
    BY DEF Init, OneInitiator, Initiated, Greeted, Hellos
  <2>2. NotWithSelf /\ StartedIsDone
    BY Zenon DEF Init, NotWithSelf, StartedIsDone
  <2>3. MatchingKeys /\ CompletesOnce
    BY Zenon DEF Init, MatchingKeys, CompletesOnce
  <2>4. OneResponder
    BY Zenon DEF Init, OneResponder, Addressed, Hellos
  <2> QED BY Zenon, <2>1, <2>2, <2>3, <2>4
<1> QED BY Zenon, <1>1, <1>2, <1>3, <1>4, <1>5 DEF HandshakeInv

\* Every step keeps the invariant.
LEMMA HandshakeStep == HandshakeInv /\ [Next]_vars => HandshakeInv'
<1> SUFFICES ASSUME HandshakeInv, [Next]_vars PROVE HandshakeInv'
  BY Zenon
<1>t. TypeOK'
  BY Zenon, TypeStep DEF HandshakeInv
<1>1. CASE UNCHANGED vars
  <2>1. Forget
    BY Zenon, <1>1 DEF Forget, SameEntry, vars, nodeVars, peerVars
  <2> QED BY Zenon, <1>t, <2>1, ForgetStep
<1>2. ASSUME NEW n \in Node, Bootstrap(n) PROVE HandshakeInv'
  <2>1. Forget
    BY Zenon, <1>2 DEF Forget, SameEntry, Bootstrap, peerVars
  <2> QED BY Zenon, <1>t, <2>1, ForgetStep
<1>3. ASSUME NEW n \in Node, NEW addr \in Node, BootstrapPeer(n, addr) PROVE HandshakeInv'
  BY Zenon, <1>t, <1>3, SendHelloStep DEF BootstrapPeer, peerVars
<1>4. ASSUME NEW n \in Node, NEW addr \in Node, BootstrapUnresolved(n, addr)
      PROVE  HandshakeInv'
  <2>1. Forget
    BY Zenon, <1>4 DEF Forget, SameEntry, BootstrapUnresolved, peerVars
  <2> QED BY Zenon, <1>t, <2>1, ForgetStep
<1>5. ASSUME NEW n \in Node, NEW m \in Node, HelloAndThen(n, m) PROVE HandshakeInv'
  BY Zenon, <1>t, <1>5, SendHelloStep DEF HelloAndThen, peerVars
<1>6. ASSUME NEW n \in Node, NEW m \in Node, GossipUp(n, m) \/ RemovePeer(n, m)
      PROVE  HandshakeInv'
  <2>1. Forget
    BY Zenon, <1>6 DEF Forget, SameEntry, GossipUp, RemovePeer, nodeVars
  <2> QED BY <1>t, <2>1, ForgetStep
<1>7. ASSUME NEW m \in net, RecvHello(m.dst, m) PROVE HandshakeInv'
  <2>1. ASSUME NEW inWindow \in BOOLEAN, IgnoreHello(m.dst, m, inWindow) PROVE HandshakeInv'
    <3>1. Forget
      BY Zenon, <2>1 DEF Forget, SameEntry, IgnoreHello, Handle, nodeVars, peerVars
    <3> QED BY Zenon, <1>t, <3>1, ForgetStep
  <2> QED BY Zenon, <1>t, <1>7, <2>1, AcceptHelloStep DEF RecvHello
<1>8. ASSUME NEW m \in net, RecvOhai(m.dst, m) PROVE HandshakeInv'
  <2>1. CASE UNCHANGED <<okboss, peerVars>> /\ Handle(m, {})
    <3>1. m.dst \in Node
      BY Zenon, PacketType DEF HandshakeInv
    <3>2. \A n \in Node : hellos'[n] \subseteq hellos[n]
      BY Zenon, <1>8, <3>1 DEF RecvOhai, HandshakeInv, TypeOK
    <3>3. Forget
      BY Zenon, <1>8, <2>1, <3>2 DEF Forget, SameEntry, RecvOhai, Handle, peerVars
    <3> QED BY Zenon, <1>t, <3>3, ForgetStep
  <2>2. ASSUME NEW e \in At(hellos[m.dst], m.id, m.src), AcceptOhai(m.dst, m, e)
        PROVE  HandshakeInv'
    BY Zenon, <1>t, <1>8, <2>2, AcceptOhaiStep DEF RecvOhai
  <2> QED BY Zenon, <1>8, <2>1, <2>2 DEF RecvOhai
<1>9. ASSUME NEW m \in net, RecvOkBoss(m.dst, m) PROVE HandshakeInv'
  <2>1. CASE UNCHANGED <<known, done>> /\ Handle(m, {})
    <3>1. m.dst \in Node
      BY PacketType DEF HandshakeInv
    <3>2. \A n \in Node : ohais'[n] \subseteq ohais[n]
      BY Zenon, <1>9, <3>1 DEF RecvOkBoss, HandshakeInv, TypeOK
    <3>3. Forget
      BY Zenon, <1>9, <2>1, <3>2 DEF Forget, SameEntry, RecvOkBoss, Handle
    <3> QED BY <1>t, <3>3, ForgetStep
  <2>2. ASSUME NEW e \in At(ohais[m.dst], m.id, m.src),
               GotOkBoss(m.dst, e, m.response),
               SendPeerUp(m.dst, e, "responder"),
               Handle(m, {[type |-> "GoTeam", id |-> e.id, src |-> m.dst, dst |-> m.src]})
        PROVE  HandshakeInv'
    BY Zenon, <1>t, <1>9, <2>2, OkBossUpStep DEF RecvOkBoss
  <2> QED BY Zenon, <1>9, <2>1, <2>2 DEF RecvOkBoss
<1>10. ASSUME NEW m \in net, RecvGoTeam(m.dst, m) PROVE HandshakeInv'
  <2>1. CASE UNCHANGED peerVars
    <3>1. m.dst \in Node
      BY PacketType DEF HandshakeInv
    <3>2. \A n \in Node : okboss'[n] \subseteq okboss[n]
      BY Zenon, <1>10, <3>1 DEF RecvGoTeam, HandshakeInv, TypeOK
    <3>3. Forget
      BY Zenon, <1>10, <2>1, <3>2 DEF Forget, SameEntry, RecvGoTeam, Handle, peerVars
    <3> QED BY <1>t, <3>3, ForgetStep
  <2>2. ASSUME NEW e \in At(okboss[m.dst], m.id, m.src),
               SendPeerUp(m.dst, e, "initiator"),
               started' = [started EXCEPT ![m.dst] = @ \cup {x \in {e.id} : e.andThen}]
        PROVE  HandshakeInv'
    BY Zenon, <1>t, <1>10, <2>2, GoTeamUpStep DEF RecvGoTeam
  <2> QED BY Zenon, <1>10, <2>1, <2>2 DEF RecvGoTeam
<1>11. ASSUME NEW m \in net, Lose(m) PROVE HandshakeInv'
  <2>1. Forget
    BY Zenon, <1>11 DEF Forget, SameEntry, Lose, nodeVars, peerVars
  <2> QED BY <1>t, <2>1, ForgetStep
<1>12. ASSUME NEW n \in Node, NEW e \in hellos[n] \cup ohais[n], TimerFires(n, e)
       PROVE  HandshakeInv'
  <2> DEFINE f == [e EXCEPT !.timer = FALSE]
  <2>1. SameEntry(f, e) /\ (e \in ohais[n] => f.their = e.their)
    BY DEF SameEntry, HandshakeInv, TypeOK, Hello, Ohai
  <2>2. /\ \A r \in Node : hellos'[r] \subseteq hellos[r]
                             \/ (r = n /\ e \in hellos[n] /\ hellos'[n] \subseteq hellos[n] \cup {f})
        /\ \A r \in Node : ohais'[r] \subseteq ohais[r]
                             \/ (r = n /\ e \in ohais[n] /\ ohais'[n] \subseteq ohais[n] \cup {f})
    BY <1>12 DEF TimerFires, HandshakeInv, TypeOK
  <2>3. UNCHANGED <<okboss, done, started, net, fresh>>
    BY Zenon, <1>12 DEF TimerFires, peerVars
  <2> HIDE DEF f
  <2>4. Forget
    BY Zenon, <2>1, <2>2, <2>3 DEF Forget, SameEntry
  <2> QED BY Zenon, <1>t, <2>4, ForgetStep
<1>13. ASSUME NEW n \in Node, NEW k \in dead[n], RecvDead(n, k) PROVE HandshakeInv'
  <2>1. \A r \in Node : /\ hellos'[r] \subseteq hellos[r]
                        /\ ohais'[r] \subseteq ohais[r]
                        /\ okboss'[r] \subseteq okboss[r]
    BY Zenon, <1>13 DEF RecvDead, HandshakeInv, TypeOK
  <2>2. Forget
    BY Zenon, <1>13, <2>1 DEF Forget, SameEntry, RecvDead, peerVars
  <2> QED BY Zenon, <1>t, <2>2, ForgetStep
<1> QED
  BY Zenon, <1>1, <1>2, <1>3, <1>4, <1>5, <1>6, <1>7, <1>8, <1>9, <1>10, <1>11, <1>12, <1>13
     DEF Next, Recv, Timer

\* The invariant of the handshakes holds in every state that the handlers of
\* Handshaker::handle_handshake, the timers and the network can reach.
THEOREM HandshakeInvariant == Spec => []HandshakeInv
BY HandshakeInit, HandshakeStep, PTL DEF Spec

\* Whatever the network and the timers do, an initiator brings a peer up only
\* with the keys and the timestamp with which the responder brought it up.
THEOREM KeysMatch == Spec => []MatchingKeys
<1>1. HandshakeInv => MatchingKeys
  BY Zenon DEF HandshakeInv
<1> QED BY <1>1, HandshakeInvariant, PTL

\* No copy of any packet completes a handshake a second time.
THEOREM CompletesAtMostOnce == Spec => []CompletesOnce
<1>1. HandshakeInv => CompletesOnce
  BY Zenon DEF HandshakeInv
<1> QED BY <1>1, HandshakeInvariant, PTL

\* A subscription that waited for a handshake starts when both ends have the
\* keys of this handshake.
THEOREM ContinuationHasKeys == Spec => []ContinuationAfterKeys
<1>1. HandshakeInv => ContinuationAfterKeys
  BY Zenon DEF HandshakeInv, StartedIsDone, MatchingKeys, ContinuationAfterKeys, IsInitiator
<1> QED BY <1>1, HandshakeInvariant, PTL

\* Two homies with the same completed handshakes have matching keys.
THEOREM EndsAgree == Spec => []KeysAgree
<1> QED BY InvKeysAgree, HandshakeInvariant, NewestKeysInTable, PTL

-----------------------------------------------------------------------------
(* The handshake implements KeyExchange                                    *)

\* The sessions and the keys in use after send_peer_up.
LEMMA SessionTaken ==
  ASSUME TypeOK, NEW n \in Node, NEW d \in Outcome,
         known' = [known EXCEPT ![n][d.peer] = AddPeer(@, Handshaken(d))],
         done' = [done EXCEPT ![n] = @ \cup {d}]
  PROVE  /\ IsResponder(d) => Agreed' = Agreed \cup {AgreedSession(n, d)} /\ Confirmed' = Confirmed
         /\ IsInitiator(d) => Confirmed' = Confirmed \cup {ConfirmedSession(n, d)} /\ Agreed' = Agreed
         /\ KeysInUse' = [KeysInUse EXCEPT ![n][d.peer] =
                            IF \A k \in @ : k.ts < d.ts
                            THEN {[own |-> d.own, their |-> d.their, ts |-> d.ts]} ELSE @]
<1>1. \A r \in Node : done'[r] = IF r = n THEN done[n] \cup {d} ELSE done[r]
  BY Zenon DEF TypeOK
<1>2. ASSUME IsResponder(d)
      PROVE  Agreed' = Agreed \cup {AgreedSession(n, d)} /\ Confirmed' = Confirmed
  <2>1. ASSUME NEW t PROVE t \in Confirmed' <=> t \in Confirmed
    BY <1>1, <1>2 DEF Confirmed, ConfirmedSession, IsResponder
  <2>2. Confirmed' = Confirmed
    BY Zenon, <2>1
  <2>3. ASSUME NEW t PROVE t \in Agreed' <=> t \in Agreed \/ t = AgreedSession(n, d)
    BY <1>1, <1>2 DEF Agreed, AgreedSession, IsResponder
  <2> QED BY Zenon, <2>2, <2>3
<1>3. ASSUME IsInitiator(d)
      PROVE  Confirmed' = Confirmed \cup {ConfirmedSession(n, d)} /\ Agreed' = Agreed
  <2>1. ASSUME NEW t PROVE t \in Agreed' <=> t \in Agreed
    BY <1>1, <1>3 DEF Agreed, AgreedSession, IsInitiator
  <2>2. Agreed' = Agreed
    BY Zenon, <2>1
  <2>3. ASSUME NEW t PROVE t \in Confirmed' <=> t \in Confirmed \/ t = ConfirmedSession(n, d)
    BY <1>1, <1>3 DEF Confirmed, ConfirmedSession, IsInitiator
  <2> QED BY Zenon, <2>2, <2>3
<1>4. KeysInUse' = [KeysInUse EXCEPT ![n][d.peer] =
                      IF \A k \in @ : k.ts < d.ts
                      THEN {[own |-> d.own, their |-> d.their, ts |-> d.ts]} ELSE @]
  <2> DEFINE old == known[n][d.peer]
             new == Handshaken(d)
  <2>1. /\ d.peer \in Node /\ d.ts \in Nat /\ old \in Peer /\ IsHandshaken(new)
        /\ new.own = d.own /\ new.their = d.their /\ new.ts = d.ts
    BY Zenon, HandshakenFields DEF TypeOK
  <2>2. \A r, q \in Node : known'[r][q] = IF r = n /\ q = d.peer THEN AddPeer(old, new) ELSE known[r][q]
    BY Zenon, <2>1 DEF TypeOK
  <2> HIDE DEF old, new
  <2>3. InUse(AddPeer(old, new)) = IF \A k \in InUse(old) : k.ts < d.ts
                                   THEN {[own |-> d.own, their |-> d.their, ts |-> d.ts]}
                                   ELSE InUse(old)
    <3>1. InUse(new) = {[own |-> d.own, their |-> d.their, ts |-> d.ts]}
      BY Zenon, <2>1 DEF InUse
    <3>2. CASE ~IsHandshaken(old)
      BY Zenon, <2>1, <3>1, <3>2 DEF InUse, AddPeer
    <3>3. CASE IsHandshaken(old)
      <4>1. InUse(old) = {[own |-> old.own, their |-> old.their, ts |-> old.ts]}
        BY Zenon, <3>3 DEF InUse
      <4>2. (\A k \in InUse(old) : k.ts < d.ts) <=> old.ts < d.ts
        BY <4>1
      <4>3. old.ts < d.ts <=> new.ts > old.ts
        BY <2>1
      <4>4. AddPeer(old, new) = IF new.ts > old.ts THEN new ELSE old
        BY Zenon, <2>1, <3>3 DEF AddPeer, IsHandshaken
      <4> QED BY Zenon, <3>1, <4>2, <4>3, <4>4
    <3> QED BY Zenon, <3>2, <3>3
  <2>4. \A r, q \in Node : /\ KeysInUse[r][q] = InUse(known[r][q])
                           /\ KeysInUse'[r][q] = InUse(known'[r][q])
    BY DEF KeysInUse
  <2>5. KeysInUse[n][d.peer] = InUse(old)
    BY Zenon, <2>1, <2>4 DEF old
  <2>6. \A r, q \in Node :
          KeysInUse'[r][q] = IF r = n /\ q = d.peer THEN InUse(AddPeer(old, new)) ELSE KeysInUse[r][q]
    BY <2>2, <2>4
  <2>7. /\ KeysInUse = [r \in Node |-> [q \in Node |-> KeysInUse[r][q]]]
        /\ KeysInUse' = [r \in Node |-> [q \in Node |-> KeysInUse'[r][q]]]
    BY DEF KeysInUse
  <2>8. KeysInUse' = [KeysInUse EXCEPT ![n][d.peer] = InUse(AddPeer(old, new))]
    BY <2>1, <2>6, <2>7
  <2> QED BY Zenon, <2>3, <2>5, <2>8
<1> QED BY Zenon, <1>2, <1>3, <1>4

\* got_okboss is a new session: neither its id nor its keys were used before.
LEMMA AgreeStep ==
  ASSUME HandshakeInv, HandshakeInv', NEW n \in Node, NEW d \in Outcome,
         IsResponder(d), EndsEntry(n, d),
         known' = [known EXCEPT ![n][d.peer] = AddPeer(@, Handshaken(d))],
         done' = [done EXCEPT ![n] = @ \cup {d}]
  PROVE  Exchange!Next
<1> DEFINE s == AgreedSession(n, d)
<1>1. /\ s.id = d.id /\ s.key = d.own /\ s.initiator = d.peer /\ s.responder = n /\ s.ts = d.ts
      /\ s = [id |-> d.id, key |-> d.own, initiator |-> d.peer, responder |-> n, ts |-> d.ts]
  BY Zenon DEF AgreedSession
<1>2. /\ d.id \in Nat /\ d.own \in Nat /\ d.peer \in Node /\ d.ts \in Timestamp
  BY Zenon DEF Outcome
<1>3. /\ n \in Node /\ d \in done'[n]
      /\ \A r \in Node : done[r] \subseteq done'[r]
  BY DEF HandshakeInv, TypeOK
<1>4. s \in Exchange!Session
  <2>1. d.id < fresh' /\ d.own < fresh' /\ fresh' <= MaxFresh + 1 /\ fresh' \in Nat
    BY Zenon, <1>3 DEF HandshakeInv, IdsDrawn, TypeOK
  <2>2. d.id \in 0..MaxFresh /\ d.own \in 0..MaxFresh
    BY <1>2, <2>1, HandshakeAssumption
  <2> QED BY Zenon, <1>1, <1>2, <2>2 DEF Exchange!Session
<1>5. s.initiator # s.responder
  BY Zenon, <1>1, <1>3 DEF HandshakeInv, NotWithSelf
<1>e. PICK o \in ohais[n] : o.id = d.id /\ o.own = d.own /\ o.their = d.their
  BY DEF EndsEntry, IsResponder
<1>6. \A r \in Node : \A c \in done[r] : IsResponder(c) => c.own # d.own
  BY <1>e DEF HandshakeInv, NewChallenge
<1>7. ASSUME NEW r \in Node, NEW c \in done[r], IsResponder(c), c.id = d.id PROVE FALSE
  <2>1. c \in done'[r]
    BY Zenon, <1>3
  <2>2. Addressed(r, d.id)' /\ Addressed(n, d.id)'
    BY Zenon, <1>3, <1>7, <2>1 DEF Addressed, IsResponder
  <2>3. r = n
    BY Zenon, <1>2, <2>2 DEF HandshakeInv, OneResponder
  <2>4. c.peer \in Node
    BY DEF HandshakeInv, TypeOK, Outcome
  <2>5. Greeted(c.peer, d.id)' /\ Greeted(d.peer, d.id)'
    BY Zenon, <1>3, <1>7, <2>1 DEF Greeted, IsResponder
  <2>6. c.peer = d.peer
    BY Zenon, <1>2, <2>4, <2>5 DEF HandshakeInv, OneInitiator
  <2>7. c = d
    BY Zenon, <1>3, <1>7, <2>1, <2>3, <2>6 DEF HandshakeInv, CompletesOnce
  <2> QED BY Zenon, <1>6, <1>7, <2>7
<1>8. \A t \in Agreed : t.id # s.id /\ t.key # s.key
  <2>1. ASSUME NEW t \in Agreed
        PROVE  \E r \in Node : \E c \in done[r] : IsResponder(c) /\ t = AgreedSession(r, c)
    BY Zenon DEF Agreed, IsResponder
  <2>2. ASSUME NEW r, NEW c PROVE AgreedSession(r, c).id = c.id /\ AgreedSession(r, c).key = c.own
    BY Zenon DEF AgreedSession
  <2>3. ASSUME NEW r \in Node, NEW c \in done[r], IsResponder(c)
        PROVE  AgreedSession(r, c).id # s.id /\ AgreedSession(r, c).key # s.key
    <3>1. c.id # d.id /\ c.own # d.own
      BY Zenon, <1>6, <1>7, <2>3
    <3>2. AgreedSession(r, c).id = c.id /\ AgreedSession(r, c).key = c.own
      BY Zenon, <2>2
    <3> HIDE DEF s
    <3> QED BY Zenon, <1>1, <3>1, <3>2
  <2> HIDE DEF s
  <2> QED BY Zenon, <2>1, <2>3
<1>9. /\ Agreed' = Agreed \cup {s} /\ Confirmed' = Confirmed
      /\ KeysInUse' = [KeysInUse EXCEPT ![n][d.peer] =
                         IF \A k \in @ : k.ts < d.ts
                         THEN {[own |-> d.own, their |-> d.their, ts |-> d.ts]} ELSE @]
  BY Zenon, SessionTaken DEF HandshakeInv
<1>10. d.their = d.id
  BY Zenon, <1>e DEF HandshakeInv, OhaiToHello
<1> HIDE DEF s
<1>11. Exchange!Agree(s)
  BY Zenon, <1>1, <1>5, <1>8, <1>9, <1>10 DEF Exchange!Agree, Exchange!Take
<1> QED BY Zenon, <1>4, <1>11 DEF Exchange!Next

\* got_goteam confirms a session that the responder has agreed on.
LEMMA ConfirmStep ==
  ASSUME HandshakeInv, HandshakeInv', NEW n \in Node, NEW d \in Outcome,
         IsInitiator(d), EndsEntry(n, d),
         known' = [known EXCEPT ![n][d.peer] = AddPeer(@, Handshaken(d))],
         done' = [done EXCEPT ![n] = @ \cup {d}]
  PROVE  Exchange!Next
<1> DEFINE s == ConfirmedSession(n, d)
<1>1. /\ s.id = d.id /\ s.key = d.their /\ s.initiator = n /\ s.responder = d.peer /\ s.ts = d.ts
      /\ s = [id |-> d.id, key |-> d.their, initiator |-> n, responder |-> d.peer, ts |-> d.ts]
  BY Zenon DEF ConfirmedSession
<1>2. /\ d.id \in Nat /\ d.their \in Nat /\ d.peer \in Node /\ d.ts \in Timestamp
  BY Zenon DEF Outcome
<1>3. d \in done'[n] /\ done'[d.peer] \subseteq done[d.peer] \cup {d}
  BY <1>2 DEF HandshakeInv, TypeOK
<1>4. PICK c \in done'[d.peer] : IsResponder(c) /\ Mirror(n, d, d.peer, c)
  BY Zenon, <1>3 DEF HandshakeInv, MatchingKeys, IsInitiator, IsResponder
<1>5. c \in done[d.peer]
  BY <1>3, <1>4 DEF IsInitiator, IsResponder
<1>6. s = AgreedSession(d.peer, c)
  BY Zenon, <1>1, <1>4 DEF AgreedSession, Mirror
<1>7. s \in Agreed
  BY <1>2, <1>4, <1>5, <1>6 DEF Agreed, IsResponder
<1>8. s \notin Confirmed
  <2>1. ASSUME s \in Confirmed
        PROVE  \E r \in Node : \E b \in done[r] : IsInitiator(b) /\ s = ConfirmedSession(r, b)
    BY Zenon, <2>1 DEF Confirmed, IsInitiator
  <2>2. ASSUME NEW r \in Node, NEW b \in done[r], IsInitiator(b), s = ConfirmedSession(r, b)
        PROVE  FALSE
    <3>1. r = n /\ b.id = d.id
      BY Zenon, <1>1, <2>2 DEF ConfirmedSession
    <3> QED BY Zenon, <2>2, <3>1 DEF HandshakeInv, OkBossBeforeDone, EndsEntry, IsInitiator
  <2> QED BY Zenon, <2>1, <2>2
<1>9. s \in Exchange!Session
  <2>1. d.id < fresh' /\ c.own < fresh' /\ fresh' <= MaxFresh + 1 /\ fresh' \in Nat
    BY Zenon, <1>2, <1>3, <1>4 DEF HandshakeInv, IdsDrawn, TypeOK
  <2>2. d.id \in 0..MaxFresh /\ d.their \in 0..MaxFresh
    BY <1>2, <1>4, <2>1, HandshakeAssumption DEF Mirror
  <2> QED BY Zenon, <1>1, <1>2, <2>2 DEF Exchange!Session
<1>10. /\ Confirmed' = Confirmed \cup {s} /\ Agreed' = Agreed
       /\ KeysInUse' = [KeysInUse EXCEPT ![n][d.peer] =
                          IF \A k \in @ : k.ts < d.ts
                          THEN {[own |-> d.own, their |-> d.their, ts |-> d.ts]} ELSE @]
  BY Zenon, SessionTaken DEF HandshakeInv
<1>11. d.own = d.id
  BY Zenon DEF HandshakeInv, HelloUnchanged, EndsEntry, IsInitiator
<1> HIDE DEF s
<1>12. Exchange!Confirm(s)
  BY Zenon, <1>1, <1>7, <1>8, <1>10, <1>11 DEF Exchange!Confirm, Exchange!Take
<1> QED BY Zenon, <1>9, <1>12 DEF Exchange!Next

\* Every step is a step of KeyExchange, or changes nothing there.
LEMMA ExchangeStep ==
  ASSUME HandshakeInv, HandshakeInv', [Next]_vars
  PROVE  [Exchange!Next]_(Exchange!vars)
<1>1. TypeOK
  BY Zenon DEF HandshakeInv
<1>2. ASSUME UNCHANGED done PROVE Agreed' = Agreed /\ Confirmed' = Confirmed
  BY <1>2 DEF Agreed, Confirmed, AgreedSession, ConfirmedSession
<1>3. CASE UNCHANGED <<known, done>>
  <2>1. KeysInUse' = KeysInUse
    BY Zenon, <1>3 DEF KeysInUse
  <2> QED BY Zenon, <1>2, <1>3, <2>1 DEF Exchange!vars
<1>4. ASSUME NEW n \in Node, NEW m \in Node,
             known' = [known EXCEPT ![n][m] = AddPeer(@, Gossiped)], UNCHANGED done
      PROVE  UNCHANGED Exchange!vars
  <2>1. \A r, q \in Node : InUse(known'[r][q]) = InUse(known[r][q])
    <3>1. \A r, q \in Node :
            known'[r][q] = known[r][q] \/ (~IsHandshaken(known'[r][q]) /\ ~IsHandshaken(known[r][q]))
      BY <1>1, <1>4 DEF AddPeer, Gossiped, IsHandshaken, TypeOK
    <3> QED BY Zenon, <3>1 DEF InUse
  <2>2. KeysInUse' = KeysInUse
    BY <2>1 DEF KeysInUse
  <2> QED BY Zenon, <1>2, <1>4, <2>2 DEF Exchange!vars
<1>5. ASSUME NEW n \in Node, NEW d \in Outcome, EndsEntry(n, d),
             known' = [known EXCEPT ![n][d.peer] = AddPeer(@, Handshaken(d))],
             done' = [done EXCEPT ![n] = @ \cup {d}]
      PROVE  Exchange!Next
  <2>1. IsResponder(d) \/ IsInitiator(d)
    BY Zenon DEF Outcome, Role, IsResponder, IsInitiator
  <2> QED BY Zenon, <1>5, <2>1, AgreeStep, ConfirmStep
<1>6. ASSUME NEW n \in Node, NEW m \in Node, known' = [known EXCEPT ![n][m] = Unknown],
             UNCHANGED done
      PROVE  Exchange!Next
  <2>1. \A r, q \in Node : known'[r][q] = IF r = n /\ q = m THEN Unknown ELSE known[r][q]
    BY Zenon, <1>1, <1>6 DEF TypeOK
  <2>2. InUse(Unknown) = {}
    BY Zenon DEF InUse, Unknown, IsHandshaken
  <2>3. \A r, q \in Node :
          InUse(known'[r][q]) = IF r = n /\ q = m THEN {} ELSE InUse(known[r][q])
    BY <2>1, <2>2
  <2>4. KeysInUse' = [KeysInUse EXCEPT ![n][m] = {}]
    <3>1. \A r, q \in Node : KeysInUse'[r][q] = IF r = n /\ q = m THEN {} ELSE KeysInUse[r][q]
      BY <2>3 DEF KeysInUse
    <3>2. /\ KeysInUse = [r \in Node |-> [q \in Node |-> KeysInUse[r][q]]]
          /\ KeysInUse' = [r \in Node |-> [q \in Node |-> KeysInUse'[r][q]]]
      BY DEF KeysInUse
    <3> QED BY <3>1, <3>2
  <2>5. Exchange!Forget(n, m)
    BY Zenon, <1>2, <1>6, <2>4 DEF Exchange!Forget
  <2> QED BY Zenon, <2>5 DEF Exchange!Next
<1> QED BY Zenon, <1>1, <1>3, <1>4, <1>5, <1>6, TableStep

\* The handshake implements KeyExchange for any homies, keys and faults.
THEOREM HandshakeImplementsKeyExchange == Spec => ImplementsKeyExchange
<1>1. Init => Exchange!Init
  <2>1. ASSUME Init PROVE KeysInUse = [n \in Node |-> [m \in Node |-> {}]]
    <3>1. \A n, m \in Node : InUse(known[n][m]) = {}
      BY Zenon, <2>1 DEF Init, InUse, Unknown, IsHandshaken
    <3> QED BY <3>1 DEF KeysInUse
  <2>2. ASSUME Init PROVE Agreed = {} /\ Confirmed = {}
    BY <2>2 DEF Init, Agreed, Confirmed
  <2> QED BY Zenon, <2>1, <2>2 DEF Exchange!Init
<1> QED BY <1>1, HandshakeInvariant, ExchangeStep, PTL DEF Spec, ImplementsKeyExchange, Exchange!Spec
=============================================================================
