------------------------- MODULE HandshakeInductive -------------------------
(***************************************************************************)
(* The inductive invariant of the handshake.                               *)
(***************************************************************************)
EXTENDS Handshake

\* The part a node had in a handshake that ended.
IsInitiator(d) == d.role = "initiator"
IsResponder(d) == d.role = "responder"

\* The packets of each step that are in flight.
Hellos  == {m \in net : m.type = "Hello"}
OkBosses == {m \in net : m.type = "OkBoss"}
GoTeams == {m \in net : m.type = "GoTeam"}

\* A handshake id in use was drawn before.
IdsDrawn ==
  /\ fresh <= MaxFresh + 1
  /\ \A m \in net : m.id < fresh
  /\ \A n \in Node :
       /\ \A e \in hellos[n] : e.id < fresh
       /\ \A e \in ohais[n] : e.id < fresh /\ e.own < fresh
       /\ \A e \in okboss[n] : e.id < fresh
       /\ \A d \in done[n] : d.id < fresh /\ d.own < fresh

\* A node uses an id for one handshake.
OneEntry ==
  \A n \in Node :
    /\ \A e, f \in hellos[n] : e.id = f.id => e.addr = f.addr
    /\ \A e, f \in okboss[n] : e.id = f.id => e = f
    /\ \A e, f \in ohais[n] : e.id = f.id /\ e.addr = f.addr => e.own = f.own

\* While a node waits for Ohai, nothing of the later steps exists.
HelloComesFirst ==
  \A n \in Node : \A e \in hellos[n] :
    /\ \A m \in OkBosses : m.src = n => m.id # e.id
    /\ \A f \in okboss[n] : f.id # e.id
    /\ \A d \in done[n] : IsInitiator(d) => d.id # e.id
    /\ \A r \in Node : \A d \in done[r] : IsResponder(d) /\ d.peer = n => d.id # e.id

\* While a node waits for GoTeam, it has not ended the handshake.
OkBossBeforeDone ==
  \A n \in Node : \A e \in okboss[n] : \A d \in done[n] : IsInitiator(d) => d.id # e.id

\* An OkBoss answers the challenge of the responder key the initiator took.
ResponseToChosenKey ==
  /\ \A m \in OkBosses : \A e \in okboss[m.src] :
       m.id = e.id => \A x \in m.response : x.pk = e.their
  /\ \A l, m \in OkBosses :
       l.src = m.src /\ l.id = m.id => \A x \in l.response, y \in m.response : x.pk = y.pk
  /\ \A r \in Node : \A d \in done[r] : \A m \in OkBosses :
       IsResponder(d) /\ m.src = d.peer /\ m.id = d.id => \A x \in m.response : x.pk = d.own

\* The key and the timestamp of the Hello travel unchanged.
HelloUnchanged ==
  /\ \A n \in Node :
       /\ \A e \in hellos[n] : e.own = e.id
       /\ \A e \in okboss[n] : e.own = e.id
  /\ \A m \in Hellos :
       /\ m.pk = m.id
       /\ \A e \in hellos[m.src] : e.id = m.id => e.ts = m.ts
       /\ \A e \in okboss[m.src] : e.id = m.id => e.ts = m.ts

\* The entry of a responder is about the Hello that it was greeted with.
OhaiToHello ==
  \A n \in Node : \A o \in ohais[n] :
    /\ o.their = o.id
    /\ o.addr \in Node \ {n}
    /\ \A e \in hellos[o.addr] : e.id = o.id => e.ts = o.ts
    /\ \A e \in okboss[o.addr] : e.id = o.id => e.ts = o.ts

\* The outcome at the responder is what the initiator waits to confirm.
OkBossMirrors ==
  \A n \in Node : \A e \in okboss[n] : \A c \in done[e.addr] :
    IsResponder(c) /\ c.id = e.id /\ c.peer = n =>
      c.own = e.their /\ c.their = e.own /\ c.ts = e.ts

\* GoTeam is sent after the peer is up.
GoTeamAfterUp ==
  \A m \in GoTeams : \E c \in done[m.src] : IsResponder(c) /\ c.id = m.id /\ c.peer = m.dst

\* The key that a responder has drawn is the key of one entry, and of no
\* handshake that has ended: greeted again by a copy of the Hello, it draws
\* another one.
NewChallenge ==
  \A r, q \in Node : \A o \in ohais[r] :
    /\ \A d \in done[q] : IsResponder(d) => d.own # o.own
    /\ \A p \in ohais[q] : p.own = o.own => q = r /\ p.id = o.id /\ p.addr = o.addr

\* Node n started handshake i.
Initiated(n, i) ==
  \/ \E e \in hellos[n] : e.id = i
  \/ \E e \in okboss[n] : e.id = i
  \/ \E d \in done[n] : IsInitiator(d) /\ d.id = i

\* Somebody was or will be greeted by n in handshake i.
Greeted(n, i) ==
  \/ \E m \in Hellos : m.src = n /\ m.id = i
  \/ \E r \in Node : \E o \in ohais[r] : o.addr = n /\ o.id = i
  \/ \E r \in Node : \E d \in done[r] : IsResponder(d) /\ d.peer = n /\ d.id = i

\* A handshake has one initiator.
OneInitiator ==
  \A n, m \in Node : \A i \in Nat :
    /\ Initiated(n, i) /\ Greeted(m, i) => n = m
    /\ Greeted(n, i) /\ Greeted(m, i) => n = m

\* Node r was or will be greeted in handshake i.
Addressed(r, i) ==
  \/ \E m \in Hellos : m.dst = r /\ m.id = i
  \/ \E o \in ohais[r] : o.id = i
  \/ \E d \in done[r] : IsResponder(d) /\ d.id = i

\* A handshake has one responder.
OneResponder ==
  \A r, q \in Node : \A i \in Nat : Addressed(r, i) /\ Addressed(q, i) => r = q

\* No homie answers itself (the first test of a Hello).
NotWithSelf == \A n \in Node : \A d \in done[n] : IsResponder(d) => d.peer # n

\* An and_then runs after its handshake has ended.
StartedIsDone ==
  \A n \in Node : \A i \in started[n] : \E d \in done[n] : IsInitiator(d) /\ d.id = i

\* The inductive invariant.  MatchingKeys and CompletesOnce are part of it: a
\* GoTeam is worth what it says only if the responder has ended the handshake once.
HandshakeInv ==
  /\ TypeOK
  /\ IdsDrawn
  /\ OneEntry
  /\ HelloComesFirst
  /\ OkBossBeforeDone
  /\ ResponseToChosenKey
  /\ HelloUnchanged
  /\ OhaiToHello
  /\ OkBossMirrors
  /\ GoTeamAfterUp
  /\ NewChallenge
  /\ OneInitiator
  /\ OneResponder
  /\ NotWithSelf
  /\ StartedIsDone
  /\ MatchingKeys
  /\ CompletesOnce
=============================================================================
