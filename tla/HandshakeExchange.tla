-------------------------- MODULE HandshakeExchange --------------------------
(***************************************************************************)
(* The handshake implements KeyExchange: the outcomes of the responders    *)
(* are the sessions agreed on, those of the initiators the ones confirmed, *)
(* and the keys of the peer table are the keys in use.                     *)
(***************************************************************************)
EXTENDS Handshake

\* The session that node n ended with outcome d.
AgreedSession(n, d) ==
  [id |-> d.id, key |-> d.own, initiator |-> d.peer, responder |-> n, ts |-> d.ts]
ConfirmedSession(n, d) ==
  [id |-> d.id, key |-> d.their, initiator |-> n, responder |-> d.peer, ts |-> d.ts]

Agreed ==
  UNION {{AgreedSession(n, d) : d \in {c \in done[n] : c.role = "responder"}} : n \in Node}

Confirmed ==
  UNION {{ConfirmedSession(n, d) : d \in {c \in done[n] : c.role = "initiator"}} : n \in Node}

\* What packets to a peer are encrypted with: nothing before a handshake.
InUse(p) ==
  IF IsHandshaken(p) THEN {[own |-> p.own, their |-> p.their, ts |-> p.ts]} ELSE {}

KeysInUse == [n \in Node |-> [m \in Node |-> InUse(known[n][m])]]

Exchange == INSTANCE KeyExchange
  WITH Number <- 0..MaxFresh, agreed <- Agreed, confirmed <- Confirmed, keys <- KeysInUse

\* Whatever is lost, repeated, overtaken or timed out, the two ends of a
\* handshake do what KeyExchange allows: no id and no key pair serves two
\* sessions, the initiator (got GoTeam) has the responder's keys and takes them
\* once, and the table changes only when a session is taken or a peer is down.
ImplementsKeyExchange == Exchange!Spec
=============================================================================
