----------------------------- MODULE KeyExchange -----------------------------
(***************************************************************************)
(* What the handshake promises the other servers: key exchange.            *)
(*                                                                         *)
(* Two homies agree on a session, with new key pairs on both sides.  The   *)
(* responder has the keys first.  The initiator confirms the session, once *)
(* or never, and then has the same keys.  Either of them uses the newest   *)
(* keys that it has got, until it takes the other for down.                *)
(***************************************************************************)
EXTENDS Integers

CONSTANTS Node, Number, Timestamp

VARIABLES
  agreed,     \* the sessions whose keys the responder has taken
  confirmed,  \* those whose keys the initiator has taken
  keys        \* the keys each homie uses for each other: none or one pair

vars == <<agreed, confirmed, keys>>

\* An id stands also for the key pair of the initiator, and key is that of the
\* responder.
Session == [id : Number, key : Number, initiator : Node, responder : Node, ts : Timestamp]

\* n gets keys for m and uses them, unless the ones it uses are as new.
Take(n, m, own, their, ts) ==
  keys' = [keys EXCEPT ![n][m] =
             IF \A k \in @ : k.ts < ts
             THEN {[own |-> own, their |-> their, ts |-> ts]} ELSE @]

\* A new session, with keys that no other session has.
Agree(s) ==
  /\ s.initiator # s.responder
  /\ \A c \in agreed : c.id # s.id /\ c.key # s.key
  /\ agreed' = agreed \cup {s}
  /\ Take(s.responder, s.initiator, s.key, s.id, s.ts)
  /\ UNCHANGED confirmed

Confirm(s) ==
  /\ s \in agreed \ confirmed
  /\ confirmed' = confirmed \cup {s}
  /\ Take(s.initiator, s.responder, s.id, s.key, s.ts)
  /\ UNCHANGED agreed

\* n takes m for down.
Forget(n, m) ==
  /\ keys' = [keys EXCEPT ![n][m] = {}]
  /\ UNCHANGED <<agreed, confirmed>>

Init ==
  /\ agreed = {}
  /\ confirmed = {}
  /\ keys = [n \in Node |-> [m \in Node |-> {}]]

Next ==
  \/ \E s \in Session : Agree(s) \/ Confirm(s)
  \/ \E n, m \in Node : Forget(n, m)

Spec == Init /\ [][Next]_vars
=============================================================================
