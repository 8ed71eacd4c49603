----------------------------- MODULE MCHandshake -----------------------------
(***************************************************************************)
(* Instances of Handshake for TLC.                                         *)
(***************************************************************************)
EXTENDS HandshakeExchange, TLC

CONSTANTS alice, bob, carol, k1, k2

\* The keys are being rotated: bob has not got the new one yet.
Rotation == [n \in Node |-> IF n = bob THEN {k1} ELSE {k1, k2}]

OneKey == [n \in Node |-> {k1}]

\* Everybody greets everybody else.
Mesh == [n \in Node |-> Node \ {n}]

\* Everybody but carol greets carol.
ToCarol == [n \in Node |-> {carol} \ {n}]

\* Bob greets alice.
ToAlice == [n \in Node |-> {alice} \ {n}]

\* The same, and alice is in her own list.
ToAliceAndSelf == [n \in Node |-> {alice}]

\* Alice and bob are alike when everybody has the same key.
AliceOrBob == Permutations({alice, bob})
=============================================================================
