--------------------------- MODULE MCPacketHandler ---------------------------
(***************************************************************************)
(* Instances of PacketHandler for TLC.                                     *)
(***************************************************************************)
EXTENDS PacketHandler

CONSTANTS n1, n2, n3

\* Everybody has keys of everybody else.
Mesh == [n \in Node |-> Node \ {n}]

\* n1's broadcasts go to n2, those of n2 to n3 and n1.
Line == [n \in Node |-> CASE n = n1 -> {n2} [] n = n2 -> {n1, n3} [] OTHER -> {}]

\* The same both ways.  Only neighbours have shaken hands.
BothWays == [n \in Node |-> IF n = n2 THEN {n1, n3} ELSE {n2}]
=============================================================================
