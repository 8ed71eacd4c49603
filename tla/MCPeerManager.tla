---------------------------- MODULE MCPeerManager ----------------------------
(***************************************************************************)
(* Instances of PeerManager for TLC.                                       *)
(***************************************************************************)
EXTENDS PeerManager, TLC

CONSTANTS me, ann, ben

\* The others are all in another zone.
TwoZones == [p \in Peer |-> IF p = me THEN "here" ELSE "south"]

\* The other peers are interchangeable: they are all in one zone.
AnnOrBen == Permutations({ann, ben})
=============================================================================
