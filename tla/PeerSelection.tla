---------------------------- MODULE PeerSelection ----------------------------
(***************************************************************************)
(* PeerManager::choose_peers (src/peer_manager.rs): the sets of peers that *)
(* each distribution strategy may choose.                                  *)
(*                                                                         *)
(* The random generator and the order in which a HashMap is iterated are a *)
(* free choice.  PreferLocal and PreferRemote give some peers a larger     *)
(* weight, and every weight is positive: they may choose what Uniform may. *)
(***************************************************************************)
EXTENDS Integers, FiniteSets

CONSTANTS
  Self,               \* this node
  Peer,               \* all nodes, Self among them
  Zone,               \* the zone of each node
  Strategy,           \* NodeInfo.distribution_strategy
  PeerSubscriptions   \* NodeInfo.peer_subscriptions

ASSUME SelectionAssumption ==
  /\ Self \in Peer
  /\ IsFiniteSet(Peer)
  /\ Strategy \in {"Uniform", "HubAndSpoke", "PreferLocal", "PreferRemote"}
  /\ PeerSubscriptions \in Nat

\* choose_multiple: n elements of S, or all of them if there are fewer.
ChooseMultiple(S, n) ==
  {C \in SUBSET S : \/ Cardinality(C) = n
                    \/ C = S /\ Cardinality(S) < n}

\* The orders in which the peers of S may be iterated.
Orders(S) ==
  {s \in [1..Cardinality(S) -> S] : \A i, j \in DOMAIN s : s[i] = s[j] => i = j}

\* chunk_by: the longest runs of neighbours in the same zone.
ChunkBy(s) ==
  {{s[k] : k \in run[1]..run[2]} : run \in
     {r \in (DOMAIN s) \X (DOMAIN s) :
        /\ r[1] <= r[2]
        /\ \A k \in r[1]..r[2] : Zone[s[k]] = Zone[s[r[1]]]
        /\ r[1] > 1 => Zone[s[r[1] - 1]] # Zone[s[r[1]]]
        /\ r[2] + 1 \in DOMAIN s => Zone[s[r[2] + 1]] # Zone[s[r[1]]]}}

\* One peer of each chunk.
OneOfEach(chunks) ==
  {C \in SUBSET UNION chunks : \A c \in chunks : Cardinality(C \cap c) = 1}

\* saturating_sub
SaturatingSub(a, b) == IF a > b THEN a - b ELSE 0

HubAndSpoke(peers) ==
  LET local  == {p \in peers : Zone[p] = Zone[Self]}
      remote == peers \ local
  IN  UNION {UNION {{l \cup r : l \in ChooseMultiple(local,
                                        SaturatingSub(PeerSubscriptions, Cardinality(r)))} :
                    r \in OneOfEach(ChunkBy(s))} :
             s \in Orders(remote)}

\* choose_peers: what may be chosen from the known peers.
ChoosePeers(known) ==
  IF Strategy = "HubAndSpoke"
  THEN HubAndSpoke(known \ {Self})
  ELSE ChooseMultiple(known \ {Self}, PeerSubscriptions)
=============================================================================
