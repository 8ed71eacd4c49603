\* Two homies that hear of each other through a third.
SPECIFICATION Spec
CONSTANTS
  alice = alice
  bob = bob
  carol = carol
  k1 = k1
  k2 = k2
  Node = {alice, bob, carol}
  Psk = {k1, k2}
  NodeKeys <- OneKey
  Peers <- ToCarol
  Timestamp = {1}
  MaxFresh = 6
  MaxLoss = 0
  MaxDup = 0
  MaxTimeout = 0
  MaxDown = 0
SYMMETRY AliceOrBob
INVARIANTS
  ContinuationAfterKeys
