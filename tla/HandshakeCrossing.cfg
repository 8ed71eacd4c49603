\* Two homies that greet each other at the same time.
SPECIFICATION Spec
CONSTANTS
  alice = alice
  bob = bob
  carol = carol
  k1 = k1
  k2 = k2
  Node = {alice, bob}
  Psk = {k1, k2}
  NodeKeys <- Rotation
  Peers <- Mesh
  Timestamp = {1, 2}
  MaxFresh = 4
  MaxLoss = 1
  MaxDup = 0
  MaxTimeout = 0
  MaxDown = 1
INVARIANTS
  TypeOK
  NewestKeysWin
  
PROPERTIES
  KeysOnlyMoveForward
