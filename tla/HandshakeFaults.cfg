\* One initiator on a network that repeats packets, or does not deliver them.
\* Timers and the mailbox are fair, the network is not.
SPECIFICATION FairSpec
CONSTANTS
  alice = alice
  bob = bob
  carol = carol
  k1 = k1
  k2 = k2
  Node = {alice, bob}
  Psk = {k1, k2}
  NodeKeys <- Rotation
  Peers <- ToAliceAndSelf
  Timestamp = {1}
  MaxFresh = 3
  MaxLoss = 0
  MaxDup = 2
  MaxTimeout = 3
  MaxDown = 0
INVARIANTS MatchingKeys 
PROPERTIES HandshakesExpire ImplementsKeyExchange
