CONSTANTS
  me = me
  ann = ann
  ben = ben
  Self = me
  Peer = {me, ann, ben}
  Gossip = {ann, ben}
  Zone <- TwoZones
  Strategy = "HubAndSpoke"
  PeerSubscriptions = 1
  MaxTimestamp = 1
  MaxMailbox = 1
  MaxCasts = 2
SPECIFICATION Spec
SYMMETRY AnnOrBen
INVARIANTS TypeOK WatchdogsGuardSubscriptions  KeysInStep
