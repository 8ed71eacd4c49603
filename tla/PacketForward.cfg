CONSTANTS
  n1 = n1
  n2 = n2
  n3 = n3
  Node = {n1, n2, n3}
  Subscribers <- Line
  Keys <- Mesh
  SeenSize = 2
  Nak = Nak
  MaxMessages = 1
  MaxUpdates = 0
SPECIFICATION Spec
INVARIANT RequestsComeFromTheirOrigin
