CONSTANTS
  Socks = {s1, s2, s3}
  Ports = {p1, p2}
  ByHand = {r1}
SPECIFICATION Spec
SYMMETRY Symmetry
INVARIANTS OpenIsForwarded NoOrphans RemoveAllClears
