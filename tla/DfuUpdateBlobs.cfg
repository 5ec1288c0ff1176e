SPECIFICATION Spec
CONSTANTS
  Pods = {p1, p2}
  None = None
  MaxMoves = 0
INVARIANT BlobsAreThere
