SPECIFICATION Spec
CONSTANTS
  Pods = {p1, p2}
  Paths = {d1, d2}
  Addrs = {a1, a2}
  None = None
  Replies = {"none", "full", "no key", "no mac once", "old"}
  MaxCommands = 2
  MaxMoves = 2
  ScanMoves = 1
INVARIANTS VerdictIsTrue NameReachesIt NoLinkSaved
SYMMETRY Symmetry
