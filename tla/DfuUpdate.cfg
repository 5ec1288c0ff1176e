SPECIFICATION Spec
CONSTANTS
  Pods = {p1, p2}
  None = None
  MaxMoves = 1
INVARIANTS OneConsole UpdateIsTrue
