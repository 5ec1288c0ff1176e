CONSTANTS
  t1 = t1
  t2 = t2
  p1 = p1
  p2 = p2
  c1 = c1
  c2 = c2
  NoCert = NoCert
  Threads <- TwoThreads
  Pods <- TwoPods
  Certs <- TwoCerts
  MaxDials = 2
SYMMETRY Symmetry
SPECIFICATION Spec
INVARIANTS PinnedNeverPlain PinAsReported
 
CHECK_DEADLOCK FALSE
