CONSTANTS
  Procs = {p1, p2, p3}
  NoFile = NoFile
  MaxExpiries = 2
  MaxAtOnce = 2
  Mixes <- TwoMixes
SYMMETRY Symmetry
SPECIFICATION Spec
INVARIANTS SessionSurvives QueueHoldsOne ReportSettled HalfDoneIsTold
CHECK_DEADLOCK FALSE
