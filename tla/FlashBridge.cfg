SPECIFICATION Spec
CONSTANTS
  Packets = 2
  Window = 2
  Links = {"net", "serial"}
  Stalls = {"net"}
INVARIANTS VerdictIsTrue 
PROPERTY EndsDisarmed
