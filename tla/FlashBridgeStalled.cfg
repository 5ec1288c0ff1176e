SPECIFICATION Spec
CONSTANTS
  Packets = 2
  Window = 2
  Links = {"net", "serial"}
  Stalls = {"serial"}
PROPERTY FlashEnds
