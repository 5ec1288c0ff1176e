SPECIFICATION ConsoleSpec
CONSTANTS
  Flows = {"set", "show", "scan", "clear", "boot", "power"}
  Networks = {"old", "new"}
  Wired = {FALSE}
  MaxNoise = 1
  MaxLost = 1
  MaxPolls = 1
INVARIANTS ReadToItsEnd ReportIsTrue
PROPERTY CommandEnds
