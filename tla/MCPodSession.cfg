CONSTANTS
  c1 = c1
  c2 = c2
  c3 = c3
  NoCommand = NoCommand
  Past = Past
  Commands <- Three
  Timed <- Timed1
SPECIFICATION FairSpec
INVARIANTS ReplyMatchesRequest NothingOwed
PROPERTIES ImplementsRequestReply EndedContextUnblocks LostForAReason
CHECK_DEADLOCK FALSE
