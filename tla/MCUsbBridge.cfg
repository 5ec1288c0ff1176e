CONSTANTS
  p1 = p1
  p2 = p2
  NoPod = NoPod
  Pods <- TwoPods
  Names <- OneName
  OtherSets = {"none", "foreign"}
  MaxOthers = 1
  MaxLeaks = 1
SPECIFICATION FairSpec
INVARIANTS StopClears UninstallHeals
PROPERTIES ForeignProxyStays PicksUpAgain
CHECK_DEADLOCK FALSE
