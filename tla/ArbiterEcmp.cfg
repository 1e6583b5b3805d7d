CONSTANTS
  Input <- MCInput
  INF = 100
  MaxNodes = 40
SPECIFICATION FairSpec
INVARIANTS AcceptedIsWellFormed LinksCarryTheirSettings DistancesExact PacketsTakeShortestPaths
 
CHECK_DEADLOCK FALSE
