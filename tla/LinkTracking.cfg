CONSTANTS
  Interval = 3
  EpsInverse = 2
  MaxNow = 8
  Settings <- MCSettings
  Link <- MCLink
  Watched <- MCWatched
  System = {0, 1}
  Size = {1, 2}
  QueueCap = 1
  QdiscCap = 1
SPECIFICATION LinkSpec
INVARIANTS BusyTimeAccounted  TablesFitTogether
CHECK_DEADLOCK FALSE
