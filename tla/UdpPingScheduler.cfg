CONSTANTS
  Ping = {0, 1}
  Port = {7}
  EndTime = 5
  Endpoint = {0, 1}
  System = {0, 1}
  Schedule <- MCSchedule
  MaxRtt = 1000
SPECIFICATION SchedulerSpec
INVARIANTS NeverAborts RepliesAreOwn RequestsOnSchedule PingRowsTruthful
CHECK_DEADLOCK FALSE
