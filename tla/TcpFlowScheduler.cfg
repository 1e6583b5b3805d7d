CONSTANTS
  Flow = {0, 1}
  FlowSize <- MCFlowSize
  SendStep = 1
  BufferCap = 1
  MaxTime = 2
  Node = {0, 1, 2}
  Endpoint = {0, 1}
  System = {0, 1}
SPECIFICATION SchedulerSpec
INVARIANTS StartedOnTime  EveryFlowReportedOnce RowsTruthful
CHECK_DEADLOCK FALSE
