CONSTANTS
  Input <- MCInput
  NumNodes = 3
  NumSystems = 2
  MaxBursts = 2
  MaxRuns = 2
  Endpoint = {0, 1, 2}
  SegmentTime = 3
SPECIFICATION Spec
INVARIANTS TcpAsConfigured FinishedMeansResults SimulationNeverThrows  LogsRecordTheRun
CHECK_DEADLOCK FALSE
