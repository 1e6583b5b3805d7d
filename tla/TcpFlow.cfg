CONSTANTS
  Flow = {1, 2}
  FlowSize <- MCFlowSize
  SendStep = 2
  BufferCap = 3
  MaxTime = 1
SPECIFICATION FairSpec
INVARIANTS BytesConserved CompletedIsDelivered ProgressMatchesAcked
  DetailedLogsFinalizable ListedIffOpen
PROPERTIES ProgressAscends FlowEnds
CHECK_DEADLOCK FALSE
