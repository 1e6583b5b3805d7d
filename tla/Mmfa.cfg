CONSTANTS
  Link <- MCLink
  Capacity = {12, 24, 36}
  Flow = {0, 1, 2}
  FlowPath <- MCFlowPath
  Grain <- MCGrain
SPECIFICATION SolverSpec
INVARIANTS  MaxMinFair
CHECK_DEADLOCK FALSE
