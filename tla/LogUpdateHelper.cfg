CONSTANTS
  Value <- MCValue
  Unset <- MCUnset
  MaxTime = 4
  SaveInMemory = TRUE
  SaveToFile = TRUE
  MaxFinalize = 2
SPECIFICATION Spec
INVARIANTS
  FinalLogExact
  FileMirrorsLog
PROPERTY
  ImplementsStepLog
