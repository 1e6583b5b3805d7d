CONSTANTS
  i1 = i1
  i2 = i2
  a = a
  b = b
  Instance = {i1, i2}
  Config = {a, b}
  Drafts <- MCDrafts
  MaxEdits = 0
  MaxCrashes = 0
SPECIFICATION Spec
PROPERTY ReadyInputsKept
