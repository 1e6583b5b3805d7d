CONSTANTS
  mmfa = mmfa
  tcp = tcp
  Root <- MCRoot
  TexName = {w, x, y, z}
  Line = {l}
  MaxCommands = 7
SYMMETRY MCSymmetry
SPECIFICATION Spec
INVARIANTS EveryInstanceInterpretedOnce DataIsInherited InheritanceStable
CHECK_DEADLOCK FALSE
