SPECIFICATION Spec
CONSTANTS
  SnMod = 8
INVARIANTS
  SncmpRight
  SncmpOpenRight
