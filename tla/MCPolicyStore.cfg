SPECIFICATION Spec
CONSTANTS
  Start <- MCStart
  Names = {"n1", "n3"}
  Refs = {"kid", "sis"}
  Vals = {2}
  Ords = {1}
  MaxOps = 3
INVARIANTS
  StoreSound
PROPERTIES
  ChangesPushedButFor
CHECK_DEADLOCK FALSE
