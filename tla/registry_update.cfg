SPECIFICATION FairSpec
CONSTANTS
  Calls = {c1, c2, c3}
  Names = {n1, dropped}
  Reserved = dropped
  a = a
  b = b
  Keys <- MCKeys
  Invalid <- MCInvalid
  None = None
INVARIANTS
  TypeOK
  Inductive
  OnlyConflictsDropped
  
PROPERTY
  CallsReturn
