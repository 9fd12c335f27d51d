SPECIFICATION Spec
CONSTANTS
  Calls = {c1, c2}
  Names = {n1, dropped}
  Reserved = dropped
  a = a
  b = b
  Keys <- MCMoreKeys
  Invalid <- MCInvalid
  None = None
INVARIANT
  MismatchRejected
