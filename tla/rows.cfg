SPECIFICATION Spec
CONSTANTS
  Width = 2
  MaxPairs = 2
  MaxKey = 3
  MaxVal = 2
  Panic = Panic
  Base = 2
  Half = 1
  TsDigits = 3
  SeqDigits = 1
  Times <- MCTimes
  Samples <- MCSamples
  Finite = {zero, one, long, near}
  Short = {zero, one}
  Parsed <- MCParsed
  Zero = zero
  Null = Null
  zero = zero
  one = one
  long = long
  near = near
  nan = nan
  NameLen = 4
  PairCount = 3
  LabelKeys <- MCKeys
  LabelValues <- MCValues
  MaxRows = 3
  MaxRuns = 1
INVARIANTS
  NamesValid
  KeysValid
  CapCountsUsable
  ScanInOrder
  CutoffExact
  OverwriteNeedsRestart
  RowFaithful
CHECK_DEADLOCK FALSE
