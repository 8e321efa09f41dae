SPECIFICATION Spec
CONSTANTS
  Ids <- TwoIds
  Literals <- MixedLiterals
  Values <- MixedValues
  Nested <- Numbers
  Operands <- MixedOperands
  IndexTypes <- Kinds
  MinInt <- MinusEight
  MaxInt = 7
  Mantissa = 4
  Missing = Missing
  NoDoc = NoDoc
  None = None
INVARIANTS
  EntriesExact
  FindExact
  
