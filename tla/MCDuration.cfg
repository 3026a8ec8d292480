CONSTANTS
  m1 = m1
  m2 = m2
  Msg <- MCMsg
  VarintBits = 5
  Width32 = 6
  Width64 = 12
  SecondsVals <- MCSecondsVals
  NanosVals <- MCNanosVals
  ParseInputs <- MCParseInputs
  MaxUnknown = 2
SPECIFICATION Spec
INVARIANTS
  TypeOK
  HasBitCoversValue
  RoundTrip
  SizeMatchesSerialization
  MergeAssociative
SYMMETRY MCSymmetry
PROPERTIES
  RefinesDurationValue
