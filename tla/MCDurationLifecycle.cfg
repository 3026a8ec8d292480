\* The life cycle of two instances (rebuilds, copy constructions, sizing)
\* against the value-level specification.
CONSTANTS
  m1 = m1
  m2 = m2
  Msg <- MCMsg
  VarintBits = 5
  Width32 = 6
  Width64 = 12
  SecondsVals <- MCCachedSecondsVals
  NanosVals <- MCCachedNanosVals
  ParseInputs <- MCLifecycleParseInputs
  MaxUnknown = 1
SPECIFICATION SpecCached
SYMMETRY MCSymmetry
PROPERTIES
  RefinesDurationValue
