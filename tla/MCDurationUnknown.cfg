\* Unknown-field order: three distinct unknown records, no setters.
CONSTANTS
  m1 = m1
  m2 = m2
  Msg <- MCMsg
  VarintBits = 5
  Width32 = 6
  Width64 = 12
  SecondsVals = {}
  NanosVals = {}
  ParseInputs <- MCUnknownInputs
  MaxUnknown = 2
SPECIFICATION Spec
SYMMETRY MCSymmetry
PROPERTIES
  RefinesDurationValue
