CONSTANTS
  a = a  b = b  c = c  d = d  feat = feat
  A1 = A1  B1 = B1  C1 = C1  D1 = D1  D2 = D2
  Files <- MCFiles
  CrateFiles <- MCCrateFiles
  PublicDepGraphs <- MCPublicDepGraphs
  Deps <- MCDeps
  FeatureFiles = {feat}
  Messages <- MCMessages
  Enums <- MCEnums
  IsCpp = TRUE
  StripNonfunctional = TRUE
  MaxVisits = 8
SPECIFICATION Spec
\* The generator finishes: the final states have no successor.
CHECK_DEADLOCK FALSE
INVARIANT
  NoDuplicateReexport
