SPECIFICATION Spec
CONSTANTS
  Files = {f1, f2}
  NoFile = NoFile
  Openers = {o1}
  Page = 2
  DefaultAllocSize = 5
  UIntLimit = 16
  Lengths = {1, 8}
  Found <- FoundContents
  MayReopen = FALSE
  MayTruncate = FALSE
  MaxEmissions = 2
  MaxCrashes = 1
  MaxFailures = 0
INVARIANT NoGaps
CHECK_DEADLOCK FALSE
SYMMETRY FileSymmetry
