SPECIFICATION StoreFileSpec
CONSTANTS
  Processes = {p1, p2, p3}
  NoProcess = NoProcess
  MaxSize = 6
  PartialAlloc = FALSE
INVARIANT ExtendedToPending
SYMMETRY ProcessSymmetry
CHECK_DEADLOCK FALSE
