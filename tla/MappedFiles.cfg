SPECIFICATION MappedSpec
CONSTANTS
  \* the log file
  Files = {f1, f2}
  NoFile = NoFile
  Openers = {o1}
  Page = 2
  DefaultAllocSize = 5
  UIntLimit = 16
  Lengths = {1, 5, 8}
  Found <- FoundContents
  MayReopen = FALSE
  MayTruncate = TRUE
  MaxEmissions = 2
  MaxCrashes = 1
  MaxFailures = 1
  \* the store file
  Processes = {"p1", "p2", "p3"}
  NoProcess = NoProcess
  MaxSize = 6
  PartialAlloc = TRUE
  \* sections and controls of a store
  MaxElementValue = 3
  MFStoreAllocGran = 2
  Limit = 32
  Elements <- ElementPairs
  Grans = {1, 3}
  MaxSections = 3
  Descriptions = {1, 2}
  MaxDescriptionLength = 2
  SectionSize = 3
  Controls = {"c1", "c2", "c3"}
  ProcessOf <- MCProcessOf
  AskedSizes = {3, 4, 31}
  AskedGrans = {2, 3}
  GrownLengths = {6, 8}
  Mappings = {m1, m2, m3}
  NoMapping = NoMapping
SYMMETRY MappedSymmetry
\* The log file may be at its bounds, and a store file be left as it is.
CHECK_DEADLOCK FALSE
INVARIANTS
  WritesStayInside
  SingleWriter PublishedBacked WriterSettled
  AcceptedIsLayout ControlsKept
PROPERTIES AppendOnly ImplementsGrowingStore FixupIsAccepted
