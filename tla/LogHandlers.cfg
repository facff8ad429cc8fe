SPECIFICATION HandlersSpec
CONSTANTS
  \* the mapped file
  Files = {f1, f2}
  NoFile = NoFile
  Openers = {o1}
  Page = 2
  DefaultAllocSize = 5
  UIntLimit = 16
  Lengths = {1, 4}
  Found <- FoundContents
  MayReopen = TRUE
  MayTruncate = FALSE
  MaxEmissions = 2
  MaxCrashes = 1
  MaxFailures = 1
  \* log lines and log files
  Length_TimeSpec = 3
  TidWidth = 4
  TidModulus = 15
  TidBase = 2
  LineLevels <- MCLineLevels
  ThreadIds = {0, 5, 15, 16, 31}
  LogTexts <- MCLogTexts
  NewLine = "nl"
  Handlers = {"file", "xfile"}
  Callers = {"c1", "c2"}
  ClassOf <- MCClassOf
  FileNames = {"f1", "f2"}
  ShortLines = {"short"}
  LongLines = {"long"}
  Literals = {"long"}
  LinePlaces = {{"file", "console"}}
  FlagSets = {{}, {"NoConsoleOutput", "DoNotAppend"}}
  OpensMax = 1
  NoStream = NoStream
  Nobody = Nobody
INVARIANTS NoGaps LogFilesKept LinesLaidOut
\* The files may be at their bounds, a line has been read and a program may have ended.
CHECK_DEADLOCK FALSE
SYMMETRY FileSymmetry
