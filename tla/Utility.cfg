SPECIFICATION Spec
\* A merge, a text, a load, a command line and a process come to an end.
CHECK_DEADLOCK FALSE
CONSTANTS
  \* time values
  MilliPerSec = 2
  MicroPerMilli = 2
  NanoPerMicro = 2
  LongMax = 31
  DoubleSize = 16
  Ulps = {1, 2, 4, 8, 16, 32}
  Base = 2
  Places <- MCPlaces
  HoursPerDay = 2
  MinutesPerHour = 2
  SecondsPerMinute = 2
  DaysShown = 2
  DatesShown = 4
  DatesBefore1970 = 2
  FirstDate <- MCFirstDate
  CalendarEnd = 26
  Zones <- MCZones
  Amounts <- MCAmounts
  Others <- MCOthers
  \* resource usage
  UsageObjects = {"u1", "u2"}
  Counted <- MCCounted
  CounterMax = 1
  UsageMax = UsageMax
  QuestionMarks = QuestionMarks
  NoText = NoText
  NoInterval = NoInterval
  \* environment
  SmartNames = {1}
  PathNames = {2}
  BadStrings = {noname}
  Malformed = Malformed
  NotMerged = NotMerged
  EnvLists <- MCEnvLists
  \* critical events
  EventHandlers = {"h1", "h2"}
  ProgramHandlers = {"SIG_DFL", "onInterrupt"}
  \* texts
  Quotes = {"'", "dq"}
  LF = "lf"
  CR = "cr"
  SepLists = {{}, {","}, {"lf"}, {"lf", "cr"}}
  NestedLimits = {0, 1}
  Texts <- MCTexts
  \* configuration
  WideMax = 32767
  Members <- MCMembers
  NumericTypes <- MCTypes
  TrueWords = {"yes"}
  FalseWords = {"no"}
  DefaultSettings <- MCDefaults
  Lines <- MCLines
  FileLength = 2
  LoadCount = 2
  \* identifiers
  VersionMax = 1
  Halves <- MCHalves
  NotANumber = NotANumber
  BadElement = BadElement
  HexDigits = {"0", "1", "2", "3", "4", "5", "6", "7", "8", "9", "a", "b", "c", "d", "e", "f"}
  OtherChars = {"g"}
  IdTexts <- MCIdTexts
  Ids <- MCIds
  NilId <- MCNil
  Arguments = {"-a", "-b"}
  ArgumentsMax = 4
  \* texts of bytes, and names
  Bytes = {32, 65, 95, 97}
  Space = 32
  TextMax = 3
  GivenNames <- MCGivenNames
  DemangledNames <- MCDemangledNames
  SystemHosts <- MCSystemHosts
  SystemPaths <- MCSystemPaths
  UserName <- MCUserName
  NameLengths = {2, 5}
  \* numbers
  CHAR_BIT = 8
  WideSize = 2
  NumberTypes <- MCNumberTypes
  NumberValues <- MCNumberValues
  TableSizes = {1, 2, 3, 4, 5, 6, 7, 8, 10, 12, 16, 32, 64}
  EpsilonInverse = 4
  \* translations
  Utf8Texts <- MCUtf8Texts
  EscapeMaps <- MCEscapeMaps
  TeletypeCodes = {5, 33, 64}
  \* calls to the system
  UIntModulus = 16
  SleepArguments = {1, 3, 4, 9, 17}
  Resources <- MCResources
  Unlimited = 3
  LimitValues = {1, 2}
  FileBytes = {1, 2}
  FileMax = 2
  WritesMax = 2
  ErrorCodes = {1, 2}
  KnownCodes = {1}
  NoError = NoError
INVARIANTS
  TimeSumExact TimeLimitChecked TimeDifferenceExact TimeTextRoundTrip
  UsageReported EnvironmentMerged HandlersInPlace TextRowsRead ConfigApplied IdentifiersRead
  NamesFit NumberPartShown TextPartsKept CallsDoAsAsked
