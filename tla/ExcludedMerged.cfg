SPECIFICATION EnvironmentSpec
\* A merge comes to an end.
CHECK_DEADLOCK FALSE
CONSTANTS
  SmartNames = {1}
  PathNames = {2}
  BadStrings = {noname}
  Malformed = Malformed
  NotMerged = NotMerged
  EnvLists <- MCEnvLists
INVARIANT ExcludedNotMerged
