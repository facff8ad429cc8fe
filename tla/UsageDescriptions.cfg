SPECIFICATION DescribedSpec
CONSTANTS
  UsageObjects = {"u1", "u2"}
  Counted <- MCCounted
  CounterMax = 1
  UsageMax = UsageMax
  QuestionMarks = QuestionMarks
  NoText = NoText
  NoInterval = NoInterval
INVARIANT DescriptionKept
