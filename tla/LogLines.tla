------------------------------ MODULE LogLines ------------------------------
(***************************************************************************)
(* A line on its way to the log handlers: src/Logger/LogEmitControl.cpp    *)
(* lays out the leader in front of it and takes its text apart, and        *)
(* LogLevel.cpp names the levels.  A character of the leader is what it    *)
(* belongs to: "time", "level", "digit", "blank", "colon", "nul", or       *)
(* "unset" while nobody has written it.                                    *)
(***************************************************************************)
EXTENDS Integers, Sequences, FiniteSets, FiniteSetsExt, SequencesExt

CONSTANTS
  Length_TimeSpec,        \* the characters of a time
  TidWidth, TidModulus,   \* of the thread's id
  TidBase,                \* its digits
  LineLevels,             \* the levels that a caller gives, good and bad
  ThreadIds,
  LogTexts,               \* the texts that are logged, as sequences of characters
  NewLine                 \* the character that ends a line

VARIABLES
  emitControl,            \* the LogEmitControl
  levelCall               \* the last call of LogLevel.cpp

lineVars == <<emitControl, levelCall>>

-----------------------------------------------------------------------------
(* Levels.                                                                 *)

LogTextList ==
  <<"LITERAL", "SPAM", "MINUTIAE", "DEBUG", "DETAIL", "INFO", "NOTICE", "WARNING", "ERROR",
    "CRITICAL", "ALERT", "EMERGENCY", "FATAL">>

LogLevel_Minimum == 0
LogLevel_Maximum == 12
LogLevelTextMaxLength == 9
BadLevelText == "*********"

ConvertLogLevelToText(level) ==
  IF level < 0 \/ level >= Len(LogTextList) THEN BadLevelText ELSE LogTextList[level + 1]

GetLogLevelNameList == [i \in DOMAIN LogTextList |-> ConvertLogLevelToText(i - 1)]

\* Flags are the set of their bits.
LevelFlag(level) == {level}
LogFlag_Mask == UNION {LevelFlag(level) : level \in LogLevel_Minimum .. LogLevel_Maximum}

CheckLogLevel(level) ==
  IF level \in LogLevel_Minimum .. LogLevel_Maximum THEN <<level>> ELSE <<>>

LoopState(flags, done, first, second) ==
  [tmp_flags |-> flags, low_done |-> done, first |-> first, second |-> second]

LoopStates ==
  [tmp_flags : (SUBSET LogFlag_Mask) \ {{}}, low_done : BOOLEAN, first : Nat, second : Nat]

\* The loop over the bits, from the lowest: first and second are the pair's.  It
\* throws (an empty list) without a flag of a level.
LogLevelFlagsToLevels(flags) ==
  LET masked == flags \cap LogFlag_Mask
      loop[l \in LoopStates] ==
        LET low   == l.low_done \/ 0 \in l.tmp_flags
            first == IF low THEN l.first ELSE l.first + 1
        IN IF l.tmp_flags = {0} THEN <<first, l.second>>
           ELSE loop[LoopState({bit - 1 : bit \in l.tmp_flags \ {0}}, low, first, l.second + 1)]
  IN IF masked = {} THEN <<>>
     ELSE loop[LoopState(masked, FALSE, LogLevel_Minimum, LogLevel_Minimum)]

CallLevels ==
  /\ \/ \E level \in LineLevels :
          levelCall' = [call |-> "CheckLogLevel", levels |-> {level}, result |-> CheckLogLevel(level)]
     \/ \E levels \in SUBSET {level \in LineLevels : level >= 0} :
          levelCall' = [call |-> "LogLevelFlagsToLevels", levels |-> levels,
                        result |-> LogLevelFlagsToLevels(UNION {LevelFlag(l) : l \in levels})]
  /\ UNCHANGED emitControl

-----------------------------------------------------------------------------
(* The leader.                                                             *)

LogLineLeaderLength == Length_TimeSpec + 1 + LogLevelTextMaxLength + 1 + TidWidth + 2

TidDigits(tid) == CHOOSE n \in 1 .. tid + 1 : tid < TidBase ^ n /\ (n > 1 => tid >= TidBase ^ (n - 1))

\* Every id below the modulus, 2^32 - 1, fits its ten digits.
ASSUME LogLinesAssumption ==
  /\ Length_TimeSpec \in Nat /\ TidWidth \in Nat
  /\ TidModulus \in Nat \ {0}
  /\ \A tid \in 0 .. TidModulus - 1 : TidDigits(tid) \in 1 .. TidWidth
  /\ ThreadIds \subseteq Nat /\ LineLevels \subseteq Int
  /\ \A text \in LogTexts : text \in Seq(ToSet(text))

Fill(what, count) == [i \in 1 .. count |-> what]

TidText_Bug(tid) == Fill("digit", TidDigits(tid))

\* A long id keeps its first digits and shows that it had more.
TidText(tid) ==
  LET digits == TidDigits(tid % TidModulus)
  IN IF digits > TidWidth THEN Append(Fill("digit", TidWidth - 1), "more")
     ELSE Fill("blank", TidWidth - digits) \o Fill("digit", digits)

\* The constructor does not write the time, nor the blank behind it.
FormattedLeader(tid) ==
  Fill("unset", Length_TimeSpec + 1) \o Fill("level", LogLevelTextMaxLength) \o <<"blank">>
  \o TidText(tid) \o <<"colon", "blank", "nul">>

\* Only the first character is written.
LiteralLeader == <<"nul">> \o Fill("unset", LogLineLeaderLength)

\* The zero time has no blank behind it.
UpdateTime(control) ==
  LET written == Length_TimeSpec + (IF "LogZeroTime" \in control.log_flags THEN 0 ELSE 1)
  IN [control EXCEPT !.line_leader =
        [i \in DOMAIN @ |-> IF i <= Length_TimeSpec THEN "time"
                            ELSE IF i <= written THEN "blank" ELSE @[i]]]

ShouldLogScreen(control)     == control.log_level \in control.screen
ShouldLogPersistent(control) == control.log_level \in control.persistent

-----------------------------------------------------------------------------
(* The lines of the text.  An unread text has the offset 0.                *)

NextEnd(text, from) ==
  LET ends == {i \in from + 1 .. Len(text) : text[i] = NewLine}
  IN IF ends = {} THEN Len(text) + 1 ELSE Min(ends)

\* The next line and the offset behind it; no line (an empty list) at the end.
GetNextLine(control) ==
  LET text == control.line_buffer
      from == control.this_line_offset
      end  == NextEnd(text, from)
  IN IF from > Len(text) THEN [line |-> <<>>, offset |-> from]
     ELSE IF from = 0 /\ text = <<>> THEN [line |-> << <<>> >>, offset |-> 1]
     ELSE [line |-> << SubSeq(text, from + 1, end - 1) >>,
           offset |-> IF end > Len(text) THEN Len(text) + 1 ELSE end]

ResetLines(control) == [control EXCEPT !.this_line_offset = 0, !.given = <<>>, !.at_end = FALSE]

LogEmitControl(flags, level, text, leader) ==
  [log_flags |-> flags, log_level |-> level, screen |-> {level}, persistent |-> {level},
   line_buffer |-> text, line_leader |-> leader, this_line_offset |-> 0, updated |-> FALSE,
   given |-> <<>>, at_end |-> FALSE]

\* Handlers take the time, read the lines, and may begin again; given is what
\* they have got since then.
UseEmitControl ==
  /\ LET next == GetNextLine(emitControl)
     IN \/ emitControl' = [UpdateTime(emitControl) EXCEPT !.updated = TRUE]
        \/ /\ ~emitControl.at_end
           /\ emitControl' = [emitControl EXCEPT !.this_line_offset = next.offset,
                                !.given = @ \o next.line, !.at_end = next.line = <<>>]
        \/ emitControl' = ResetLines(emitControl)
  /\ UNCHANGED levelCall

LineInit ==
  /\ \E flags \in SUBSET {"LogLocalTime", "LogZeroTime"}, level \in LineLevels,
        tid \in ThreadIds, text \in LogTexts :
       \/ emitControl = LogEmitControl(flags, level, text, FormattedLeader(tid))
       \/ emitControl = LogEmitControl(flags, level, <<>>, LiteralLeader)
  /\ levelCall = [call |-> "none", levels |-> {}, result |-> <<>>]

LineNext == CallLevels \/ UseEmitControl
LineSpec == LineInit /\ [][LineNext]_lineVars

-----------------------------------------------------------------------------
(* Properties.                                                             *)

\* Lines as one text, with an end of a line between each two.
JoinLines(lines) ==
  LET joined[n \in 0 .. Len(lines)] ==
        IF n = 0 THEN <<>>
        ELSE IF n = 1 THEN lines[1] ELSE joined[n - 1] \o <<NewLine>> \o lines[n]
  IN joined[Len(lines)]

\* Joined again, the lines read since the last reset are the text of
\* src/Logger/LogEmitControl.cpp:113, however often its end was reached before.
LinesWhole ==
  LET c == emitControl
  IN /\ c.at_end => c.given # <<>> /\ JoinLines(c.given) = c.line_buffer
     /\ \A i \in DOMAIN c.given : NewLine \notin ToSet(c.given[i])

\* A leader that has got its time has every column at its place, as long as the
\* array is, but for the blank behind a zero time (LogEmitControl.cpp:154).
LeaderInPlace ==
  LET c   == emitControl
      tid == Length_TimeSpec + LogLevelTextMaxLength + 2
  IN /\ Len(c.line_leader) = LogLineLeaderLength + 1
     /\ c.line_leader[LogLineLeaderLength + 1] = "nul" =>
          /\ \A i \in 1 .. LogLineLeaderLength :
               c.line_leader[i] = "unset" =>
                 ~c.updated \/ (i = Length_TimeSpec + 1 /\ "LogZeroTime" \in c.log_flags)
          /\ c.line_leader[tid + TidWidth] = "digit"
          /\ c.line_leader[tid + TidWidth + 1] = "colon"
          /\ \A i, j \in tid + 1 .. tid + TidWidth :
               c.line_leader[i] = "digit" /\ i < j => c.line_leader[j] = "digit"

\* A level is refused where it has no name (LogLevel.cpp:127), and the lowest and
\* the highest level are found for any set of flags (LogLevel.cpp:143).
LevelsFound ==
  LET levels == levelCall.levels \cap (LogLevel_Minimum .. LogLevel_Maximum)
  IN /\ levelCall.call = "CheckLogLevel" =>
          (levelCall.result = <<>> <=> ConvertLogLevelToText(Min(levelCall.levels)) = BadLevelText)
     /\ levelCall.call = "LogLevelFlagsToLevels" =>
          levelCall.result = IF levels = {} THEN <<>> ELSE <<Min(levels), Max(levels)>>

\* What a handler is given of a line, and what the functions on levels say.
LinesLaidOut == LinesWhole /\ LeaderInPlace /\ LevelsFound

=============================================================================
