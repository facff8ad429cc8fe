---------------------------- MODULE Configuration ----------------------------
(***************************************************************************)
(* Configuration files of src/Utility: lines "name = value" that set the   *)
(* members of an object, through ParseCfgItemDatum and ParseNumericString. *)
(* A line is what GetParseCfgLineComponents makes of it, and a value what  *)
(* the conversions tell apart: a word, or a number with or without         *)
(* characters behind it.                                                   *)
(***************************************************************************)
EXTENDS Integers, Sequences, SequencesExt, FiniteSets

CONSTANTS
  WideMax,           \* the largest long long, one less than a power of two
  Members,           \* the names of the map, with the types of their members
  NumericTypes,      \* the numeric types, with is_signed, min and max
  TrueWords, FalseWords,
  DefaultSettings,
  Lines,             \* the lines that files are made of
  FileLength, LoadCount    \* bounds: the lines of a file, and the files that are loaded

VARIABLES
  settings,          \* the members of the object
  load,              \* the call in progress: the lines left and the line number
  loaded             \* for the properties: what the call was given, and how many there were

configVars == <<settings, load, loaded>>

-----------------------------------------------------------------------------
(* Values.  A result is the new value of a member, or Refused.             *)

Word(text)           == [kind |-> "word", text |-> text]
Number(value, clean) == [kind |-> "number", value |-> value, clean |-> clean]
EmptyValue           == Word("")

Accepted(value) == [refused |-> FALSE, value |-> value]
Refused(value)  == [refused |-> TRUE, value |-> value]

Clamp(low, high, n) == IF n < low THEN low ELSE IF n > high THEN high ELSE n

UWideMax == 2 * WideMax + 1

\* strtoll() and strtoull(): out of range gives the nearest limit, and the
\* unsigned one negates in its own width what follows a minus sign.
StrToType(type, n) ==
  IF type.is_signed THEN Clamp(-WideMax - 1, WideMax, n)
  ELSE IF n < -UWideMax \/ n > UWideMax THEN UWideMax
  ELSE n % (UWideMax + 1)

ParseNumericString_Bug(type, number, datum) ==
  LET wide == StrToType(type, number.value)
  IN IF ~number.clean \/ wide <= type.min \/ wide >= type.max THEN Refused(datum)
     ELSE Accepted(wide)

ParseNumericString(type, number, datum) ==
  LET wide == StrToType(type, number.value)
  IN IF ~number.clean \/ wide < type.min \/ wide > type.max THEN Refused(datum)
     ELSE Accepted(wide)

\* No number can be read of a word: the conversion stops at its start.
AsNumber(value) == IF value.kind = "number" THEN value ELSE Number(0, FALSE)

ParseCfgItemBool(value, datum) ==
  CASE value.kind = "number" /\ value.clean /\ value.value \in {0, 1} -> Accepted(value.value = 1)
    [] value.kind = "word" /\ value.text \in TrueWords  -> Accepted(TRUE)
    [] value.kind = "word" /\ value.text \in FalseWords -> Accepted(FALSE)
    [] OTHER -> Refused(datum)

\* An empty value leaves a number as it is, and is refused by a flag.
ParseCfgItemDatum(type, value, datum) ==
  CASE type = "bool"   -> ParseCfgItemBool(value, datum)
    [] type = "string" -> Accepted(value)
    [] OTHER -> IF value = EmptyValue THEN Accepted(datum)
                ELSE ParseNumericString(NumericTypes[type], AsNumber(value), datum)

\* Types are two's complement or unsigned, and no wider than the conversions.
ASSUME TypesAssumption ==
  /\ WideMax \in Nat
  /\ DOMAIN NumericTypes \cap {"bool", "string"} = {}
  /\ \A name \in DOMAIN NumericTypes :
       LET type == NumericTypes[name]
       IN \/ type.is_signed = TRUE /\ type.max \in 0 .. WideMax /\ type.min = -type.max - 1
          \/ type.is_signed = FALSE /\ type.max \in 0 .. UWideMax /\ type.min = 0

\* Members have such a type, and a default; lines have values of either kind.
ASSUME LinesAssumption ==
  /\ TrueWords \cap FalseWords = {}
  /\ \A name \in DOMAIN Members : Members[name] \in DOMAIN NumericTypes \cup {"bool", "string"}
  /\ DefaultSettings = [name \in DOMAIN Members |-> DefaultSettings[name]]
  /\ \A line \in Lines :
       /\ line.kind \in {"blank", "comment", "noEquals", "noName", "item"}
       /\ \/ line.value.kind = "word" /\ line.value = Word(line.value.text)
          \/ /\ line.value.kind = "number"
             /\ line.value.value \in Int /\ line.value.clean \in BOOLEAN
             /\ line.value = Number(line.value.value, line.value.clean)

-----------------------------------------------------------------------------
(* Lines and files.                                                        *)

Skipped(kind)     == [kind |-> kind, name |-> "", value |-> EmptyValue]
Item(name, value) == [kind |-> "item", name |-> name, value |-> value]

\* What GetParseCfgLineComponents says of a line: FALSE for a blank one and a
\* comment, an exception for one without "=" or without a name before it.
GetParseCfgLineComponents(line) ==
  CASE line.kind \in {"blank", "comment"}    -> "skip"
    [] line.kind \in {"noEquals", "noName"} -> "throw"
    [] OTHER -> "item"

\* A file that is empty or ends in a line feed gives an empty line at its end.
ReadFileLines(file) == IF file.ended THEN Append(file.lines, Skipped("blank")) ELSE file.lines

Files ==
  {file \in [lines : UNION {[1 .. n -> Lines] : n \in 0 .. FileLength}, ended : BOOLEAN] :
     file.lines = <<>> => file.ended}

Idle == [lines |-> <<>>, line_number |-> 0, outcome |-> "none"]

\* Opening or reading the file may fail, before any line is parsed.
ParseCfgFile ==
  /\ load.outcome # "parsing"
  /\ loaded.count < LoadCount
  /\ \/ \E file \in Files :
          /\ load'   = [lines |-> ReadFileLines(file), line_number |-> 0, outcome |-> "parsing"]
          /\ loaded' = [before |-> settings, lines |-> ReadFileLines(file), count |-> loaded.count + 1]
     \/ /\ load'   = [Idle EXCEPT !.outcome = "threw"]
        /\ loaded' = [before |-> settings, lines |-> <<>>, count |-> loaded.count + 1]
  /\ UNCHANGED settings

\* One turn of the loop of ParseCfgLines; an exception carries the line number.
ParseCfgLine ==
  LET line      == Head(load.lines)
      component == GetParseCfgLineComponents(line)
      found     == component = "item" /\ line.name \in DOMAIN Members
      result    == ParseCfgItemDatum(Members[line.name], line.value, settings[line.name])
      fails     == component = "throw" \/ (component = "item" /\ (~found \/ result.refused))
  IN /\ load.outcome = "parsing" /\ load.lines # <<>>
     /\ settings' = IF found THEN [settings EXCEPT ![line.name] = result.value] ELSE settings
     /\ load' = [lines       |-> IF fails THEN <<>> ELSE Tail(load.lines),
                 line_number |-> load.line_number + 1,
                 outcome     |-> IF fails THEN "threw" ELSE "parsing"]
     /\ UNCHANGED loaded

ParseCfgReturns ==
  /\ load.outcome = "parsing" /\ load.lines = <<>>
  /\ load' = [load EXCEPT !.outcome = "returned"]
  /\ UNCHANGED <<settings, loaded>>

ConfigInit ==
  /\ settings = DefaultSettings
  /\ load = Idle
  /\ loaded = [before |-> DefaultSettings, lines |-> <<>>, count |-> 0]

ConfigNext == ParseCfgFile \/ ParseCfgLine \/ ParseCfgReturns

ConfigSpec == ConfigInit /\ [][ConfigNext]_configVars

-----------------------------------------------------------------------------
(* Properties.                                                             *)

\* The number that a numeric member may take from a text, if any: the number
\* itself if the type has it; a number beyond a type that is as wide as its
\* conversion becomes the type's limit; and to an unsigned type a negative
\* number is the one that it wraps to.
Means(type, n) ==
  LET widest == type.max = (IF type.is_signed THEN WideMax ELSE UWideMax)
      within(k) == type.min <= k /\ k <= type.max
  IN IF within(n) THEN {n}
     ELSE IF ~type.is_signed /\ n < 0 /\ n >= -UWideMax
     THEN {n + UWideMax + 1} \cap type.min .. type.max
     ELSE IF widest THEN {IF type.is_signed /\ n < type.min THEN type.min ELSE type.max}
     ELSE {}

ValueMeans(type, value, datum) ==
  CASE type = "string" -> {value}
    [] type = "bool"   -> {b \in BOOLEAN :
                             \/ value \in {Word(w) : w \in IF b THEN TrueWords ELSE FalseWords}
                             \/ value = Number(IF b THEN 1 ELSE 0, TRUE)}
    [] OTHER -> IF value = EmptyValue THEN {datum}
                ELSE IF value.kind = "word" \/ ~value.clean THEN {}
                ELSE Means(NumericTypes[type], value.value)

GoodLine(line) ==
  \/ line.kind \in {"blank", "comment"}
  \/ /\ line.kind = "item" /\ line.name \in DOMAIN Members
     /\ ValueMeans(Members[line.name], line.value, DefaultSettings[line.name]) # {}

\* The lines of a file that set a member to something.
Sets(line, name) ==
  line.kind = "item" /\ line.name = name /\ (Members[name] \in {"bool", "string"} \/ line.value # EmptyValue)

\* At every line of a file each member has the value of the last line that set
\* it, or what it had before the file; the lines before a bad one have been
\* applied, none behind it is, and the exception names that line
\* (ParseCfgFile.hpp:94).  Numbers are never silently cut to their members'
\* widths, except that one beyond long long or unsigned long long becomes the
\* limit and a negative one wraps in an unsigned member (ParseNumericString.hpp:198).
ConfigApplied ==
  LET done == IF load.outcome = "threw" /\ load.line_number > 0 THEN load.line_number - 1
              ELSE load.line_number
      good == SubSeq(loaded.lines, 1, done)
      Last_(name) == {i \in DOMAIN good : Sets(good[i], name)
                                          /\ \A j \in DOMAIN good : Sets(good[j], name) => j <= i}
  IN /\ \A i \in DOMAIN good : GoodLine(good[i])
     /\ load.outcome = "threw" /\ load.line_number > 0 => ~GoodLine(loaded.lines[load.line_number])
     /\ load.outcome = "returned" => done = Len(loaded.lines)
     /\ \A name \in DOMAIN Members :
          IF Last_(name) = {} THEN settings[name] = loaded.before[name]
          ELSE \A i \in Last_(name) :
                 ValueMeans(Members[name], good[i].value, loaded.before[name]) = {settings[name]}
=============================================================================
