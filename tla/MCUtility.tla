------------------------------ MODULE MCUtility ------------------------------
(***************************************************************************)
(* The independent parts of src/Utility, checked together: a behaviour is  *)
(* one of one part, and the other parts stay in one initial state.         *)
(***************************************************************************)
EXTENDS TimeTexts, RsrcUsage, MCEnvironment, CriticalEvents, ParsedText, Configuration,
        Identifiers, TextEdits, PathNames, Numbers, Translations, ProcessCalls

VARIABLE part

vars == <<time, usageVars, envVars, eventVars, textVars, configVars, version, uuid,
          commandLine, edited, nameVars, number, translated, processVars, part>>

-----------------------------------------------------------------------------
(* Values of the constants.                                                *)

\* Time: a second of 2 * 2 * 2 ticks, longs of six bits, doubles of four; local time
\* that is put back, and one behind UTC that is put forward.
MCPlaces  == [TimeT |-> 0, TimeVal |-> 2, TimeSpec |-> 3]
MCAmounts == {-8, -3, -1, 1, 4, 7}
MCOthers  == {-32, -31, -3, 0, 2, 3, 5, 13, 18, 25, 31}
MCFirstDate == -1
MCZones   == {[change |-> 6, before |-> 4, after |-> 2], [change |-> 10, before |-> -4, after |-> -2]}

MCCounted == {"user_cpu_time", "messages_received"}

MCChars == {"a", ",", "'", "cr", "lf"}
MCTexts ==
  UNION {[1 .. n -> MCChars] : n \in 0 .. 3} \cup [1 .. 4 -> MCChars \ {"a"}] \cup
  {<<"a", ",", "'", "lf", "'", "a">>, <<"'", "lf", "lf", "'", "cr", "lf">>,
   <<"'", "a", "'", "'", "lf", "'">>}

\* Configuration: long long has sixteen bits, as for the numbers, and int has three.
MCMembers  == [flag |-> "bool", narrow |-> "int", wide |-> "ull", name |-> "string"]
MCTypes    == [int |-> [is_signed |-> TRUE, min |-> -4, max |-> 3],
               ull |-> [is_signed |-> FALSE, min |-> 0, max |-> 65535]]
MCDefaults == [flag |-> FALSE, narrow |-> 1, wide |-> 1, name |-> EmptyValue]
MCLines ==
  {Skipped("noEquals"), Item("other", EmptyValue),
   Item("flag", Word("yes")), Item("flag", Number(0, TRUE)),
   Item("narrow", Number(3, TRUE)), Item("narrow", Number(4, TRUE)),
   Item("narrow", Number(-4, FALSE)), Item("narrow", EmptyValue), Item("narrow", Word("yes")),
   Item("wide", Number(-65534, TRUE)), Item("wide", Number(-65537, TRUE)),
   Item("name", Word("yes")), Item("name", EmptyValue)}

\* Identifiers: two ids, and texts of one of them with one character replaced.
MCHalves == {-2, 0, 1, 2, 4}
MCDigits ==
  <<"0", "1", "2", "3", "4", "5", "6", "7", "8", "9", "a", "b", "c", "d", "e", "f">>
MCNil == [i \in 1 .. 16 |-> <<"0", "0">>]
MCId  == [i \in 1 .. 16 |-> <<MCDigits[i], MCDigits[17 - i]>>]
MCIds == {MCId, [i \in 1 .. 16 |-> <<"f", MCDigits[i]>>]}
MCIdTexts ==
  LET text == UniqueIdToString(MCId)
  IN {[text EXCEPT ![i] = c] : i \in {1, 2, 9, 20, 36}, c \in {"g", "7", "-"}}
     \cup {SubSeq(text, 1, 35), <<>>}

\* Names: paths of slashes, dots and letters, and of other characters of names;
\* C++ names of up to four characters, and a::a<a<a>> and an operator.
Upto(n, chars) == UNION {[1 .. k -> chars] : k \in 0 .. n}
MCDemangledNames == {<<97, 58, 58, 97, 60, 97, 60, 97, 62, 62>>, <<97, 58, 97, 45, 62>>}
MCGivenNames  == Upto(4, {47, 46, 97}) \cup Upto(4, {46, 65, 45, 64}) \cup
                 Upto(3, {58, 60, 62, 97}) \cup [1 .. 4 -> {58, 60, 62}] \cup
                 MCDemangledNames
MCSystemHosts == {<<65, 46, 97, 64>>, <<46, 97>>}
MCSystemPaths == {<<47>>, <<47, 97, 47, 97>>}
MCUserName    == <<97, 95, 97>>

\* Numbers of one and of two bytes.
MCNumberTypes ==
  {[size |-> 1, is_signed |-> TRUE, min |-> -128, max |-> 127],
   [size |-> 1, is_signed |-> FALSE, min |-> 0, max |-> 255],
   [size |-> 2, is_signed |-> TRUE, min |-> -32768, max |-> 32767],
   [size |-> 2, is_signed |-> FALSE, min |-> 0, max |-> 65535]}
MCNumberValues ==
  {-32768, -32767, -129, -128, -127, -11, -10, -1, 0, 1, 7, 8, 9, 10, 11, 99, 100, 127, 128,
   129, 255, 256, 512, 32767, 32768, 65535}

\* Translations: letters, control characters, bytes of longer characters, and two
\* of these.
MCUtf8Chars ==
  {<<97>>, <<0>>, <<1>>, <<10>>, <<13>>, <<120>>, <<226>>, <<128>>, <<226, 128, 156>>,
   <<226, 128, 147>>}
MCUtf8Texts ==
  Upto(2, MCUtf8Chars) \cup [1 .. 3 -> {<<10>>, <<13>>, <<120>>, <<226>>, <<226, 128, 156>>}]
    \cup {<< <<13>>, <<10>>, <<13>>, <<10>> >>}
MCEscapeMaps ==
  {<<EscapeListRaw, EscapeListMap>>, << <<>>, <<>> >>,
   <<EscapeListRaw, SubSeq(EscapeListMap, 1, 2)>>}

MCResources == <<"RLIMIT_CPU", "RLIMIT_FSIZE", "RLIMIT_NOFILE">>

-----------------------------------------------------------------------------
Init ==
  /\ part \in {"time", "usage", "environment", "events", "csv", "lines",
               "configuration", "version", "uuid", "commandLine", "text", "names", "number",
               "translation", "sleep", "limits", "errors", "reading"}
  /\ IF part = "time" THEN TimeInit ELSE time = Time("TimeT", LongMax, 0)
  /\ UsageInit
  /\ IF part = "environment" THEN EnvironmentInit
     ELSE /\ environ = <<>>
          /\ envList = [list \in Lists |-> <<>>]
          /\ merged = NotMerged
  /\ EventInit
  /\ part # "events" => disposition = [signal \in Signals |-> "SIG_DFL"]
  /\ IF part \in {"csv", "lines"} THEN TextInit
     ELSE /\ source = <<>>
          /\ control = [value_sep |-> {","}, line_sep |-> {"lf"}, enable_crlf |-> FALSE,
                        max_nested_lines |-> 0]
          /\ csv = NewCsvState
          /\ lines = NewLineState
  /\ part = "lines" => control = CHOOSE c \in Controls : TRUE
  /\ ConfigInit
  /\ VersionInit
  /\ UniqueIdInit
  /\ IF part = "commandLine" THEN CommandLineInit
     ELSE commandLine = [argv |-> <<>>, index |-> 0, failed |-> FALSE, taken |-> <<>>]
  /\ EditInit
  /\ IF part = "names" THEN NameInit
     ELSE named = <<>> /\ system = [host |-> <<65>>, path |-> <<47>>]
  /\ IF part = "number" THEN NumberInit
     ELSE number = [type |-> CHOOSE t \in NumberTypes : t.size = 1, value |-> 0]
  /\ IF part = "translation" THEN TranslationInit ELSE translated = [chars |-> <<>>, text |-> <<>>]
  /\ SleepInit /\ ErrorInit /\ ReaderInit
  /\ IF part = "limits" THEN LimitsInit
     ELSE LET low == [i \in DOMAIN Resources |-> [soft |-> 1, hard |-> 1]]
          IN limits = [now |-> low, was |-> low, turn |-> 1, privileged |-> FALSE, outcome |-> "idle"]

\* What every other part leaves alone.
OthersStay ==
  /\ part # "time" => UNCHANGED time
  /\ part # "usage" => UNCHANGED usageVars
  /\ part # "environment" => UNCHANGED envVars
  /\ part # "events" => UNCHANGED eventVars
  /\ part \notin {"csv", "lines"} => UNCHANGED textVars
  /\ part # "configuration" => UNCHANGED configVars
  /\ part # "version" => UNCHANGED version
  /\ part # "uuid" => UNCHANGED uuid
  /\ part # "commandLine" => UNCHANGED commandLine
  /\ part # "text" => UNCHANGED edited
  /\ part # "names" => UNCHANGED nameVars
  /\ part # "number" => UNCHANGED number
  /\ part # "translation" => UNCHANGED translated
  /\ part \notin {"sleep", "limits", "errors", "reading"} => UNCHANGED processVars
  /\ UNCHANGED part

Next ==
  \/ part = "time" /\ TimeNext /\ OthersStay
  \/ part = "usage" /\ UsageNext /\ OthersStay
  \/ part = "environment" /\ EnvironmentNext /\ OthersStay
  \/ part = "events" /\ EventNext /\ OthersStay
  \/ part = "csv" /\ (ParseCsvLine \/ ParseCsvLineAtEnd) /\ OthersStay
  \/ part = "lines" /\ ParseLineSingle /\ OthersStay
  \/ part = "configuration" /\ ConfigNext /\ OthersStay
  \/ part = "version" /\ VersionNext /\ OthersStay
  \/ part = "uuid" /\ UniqueIdNext /\ OthersStay
  \/ part = "commandLine" /\ ResolveNext /\ OthersStay
  \/ part = "text" /\ EditNext /\ OthersStay
  \/ part = "names" /\ NameNext /\ OthersStay
  \/ part = "number" /\ NumberNext /\ OthersStay
  \/ part = "translation" /\ TranslationNext /\ OthersStay
  \/ part = "sleep" /\ SleepNext /\ OthersStay
  \/ part = "limits" /\ LimitsNext /\ OthersStay
  \/ part = "errors" /\ ErrorNext /\ OthersStay
  \/ part = "reading" /\ ReaderNext /\ OthersStay

Spec == Init /\ [][Next]_vars

-----------------------------------------------------------------------------
(* Two properties that take long, looked at where their parts move.        *)

\* No edit of a text (src/Utility/StringSplit.cpp:40 and its neighbours) and no
\* translation (MapUtf8ToAscii.cpp:68) loses or invents a character.
TextPartsKept == part \in {"text", "translation"} => TextsKept

\* Numbers and their texts (src/include/Utility/ToStringRadix.hpp:61) give each
\* other back in every radix, and the lengths foreseen for them suffice.
NumberPartShown == part = "number" => NumbersShown
=============================================================================
