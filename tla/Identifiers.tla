----------------------------- MODULE Identifiers -----------------------------
(***************************************************************************)
(* Values that src/Utility reads from short texts: VersionNumber, UniqueId *)
(* and the arguments of a command line.  A digit, a character or an        *)
(* argument is a member of a small set; a hexadecimal digit is its value.  *)
(***************************************************************************)
EXTENDS Integers, Sequences, FiniteSets, SequencesExt

CONSTANTS
  VersionMax,        \* the largest uint32_t
  Halves,            \* the numbers, in halves, that an element of a version text may be
  NotANumber,        \* the element "nan"
  BadElement,        \* an element with a character that no number has
  HexDigits,         \* the digits that ids are made of
  OtherChars,        \* characters that are no digit and no dash
  IdTexts,           \* texts that are read as an id
  Ids,               \* ids of the system's generator, as sequences of bytes
  NilId,             \* the id of zero bytes
  Arguments,         \* the arguments of the command line
  ArgumentsMax       \* bound: their number

VARIABLES
  version,           \* two objects of class VersionNumber
  uuid,              \* two objects of class UniqueId
  commandLine        \* argv, and the options that were resolved so far

Dash == "-"

\* An element of a version text that is no number is not mistaken for one; ids
\* have sixteen bytes of two digits, and texts are made of characters.
ASSUME IdentifiersAssumption ==
  /\ VersionMax \in Nat /\ Halves \subseteq Int
  /\ \A n \in 0 .. VersionMax : {2 * n} \cap {NotANumber, BadElement} = {}
  /\ Ids \cup {NilId} \subseteq [1 .. 16 -> HexDigits \X HexDigits]
  /\ IdTexts \subseteq Seq(HexDigits \cup OtherChars \cup {Dash})
  /\ ArgumentsMax \in Nat

-----------------------------------------------------------------------------
(* VersionNumber: the major, minor, release and build numbers.             *)

Objects          == 1 .. 2
UInt32           == 0 .. VersionMax
GetMinimumValue  == [i \in 1 .. 4 |-> 0]
GetMaximumValue  == [i \in 1 .. 4 |-> VersionMax]

\* An element that is empty is read as zero.
ElementHalves(element) == IF element = <<>> THEN 0 ELSE element[1]

\* strtod() has read the whole element, a number within the range and integral.
ElementAccepted(element) ==
  LET halves == ElementHalves(element)
  IN /\ element \notin {<<BadElement>>, <<NotANumber>>}
     /\ 0 <= halves /\ halves <= 2 * VersionMax
     /\ halves % 2 = 0

\* An exception makes no value; the four numbers are zeros as far as elements are missing.
FromStringThrows(text, require_all_segments) ==
  \/ text = << <<>> >>      \* the empty text
  \/ Len(text) > 4
  \/ require_all_segments /\ Len(text) < 4
  \/ \E i \in DOMAIN text : ~ElementAccepted(text[i])

FromString(text) ==
  [i \in 1 .. 4 |-> IF i <= Len(text) THEN ElementHalves(text[i]) \div 2 ELSE 0]

VersionToString(v) == [i \in 1 .. 4 |-> << 2 * v[i] >>]

VersionCompare(lhs, rhs) ==
  LET differing == {i \in 1 .. 4 : lhs[i] # rhs[i]}
      first     == CHOOSE i \in differing : \A j \in differing : i <= j
  IN IF differing = {} THEN 0 ELSE IF lhs[first] < rhs[first] THEN -1 ELSE 1

SetVersion(object, v) == version' = [version EXCEPT ![object] = v]

\* SetMajor .. SetBuild.
SetNumber(object) ==
  \E i \in 1 .. 4, n \in UInt32 : SetVersion(object, [version[object] EXCEPT ![i] = n])

SetToMinimumValue(object) == SetVersion(object, GetMinimumValue)
SetToMaximumValue(object) == SetVersion(object, GetMaximumValue)

VersionSwap == version' = [version EXCEPT ![1] = version[2], ![2] = version[1]]

Elements == {<<>>, <<NotANumber>>, <<BadElement>>} \cup {<<n>> : n \in Halves}

VersionTexts ==
  {[i \in 1 .. n |-> IF i = n THEN f ELSE e] : n \in 1 .. 5, e, f \in Elements}

\* The assignment of what FromString returns; its exception changes nothing.
VersionFromString(object) ==
  \E text \in VersionTexts, require_all_segments \in BOOLEAN :
    IF FromStringThrows(text, require_all_segments) THEN UNCHANGED version
    ELSE SetVersion(object, FromString(text))

VersionInit == version = [object \in Objects |-> GetMinimumValue]

VersionNext ==
  \/ \E object \in Objects :
       \/ SetNumber(object)
       \/ SetToMinimumValue(object)
       \/ SetToMaximumValue(object)
       \/ VersionFromString(object)
  \/ VersionSwap

-----------------------------------------------------------------------------
(* UniqueId: 16 bytes, and texts of 36 characters.                         *)

UniqueIdStringLength == 36
Dashes               == {8, 13, 18, 23}

\* The loop of ToStringByteOrder: a byte takes two turns of its counter, and
\* tmp_ptr_i is one byte behind the characters without the dashes so far.
ToStringByteOrder(id) ==
  LET text[count \in 0 .. UniqueIdStringLength + 1] ==
        IF count >= UniqueIdStringLength THEN <<>>
        ELSE IF count \in Dashes THEN <<Dash>> \o text[count + 1]
        ELSE LET dashes == Cardinality({d \in Dashes : d < count})
                 byte   == id[((count - dashes) \div 2) + 1]
             IN <<byte[1], byte[2]>> \o text[count + 2]
  IN text[0]

\* The library writes the bytes in this order, too.
UniqueIdToString(id) ==
  LET Hex(n) == [i \in 1 .. 2 * n |-> id[((i - 1) \div 2) + 1][((i - 1) % 2) + 1]]
      digits == Hex(16)
  IN SubSeq(digits, 1, 8) \o <<Dash>> \o SubSeq(digits, 9, 12) \o <<Dash>>
     \o SubSeq(digits, 13, 16) \o <<Dash>> \o SubSeq(digits, 17, 20) \o <<Dash>>
     \o SubSeq(digits, 21, 32)

\* The check of the digits looks at the first character again and again.
UniqueIdFromStringThrows(text) ==
  \/ Len(text) # UniqueIdStringLength
  \/ \E d \in Dashes : text[d + 1] # Dash
  \/ text[1] \notin HexDigits

\* The library reads the digits and the dashes one behind the other, and leaves
\* the nil id as it is when it comes to a character that it does not expect.
DigitPlace(k) == k + Cardinality({digits \in {8, 12, 16, 20} : digits < k})

UniqueIdFromString(text) ==
  LET digit(k) == text[DigitPlace(k)]
  IN IF \E k \in 1 .. 32 : digit(k) \notin HexDigits THEN NilId
     ELSE [i \in 1 .. 16 |-> <<digit(2 * i - 1), digit(2 * i)>>]

UniqueIdAssignText(object) ==
  \E text \in IdTexts \cup {UniqueIdToString(uuid[other]) : other \in Objects} :
    IF UniqueIdFromStringThrows(text) THEN UNCHANGED uuid
    ELSE uuid' = [uuid EXCEPT ![object] = UniqueIdFromString(text)]

\* A new id of the system, or the nil id of the constructor with FALSE.
UniqueIdAssignNew(object) ==
  \E id \in Ids \cup {NilId} : uuid' = [uuid EXCEPT ![object] = id]

UniqueIdSwap == uuid' = [uuid EXCEPT ![1] = uuid[2], ![2] = uuid[1]]

IsZero(id) == \A i \in DOMAIN id : id[i] = NilId[i]

UniqueIdInit == uuid = [object \in Objects |-> NilId]

UniqueIdNext ==
  \/ \E object \in Objects : UniqueIdAssignText(object) \/ UniqueIdAssignNew(object)
  \/ UniqueIdSwap

-----------------------------------------------------------------------------
(* The command line.  Its options are looked for one by one, from the left *)
(* or behind the last one, and each takes a number of arguments behind it. *)

GetCmdLineArgIdx(args, option, first) ==
  LET found == {i \in first .. Len(args) - 1 : args[i + 1] = option}
  IN IF found = {} THEN -1 ELSE CHOOSE i \in found : \A j \in found : i <= j

CheckCmdLineSourceThrows(args, index) == index < 0 \/ index >= Len(args)

Resolved(count)  == [thrown |-> FALSE, count |-> count]
ResolveThrows    == [thrown |-> TRUE, count |-> 0]
Smaller(m, n)    == IF m < n THEN m ELSE n

ResolveCmdLineArg_Bug(option, args, index, min_added, max_added) ==
  LET remaining == Len(args) - index - 1
  IN IF CheckCmdLineSourceThrows(args, index) \/ min_added < 0 \/ max_added < min_added
     THEN ResolveThrows
     ELSE IF args[index + 1] # option THEN Resolved(0)
     ELSE Resolved(1 + IF max_added > min_added THEN Smaller(max_added, remaining) ELSE min_added)

\* The option itself and the arguments that it takes, or none of them if the
\* argument at the index is another one.
ResolveCmdLineArg(option, args, index, min_added, max_added) ==
  LET remaining == Len(args) - index - 1
  IN IF CheckCmdLineSourceThrows(args, index) \/ min_added < 0 \/ max_added < min_added
     THEN ResolveThrows
     ELSE IF args[index + 1] # option THEN Resolved(0)
     ELSE IF min_added > remaining THEN ResolveThrows
     ELSE Resolved(1 + IF max_added > min_added THEN Smaller(max_added, remaining) ELSE min_added)

ResolveNext ==
  /\ ~commandLine.failed
  /\ \E option \in Arguments, min_added, max_added \in -1 .. ArgumentsMax :
       LET index  == commandLine.index
           result == ResolveCmdLineArg(option, commandLine.argv, index, min_added, max_added)
       IN commandLine' =
            [commandLine EXCEPT
               !.index  = IF result.count > 0 THEN index + result.count
                          ELSE GetCmdLineArgIdx(commandLine.argv, option, index),
               !.failed = result.thrown \/ (result.count = 0
                            /\ GetCmdLineArgIdx(commandLine.argv, option, index) = -1),
               !.taken  = IF result.count = 0 THEN @
                          ELSE Append(@, [option |-> option, first |-> index, count |-> result.count,
                                          min |-> min_added, max |-> max_added])]

CommandLineInit ==
  \E n \in 1 .. ArgumentsMax : \E argv \in [1 .. n -> Arguments] :
    commandLine = [argv |-> argv, index |-> 0, failed |-> FALSE, taken |-> <<>>]

-----------------------------------------------------------------------------
(* The three kinds of values side by side.                                 *)

identifierVars == <<version, uuid, commandLine>>

IdentifiersInit == VersionInit /\ UniqueIdInit /\ CommandLineInit

IdentifiersNext ==
  \/ VersionNext /\ UNCHANGED <<uuid, commandLine>>
  \/ UniqueIdNext /\ UNCHANGED <<version, commandLine>>
  \/ ResolveNext /\ UNCHANGED <<version, uuid>>

IdentifiersSpec == IdentifiersInit /\ [][IdentifiersNext]_identifierVars

-----------------------------------------------------------------------------
(* Properties.                                                             *)

VersionTextsRead ==
  \A text \in VersionTexts : ~FromStringThrows(text, FALSE) =>
    LET read == FromString(text)
    IN \A i \in 1 .. 4 :
         /\ read[i] \in UInt32
         /\ i \in DOMAIN text /\ text[i] # <<>> => text[i] = <<2 * read[i]>>

\* A version that is written is read back, what is read of a text is in the
\* range and what its elements say, and Compare is an order of the values.
VersionsRead ==
  LET compared == VersionCompare(version[1], version[2])
  IN /\ \A object \in Objects :
          LET text == VersionToString(version[object])
          IN ~FromStringThrows(text, TRUE) /\ FromString(text) = version[object]
     /\ VersionTextsRead
     /\ compared = -VersionCompare(version[2], version[1])
     /\ compared = 0 <=> version[1] = version[2]

IdTextsRead ==
  \A text \in IdTexts : ~UniqueIdFromStringThrows(text) =>
    LET read == UniqueIdFromString(text)
    IN \/ UniqueIdToString(read) = text
       \/ /\ IsZero(read)
          /\ \E i \in 1 .. UniqueIdStringLength : i - 1 \notin Dashes /\ text[i] \notin HexDigits

\* Both writers of an id agree, and what they write is read back.  A text that
\* is accepted is the text of the id that is read, or has a character that is
\* no digit and is read as the nil id without an exception (UniqueId.cpp:248).
UniqueIdsRead ==
  /\ \A object \in Objects :
       LET text == UniqueIdToString(uuid[object])
       IN /\ ToStringByteOrder(uuid[object]) = text
          /\ ~UniqueIdFromStringThrows(text)
          /\ UniqueIdFromString(text) = uuid[object]
  /\ IdTextsRead

\* Options that are resolved one behind the other take arguments that follow
\* them, none of them twice and none beyond the end, at least as many as asked
\* for and as many as there are up to the maximum (ResolveCmdLineArg.cpp:65).
ArgumentsTaken ==
  LET taken == commandLine.taken
      argc  == Len(commandLine.argv)
  IN \A i \in DOMAIN taken :
       LET t == taken[i]
           last == t.first + t.count - 1
       IN /\ commandLine.argv[t.first + 1] = t.option
          /\ last < argc /\ t.min <= t.count - 1 /\ t.count - 1 <= t.max
          /\ last = argc - 1 \/ t.count - 1 = t.max
          /\ i > 1 => taken[i - 1].first + taken[i - 1].count <= t.first

\* Versions, ids and command lines: what a text is accepted for is what it says.
IdentifiersRead == VersionsRead /\ UniqueIdsRead /\ ArgumentsTaken
=============================================================================
