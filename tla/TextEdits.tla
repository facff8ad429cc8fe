------------------------------ MODULE TextEdits ------------------------------
(***************************************************************************)
(* The string functions of src/Utility: trimming, padding, splitting and   *)
(* joining, mapping of characters, comparison without regard to case, and  *)
(* copies into areas of a given length.  A text is a sequence of bytes.    *)
(***************************************************************************)
EXTENDS Integers, Sequences, FiniteSets, FiniteSetsExt, SequencesExt

CONSTANTS
  Bytes,             \* the bytes that texts are made of, without NUL
  Space,             \* the blank
  TextMax            \* bound: the length of a text

VARIABLE edited      \* a text, and the areas that hold it as a C string

-----------------------------------------------------------------------------
(* Trimming and padding.                                                   *)

TrimRight(text, chars) ==
  SubSeq(text, 1, Max({0} \cup {i \in DOMAIN text : text[i] \notin chars}))

TrimLeft(text, chars) ==
  SubSeq(text, Min({Len(text) + 1} \cup {i \in DOMAIN text : text[i] \notin chars}), Len(text))

Trim(text, chars) == TrimLeft(TrimRight(text, chars), chars)

Filled(count, char) == [i \in 1 .. count |-> char]

\* A text that is longer than asked for keeps its left part, on both sides.
PadLeft(text, length, char) ==
  IF Len(text) >= length THEN SubSeq(text, 1, length)
  ELSE Filled(length - Len(text), char) \o text

PadRight(text, length, char) ==
  IF Len(text) >= length THEN SubSeq(text, 1, length)
  ELSE text \o Filled(length - Len(text), char)

-----------------------------------------------------------------------------
(* Mapping of characters.                                                  *)

MultipleCharsToOneChar(text, chars, single) ==
  FoldLeft(LAMBDA done, char :
             IF char \notin chars THEN [out |-> Append(done.out, char), in_multi |-> FALSE]
             ELSE [out |-> IF done.in_multi THEN done.out ELSE Append(done.out, single),
                   in_multi |-> TRUE],
           [out |-> <<>>, in_multi |-> FALSE], text).out

IsSpace(char) == char \in {Space} \cup 9 .. 13

OneSpace(text) == MultipleCharsToOneChar(text, {c \in Bytes : IsSpace(c)}, Space)

\* The C locale: other bytes than the letters of ASCII are left alone.
ToLower(char) == IF char \in 65 .. 90 THEN char + 32 ELSE char
ToUpper(char) == IF char \in 97 .. 122 THEN char - 32 ELSE char

LowerCase(text) == [i \in DOMAIN text |-> ToLower(text[i])]
UpperCase(text) == [i \in DOMAIN text |-> ToUpper(text[i])]

-----------------------------------------------------------------------------
(* Splitting and joining.  Positions count from zero.                      *)

SplitString_Bug(text, sep, start_pos, discard) ==
  LET length == Len(text)
      Part(from, end) == IF discard /\ from = end THEN <<>> ELSE <<SubSeq(text, from + 1, end)>>
      sections[pos \in start_pos .. length + Len(sep)] ==
        LET found == {p \in pos .. length - Len(sep) : SubSeq(text, p + 1, p + Len(sep)) = sep}
        IN IF pos < length /\ found # {}
           THEN Part(pos, Min(found)) \o sections[Min(found) + Len(sep)]
           ELSE IF pos < length THEN Part(pos, length) ELSE <<>>
  IN IF sep = <<>> \/ start_pos > length THEN <<>> ELSE sections[start_pos]

\* The sections between the separators, and what follows the last of them; an
\* empty separator makes no section.
SplitString(text, sep, start_pos, discard) ==
  LET length == Len(text)
      Part(from, end) == IF discard /\ from = end THEN <<>> ELSE <<SubSeq(text, from + 1, end)>>
      sections[pos \in start_pos .. length + Len(sep)] ==
        LET found == {p \in pos .. length - Len(sep) : SubSeq(text, p + 1, p + Len(sep)) = sep}
        IN IF pos < length /\ found # {}
           THEN Part(pos, Min(found)) \o sections[Min(found) + Len(sep)]
           ELSE IF pos <= length THEN Part(pos, length) ELSE <<>>
  IN IF sep = <<>> \/ start_pos > length THEN <<>> ELSE sections[start_pos]

JoinString(list, sep) ==
  FoldLeft(LAMBDA text, i : text \o list[i] \o (IF i < Len(list) THEN sep ELSE <<>>),
           <<>>, [i \in DOMAIN list |-> i])

-----------------------------------------------------------------------------
(* Comparison without regard to case.                                      *)

Sign(less) == IF less THEN -1 ELSE 1

\* The first bytes that differ as capitals are compared as they are.
MemICmp(lhs, rhs, length) ==
  LET differ == {i \in 1 .. length : ToUpper(lhs[i]) # ToUpper(rhs[i])}
  IN IF differ = {} THEN 0 ELSE Sign(lhs[Min(differ)] < rhs[Min(differ)])

StringCompareIgnoreCase(lhs, rhs) ==
  LET cmp == MemICmp(lhs, rhs, Min({Len(lhs), Len(rhs)}))
  IN IF cmp # 0 THEN cmp
     ELSE IF Len(lhs) = Len(rhs) THEN 0 ELSE Sign(Len(lhs) < Len(rhs))

StringIsLessThanIgnoreCase(lhs, rhs) == StringCompareIgnoreCase(lhs, rhs) < 0

\* strncasecmp() of the library: the bytes as small letters, up to a NUL.
StrNICmp(lhs, rhs, length) ==
  LET Low(text, i) == IF i > Len(text) THEN 0 ELSE ToLower(text[i])
      differ == {i \in 1 .. length : Low(lhs, i) # Low(rhs, i)}
  IN IF differ = {} THEN 0 ELSE Sign(Low(lhs, Min(differ)) < Low(rhs, Min(differ)))

StrICmp(lhs, rhs) == StrNICmp(lhs, rhs, Max({Len(lhs), Len(rhs)}))

-----------------------------------------------------------------------------
(* C strings.  An area is a function of bytes; a NUL ends its text.        *)

NUL == 0

AreaText(area) ==
  LET end == Min({i \in DOMAIN area : area[i] = NUL})
  IN [i \in 1 .. end - 1 |-> area[i]]

\* The bytes of an area from an offset: the text so far as length allows, and a NUL.
Written(area, offset, from, length) ==
  LET count == Min({Len(from), length})
  IN [i \in DOMAIN area |->
        IF i \in offset + 1 .. offset + count THEN from[i - offset]
        ELSE IF i = offset + count + 1 THEN NUL ELSE area[i]]

nstrcpy(area, from, length) == Written(area, 0, from, length)

nstrcat(area, from, length) == Written(area, Len(AreaText(area)), from, length)

-----------------------------------------------------------------------------
(* Arguments that may be missing.  A pointer to a C string is a sequence of *)
(* one text, or the empty sequence.                                        *)

NULL == <<>>
Pointer(text) == <<text>>

IsNull(pointer)  == pointer = NULL
IsEmpty(pointer) == IsNull(pointer) \/ pointer = Pointer(<<>>)

NullToString(pointer, other) ==
  IF ~IsNull(pointer) THEN pointer[1] ELSE IF ~IsNull(other) THEN other[1] ELSE <<>>

NullOrEmptyToString(pointer, other) ==
  IF ~IsEmpty(pointer) THEN pointer[1] ELSE IF ~IsNull(other) THEN other[1] ELSE <<>>

Colon == <<58, Space>>

NullOrEmptyToStringWithColon(text, other) ==
  LET name == NullOrEmptyToString(Pointer(text), Pointer(other))
  IN IF name = <<>> THEN <<>> ELSE name \o Colon

ValueName == <<86, 97, 108, 117, 101>>

\* The text of the exceptions of ThrowIfNull and ThrowIfEmpty, from the name on.
ThrowIfSupport(name, error) == (IF IsEmpty(name) THEN ValueName ELSE name[1]) \o error

-----------------------------------------------------------------------------
(* The actions: a text is edited in place, by one function after the other. *)

EditTexts(n)  == UNION {[1 .. k -> Bytes] : k \in 0 .. n}
Edit(text) == /\ Len(text) <= TextMax
              /\ edited' = text

TrimEdit == \E chars \in SUBSET Bytes :
              \/ Edit(Trim(edited, chars))
              \/ Edit(TrimLeft(edited, chars))
              \/ Edit(TrimRight(edited, chars))

PadEdit == \E length \in 0 .. TextMax, char \in Bytes :
             Edit(PadLeft(edited, length, char)) \/ Edit(PadRight(edited, length, char))

MapEdit == \/ Edit(OneSpace(edited))
           \/ \E chars \in SUBSET Bytes, single \in Bytes :
                Edit(MultipleCharsToOneChar(edited, chars, single))
           \/ Edit(LowerCase(edited))
           \/ Edit(UpperCase(edited))

SplitEdit == \E sep, other \in EditTexts(1), start_pos \in 0 .. TextMax, discard \in BOOLEAN :
               Edit(JoinString(SplitString(edited, sep, start_pos, discard), other))

AreaOf(text) == [i \in 1 .. 2 * TextMax + 1 |-> IF i <= Len(text) THEN text[i] ELSE NUL]

AreaEdit == \E from \in EditTexts(2), length \in 0 .. 2 :
              \/ Edit(AreaText(nstrcpy(AreaOf(edited), from, length)))
              \/ Edit(AreaText(nstrcat(AreaOf(edited), from, length)))

\* The text takes the place of nothing, or is replaced when it is empty.
NamePointers == {NULL} \cup {Pointer(text) : text \in EditTexts(1)}

NameEdit == \E other \in NamePointers :
              \/ Edit(NullOrEmptyToString(Pointer(edited), other))
              \/ Edit(NullToString(other, Pointer(edited)))

EditInit == edited = <<>>

EditNext == TrimEdit \/ PadEdit \/ MapEdit \/ SplitEdit \/ AreaEdit \/ NameEdit

-----------------------------------------------------------------------------
(* Properties.                                                             *)

\* The words of a text: its runs of characters that are not in the set.
Words(text, chars) ==
  LET Starts == {i \in DOMAIN text : text[i] \notin chars /\ (i = 1 \/ text[i - 1] \in chars)}
      End(i) == Min({j \in i .. Len(text) : j = Len(text) \/ text[j + 1] \in chars})
      firsts == SetToSortSeq(Starts, <)
  IN [k \in DOMAIN firsts |-> SubSeq(text, firsts[k], End(firsts[k]))]

PiecesFit ==
  \A sep \in EditTexts(2) \ {<<>>} :
    LET all == SplitString(edited, sep, 0, FALSE)
    IN /\ JoinString(all, sep) = edited
       /\ SplitString(edited, sep, 0, TRUE) = SelectSeq(all, LAMBDA part : part # <<>>)
       /\ \A start_pos \in 0 .. Len(edited) :
            SplitString(edited, sep, start_pos, FALSE)
              = SplitString(SubSeq(edited, start_pos + 1, Len(edited)), sep, 0, FALSE)

TrimsFit ==
  \A chars \in SUBSET Bytes :
    LET trimmed == Trim(edited, chars)
    IN /\ trimmed = TrimRight(TrimLeft(edited, chars), chars)
       /\ Words(trimmed, chars) = Words(edited, chars)
       /\ trimmed # <<>> => trimmed[1] \notin chars /\ Last(trimmed) \notin chars

SpacesFit ==
  LET spaces == {c \in Bytes : IsSpace(c)}
      one    == OneSpace(edited)
  IN /\ Words(one, spaces) = Words(edited, spaces)
     /\ \A i \in DOMAIN one : IsSpace(one[i]) =>
          one[i] = Space /\ (i = 1 \/ ~IsSpace(one[i - 1]))
     /\ OneSpace(one) = one

CasesFit ==
  \A other \in EditTexts(2) :
    LET cmp == StringCompareIgnoreCase(edited, other)
    IN /\ cmp = -StringCompareIgnoreCase(other, edited)
       /\ cmp = 0 <=> LowerCase(edited) = LowerCase(other)
       /\ cmp = 0 <=> StrICmp(edited, other) = 0

AreasFit ==
  \A from \in EditTexts(2), length \in 0 .. 2 :
    LET area == AreaOf(edited)
        part == SubSeq(from, 1, Min({length, Len(from)}))
    IN /\ AreaText(nstrcpy(area, from, length)) = part
       /\ AreaText(nstrcat(area, from, length)) = edited \o part

\* The name before an error text is the text, or what stands for an empty one, and
\* is never a colon alone.
NamesGiven ==
  \A other \in EditTexts(2) :
    LET lead == NullOrEmptyToStringWithColon(edited, other)
        name == IF edited # <<>> THEN edited ELSE other
    IN /\ lead = <<>> <=> name = <<>>
       /\ lead # <<>> => lead = name \o Colon
       /\ edited # <<>> => ThrowIfSupport(Pointer(edited), Colon) = lead
       /\ Len(ThrowIfSupport(Pointer(edited), Colon)) > Len(Colon)

\* What is split can be joined again and is cut at every separator, also one
\* at the end (StringSplit.cpp:64); trimming and OneSpace keep the words, in
\* whichever order they are called; two texts compare as equal just if they are
\* equal as small letters (MemICmp.cpp:58); and nstrcat, unlike its description,
\* may need room for its two texts (nstrcat.cpp:134).  An error text never starts
\* with an empty name (include/Utility/ArgCheck.hpp:124).
TextsShaped == PiecesFit /\ TrimsFit /\ SpacesFit /\ CasesFit /\ AreasFit /\ NamesGiven
=============================================================================
