---------------------------- MODULE Translations ----------------------------
(***************************************************************************)
(* The translations of src/Utility from one set of characters to another:  *)
(* UTF-8 to ASCII, teletype codes to ASCII, and characters that cannot be  *)
(* printed to escape sequences; and the recognition of line ends.          *)
(***************************************************************************)
EXTENDS TextEdits

CONSTANTS
  Utf8Texts,         \* texts to begin with, as sequences of characters
  TeletypeCodes,     \* codes that the teletype sends
  EscapeMaps         \* pairs of a list of characters and the list of their escapes

VARIABLE translated  \* a text, and the characters that it was at first

-----------------------------------------------------------------------------
(* MapUtf8ToAscii.                                                         *)

Utf8Punctuation ==
  << <<226, 128, 152>>, <<226, 128, 153>>, <<226, 128, 156>>, <<226, 128, 157>>,
     <<226, 128, 162>>, <<226, 128, 147>> >>

UTF8To7BitAsciiList == << <<39>>, <<39>>, <<34>>, <<34>>, <<46>>, <<45>> >>
UTF8To8BitAsciiList == << <<145>>, <<146>>, <<147>>, <<148>>, <<149>>, <<150>> >>

HasAt(text, i, part) ==
  i + Len(part) - 1 <= Len(text) /\ SubSeq(text, i, i + Len(part) - 1) = part

\* boost::replace_all: from the left, and not within what was put in.
ReplaceEach(text, from, by) ==
  LET replaced[i \in 1 .. Len(text) + Len(from)] ==
        IF i > Len(text) THEN <<>>
        ELSE IF HasAt(text, i, from) THEN by \o replaced[i + Len(from)]
        ELSE <<text[i]>> \o replaced[i + 1]
  IN replaced[1]

MapUtf8ToAscii_Bug(map, text) ==
  FoldLeft(LAMBDA done, i : ReplaceEach(done, Utf8Punctuation[i], map[i]),
           text, [i \in 1 .. Len(map) - 1 |-> i])

\* One entry of the list after the other, each all over the text.
MapUtf8ToAscii(map, text) ==
  FoldLeft(LAMBDA done, i : ReplaceEach(done, Utf8Punctuation[i], map[i]),
           text, [i \in DOMAIN map |-> i])

MapUtf8ToAscii7(text) == MapUtf8ToAscii(UTF8To7BitAsciiList, text)
MapUtf8ToAscii8(text) == MapUtf8ToAscii(UTF8To8BitAsciiList, text)

-----------------------------------------------------------------------------
(* Ita2ToAscii.                                                            *)

\* The five-bit codes in the two shifts of a teletype.
Ita2Ltrs ==
  <<0, 69, 10, 65, 32, 83, 73, 85, 13, 68, 82, 74, 78, 70, 67, 75,
    84, 90, 76, 87, 72, 89, 80, 81, 79, 66, 71, 14, 77, 88, 86, 15>>
Ita2Figs ==
  <<0, 51, 10, 45, 32, 7, 56, 55, 13, 36, 52, 39, 44, 33, 58, 40,
    53, 34, 41, 50, 35, 54, 48, 49, 57, 63, 38, 14, 46, 47, 59, 15>>

Ita2LtrsCharToChar(code) == Ita2Ltrs[(code % 32) + 1]
Ita2FigsCharToChar(code) == Ita2Figs[(code % 32) + 1]

-----------------------------------------------------------------------------
(* XLateEscapeChars.                                                       *)

Backslash     == 92
IsPrint(char) == char \in 32 .. 126

EscapeListRaw == <<0, 7, 8, 10, 12, 13, 9, 11>>
EscapeListMap == <<48, 97, 98, 110, 102, 114, 116, 118>>     \* 0abnfrtv

HexDigit(digit) == IF digit < 10 THEN 48 + digit ELSE 87 + digit

\* std::to_chars: no leading zero.
HexText(char) ==
  IF char < 16 THEN <<HexDigit(char)>> ELSE <<HexDigit(char \div 16), HexDigit(char % 16)>>

\* Backslashes of the text are printable and stay as they are.
EscapeOf(char, raw, map) ==
  LET at == {i \in DOMAIN raw : raw[i] = char}
  IN IF IsPrint(char) THEN <<char>>
     ELSE IF map # <<>> /\ at # {} /\ Min(at \cup {Len(map) + 1}) <= Len(map)
          THEN <<Backslash, map[Min(at)]>>
     ELSE <<Backslash, 48, 120>> \o HexText(char)

XLateEscapeChars(text, raw, map) == FlattenSeq([i \in DOMAIN text |-> EscapeOf(text[i], raw, map)])

-----------------------------------------------------------------------------
(* IsEolChar.                                                              *)

IsEolChar(char) == char \in {10, 13}

\* The length of the line end at a place: CR LF and LF CR are one.
EolLength(text, i) ==
  IF i > Len(text) THEN 0
  ELSE IF ~IsEolChar(text[i]) THEN 0
  ELSE IF i < Len(text) /\ IsEolChar(text[i + 1]) /\ text[i] # text[i + 1] THEN 2 ELSE 1

-----------------------------------------------------------------------------
(* The actions: a text is translated, or a teletype writes to it.          *)

TranslateText ==
  \E text \in {MapUtf8ToAscii7(translated.text), MapUtf8ToAscii8(translated.text)}
              \cup {XLateEscapeChars(translated.text, map[1], map[2]) : map \in EscapeMaps} :
    translated' = [translated EXCEPT !.text = text]

\* The bits above the lowest five of a code are ignored.
TeletypeWrites ==
  /\ translated.text = <<>>
  /\ \E code \in TeletypeCodes :
       \E char \in {Ita2LtrsCharToChar(code), Ita2FigsCharToChar(code)} :
         translated' = [chars |-> << <<char>> >>, text |-> <<char>>]

TranslationInit ==
  translated \in {[chars |-> chars, text |-> FlattenSeq(chars)] : chars \in Utf8Texts}

TranslationNext == TranslateText \/ TeletypeWrites

-----------------------------------------------------------------------------
(* Properties.                                                             *)

\* No character is a part of another one.
WellFormed(chars) == \A i \in DOMAIN chars : Len(chars[i]) = 1 => chars[i][1] < 128

MapChar(map, char) ==
  LET at == {i \in DOMAIN map : Utf8Punctuation[i] = char}
  IN IF at = {} THEN char ELSE map[CHOOSE i \in at : TRUE]

HoldsPunctuation(text) ==
  \E i \in DOMAIN text, k \in DOMAIN Utf8Punctuation : HasAt(text, i, Utf8Punctuation[k])

Utf8Mapped ==
  LET text == FlattenSeq(translated.chars)
  IN \A map \in {UTF8To7BitAsciiList, UTF8To8BitAsciiList} :
       LET mapped == MapUtf8ToAscii(map, text)
       IN /\ WellFormed(translated.chars) =>
               mapped = FlattenSeq([i \in DOMAIN translated.chars |-> MapChar(map, translated.chars[i])])
          /\ ~HoldsPunctuation(mapped)

\* What a reader of escapes makes of them: the longest escape at each place.
ReadEscapes(text, raw, map) ==
  LET Value(byte) == IF byte \in 48 .. 57 THEN byte - 48
                     ELSE IF byte \in 97 .. 102 THEN byte - 87 ELSE 16
      IsHex(i)    == IF i > Len(text) THEN FALSE ELSE Value(text[i]) < 16
      read[i \in 1 .. Len(text) + 1] ==
        IF i > Len(text) THEN <<>>
        ELSE IF text[i] # Backslash THEN <<text[i]>> \o read[i + 1]
        ELSE IF HasAt(text, i + 1, <<48, 120>>) /\ IsHex(i + 3) THEN
               IF IsHex(i + 4) THEN <<16 * Value(text[i + 3]) + Value(text[i + 4])>> \o read[i + 5]
               ELSE <<Value(text[i + 3])>> \o read[i + 4]
        ELSE <<raw[CHOOSE k \in DOMAIN map : map[k] = text[i + 1]]>> \o read[i + 2]
  IN read[1]

\* No backslash, and nothing that continues the escape before it.
Unambiguous(text) ==
  /\ Backslash \notin ToSet(text)
  /\ \A i \in 1 .. Len(text) - 1 : text[i] < 16 =>
       text[i + 1] \notin (48 .. 57) \cup (97 .. 102) \cup {120}

EscapesRead ==
  \A map \in EscapeMaps :
    LET escaped == XLateEscapeChars(translated.text, map[1], map[2])
    IN /\ \A i \in DOMAIN escaped : IsPrint(escaped[i])
       /\ XLateEscapeChars(escaped, map[1], map[2]) = escaped
       /\ Unambiguous(translated.text) => ReadEscapes(escaped, map[1], map[2]) = translated.text

\* Every letter and every digit has one code, and what both shifts have is the
\* same code in both.
TeletypeCoded ==
  /\ \A char \in 65 .. 90 : Cardinality({i \in 1 .. 32 : Ita2Ltrs[i] = char}) = 1
  /\ \A char \in 48 .. 57 : Cardinality({i \in 1 .. 32 : Ita2Figs[i] = char}) = 1
  /\ \A i, j \in 1 .. 32 : i # j => Ita2Ltrs[i] # Ita2Ltrs[j] /\ Ita2Figs[i] # Ita2Figs[j]
  /\ \A i, j \in 1 .. 32 : Ita2Ltrs[i] = Ita2Figs[j] => i = j

\* A walk over a text whose line ends are alike, LF, CR, CR LF or LF CR, meets
\* each of them once, also where lines are empty.
LineEndsWhole ==
  LET text == translated.text
      visited[i \in 1 .. Len(text) + 2] ==
        IF i > Len(text) THEN {} ELSE {i} \cup visited[i + Max({1, EolLength(text, i)})]
      Single(char) == {i \in DOMAIN text : text[i] = char}
      met == {i \in visited[1] : IsEolChar(text[i])}
  IN /\ \A ends \in {<<10, 13>>, <<13, 10>>} :
          (\A i \in DOMAIN text : IsEolChar(text[i]) =>
             HasAt(text, i, ends) \/ (i > 1 /\ text[i] = ends[2] /\ text[i - 1] = ends[1]))
            => Cardinality(met) = Cardinality(Single(10))
     /\ Single(13) = {} => met = Single(10)
     /\ Single(10) = {} => met = Single(13)

\* Well-formed UTF-8 is mapped character by character although the entries of
\* the map are applied one after the other to the whole text
\* (MapUtf8ToAscii.cpp:74), and no mapped character is left, not even one that a
\* replacement in a text that is not well-formed put together.  Escaped
\* texts are printable, and give the text back unless it has a backslash or
\* a character that would continue an escape (XLateEscapeChars.cpp:93).
TextsTranslated == Utf8Mapped /\ EscapesRead /\ TeletypeCoded /\ LineEndsWhole

\* Neither the edits of src/Utility/StringSplit.cpp:40 and its neighbours nor the
\* translations of MapUtf8ToAscii.cpp:68 lose or invent a character.
TextsKept == TextsShaped /\ TextsTranslated

=============================================================================
