------------------------------ MODULE ParsedText ------------------------------
(***************************************************************************)
(* Reading a text of src/Utility row by row: ParseCsvState, which splits   *)
(* comma-separated values with quotes, and ParseLineState, which splits    *)
(* lines.  A text is a sequence of characters, of which the ones that the  *)
(* parsers know are constants; offsets count from zero.                    *)
(***************************************************************************)
EXTENDS Integers, Sequences, FiniteSets, FiniteSetsExt, SequencesExt

CONSTANTS
  Quotes, LF, CR,    \* the characters with a meaning of their own
  SepLists,          \* what a value_sep_list or a line_sep_list may hold
  NestedLimits,      \* values of max_nested_lines
  Texts              \* the texts that are read

VARIABLES
  source,            \* the text
  control,           \* the ParseCsvControl
  csv,               \* the ParseCsvState, the row of its last call, and all rows
  lines              \* the ParseLineState, and all lines

textVars == <<source, control, csv, lines>>

Char(i) == source[i + 1]
Size    == Len(source)

-----------------------------------------------------------------------------
(* ParseCsvControl.                                                        *)

\* The constructor throws unless this holds of its arguments.
ParseCsvControl(c) ==
  /\ c.value_sep # {} /\ c.line_sep # {}
  /\ c.value_sep \cap c.line_sep = {}
  /\ c.enable_crlf => LF \in c.line_sep /\ CR \notin c.line_sep

IsLineSep(char)  == char = LF            \* whatever the list of line separators is
IsValueSep(char) == char \in control.value_sep

Found(end, next) == [threw |-> FALSE, end |-> end, next |-> next]
Thrown           == [threw |-> TRUE, end |-> 0, next |-> 0]

QuoteEnd_Bug(open) ==
  LET same   == {i \in open + 1 .. Size - 1 : Char(i) = Char(open)}
      closed == IF same = {} THEN Size ELSE Min(same)
      nested == {i \in open + 1 .. closed - 1 : IsLineSep(Char(i))}
  IN IF same = {} \/ Cardinality(nested) >= control.max_nested_lines THEN Thrown
     ELSE Found(closed, closed + 1)

\* GetValueEnd, the body of its loop at a quote: where the quote closes; a
\* doubled quote inside of it is a quote that closes and one that opens.
QuoteEnd(open) ==
  LET same   == {i \in open + 1 .. Size - 1 : Char(i) = Char(open)}
      closed == IF same = {} THEN Size ELSE Min(same)
      nested == {i \in open + 1 .. closed - 1 : IsLineSep(Char(i))}
  IN IF same = {} \/ Cardinality(nested) > control.max_nested_lines THEN Thrown
     ELSE Found(closed, closed + 1)

\* A quote that is not empty and closes with the text ends the value before its
\* last character.
GetValueEnd(start) ==
  LET scan[i \in start .. Size] ==
        IF i = Size THEN Found(i, i)
        ELSE IF Char(i) \in Quotes THEN
               LET quote == QuoteEnd(i)
               IN IF quote.threw THEN Thrown
                  ELSE IF quote.end = Size - 1 /\ quote.end > i + 1 THEN Found(quote.end, quote.end)
                  ELSE scan[quote.next]
        ELSE IF IsValueSep(Char(i)) THEN Found(i, i + 1)
        ELSE IF IsLineSep(Char(i)) THEN
               IF control.enable_crlf /\ i > start /\ Char(i - 1) = CR THEN Found(i - 1, i + 1)
               ELSE Found(i, i + 1)
        ELSE scan[i + 1]
  IN scan[start]

-----------------------------------------------------------------------------
(* ParseCsvState.                                                          *)

Position(row, offset, line_end) == [row_idx |-> row, row_off |-> offset, is_line_end |-> line_end]

\* The loop over the columns of a row, from an offset: the columns, how it
\* stopped and the offsets of the last column's start and end.  The next
\* column starts behind the end of this one, not at next.
CsvColumns(start) ==
  LET columns[i \in 0 .. Size] ==
        LET value  == GetValueEnd(i)
            column == SubSeq(source, i + 1, value.end)
            Stop(cols, how) == [cols |-> cols, stop |-> how, start |-> i, end |-> value.end]
        IN IF i = Size THEN Stop(<< <<>> >>, "end")
           ELSE IF value.threw THEN Stop(<<>>, "throw")
           ELSE IF value.end >= Size THEN Stop(<<column>>, "end")
           ELSE IF IsLineSep(Char(value.end)) THEN Stop(<<column>>, "line")
           ELSE LET rest == columns[value.end + 1]
                IN [rest EXCEPT !.cols = <<column>> \o @]
  IN columns[start]

ParseCsvLineAtEnd ==
  /\ csv.at_end_flag
  /\ csv' = [csv EXCEPT !.col_list = <<>>]
  /\ UNCHANGED <<source, control, lines>>

\* A row that throws leaves its columns so far in the caller's list and the
\* position where it was.
ParseCsvLine ==
  LET row  == CsvColumns(csv.position.row_off)
      line == csv.position.row_idx
  IN /\ ~csv.at_end_flag
     /\ csv' = [csv EXCEPT
          !.col_list    = row.cols,
          !.threw       = row.stop = "throw",
          !.rows        = IF row.stop = "throw" THEN @ ELSE Append(@, row.cols),
          !.at_end_flag = row.stop = "end",
          !.current     = IF row.stop = "throw" THEN @
                          ELSE Position(line, row.start, row.stop = "line"),
          !.position    = IF row.stop = "line" THEN Position(line + 1, row.end + 1, FALSE) ELSE @]
     /\ UNCHANGED <<source, control, lines>>

-----------------------------------------------------------------------------
(* ParseLineState.                                                         *)

\* The line that starts at an offset, and the offset behind it.
LineAt(start) ==
  LET feeds == {i \in start .. Size - 1 : Char(i) = LF}
      feed  == Min(feeds)
      end   == IF feed > start /\ Char(feed - 1) = CR THEN feed - 1 ELSE feed
  IN IF feeds = {} THEN [line |-> SubSeq(source, start + 1, Size), next |-> Size, last |-> TRUE]
     ELSE [line |-> SubSeq(source, start + 1, end), next |-> feed + 1, last |-> FALSE]

ParseLineSingle ==
  LET at == LineAt(lines.current_offset)
  IN /\ ~lines.at_end_flag
     /\ lines' =
          IF lines.current_offset >= Size THEN [lines EXCEPT !.at_end_flag = TRUE]
          ELSE [current_offset |-> at.next, line_offset |-> at.next, at_end_flag |-> at.last,
                line_index |-> lines.line_index + 1, got |-> Append(lines.got, at.line)]
     /\ UNCHANGED <<source, control, csv>>

-----------------------------------------------------------------------------
Controls ==
  {c \in [value_sep : SepLists, line_sep : SepLists, enable_crlf : BOOLEAN,
          max_nested_lines : NestedLimits] : ParseCsvControl(c)}

NewCsvState ==
  [position |-> Position(0, 0, FALSE), current |-> Position(0, 0, FALSE), at_end_flag |-> FALSE,
   col_list |-> <<>>, rows |-> <<>>, threw |-> FALSE]

NewLineState ==
  [current_offset |-> 0, line_offset |-> 0, at_end_flag |-> FALSE, line_index |-> 0, got |-> <<>>]

TextInit ==
  /\ source \in Texts
  /\ control \in Controls
  /\ csv = NewCsvState
  /\ lines = NewLineState

TextNext == ParseCsvLine \/ ParseCsvLineAtEnd \/ ParseLineSingle

-----------------------------------------------------------------------------
(* Properties.                                                             *)

\* The text as a reader with one state sees it: the quote that is open behind
\* each of its characters, or none.
OpenQuote ==
  LET open[i \in 0 .. Size] ==
        IF i = 0 THEN {}
        ELSE IF open[i - 1] = {} THEN Quotes \cap {source[i]} ELSE open[i - 1] \ {source[i]}
  IN open

\* The pieces of the text between the cuts, which are places of the text.
Pieces(first, last, cuts) ==
  LET ends == SetToSortSeq({i \in cuts : first <= i /\ i <= last} \cup {last + 1}, <)
  IN [k \in DOMAIN ends |-> SubSeq(source, IF k = 1 THEN first ELSE ends[k - 1] + 1, ends[k] - 1)]

Unquoted(chars) == {i \in 1 .. Size : source[i] \in chars /\ OpenQuote[i - 1] = {}}

\* The last column loses its last character, and an empty column follows it.
SplitLast(columns) == Front(columns) \o <<Front(Last(columns)), <<>>>>

\* What a row is read as: its columns, but where the row ends in CR LF, and
\* where it ends the text with a quote that is not empty, the last column is split.
RowColumns(first, last) ==
  LET columns == Pieces(first, last, Unquoted(control.value_sep))
      closes  == /\ last = Size /\ Last(columns) # <<>> /\ OpenQuote[last - 1] # {}
                 /\ OpenQuote[last - 2] # {}
      crlf    == /\ last < Size /\ control.enable_crlf
                 /\ Last(columns) # <<>> /\ source[last] = CR
  IN IF closes \/ crlf THEN SplitLast(columns) ELSE columns

RowEnds == SetToSortSeq(Unquoted({LF}) \cup {Size + 1}, <)
RowStart(k) == IF k = 1 THEN 1 ELSE RowEnds[k - 1] + 1

\* A quote is not closed, or holds more lines than it may.
BadQuote(first, last) ==
  \E i \in first .. last :
    /\ source[i] \in Quotes /\ OpenQuote[i - 1] = {}
    /\ LET same == {j \in i + 1 .. Size : source[j] = source[i]}
       IN same = {} \/ Cardinality({j \in i .. Min(same) : source[j] = LF}) > control.max_nested_lines

CsvRowsRead ==
  LET read == Len(csv.rows)
  IN /\ \A k \in 1 .. read : /\ csv.rows[k] = RowColumns(RowStart(k), RowEnds[k] - 1)
                             /\ ~BadQuote(RowStart(k), RowEnds[k] - 1)
     /\ csv.threw => BadQuote(RowStart(read + 1), RowEnds[read + 1] - 1)
     /\ csv.at_end_flag => read = Len(RowEnds)
     /\ csv.position.row_idx = read - (IF csv.at_end_flag THEN 1 ELSE 0)

\* A line loses its CR LF or its LF.  A line that does not exist, behind the
\* last LF or in an empty text, is read as an empty one and not counted.
LinesRead ==
  LET feeds == {i \in 1 .. Size : source[i] = LF}
      all   == Pieces(1, Size, feeds)
      Read(k) == IF k < Len(all) /\ all[k] # <<>> /\ Last(all[k]) = CR THEN Front(all[k]) ELSE all[k]
  IN /\ lines.line_index = Len(lines.got)
     /\ \A k \in DOMAIN lines.got : lines.got[k] = Read(k)
     /\ lines.at_end_flag => Len(lines.got) = Len(all) - (IF Last(all) = <<>> THEN 1 ELSE 0)

\* Both parsers give every row once and in order, as a reader with one state
\* would cut the text, whatever quotes, separators and line ends it is made
\* of.  The CSV parser stops for good at the row that holds a bad quote
\* (ParseCsv.cpp:209), and it makes a column of its own of what is left of a CR LF
\* (ParseCsv.cpp:340) and of the end of a last quote (ParseCsv.cpp:202).
TextRowsRead == CsvRowsRead /\ LinesRead
=============================================================================
