------------------------------ MODULE LogFiles ------------------------------
(***************************************************************************)
(* The log handlers that write to streams: LogHandlerFile of               *)
(* src/Logger/LogHandlerFile.cpp and, in the same file, LogHandlerXFile on *)
(* top of LogHandlerFileBase.cpp.  Each handler has a lock of its own; the *)
(* files and the console are shared by all handlers.  A line is written in *)
(* pieces: its leader, its text and its end.  The streams of the library   *)
(* are external: they collect pieces and write them at the end of a line,  *)
(* but a long text goes to the file at once, with what was collected.      *)
(***************************************************************************)
EXTENDS Naturals, Sequences, FiniteSets, FiniteSetsExt, SequencesExt

CONSTANTS
  Handlers, Callers,
  ClassOf,                \* the class of each handler
  FileNames,
  ShortLines, LongLines,  \* the lines that are written, each of them once
  Literals,               \* the lines without a leader
  LinePlaces,             \* the places that a line's level lets it go to
  FlagSets,               \* the flags that handlers have
  OpensMax,               \* bounds the calls of OpenFile
  NoStream, Nobody

VARIABLES
  logHandlers,            \* the handlers: not yet made, living or destroyed
  calls,                  \* what every caller does
  logFiles,               \* the pieces in each file
  console,                \* the pieces on the console
  written,                \* the lines taken up, and where they have to appear
  opens, fault            \* calls of OpenFile; use of a null pointer

Lines  == ShortLines \cup LongLines
Pieces == [line : Lines, part : {"leader", "text", "end"}]

logFileVars == <<logHandlers, calls, logFiles, console, written, opens, fault>>

ASSUME LogFilesAssumption ==
  /\ "" \notin FileNames
  /\ Nobody \notin Callers
  /\ NoStream \notin [name : FileNames, collected : Seq(Pieces)]

-----------------------------------------------------------------------------
Stream(name) == [name |-> name, collected |-> <<>>]

Handler(h) == logHandlers[h]
Alive(h)   == logHandlers[h].life = "alive"
Unlocked(h) == logHandlers[h].lock = Nobody

Calling(c) == calls[c].op
NotCalling(c)    == Calling(c) = "idle"
Return(c)  == calls' = [calls EXCEPT ![c] = [op |-> "idle"]]

\* What the standard lets a stream that writes be opened with: not with the
\* combination of app and trunc.
OpenMode(flags) == IF "DoNotAppend" \in flags THEN {"out", "app", "trunc"} ELSE {"out", "app", "ate"}
StandardModes == {m \cup s : m \in {{"out"}, {"out", "trunc"}, {"out", "app"}}, s \in {{}, {"ate"}}}

NewHandler(h, flags, stream) ==
  logHandlers' = [logHandlers EXCEPT ![h] =
    [life |-> "alive", stream |-> stream, lock |-> Nobody, flags |-> flags,
     out_file_name |-> IF stream = NoStream THEN "" ELSE stream.name, opened |-> stream # NoStream]]

\* A constructor without a name, or with the name of a file that it opens; when
\* it throws there is no handler.
MakeHandler(h) ==
  /\ logHandlers[h].life = "none"
  /\ UNCHANGED <<calls, logFiles, console, written, opens, fault>>
  /\ \/ NewHandler(h, {}, NoStream)
     \/ \E flags \in FlagSets, name \in FileNames :
          /\ OpenMode(flags) \in StandardModes
          /\ NewHandler(h, flags, Stream(name))

-----------------------------------------------------------------------------
(* EmitLine and EmitLiteral.                                               *)

LinePieces(line) ==
  LET parts == IF line \in Literals THEN <<"text", "end">> ELSE <<"leader", "text", "end">>
  IN [i \in DOMAIN parts |-> [line |-> line, part |-> parts[i]]]

To(place, pieces) == [i \in DOMAIN pieces |-> [place |-> place, piece |-> pieces[i]]]

\* The whole call is made under the handler's lock.  The function EmitLiteral that
\* knows no level writes to both places.
EmitLine(c, h) ==
  \E line \in Lines \ DOMAIN written, places \in LinePlaces :
    LET pieces    == LinePieces(line)
        to_file   == "file" \in places /\ Handler(h).stream # NoStream
        to_screen == "console" \in places /\ "NoConsoleOutput" \notin Handler(h).flags
    IN /\ NotCalling(c) /\ Alive(h) /\ Unlocked(h)
       /\ logHandlers' = [logHandlers EXCEPT ![h].lock = c]
       /\ calls' = [calls EXCEPT ![c] =
            [op |-> "emit", handler |-> h,
             todo |-> (IF to_file THEN To("file", pieces) ELSE <<>>)
                      \o (IF to_screen THEN To("console", pieces) ELSE <<>>)]]
       /\ written' = [l \in DOMAIN written \cup {line} |->
            IF l # line THEN written[l]
            ELSE [handler |-> h, on_console |-> to_screen,
                  file |-> IF to_file THEN Handler(h).stream.name ELSE ""]]
       /\ UNCHANGED <<logFiles, console, opens, fault>>

ToFile(h, piece) ==
  LET stream == Handler(h).stream
      pieces == Append(stream.collected, piece)
      flush  == piece.part = "end" \/ (piece.part = "text" /\ piece.line \in LongLines)
  IN /\ logHandlers' = [logHandlers EXCEPT ![h].stream.collected = IF flush THEN <<>> ELSE pieces]
     /\ logFiles' = IF flush THEN [logFiles EXCEPT ![stream.name] = @ \o pieces] ELSE logFiles

EmitPiece(c) ==
  LET call == calls[c]
      next == Head(call.todo)
  IN /\ Calling(c) = "emit" /\ call.todo # <<>>
     /\ calls' = [calls EXCEPT ![c].todo = Tail(@)]
     /\ IF next.place = "file" THEN ToFile(call.handler, next.piece) /\ UNCHANGED console
        ELSE console' = Append(console, next.piece) /\ UNCHANGED <<logHandlers, logFiles>>
     /\ UNCHANGED <<written, opens, fault>>

EmitDone(c) ==
  /\ Calling(c) = "emit" /\ calls[c].todo = <<>>
  /\ logHandlers' = [logHandlers EXCEPT ![calls[c].handler].lock = Nobody]
  /\ Return(c)
  /\ UNCHANGED <<logFiles, console, written, opens, fault>>

-----------------------------------------------------------------------------
(* OpenFile: the new file is opened before the lock is held.  No name, or a *)
(* file that cannot be opened, changes nothing.                            *)

OpenNewFile(c, h) ==
  \E name \in FileNames :
    /\ NotCalling(c) /\ Alive(h) /\ opens < OpensMax
    /\ OpenMode(Handler(h).flags) \in StandardModes
    /\ calls' = [calls EXCEPT ![c] = [op |-> "open", handler |-> h, stream |-> Stream(name)]]
    /\ opens' = opens + 1
    /\ UNCHANGED <<logHandlers, logFiles, console, written, fault>>

SwapFile_Bug(c) ==
  LET call == calls[c]
  IN /\ Calling(c) = "open" /\ Alive(call.handler)
     /\ logHandlers' = [logHandlers EXCEPT ![call.handler].stream = call.stream,
                                     ![call.handler].out_file_name = call.stream.name,
                                     ![call.handler].opened = TRUE]
     /\ Return(c)
     /\ UNCHANGED <<logFiles, console, written, opens, fault>>

\* The old file is flushed and closed, and the new one takes its place.
SwapFile(c) ==
  LET call == calls[c]
      old  == Handler(call.handler).stream
  IN /\ Calling(c) = "open" /\ Unlocked(call.handler)
     /\ logHandlers' = [logHandlers EXCEPT ![call.handler].stream = call.stream,
                                     ![call.handler].out_file_name = call.stream.name,
                                     ![call.handler].opened = TRUE]
     /\ logFiles' = IF old = NoStream THEN logFiles
                    ELSE [logFiles EXCEPT ![old.name] = @ \o old.collected]
     /\ Return(c)
     /\ UNCHANGED <<console, written, opens, fault>>

-----------------------------------------------------------------------------
(* The other calls.                                                        *)

Flushed(h) ==
  /\ logHandlers' = [logHandlers EXCEPT ![h].stream.collected = <<>>]
  /\ logFiles' = [logFiles EXCEPT ![Handler(h).stream.name] = @ \o Handler(h).stream.collected]

\* RemoveHandler looks at the stream without a test whether there is one; in
\* Flush of a LogHandlerXFile there is a test.
RemoveHandler(h) ==
  /\ Alive(h) /\ Unlocked(h)
  /\ IF Handler(h).stream = NoStream
     THEN fault' = h /\ UNCHANGED <<logHandlers, logFiles>>
     ELSE Flushed(h) /\ UNCHANGED fault
  /\ UNCHANGED <<calls, console, written, opens>>

FlushFile(h) ==
  /\ ClassOf[h] = "LogHandlerXFile" /\ Alive(h) /\ Unlocked(h) /\ Handler(h).stream # NoStream
  /\ Flushed(h)
  /\ UNCHANGED <<calls, console, written, opens, fault>>

SetFlags(h) ==
  /\ Alive(h) /\ Unlocked(h)
  /\ \E flags \in FlagSets : logHandlers' = [logHandlers EXCEPT ![h].flags = flags]
  /\ UNCHANGED <<calls, logFiles, console, written, opens, fault>>

\* The owner destroys a handler that nobody calls; only a LogHandlerXFile tests
\* whether it has a stream.
DestroyHandler(h) ==
  /\ Alive(h) /\ ~\E c \in Callers : ~NotCalling(c) /\ calls[c].handler = h
  /\ IF Handler(h).stream # NoStream
     THEN /\ logFiles' = [logFiles EXCEPT ![Handler(h).stream.name] =
                             @ \o Handler(h).stream.collected]
          /\ UNCHANGED fault
     ELSE /\ fault' = IF ClassOf[h] = "LogHandlerFile" THEN h ELSE fault
          /\ UNCHANGED logFiles
  /\ logHandlers' = [logHandlers EXCEPT ![h].life = "destroyed", ![h].stream = NoStream]
  /\ UNCHANGED <<calls, console, written, opens>>

LogFilesInit ==
  /\ logHandlers = [h \in Handlers |-> [life |-> "none", stream |-> NoStream, lock |-> Nobody,
                                     flags |-> {}, out_file_name |-> "", opened |-> FALSE]]
  /\ calls = [c \in Callers |-> [op |-> "idle"]]
  /\ logFiles = [name \in FileNames |-> <<>>]
  /\ console = <<>>
  /\ written = << >>
  /\ opens = 0
  /\ fault = Nobody

\* A null pointer ends the program.
LogFilesNext ==
  /\ fault = Nobody
  /\ \/ \E h \in Handlers : \/ MakeHandler(h) \/ RemoveHandler(h) \/ FlushFile(h)
                            \/ SetFlags(h) \/ DestroyHandler(h)
     \/ \E c \in Callers : \/ EmitPiece(c) \/ EmitDone(c) \/ SwapFile(c)
                           \/ \E h \in Handlers : EmitLine(c, h) \/ OpenNewFile(c, h)

LogFilesSpec == LogFilesInit /\ [][LogFilesNext]_logFileVars

-----------------------------------------------------------------------------
\* The pieces of a line in a file or on the console are the first n of those that
\* it is made of, each of them once and in their order.
HasPieces(pieces, line, n) ==
  \E at \in [1 .. n -> DOMAIN pieces] :
    /\ \A k \in 1 .. n : pieces[at[k]] = LinePieces(line)[k] /\ (k > 1 => at[k - 1] < at[k])
    /\ \A i \in DOMAIN pieces : pieces[i].line = line => \E k \in 1 .. n : at[k] = i

Begun(line) ==
  \E c \in Callers :
    Calling(c) = "emit" /\ \E i \in DOMAIN calls[c].todo : calls[c].todo[i].piece.line = line

\* A line that a handler has taken up is in the file that was open then, once and
\* whole, and in no other, whatever is opened, removed, flushed or destroyed by
\* other callers; its text is next to its leader even with several handlers on
\* one file, and its end next to its text unless the text is a long one
\* (src/Logger/LogHandlerFile.cpp:166 and 230).
LinesInFiles ==
  \A line \in DOMAIN written : \A name \in FileNames :
    LET pieces == logFiles[name]
        whole  == LinePieces(line)
    IN /\ name # written[line].file => HasPieces(pieces, line, 0)
       /\ name = written[line].file =>
            \E n \in 0 .. Len(whole) : HasPieces(pieces, line, n) /\ (~Begun(line) => n = Len(whole))
       /\ \A i \in 2 .. Len(pieces) :
            pieces[i].line = line /\ pieces[i] # whole[1]
            /\ (line \in LongLines => pieces[i].part # "end") => pieces[i - 1].line = line

\* On the console the lines of one handler follow one another; each of them is
\* whole when the handler is done.
LinesOnConsole ==
  \A h \in Handlers :
    LET lines == {l \in DOMAIN written : written[l].handler = h}
        mine  == {i \in DOMAIN console : console[i].line \in lines}
    IN /\ \A i, j \in mine :
            i < j /\ mine \cap i + 1 .. j - 1 = {} /\ console[i].line # console[j].line
              => console[i].part = "end"
       /\ \A l \in lines : ~Begun(l) =>
            HasPieces(console, l, IF written[l].on_console THEN Len(LinePieces(l)) ELSE 0)

\* A name is that of the stream, and only a handler that never had a file meets a
\* null pointer.
HandlersKeepFiles ==
  /\ \A h \in Handlers : Alive(h) /\ Handler(h).stream # NoStream =>
       Handler(h).out_file_name = Handler(h).stream.name
  /\ fault # Nobody => ~logHandlers[fault].opened

\* What is logged through src/Logger/LogHandlerFile.cpp arrives where it belongs,
\* and the null pointer of LogHandlerFile.cpp:159 needs a handler without a file.
LogFilesKept == LinesInFiles /\ LinesOnConsole /\ HandlersKeepFiles

=============================================================================
