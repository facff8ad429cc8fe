---------------------------- MODULE MCLogHandlers ----------------------------
(***************************************************************************)
(* The log handlers that write to files, and the lines they get, checked   *)
(* together: a behaviour is one of the mapped file, of the handlers with   *)
(* streams, of one line, or of calls about levels; the others stay as they *)
(* were made.                                                              *)
(***************************************************************************)
EXTENDS MCLogHandlerFileMMap, LogLines, LogFiles

VARIABLE part

\* Good and bad levels, and texts with and without ends of lines.
MCLineLevels == {-1, 0, 1, 3, 12, 13}
MCLogTexts   == UNION {[1 .. n -> {"a", "nl"}] : n \in 0 .. 3}

MCClassOf == [file |-> "LogHandlerFile", xfile |-> "LogHandlerXFile"]

HandlersInit ==
  /\ part \in {"mmap", "streams", "line", "levels"}
  /\ Init
  /\ part # "mmap" => exists = {}
  /\ LogFilesInit
  /\ IF part = "line" THEN LineInit
     ELSE /\ emitControl = LogEmitControl({}, 0, <<>>, FormattedLeader(0))
          /\ levelCall = [call |-> "none", levels |-> {}, result |-> <<>>]

HandlersNext ==
  \/ part = "mmap" /\ Next /\ UNCHANGED <<lineVars, logFileVars, part>>
  \/ part = "streams" /\ LogFilesNext /\ UNCHANGED <<vars, lineVars, part>>
  \/ part = "line" /\ UseEmitControl /\ UNCHANGED <<vars, logFileVars, part>>
  \/ part = "levels" /\ CallLevels /\ UNCHANGED <<vars, logFileVars, part>>

HandlersSpec == HandlersInit /\ [][HandlersNext]_<<vars, lineVars, logFileVars, part>>
=============================================================================
