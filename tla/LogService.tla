----------------------------- MODULE LogService -----------------------------
(***************************************************************************)
(* What the logging core promises to the application, with no threads      *)
(* inside the logger, no locks and no half-written lines: each thread has  *)
(* one unfinished line per stream, and a line goes, as a whole and at one  *)
(* moment, to the sinks that are selected at that moment, or is dropped    *)
(* because none is.  Text leaves an unfinished line in no other way, so    *)
(* none is lost and none is written twice.  Logger implements this.        *)
(***************************************************************************)
EXTENDS Integers, Sequences

CONSTANTS
  Threads, Levels, Handlers, NoHandler, HasFile, HasConsole,
  Texts,                       \* pieces of text a thread can log
  Anyway,                      \* the level of lines no mask filters
  InitHandler, InitScreen, InitPersistent

VARIABLES
  pending,       \* pending[s][t]: unfinished line of thread t in stream s
  handler,       \* the installed handler
  screen,        \* levels that go to std::cout
  persistent,    \* levels that go to the file
  files,         \* files[h]: the lines in the log file of h
  shown          \* the lines on std::cout

vars == <<pending, handler, screen, persistent, files, shown>>

Line(level, owner, text) == [level |-> level, owner |-> owner, text |-> text]

Seam == Line(Anyway, NoHandler, << >>)   \* where OpenFile changed the file

Selected(level, mask) == level = Anyway \/ level \in mask

Init ==
  /\ pending = [s \in Levels |-> [t \in Threads |-> << >>]]
  /\ handler = InitHandler
  /\ screen = InitScreen
  /\ persistent = InitPersistent
  /\ files = [h \in Handlers |-> << >>]
  /\ shown = << >>

\* The line reaches every selected sink of handler h.
Deliver(h, line) ==
  /\ UNCHANGED <<handler, screen, persistent>>
  /\ files' = IF h \in HasFile /\ Selected(line.level, persistent)
              THEN [files EXCEPT ![h] = Append(@, line)] ELSE files
  /\ shown' = IF h \in HasConsole /\ Selected(line.level, screen)
              THEN Append(shown, line) ELSE shown

\* Thread t puts a piece of text into stream s.
Put(t, s) ==
  /\ \E text \in Texts : pending' = [pending EXCEPT ![s][t] = Append(@, text)]
  /\ UNCHANGED <<handler, screen, persistent, files, shown>>

\* The unfinished line of t in stream s is finished (with '\n', a flush, a
\* literal after it, or when the stream is destroyed).
Finish(t, s) ==
  /\ pending' = [pending EXCEPT ![s][t] = << >>]
  /\ Deliver(handler, Line(s, t, pending[s][t]))

\* A line made at once: a literal, LogToLevel, LogManager::EmitLine, or, on a
\* handler h that need not be installed, EmitLineSpecific.
Say(t, level, h) ==
  /\ h = handler \/ level = Anyway
  /\ UNCHANGED pending
  /\ \E text \in Texts : Deliver(h, Line(level, t, << text >>))

Configure ==
  /\ UNCHANGED pending
  /\ handler' \in Handlers \union {NoHandler}
  /\ screen' \in SUBSET Levels
  /\ persistent' \in SUBSET Levels
  /\ UNCHANGED <<files, shown>>

NewFile(h) ==
  /\ files' = [files EXCEPT ![h] = Append(@, Seam)]
  /\ UNCHANGED <<pending, handler, screen, persistent, shown>>

Next ==
  \/ \E t \in Threads, s \in Levels : Put(t, s) \/ Finish(t, s)
  \/ \E t \in Threads, level \in Levels \union {Anyway},
        h \in Handlers \union {NoHandler} : Say(t, level, h)
  \/ Configure
  \/ \E h \in HasFile : NewFile(h)

Spec == Init /\ [][Next]_vars
=============================================================================
