------------------------------- MODULE Logger -------------------------------
(***************************************************************************)
(* The logging core: LogManager, the LogStream objects (one per log level, *)
(* as LogManagerMacroDefinition declares them), the ThreadStreamBuffer     *)
(* that each LogStream keeps per thread id, and the LogHandler the manager *)
(* sends finished lines to.                                                *)
(*                                                                         *)
(* Abstractions.                                                           *)
(*  - A piece of text is <<l, n>>: the n-th API call of the l-th thread    *)
(*    that ran under a thread id.  Times and the layout of the line leader *)
(*    are left out; which thread id the leader names is kept.              *)
(*  - LogStream::GetThreadStream locks LogStream::the_lock_ only to look   *)
(*    up or create the caller's own entry, so it is part of the inserting  *)
(*    step.  LogManager::the_lock_ and the handler's the_lock_ are held    *)
(*    across several steps and are variables.                              *)
(*  - A handler writes a line to a sink in two steps (leader, then text    *)
(*    and end of line), so that interleaved writers become visible.        *)
(***************************************************************************)
EXTENDS Integers, Sequences, FiniteSets

CONSTANTS
  Threads,      \* the thread ids
  Main,         \* the thread id that runs the static destructors
  MayCall,      \* MayCall[t]: the operations the application calls from t
  Handlers,     \* the LogHandler objects
  NoHandler,    \* the NULL LogHandlerPtr
  InitialHandler,    \* the handler given to the LogManager, or NoHandler
  NoThread,     \* "mutex not locked"
  HasFile,      \* handlers with a persistent sink (LogHandlerFile*)
  HasConsole,   \* handlers that also write std::cout (no NoConsoleOutput)
  Direct,       \* handlers the application also calls without the manager
  LockedInstall,\* handlers whose InstallHandler locks (not LogHandlerFile)
  Throwing,     \* handlers whose emission may throw (LogHandlerFileMMap)
  LogLevel_Maximum,  \* highest level; LogLevel_Minimum is 0
  MinScreen,         \* min_log_level_screen given to the LogManager
  MinPersistent,     \* min_log_level_persistent given to the LogManager
  MaxCalls,     \* bound: MaxCalls[t] API calls from thread id t
  MaxLives,     \* bound: threads that run, one after the other, under an id
  MaxThrows     \* bound: emissions that throw

Operations == {"PutText", "PutEndOfLine", "Flush", "PutLiteral", "LogToLevel",
               "ManagerEmit", "EmitLineSpecific", "HandlerInstall",
               "SetLogLevel", "OpenFile", "ReuseThreadId"}

ASSUME LoggerAssumption ==
  /\ Main \in Threads
  /\ NoThread \notin Threads
  /\ MayCall \in [Threads -> SUBSET Operations]
  /\ NoHandler \notin Handlers
  /\ InitialHandler \in Handlers \union {NoHandler}
  /\ HasFile \subseteq Handlers
  /\ HasConsole \subseteq Handlers
  /\ Direct \subseteq Handlers
  /\ LockedInstall \subseteq Handlers
  /\ Throwing \subseteq HasFile
  /\ LogLevel_Maximum \in Nat
  /\ MinScreen \in 0 .. LogLevel_Maximum
  /\ MinPersistent \in 0 .. LogLevel_Maximum
  /\ MaxCalls \in [Threads -> Nat]
  /\ MaxLives \in Nat \ {0}
  /\ MaxThrows \in Nat

LogLevel_Minimum == 0

Levels == LogLevel_Minimum .. LogLevel_Maximum

\* The level of LogManager::EmitLiteral(string), which no mask filters.
NoLevel == -1

VARIABLES
  phase,                \* "running", "exiting", "exited" or "aborted"
  alive,                \* the LogStreams (levels) not destroyed yet
  calls,                \* calls[t]: API calls thread id t has made
  life,                 \* life[t]: which thread runs under id t
  throws,               \* emissions that threw so far
  line_buffer,          \* line_buffer[s][t]: unfinished line of t in stream s
  bad_bit,              \* bad_bit[s][t]: that std::ostream is in a failed state
  log_handler_ptr,      \* LogManager::log_handler_ptr_
  log_level_screen,     \* LogManager::log_level_screen_, as a set of levels
  log_level_persistent, \* LogManager::log_level_persistent_, likewise
  manager_lock,         \* owner of LogManager::the_lock_
  handler_lock,         \* handler_lock[h]: owner of the handler's the_lock_
  pc,                   \* pc[t]: where t is inside a logging call
  todo,                 \* todo[t]: emissions the current call of t still owes
  target,               \* target[t]: handler the current call of t works on
  sinks,                \* sinks[t]: sinks t has still to write the line to
  half,                 \* half[t]: t has written the leader but not the text
  file,                 \* file[h]: pieces in the persistent sink of h
  console               \* pieces written to std::cout

emission_vars == <<todo, target, sinks, half>>
level_vars    == <<log_level_screen, log_level_persistent>>
output_vars   == <<file, console>>
buffer_vars   == <<line_buffer, bad_bit>>
lock_vars     == <<manager_lock, handler_lock>>
vars == <<phase, alive, calls, life, throws, buffer_vars, log_handler_ptr,
          level_vars, lock_vars, pc, emission_vars, output_vars>>

-----------------------------------------------------------------------------
\* Wrong: without the exchange of reversed levels.
GetLogLevelMask_NoSwap(min_level, max_level) ==
  LET lo == IF min_level < LogLevel_Minimum THEN LogLevel_Minimum ELSE min_level
      hi == IF max_level > LogLevel_Maximum THEN LogLevel_Maximum ELSE max_level
  IN  lo .. hi

\* LogManager::GetLogLevelMask: clamp, order, and set one bit per level.
GetLogLevelMask(min_level, max_level) ==
  LET lo == IF min_level < LogLevel_Minimum THEN LogLevel_Minimum ELSE min_level
      hi == IF max_level > LogLevel_Maximum THEN LogLevel_Maximum ELSE max_level
  IN  IF lo > hi THEN hi .. lo ELSE lo .. hi

\* An emission: what one call of LogManager::EmitLine or EmitLiteral sends.
\* src tells who made the call, which decides what an exception does:
\*   "insert"  std::ostream insertion or flush of the owner's buffer
\*   "sync"    ThreadStreamBuffer::PutLiteral, flushing the partial line first
\*   "exit"    ~ThreadStream, run by ~LogStream
\*   "literal" PutLiteral's literal itself
\*   "temp"    ~ThreadStream of the local stream in LogToLevel
\*   "manager" LogManager::EmitLine and EmitLiteral, called by the application
\*   "direct"  LogHandler::EmitLineSpecific, called by the application
Emission(level, owner, text, src) ==
  [level |-> level, owner |-> owner, text |-> text, src |-> src]

FromBuffer(em) == em.src \in {"insert", "sync", "exit"}

\* The emission sends the current line of t in stream s.
BufferLine(s, t, src) == Emission(s, t, line_buffer[s][t], src)

\* Text made up by the current call of t, which is not buffered.
NewText(t) == <<life[t], calls[t] + 1>>

Fresh(s, t, src) == Emission(s, t, << NewText(t) >>, src)

Head1(t) == todo[t][1]

\* LogEmitControl::ShouldLogPersistent and ShouldLogScreen: the sinks a
\* handler writes, in the order LogHandlerFile::EmitLine writes them.
SinksOf(h, to_file, to_screen) ==
  (IF h \in HasFile /\ to_file THEN <<"file">> ELSE << >>) \o
  (IF h \in HasConsole /\ to_screen THEN <<"console">> ELSE << >>)

Enabled(level, mask) == level = NoLevel \/ level \in mask

\* A piece in a sink. by: the thread that wrote it, whose id the leader names.
Piece(t, em, part) == [by |-> t, owner |-> em.owner, level |-> em.level,
                       src |-> em.src, text |-> em.text, part |-> part]

-----------------------------------------------------------------------------
Init ==
  /\ phase = "running"
  /\ alive = Levels
  /\ calls = [t \in Threads |-> 0]
  /\ life = [t \in Threads |-> 1]
  /\ throws = 0
  /\ line_buffer = [s \in Levels |-> [t \in Threads |-> << >>]]
  /\ bad_bit = [s \in Levels |-> [t \in Threads |-> FALSE]]
  /\ log_handler_ptr = InitialHandler
  /\ log_level_screen = GetLogLevelMask(MinScreen, LogLevel_Maximum)
  /\ log_level_persistent = GetLogLevelMask(MinPersistent, LogLevel_Maximum)
  /\ manager_lock = NoThread
  /\ handler_lock = [h \in Handlers |-> NoThread]
  /\ pc = [t \in Threads |-> "idle"]
  /\ todo = [t \in Threads |-> << >>]
  /\ target = [t \in Threads |-> NoHandler]
  /\ sinks = [t \in Threads |-> << >>]
  /\ half = [t \in Threads |-> FALSE]
  /\ file = [h \in Handlers |-> << >>]
  /\ console = << >>

-----------------------------------------------------------------------------
(* Calls an application thread makes.  Each starts outside the logger.     *)

\* Thread t calls the operation op.
StartCall(t, op) ==
  /\ phase = "running"
  /\ pc[t] = "idle"
  /\ op \in MayCall[t]
  /\ calls[t] < MaxCalls[t]
  /\ calls' = [calls EXCEPT ![t] = @ + 1]
  /\ UNCHANGED <<phase, alive, life, throws>>

\* The call of t goes on to LogManager::EmitLine / EmitLiteral with ems.
StartEmission(t, ems) ==
  /\ todo' = [todo EXCEPT ![t] = ems]
  /\ pc' = [pc EXCEPT ![t] = "emit"]
  /\ UNCHANGED <<target, sinks, half>>

\* LogStream::operator << with text: ThreadStreamBuffer::put_char appends to
\* the caller's line.  On a failed stream the inserter does nothing.
PutText(t, s) ==
  /\ StartCall(t, "PutText")
  /\ ~bad_bit[s][t]
  /\ line_buffer' = [line_buffer EXCEPT ![s][t] = Append(@, NewText(t))]
  /\ UNCHANGED <<bad_bit, log_handler_ptr, level_vars, lock_vars, pc,
                 emission_vars, output_vars>>

\* LogStream::operator << with '\n' or std::endl: put_buffer(true) emits the
\* line, an empty one too.
PutEndOfLine(t, s) ==
  /\ StartCall(t, "PutEndOfLine")
  /\ ~bad_bit[s][t]
  /\ StartEmission(t, << BufferLine(s, t, "insert") >>)
  /\ UNCHANGED <<buffer_vars, log_handler_ptr, level_vars, lock_vars,
                 output_vars>>

\* std::flush: sync() emits the unfinished line, if there is one.  Whether a
\* failed stream still calls sync() depends on the standard library.
Flush(t, s) ==
  /\ StartCall(t, "Flush")
  /\ line_buffer[s][t] # << >>
  /\ StartEmission(t, << BufferLine(s, t, "insert") >>)
  /\ UNCHANGED <<buffer_vars, log_handler_ptr, level_vars, lock_vars,
                 output_vars>>

\* LogStream::LogLiteral and LogSeparator: PutLiteral first emits the
\* caller's unfinished line, then the literal, as two calls of the manager.
PutLiteral(t, s) ==
  /\ StartCall(t, "PutLiteral")
  /\ StartEmission(t,
       (IF line_buffer[s][t] = << >> THEN << >>
                                     ELSE << BufferLine(s, t, "sync") >>)
       \o << Fresh(s, t, "literal") >>)
  /\ UNCHANGED <<buffer_vars, log_handler_ptr, level_vars, lock_vars,
                 output_vars>>

\* LogStream::LogToLevel: a local ThreadStream whose destructor emits.
LogToLevel(t, level) ==
  /\ StartCall(t, "LogToLevel")
  /\ StartEmission(t, << Fresh(level, t, "temp") >>)
  /\ UNCHANGED <<buffer_vars, log_handler_ptr, level_vars, lock_vars,
                 output_vars>>

\* LogManager::EmitLine(text, level) and LogManager::EmitLiteral(text).
ManagerEmit(t, level) ==
  /\ StartCall(t, "ManagerEmit")
  /\ StartEmission(t, << Fresh(level, t, "manager") >>)
  /\ UNCHANGED <<buffer_vars, log_handler_ptr, level_vars, lock_vars,
                 output_vars>>

\* LogHandler::EmitLineSpecific, called on the handler and not through the
\* manager: every mask bit is set in its LogEmitControl.
EmitLineSpecific(t, h) ==
  /\ StartCall(t, "EmitLineSpecific")
  /\ todo' = [todo EXCEPT ![t] = << Fresh(NoLevel, t, "direct") >>]
  /\ pc' = [pc EXCEPT ![t] = "direct"]
  /\ target' = [target EXCEPT ![t] = h]
  /\ UNCHANGED <<sinks, half, buffer_vars, log_handler_ptr, level_vars,
                 lock_vars, output_vars>>

\* A thread ends and a new one runs under the same id.  LogStream's map is
\* keyed by the id and no entry is ever erased, so the new thread finds the
\* old one's ThreadStream.
ReuseThreadId(t) ==
  /\ phase = "running"
  /\ pc[t] = "idle"
  /\ "ReuseThreadId" \in MayCall[t]
  /\ life[t] < MaxLives
  /\ life' = [life EXCEPT ![t] = @ + 1]
  /\ UNCHANGED <<phase, alive, calls, throws, buffer_vars, log_handler_ptr,
                 level_vars, lock_vars, pc, emission_vars, output_vars>>

-----------------------------------------------------------------------------
(* LogManager::EmitLine and EmitLiteral, and the handler they call.        *)

\* Wrong: the line is not cleared after it was emitted.
ClearLine_Not(em) == line_buffer

\* Wrong: the threads share one buffer per stream, or it clears all of them.
ClearLine_All(em) ==
  IF FromBuffer(em)
  THEN [line_buffer EXCEPT ![em.level] = [t \in Threads |-> << >>]]
  ELSE line_buffer

\* put_buffer: line_buffer_.clear() after the manager's call returned.
ClearLine(em) ==
  IF FromBuffer(em) THEN [line_buffer EXCEPT ![em.level][em.owner] = << >>]
                    ELSE line_buffer

\* The call of t returns from an emission to its caller; the next emission of
\* the same API call follows, if there is one.
Return(t) ==
  /\ line_buffer' = ClearLine(Head1(t))
  /\ todo' = [todo EXCEPT ![t] = Tail(@)]
  /\ pc' = [pc EXCEPT ![t] = IF Len(todo[t]) = 1 THEN "idle" ELSE "emit"]

\* Locks the manager, finds no handler or no mask that holds the level, and
\* unlocks: the line is dropped.
SkipEmission(t) ==
  /\ pc[t] = "emit"
  /\ manager_lock = NoThread
  /\ \/ log_handler_ptr = NoHandler
     \/ ~Enabled(Head1(t).level, log_level_screen \union log_level_persistent)
  /\ Return(t)
  /\ UNCHANGED <<phase, alive, calls, life, throws, bad_bit, log_handler_ptr,
                 level_vars, lock_vars, target, sinks, half, output_vars>>

\* Wrong: the manager is unlocked before the handler is called, as the
\* comment in LogManager::EmitLine would like to have it.
HoldManager_Early(t) == UNCHANGED manager_lock

\* LogLockScoped my_lock(the_lock_), in scope until the handler returns.
HoldManager(t) == manager_lock' = t

\* Wrong: the handler does not lock itself.
HandlerFree_Always(h) == TRUE

\* LogLockScoped my_lock(the_lock_) of handler h can be constructed.
HandlerFree(h) == handler_lock[h] = NoThread

\* Locks the manager and keeps it locked through the handler's EmitLine.
LockManager(t) ==
  /\ pc[t] = "emit"
  /\ manager_lock = NoThread
  /\ log_handler_ptr # NoHandler
  /\ Enabled(Head1(t).level, log_level_screen \union log_level_persistent)
  /\ HoldManager(t)
  /\ target' = [target EXCEPT ![t] = log_handler_ptr]
  /\ pc' = [pc EXCEPT ![t] = "locked"]
  /\ UNCHANGED <<phase, alive, calls, life, throws, buffer_vars,
                 log_handler_ptr, level_vars, handler_lock, todo, sinks, half,
                 output_vars>>

\* The handler's EmitLine locks the handler and tells what it has to write.
\* (LogHandlerConsole does not lock when that is nothing.)
LockHandler(t) ==
  LET h == target[t]
      level == Head1(t).level
  IN  /\ pc[t] \in {"locked", "direct"}
      /\ HandlerFree(h)
      /\ handler_lock' = [handler_lock EXCEPT ![h] = t]
      /\ sinks' = [sinks EXCEPT ![t] =
                     SinksOf(h, Enabled(level, log_level_persistent),
                                Enabled(level, log_level_screen))]
      /\ pc' = [pc EXCEPT ![t] = "write"]
      /\ UNCHANGED <<phase, alive, calls, life, throws, buffer_vars,
                     log_handler_ptr, level_vars, manager_lock, todo, target,
                     half, output_vars>>

\* Appends a piece of t's line to the sink it is writing.
WritePiece(t, part) ==
  LET piece == Piece(t, Head1(t), part)
  IN  IF sinks[t][1] = "file"
      THEN /\ file' = [file EXCEPT ![target[t]] = Append(@, piece)]
           /\ UNCHANGED console
      ELSE /\ console' = Append(console, piece)
           /\ UNCHANGED file

\* write(GetLeaderPtr(), ...)
WriteLeader(t) ==
  /\ pc[t] = "write"
  /\ sinks[t] # << >>
  /\ ~half[t]
  /\ WritePiece(t, "leader")
  /\ half' = [half EXCEPT ![t] = TRUE]
  /\ UNCHANGED <<phase, alive, calls, life, throws, buffer_vars,
                 log_handler_ptr, level_vars, lock_vars, pc, todo, target,
                 sinks>>

\* write(line_buffer_...) and std::endl
WriteText(t) ==
  /\ pc[t] = "write"
  /\ half[t]
  /\ WritePiece(t, "text")
  /\ half' = [half EXCEPT ![t] = FALSE]
  /\ sinks' = [sinks EXCEPT ![t] = Tail(@)]
  /\ UNCHANGED <<phase, alive, calls, life, throws, buffer_vars,
                 log_handler_ptr, level_vars, lock_vars, pc, todo, target>>

\* Wrong: the manager stays locked when its call returns.
Unlock_HandlerOnly(t) ==
  /\ handler_lock' = [handler_lock EXCEPT ![target[t]] = NoThread]
  /\ UNCHANGED manager_lock
  /\ target' = [target EXCEPT ![t] = NoHandler]

\* Both lock_guards of t go out of scope.
Unlock(t) ==
  /\ handler_lock' = [handler_lock EXCEPT ![target[t]] = NoThread]
  /\ manager_lock' = IF manager_lock = t THEN NoThread ELSE manager_lock
  /\ target' = [target EXCEPT ![t] = NoHandler]

\* The handler's EmitLine returns.
EmissionDone(t) ==
  /\ pc[t] = "write"
  /\ sinks[t] = << >>
  /\ Unlock(t)
  /\ Return(t)
  /\ UNCHANGED <<phase, alive, calls, life, throws, bad_bit, log_handler_ptr,
                 level_vars, sinks, half, output_vars>>

\* The handler's EmitLine throws before it has written anything, as
\* LogHandlerFileMMap::EnsureNeededSpace does when the file cannot grow.  The
\* line stays in its buffer, because put_buffer clears it after the call.  An
\* inserter catches the exception and sets badbit; PutLiteral and the direct
\* calls pass it on to the application; out of a destructor it terminates the
\* process.
HandlerThrows(t) ==
  LET em == Head1(t)
  IN  /\ pc[t] = "write"
      /\ target[t] \in Throwing
      /\ sinks[t] # << >>
      /\ sinks[t][1] = "file"
      /\ ~half[t]
      /\ throws < MaxThrows
      /\ throws' = throws + 1
      /\ Unlock(t)
      /\ sinks' = [sinks EXCEPT ![t] = << >>]
      /\ todo' = [todo EXCEPT ![t] = << >>]
      /\ pc' = [pc EXCEPT ![t] = "idle"]
      /\ phase' = IF em.src \in {"temp", "exit"} THEN "aborted" ELSE phase
      /\ bad_bit' = IF em.src = "insert"
                    THEN [bad_bit EXCEPT ![em.level][em.owner] = TRUE]
                    ELSE bad_bit
      /\ UNCHANGED <<alive, calls, life, line_buffer, log_handler_ptr,
                     level_vars, half, output_vars>>

-----------------------------------------------------------------------------
(* Administration.                                                         *)

\* LogManager::HandlerInstall(h), or HandlerRemove() when h is NoHandler.
HandlerInstall(t, h) ==
  /\ StartCall(t, "HandlerInstall")
  /\ manager_lock = NoThread
  /\ manager_lock' = t
  /\ target' = [target EXCEPT ![t] = h]
  /\ pc' = [pc EXCEPT ![t] = "remove"]
  /\ UNCHANGED <<buffer_vars, log_handler_ptr, level_vars, handler_lock, todo,
                 sinks, half, output_vars>>

\* log_handler_ptr_->RemoveHandler(), which locks the handler for the length of
\* the call, then the pointer changes.
RemoveOldHandler(t) ==
  /\ pc[t] = "remove"
  /\ log_handler_ptr \in Handlers => HandlerFree(log_handler_ptr)
  /\ log_handler_ptr' = target[t]
  /\ pc' = [pc EXCEPT ![t] = "install"]
  /\ UNCHANGED <<phase, alive, calls, life, throws, buffer_vars, level_vars,
                 lock_vars, emission_vars, output_vars>>

\* log_handler_ptr_->InstallHandler(), and the manager is unlocked.
InstallNewHandler(t) ==
  /\ pc[t] = "install"
  /\ log_handler_ptr \in LockedInstall => HandlerFree(log_handler_ptr)
  /\ manager_lock' = NoThread
  /\ target' = [target EXCEPT ![t] = NoHandler]
  /\ pc' = [pc EXCEPT ![t] = "idle"]
  /\ UNCHANGED <<phase, alive, calls, life, throws, buffer_vars,
                 log_handler_ptr, level_vars, handler_lock, todo, sinks, half,
                 output_vars>>

\* LogManager::SetLogLevelConsole and SetLogLevelFile.
SetLogLevel(t, min_level, max_level) ==
  LET mask == GetLogLevelMask(min_level, max_level)
  IN  /\ StartCall(t, "SetLogLevel")
      /\ manager_lock = NoThread
      /\ \/ /\ log_level_screen' = mask
            /\ UNCHANGED log_level_persistent
         \/ /\ log_level_persistent' = mask
            /\ UNCHANGED log_level_screen
      /\ UNCHANGED <<buffer_vars, log_handler_ptr, lock_vars, pc,
                     emission_vars, output_vars>>

\* LogHandlerFile::OpenFile on an open handler: under the handler's lock the
\* old file is closed and the new one takes its place.  "open" marks the seam.
OpenFile(t, h) ==
  /\ StartCall(t, "OpenFile")
  /\ HandlerFree(h)
  /\ file' = [file EXCEPT ![h] = Append(@, Piece(t, Fresh(NoLevel, t, "direct"),
                                                 "open"))]
  /\ UNCHANGED <<buffer_vars, log_handler_ptr, level_vars, lock_vars, pc,
                 emission_vars, console>>

-----------------------------------------------------------------------------
(* Static destruction: the LogStreams in the reverse order of their        *)
(* definition, then the LogManager.  Every other thread has ended.         *)

BeginExit ==
  /\ phase = "running"
  /\ \A t \in Threads : pc[t] = "idle"
  /\ phase' = "exiting"
  /\ UNCHANGED <<alive, calls, life, throws, buffer_vars, log_handler_ptr,
                 level_vars, lock_vars, pc, emission_vars, output_vars>>

LastStream(s) == s \in alive /\ \A r \in alive : r <= s

\* ~LogStream: thread_stream_map_.clear() runs ~ThreadStream for each entry,
\* on the main thread, and that emits the thread's unfinished line.
DestroyThreadStream(s, o) ==
  /\ phase = "exiting"
  /\ pc[Main] = "idle"
  /\ LastStream(s)
  /\ line_buffer[s][o] # << >>
  /\ StartEmission(Main, << BufferLine(s, o, "exit") >>)
  /\ UNCHANGED <<phase, alive, calls, life, throws, buffer_vars,
                 log_handler_ptr, level_vars, lock_vars, output_vars>>

\* Wrong: ~LogStream does not wait for the ~ThreadStream of every entry.
DestroyStream_Unflushed(s) ==
  /\ phase = "exiting"
  /\ pc[Main] = "idle"
  /\ LastStream(s)
  /\ alive' = alive \ {s}
  /\ UNCHANGED <<phase, calls, life, throws, buffer_vars, log_handler_ptr,
                 level_vars, lock_vars, pc, emission_vars, output_vars>>

\* ~LogStream returns.
DestroyStream(s) ==
  /\ phase = "exiting"
  /\ pc[Main] = "idle"
  /\ LastStream(s)
  /\ \A o \in Threads : line_buffer[s][o] = << >>
  /\ alive' = alive \ {s}
  /\ UNCHANGED <<phase, calls, life, throws, buffer_vars, log_handler_ptr,
                 level_vars, lock_vars, pc, emission_vars, output_vars>>

\* ~LogManager: HandlerRemove().
DestroyManager ==
  /\ phase = "exiting"
  /\ pc[Main] = "idle"
  /\ alive = {}
  /\ log_handler_ptr' = NoHandler
  /\ phase' = "exited"
  /\ UNCHANGED <<alive, calls, life, throws, buffer_vars, level_vars,
                 lock_vars, pc, emission_vars, output_vars>>

\* The process is gone.
Stopped ==
  /\ phase \in {"exited", "aborted"}
  /\ UNCHANGED vars

-----------------------------------------------------------------------------
ApplicationCall(t) ==
  \/ \E s \in Levels : \/ PutText(t, s)
                        \/ PutEndOfLine(t, s)
                        \/ Flush(t, s)
                        \/ PutLiteral(t, s)
                        \/ LogToLevel(t, s)
  \/ \E level \in Levels \union {NoLevel} : ManagerEmit(t, level)
  \/ \E h \in Direct : EmitLineSpecific(t, h)
  \/ \E h \in Handlers \union {NoHandler} : HandlerInstall(t, h)
  \/ \E lo, hi \in Levels : SetLogLevel(t, lo, hi)
  \/ \E h \in HasFile : OpenFile(t, h)
  \/ ReuseThreadId(t)

\* The steps of a thread that is inside the logger.
InsideStep(t) ==
  /\ phase # "aborted"
  /\ \/ SkipEmission(t)
     \/ LockManager(t)
     \/ LockHandler(t)
     \/ WriteLeader(t)
     \/ WriteText(t)
     \/ EmissionDone(t)
     \/ HandlerThrows(t)
     \/ RemoveOldHandler(t)
     \/ InstallNewHandler(t)

ExitStep ==
  \/ \E s \in Levels, o \in Threads : DestroyThreadStream(s, o)
  \/ \E s \in Levels : DestroyStream(s)
  \/ DestroyManager

Next ==
  \/ \E t \in Threads : ApplicationCall(t) \/ InsideStep(t)
  \/ BeginExit
  \/ ExitStep
  \/ Stopped

Spec == Init /\ [][Next]_vars

\* A thread inside the logger goes on, and so do the static destructors once
\* they have begun.  Nothing obliges the application to call the logger, to
\* end a line or to exit.
FairSpec ==
  /\ Spec
  /\ \A t \in Threads : WF_vars(InsideStep(t))
  /\ WF_vars(ExitStep)

-----------------------------------------------------------------------------
(* Properties.                                                             *)

Sources == {"insert", "sync", "exit", "literal", "temp", "manager", "direct"}

Emissions == [level : Levels \union {NoLevel}, owner : Threads,
              text : Seq(Nat \X Nat), src : Sources]

Pieces == [by : Threads, owner : Threads, level : Levels \union {NoLevel},
           src : Sources, text : Seq(Nat \X Nat),
           part : {"leader", "text", "open"}]

PcValues == {"idle", "emit", "locked", "direct", "write", "remove", "install"}

\* Every variable has its type, and neither mask is ever empty, which
\* LogLevelFlagsToLevels relies on: it throws on an empty mask, and then
\* every later SetLogLevelConsole or SetLogLevelFile would throw.
TypeOK ==
  /\ phase \in {"running", "exiting", "exited", "aborted"}
  /\ alive \subseteq Levels
  /\ calls \in [Threads -> Nat]
  /\ life \in [Threads -> Nat]
  /\ throws \in Nat
  /\ line_buffer \in [Levels -> [Threads -> Seq(Nat \X Nat)]]
  /\ bad_bit \in [Levels -> [Threads -> BOOLEAN]]
  /\ log_handler_ptr \in Handlers \union {NoHandler}
  /\ log_level_screen \in (SUBSET Levels) \ {{}}
  /\ log_level_persistent \in (SUBSET Levels) \ {{}}
  /\ manager_lock \in Threads \union {NoThread}
  /\ handler_lock \in [Handlers -> Threads \union {NoThread}]
  /\ pc \in [Threads -> PcValues]
  /\ todo \in [Threads -> Seq(Emissions)]
  /\ target \in [Threads -> Handlers \union {NoHandler}]
  /\ sinks \in [Threads -> Seq({"file", "console"})]
  /\ half \in [Threads -> BOOLEAN]
  /\ file \in [Handlers -> Seq(Pieces)]
  /\ console \in Seq(Pieces)

ViaManager(t) == pc[t] \in {"locked", "write"} /\ Head1(t).src # "direct"

\* Where thread t is in a call and what the call still has to do agree: which
\* emissions it owes, which handler it works on, which sinks it has to write.
\* A call past the manager works on a handler that may be called so; once the
\* static destructors run, no thread but Main is inside the logger.
CallOK(t) ==
  /\ todo[t] # << >> <=> pc[t] \in {"emit", "locked", "direct", "write"}
  /\ pc[t] \in {"locked", "direct", "write"} => target[t] \in Handlers
  /\ pc[t] = "direct" => Head1(t).src = "direct"
  /\ pc[t] \in {"emit", "locked"} => Head1(t).src # "direct"
  /\ pc[t] \in {"direct", "write"} /\ Head1(t).src = "direct" => target[t] \in Direct
  /\ \A i \in 2 .. Len(todo[t]) : todo[t][i].src # "direct"
  /\ sinks[t] # << >> => pc[t] = "write"
  /\ half[t] => sinks[t] # << >>
  /\ \A i \in 1 .. Len(sinks[t]) :
       target[t] \in (IF sinks[t][i] = "file" THEN HasFile ELSE HasConsole)
  /\ phase \in {"exiting", "exited"} /\ t # Main => pc[t] = "idle"

CallInv == \A t \in Threads : CallOK(t)

\* A lock is held by the thread that is inside the section it guards, and by
\* no other: lines through the manager and handler replacement exclude each
\* other, and so do all calls of one handler.
LockInv ==
  /\ \A t \in Threads : manager_lock = t <=>
       ViaManager(t) \/ pc[t] \in {"remove", "install"}
  /\ \A t \in Threads, h \in Handlers :
       handler_lock[h] = t <=> pc[t] = "write" /\ target[t] = h

\* Some thread has written the leader p to that sink of a handler in hs and
\* owes the text.
Owes(p, hs, sink) == \E t \in Threads :
  /\ half[t]
  /\ target[t] \in hs
  /\ sinks[t][1] = sink
  /\ p = Piece(t, Head1(t), "leader")

\* In the pieces s, written by the handlers hs, every leader is followed by its
\* own text and every text follows its own leader, but for a line that is being
\* written.
WholeLines(s, hs, sink) == \A i \in 1 .. Len(s) :
  /\ s[i].part = "text" =>
       i > 1 /\ s[i - 1] = [s[i] EXCEPT !.part = "leader"]
  /\ s[i].part = "leader" =>
       IF i < Len(s) THEN s[i + 1] = [s[i] EXCEPT !.part = "text"]
                     ELSE Owes(s[i], hs, sink)

\* No two threads' lines run into each other in a log file, no line is split
\* by OpenFile over the old and the new file, and no line is left without its
\* text, whether it comes through the manager or by EmitLineSpecific.
FileLinesWhole == \A h \in Handlers : WholeLines(file[h], {h}, "file")

\* The same of std::cout, which every handler shares: what keeps its lines
\* apart is the manager's lock, so it is promised only while no handler that
\* writes std::cout is called past the manager.
ConsoleLinesWhole ==
  HasConsole \intersect Direct = {} => WholeLines(console, HasConsole, "console")

\* A line that came through the manager is written only to the handler that
\* is installed at that moment and to sinks whose mask has its level at that
\* moment: when HandlerInstall or SetLogLevel* has returned, no line goes to
\* the old handler and no suppressed line is still on its way.
EmissionCurrent == \A t \in Threads : ViaManager(t) =>
  /\ target[t] = log_handler_ptr
  /\ \A i \in 1 .. Len(sinks[t]) :
       Enabled(Head1(t).level, IF sinks[t][i] = "file"
                               THEN log_level_persistent ELSE log_level_screen)

Streamed(p) == p.part = "text" /\ p.src \in {"insert", "sync", "exit", "literal"}

SameStream(p, q) == p.level = q.level /\ p.owner = q.owner

Increasing(s) == \A i, j \in 1 .. Len(s) : i < j => s[i][2] < s[j][2]

\* What a thread put into a stream reaches a file in the order in which it
\* was put, every piece at most once: also when a line was kept because its
\* emission threw, and when a literal overtakes an unfinished line.
FileOrder == \A h \in Handlers :
  \A i, j \in 1 .. Len(file[h]) :
    LET p == file[h][i]
        q == file[h][j]
    IN  Streamed(p) /\ Streamed(q) /\ i <= j /\ SameStream(p, q) =>
          Increasing(IF i = j THEN p.text ELSE p.text \o q.text)

\* Refinement: the lines of a sink are its finished pieces; the line of a
\* thread that has written one sink and not yet returned from the handler
\* counts when it returns.
LineOf(p) ==
  IF p.part = "open" THEN [level |-> NoLevel, owner |-> NoHandler, text |-> << >>]
  ELSE [level |-> p.level, owner |-> p.owner, text |-> p.text]

\* The n-th smallest of a set of numbers.
Nth(S, n) == CHOOSE i \in S : Cardinality({j \in S : j <= i}) = n

Finished(s) ==
  LET ends == {i \in 1 .. Len(s) : s[i].part # "leader"}
  IN  [n \in 1 .. Cardinality(ends) |-> LineOf(s[Nth(ends, n)])]

AllButLast(s) == SubSeq(s, 1, Len(s) - 1)

\* t has written its line to the sink, and the handler has not returned.
Wrote(t, sink) ==
  /\ pc[t] = "write"
  /\ \A i \in 1 .. Len(sinks[t]) : sinks[t][i] # sink
  /\ IF sink = "file"
     THEN target[t] \in HasFile /\ Enabled(Head1(t).level, log_level_persistent)
     ELSE target[t] \in HasConsole /\ Enabled(Head1(t).level, log_level_screen)

FileLines == [h \in Handlers |->
  IF \E t \in Threads : handler_lock[h] = t /\ Wrote(t, "file")
  THEN AllButLast(Finished(file[h])) ELSE Finished(file[h])]

ConsoleLines ==
  IF \E t \in Threads : Wrote(t, "console")
  THEN AllButLast(Finished(console)) ELSE Finished(console)

Service == INSTANCE LogService WITH
  Anyway <- NoLevel,
  Texts <- (1 .. MaxLives) \X UNION {1 .. MaxCalls[t] : t \in Threads},
  InitHandler <- InitialHandler,
  InitScreen <- GetLogLevelMask(MinScreen, LogLevel_Maximum),
  InitPersistent <- GetLogLevelMask(MinPersistent, LogLevel_Maximum),
  pending <- line_buffer,
  handler <- log_handler_ptr,
  screen <- log_level_screen,
  persistent <- log_level_persistent,
  files <- FileLines,
  shown <- ConsoleLines

\* Logger implements LogService: with all its locks and half-written lines it
\* shows the application whole lines that are delivered at one moment, and
\* text that is neither lost nor repeated while handlers come and go, levels
\* change and emissions throw.
ImplementsService == Service!Spec

\* Whoever locks the manager or a handler unlocks it, also when the handler
\* throws and when the handler is being replaced.
LocksReleased ==
  /\ \A t \in Threads : manager_lock = t ~> manager_lock # t
  /\ \A t \in Threads, h \in Handlers :
       handler_lock[h] = t ~> handler_lock[h] # t

\* Static destruction comes to an end and by then every unfinished line of
\* every thread was emitted, unless a handler threw out of ~ThreadStream.
ExitFlushes ==
  phase = "exiting" ~>
    \/ phase = "aborted"
    \/ phase = "exited" /\ \A s \in Levels, t \in Threads :
                              line_buffer[s][t] = << >>
=============================================================================
