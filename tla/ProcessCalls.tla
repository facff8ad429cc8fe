---------------------------- MODULE ProcessCalls ----------------------------
(***************************************************************************)
(* Calls of src/Utility to the operating system that take several steps or *)
(* may fail half-way: sleeping, raising the resource limits, reading a     *)
(* whole file; and the exceptions that such calls throw.  The system's     *)
(* own calls are external: they may fail, or be interrupted by a signal.   *)
(***************************************************************************)
EXTENDS TimeValues, Sequences, SequencesExt, FiniteSets, FiniteSetsExt

CONSTANTS
  UIntModulus,       \* one more than the largest unsigned int, and useconds_t
  SleepArguments,    \* the times that are slept
  Resources,         \* the list of the resource limits, in the order of the code
  Unlimited,         \* RLIM_INFINITY
  LimitValues,       \* the values that a limit may have at first
  FileBytes, FileMax, WritesMax,   \* the bytes of a file; bounds of its length and its changes
  ErrorCodes,        \* codes that the system gives
  KnownCodes,        \* the ones that POSIX names
  NoError            \* no exception

\* LimitValues and Unlimited are rlim_t: RLIM_INFINITY is the largest of them.
ASSUME ProcessAssumption ==
  /\ UIntModulus \in Nat \ {0}
  /\ SleepArguments \subseteq Nat
  /\ Len(Resources) \in Nat /\ DOMAIN Resources = 1 .. Len(Resources)
  /\ LimitValues \subseteq Nat
  /\ Unlimited \in Nat
  /\ \A limit \in LimitValues : limit <= Unlimited
  /\ FileMax \in Nat

VARIABLES
  sleeper,           \* the thread that sleeps
  limits,            \* the process's limits, and the call that raises them
  raised,            \* the exception that is on its way
  reader,            \* the call of ReadFileData
  file               \* the file's bytes, and the number of times they changed

processVars == <<sleeper, limits, raised, reader, file>>

-----------------------------------------------------------------------------
(* Sleeping, in nanoseconds.  An unsigned long is wider than all arguments *)
(* times the units; usleep() takes an unsigned int.                        *)

USleep(microseconds) == (microseconds % UIntModulus) * NanoPerMicro

SecsRequest_Bug(seconds) == USleep((seconds % UIntModulus) * MilliPerSec)

SecsRequest(seconds) == USleep(seconds * MilliPerSec * MicroPerMilli)

\* The argument itself is made an unsigned int, too.
MilliRequest(milliseconds) ==
  USleep(((milliseconds % UIntModulus) * MicroPerMilli) % UIntModulus)

MicroRequest(microseconds) == USleep(microseconds)

Asleep(call, asked, requested) ==
  [call |-> call, asked |-> asked, requested |-> requested, slept |-> 0,
   signalled |-> FALSE, outcome |-> "asleep"]

SleepSecs(n) ==
  sleeper' = Asleep("SleepSecs", n * MilliPerSec * MicroPerMilli * NanoPerMicro, SecsRequest(n))
SleepMilliSecs(n) ==
  sleeper' = Asleep("SleepMilliSecs", n * MicroPerMilli * NanoPerMicro, MilliRequest(n))
SleepMicroSecs(n) == sleeper' = Asleep("SleepMicroSecs", n * NanoPerMicro, MicroRequest(n))
SleepNanoSecs(n)  == sleeper' = Asleep("SleepNanoSecs", n, n)

\* The system refuses a negative time.
NanoSleep(n) ==
  sleeper' = IF n < 0 THEN [Asleep("NanoSleep", n, 0) EXCEPT !.outcome = "threw"]
             ELSE Asleep("NanoSleep", n, n)

YieldThreadQuantum == SleepMicroSecs(0)

StartSleep ==
  /\ sleeper.outcome # "asleep"
  /\ \/ \E n \in SleepArguments :
          SleepSecs(n) \/ SleepMilliSecs(n) \/ SleepMicroSecs(n) \/ SleepNanoSecs(n) \/ NanoSleep(n)
     \/ NanoSleep(-1)
     \/ YieldThreadQuantum
  /\ UNCHANGED <<limits, raised, reader, file>>

\* External: a signal ends the sleep.  Only NanoSleep looks at what the system's
\* call returned, and what it knows of the time that is left is lost.
SleepGoesOn ==
  /\ sleeper.outcome = "asleep"
  /\ \/ /\ sleeper.slept < sleeper.requested
        /\ sleeper' = [sleeper EXCEPT !.slept = @ + 1]
     \/ /\ sleeper.slept < sleeper.requested
        /\ sleeper' = [sleeper EXCEPT !.signalled = TRUE,
                         !.outcome = IF sleeper.call = "NanoSleep" THEN "threw" ELSE "returned"]
     \/ /\ sleeper.slept = sleeper.requested
        /\ sleeper' = [sleeper EXCEPT !.outcome = "returned"]
  /\ UNCHANGED <<limits, raised, reader, file>>

-----------------------------------------------------------------------------
(* SetResourceLimitsToMax.                                                 *)

\* One turn of the loop: the soft limit becomes the hard one, and then both
\* become unlimited if the process may do that.
RaiseLimit ==
  LET i == limits.turn
      hard == limits.now[i].hard
      To(limit) == limits' = [limits EXCEPT !.now[i] = [soft |-> limit, hard |-> limit], !.turn = i + 1]
  IN /\ limits.outcome = "running" /\ i \in DOMAIN Resources
     /\ \/ limits' = [limits EXCEPT !.outcome = "threw"]
        \/ To(hard)
        \/ limits.privileged /\ To(Unlimited)
     /\ UNCHANGED <<sleeper, raised, reader, file>>

LimitsDone ==
  /\ limits.outcome = "running" /\ limits.turn = Len(Resources) + 1
  /\ limits' = [limits EXCEPT !.outcome = "returned"]
  /\ UNCHANGED <<sleeper, raised, reader, file>>

-----------------------------------------------------------------------------
(* Exceptions.                                                             *)

\* The classes of the library: each with the class that it is derived from.
BaseClass ==
  [domain_error |-> "logic_error", invalid_argument |-> "logic_error",
   length_error |-> "logic_error", out_of_range |-> "logic_error",
   logic_error |-> "exception", overflow_error |-> "runtime_error",
   underflow_error |-> "runtime_error", range_error |-> "runtime_error",
   system_error |-> "runtime_error", ios_failure |-> "system_error",
   runtime_error |-> "exception", bad_alloc |-> "exception", bad_exception |-> "exception",
   exception |-> "none"]

IsA(class, base) ==
  LET derived[c \in DOMAIN BaseClass] ==
        c = base \/ (BaseClass[c] # "none" /\ derived[BaseClass[c]])
  IN derived[class]

RethrowHandlers ==
  <<"domain_error", "invalid_argument", "length_error", "out_of_range", "logic_error",
    "overflow_error", "underflow_error", "range_error", "runtime_error",
    "bad_alloc", "bad_exception", "exception">>

\* The last three handlers throw the exception itself, with the text that it had;
\* the others throw a new one of their own class, with the new text.
Rethrow(class) ==
  LET first == CHOOSE i \in DOMAIN RethrowHandlers :
                 /\ IsA(class, RethrowHandlers[i])
                 /\ \A j \in 1 .. i - 1 : ~IsA(class, RethrowHandlers[j])
  IN IF first > 9 THEN class ELSE RethrowHandlers[first]

\* A text is the list of its parts.
ToStreamError(text, condition, with_message) ==
  <<IF text = "" THEN "Error" ELSE text, condition.category, condition.value>>
  \o (IF with_message THEN <<condition>> ELSE <<>>)

\* The system's category gives POSIX codes to the generic one.
ErrnoCondition(code)  == [category |-> "generic", value |-> code]
SystemCondition(code) ==
  [category |-> IF code \in KnownCodes THEN "generic" ELSE "system", value |-> code]

ToStringErrno(code, text, with_message) ==
  ToStreamError(text, ErrnoCondition(code), with_message)
ToStringSystemError(code, text, with_message) ==
  ToStreamError(text, SystemCondition(code), with_message)

\* The library appends the message of the code to the text.
SystemErrorWhat(text, condition) == Append(text, condition)

ThrowErrno(code, text) ==
  [class |-> "system_error",
   what |-> SystemErrorWhat(ToStringErrno(code, text, FALSE), ErrnoCondition(code))]
ThrowSystemError(code, text) ==
  [class |-> "system_error",
   what |-> SystemErrorWhat(ToStringSystemError(code, text, FALSE), SystemCondition(code))]

\* The text of the exception at once says what the ToString function would say.
ErrorIsThrown(code, text, say) ==
  \/ raised' = [thrown |-> ThrowErrno(code, text), rethrown |-> NoError, code |-> code,
                said |-> IF say THEN ToStringErrno(code, text, TRUE) ELSE <<>>]
  \/ raised' = [thrown |-> ThrowSystemError(code, text), rethrown |-> NoError, code |-> code,
                said |-> IF say THEN ToStringSystemError(code, text, TRUE) ELSE <<>>]

Raise ==
  /\ \/ \E code \in ErrorCodes, text \in {"", "text"}, say \in BOOLEAN :
          ErrorIsThrown(code, text, say)
     \/ \E class \in DOMAIN BaseClass :
          raised' = [thrown |-> [class |-> class, what |-> <<class>>], rethrown |-> NoError,
                     code |-> 0, said |-> <<>>]
  /\ UNCHANGED <<sleeper, limits, reader, file>>

RaiseAgain ==
  /\ raised # NoError /\ raised.rethrown = NoError
  /\ raised' = [raised EXCEPT !.rethrown = Rethrow(raised.thrown.class)]
  /\ UNCHANGED <<sleeper, limits, reader, file>>

-----------------------------------------------------------------------------
(* ReadFileData, with the file's bytes read one at a time.                 *)

\* Opening it and seeking in it may fail.
ReadFails(old) == reader' = [reader EXCEPT !.state = "threw", !.read = <<>>, !.old = old]

\* The file is opened, and its end is its size.  An empty file empties the data.
ReadFileSize ==
  /\ reader.state # "reading"
  /\ \/ ReadFails(reader.data)
     \/ /\ file.bytes = <<>>
        /\ reader' = [data |-> <<>>, state |-> "returned", size |-> 0, read |-> <<>>,
                      old |-> reader.data, content |-> <<>>, touched |-> FALSE]
     \/ /\ file.bytes # <<>>
        /\ reader' = [data |-> reader.data, state |-> "reading", size |-> Len(file.bytes),
                      read |-> <<>>, old |-> reader.data, content |-> file.bytes,
                      touched |-> FALSE]
  /\ UNCHANGED <<sleeper, limits, raised, file>>

\* The end of the file before the size of it is an error, like one of the system.
ReadFileByte ==
  LET next == Len(reader.read) + 1
  IN /\ reader.state = "reading"
     /\ \/ ReadFails(reader.old)
        \/ /\ next \in DOMAIN file.bytes
           /\ reader' = IF next < reader.size
                        THEN [reader EXCEPT !.read = Append(@, file.bytes[next])]
                        ELSE [reader EXCEPT !.data = Append(reader.read, file.bytes[next]),
                                            !.read = <<>>, !.state = "returned"]
     /\ UNCHANGED <<sleeper, limits, raised, file>>

\* External: another process changes the file.
FileWritten ==
  /\ file.changes < WritesMax
  /\ \E n \in 0 .. FileMax : \E bytes \in [1 .. n -> FileBytes] :
       file' = [bytes |-> bytes, changes |-> file.changes + 1]
  /\ reader' = [reader EXCEPT !.touched = @ \/ reader.state = "reading"]
  /\ UNCHANGED <<sleeper, limits, raised>>

-----------------------------------------------------------------------------
SleepInit == sleeper = [Asleep("SleepNanoSecs", 0, 0) EXCEPT !.outcome = "returned"]

LimitsInit ==
  \E privileged \in BOOLEAN :
  \E now \in [DOMAIN Resources -> {l \in [soft : LimitValues, hard : LimitValues] :
                                     l.soft <= l.hard}] :
    limits = [now |-> now, was |-> now, turn |-> 1, privileged |-> privileged,
              outcome |-> "running"]

ErrorInit == raised = NoError

ReaderInit ==
  /\ reader = [data |-> <<>>, state |-> "idle", size |-> 0, read |-> <<>>, old |-> <<>>,
               content |-> <<>>, touched |-> FALSE]
  /\ file = [bytes |-> <<>>, changes |-> 0]

ProcessInit == SleepInit /\ LimitsInit /\ ErrorInit /\ ReaderInit

SleepNext  == StartSleep \/ SleepGoesOn
LimitsNext == RaiseLimit \/ LimitsDone
ErrorNext  == Raise \/ RaiseAgain
ReaderNext == ReadFileSize \/ ReadFileByte \/ FileWritten

ProcessNext == SleepNext \/ LimitsNext \/ ErrorNext \/ ReaderNext

ProcessSpec == ProcessInit /\ [][ProcessNext]_processVars

-----------------------------------------------------------------------------
\* Nobody sleeps longer than asked, and who was not woken by a signal sleeps as
\* long as asked if the microseconds fit into an unsigned int.
SleptAsAsked ==
  /\ sleeper.slept <= Max({sleeper.asked, 0})
  /\ sleeper.outcome = "returned" /\ ~sleeper.signalled
       /\ (sleeper.call \notin {"SleepNanoSecs", "NanoSleep"} =>
             sleeper.asked < UIntModulus * NanoPerMicro)
     => sleeper.slept = sleeper.asked
  /\ sleeper.outcome = "threw" => sleeper.call = "NanoSleep"

\* A call that fails half-way has raised the limits before the one that failed and
\* touched none behind it; no limit is ever lowered, and only a privileged
\* process raises a hard one.
LimitsRaised ==
  /\ \A i \in DOMAIN Resources :
       /\ limits.now[i].soft >= limits.was[i].soft
       /\ limits.now[i].hard >= limits.was[i].hard
       /\ limits.privileged \/ limits.now[i].hard = limits.was[i].hard
       /\ IF i < limits.turn THEN limits.now[i].soft = limits.now[i].hard
          ELSE limits.now[i] = limits.was[i]
  /\ limits.outcome = "returned" => limits.turn = Len(Resources) + 1

\* Whoever would have caught the exception catches the one thrown in its place,
\* as far as Rethrow knows the classes; and an exception says what the texts
\* of its code say.
ErrorsKept ==
  raised # NoError =>
    /\ raised.rethrown # NoError =>
         \A i \in DOMAIN RethrowHandlers :
           IsA(raised.rethrown, RethrowHandlers[i]) <=> IsA(raised.thrown.class, RethrowHandlers[i])
    /\ raised.said # <<>> => raised.said = raised.thrown.what

\* The caller's data is that of the whole file or what it was before the call: of
\* the length that the file had, and the file's own bytes unless another process
\* changed them meanwhile.
FileReadWhole ==
  /\ reader.state # "returned" => reader.data = reader.old
  /\ reader.state = "returned" =>
       /\ Len(reader.data) = reader.size
       /\ ~reader.touched => reader.data = reader.content

\* The four calls of src/Utility/Sleep.cpp:53, ResourceLimits.cpp:90,
\* include/Utility/ExceptionRethrow.hpp:55 and ReadFile.cpp:42 do what was asked, or
\* leave what they found: with a signal, a failure or another process between
\* any two steps.
CallsDoAsAsked == SleptAsAsked /\ LimitsRaised /\ ErrorsKept /\ FileReadWhole

=============================================================================
