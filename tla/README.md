# Formal models of ares-mlbdev2

TLA+ models of the parts of this repository that keep state, run concurrently, have to
survive a crash, or compute at the boundaries of their numbers, with the TLC runs that
check them and theorems about them that TLAPS proves. `PROJECT.json` holds the same
facts for tools: components, runs, the mutant that each property catches, the source
lines of every definition, the hazards of the code, the findings and the theorems.

    tlc -workers 2 -config LoggerWrite.cfg MCLogger       # any run of the table below
    tlapm LoggerProofs.tla                                # or another *Proofs module

## 1. The system

| Component | State it keeps | Operations | Hard behaviour |
|---|---|---|---|
| **Log manager and streams** (`Logger/LogManager.cpp`, `include/Logger/LogManager.hpp`) | the installed handler, two level masks, the manager's lock; for each level a `LogStream` with one `ThreadStreamBuffer` per thread id | insert, end of line, flush, literals, `LogToLevel`, `EmitLine`, `HandlerInstall`, `SetLogLevel*`, static destruction | threads against a handler that is replaced, masks that change, handlers that throw, thread ids that are used again, exit with unfinished lines |
| **Log handlers and levels** (`LogHandler*.cpp`, `LogEmitControl.cpp`, `LogLevel.cpp`) | an output file, `std::cout`, the handler's lock and flags; the leader of a line, laid out when it is first needed | `EmitLine`, `EmitLiteral`, `EmitLineSpecific`, `InstallHandler`, `RemoveHandler`, `OpenFile`, `SetFlags`; level names and masks | a line takes several writes; a handler may be called past the manager; two handlers on one file; streams that fail to open |
| **Memory-mapped log file** (`LogHandlerFileMMap.cpp`) | a mapped window of the file, the offset in it, padding behind the text | `OpenFile`, emission, new window, destructor | crash, failing system calls, lines longer than a window, files found with padding |
| **File store** (`MFStore/*`) | a file, a header with `file_size` and `file_size_pending`, an advisory lock, controls that share a mapping and cache its size, a list of sections | `CreateMFStore`, `MFStoreControl`, `GetWriterAdvisoryLock`, `EnsureFileBackingStore`, `FixUpFileSizePending`, the section list's append, fix-up and check | several processes, crashes between any two steps, `fallocate()` that fails, locks that belong to a process, sums of 64 bits |
| **NATS wrapper** (`NatsWrapper/*`) | shared pointers to objects of the NATS C library, the callback and closure of a subscription | connect, publish, subscribe, receive, unsubscribe, copy, callbacks | ownership of messages, callbacks of another thread through a raw closure pointer, statuses that become exceptions |
| **Utility** (`Utility/*`, `include/Utility/*`) | times; usage counters and their difference; environment lists; saved signal handlers and a flag; the state of the CSV, line and configuration readers; short values such as versions and ids | arithmetic, conversion and texts of times; listing, merging, installing, parsing, resolving, trimming, splitting, translating; sleeping, raising limits, reading files | boundaries of numbers, order of installing and restoring handlers, failures half-way, aliased arguments, signals between two calls |
| **Build files, scratch pad, tests** | – | – | – |

Interaction: an application inserts text into a `LogStream`; the stream's buffer for
the calling thread gives finished lines to the `LogManager`, which calls the
installed `LogHandler` under the manager's lock; the handler takes its own lock and
writes its sinks. `LogHandlerFileMMap` is one such handler, and it and the file store
round with `GranularRound`. The file store's pieces are called by applications, not by
each other: `MFStoreControl` maps the file, `EnsureFileBackingStore` and
`GetWriterAdvisoryLock` work on a control, `FixUpFileSizePending` calls the former.
The NATS wrapper stands alone, and the parts of Utility are independent libraries that
the others call.

What makes each of them correct:

- Logger: a line is delivered whole, once, in the order of its thread, to the handler
  and the levels of that moment; a replaced handler gets nothing more; exit loses
  nothing; locks are always released; a leader says when, by whom and at what level.
- Mapped log file: bytes are written inside the window, the window is inside the file,
  text is only appended, and there are no NUL bytes before text.
- File store: one writer, for as long as it has the lock; the published size is never
  larger than the file; a repair leaves a store that can grow; sections that were
  checked do not overlap.
- NATS wrapper: an object is destroyed once, by its last holder; no call goes through
  a pointer to nothing; a call that throws has changed nothing.
- Utility: arithmetic agrees with its definition wherever the widths allow, and says so
  where they do not; what is written is read back; nothing is lost, repeated or
  invented when texts are cut and joined; a failure leaves what was there.

## 2. Modules

| Module | Models | Extends / instantiates |
|---|---|---|
| `Logger` | manager, streams, thread buffers, handlers, levels, static destruction | instantiates `LogService` |
| `LogService` | what the logger promises: whole lines delivered at one moment | – |
| `LogLines` | leader, literals and level conversions of one line | – |
| `LogFiles` | the two handlers that write to streams, with files that open, fail and are shared | – |
| `LogHandlerFileMMap` | the mapped log file, byte by byte | `GranularRound` |
| `MCLogger`, `MCLogHandlerFileMMap`, `MCLogHandlers` | instances for TLC | the modules above |
| `MCMappedFiles` | the log file, the store file, its sections and its controls, one per behaviour | `MCLogHandlerFileMMap`, `MFStoreFile`, `MFStoreControls` |
| `LoggerProofs`, `LoggerServiceProofs` | theorems about `Logger`; those about order and refinement | `Logger`; `LoggerProofs`, `NumberProofs` |
| `LogHandlersProofs` | theorems about the handlers that write to files and the lines they get | `LogHandlerFileMMap`, `LogFiles`, `LogLines`, `NumberProofs` |
| `StoreProcesses` | the constants that the next two groups share | – |
| `MFStoreFile`, `MCMFStoreFile` | creation, lock, growth and repair of a store | `StoreProcesses`; instantiates `GrowingStore` |
| `GrowingStore` | what a store promises to readers without a lock | – |
| `MFStoreFileProofs` | theorems about `MFStoreFile` | `MFStoreFile` |
| `MFStoreSection` | the section list, in 64-bit arithmetic | `GranularRound` |
| `MFStoreControls` | controls, their copies, cached sizes and locks | `MFStoreSection`, `StoreProcesses` |
| `MFStoreProofs` | theorems about section lists and controls | `MFStoreControls`, `NumberProofs` |
| `GranularRound`, `NumberProofs` | `GranularRoundDown`, `GranularRoundUp`; their bounds, and induction over sets of numbers | – |
| `NatsObjects`, `MCNatsObjects` | the NATS wrapper and what it knows of the library | instantiates `SharedObjects` |
| `SharedObjects` | objects with holders | – |
| `NatsObjectsProofs` | theorems about `NatsObjects` | `NatsObjects` |
| `TimeValues`, `TimeTexts` | times, their arithmetic; their texts and calendars | – ; `TimeValues` |
| `RsrcUsage`, `Environment`, `CriticalEvents` | usage counters; environment lists; signal handlers | – |
| `MCRsrcUsage`, `MCEnvironment` | instances of the first two, with a record of the descriptions that `RsrcUsage` has kept | `RsrcUsage`; `Environment` |
| `ParsedText`, `Configuration`, `Identifiers` | CSV and line readers; configuration files; versions, ids, command lines | – |
| `TextEdits`, `PathNames`, `Numbers`, `Translations` | strings; names; radix texts; UTF-8, teletype codes, escapes | the last three extend `TextEdits`, `Numbers` also `Configuration` |
| `ProcessCalls` | sleeping, limits, reading a file, exceptions of the system | `TimeValues` |
| `UtilityProofs` | theorems about times, signal handlers, environment lists, calls of the system, configuration files, usage counters, and texts of versions, ids and options | `TimeValues`, `CriticalEvents`, `Environment`, `ProcessCalls`, `Configuration`, `Identifiers`, `RsrcUsage`, `NumberProofs` |
| `MCUtility` | the parts of Utility, one per behaviour | the thirteen modules above it, but for proofs |

### Logger

Variables have the names of the members they stand for: `log_handler_ptr`,
`log_level_screen`, `log_level_persistent`, `line_buffer[s][t]` (the text of the
`ThreadStreamBuffer` of thread id `t` in stream `s`), `manager_lock`,
`handler_lock[h]`. A call of the logger is a sequence of steps of one thread, with
`pc[t]`, `todo[t]` (the lines the call still has to emit), `target[t]`, `sinks[t]` and
`half[t]` for the place inside it:

    idle --PutText, PutEndOfLine, Flush, PutLiteral, LogToLevel, ManagerEmit--> emit
    emit --LockManager--> locked --LockHandler--> write
    idle --EmitLineSpecific--> direct ------LockHandler--> write
    write: WriteLeader, WriteText for each sink, then EmissionDone or HandlerThrows
    idle --HandlerInstall--> remove --RemoveOldHandler--> install --InstallNewHandler--> idle

`SetLogLevel` and `OpenFile` are single steps that need the lock they take.
`BeginExit`, `DestroyThreadStream`, `DestroyStream` and `DestroyManager` are the static
destructors, in the reverse order of the declarations. A piece of text is the number
of the call that put it there, with the number of the thread that ran under its
thread id then, so that a lost, repeated, reordered or foreign piece shows. Times and
the layout of a line are left out here (`LogLines` has them). A line goes to a sink in
two steps, leader and text, because that is where lines of two threads could mix.

Writing over a lock that is held across steps is what the variables are for;
`LogStream::the_lock_` only guards a look-up and is part of the step that does it.
`LogHandlerFile::InstallHandler` is the one that does not lock; `LockedInstall`
names the handlers that do.

`LogService` has no locks, no threads inside it and no half lines: one action delivers
a line to the sinks that the masks select, another keeps it because the handler threw.
`ImplementsService` maps `files` and `shown` to the finished lines of `file` and
`console`; a line that is on one sink only is not counted until the handler returns.

### LogLines and LogFiles

`LogLines` has one `emitControl`, whose leader is laid out by the first getter that
needs it, and `levelCall`, one call of the level functions. A character of the leader
is what it belongs to, and `"unset"` until something writes it. Flags of levels are the
set of their bits: a shift takes one from each and drops the lowest.

`LogFiles` has both classes with a stream, `LogHandlerFile` and `LogHandlerXFile`.
`logHandlers[h]` has their members, `calls[c]` the call a thread is in and the pieces it
still has to write, `logFiles` and `console` the pieces that arrived. The library's
streams are external: they collect what is written and pass it on at the end of a line,
but a long text goes through at once, which is where two handlers on one file can meet.
A handler is used before its first file (`fault`: the null pointer of
`LogHandlerFile.cpp:159`), fails to open one, and is destroyed.

### LogHandlerFileMMap

A file is a sequence of bytes, each 0 or the number of the emission that wrote it.
`region_size` and `mapping_size` are the same length as `size_t` and as `unsigned int`.
`OpenFileImpl` takes the handler's lock only in its last block: what is before it is
one of `OpenNew`, `OpenNewFails`, `OpenEmpty`, `OpenFull`, `OpenPadded`,
`OpenTrimmed` and `OpenFails`, and the block is `OpenSwap`. A crash ends the
process, not the system, so that the file keeps what was copied into the mapping.
`TruncateFileSize` and `ResolveFilePathGeneral`, which it calls, are not in the
repository; they are modelled from their use. The file itself is not in the CMake build
(`Logger/CMakeLists.txt:16` calls it pending).

### MFStoreFile and GrowingStore

Processes share a file (`store_exists`, `actual_file_size`), the header in its mapping
(`file_size`, `file_size_pending`) and the advisory `lock`. `pc[p]` goes

    out --CreateOpen--> created --CreateMap--> mapped        (the process that creates)
    out --OpenMap--> mapped                                  (any other)
    mapped --GetWriterAdvisoryLock--> locked
    locked --InitHeader--> writer                            (creator)
    locked --FixUpReturns, FixUpReset--> writer              (others)
    locked --FixUpExtend--> extending --FixUpPublish--> writer
    writer --GrowBegin--> growing --GrowExtend--> grown --GrowPublish--> writer
    any place --End--> out                                   (also a crash)

Each exception leads to `failed`, from which only `End` goes on. Nothing in the
repository calls these pieces in this order; it is the order that the messages of
`FixUpFileSizePending` describe. Growing is a sketch,
`ScratchPad/MFStore/StorageSizeControl.cpp`, whose checks are `GrowBegin` and whose
missing middle is taken from the repair: pending size, file, size. `PartialAlloc`
says whether an `fallocate()` that fails may have made the file longer.

`GrowingStore` has two numbers, what the file has and what readers are told of;
both only grow, and the second never passes the first.

### MFStoreSection and MFStoreControls

`section_list` is changed by `AppendSection`, by `FixupSectionList` (which fixes the
sections before a bad one even when it throws) and by the application, because the
fields are public. `CheckSectionList` and `CheckExtent` are predicates. All sums are
modulo `Limit`, which is 2^64.

`MFStoreControls` has the objects around the list. `controls[c]` is an `MFStoreControl`
with the size it was built with and a mapping that its copies share; the last one that
lets go of a mapping closes its descriptor, and with it the process loses its `fcntl()`
lock (`Released`), even if another mapping was the one that asked for it.
`CreateMFStoreAdjusted` rounds what it is given. A growth of the file is not seen by
the controls that exist.

### NatsObjects and SharedObjects

The library's objects have a `life`, a shared pointer is a number of a control block
(`blocks`), and a handle of the application is a record with the object and its block:
two handles of one block share, two blocks of one object destroy it twice. The library
has messages in its queue or in the hands of a callback (`queued`, `running`), knows
which subscriptions and connections are open (`subscribed`, `open`, `connection`), and
calls `callback[s]` on `closure[s]` from a thread of its own, while the subscription may
still be `building`. Each call of the wrapper is an action that the library answers
with any status; `result` is what became of it. The library is external: it is modelled
from how the wrapper calls it. A callback wraps its message once, because `FromRaw` takes
ownership (`NatsMsg.hpp:69`). A callback that finds its closure destroyed, or NULL, sets `fault`
and ends the model; the former is the application's fault, the latter is what the code
tests for, and is a finding.

`SharedObjects` only knows objects and holders: an object is made with holders, passed
on, and destroyed in the step in which it loses the last one. Some objects
(`MayBeLost`) can be left alive by a constructor that throws.

### Utility

| Module | State | Actions |
|---|---|---|
| `TimeValues` | `time`, an object of one of three classes | `Add*`, `SetTo`, differences, comparison, conversion; sums of longs wrap, range checks are in doubles of a few bits |
| `TimeTexts` | – | what `ToString` writes of `time` in UTC, in local time and as an interval, and what `FromString` reads, with a calendar and zones whose clocks change |
| `RsrcUsage` | two objects, the process's counters, what lies between two samples | sampling, differences with every aliasing of arguments, listings |
| `Environment` | `environ`, two lists and a result | conversions and both merges, which may throw half-way |
| `CriticalEvents` | dispositions, each object's lists and phase, the flag | construction and destruction signal by signal, a signal at any step, `signal()` that fails |
| `ParsedText` | a text, the parser's control and state | one row per step; the same for lines |
| `Configuration` | the members of an object, a file, the line reached | one line per step, with conversions to integers, booleans and strings |
| `Identifiers` | a version, ids, a command line with its options | assignments, increments, texts, resolution of an option |
| `TextEdits`, `PathNames`, `Numbers`, `Translations` | one text, name, number or input | each function is applied to what is there; the properties compare it with a definition of its own |
| `ProcessCalls` | a sleeper, limits, an exception, a reader | steps of `NanoSleep` with signals, `setrlimit()` that fails, rethrowing, a file that another process changes |

`MCUtility` chooses one part in its initial state; the others stay as they were made.
That keeps one run for all of them without multiplying their states. `MCMappedFiles` does
the same for the log file, the store file, its sections and its controls.

Two properties say what a comment of the code says and the code does not do.
`ExcludedNotMerged` is one of `Environment`. `RsrcUsage` has two descriptions of what a step
leaves (`AbsentMarked`, `SameStructureZero`); `MCRsrcUsage` keeps in `kept` those that
every step so far has been true to, and `DescriptionKept` says that one is left, so that a
behaviour that violates it shows both to be wrong.

## 3. Runs

| Run | Question | Bounds | States, time |
|---|---|---|---|
| `LoggerWrite` | Does text arrive in order, once and in whole lines while the handler is replaced and may throw? (`FileOrder`, `ConsoleLinesWhole`, `ImplementsService`) | two writers (1 and 3 calls), one thread that replaces the handler, 2 handlers, 1 level, 1 exception | 38 k, 70 s |
| `LoggerAdmin` | Do locks and masks keep lines whole and current when levels, handlers and files change, and handlers are called past the manager? (`TypeOK`, `LockInv`, `FileLinesWhole`, `EmissionCurrent`) | 2 levels, a writer, two administrators | 251 k, 25 s |
| `LoggerLive` | Is every lock released, and does exit leave no unfinished line? (`LocksReleased`, `ExitFlushes`) | a writer that also calls a handler past the manager, one thread that installs handlers which lock themselves for it, 2 lives of a thread id, 1 exception | 127 k, 60 s |
| `MappedFiles` | *The log file:* are all writes inside window and file, and is no text lost? (`WritesStayInside`, `AppendOnly`) | page 2, chunk 6, lines of 1, 5 and 8 bytes, 2 files, 2 emissions, 1 crash, 1 failure | 352 k, 80 s, with the next two rows |
| | *The store:* is there one writer, is the published size backed, is a writer's store settled? (`SingleWriter`, `PublishedBacked`, `WriterSettled`, `ImplementsGrowingStore`) | 3 processes, sizes up to 6 granules, crashes anywhere, `fallocate()` that fails half way | |
| | *Sections and controls:* is what the check accepts a layout of the file, does a fix-up repair a list, and what do a control's size and its lock still say later? (`AcceptedIsLayout`, `FixupIsAccepted`, `ControlsKept`) | 3 sections, granule 2, elements up to 3, 32 for 2^64; 3 controls in 2 processes, 3 mappings, lengths up to 8 | |
| `LogHandlers` | Is a mapped file's text in one piece after crashes, do lines arrive in their files, and does a leader say what it should? (`NoGaps`, `LogFilesKept`, `LinesLaidOut`) | mapped file as above with lines shorter than a chunk, and files in use opened again; 2 handlers, one of each class, 2 callers, 2 files, a short and a long line, one `OpenFile`; times of 3 characters, thread ids of 4 digits, texts of 3 | 415 k, 50 s |
| `MMapLongLine` | *violation:* `NoGaps` with lines longer than a chunk | | |
| `MFStoreFixUp` | *violation:* `ExtendedToPending` | `fallocate()` is all or nothing | |
| `NatsObjects` | Is every object destroyed once, does no call go through NULL, does a call that throws change nothing? (`NoDangling`, `OnlyMessagesHollow`, `ServersCountKept`, `ThrowChangesNothing`, `ImplementsShared`) | one plain object, one connection, one subscription, 2 messages, 5 handles; 4 for 2^32 and 8 for 2^64 | 34 k, 40 s |
| `NatsNullClosure` | *violation:* `NullClosureRefused` | | |
| `Utility` | Do the parts of Utility compute what they should? One property for each part: `TimeSumExact`, `TimeLimitChecked`, `TimeDifferenceExact`, `TimeTextRoundTrip`, `UsageReported`, `EnvironmentMerged`, `HandlersInPlace`, `TextRowsRead`, `ConfigApplied`, `IdentifiersRead`, `NamesFit`, `NumberPartShown`, `TextPartsKept`, `CallsDoAsAsked` | longs of 6 bits, doubles of 4 significant bits, 8 ticks in a second, two zones, days of 8 seconds; lists of up to 2 strings; texts of up to 4 characters and some longer ones; 2 lines of configuration, loaded twice; 2 objects with 2 signals; numbers of 1 and 2 bytes | 73 k, 90 s |
| `ExcludedMerged` | *violation:* `ExcludedNotMerged` | the lists of `Utility` | |
| `UsageDescriptions` | *violation:* `DescriptionKept` | the objects and counters of `Utility` | |

Why the bounds are enough. *Logger:* every lock is fought for by at least two threads;
three calls of a writer give an unfinished line, a finished one and a literal that
overtakes; one exception shows what is kept; two levels are the fewest for which a mask
can suppress one; two handlers are the fewest for a replacement. The proofs lift the
safety part to any number. *Mapped file:* with a chunk of 6 in pages of 2, lines of
1, 5 and 8 bytes fit the rest of a window, need a new one, and need one longer than a
chunk; the proofs lift it too. *Handlers:* a long line passes its stream at once while a
short one is collected, so that two callers on one file meet in every order; thread ids
are below, at and above the modulus. *Store:* six granules allow two growths with a file
that ends before, at, between and behind the two sizes; of three processes one crashes,
one repairs and one comes between. *Sections:* with 32 for 2^64 one section cannot reach
the limit and three can, the relation that the code's `MaxElementValue` has to 2^64; two
controls of one process are the fewest for which one closes the other's lock. *NATS:* two
messages are one in the queue and one in hand, two message handles one that copies, and
the statuses are those that the wrapper tells apart. *Time:* a long has more bits than a
double, as in the code, so that sums near its ends are rounded; a unit is finer and
coarser than the tick of some class. *Texts:* each special character comes first, last,
twice and next to each other.

`CHECK_DEADLOCK FALSE` stands where the system may stop: a mapped file or a handler whose
bounds are used up; a store whose creation failed, whose file stays, with no header, so
that no process can use or replace it (section lists and controls, which share that run,
always have a next step); NATS objects that are all destroyed; and the
parts of Utility that come to an end, as a merge, a parsed text or an ended process do.

*Fairness* is assumed by `LoggerLive` only. `FairSpec` has weak fairness of every
thread's steps inside the logger and of the static destructors, which is what a
scheduler that runs every runnable thread gives; no thread holds a lock while it waits
for another thread's, in a cycle, so weak fairness is enough. Nothing obliges the
application to call the logger, to end a line or to exit. All other properties are
safety properties and need none.

## 4. Findings

1. **`MMapLongLine`** – `LogHandlerFileMMap.cpp:298`: the comment says that NUL bytes
   left by a crash are backed over; only the last chunk is looked at, and a line longer
   than a chunk leaves more than that.
2. **`MFStoreFixUp`** – `FixUpFileSizePending.cpp:88`: the repair passes the pending size
   where a length is expected, and the message above it names the difference of the two
   sizes. The file becomes `file_size + file_size_pending` long; a crash before the next
   line makes every later opening throw.
3. **`NatsNullClosure`** – `NatsSubscription.cpp:168`: `ThrowIfNull` is given its arguments
   in the wrong order and tests the text, so that a closure that is NULL, which is the
   default, is called through.
4. **`ExcludedMerged`** – `GetEnvironment.cpp:448`: the comment at line 347 says that the
   names of the list "won't be merged if 'merge_smart_flag' is 'true'"; they are looked up
   with an empty value among elements that are ordered by name and value, so that a name
   that has a value, as `HOME` has, is merged. `EnvironmentMerged` is silent about these
   names.
5. **`UsageDescriptions`** – `RsrcUsage.cpp:1072`: lines 1032-1035 say that a difference that
   is put into the structure of its start is zero in each member; it is made in an object of
   its own and is the difference of the two usages. `UsageReported` takes it so.
6. **`UsageDescriptions`** – `RsrcUsage.cpp:941`: lines 762-776 say that members which the
   system lacks are set to the largest time and value; for POSIX these assignments are
   commented out, the members are 0, and the listings that look for the marks print zeros.
   `UsageReported` takes it so.

Met while modelling, and in the models as the code has them, without a run of their own:

*Logger.* Streams of threads are found by thread id and never erased
(`LogManager.hpp:309`): a thread with the id of an ended one continues its line. A second
`OpenFile` of the mapped handler leaves the first file with its padding, and a new file
that cannot be extended stays behind, empty; a line that is written while `OpenFileImpl`
looks for the end of the same file is overwritten. `DoNotAppend` asks for a stream with
`app` and `trunc`, which the standard refuses, so that no file is opened. `LogZeroTime`
leaves a separator of the leader unset. `LogHandlerXFile` gives every object one static
buffer, after opening, which has no effect. The level getters, `OpenFile`'s flags and
`GetFileName` are read without the lock.

*File store.* `CreateMFStore` never closes its descriptor. A second mapping of the same
process gives up the first one's lock when it is closed. `MFStoreControl`'s constructor
builds an exception that it does not throw. `SetDescription` refuses a description of 63
characters, which fits and which its message allows.

*Time.* Differences of `TimeVal` pass through doubles; sums of seconds are checked in
doubles and may exceed a long by the rounding; `SleepSecs` passes microseconds in 32
bits; years above 9999 are written modulo 10000; local times are read as UTC; the text
version of `TimeTM::AscTime` calls `ToString`.

*Reading and parsing.* `ParseCsv` makes a column of what is left of CR LF, loses the end of
a last quote, ignores `line_sep_list` in places, cannot reach its doubled quote, and
throws at the same row for ever. `ReadFileLines` repeats for ever on a read error.
Negative numbers wrap in unsigned members of a configuration. Versions accept empty
elements. A bad unique id is read as nil, because only its first character is looked at.
The merge of environments compares whole strings: two values of one name are both kept.

*Strings.* Comparison without case is no consistent order for texts of different length;
`FloatingPointCompareLess` can hold both ways; a path `a.b/` has an extension; a
canonical host name may end in a dot; `nstrcat` may need more room than it says;
`XLateEscapeChars` is ambiguous for texts with a backslash; a separator given as a C
string ends at its first NUL; `DemangleCppName` deletes what `malloc` gave; the basic form
of a name that ends in `->` or `>>` is the whole name, and that of `>` alone is empty
(`DemangleCppName.cpp:100`: its loop is not entered); the search for an extension reads the
character in front of a path of one character (`PathNameGetExtension.cpp:46`), which
decides nothing; a `GetHostName` that throws may leave the start of the name, with no end,
in the caller's buffer (`HostName.cpp:70`).

*Resource usage.* A difference takes the working set in place of peak and page file, and
the static listing that is given a list takes it by value and so returns nothing in it.

*Exceptions.* `Rethrow` loses the code of a `system_error`; thread ids are shown modulo
2^32 - 1.

## 5. Theorems

Proved for every number of threads, handlers, levels, lines, processes, objects, sections
and sizes; the only assumptions are the named ones on the constants
(`LoggerAssumption`, `MMapAssumption`, `LogFilesAssumption`, `MFStoreAssumption`,
`SectionAssumption`, `ControlsAssumption`, `NatsAssumption`, `TicksAssumption`,
`DoublesAssumption`, `EnvironmentAssumption`, `ProcessAssumption`, `TypesAssumption`,
`LinesAssumption`, `IdentifiersAssumption`, `LogLinesAssumption`, `UsageAssumption`), which
TLC evaluates in the runs, and the hypotheses that a theorem states itself. Two of them say more than types.
`DoublesAssumption`: ulps double from 1 to beyond the longs, and the arguments of `Add*`,
which are ints, are doubles themselves. `LogLinesAssumption`: an id below `TidModulus`
(2^32 - 1) has no more digits than its column has places (ten).

**LoggerProofs.** `TypeCorrect`, `CallsConsistent`, `MutualExclusion`,
`EmissionsCurrent`, `FilesHaveWholeLines`, `ConsoleHasWholeLines`. None of these is
inductive alone: that a lock is held follows from where threads are, and where threads
can be follows from what their calls still owe. `IInv == TypeOK /\ CallInv /\ LockInv`
is (`TypeStep`, `CallStep`, `LockStep`, one step per action). `EmissionsCurrent` then
needs that nobody changes handler or masks under a thread that has the manager's lock
(`CurrentStep`). For whole lines, `StepKinds` reduces all actions to four kinds of
step on the pieces of a sink – leader, text, a seam from `OpenFile`, none – and
lemmas on sequences (`ShapeAppend`, `WholeLeader`, `WholeText`, `WholeOpen`,
`WholeSame`) treat each; what they need is that only one thread is half-way in a sink,
which is the handler's lock for a file and the manager's for the console.

**LoggerServiceProofs.** `FilesInOrder` (`FileOrder`) follows a piece of text from its
call through the buffer of its stream and the call that emits it to the file:
`DataInv` says that what a buffer holds, and what a thread is still to emit, are pieces of
calls it has made, in their order, and that a thread writes the file before the console;
`OrderInv` that in a file each thread's lines are in its order and that what the thread
still has comes later. `ServiceImplemented` (`ImplementsService`) maps every step of `Logger`
to a delivery, a kept line or a stutter of `LogService`. `SinkForm` says
in which order a thread writes its sinks and `LastInv` that what a thread has written
is the last piece there until its handler returns, so that `FileLines` and
`ConsoleLines` (the finished lines) change in one step only, the one in which the
emission is complete. The hypothesis
`ConsoleViaManager` is that no handler that writes std::cout is called past the manager
(`EmitLineSpecific`): two such calls have different locks, and their lines do mix.

**LogHandlersProofs: the mapped file.** `TypeCorrect`, `StaysInside`, `OnlyAppends`,
`NoGapsLeft`. That a line has room follows from the arithmetic of a new window
(`NewWindow`, on top of the bounds of rounding in `NumberProofs`); that the window stays
in its file from `Windows`: the mapped file and those that `OpenFileImpl` prepares are
different ones and exist, and what was prepared is backed. `OnlyAppends` adds `TextEnds`:
behind the next byte of a window, mapped or prepared, its file has no text. `NoGapsLeft`
adds `Solid`: after the text there is at most one chunk of NUL bytes, in whole pages, so
that the search of `OpenFileImpl` after a crash, which looks at one chunk, meets the text.
It needs lines that fit, with the page they may begin in, into one chunk (`LinesShort`);
longer ones are finding 1. The hypothesis `~MayReopen` is what makes the files different;
without it TLC finds `StaysInside` and `OnlyAppends` violated, and the code does too.
The run `LogHandlers` checks `NoGaps` with files opened again as well.

**LogHandlersProofs: the streams.** `LinesKept` (`LogFilesKept`). A property of complete
lines is not inductive while a line is half written, so `LogFilesInv` says how far each
line has come: it is `InHand` of one call, which has written its first `k` pieces, and
from `k` alone follows what the file has of it, what the stream still holds back and what
the console has; or it has arrived. For a call to go on undisturbed nobody else may write
with its handler (`CallsHold`: the lock is held by exactly that call) and nothing
may be held back when the lock is free (`StreamsAtRest`), so that opening, flushing,
removing and destroying are steps in which nothing is written (`Quiet`, `QuietKeeps`).
`FilesTogether` is why lines do not mix in a shared file: what a stream has collected
goes to it in one piece. On the console that does not hold, but all lines of one handler
are written under one lock: `ConsoleInOrder` says of the last piece of each handler that
it is an end or that the end is still to come from a call, which can only be the one that
has the lock.

**LogHandlersProofs: the lines.** `LinesAreLaidOut` (`LinesLaidOut`), for every text, thread
and set of flags. That the lines given are the text again is only claimed when the end is
reached; `ReadTo` says for every step that they are the text up to the newline at the offset,
and `LineGiven` that one more line keeps it so. For that the recursive function `JoinLines`
is shown to exist and to have the same value for the lines before the new one (`JoinExists`,
`JoinMore`). A leader with its last NUL is one that was laid out, and stays so when the time
is written over its first columns (`LeaderKept`, `LeaderGetsTime`). The loop over the flags
goes on by shifts: `LoopGives` says in one formula what it gives from any of its states, and
`ShiftedBits` how a shift moves the lowest and the highest bit.

**MFStoreFileProofs.** `TypeCorrect`, `SizeIsBacked`, `OneWriter`, `WritersSettled`,
`Implements`. The strengthening `IInv` adds to the types: the header's sizes are in
order and backed (`HeaderInv`), whoever is past the lock has it (`LockInv`), at the
places where the size is about to be published the pending size is backed
(`GrowthInv`), and the process that creates the file is alone and finds an empty header
(`CreateInv`), without which its `InitHeader` could shrink the size. `WriterSettled` is
inductive given `IInv`. The refinement of `GrowingStore` has one step for each kind of
effect: none, a longer file, a larger published size.

**MFStoreProofs.** `SectionsTyped`, `AcceptedListsAreLayouts`, `FixupRepairs`,
`ControlsKeepPromises`. The fields of sections are public, so nothing is assumed of a
list but 64 bits to a field; all that is known is what the check compares, in sums modulo
2^64. Two facts carry the argument, and both checks and repair are shown to give them:
`LengthsFit`, each section's lengths are those of its elements in whole granules, and
`Adjacent`, each section starts where the one before it ends with no number cut. From
neighbours to all pairs leads induction (`AdjacentOrdered`, `AdjacentTotal`,
`AdjacentMultiples`). The library's induction theorems take an operator, but
`NumberInduction` of `NumberProofs` has a set of numbers in its place, and that can be
instantiated. `ControlsInv` says which mappings are open, that the copies of a control are
of one process, that what a control holds for the size was the file's size once (and the
file only gets longer), and who has the lock; `ControlsSpec` lets the list be any
well-typed one at any time.

**NatsObjectsProofs.** `TypeCorrect`, `NothingDangles`, `NoHollowHandles`,
`ThrowsChangeNothing`, `ServersCount`, `Implements`. `IInv` says of each object how many
control blocks it has and who is in it (`BlockInv`, `UnwrappedInv`), that a message is in
one place (`OnePlaceInv`), and what holds while a constructor runs (`BuildingInv`,
`SubscribedInv`, `ClosureInv`). There is one lemma for each kind of effect (`Copied`,
`Taken`, `Dropped`, `Received`, ...), and `NextStep` gives each action its kind. The
refinement counts holders before and after the same effects (`NextFacts`).

**UtilityProofs.** `TimeTypeCorrect`, `TimeSumsExact`, `TimeDifferencesExact`, for every
number of ticks in a second and every width. The core is arithmetic that truncates towards
zero: `QuotRem` and `QuotUnique`, and from them `CarryExact`, the carry between a fraction
and the seconds for either sign, and `CallsAccount`, which counts the ticks that each `Add`
adds. Differences go through doubles: wherever the tick counts fit, a double is exact
(`DoubleExact`, `SmallUlps`) and 64 bits do not wrap (`WrapUnsigned`), so that the compared
and subtracted values are the real ones (`CompareTicks`). `HandlersStayInPlace` is
about nested objects that each save what they replace: `InOrder` says that the objects
that are built stand in their order and only the last one can be half-way, `SavedInv` that what the outermost object has saved of a signal
(`Outermost`) is the program's own handler and what the others have saved is the class's,
signal by signal and also when the list of a constructor that throws is cut short.
`ListsMerged` says what must be in the result and what may: of excluded names that have a
value, which may and by the comment of the code should not, it says nothing. In a finite
set of elements each place is taken by one of them
(`PlacesTaken`, by the pigeonhole theorems), so that a set is written in its order
(`WrittenInOrder`), and what a merge gives follows from what it is given (`MergeMeans`).
`CallsDone` has an invariant for each of the four calls: what the sleeper was asked for, in
an unsigned int or cut (`USleepKeeps`); which limits have been raised, and to what; that
the handler which rethrows is one for the same classes, for which the recursion over the
classes is shown to end (`IsAMeans`, `RethrowKeeps`); and how much of the file has been read.
`TimeLimitsChecked`: an ulp that fits a number exists and is one (`UlpFits`), rounding
keeps the order of what it rounds, so that a sum of doubles is past the limit only when
the sum of longs is, and the two roundings of a sum that is let through are bounded by
the ulp at the limit. `FilesApplied`: `ConfigInv` says what each member has after the lines
so far, line by line of the file in hand (`ConfigDone`, `MemberApplied`), and `DatumMeans`
what one value means for a type, cut, wrapped or refused. `IdentifiersReadBack` needs the
texts themselves: versions are lists of halves; the recursive function that writes an id
in the byte order of its class is shown to exist and to have one value for each place
(`HasLoop`, `TextOf`, `LibraryText`), so that the reading by digit places finds the same
bytes again; `CommandLineInv` says that what has been resolved is a chain of arguments
that do not overlap. `UsageIsMeasured` is the first part of `UsageReported`
(`UsageMeasured`), for any objects and counters: with what an object stands for, a pair of
counters, `UsageInv` says that every member is what its counter has grown by, which a
difference keeps even when it is put into one of the objects it is taken of
(`DeltaMeasured`; by finding 5 against the comment of the code), and the members that the code makes of another one are those that the
system does not count (`SourceCounted`).

*Only model-checked.* The two liveness properties of the logger: liveness under fairness is
out of the prover's reach. `TimeTextRoundTrip`: the powers of ten of a year and of
a fraction, which the provers do not know. The listings of `UsageReported`: `SortSeq` and `SelectSeq` are built into the
prover's standard modules without a definition that it can use. `TextRowsRead`, `NamesFit`,
`NumberPartShown` and `TextPartsKept` are about folds over texts, whose values only an
induction over the text gives.

Two of these proofs found something in the models: guards of a `CASE` that overlapped,
so that its value was not determined (comparison of times, of versions and of
configured values), and an action of the section list without the bound of the size that its
caller tests. Neither changed what the runs show.

## 6. Not modelled

- The tabular output of the file store, help texts and emitters of the command line: wording.
- The getters of masks and sizes, which change nothing, and `GetDouble`.
- What only the system knows: the clocks, page size, ids of processes and threads; they are
  constants or inputs.
- Floating point texts and `IoCharInfo`'s character classes: data of the C library.
- `NatsContext` (`nats_Open` and `nats_Close` around everything), reconnection, and the
  texts of exceptions; `AnyToString`.
- `MFStoreFile` has one control per process; more are in `MFStoreControls`, without growth
  by crashes.
- A crash of the system, where pages of a mapping may be lost.
- The composition of `Logger` with the mapped file: an emission that throws is a step of
  each, and the lock is the same, but the two state spaces are only checked apart.
- Adapters to other logging libraries, which are not built; Windows and SVR4 branches;
  test programs; build scripts and the scratch pad, but for the one sketch of a growth.

The map covers about three tenths of the repository's lines. What is left is mostly
tests with their `main`, comments and licence texts, declarations in headers that a
mapped definition already stands for, and code for other platforms.

## 7. Plan

Done: `Logger`, `LogService`, `LogLines`, `LogFiles`, the mapped log file; the file store
with its sections and controls; `NatsObjects` with `SharedObjects`; the thirteen parts of
Utility; proofs of every safety property and refinement of the first three groups, and of times,
signal handlers, environment lists, calls of the system, configuration files, usage
counters, and texts of versions, ids and options.

Left, in order of importance:

1. A composition of `Logger` with the mapped file at the point where an emission throws.
2. Proofs about the lines and rows of a parsed text (`TextRowsRead`), as those of the
   logger's lines were: with an invariant that says what has been read of the text.
