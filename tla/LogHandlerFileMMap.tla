------------------------- MODULE LogHandlerFileMMap -------------------------
(***************************************************************************)
(* LogHandlerFileMMap: a log handler that writes its lines into a mapped   *)
(* window of the log file.  The file is longer than its text: it grows by  *)
(* whole chunks, and the bytes after the text are NUL until the destructor *)
(* cuts them off.                                                          *)
(*                                                                         *)
(* Abstractions.                                                           *)
(*  - A byte is 0 (NUL) or the number of the emission that wrote it.       *)
(*  - The handler's lock is held from the start to the end of an emission, *)
(*    that is while owed # 0; so the emitting threads need no names.       *)
(*  - The memcpy calls of an emission (leader, text, end of line) may cut  *)
(*    the line anywhere.                                                   *)
(*  - OpenFileImpl holds the lock only in its last block.  What it does    *)
(*    before that is one step, and the block is OpenSwap.                  *)
(*  - A crash ends the process, not the system: what was copied into the   *)
(*    mapping is in the file.                                              *)
(***************************************************************************)
EXTENDS GranularRound, Sequences

CONSTANTS
  Files,             \* names of log files
  NoFile,            \* no file is mapped: region_sptr_ is NULL
  Openers,           \* threads that call OpenFile
  Page,              \* page_alloc_size_
  DefaultAllocSize,  \* LogFileMMapDefaultAllocSize
  UIntLimit,         \* 2^32: mapping_size_ is an unsigned int
  Lengths,           \* lengths of the lines emitted
  Found,             \* contents a log file may have before the first start
  MayReopen,         \* whether OpenFile may name a file that is in use
  MayTruncate,       \* whether the DoNotAppend flag may be set
  MaxEmissions,      \* bound: emissions
  MaxCrashes,        \* bound: crashes of the process
  MaxFailures        \* bound: resize and mapping calls that fail

Chunk == GranularRoundUp(DefaultAllocSize, Page)   \* chunk_alloc_size_

Greatest(m, n) == IF m > n THEN m ELSE n
Least(m, n) == IF m < n THEN m ELSE n

ASSUME MMapAssumption ==
  /\ NoFile \notin Files
  /\ Page \in Nat \ {0}
  /\ DefaultAllocSize \in Nat \ {0}
  /\ UIntLimit \in Nat
  /\ Lengths \subseteq Nat \ {0}
  /\ \A n \in Lengths : n + 2 * Page < UIntLimit
  /\ DefaultAllocSize + Page < UIntLimit
  /\ Found \subseteq Seq(Nat \ {0})
  /\ MayReopen \in BOOLEAN /\ MayTruncate \in BOOLEAN
  /\ MaxEmissions \in Nat /\ MaxCrashes \in Nat /\ MaxFailures \in Nat

VARIABLES
  exists,          \* the files that exist
  disk,            \* disk[f]: the bytes of file f
  out_file_name,   \* the mapped file, or NoFile
  region_size,     \* bytes that region_sptr_ maps
  mapping_size,    \* mapping_size_: the same as an unsigned int
  mapping_offset,  \* mapping_offset_: where the window starts in the file
  write_offset,    \* write_offset_: where the next byte goes in the window
  owed,            \* bytes the current emission has still to copy
  opening,         \* opening[o]: locals of the OpenFileImpl o is in
  emissions, crashes, failures

file_vars   == <<exists, disk>>
member_vars == <<out_file_name, region_size, mapping_size, mapping_offset,
                 write_offset>>
count_vars  == <<emissions, crashes, failures>>
vars == <<file_vars, member_vars, owed, opening, count_vars>>

\* A thread that is not inside OpenFileImpl.
Idle == [file |-> NoFile, size |-> 0, offset |-> 0, write |-> 0, created |-> FALSE]

Init ==
  /\ exists \in SUBSET Files
  /\ disk \in [Files -> Found \union {<< >>}]
  /\ \A f \in Files \ exists : disk[f] = << >>
  /\ out_file_name = NoFile
  /\ region_size = 0 /\ mapping_size = 0
  /\ mapping_offset = 0 /\ write_offset = 0
  /\ owed = 0
  /\ opening = [o \in Openers |-> Idle]
  /\ emissions = 0 /\ crashes = 0 /\ failures = 0

-----------------------------------------------------------------------------
\* TruncateFileSize: the bytes s of a file cut or filled up with NUL to n.
Resize(s, n) == [i \in 1 .. n |-> IF i <= Len(s) THEN s[i] ELSE 0]

\* Wrong: the NUL bytes are not backed over.
TextEndsAt_Last(s, offset, size, w) == w = size

\* In the window of size bytes after offset, the text ends after w bytes: the
\* loop that backs over NUL bytes stops there.
TextEndsAt(s, offset, size, w) ==
  /\ w > 0 => s[offset + w] # 0
  /\ \A i \in w + 1 .. size : s[offset + i] = 0

CallFails == failures < MaxFailures /\ failures' = failures + 1

\* OpenFileImpl(f) is called: unless MayReopen, for a file not in use.
StartOpen(o, f) ==
  /\ opening[o] = Idle
  /\ MayReopen \/ (f # out_file_name /\ \A p \in Openers : opening[p].file # f)

\* The locals of the OpenFileImpl that o is in.
Prepared(o, f, size, offset, write, created) ==
  opening' = [opening EXCEPT ![o] =
    [file |-> f, size |-> size, offset |-> offset, write |-> write,
     created |-> created]]

\* The file does not exist: it is created with one chunk of NUL bytes.
OpenNew(o, f) ==
  /\ StartOpen(o, f)
  /\ f \notin exists
  /\ exists' = exists \union {f}
  /\ disk' = [disk EXCEPT ![f] = Resize(<< >>, Chunk)]
  /\ Prepared(o, f, Chunk, 0, 0, TRUE)
  /\ UNCHANGED <<member_vars, owed, count_vars>>

\* The new file cannot be extended: file_created is not set yet, and so the
\* empty file stays behind.
OpenNewFails(o, f) ==
  /\ StartOpen(o, f)
  /\ f \notin exists
  /\ CallFails
  /\ exists' = exists \union {f}
  /\ UNCHANGED <<disk, member_vars, owed, opening, emissions, crashes>>

\* The file is empty, or DoNotAppend empties it: OpenFileImpl maps a window
\* of size 0, and the mapping of nothing throws.
OpenEmpty(o, f, do_not_append) ==
  /\ StartOpen(o, f)
  /\ f \in exists
  /\ do_not_append \/ disk[f] = << >>
  /\ disk' = [disk EXCEPT ![f] = << >>]
  /\ UNCHANGED <<exists, member_vars, owed, opening, count_vars>>

\* Whole pages that end with text: the window starts after them.
OpenFull(o, f) ==
  LET n == Len(disk[f])
  IN  /\ StartOpen(o, f)
      /\ f \in exists
      /\ n > 0 /\ n % Page = 0 /\ disk[f][n] # 0
      /\ disk' = [disk EXCEPT ![f] = Resize(@, n + Chunk)]
      /\ Prepared(o, f, Chunk, n, 0, FALSE)
      /\ UNCHANGED <<exists, member_vars, owed, count_vars>>

\* Whole pages that end with NUL: the last chunk is mapped and its NUL bytes
\* are backed over, but for none before it.
OpenPadded(o, f) ==
  LET n == Len(disk[f])
      size == Least(n, Chunk)
  IN  /\ StartOpen(o, f)
      /\ f \in exists
      /\ n > 0 /\ n % Page = 0 /\ disk[f][n] = 0
      /\ \E w \in 0 .. size :
           /\ TextEndsAt(disk[f], n - size, size, w)
           /\ Prepared(o, f, size, n - size, w, FALSE)
      /\ UNCHANGED <<file_vars, member_vars, owed, count_vars>>

\* Not a number of pages, as the destructor leaves it: the file is filled up
\* to whole chunks and the last one mapped.
OpenTrimmed(o, f) ==
  LET n == GranularRoundUp(Len(disk[f]), Chunk)
  IN  /\ StartOpen(o, f)
      /\ f \in exists
      /\ Len(disk[f]) % Page # 0
      /\ disk' = [disk EXCEPT ![f] = Resize(@, n)]
      /\ \E w \in 0 .. Chunk :
           /\ TextEndsAt(disk'[f], n - Chunk, Chunk, w)
           /\ Prepared(o, f, Chunk, n - Chunk, w, FALSE)
      /\ UNCHANGED <<exists, member_vars, owed, count_vars>>

\* The final mapping fails: a file that was created is removed.
OpenFails(o) ==
  LET f == opening[o].file
  IN  /\ f # NoFile
      /\ CallFails
      /\ IF opening[o].created
         THEN /\ exists' = exists \ {f}
              /\ disk' = [disk EXCEPT ![f] = << >>]
         ELSE UNCHANGED file_vars
      /\ opening' = [opening EXCEPT ![o] = Idle]
      /\ UNCHANGED <<member_vars, owed, emissions, crashes>>

\* Under the lock the new mapping takes the place of the old one, whose file
\* keeps the NUL bytes at its end.
OpenSwap(o) ==
  LET new == opening[o]
  IN  /\ new.file # NoFile
      /\ owed = 0
      /\ out_file_name' = new.file
      /\ region_size' = new.size
      /\ mapping_size' = new.size
      /\ mapping_offset' = new.offset
      /\ write_offset' = new.write
      /\ opening' = [opening EXCEPT ![o] = Idle]
      /\ UNCHANGED <<file_vars, owed, count_vars>>

-----------------------------------------------------------------------------
(* EmitLineImpl and EmitLiteralImpl, with the lock held.  Without a mapped *)
(* file they do nothing.                                                   *)

StartEmission ==
  /\ out_file_name # NoFile
  /\ owed = 0
  /\ emissions < MaxEmissions
  /\ emissions' = emissions + 1

\* EnsureNeededSpace: "if equal we'll go ahead and allocate more space".
Enough(needed) ==
  needed < (IF write_offset <= mapping_size THEN mapping_size - write_offset ELSE 0)

\* Wrong: no page is added for the text before the line in its first page.
NewSize_NoPage(needed) == Greatest(Chunk, GranularRoundUp(needed, Page))

\* The window that EnsureNeededSpace maps: the page of the next byte on.
NewOffset == GranularRoundDown(mapping_offset + write_offset, Page)
NewSize(needed) == Greatest(Chunk, GranularRoundUp(needed, Page) + Page)

\* What the file is resized to: it ends with the new window.
NewFileSize(needed) == NewOffset + NewSize(needed)

\* The line fits into the window.
EmitHere(needed) ==
  /\ StartEmission
  /\ Enough(needed)
  /\ owed' = needed
  /\ UNCHANGED <<file_vars, member_vars, opening, crashes, failures>>

\* The window moves on, and the file with it.
EmitInNewWindow(needed) ==
  /\ StartEmission
  /\ ~Enough(needed)
  /\ disk' = [disk EXCEPT ![out_file_name] = Resize(@, NewFileSize(needed))]
  /\ region_size' = NewSize(needed)
  /\ mapping_size' = NewSize(needed) % UIntLimit
  /\ mapping_offset' = NewOffset
  /\ write_offset' = mapping_offset + write_offset - NewOffset
  /\ owed' = needed
  /\ UNCHANGED <<exists, out_file_name, opening, crashes, failures>>

\* The file cannot be resized, or it was and cannot be mapped: the exception
\* leaves the members as they were.
EmitThrows(needed) ==
  /\ StartEmission
  /\ ~Enough(needed)
  /\ CallFails
  /\ \/ UNCHANGED disk
     \/ disk' = [disk EXCEPT ![out_file_name] = Resize(@, NewFileSize(needed))]
  /\ UNCHANGED <<exists, member_vars, owed, opening, crashes>>

\* memcpy of k bytes to GetCurrentPtr().  What lies outside the file has no
\* effect here; InMapping says that there is no such byte.
Copy(k) ==
  LET first == mapping_offset + write_offset + 1
  IN  disk' = [disk EXCEPT ![out_file_name] =
        [i \in 1 .. Len(@) |->
           IF i \in first .. first + k - 1 THEN emissions ELSE @[i]]]

Fits(k) == write_offset + k <= mapping_size

\* Copies a piece, and then AddToOffset, which throws if it did not fit: too
\* late to stop it, but it ends the emission.
CopyPiece(k) ==
  /\ owed > 0
  /\ Copy(k)
  /\ owed' = IF Fits(k) THEN owed - k ELSE 0
  /\ write_offset' = IF Fits(k) THEN write_offset + k ELSE write_offset
  /\ UNCHANGED <<exists, out_file_name, region_size, mapping_size,
                 mapping_offset, opening, count_vars>>

-----------------------------------------------------------------------------
NothingMapped ==
  /\ out_file_name' = NoFile
  /\ region_size' = 0 /\ mapping_size' = 0
  /\ mapping_offset' = 0 /\ write_offset' = 0

\* Wrong: the offset in the window is taken for one in the file.
EndOfText_InWindow == write_offset

\* Where the text ends in the file.
EndOfText == mapping_offset + write_offset

\* ~LogHandlerFileMMap: the file is cut to its text.  If that fails, nobody
\* is told.  The next StartOpen belongs to a new handler.
Destroy ==
  /\ out_file_name # NoFile
  /\ owed = 0
  /\ \A o \in Openers : opening[o] = Idle
  /\ \/ /\ disk' = [disk EXCEPT ![out_file_name] = Resize(@, EndOfText)]
        /\ UNCHANGED failures
     \/ CallFails /\ UNCHANGED disk
  /\ NothingMapped
  /\ UNCHANGED <<exists, owed, opening, emissions, crashes>>

\* The process ends in the middle of whatever it does.
Crash ==
  /\ crashes < MaxCrashes
  /\ crashes' = crashes + 1
  /\ NothingMapped
  /\ owed' = 0
  /\ opening' = [o \in Openers |-> Idle]
  /\ UNCHANGED <<file_vars, emissions, failures>>

Open(o, f) ==
  \/ OpenNew(o, f)
  \/ OpenNewFails(o, f)
  \/ \E do_not_append \in {FALSE, MayTruncate} : OpenEmpty(o, f, do_not_append)
  \/ OpenFull(o, f)
  \/ OpenPadded(o, f)
  \/ OpenTrimmed(o, f)

Emit(needed) == EmitHere(needed) \/ EmitInNewWindow(needed) \/ EmitThrows(needed)

Next ==
  \/ \E o \in Openers : OpenFails(o) \/ OpenSwap(o) \/ \E f \in Files : Open(o, f)
  \/ \E needed \in Lengths : Emit(needed)
  \/ \E k \in 1 .. owed : CopyPiece(k)
  \/ Destroy
  \/ Crash

Spec == Init /\ [][Next]_vars

-----------------------------------------------------------------------------
(* Properties.                                                             *)

Openings == [file : Files \union {NoFile}, size : Nat, offset : Nat,
             write : Nat, created : BOOLEAN]

TypeOK ==
  /\ exists \in SUBSET Files
  /\ disk \in [Files -> Seq(Nat)]
  /\ out_file_name \in Files \union {NoFile}
  /\ region_size \in Nat
  /\ mapping_size \in Nat
  /\ mapping_offset \in Nat
  /\ write_offset \in Nat
  /\ owed \in Nat
  /\ opening \in [Openers -> Openings]
  /\ emissions \in Nat /\ crashes \in Nat /\ failures \in Nat

\* Every byte an emission copies lands inside the mapped window: memcpy comes
\* before the test in AddToOffset, which would be too late.  And the test
\* never stops an emission half way.
InMapping == owed > 0 =>
  /\ write_offset + owed <= region_size
  /\ write_offset + owed <= mapping_size

\* The mapped window lies inside the file: a byte of a window beyond the end
\* of its file cannot be written (SIGBUS).
MappingBacked == out_file_name # NoFile =>
  mapping_offset + region_size <= Len(disk[out_file_name])

\* The copy of a line never writes outside of the window or of its file
\* (LogHandlerFileMMap.cpp:479 decides, AddToOffset would come too late).
WritesStayInside == InMapping /\ MappingBacked

\* No byte of text is ever overwritten or cut off, and new text comes after
\* all the text there is: across new windows, failures to get one, changes of
\* the file, crashes and restarts.  Only DoNotAppend empties a file.
TextKept == \A f \in Files : \A i \in 1 .. Len(disk[f]) : disk[f][i] # 0 =>
  /\ i <= Len(disk'[f])
  /\ \A j \in 1 .. i : disk'[f][j] = disk[f][j]

AppendOnly ==
  [][TextKept \/ \E o \in Openers, f \in Files : OpenEmpty(o, f, TRUE)]_vars

\* The text of a log file is in one piece: there is no NUL byte before a byte
\* of text, also when the file was opened again after a crash.
NoGaps == \A f \in Files : \A i, j \in 1 .. Len(disk[f]) :
  i < j /\ disk[f][j] # 0 => disk[f][i] # 0
=============================================================================
