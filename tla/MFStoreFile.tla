----------------------------- MODULE MFStoreFile -----------------------------
(***************************************************************************)
(* The life of a memory-mapped file store: processes that create it, open  *)
(* it for writing, repair the sizes in its header, make it longer, and end *)
(* or crash at any point.                                                  *)
(*                                                                         *)
(* Abstractions.                                                           *)
(*  - Sizes are counted in granules of the storage, so that the tests for  *)
(*    multiples of it hold; an offset and a length always give an extent.  *)
(*  - The header is in the mapping, shared by all the processes.  It is    *)
(*    all 0 until the application that created the file writes it.         *)
(*  - The library has the pieces and the application calls them, in the    *)
(*    order the messages of FixUpFileSizePending tell: map the file, take  *)
(*    the lock, fix the sizes up, and only then write.                     *)
(*  - Growing is a sketch in the repository (IncreaseStorageSize), whose   *)
(*    checks are kept.  The order of its stores is the one that            *)
(*    FixUpFileSizePending repairs: pending size, file, size.              *)
(*  - fcntl() takes the lock for the process, and the end of the process,  *)
(*    or of its only control, gives it back.                               *)
(***************************************************************************)
EXTENDS Integers, StoreProcesses

CONSTANTS
  MaxSize,      \* bound: sizes that an application asks for
  PartialAlloc  \* whether an fallocate() that fails may leave the file longer

ASSUME MFStoreAssumption ==
  /\ NoProcess \notin Processes
  /\ MaxSize \in Nat
  /\ PartialAlloc \in BOOLEAN

VARIABLES
  store_exists,       \* whether the file exists
  actual_file_size,   \* its length
  file_size,          \* the header: the size that readers use
  file_size_pending,  \* the header: the size that a growth aims at
  lock,               \* holder of the advisory lock
  pc,                 \* pc[p]: where p is
  new_size            \* new_size[p]: the size p creates the file with, or 0

storeFileVars == <<store_exists, actual_file_size>>
header_vars   == <<file_size, file_size_pending>>
storeVars == <<storeFileVars, header_vars, lock, pc, new_size>>

\* Where a process that holds the lock can be; "failed": an exception left it there.
LockedPlaces == {"locked", "extending", "writer", "growing", "grown", "failed"}
Places == {"out", "created", "mapped"} \union LockedPlaces

Goto(p, place) == pc' = [pc EXCEPT ![p] = place]

-----------------------------------------------------------------------------
(* EnsureFileBackingStore, for an extent that starts inside the file.      *)

\* fallocate() makes the file as long as the end of the extent, never shorter.
Backed(offset, length) ==
  IF offset + length > actual_file_size THEN offset + length ELSE actual_file_size

\* The lengths that the file may have when fallocate() fails.
BackedInPart(offset, length) ==
  IF PartialAlloc THEN actual_file_size .. Backed(offset, length)
  ELSE {actual_file_size}

\* Some change of the file, at most up to the end of the extent, and an exception.
AllocateFails(offset, length) ==
  \E n \in BackedInPart(offset, length) : actual_file_size' = n

-----------------------------------------------------------------------------
(* CreateMFStore.                                                          *)

\* open() with O_CREAT and O_EXCL, after the sizes were checked.
CreateOpen(p, n) ==
  /\ pc[p] = "out" /\ ~store_exists
  /\ store_exists' = TRUE
  /\ new_size' = [new_size EXCEPT ![p] = n]
  /\ Goto(p, "created")
  /\ UNCHANGED <<actual_file_size, header_vars, lock>>

\* The file gets its storage and the MFStoreControl maps it.
CreateMap(p) ==
  /\ pc[p] = "created"
  /\ actual_file_size' = Backed(0, new_size[p])
  /\ Goto(p, "mapped")
  /\ UNCHANGED <<store_exists, header_vars, lock, new_size>>

\* The exception leaves CreateMFStore, and the file stays.
CreateFails(p) ==
  /\ pc[p] = "created"
  /\ AllocateFails(0, new_size[p])
  /\ new_size' = [new_size EXCEPT ![p] = 0]
  /\ Goto(p, "out")
  /\ UNCHANGED <<store_exists, header_vars, lock>>

-----------------------------------------------------------------------------
(* Opening for writing.                                                    *)

\* An MFStoreControl for a file that another process has created.
OpenMap(p) ==
  /\ pc[p] = "out" /\ store_exists /\ actual_file_size > 0
  /\ Goto(p, "mapped")
  /\ UNCHANGED <<storeFileVars, header_vars, lock, new_size>>

\* Mistake: the lock is taken without the test for another holder.
GetWriterAdvisoryLock_NoTest(p) ==
  /\ pc[p] = "mapped"
  /\ lock' = p
  /\ Goto(p, "locked")
  /\ UNCHANGED <<storeFileVars, header_vars, new_size>>

\* F_SETLK does not wait: with another holder it throws and changes nothing.
GetWriterAdvisoryLock(p) ==
  /\ pc[p] = "mapped"
  /\ lock \in {NoProcess, p}
  /\ lock' = p
  /\ Goto(p, "locked")
  /\ UNCHANGED <<storeFileVars, header_vars, new_size>>

\* Mistake: whoever holds the lock writes the header, as if the file were new.
InitHeader_Always(p) ==
  /\ pc[p] = "locked"
  /\ file_size' = new_size[p] /\ file_size_pending' = new_size[p]
  /\ new_size' = [new_size EXCEPT ![p] = 0]
  /\ Goto(p, "writer")
  /\ UNCHANGED <<storeFileVars, lock>>

\* The process that created the file writes its header.
InitHeader(p) ==
  /\ pc[p] = "locked" /\ new_size[p] > 0
  /\ file_size' = new_size[p] /\ file_size_pending' = new_size[p]
  /\ new_size' = [new_size EXCEPT ![p] = 0]
  /\ Goto(p, "writer")
  /\ UNCHANGED <<storeFileVars, lock>>

-----------------------------------------------------------------------------
(* FixUpFileSizePending, for a process that opens an existing store.       *)

\* CheckFileSizeAndFileSizePendingGE.
SizesInOrder ==
  file_size > 0 /\ file_size_pending > 0 /\ file_size_pending >= file_size

\* The growth that was begun is the one the length of the file fits.
Fixable == file_size <= actual_file_size /\ actual_file_size <= file_size_pending

FixUpCalled(p) == pc[p] = "locked" /\ new_size[p] = 0

FixUpThrows(p) ==
  /\ FixUpCalled(p)
  /\ ~SizesInOrder \/ (file_size_pending # file_size /\ ~Fixable)
  /\ Goto(p, "failed")
  /\ UNCHANGED <<storeFileVars, header_vars, lock, new_size>>

\* Nothing to do, or nothing that the function does: it returns.
FixUpReturns(p) ==
  /\ FixUpCalled(p) /\ SizesInOrder
  /\ \/ file_size_pending = file_size
     \/ file_size < actual_file_size /\ actual_file_size < file_size_pending
  /\ Goto(p, "writer")
  /\ UNCHANGED <<storeFileVars, header_vars, lock, new_size>>

\* Mistake: the function returns without setting the pending size back.
FixUpReset_Forgotten(p) ==
  /\ FixUpCalled(p) /\ SizesInOrder
  /\ file_size_pending # file_size /\ actual_file_size = file_size
  /\ Goto(p, "writer")
  /\ UNCHANGED <<storeFileVars, header_vars, lock, new_size>>

\* The growth was not begun: the pending size is set back.
FixUpReset(p) ==
  /\ FixUpCalled(p) /\ SizesInOrder
  /\ file_size_pending # file_size /\ actual_file_size = file_size
  /\ file_size_pending' = file_size
  /\ Goto(p, "writer")
  /\ UNCHANGED <<storeFileVars, file_size, lock, new_size>>

\* The file was made longer, but its size was not stored.
FixUpMustExtend(p) ==
  /\ FixUpCalled(p) /\ SizesInOrder
  /\ file_size_pending # file_size /\ actual_file_size = file_size_pending

FixUpExtend(p) ==
  /\ FixUpMustExtend(p)
  /\ actual_file_size' = Backed(file_size, file_size_pending)
  /\ Goto(p, "extending")
  /\ UNCHANGED <<store_exists, header_vars, lock, new_size>>

FixUpExtendFails(p) ==
  /\ FixUpMustExtend(p)
  /\ AllocateFails(file_size, file_size_pending)
  /\ Goto(p, "failed")
  /\ UNCHANGED <<store_exists, header_vars, lock, new_size>>

FixUpPublish(p) ==
  /\ pc[p] = "extending"
  /\ file_size' = file_size_pending
  /\ Goto(p, "writer")
  /\ UNCHANGED <<storeFileVars, file_size_pending, lock, new_size>>

-----------------------------------------------------------------------------
(* IncreaseStorageSize, by a writer.                                       *)

GrowBegin(p, desired_file_size) ==
  /\ pc[p] = "writer"
  /\ file_size_pending = file_size /\ desired_file_size > file_size
  /\ file_size_pending' = desired_file_size
  /\ Goto(p, "growing")
  /\ UNCHANGED <<storeFileVars, file_size, lock, new_size>>

GrowExtend(p) ==
  /\ pc[p] = "growing"
  /\ actual_file_size' = Backed(file_size, file_size_pending - file_size)
  /\ Goto(p, "grown")
  /\ UNCHANGED <<store_exists, header_vars, lock, new_size>>

GrowExtendFails(p) ==
  /\ pc[p] = "growing"
  /\ AllocateFails(file_size, file_size_pending - file_size)
  /\ Goto(p, "failed")
  /\ UNCHANGED <<store_exists, header_vars, lock, new_size>>

\* Mistake: the size is stored before the file is made longer.
GrowPublish_Early(p) ==
  /\ pc[p] = "growing"
  /\ file_size' = file_size_pending
  /\ Goto(p, "writer")
  /\ UNCHANGED <<storeFileVars, file_size_pending, lock, new_size>>

GrowPublish(p) ==
  /\ pc[p] = "grown"
  /\ file_size' = file_size_pending
  /\ Goto(p, "writer")
  /\ UNCHANGED <<storeFileVars, file_size_pending, lock, new_size>>

-----------------------------------------------------------------------------
\* The control is destroyed, or the process ends or crashes.
End(p) ==
  /\ pc[p] # "out"
  /\ lock' = IF lock = p THEN NoProcess ELSE lock
  /\ new_size' = [new_size EXCEPT ![p] = 0]
  /\ Goto(p, "out")
  /\ UNCHANGED <<storeFileVars, header_vars>>

StoreFileInit ==
  /\ store_exists = FALSE /\ actual_file_size = 0
  /\ file_size = 0 /\ file_size_pending = 0
  /\ lock = NoProcess
  /\ pc = [p \in Processes |-> "out"]
  /\ new_size = [p \in Processes |-> 0]

Create(p) == (\E n \in 1 .. MaxSize : CreateOpen(p, n)) \/ CreateMap(p) \/ CreateFails(p)
OpenStore(p) == OpenMap(p) \/ GetWriterAdvisoryLock(p) \/ InitHeader(p)
FixUpFileSizePending(p) ==
  \/ FixUpThrows(p) \/ FixUpReturns(p) \/ FixUpReset(p)
  \/ FixUpExtend(p) \/ FixUpExtendFails(p) \/ FixUpPublish(p)
IncreaseStorageSize(p) ==
  \/ \E n \in 1 .. MaxSize : GrowBegin(p, n)
  \/ GrowExtend(p) \/ GrowExtendFails(p) \/ GrowPublish(p)

StoreFileNext ==
  \E p \in Processes :
    Create(p) \/ OpenStore(p) \/ FixUpFileSizePending(p) \/ IncreaseStorageSize(p) \/ End(p)

StoreFileSpec == StoreFileInit /\ [][StoreFileNext]_storeVars

-----------------------------------------------------------------------------
(* Properties.                                                             *)

\* Every variable has its type.
StoreFileTypeOK ==
  /\ store_exists \in BOOLEAN
  /\ actual_file_size \in Nat
  /\ file_size \in Nat /\ file_size_pending \in Nat
  /\ lock \in Processes \union {NoProcess}
  /\ pc \in [Processes -> Places]
  /\ new_size \in [Processes -> 0 .. MaxSize]

\* The size in the header is never larger than the file, so that no process that
\* trusts it touches a page of the mapping behind the end of the file, also after
\* a crash between any two steps of a growth or of its repair.
PublishedBacked == file_size <= actual_file_size

\* Only one process is past the advisory lock: nobody else fixes or grows the store
\* while a writer is between two of its steps.
SingleWriter ==
  \A p, q \in Processes : pc[p] \in LockedPlaces /\ pc[q] \in LockedPlaces => p = q

\* A writer for whom the opening succeeded finds no growth half done, unless the file
\* ends strictly between the two sizes: for that case FixUpFileSizePending has no
\* branch, it returns, and no growth can begin any more.
WriterSettled ==
  \A p \in Processes : pc[p] = "writer" =>
    \/ file_size_pending = file_size
    \/ file_size < actual_file_size /\ actual_file_size < file_size_pending

\* The repair allocates what the message of FixUpFileSizePending says it does, the
\* bytes between the size and the pending size: the file ends at the pending size.
ExtendedToPending ==
  \A p \in Processes : pc[p] = "extending" => actual_file_size = file_size_pending

\* The file and the size in its header are a GrowingStore: the published size only
\* grows, to what the file has at that moment, whichever processes crash meanwhile.
Promised == INSTANCE GrowingStore WITH stored <- actual_file_size, published <- file_size
ImplementsGrowingStore == Promised!Spec

=============================================================================
