--------------------------- MODULE MFStoreControls ---------------------------
(***************************************************************************)
(* The controls of a file store: src/MFStore/CreateMFStore.cpp makes them  *)
(* with a new file, MFStoreControl.cpp for a file that exists; copies of a *)
(* control share a mapping, and the mapping has a descriptor.  The writer  *)
(* of GetWriterAdvisoryLock.cpp has an fcntl() lock, which belongs to the  *)
(* process and is lost when the process closes any descriptor of the file. *)
(* There is one file; the descriptor with which it is created stays open   *)
(* and is not modelled.  A size that is given for a file that exists is    *)
(* the one it has.                                                         *)
(***************************************************************************)
EXTENDS MFStoreSection, StoreProcesses, FiniteSets

CONSTANTS
  Controls, ProcessOf,    \* the controls, and the process of each
  AskedSizes, AskedGrans, \* what a caller asks for
  GrownLengths,           \* lengths that a file is given later
  Mappings, NoMapping

\* A granule that is asked for leaves room as those of SectionAssumption do.
ASSUME ControlsAssumption ==
  /\ NoProcess \notin Processes
  /\ NoMapping \notin Mappings
  /\ ProcessOf \in [Controls -> Processes]
  /\ AskedSizes \subseteq 0 .. Limit - 1
  /\ AskedGrans \subseteq Nat
  /\ \A g \in AskedGrans :
       2 * (MaxElementValue * MaxElementValue + g + MFStoreAllocGran) <= Limit
  /\ GrownLengths \subseteq Nat

VARIABLES
  store_length,           \* of the file, or -1 while there is none
  controls,               \* the members of each MFStoreControl
  mode,                   \* of the mappings: closed, or how they were opened
  lock_owner,             \* the process that has the advisory lock
  writers,                \* the mappings for which the lock was obtained
  opened_twice,           \* the processes that have had two mappings at once
  adjusted                \* the last call of CreateMFStoreAdjusted

controlVars == <<store_length, controls, mode, lock_owner, writers, opened_twice, adjusted>>

NotAdjusted == [asked |-> << >>, args |-> << >>, outcome |-> "none"]

IsActive(c) == controls[c].mapping # NoMapping
IsWriter(c) == IsActive(c) /\ mode[controls[c].mapping] = "read_write"

Inactive ==
  [mapping |-> NoMapping, file_size |-> 0, mmap_size |-> 0, alloc_gran |-> 0]

-----------------------------------------------------------------------------
(* Checks and adjustments of sizes.                                        *)

FixUpValueGran(value, gran) == GranularRoundUp(value, FixUpStorageGran(gran)) % Limit

CheckInitialFileAndMmapSizes(file_size, mmap_size, gran) ==
  CheckFileSize(file_size, gran) /\ CheckFileSize(mmap_size, gran) /\ mmap_size >= file_size

-----------------------------------------------------------------------------
(* A control gets other members: its mapping is closed when no other has it, *)
(* and with the descriptor goes the lock.                                  *)

Released_Bug(c) == {controls[c].mapping} \ {NoMapping}

Released(c) ==
  {controls[c].mapping} \ ({NoMapping} \cup {controls[d].mapping : d \in Controls \ {c}})

Replace(c, members, opened, as) ==
  LET closed == Released(c) \ ({members.mapping} \ opened)
  IN /\ controls' = [controls EXCEPT ![c] = members]
     /\ mode' = [m \in Mappings |-> IF m \in opened THEN as
                                    ELSE IF m \in closed THEN "closed" ELSE mode[m]]
     /\ writers' = writers \ closed
     /\ lock_owner' = IF closed # {} /\ lock_owner = ProcessOf[c] THEN NoProcess ELSE lock_owner

\* The constructor maps the file, for a process that may have mapped it already.  The
\* name of a mapping that is closed by it may be used again.
MapFile(c, file_size, mmap_size, gran, as) ==
  \E m \in Mappings :
     /\ mode[m] = "closed" \/ m \in Released(c)
     /\ Replace(c, [mapping |-> m, file_size |-> file_size, mmap_size |-> mmap_size,
                    alloc_gran |-> gran], {m}, as)
     /\ opened_twice' = IF \E d \in Controls : ProcessOf[d] = ProcessOf[c] /\ IsActive(d)
                        THEN opened_twice \cup {ProcessOf[c]} ELSE opened_twice

MFStoreControl(c, writer) ==
  \E mmap_size \in AskedSizes \cup {store_length}, gran \in AskedGrans :
    /\ store_length >= 0
    /\ CheckInitialFileAndMmapSizes(store_length, mmap_size, gran)
    /\ MapFile(c, store_length, mmap_size, gran, IF writer THEN "read_write" ELSE "read_only")
    /\ adjusted' = NotAdjusted
    /\ UNCHANGED store_length

\* With a file that exists already open() fails, and nothing changes.
CreateMFStore(c, file_size, mmap_size, gran) ==
  /\ CheckInitialFileAndMmapSizes(file_size, mmap_size, gran)
  /\ store_length = -1
  /\ file_size <= MaxFileSize
  /\ store_length' = file_size
  /\ MapFile(c, file_size, mmap_size, gran, "read_write")

\* When the file cannot get its storage it stays, and there is no control for it.
CreateMFStoreFails(file_size, mmap_size, gran) ==
  /\ CheckInitialFileAndMmapSizes(file_size, mmap_size, gran)
  /\ store_length = -1
  /\ store_length' = 0
  /\ UNCHANGED <<controls, mode, lock_owner, writers, opened_twice>>

CreateMFStoreRefused(file_size, mmap_size, gran) ==
  /\ ~CheckInitialFileAndMmapSizes(file_size, mmap_size, gran)
  /\ store_length = -1
  /\ UNCHANGED <<store_length, controls, mode, lock_owner, writers, opened_twice>>

\* The arguments are changed to the sizes that were used, once there is a control.
CreateMFStoreAdjusted(c) ==
  \E file_size, mmap_size \in AskedSizes, gran \in AskedGrans :
    LET asked == <<file_size, mmap_size, gran>>
        fixed == <<FixUpValueGran(file_size, gran), FixUpValueGran(mmap_size, gran),
                   FixUpStorageGran(gran)>>
    IN \/ /\ CreateMFStore(c, fixed[1], fixed[2], fixed[3])
          /\ adjusted' = [asked |-> asked, args |-> fixed, outcome |-> "created"]
       \/ /\ CreateMFStoreFails(fixed[1], fixed[2], fixed[3])
          /\ adjusted' = [asked |-> asked, args |-> asked, outcome |-> "failed"]
       \/ /\ CreateMFStoreRefused(fixed[1], fixed[2], fixed[3])
          /\ adjusted' = [asked |-> asked, args |-> asked, outcome |-> "refused"]

CreateMFStoreAsAsked(c) ==
  /\ \E file_size, mmap_size \in AskedSizes, gran \in AskedGrans :
       \/ CreateMFStore(c, file_size, mmap_size, gran)
       \/ CreateMFStoreFails(file_size, mmap_size, gran)
  /\ adjusted' = NotAdjusted

-----------------------------------------------------------------------------
(* What is done with a control.                                            *)

\* fcntl() refuses a descriptor that is not open for writing, and does not wait.
GetWriterAdvisoryLockOf(c) ==
  /\ IsActive(c) /\ IsWriter(c)
  /\ lock_owner \in {NoProcess, ProcessOf[c]}
  /\ lock_owner' = ProcessOf[c]
  /\ writers' = writers \cup {controls[c].mapping}
  /\ adjusted' = NotAdjusted
  /\ UNCHANGED <<store_length, controls, mode, opened_twice>>

\* fallocate() through the descriptor; the control does not learn the new length.
EnsureFileBackingStore(c) ==
  \E length \in GrownLengths :
    /\ IsActive(c) /\ IsWriter(c) /\ length > store_length /\ length <= MaxFileSize
    /\ store_length' = length
    /\ UNCHANGED <<controls, mode, lock_owner, writers, opened_twice>>
    /\ adjusted' = NotAdjusted

\* MFStoreControl::CheckSectionList, for a list that is given or was set before.
ControlAccepts(c) ==
  IsActive(c) /\ CheckSectionList(section_list, controls[c].alloc_gran, controls[c].file_size)

CopyControl(c, d) ==
  /\ c # d /\ ProcessOf[c] = ProcessOf[d]
  /\ Replace(d, controls[c], {}, "closed")
  /\ adjusted' = NotAdjusted
  /\ UNCHANGED <<store_length, opened_twice>>

\* A control that was moved from has no mapping; of its sizes, which it keeps, nobody
\* makes use any more.
MoveControl(c, d) ==
  LET closed == Released(d) \ {controls[c].mapping}
  IN /\ c # d /\ ProcessOf[c] = ProcessOf[d]
     /\ controls' = [controls EXCEPT ![d] = controls[c], ![c] = Inactive]
     /\ mode' = [m \in Mappings |-> IF m \in closed THEN "closed" ELSE mode[m]]
     /\ writers' = writers \ closed
     /\ lock_owner' = IF closed # {} /\ lock_owner = ProcessOf[c] THEN NoProcess ELSE lock_owner
     /\ adjusted' = NotAdjusted
     /\ UNCHANGED <<store_length, opened_twice>>

DestroyControl(c) ==
  /\ Replace(c, Inactive, {}, "closed")
  /\ adjusted' = NotAdjusted
  /\ UNCHANGED <<store_length, opened_twice>>

\* A process ends, or crashes.
EndProcess(p) ==
  LET mine == {c \in Controls : ProcessOf[c] = p}
      gone == {controls[c].mapping : c \in mine}
  IN /\ controls' = [c \in Controls |-> IF c \in mine THEN Inactive ELSE controls[c]]
     /\ mode' = [m \in Mappings |-> IF m \in gone THEN "closed" ELSE mode[m]]
     /\ writers' = writers \ gone
     /\ lock_owner' = IF lock_owner = p THEN NoProcess ELSE lock_owner
     /\ opened_twice' = opened_twice \ {p}
     /\ adjusted' = NotAdjusted
     /\ UNCHANGED store_length

ControlsInit ==
  /\ store_length = -1
  /\ controls = [c \in Controls |-> Inactive]
  /\ mode = [m \in Mappings |-> "closed"]
  /\ lock_owner = NoProcess
  /\ writers = {}
  /\ opened_twice = {}
  /\ adjusted = NotAdjusted

ControlsNext ==
  /\ \/ \E c \in Controls :
          \/ \E writer \in BOOLEAN : MFStoreControl(c, writer)
          \/ CreateMFStoreAdjusted(c) \/ CreateMFStoreAsAsked(c)
          \/ GetWriterAdvisoryLockOf(c) \/ EnsureFileBackingStore(c) \/ DestroyControl(c)
          \/ \E d \in Controls : CopyControl(c, d) \/ MoveControl(c, d)
     \/ \E p \in Processes : EndProcess(p)
  /\ UNCHANGED section_list

\* The controls, with any list of sections that an application sets or gives.
ControlsSpec == ControlsInit /\ SectionTypeOK /\ [][ControlsNext]_<<section_list, controlVars>>

-----------------------------------------------------------------------------
\* A control that has obtained the lock of GetWriterAdvisoryLock.cpp:52 has it as long
\* as a copy of it is left, whatever is copied, moved and destroyed, unless its process
\* has mapped the file more than once: then it may lose it to another process.
LockKept ==
  \A c \in Controls : IsActive(c) /\ controls[c].mapping \in writers =>
    lock_owner = ProcessOf[c] \/ ProcessOf[c] \in opened_twice

\* The size that a control keeps from the time it was made (MFStoreControl.cpp:80) is
\* never more than the file has; so sections that it accepts lie in the file, also
\* when the file has changed since.
SizesKept ==
  \A c \in Controls : IsActive(c) =>
    /\ mode[controls[c].mapping] # "closed"
    /\ controls[c].file_size <= store_length
    /\ CheckInitialFileAndMmapSizes(controls[c].file_size, controls[c].mmap_size,
                                    controls[c].alloc_gran)
    /\ ControlAccepts(c) => Layout(section_list, store_length)

\* The arguments of CreateMFStoreAdjusted (CreateMFStore.cpp:133) are changed when it
\* returns and not when it throws; the sizes are not smaller than those asked for,
\* and are refused only for a mapping that is too small or a size that cannot be
\* rounded up any more.
AdjustedAsReturned ==
  LET a == adjusted
  IN /\ a.outcome # "created" => a.args = a.asked
     /\ a.outcome = "created" => \A i \in 1 .. 3 : a.args[i] >= a.asked[i] /\ a.args[i] % a.args[3] = 0
     /\ a.outcome = "refused" => \/ a.asked[2] < a.asked[1]
                                 \/ \E i \in 1 .. 2 : a.asked[i] + FixUpStorageGran(a.asked[3]) >= Limit

\* What a control promises.
ControlsKept == LockKept /\ SizesKept /\ AdjustedAsReturned

=============================================================================
