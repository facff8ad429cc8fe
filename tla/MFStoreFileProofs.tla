-------------------------- MODULE MFStoreFileProofs --------------------------
(***************************************************************************)
(* Proofs about MFStoreFile, for every number of processes and every size, *)
(* whether or not fallocate() can fail half way.                           *)
(*                                                                         *)
(* PublishedBacked is not inductive: a step that publishes the pending     *)
(* size is harmless only because the file was made longer for it before,   *)
(* and nobody else has changed the header since.  So the invariant adds    *)
(* the lock, what the places of a growth say of the header, and that the   *)
(* process that creates the file is the only one that finds no header.     *)
(***************************************************************************)
EXTENDS MFStoreFile, TLAPS

HeaderInv == file_size <= actual_file_size /\ file_size <= file_size_pending

LockInv == \A p \in Processes : pc[p] \in LockedPlaces => lock = p

GrowthInv ==
  \A p \in Processes :
    /\ pc[p] \in {"extending", "writer", "growing", "grown"} => file_size_pending > 0
    /\ pc[p] \in {"extending", "grown"} => file_size_pending <= actual_file_size

\* A process that creates the file, from open() to the writing of the header.
Creates(p) == new_size[p] > 0

CreateInv ==
  /\ ~store_exists => file_size_pending = 0 /\ \A p \in Processes : pc[p] = "out"
  /\ \A p \in Processes :
       /\ Creates(p) => pc[p] \in {"created", "mapped", "locked"} /\ file_size_pending = 0
       /\ pc[p] = "created" => Creates(p)
       /\ Creates(p) /\ pc[p] # "created" => new_size[p] <= actual_file_size
  /\ \A p, q \in Processes : Creates(p) /\ Creates(q) => p = q

IInv == StoreFileTypeOK /\ HeaderInv /\ LockInv /\ GrowthInv /\ CreateInv

-----------------------------------------------------------------------------
(* What fallocate() does to the length of the file.                        *)

LEMMA BackedLength ==
  ASSUME actual_file_size \in Nat, NEW offset \in Nat, NEW length \in Nat
  PROVE  /\ Backed(offset, length) \in Nat
         /\ Backed(offset, length) >= actual_file_size
         /\ Backed(offset, length) >= offset + length
  BY DEF Backed

LEMMA FailedLength ==
  ASSUME actual_file_size \in Nat, NEW offset \in Nat, NEW length \in Nat,
         AllocateFails(offset, length)
  PROVE  actual_file_size' \in Nat /\ actual_file_size' >= actual_file_size
  BY BackedLength DEF AllocateFails, BackedInPart

\* The length that a growth allocates.
LEMMA GrowthLength ==
  ASSUME StoreFileTypeOK, HeaderInv
  PROVE  /\ file_size_pending - file_size \in Nat
         /\ file_size + (file_size_pending - file_size) = file_size_pending
  BY DEF StoreFileTypeOK, HeaderInv

-----------------------------------------------------------------------------
LEMMA InitStep == StoreFileInit => IInv
  <1> SUFFICES ASSUME StoreFileInit
               PROVE  IInv
    OBVIOUS
  <1> USE MFStoreAssumption DEF StoreFileInit
  <1>1. store_exists \in BOOLEAN
    OBVIOUS
  <1>2. StoreFileTypeOK
    BY <1>1 DEF StoreFileTypeOK, Places
  <1>3. HeaderInv /\ LockInv /\ GrowthInv
    BY DEF HeaderInv, LockInv, GrowthInv, LockedPlaces
  <1>4. CreateInv
    BY DEF CreateInv, Creates
  <1> QED
    BY <1>2, <1>3, <1>4 DEF IInv

\* Every action keeps the five parts of the invariant.
LEMMA NextStep == IInv /\ [StoreFileNext]_storeVars => IInv'
  <1> SUFFICES ASSUME IInv, [StoreFileNext]_storeVars
               PROVE  IInv'
    OBVIOUS
  <1> USE MFStoreAssumption
  <1>0. CASE UNCHANGED storeVars
    BY <1>0 DEF IInv, StoreFileTypeOK, HeaderInv, LockInv, GrowthInv, CreateInv, Creates, storeVars,
                storeFileVars, header_vars
  <1>1. ASSUME NEW p \in Processes, \E n \in 1 .. MaxSize : CreateOpen(p, n)
        PROVE  IInv'
    <2> PICK n \in 1 .. MaxSize : CreateOpen(p, n)
      BY <1>1
    <2> USE DEF IInv, CreateOpen, Goto, storeFileVars, header_vars
    <2>1. StoreFileTypeOK'
      BY DEF StoreFileTypeOK, Places, LockedPlaces
    <2>2. HeaderInv'
      BY DEF StoreFileTypeOK, HeaderInv, GrowthInv, CreateInv, Creates
    <2>3. LockInv'
      BY DEF StoreFileTypeOK, LockInv, LockedPlaces
    <2>4. GrowthInv'
      BY DEF StoreFileTypeOK, HeaderInv, LockInv, GrowthInv, LockedPlaces
    <2>5. CreateInv'
      BY DEF StoreFileTypeOK, HeaderInv, LockInv, GrowthInv, CreateInv, Creates, LockedPlaces
    <2> QED
      BY <2>1, <2>2, <2>3, <2>4, <2>5
  <1>2. ASSUME NEW p \in Processes, CreateMap(p)
        PROVE  IInv'
    <2> USE <1>2 DEF IInv, CreateMap, Goto, storeFileVars, header_vars
    <2>0. actual_file_size' \in Nat /\ actual_file_size' >= actual_file_size
           /\ actual_file_size' >= new_size[p]
      BY BackedLength DEF StoreFileTypeOK
    <2>1. StoreFileTypeOK'
      BY <2>0 DEF StoreFileTypeOK, Places, LockedPlaces
    <2>2. HeaderInv'
      BY <2>0 DEF StoreFileTypeOK, HeaderInv, GrowthInv, CreateInv, Creates
    <2>3. LockInv'
      BY <2>0 DEF StoreFileTypeOK, LockInv, LockedPlaces
    <2>4. GrowthInv'
      BY <2>0 DEF StoreFileTypeOK, HeaderInv, LockInv, GrowthInv, LockedPlaces
    <2>5. CreateInv'
      BY <2>0 DEF StoreFileTypeOK, HeaderInv, LockInv, GrowthInv, CreateInv, Creates, LockedPlaces
    <2> QED
      BY <2>1, <2>2, <2>3, <2>4, <2>5
  <1>3. ASSUME NEW p \in Processes, CreateFails(p)
        PROVE  IInv'
    <2> USE <1>3 DEF IInv, CreateFails, Goto, storeFileVars, header_vars
    <2>0. actual_file_size' \in Nat /\ actual_file_size' >= actual_file_size
      BY FailedLength DEF StoreFileTypeOK
    <2>1. StoreFileTypeOK'
      BY <2>0 DEF StoreFileTypeOK, Places, LockedPlaces
    <2>2. HeaderInv'
      BY <2>0 DEF StoreFileTypeOK, HeaderInv, GrowthInv, CreateInv, Creates
    <2>3. LockInv'
      BY <2>0 DEF StoreFileTypeOK, LockInv, LockedPlaces
    <2>4. GrowthInv'
      BY <2>0 DEF StoreFileTypeOK, HeaderInv, LockInv, GrowthInv, LockedPlaces
    <2>5. CreateInv'
      BY <2>0 DEF StoreFileTypeOK, HeaderInv, LockInv, GrowthInv, CreateInv, Creates, LockedPlaces
    <2> QED
      BY <2>1, <2>2, <2>3, <2>4, <2>5
  <1>4. ASSUME NEW p \in Processes, OpenMap(p)
        PROVE  IInv'
    <2> USE <1>4 DEF IInv, OpenMap, Goto, storeFileVars, header_vars
    <2>1. StoreFileTypeOK'
      BY DEF StoreFileTypeOK, Places, LockedPlaces
    <2>2. HeaderInv'
      BY DEF StoreFileTypeOK, HeaderInv, GrowthInv, CreateInv, Creates
    <2>3. LockInv'
      BY DEF StoreFileTypeOK, LockInv, LockedPlaces
    <2>4. GrowthInv'
      BY DEF StoreFileTypeOK, HeaderInv, LockInv, GrowthInv, LockedPlaces
    <2>5. CreateInv'
      BY DEF StoreFileTypeOK, HeaderInv, LockInv, GrowthInv, CreateInv, Creates, LockedPlaces
    <2> QED
      BY <2>1, <2>2, <2>3, <2>4, <2>5
  <1>5. ASSUME NEW p \in Processes, GetWriterAdvisoryLock(p)
        PROVE  IInv'
    <2> USE <1>5 DEF IInv, GetWriterAdvisoryLock, Goto, storeFileVars, header_vars
    <2>1. StoreFileTypeOK'
      BY DEF StoreFileTypeOK, Places, LockedPlaces
    <2>2. HeaderInv'
      BY DEF StoreFileTypeOK, HeaderInv, GrowthInv, CreateInv, Creates
    <2>3. LockInv'
      BY DEF StoreFileTypeOK, LockInv, LockedPlaces
    <2>4. GrowthInv'
      BY DEF StoreFileTypeOK, HeaderInv, LockInv, GrowthInv, LockedPlaces
    <2>5. CreateInv'
      BY DEF StoreFileTypeOK, HeaderInv, LockInv, GrowthInv, CreateInv, Creates, LockedPlaces
    <2> QED
      BY <2>1, <2>2, <2>3, <2>4, <2>5
  <1>6. ASSUME NEW p \in Processes, InitHeader(p)
        PROVE  IInv'
    <2> USE <1>6 DEF IInv, InitHeader, Goto, storeFileVars, header_vars
    <2>1. StoreFileTypeOK'
      BY DEF StoreFileTypeOK, Places, LockedPlaces
    <2>2. HeaderInv'
      BY DEF StoreFileTypeOK, HeaderInv, GrowthInv, CreateInv, Creates
    <2>3. LockInv'
      BY DEF StoreFileTypeOK, LockInv, LockedPlaces
    <2>4. GrowthInv'
      BY DEF StoreFileTypeOK, HeaderInv, LockInv, GrowthInv, LockedPlaces
    <2>5. CreateInv'
      BY DEF StoreFileTypeOK, HeaderInv, LockInv, GrowthInv, CreateInv, Creates, LockedPlaces
    <2> QED
      BY <2>1, <2>2, <2>3, <2>4, <2>5
  <1>7. ASSUME NEW p \in Processes, FixUpThrows(p)
        PROVE  IInv'
    <2> USE <1>7 DEF IInv, FixUpThrows, Goto, storeFileVars, header_vars,
                   FixUpCalled
    <2>1. StoreFileTypeOK'
      BY DEF StoreFileTypeOK, Places, LockedPlaces
    <2>2. HeaderInv'
      BY DEF StoreFileTypeOK, HeaderInv, GrowthInv, CreateInv, Creates
    <2>3. LockInv'
      BY DEF StoreFileTypeOK, LockInv, LockedPlaces
    <2>4. GrowthInv'
      BY DEF StoreFileTypeOK, HeaderInv, LockInv, GrowthInv, LockedPlaces
    <2>5. CreateInv'
      BY DEF StoreFileTypeOK, HeaderInv, LockInv, GrowthInv, CreateInv, Creates, LockedPlaces
    <2> QED
      BY <2>1, <2>2, <2>3, <2>4, <2>5
  <1>8. ASSUME NEW p \in Processes, FixUpReturns(p)
        PROVE  IInv'
    <2> USE <1>8 DEF IInv, FixUpReturns, Goto, storeFileVars, header_vars,
                   FixUpCalled, SizesInOrder
    <2>1. StoreFileTypeOK'
      BY DEF StoreFileTypeOK, Places, LockedPlaces
    <2>2. HeaderInv'
      BY DEF StoreFileTypeOK, HeaderInv, GrowthInv, CreateInv, Creates
    <2>3. LockInv'
      BY DEF StoreFileTypeOK, LockInv, LockedPlaces
    <2>4. GrowthInv'
      BY DEF StoreFileTypeOK, HeaderInv, LockInv, GrowthInv, LockedPlaces
    <2>5. CreateInv'
      BY DEF StoreFileTypeOK, HeaderInv, LockInv, GrowthInv, CreateInv, Creates, LockedPlaces
    <2> QED
      BY <2>1, <2>2, <2>3, <2>4, <2>5
  <1>9. ASSUME NEW p \in Processes, FixUpReset(p)
        PROVE  IInv'
    <2> USE <1>9 DEF IInv, FixUpReset, Goto, storeFileVars, header_vars,
                   FixUpCalled, SizesInOrder
    <2>1. StoreFileTypeOK'
      BY DEF StoreFileTypeOK, Places, LockedPlaces
    <2>2. HeaderInv'
      BY DEF StoreFileTypeOK, HeaderInv, GrowthInv, CreateInv, Creates
    <2>3. LockInv'
      BY DEF StoreFileTypeOK, LockInv, LockedPlaces
    <2>4. GrowthInv'
      BY DEF StoreFileTypeOK, HeaderInv, LockInv, GrowthInv, LockedPlaces
    <2>5. CreateInv'
      BY DEF StoreFileTypeOK, HeaderInv, LockInv, GrowthInv, CreateInv, Creates, LockedPlaces
    <2> QED
      BY <2>1, <2>2, <2>3, <2>4, <2>5
  <1>10. ASSUME NEW p \in Processes, FixUpExtend(p)
        PROVE  IInv'
    <2> USE <1>10 DEF IInv, FixUpExtend, Goto, storeFileVars, header_vars,
                   FixUpMustExtend, FixUpCalled, SizesInOrder
    <2>0. actual_file_size' \in Nat /\ actual_file_size' >= actual_file_size
           /\ actual_file_size' >= file_size_pending
      BY BackedLength DEF StoreFileTypeOK
    <2>1. StoreFileTypeOK'
      BY <2>0 DEF StoreFileTypeOK, Places, LockedPlaces
    <2>2. HeaderInv'
      BY <2>0 DEF StoreFileTypeOK, HeaderInv, GrowthInv, CreateInv, Creates
    <2>3. LockInv'
      BY <2>0 DEF StoreFileTypeOK, LockInv, LockedPlaces
    <2>4. GrowthInv'
      BY <2>0 DEF StoreFileTypeOK, HeaderInv, LockInv, GrowthInv, LockedPlaces
    <2>5. CreateInv'
      BY <2>0 DEF StoreFileTypeOK, HeaderInv, LockInv, GrowthInv, CreateInv, Creates, LockedPlaces
    <2> QED
      BY <2>1, <2>2, <2>3, <2>4, <2>5
  <1>11. ASSUME NEW p \in Processes, FixUpExtendFails(p)
        PROVE  IInv'
    <2> USE <1>11 DEF IInv, FixUpExtendFails, Goto, storeFileVars, header_vars,
                   FixUpMustExtend, FixUpCalled, SizesInOrder
    <2>0. actual_file_size' \in Nat /\ actual_file_size' >= actual_file_size
      BY FailedLength DEF StoreFileTypeOK
    <2>1. StoreFileTypeOK'
      BY <2>0 DEF StoreFileTypeOK, Places, LockedPlaces
    <2>2. HeaderInv'
      BY <2>0 DEF StoreFileTypeOK, HeaderInv, GrowthInv, CreateInv, Creates
    <2>3. LockInv'
      BY <2>0 DEF StoreFileTypeOK, LockInv, LockedPlaces
    <2>4. GrowthInv'
      BY <2>0 DEF StoreFileTypeOK, HeaderInv, LockInv, GrowthInv, LockedPlaces
    <2>5. CreateInv'
      BY <2>0 DEF StoreFileTypeOK, HeaderInv, LockInv, GrowthInv, CreateInv, Creates, LockedPlaces
    <2> QED
      BY <2>1, <2>2, <2>3, <2>4, <2>5
  <1>12. ASSUME NEW p \in Processes, FixUpPublish(p)
        PROVE  IInv'
    <2> USE <1>12 DEF IInv, FixUpPublish, Goto, storeFileVars, header_vars
    <2>1. StoreFileTypeOK'
      BY DEF StoreFileTypeOK, Places, LockedPlaces
    <2>2. HeaderInv'
      BY DEF StoreFileTypeOK, HeaderInv, GrowthInv, CreateInv, Creates
    <2>3. LockInv'
      BY DEF StoreFileTypeOK, LockInv, LockedPlaces
    <2>4. GrowthInv'
      BY DEF StoreFileTypeOK, HeaderInv, LockInv, GrowthInv, LockedPlaces
    <2>5. CreateInv'
      BY DEF StoreFileTypeOK, HeaderInv, LockInv, GrowthInv, CreateInv, Creates, LockedPlaces
    <2> QED
      BY <2>1, <2>2, <2>3, <2>4, <2>5
  <1>13. ASSUME NEW p \in Processes, \E n \in 1 .. MaxSize : GrowBegin(p, n)
        PROVE  IInv'
    <2> PICK n \in 1 .. MaxSize : GrowBegin(p, n)
      BY <1>13
    <2> USE DEF IInv, GrowBegin, Goto, storeFileVars, header_vars
    <2>1. StoreFileTypeOK'
      BY DEF StoreFileTypeOK, Places, LockedPlaces
    <2>2. HeaderInv'
      BY DEF StoreFileTypeOK, HeaderInv, GrowthInv, CreateInv, Creates
    <2>3. LockInv'
      BY DEF StoreFileTypeOK, LockInv, LockedPlaces
    <2>4. GrowthInv'
      BY DEF StoreFileTypeOK, HeaderInv, LockInv, GrowthInv, LockedPlaces
    <2>5. CreateInv'
      BY DEF StoreFileTypeOK, HeaderInv, LockInv, GrowthInv, CreateInv, Creates, LockedPlaces
    <2> QED
      BY <2>1, <2>2, <2>3, <2>4, <2>5
  <1>14. ASSUME NEW p \in Processes, GrowExtend(p)
        PROVE  IInv'
    <2> USE <1>14 DEF IInv, GrowExtend, Goto, storeFileVars, header_vars
    <2>0. actual_file_size' \in Nat /\ actual_file_size' >= actual_file_size
           /\ actual_file_size' >= file_size_pending
      BY BackedLength, GrowthLength DEF StoreFileTypeOK
    <2>1. StoreFileTypeOK'
      BY <2>0 DEF StoreFileTypeOK, Places, LockedPlaces
    <2>2. HeaderInv'
      BY <2>0 DEF StoreFileTypeOK, HeaderInv, GrowthInv, CreateInv, Creates
    <2>3. LockInv'
      BY <2>0 DEF StoreFileTypeOK, LockInv, LockedPlaces
    <2>4. GrowthInv'
      BY <2>0 DEF StoreFileTypeOK, HeaderInv, LockInv, GrowthInv, LockedPlaces
    <2>5. CreateInv'
      BY <2>0 DEF StoreFileTypeOK, HeaderInv, LockInv, GrowthInv, CreateInv, Creates, LockedPlaces
    <2> QED
      BY <2>1, <2>2, <2>3, <2>4, <2>5
  <1>15. ASSUME NEW p \in Processes, GrowExtendFails(p)
        PROVE  IInv'
    <2> USE <1>15 DEF IInv, GrowExtendFails, Goto, storeFileVars, header_vars
    <2>0. actual_file_size' \in Nat /\ actual_file_size' >= actual_file_size
      BY FailedLength, GrowthLength DEF StoreFileTypeOK
    <2>1. StoreFileTypeOK'
      BY <2>0 DEF StoreFileTypeOK, Places, LockedPlaces
    <2>2. HeaderInv'
      BY <2>0 DEF StoreFileTypeOK, HeaderInv, GrowthInv, CreateInv, Creates
    <2>3. LockInv'
      BY <2>0 DEF StoreFileTypeOK, LockInv, LockedPlaces
    <2>4. GrowthInv'
      BY <2>0 DEF StoreFileTypeOK, HeaderInv, LockInv, GrowthInv, LockedPlaces
    <2>5. CreateInv'
      BY <2>0 DEF StoreFileTypeOK, HeaderInv, LockInv, GrowthInv, CreateInv, Creates, LockedPlaces
    <2> QED
      BY <2>1, <2>2, <2>3, <2>4, <2>5
  <1>16. ASSUME NEW p \in Processes, GrowPublish(p)
        PROVE  IInv'
    <2> USE <1>16 DEF IInv, GrowPublish, Goto, storeFileVars, header_vars
    <2>1. StoreFileTypeOK'
      BY DEF StoreFileTypeOK, Places, LockedPlaces
    <2>2. HeaderInv'
      BY DEF StoreFileTypeOK, HeaderInv, GrowthInv, CreateInv, Creates
    <2>3. LockInv'
      BY DEF StoreFileTypeOK, LockInv, LockedPlaces
    <2>4. GrowthInv'
      BY DEF StoreFileTypeOK, HeaderInv, LockInv, GrowthInv, LockedPlaces
    <2>5. CreateInv'
      BY DEF StoreFileTypeOK, HeaderInv, LockInv, GrowthInv, CreateInv, Creates, LockedPlaces
    <2> QED
      BY <2>1, <2>2, <2>3, <2>4, <2>5
  <1>17. ASSUME NEW p \in Processes, End(p)
        PROVE  IInv'
    <2> USE <1>17 DEF IInv, End, Goto, storeFileVars, header_vars
    <2>1. StoreFileTypeOK'
      BY DEF StoreFileTypeOK, Places, LockedPlaces
    <2>2. HeaderInv'
      BY DEF StoreFileTypeOK, HeaderInv, GrowthInv, CreateInv, Creates
    <2>3. LockInv'
      BY DEF StoreFileTypeOK, LockInv, LockedPlaces
    <2>4. GrowthInv'
      BY DEF StoreFileTypeOK, HeaderInv, LockInv, GrowthInv, LockedPlaces
    <2>5. CreateInv'
      BY DEF StoreFileTypeOK, HeaderInv, LockInv, GrowthInv, CreateInv, Creates, LockedPlaces
    <2> QED
      BY <2>1, <2>2, <2>3, <2>4, <2>5
  <1> QED
    BY <1>0, <1>1, <1>2, <1>3, <1>4, <1>5, <1>6, <1>7, <1>8, <1>9,
       <1>10, <1>11, <1>12, <1>13, <1>14, <1>15, <1>16, <1>17
       DEF StoreFileNext, Create, OpenStore, FixUpFileSizePending, IncreaseStorageSize

LEMMA Invariance == StoreFileSpec => []IInv
  BY InitStep, NextStep, PTL DEF StoreFileSpec

\* Every variable has its type.
THEOREM TypeCorrect == StoreFileSpec => []StoreFileTypeOK
  <1>1. IInv => StoreFileTypeOK
    BY DEF IInv
  <1> QED
    BY <1>1, Invariance, PTL

\* The size that readers trust is never larger than the file.
THEOREM SizeIsBacked == StoreFileSpec => []PublishedBacked
  <1>1. IInv => PublishedBacked
    BY DEF IInv, HeaderInv, PublishedBacked
  <1> QED
    BY <1>1, Invariance, PTL

\* At most one process is past the advisory lock.
THEOREM OneWriter == StoreFileSpec => []SingleWriter
  <1>1. IInv => SingleWriter
    BY DEF IInv, LockInv, SingleWriter
  <1> QED
    BY <1>1, Invariance, PTL

\* WriterSettled is inductive once the places and the lock are known.
LEMMA SettledStep == IInv /\ WriterSettled /\ [StoreFileNext]_storeVars => WriterSettled'
  <1> SUFFICES ASSUME IInv, WriterSettled, [StoreFileNext]_storeVars,
                      NEW q \in Processes, pc'[q] = "writer"
               PROVE  \/ file_size_pending' = file_size'
                      \/ file_size' < actual_file_size' /\ actual_file_size' < file_size_pending'
    BY DEF WriterSettled
  <1> DEFINE Same == UNCHANGED <<actual_file_size, header_vars>> /\ pc[q] = "writer"
  <1>1. Same => \/ file_size_pending' = file_size'
                \/ file_size' < actual_file_size' /\ actual_file_size' < file_size_pending'
    BY DEF WriterSettled, header_vars
  <1>2. ASSUME UNCHANGED storeVars
        PROVE  Same
    BY <1>2 DEF storeVars, storeFileVars
  <1>3. ASSUME NEW p \in Processes,
               \/ \E n \in 1 .. MaxSize : CreateOpen(p, n)
               \/ OpenMap(p) \/ GetWriterAdvisoryLock(p) \/ End(p) \/ FixUpThrows(p)
        PROVE  Same
    BY <1>3 DEF IInv, StoreFileTypeOK, CreateOpen, OpenMap, GetWriterAdvisoryLock, End, FixUpThrows,
                Goto, storeFileVars
  <1>4. ASSUME NEW p \in Processes, FixUpReturns(p)
        PROVE  \/ file_size_pending' = file_size'
               \/ file_size' < actual_file_size' /\ actual_file_size' < file_size_pending'
    BY <1>4 DEF FixUpReturns, storeFileVars, header_vars
  <1>5. ASSUME NEW p \in Processes,
               InitHeader(p) \/ FixUpReset(p) \/ FixUpPublish(p) \/ GrowPublish(p)
        PROVE  file_size_pending' = file_size'
    BY <1>5 DEF InitHeader, FixUpReset, FixUpPublish, GrowPublish
  \* While a process creates the file nobody is a writer, for there is no header.
  <1>6. ASSUME NEW p \in Processes, CreateMap(p) \/ CreateFails(p)
        PROVE  FALSE
    <2>1. pc[p] = "created" /\ pc'[p] # "writer" /\ pc'[q] = pc[q]
      BY <1>6 DEF IInv, StoreFileTypeOK, CreateMap, CreateFails, Goto
    <2> QED
      BY <2>1 DEF IInv, StoreFileTypeOK, GrowthInv, CreateInv
  \* The writer and the process that makes the file longer would both have the lock.
  <1>7. ASSUME NEW p \in Processes,
               \/ FixUpExtend(p) \/ FixUpExtendFails(p)
               \/ \E n \in 1 .. MaxSize : GrowBegin(p, n)
               \/ GrowExtend(p) \/ GrowExtendFails(p)
        PROVE  FALSE
    <2>1. pc[p] \in LockedPlaces
      BY <1>7 DEF FixUpExtend, FixUpExtendFails, FixUpMustExtend, FixUpCalled, GrowBegin,
                  GrowExtend, GrowExtendFails, LockedPlaces
    <2>2. pc'[p] # "writer" /\ q # p /\ pc'[q] = pc[q]
      BY <1>7 DEF IInv, StoreFileTypeOK, FixUpExtend, FixUpExtendFails, GrowBegin, GrowExtend,
                  GrowExtendFails, Goto
    <2> QED
      BY <2>1, <2>2 DEF IInv, LockInv, LockedPlaces
  <1> HIDE DEF Same
  <1> QED
    BY <1>1, <1>2, <1>3, <1>4, <1>5, <1>6, <1>7
       DEF StoreFileNext, Create, OpenStore, FixUpFileSizePending, IncreaseStorageSize

\* A writer finds equal sizes, or the one case that FixUpFileSizePending leaves out.
THEOREM WritersSettled == StoreFileSpec => []WriterSettled
  <1>1. StoreFileInit => WriterSettled
    BY DEF StoreFileInit, WriterSettled
  <1> QED
    BY <1>1, SettledStep, Invariance, PTL DEF StoreFileSpec

-----------------------------------------------------------------------------
(* The refinement of GrowingStore.                                         *)

LEMMA RefinesInit == StoreFileInit => Promised!Init
  BY DEF StoreFileInit, Promised!Init

\* Six kinds of step can change the file or the size in its header.
LEMMA RefinesNext ==
  IInv /\ IInv' /\ [StoreFileNext]_storeVars => [Promised!Next]_<<actual_file_size, file_size>>
  <1> SUFFICES ASSUME IInv, IInv', [StoreFileNext]_storeVars
               PROVE  [Promised!Next]_<<actual_file_size, file_size>>
    OBVIOUS
  <1> DEFINE Same == UNCHANGED <<actual_file_size, file_size>>
  <1>0. actual_file_size' \in Nat /\ file_size' \in Nat /\ file_size' <= actual_file_size'
        /\ actual_file_size \in Nat /\ file_size \in Nat
    BY DEF IInv, StoreFileTypeOK, HeaderInv
  <1> DEFINE Longer == actual_file_size' >= actual_file_size /\ UNCHANGED file_size
             Published == file_size' >= file_size /\ UNCHANGED actual_file_size
  <1>1. Same \/ Longer \/ Published => [Promised!Next]_<<actual_file_size, file_size>>
    BY <1>0 DEF Promised!Next, Promised!Store, Promised!Publish
  <1>2. ASSUME UNCHANGED storeVars
        PROVE  Same
    BY <1>2 DEF storeVars, storeFileVars, header_vars
  <1>3. ASSUME NEW p \in Processes,
               \/ \E n \in 1 .. MaxSize : CreateOpen(p, n) \/ GrowBegin(p, n)
               \/ OpenMap(p) \/ GetWriterAdvisoryLock(p) \/ End(p)
               \/ FixUpThrows(p) \/ FixUpReturns(p) \/ FixUpReset(p)
        PROVE  Same
    BY <1>3 DEF CreateOpen, GrowBegin, OpenMap, GetWriterAdvisoryLock, End, FixUpThrows,
                FixUpReturns, FixUpReset, storeFileVars, header_vars
  <1>4. ASSUME NEW p \in Processes, CreateMap(p) \/ FixUpExtend(p) \/ GrowExtend(p)
        PROVE  Longer
    <2>1. new_size[p] \in Nat /\ file_size_pending \in Nat
          /\ file_size_pending - file_size \in Nat
      BY GrowthLength DEF IInv, StoreFileTypeOK
    <2>2. Backed(0, new_size[p]) >= actual_file_size
      BY <1>0, <2>1, BackedLength
    <2>3. Backed(file_size, file_size_pending) >= actual_file_size
      BY <1>0, <2>1, BackedLength
    <2>4. Backed(file_size, file_size_pending - file_size) >= actual_file_size
      BY <1>0, <2>1, BackedLength
    <2> QED
      BY <1>4, <2>2, <2>3, <2>4 DEF CreateMap, FixUpExtend, GrowExtend, header_vars
  <1>5. ASSUME NEW p \in Processes, CreateFails(p) \/ FixUpExtendFails(p) \/ GrowExtendFails(p)
        PROVE  Longer
    <2>1. new_size[p] \in Nat /\ file_size_pending \in Nat
      BY DEF IInv, StoreFileTypeOK
    <2> QED
      BY <1>0, <1>5, <2>1, FailedLength, GrowthLength
         DEF IInv, CreateFails, FixUpExtendFails, GrowExtendFails, header_vars
  <1>6. ASSUME NEW p \in Processes, InitHeader(p) \/ FixUpPublish(p) \/ GrowPublish(p)
        PROVE  Published
    BY <1>6 DEF IInv, StoreFileTypeOK, HeaderInv, CreateInv, Creates, InitHeader, FixUpPublish,
                GrowPublish, storeFileVars
  <1> HIDE DEF Same, Longer, Published
  <1> QED
    BY <1>1, <1>2, <1>3, <1>4, <1>5, <1>6
       DEF StoreFileNext, Create, OpenStore, FixUpFileSizePending, IncreaseStorageSize

\* Every file store is a GrowingStore: the published size only grows, inside the file.
THEOREM Implements == StoreFileSpec => ImplementsGrowingStore
  BY RefinesInit, RefinesNext, Invariance, PTL
     DEF StoreFileSpec, ImplementsGrowingStore, Promised!Spec
=============================================================================
