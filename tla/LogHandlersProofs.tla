------------------------- MODULE LogHandlersProofs -------------------------
(***************************************************************************)
(* Proofs about the handlers that write to files: LogHandlerFileMMap, for  *)
(* every number of files and opening threads, every page, chunk and line,  *)
(* LogFiles, for any handlers, callers, files and lines, and LogLines, for *)
(* any texts, threads, levels and widths of the columns.                   *)
(*                                                                         *)
(* The mapped file: no file is opened that is in use; what OpenFileImpl    *)
(* does before it takes the lock would otherwise meet the writes of the    *)
(* window that is mapped.  WritesStayInside is not inductive: that a new   *)
(* window is inside its file follows from what OpenFileImpl prepared, and  *)
(* that the file is not cut in the meantime from the files of all windows  *)
(* being different ones (Windows).  That text is kept needs one fact more: *)
(* where each window says that its text ends, the text of the file does    *)
(* end (TextEnds).  NoGaps needs more again (Solid): after the text of a   *)
(* file there is at most one chunk of NUL bytes, so that the window that   *)
(* is mapped after a crash reaches back to the text, and where there are   *)
(* any the file is whole pages, so that it is seen that they are there.    *)
(*                                                                         *)
(* The streams: every line is in the hands of one call, of which is known  *)
(* how many pieces it has written and where they are (InHand), or has      *)
(* arrived (LinesTracked).  The lock of a handler is held by one call, so  *)
(* that the lines of one handler follow one another on the console; a file *)
(* that several handlers write to gets what a stream has collected at once *)
(* (Together).                                                             *)
(*                                                                         *)
(* The lines: up to the newline at its offset, what a LogEmitControl was   *)
(* read to is the lines given (ReadTo); a leader that has its last NUL is  *)
(* one that was laid out (LeaderKept), and a thread's id fits its columns. *)
(* The loop over the flags has a closed form (LoopGives): the lowest bit   *)
(* that is set, or where it began if it has met one, and the highest.      *)
(***************************************************************************)
EXTENDS LogHandlerFileMMap, LogFiles, LogLines, NumberProofs, SequenceTheorems

-----------------------------------------------------------------------------
(* The mapped file.                                                        *)

\* The files of the openers and of the mapping are different, and they exist.
Apart ==
  \A o \in Openers : opening[o].file # NoFile =>
    /\ opening[o].file # out_file_name
    /\ \A p \in Openers : p # o => opening[p].file # opening[o].file

InUseExists ==
  /\ out_file_name # NoFile => out_file_name \in exists
  /\ \A o \in Openers : opening[o].file # NoFile => opening[o].file \in exists

\* What an opener has prepared lies in its file.
PreparedBacked ==
  \A o \in Openers : opening[o].file # NoFile =>
    opening[o].offset + opening[o].size <= Len(disk[opening[o].file])

\* The size of the window, as an unsigned int, is not cut; bytes are owed to a file.
WindowInv ==
  /\ mapping_size = region_size
  /\ owed > 0 => out_file_name # NoFile

-----------------------------------------------------------------------------
(* Sizes.                                                                  *)

LEMMA ChunkBounds == Chunk \in Nat \ {0}
<1>1. DefaultAllocSize \in Nat \ {0} /\ Page \in Nat \ {0}
  BY MMapAssumption
<1> QED BY <1>1, RoundUpBounds DEF Chunk

LEMMA ResizeType ==
  ASSUME NEW s \in Seq(Nat), NEW n \in Nat
  PROVE  /\ Resize(s, n) \in Seq(Nat)
         /\ Len(Resize(s, n)) = n
         /\ \A i \in 1 .. n : Resize(s, n)[i] = IF i <= Len(s) THEN s[i] ELSE 0
<1>1. \A i \in 1 .. n : (IF i <= Len(s) THEN s[i] ELSE 0) \in Nat
  OBVIOUS
<1>2. Resize(s, n) \in [1 .. n -> Nat]
  BY <1>1 DEF Resize
<1> QED BY <1>2 DEF Resize

\* A new window starts in the page of the next byte, and has room for the line.
LEMMA NewWindow ==
  ASSUME TypeOK, WindowInv, NEW needed \in Lengths
  PROVE  /\ NewOffset \in Nat
         /\ NewOffset <= mapping_offset + write_offset
         /\ NewSize(needed) \in Nat
         /\ NewSize(needed) < UIntLimit
         /\ mapping_offset + write_offset - NewOffset \in Nat
         /\ mapping_offset + write_offset - NewOffset + needed <= NewSize(needed)
         /\ NewFileSize(needed) \in Nat
         /\ ~Enough(needed) => mapping_offset + region_size <= NewFileSize(needed)
<1> DEFINE at == mapping_offset + write_offset
           up == GranularRoundUp(needed, Page)
<1>1. /\ needed \in Nat \ {0} /\ Page \in Nat \ {0}
      /\ mapping_offset \in Nat /\ write_offset \in Nat
      /\ mapping_size \in Nat /\ mapping_size = region_size
      /\ UIntLimit \in Nat /\ needed + 2 * Page < UIntLimit
      /\ DefaultAllocSize \in Nat \ {0} /\ DefaultAllocSize + Page < UIntLimit
  BY MMapAssumption DEF TypeOK, WindowInv
<1>2. /\ NewOffset \in Nat /\ NewOffset <= at /\ at < NewOffset + Page
  <2>1. at \in Nat
    BY <1>1
  <2>2. NewOffset = GranularRoundDown(at, Page)
    BY DEF NewOffset
  <2> HIDE DEF at
  <2> QED BY <1>1, <2>1, <2>2, RoundDownBounds
<1>3. up \in Nat /\ needed <= up /\ up <= needed + Page
  BY <1>1, RoundUpBounds
<1>4. Chunk \in Nat /\ Chunk < UIntLimit
  <2>1. Chunk \in Nat /\ Chunk <= DefaultAllocSize + Page
    BY <1>1, RoundUpBounds DEF Chunk
  <2> QED BY <1>1, <2>1
<1>5. /\ NewSize(needed) \in Nat /\ NewSize(needed) < UIntLimit
      /\ up + Page <= NewSize(needed)
  <2> HIDE DEF up
  <2>1. NewSize(needed) = Greatest(Chunk, up + Page)
    BY DEF NewSize, up
  <2> QED BY <2>1, <1>1, <1>3, <1>4 DEF Greatest
<1>6. ~Enough(needed) => mapping_size <= write_offset + needed
  BY <1>1 DEF Enough
<1>7. NewFileSize(needed) = NewOffset + NewSize(needed)
  BY DEF NewFileSize
<1> HIDE DEF up
<1> QED BY <1>1, <1>2, <1>3, <1>5, <1>6, <1>7

-----------------------------------------------------------------------------
(* Types.                                                                  *)

LEMMA PreparedType ==
  ASSUME TypeOK, NEW o \in Openers, NEW f \in Files, NEW size \in Nat, NEW offset \in Nat,
         NEW write \in Nat, NEW created \in BOOLEAN,
         Prepared(o, f, size, offset, write, created)
  PROVE  opening' \in [Openers -> Openings]
<1>1. [file |-> f, size |-> size, offset |-> offset, write |-> write, created |-> created]
        \in Openings
  BY DEF Openings
<1> QED BY <1>1 DEF TypeOK, Prepared

LEMMA IdleType == Idle \in Openings
BY DEF Idle, Openings

\* The bytes of a file are replaced by others.
LEMMA DiskType ==
  ASSUME TypeOK, NEW f \in Files, NEW s \in Seq(Nat), disk' = [disk EXCEPT ![f] = s]
  PROVE  disk' \in [Files -> Seq(Nat)]
BY DEF TypeOK

LEMMA CopyType ==
  ASSUME TypeOK, out_file_name # NoFile, NEW k \in Nat, Copy(k)
  PROVE  /\ disk' \in [Files -> Seq(Nat)]
         /\ Len(disk'[out_file_name]) = Len(disk[out_file_name])
         /\ \A i \in 1 .. Len(disk[out_file_name]) :
              disk'[out_file_name][i] =
                IF i \in mapping_offset + write_offset + 1 .. mapping_offset + write_offset + k
                THEN emissions ELSE disk[out_file_name][i]
<1> DEFINE f == out_file_name
           old == disk[f]
           first == mapping_offset + write_offset + 1
           new == [i \in 1 .. Len(old) |-> IF i \in first .. first + k - 1 THEN emissions ELSE old[i]]
<1>1. f \in Files /\ old \in Seq(Nat) /\ emissions \in Nat /\ first \in Nat
  BY DEF TypeOK
<1>2. disk' = [disk EXCEPT ![f] = new]
  BY DEF Copy
<1>3. Len(old) \in Nat /\ \A i \in 1 .. Len(old) : old[i] \in Nat
  BY <1>1
<1>4. new \in [1 .. Len(old) -> Nat]
  <2> HIDE DEF old, first
  <2> QED BY <1>1, <1>3
<1>5. new \in Seq(Nat) /\ Len(new) = Len(old)
  <2> HIDE DEF old, first
  <2>1. DOMAIN new = 1 .. Len(old)
    OBVIOUS
  <2> HIDE DEF new
  <2> QED BY <1>3, <1>4, <2>1
<1>6. disk'[f] = new
  BY <1>1, <1>2 DEF TypeOK
<1>7. first + k - 1 = mapping_offset + write_offset + k
  BY <1>1 DEF TypeOK
<1>8. \A i \in 1 .. Len(old) : new[i] = IF i \in first .. mapping_offset + write_offset + k
                                        THEN emissions ELSE old[i]
  BY <1>7
<1>9. disk' \in [Files -> Seq(Nat)]
  <2> HIDE DEF new
  <2> QED BY <1>1, <1>2, <1>5, DiskType
<1> HIDE DEF new
<1> QED BY <1>5, <1>6, <1>8, <1>9

LEMMA TypeInit == Init => TypeOK /\ WindowInv
<1> SUFFICES ASSUME Init PROVE TypeOK /\ WindowInv
  OBVIOUS
<1>1. Found \union {<< >>} \subseteq Seq(Nat)
  <2>1. Found \subseteq Seq(Nat \ {0})
    BY MMapAssumption
  <2>2. \A s \in Seq(Nat \ {0}) : s \in Seq(Nat)
    <3> TAKE s \in Seq(Nat \ {0})
    <3>1. Len(s) \in Nat /\ s \in [1 .. Len(s) -> Nat]
      OBVIOUS
    <3> QED BY <3>1
  <2>3. << >> \in Seq(Nat)
    OBVIOUS
  <2>4. \A s \in Found : s \in Seq(Nat)
    BY <2>1, <2>2, Zenon
  <2> QED BY <2>3, <2>4, Zenon
<1>2. disk \in [Files -> Seq(Nat)]
  BY <1>1 DEF Init
<1>3. opening \in [Openers -> Openings]
  BY IdleType DEF Init
<1> QED BY <1>2, <1>3 DEF Init, TypeOK, WindowInv

LEMMA TypeStep == TypeOK /\ WindowInv /\ [Next]_vars => TypeOK' /\ WindowInv'
<1> SUFFICES ASSUME TypeOK, WindowInv, [Next]_vars PROVE TypeOK' /\ WindowInv'
  OBVIOUS
<1> USE DEF file_vars, member_vars, count_vars
<1>0. /\ Chunk \in Nat \ {0} /\ Page \in Nat \ {0}
      /\ UIntLimit \in Nat
  BY ChunkBounds, MMapAssumption
<1>1. ASSUME NEW o \in Openers, NEW f \in Files, OpenNew(o, f) PROVE TypeOK' /\ WindowInv'
  <2>1. Resize(<< >>, Chunk) \in Seq(Nat)
    <3>1. << >> \in Seq(Nat) /\ Chunk \in Nat
      BY <1>0
    <3> QED BY <3>1, ResizeType
  <2>2. disk' \in [Files -> Seq(Nat)]
    BY <1>1, <2>1, DiskType DEF OpenNew
  <2>3. opening' \in [Openers -> Openings]
    <3>1. Prepared(o, f, Chunk, 0, 0, TRUE)
      BY <1>1 DEF OpenNew
    <3>2. Chunk \in Nat /\ 0 \in Nat /\ TRUE \in BOOLEAN
      BY <1>0
    <3> QED BY <3>1, <3>2, PreparedType
  <2> QED BY <1>1, <2>2, <2>3 DEF OpenNew, TypeOK, WindowInv
<1>2. ASSUME NEW o \in Openers, NEW f \in Files, OpenNewFails(o, f) PROVE TypeOK' /\ WindowInv'
  BY <1>2 DEF OpenNewFails, CallFails, TypeOK, WindowInv
<1>3. ASSUME NEW o \in Openers, NEW f \in Files, NEW d \in BOOLEAN, OpenEmpty(o, f, d)
      PROVE  TypeOK' /\ WindowInv'
  <2>1. << >> \in Seq(Nat)
    OBVIOUS
  <2>2. disk' \in [Files -> Seq(Nat)]
    BY <1>3, <2>1, DiskType DEF OpenEmpty
  <2> QED BY <1>3, <2>2 DEF OpenEmpty, TypeOK, WindowInv
<1>4. ASSUME NEW o \in Openers, NEW f \in Files, OpenFull(o, f) PROVE TypeOK' /\ WindowInv'
  <2>1. disk[f] \in Seq(Nat) /\ Len(disk[f]) \in Nat /\ Len(disk[f]) + Chunk \in Nat
    BY <1>0 DEF TypeOK
  <2>2. Resize(disk[f], Len(disk[f]) + Chunk) \in Seq(Nat)
    BY <2>1, ResizeType
  <2>3. disk' \in [Files -> Seq(Nat)]
    BY <1>4, <2>2, DiskType DEF OpenFull
  <2>4. opening' \in [Openers -> Openings]
    <3>1. Prepared(o, f, Chunk, Len(disk[f]), 0, FALSE)
      BY <1>4 DEF OpenFull
    <3>2. Chunk \in Nat /\ 0 \in Nat /\ FALSE \in BOOLEAN
      BY <1>0
    <3> QED BY <2>1, <3>1, <3>2, PreparedType
  <2> QED BY <1>4, <2>3, <2>4 DEF OpenFull, TypeOK, WindowInv
<1>5. ASSUME NEW o \in Openers, NEW f \in Files, OpenPadded(o, f) PROVE TypeOK' /\ WindowInv'
  <2> DEFINE n == Len(disk[f])
             size == Least(n, Chunk)
  <2>1. n \in Nat
    BY DEF TypeOK
  <2>2. size \in Nat /\ n - size \in Nat
    <3> HIDE DEF n
    <3> QED BY <1>0, <2>1 DEF Least
  <2>3. PICK w \in 0 .. size : Prepared(o, f, size, n - size, w, FALSE)
    BY <1>5 DEF OpenPadded
  <2>4. opening' \in [Openers -> Openings]
    <3>1. w \in Nat
      BY <2>2
    <3> HIDE DEF n, size
    <3> QED BY <2>2, <2>3, <3>1, PreparedType
  <2> QED BY <1>5, <2>4 DEF OpenPadded, TypeOK, WindowInv
<1>6. ASSUME NEW o \in Openers, NEW f \in Files, OpenTrimmed(o, f) PROVE TypeOK' /\ WindowInv'
  <2> DEFINE n == GranularRoundUp(Len(disk[f]), Chunk)
  <2>1. disk[f] \in Seq(Nat) /\ Len(disk[f]) \in Nat
    BY DEF TypeOK
  <2>2. n \in Nat /\ Chunk <= n
    BY <1>0, <2>1, RoundUpBounds
  <2>3. Resize(disk[f], n) \in Seq(Nat)
    <3> HIDE DEF n
    <3> QED BY <2>1, <2>2, ResizeType
  <2>4. disk' \in [Files -> Seq(Nat)]
    BY <1>6, <2>3, DiskType DEF OpenTrimmed
  <2>5. PICK w \in 0 .. Chunk : Prepared(o, f, Chunk, n - Chunk, w, FALSE)
    BY <1>6 DEF OpenTrimmed
  <2>6. opening' \in [Openers -> Openings]
    <3> HIDE DEF n
    <3>1. w \in Nat /\ n - Chunk \in Nat
      BY <1>0, <2>2
    <3> QED BY <1>0, <2>5, <3>1, PreparedType
  <2> QED BY <1>6, <2>4, <2>6 DEF OpenTrimmed, TypeOK, WindowInv
<1>7. ASSUME NEW o \in Openers, OpenFails(o) PROVE TypeOK' /\ WindowInv'
  <2>1. opening' \in [Openers -> Openings]
    BY <1>7, IdleType DEF OpenFails, TypeOK
  <2>2. opening[o].file \in Files
    BY <1>7 DEF OpenFails, TypeOK, Openings
  <2>3. << >> \in Seq(Nat)
    OBVIOUS
  <2>4. exists' \in SUBSET Files /\ disk' \in [Files -> Seq(Nat)]
    <3>1. CASE opening[o].created
      <4>1. disk' = [disk EXCEPT ![opening[o].file] = << >>] /\ exists' = exists \ {opening[o].file}
        BY <1>7, <3>1 DEF OpenFails
      <4>2. disk' \in [Files -> Seq(Nat)]
        BY <2>2, <2>3, <4>1, DiskType
      <4> QED BY <4>1, <4>2 DEF TypeOK
    <3>2. CASE ~opening[o].created
      BY <1>7, <3>2 DEF OpenFails, TypeOK
    <3> QED BY <3>1, <3>2
  <2> QED BY <1>7, <2>1, <2>4 DEF OpenFails, CallFails, TypeOK, WindowInv
<1>8. ASSUME NEW o \in Openers, OpenSwap(o) PROVE TypeOK' /\ WindowInv'
  <2>1. opening' \in [Openers -> Openings]
    BY <1>8, IdleType DEF OpenSwap, TypeOK
  <2>2. opening[o] \in Openings
    BY DEF TypeOK
  <2> QED BY <1>8, <2>1, <2>2 DEF OpenSwap, TypeOK, Openings, WindowInv
<1>9. ASSUME NEW needed \in Lengths, EmitHere(needed) PROVE TypeOK' /\ WindowInv'
  <2> needed \in Nat
    BY MMapAssumption
  <2> QED BY <1>9 DEF EmitHere, StartEmission, TypeOK, WindowInv
<1>10. ASSUME NEW needed \in Lengths, EmitInNewWindow(needed) PROVE TypeOK' /\ WindowInv'
  <2>1. /\ needed \in Nat /\ out_file_name \in Files /\ out_file_name # NoFile
        /\ disk[out_file_name] \in Seq(Nat)
    BY <1>10, MMapAssumption DEF EmitInNewWindow, StartEmission, TypeOK
  <2>2. /\ NewOffset \in Nat /\ NewSize(needed) \in Nat /\ NewSize(needed) < UIntLimit
        /\ NewFileSize(needed) \in Nat
        /\ mapping_offset + write_offset - NewOffset \in Nat
    BY NewWindow
  <2>3. NewSize(needed) % UIntLimit = NewSize(needed)
    BY <1>0, <2>2
  <2>4. disk' \in [Files -> Seq(Nat)]
    BY <1>10, <2>1, <2>2, ResizeType, DiskType DEF EmitInNewWindow
  <2> QED BY <1>10, <2>1, <2>2, <2>3, <2>4 DEF EmitInNewWindow, StartEmission, TypeOK, WindowInv
<1>11. ASSUME NEW needed \in Lengths, EmitThrows(needed) PROVE TypeOK' /\ WindowInv'
  <2>1. /\ out_file_name \in Files /\ disk[out_file_name] \in Seq(Nat)
        /\ NewFileSize(needed) \in Nat
    BY <1>11, NewWindow DEF EmitThrows, StartEmission, TypeOK
  <2>2. disk' \in [Files -> Seq(Nat)]
    <3>1. CASE UNCHANGED disk
      BY <3>1 DEF TypeOK
    <3>2. CASE disk' = [disk EXCEPT ![out_file_name] = Resize(@, NewFileSize(needed))]
      BY <2>1, <3>2, ResizeType, DiskType
    <3> QED BY <1>11, <3>1, <3>2 DEF EmitThrows
  <2> QED BY <1>11, <2>2 DEF EmitThrows, StartEmission, CallFails, TypeOK, WindowInv
<1>12. ASSUME NEW k \in 1 .. owed, CopyPiece(k) PROVE TypeOK' /\ WindowInv'
  <2>1. k \in Nat /\ owed \in Nat /\ owed - k \in Nat /\ out_file_name # NoFile
    BY <1>12 DEF CopyPiece, TypeOK, WindowInv
  <2>2. disk' \in [Files -> Seq(Nat)]
    BY <1>12, <2>1, CopyType DEF CopyPiece
  <2> QED BY <1>12, <2>1, <2>2 DEF CopyPiece, TypeOK, WindowInv
<1>13. CASE Destroy
  <2>1. out_file_name \in Files /\ disk[out_file_name] \in Seq(Nat) /\ EndOfText \in Nat
    BY <1>13 DEF Destroy, TypeOK, EndOfText
  <2>2. disk' \in [Files -> Seq(Nat)] /\ failures' \in Nat
    <3>1. CASE disk' = [disk EXCEPT ![out_file_name] = Resize(@, EndOfText)] /\ UNCHANGED failures
      BY <2>1, <3>1, ResizeType, DiskType DEF TypeOK
    <3>2. CASE CallFails /\ UNCHANGED disk
      BY <3>2 DEF TypeOK, CallFails
    <3> QED BY <1>13, <3>1, <3>2 DEF Destroy
  <2> QED BY <1>13, <2>2 DEF Destroy, NothingMapped, TypeOK, WindowInv
<1>14. CASE Crash
  <2>1. opening' \in [Openers -> Openings]
    BY <1>14, IdleType DEF Crash
  <2> QED BY <1>14, <2>1 DEF Crash, NothingMapped, TypeOK, WindowInv
<1>15. CASE UNCHANGED vars
  BY <1>15 DEF vars, TypeOK, WindowInv
<1>16. \A d \in {FALSE, MayTruncate} : d \in BOOLEAN
  BY MMapAssumption
<1> QED BY <1>1, <1>2, <1>3, <1>4, <1>5, <1>6, <1>7, <1>8, <1>9, <1>10, <1>11, <1>12, <1>13,
           <1>14, <1>15, <1>16 DEF Next, Open, Emit

-----------------------------------------------------------------------------
(* The window and the files.                                               *)

\* The parts of the invariant that say where the windows are.
Windows ==
  /\ Apart
  /\ InUseExists
  /\ PreparedBacked
  /\ WritesStayInside

LEMMA WindowsInit == Init => Windows
BY DEF Init, Idle, Windows, Apart, InUseExists, PreparedBacked, WritesStayInside, InMapping,
       MappingBacked

\* A file that an opener prepares is not in use, and its window lies in it.
LEMMA PreparedWindows ==
  ASSUME TypeOK, Windows, ~MayReopen, NEW o \in Openers, NEW f \in Files,
         NEW size \in Nat, NEW offset \in Nat, NEW write \in Nat, NEW created \in BOOLEAN,
         StartOpen(o, f), Prepared(o, f, size, offset, write, created),
         offset + size <= Len(disk'[f]),
         \A g \in Files \ {f} : disk'[g] = disk[g],
         exists \subseteq exists', f \in exists',
         UNCHANGED <<member_vars, owed>>
  PROVE  Windows'
<1> USE DEF member_vars
<1>1. /\ f # out_file_name /\ f # NoFile
      /\ \A p \in Openers : opening[p].file # f
  BY MMapAssumption DEF StartOpen
<1>2. /\ opening'[o].file = f /\ opening'[o].size = size /\ opening'[o].offset = offset
      /\ \A p \in Openers \ {o} : opening'[p] = opening[p]
  BY DEF Prepared, TypeOK
<1>3. \A p \in Openers : opening[p].file \in Files \union {NoFile}
  BY DEF TypeOK, Openings
<1>4. Apart'
  BY <1>1, <1>2 DEF Windows, Apart
<1>5. InUseExists'
  BY <1>2 DEF Windows, InUseExists
<1>6. PreparedBacked'
  BY <1>1, <1>2, <1>3 DEF Windows, PreparedBacked
<1>7. WritesStayInside'
  BY <1>1 DEF TypeOK, Windows, WritesStayInside, InMapping, MappingBacked
<1> QED BY <1>4, <1>5, <1>6, <1>7 DEF Windows

\* An emission changes the mapped file only, and does not cut what a window maps.
LEMMA MappedFileWindows ==
  ASSUME TypeOK, Windows, out_file_name # NoFile,
         \A g \in Files \ {out_file_name} : disk'[g] = disk[g],
         UNCHANGED <<exists, out_file_name, opening>>, WritesStayInside'
  PROVE  Windows'
<1>1. \A p \in Openers : opening[p].file \in Files \union {NoFile}
  BY DEF TypeOK, Openings
<1> QED BY <1>1 DEF Windows, Apart, InUseExists, PreparedBacked

LEMMA OpenWindows ==
  ASSUME TypeOK, WindowInv, Windows, ~MayReopen, NEW o \in Openers, NEW f \in Files, Open(o, f)
  PROVE  Windows'
<1> USE DEF file_vars, member_vars, count_vars
<1>0. Chunk \in Nat \ {0} /\ Page \in Nat \ {0}
  BY ChunkBounds, MMapAssumption
<1>1. disk[f] \in Seq(Nat) /\ Len(disk[f]) \in Nat
  BY DEF TypeOK
<1>2. CASE OpenNew(o, f)
  <2>1. StartOpen(o, f) /\ Prepared(o, f, Chunk, 0, 0, TRUE)
    BY <1>2 DEF OpenNew
  <2>2. disk'[f] = Resize(<< >>, Chunk) /\ \A g \in Files \ {f} : disk'[g] = disk[g]
    BY <1>2 DEF OpenNew, TypeOK
  <2>3. 0 + Chunk <= Len(disk'[f])
    <3>1. << >> \in Seq(Nat) /\ Chunk \in Nat
      BY <1>0
    <3>2. Len(disk'[f]) = Chunk
      BY <2>2, <3>1, ResizeType
    <3> QED BY <3>1, <3>2
  <2>4. exists \subseteq exists' /\ f \in exists' /\ UNCHANGED <<member_vars, owed>>
    BY <1>2 DEF OpenNew
  <2>5. Chunk \in Nat /\ 0 \in Nat /\ TRUE \in BOOLEAN
    BY <1>0
  <2> QED BY <2>1, <2>2, <2>3, <2>4, <2>5, PreparedWindows
<1>3. CASE OpenNewFails(o, f)
  BY <1>3 DEF OpenNewFails, Windows, Apart, InUseExists, PreparedBacked, WritesStayInside,
              InMapping, MappingBacked
<1>4. ASSUME NEW d \in {FALSE, MayTruncate}, OpenEmpty(o, f, d) PROVE Windows'
  <2>1. f # out_file_name /\ \A p \in Openers : opening[p].file # f
    BY <1>4 DEF OpenEmpty, StartOpen
  <2>2. \A g \in Files \ {f} : disk'[g] = disk[g]
    BY <1>4 DEF OpenEmpty, TypeOK
  <2>3. \A p \in Openers : opening[p].file \in Files \union {NoFile}
    BY DEF TypeOK, Openings
  <2>4. \A p \in Openers : opening[p].file # NoFile => disk'[opening[p].file] = disk[opening[p].file]
    BY <2>1, <2>2, <2>3
  <2>5. out_file_name # NoFile => disk'[out_file_name] = disk[out_file_name]
    BY <2>1, <2>2 DEF TypeOK
  <2>6. UNCHANGED <<exists, member_vars, owed, opening>>
    BY <1>4 DEF OpenEmpty
  <2>7. Apart' /\ InUseExists' /\ PreparedBacked'
    BY <2>4, <2>6 DEF Windows, Apart, InUseExists, PreparedBacked
  <2>8. WritesStayInside'
    BY <2>5, <2>6 DEF Windows, WritesStayInside, InMapping, MappingBacked
  <2> QED BY <2>7, <2>8 DEF Windows
<1>5. CASE OpenFull(o, f)
  <2> DEFINE n == Len(disk[f])
  <2>1. StartOpen(o, f) /\ Prepared(o, f, Chunk, n, 0, FALSE)
    BY <1>5 DEF OpenFull
  <2>2. disk'[f] = Resize(disk[f], n + Chunk) /\ \A g \in Files \ {f} : disk'[g] = disk[g]
    BY <1>5 DEF OpenFull, TypeOK
  <2>3. n + Chunk <= Len(disk'[f])
    BY <1>0, <1>1, <2>2, ResizeType
  <2>4. exists \subseteq exists' /\ f \in exists' /\ UNCHANGED <<member_vars, owed>>
    BY <1>5 DEF OpenFull
  <2>5. Chunk \in Nat /\ n \in Nat /\ 0 \in Nat /\ FALSE \in BOOLEAN
    BY <1>0, <1>1
  <2> HIDE DEF n
  <2> QED BY <2>1, <2>2, <2>3, <2>4, <2>5, PreparedWindows
<1>6. CASE OpenPadded(o, f)
  <2> DEFINE n == Len(disk[f])
             size == Least(n, Chunk)
  <2>1. size \in Nat /\ n - size \in Nat /\ n - size + size = n
    <3> HIDE DEF n
    <3>1. n \in Nat
      BY <1>1 DEF n
    <3> QED BY <1>0, <3>1 DEF Least
  <2>2. PICK w \in 0 .. size : Prepared(o, f, size, n - size, w, FALSE)
    BY <1>6 DEF OpenPadded
  <2>3. StartOpen(o, f) /\ UNCHANGED <<disk, exists, member_vars, owed>> /\ f \in exists
    BY <1>6 DEF OpenPadded
  <2>4. n - size + size <= Len(disk'[f])
    BY <1>1, <2>1, <2>3
  <2>5. w \in Nat /\ FALSE \in BOOLEAN
    BY <2>1
  <2>6. \A g \in Files \ {f} : disk'[g] = disk[g]
    BY <2>3
  <2>7. exists \subseteq exists' /\ f \in exists' /\ UNCHANGED <<member_vars, owed>>
    BY <2>3
  <2> HIDE DEF n, size
  <2> QED BY <2>1, <2>2, <2>3, <2>4, <2>5, <2>6, <2>7, PreparedWindows
<1>7. CASE OpenTrimmed(o, f)
  <2> DEFINE n == GranularRoundUp(Len(disk[f]), Chunk)
  <2>1. n \in Nat /\ Len(disk[f]) <= n /\ Len(disk[f]) \in Nat
    BY <1>0, <1>1, RoundUpBounds
  <2>2. Chunk <= n
    BY <1>0, <1>1, RoundUpBounds
  <2>3. PICK w \in 0 .. Chunk : Prepared(o, f, Chunk, n - Chunk, w, FALSE)
    BY <1>7 DEF OpenTrimmed
  <2>4. StartOpen(o, f) /\ UNCHANGED <<exists, member_vars, owed>> /\ f \in exists
    BY <1>7 DEF OpenTrimmed
  <2>5. disk'[f] = Resize(disk[f], n) /\ \A g \in Files \ {f} : disk'[g] = disk[g]
    BY <1>7 DEF OpenTrimmed, TypeOK
  <2> HIDE DEF n
  <2>6. n - Chunk \in Nat /\ Chunk \in Nat /\ w \in Nat /\ FALSE \in BOOLEAN
    BY <1>0, <2>1, <2>2
  <2>7. n - Chunk + Chunk <= Len(disk'[f])
    BY <1>0, <1>1, <2>1, <2>5, ResizeType
  <2>8. exists \subseteq exists' /\ f \in exists' /\ UNCHANGED <<member_vars, owed>>
    BY <2>4
  <2> QED BY <2>3, <2>4, <2>5, <2>6, <2>7, <2>8, PreparedWindows
<1> QED BY <1>2, <1>3, <1>4, <1>5, <1>6, <1>7 DEF Open

LEMMA EmitWindows ==
  ASSUME TypeOK, WindowInv, Windows, NEW needed \in Lengths, Emit(needed)
  PROVE  Windows'
<1> USE DEF file_vars, member_vars, count_vars
<1>0. /\ needed \in Nat \ {0} /\ UIntLimit \in Nat
      /\ mapping_size \in Nat /\ write_offset \in Nat /\ mapping_offset \in Nat
      /\ region_size \in Nat /\ mapping_size = region_size
  BY MMapAssumption DEF TypeOK, WindowInv
<1>1. out_file_name # NoFile /\ out_file_name \in Files /\ disk[out_file_name] \in Seq(Nat)
  BY DEF Emit, EmitHere, EmitInNewWindow, EmitThrows, StartEmission, TypeOK
<1>2. owed = 0 /\ UNCHANGED <<exists, out_file_name, opening>>
  BY DEF Emit, EmitHere, EmitInNewWindow, EmitThrows, StartEmission
<1>3. \A g \in Files \ {out_file_name} : disk'[g] = disk[g]
  BY <1>1 DEF Emit, EmitHere, EmitInNewWindow, EmitThrows, TypeOK
<1>4. CASE EmitHere(needed)
  <2>1. write_offset + needed <= mapping_size
    BY <1>0, <1>4 DEF EmitHere, Enough
  <2> QED BY <1>0, <1>1, <1>2, <1>3, <1>4, <2>1, MappedFileWindows
          DEF EmitHere, Windows, WritesStayInside, InMapping, MappingBacked
<1>5. CASE EmitInNewWindow(needed)
  <2> DEFINE file_size == NewFileSize(needed)
  <2>1. /\ NewSize(needed) \in Nat /\ NewSize(needed) < UIntLimit
        /\ NewOffset \in Nat /\ file_size \in Nat
        /\ mapping_offset + write_offset - NewOffset + needed <= NewSize(needed)
    BY NewWindow
  <2>2. disk'[out_file_name] = Resize(disk[out_file_name], file_size)
    BY <1>1, <1>5 DEF EmitInNewWindow, TypeOK
  <2>3. file_size = NewOffset + NewSize(needed)
    BY DEF NewFileSize
  <2>4. Len(disk'[out_file_name]) = file_size
    <3> HIDE DEF file_size
    <3> QED BY <1>1, <2>1, <2>2, ResizeType
  <2>5. NewSize(needed) % UIntLimit = NewSize(needed)
    BY <1>0, <2>1
  <2>6. InMapping'
    BY <1>5, <2>1, <2>5 DEF EmitInNewWindow, InMapping
  <2>7. MappingBacked'
    BY <1>2, <1>5, <2>1, <2>3, <2>4 DEF EmitInNewWindow, MappingBacked
  <2> QED BY <1>1, <1>2, <1>3, <2>6, <2>7, MappedFileWindows DEF WritesStayInside
<1>6. CASE EmitThrows(needed)
  <2> DEFINE file_size == NewFileSize(needed)
  <2>1. file_size \in Nat /\ mapping_offset + region_size <= file_size
    BY <1>6, NewWindow DEF EmitThrows
  <2>2. mapping_offset + region_size <= Len(disk[out_file_name])
    BY <1>1 DEF Windows, WritesStayInside, MappingBacked
  <2>3. mapping_offset + region_size <= Len(disk'[out_file_name])
    <3>1. CASE UNCHANGED disk
      BY <2>2, <3>1, <1>2
    <3>2. CASE disk' = [disk EXCEPT ![out_file_name] = Resize(@, file_size)]
      <4>1. disk'[out_file_name] = Resize(disk[out_file_name], file_size)
        BY <1>1, <3>2 DEF TypeOK
      <4> HIDE DEF file_size
      <4> QED BY <1>1, <2>1, <4>1, ResizeType
    <3> QED BY <1>6, <3>1, <3>2 DEF EmitThrows
  <2>4. UNCHANGED <<member_vars, owed>>
    BY <1>6 DEF EmitThrows
  <2>5. WritesStayInside'
    BY <1>2, <2>3, <2>4 DEF WritesStayInside, InMapping, MappingBacked
  <2> QED BY <1>1, <1>2, <1>3, <2>5, MappedFileWindows
<1> QED BY <1>4, <1>5, <1>6 DEF Emit

LEMMA CopyWindows ==
  ASSUME TypeOK, WindowInv, Windows, NEW k \in 1 .. owed, CopyPiece(k)
  PROVE  Windows'
<1> USE DEF file_vars, member_vars, count_vars
<1>1. /\ out_file_name # NoFile /\ out_file_name \in Files
      /\ k \in Nat /\ owed \in Nat /\ k <= owed /\ owed > 0
      /\ write_offset \in Nat /\ mapping_size \in Nat
  BY DEF CopyPiece, TypeOK, WindowInv
<1>2. Len(disk'[out_file_name]) = Len(disk[out_file_name])
  BY <1>1, CopyType DEF CopyPiece
<1>3. \A g \in Files \ {out_file_name} : disk'[g] = disk[g]
  BY DEF CopyPiece, Copy, TypeOK
<1>4. UNCHANGED <<exists, out_file_name, opening, region_size, mapping_size, mapping_offset>>
  BY DEF CopyPiece
<1>5. write_offset + owed <= region_size /\ write_offset + owed <= mapping_size
  BY <1>1 DEF Windows, WritesStayInside, InMapping
<1>6. owed' = owed - k /\ write_offset' = write_offset + k
  BY <1>1, <1>5 DEF CopyPiece, Fits
<1>7. InMapping'
  BY <1>1, <1>4, <1>5, <1>6 DEF InMapping
<1>8. MappingBacked'
  BY <1>2, <1>4 DEF Windows, WritesStayInside, MappingBacked
<1> QED BY <1>1, <1>3, <1>4, <1>7, <1>8, MappedFileWindows DEF WritesStayInside

\* A prepared window is dropped, and with it the file if it is new, or it replaces the old one.
LEMMA FinishWindows ==
  ASSUME TypeOK, WindowInv, Windows, NEW o \in Openers, OpenFails(o) \/ OpenSwap(o)
  PROVE  Windows'
<1> USE DEF file_vars, member_vars, count_vars
<1> DEFINE f == opening[o].file
<1>1. /\ f \in Files /\ f # NoFile /\ f # out_file_name
      /\ \A p \in Openers \ {o} : opening[p].file # f
      /\ \A p \in Openers : opening[p].file \in Files \union {NoFile}
      /\ opening[o].size \in Nat /\ opening[o].offset \in Nat
  BY DEF OpenFails, OpenSwap, Windows, Apart, TypeOK, Openings
<1>2. opening'[o].file = NoFile /\ \A p \in Openers \ {o} : opening'[p] = opening[p]
  BY DEF OpenFails, OpenSwap, Idle, TypeOK
<1>3. CASE OpenFails(o)
  <2>1. \A g \in Files \ {f} : disk'[g] = disk[g] /\ (g \in exists' <=> g \in exists)
    BY <1>3 DEF OpenFails, TypeOK
  <2>2. UNCHANGED <<member_vars, owed>>
    BY <1>3 DEF OpenFails
  <2>3. Apart'
    BY <1>2, <2>2 DEF Windows, Apart
  <2>4. /\ out_file_name' = out_file_name /\ out_file_name \in Files \union {NoFile}
        /\ \A p \in Openers : opening'[p].file # NoFile =>
             p # o /\ opening'[p] = opening[p] /\ opening[p].file \in Files \ {f}
    BY <1>1, <1>2, <2>2 DEF TypeOK
  <2> HIDE DEF f
  <2>6. InUseExists'
    BY <1>1, <2>1, <2>4 DEF Windows, InUseExists
  <2>7. PreparedBacked'
    BY <2>1, <2>4 DEF Windows, PreparedBacked
  <2>5. WritesStayInside'
    BY <1>1, <2>1, <2>2 DEF Windows, WritesStayInside, InMapping, MappingBacked, TypeOK
  <2> QED BY <2>3, <2>5, <2>6, <2>7 DEF Windows
<1>4. CASE OpenSwap(o)
  <2>1. /\ out_file_name' = f /\ region_size' = opening[o].size
        /\ mapping_offset' = opening[o].offset /\ owed' = 0
        /\ UNCHANGED <<disk, exists>>
    BY <1>4 DEF OpenSwap
  <2>2. Apart'
    BY <1>1, <1>2, <2>1 DEF Windows, Apart
  <2>3. InUseExists' /\ PreparedBacked'
    BY <1>1, <1>2, <2>1 DEF Windows, InUseExists, PreparedBacked
  <2>4. WritesStayInside'
    BY <1>1, <2>1 DEF Windows, PreparedBacked, WritesStayInside, InMapping, MappingBacked
  <2> QED BY <2>2, <2>3, <2>4 DEF Windows
<1> QED BY <1>3, <1>4

LEMMA WindowsStep ==
  ASSUME ~MayReopen, TypeOK, WindowInv, Windows, [Next]_vars
  PROVE  Windows'
<1> USE DEF file_vars, member_vars, count_vars
<1>1. ASSUME Destroy PROVE Windows'
  BY <1>1 DEF Destroy, NothingMapped, Idle, Windows, Apart, InUseExists, PreparedBacked,
              WritesStayInside, InMapping, MappingBacked
<1>2. ASSUME Crash PROVE Windows'
  BY <1>2 DEF Crash, NothingMapped, Idle, Windows, Apart, InUseExists, PreparedBacked,
              WritesStayInside, InMapping, MappingBacked
<1>3. ASSUME UNCHANGED vars PROVE Windows'
  BY <1>3 DEF vars, Windows, Apart, InUseExists, PreparedBacked, WritesStayInside, InMapping,
              MappingBacked
<1> QED BY <1>1, <1>2, <1>3, OpenWindows, EmitWindows, CopyWindows, FinishWindows DEF Next

-----------------------------------------------------------------------------
(* The text.                                                               *)

\* The bytes s have no text after the first n.
TextBefore(s, n) == \A i \in 1 .. Len(s) : i > n => s[i] = 0

\* The text of a mapped file ends where the next byte goes; so does that of a file which is
\* prepared; a file that an opener created is empty, and one that does not exist has no bytes.
TextEnds ==
  /\ out_file_name # NoFile => TextBefore(disk[out_file_name], mapping_offset + write_offset)
  /\ \A o \in Openers : opening[o].file # NoFile =>
       /\ TextBefore(disk[opening[o].file], opening[o].offset + opening[o].write)
       /\ opening[o].created => opening[o].offset = 0 /\ opening[o].write = 0
  /\ \A f \in Files \ exists : disk[f] = << >>

\* The text of the bytes s is in the bytes t, at the same place.
Keeps(s, t) == \A i \in 1 .. Len(s) : s[i] # 0 =>
  /\ i <= Len(t)
  /\ \A j \in 1 .. i : t[j] = s[j]

LEMMA ResizeKeeps ==
  ASSUME NEW s \in Seq(Nat), NEW n \in Nat, NEW m \in Nat, TextBefore(s, n), n <= m
  PROVE  Keeps(s, Resize(s, m)) /\ TextBefore(Resize(s, m), n)
<1>1. Len(s) \in Nat
  OBVIOUS
<1>2. Len(Resize(s, m)) = m /\ \A i \in 1 .. m : Resize(s, m)[i] = IF i <= Len(s) THEN s[i] ELSE 0
  BY ResizeType
<1>3. TextBefore(Resize(s, m), n)
  BY <1>1, <1>2 DEF TextBefore
<1>4. ASSUME NEW i \in 1 .. Len(s), s[i] # 0
      PROVE  i <= Len(Resize(s, m)) /\ \A j \in 1 .. i : Resize(s, m)[j] = s[j]
  <2>1. i <= n
    BY <1>1, <1>4 DEF TextBefore
  <2> QED BY <1>1, <1>2, <2>1
<1> QED BY <1>3, <1>4 DEF Keeps

LEMMA AllKept == (\A f \in Files : Keeps(disk[f], disk'[f])) => TextKept
BY DEF Keeps, TextKept

LEMMA SameKept == \A s \in Seq(Nat) : Keeps(s, s)
BY DEF Keeps

LEMMA TextInit == Init => TextEnds
<1> SUFFICES ASSUME Init PROVE TextEnds
  OBVIOUS
<1> QED BY DEF Init, Idle, TextEnds

\* The other files, and the windows in them, are as they were.
LEMMA PreparedText ==
  ASSUME TypeOK, TextEnds, ~MayReopen, NEW o \in Openers, NEW f \in Files,
         NEW size \in Nat, NEW offset \in Nat, NEW write \in Nat, NEW created \in BOOLEAN,
         StartOpen(o, f), Prepared(o, f, size, offset, write, created),
         TextBefore(disk'[f], offset + write), created => offset = 0 /\ write = 0,
         Keeps(disk[f], disk'[f]), \A g \in Files \ {f} : disk'[g] = disk[g],
         exists \subseteq exists', f \in exists',
         UNCHANGED <<member_vars, owed>>
  PROVE  TextEnds' /\ TextKept
<1> USE DEF member_vars
<1>1. /\ f # out_file_name /\ f # NoFile
      /\ \A p \in Openers : opening[p].file # f
  BY MMapAssumption DEF StartOpen
<1>2. /\ opening'[o].file = f /\ opening'[o].offset = offset
      /\ opening'[o].write = write /\ opening'[o].created = created
      /\ \A p \in Openers \ {o} : opening'[p] = opening[p]
  BY DEF Prepared, TypeOK
<1>3. \A p \in Openers : opening[p].file \in Files \union {NoFile}
  BY DEF TypeOK, Openings
<1>4. out_file_name' # NoFile => TextBefore(disk'[out_file_name'], mapping_offset' + write_offset')
  BY <1>1 DEF TextEnds, TypeOK
<1>5. ASSUME NEW p \in Openers, opening'[p].file # NoFile
      PROVE  /\ TextBefore(disk'[opening'[p].file], opening'[p].offset + opening'[p].write)
             /\ opening'[p].created => opening'[p].offset = 0 /\ opening'[p].write = 0
  <2>1. CASE p = o
    BY <1>2, <2>1
  <2>2. CASE p # o
    BY <1>1, <1>2, <1>3, <1>5, <2>2 DEF TextEnds
  <2> QED BY <2>1, <2>2
<1>6. \A g \in Files \ exists' : disk'[g] = << >>
  BY DEF TextEnds
<1>7. TextKept
  <2>1. \A g \in Files : disk[g] \in Seq(Nat)
    BY DEF TypeOK
  <2> QED BY <2>1, AllKept, SameKept
<1> QED BY <1>4, <1>5, <1>6, <1>7 DEF TextEnds

LEMMA OpenText ==
  ASSUME TypeOK, WindowInv, TextEnds, ~MayReopen, NEW o \in Openers, NEW f \in Files, Open(o, f)
  PROVE  TextEnds' /\ (TextKept \/ OpenEmpty(o, f, TRUE))
<1> USE DEF file_vars, member_vars, count_vars
<1>0. Chunk \in Nat \ {0} /\ Page \in Nat \ {0}
  BY ChunkBounds, MMapAssumption
<1>1. disk[f] \in Seq(Nat) /\ Len(disk[f]) \in Nat /\ \A g \in Files : disk[g] \in Seq(Nat)
  BY DEF TypeOK
<1>2. CASE OpenNew(o, f)
  <2>1. StartOpen(o, f) /\ Prepared(o, f, Chunk, 0, 0, TRUE)
    BY <1>2 DEF OpenNew
  <2>2. disk'[f] = Resize(<< >>, Chunk) /\ \A g \in Files \ {f} : disk'[g] = disk[g]
    BY <1>2 DEF OpenNew, TypeOK
  <2>3. << >> \in Seq(Nat) /\ Chunk \in Nat /\ 0 \in Nat /\ TRUE \in BOOLEAN /\ 0 <= Chunk /\ 0 + 0 = 0
    BY <1>0
  <2>4. disk[f] = << >>
    BY <1>2 DEF OpenNew, TextEnds
  <2>5. TextBefore(<< >>, 0)
    BY DEF TextBefore
  <2>6. Keeps(disk[f], disk'[f]) /\ TextBefore(disk'[f], 0 + 0)
    BY <2>2, <2>3, <2>4, <2>5, ResizeKeeps
  <2>7. exists \subseteq exists' /\ f \in exists' /\ UNCHANGED <<member_vars, owed>>
    BY <1>2 DEF OpenNew
  <2> QED BY <2>1, <2>2, <2>3, <2>6, <2>7, PreparedText
<1>3. CASE OpenNewFails(o, f)
  <2>1. UNCHANGED <<disk, member_vars, opening>> /\ exists \subseteq exists'
    BY <1>3 DEF OpenNewFails
  <2>2. TextKept
    BY <1>1, <2>1, AllKept, SameKept
  <2>3. TextEnds'
    BY <2>1 DEF TextEnds
  <2> QED BY <2>2, <2>3
<1>4. ASSUME NEW d \in {FALSE, MayTruncate}, OpenEmpty(o, f, d)
      PROVE  TextEnds' /\ (TextKept \/ OpenEmpty(o, f, TRUE))
  <2>1. f # out_file_name /\ \A p \in Openers : opening[p].file # f
    BY <1>4 DEF OpenEmpty, StartOpen
  <2>2. disk'[f] = << >> /\ \A g \in Files \ {f} : disk'[g] = disk[g]
    BY <1>4 DEF OpenEmpty, TypeOK
  <2>3. \A p \in Openers : opening[p].file \in Files \union {NoFile}
    BY DEF TypeOK, Openings
  <2>4. \A p \in Openers : opening[p].file # NoFile => disk'[opening[p].file] = disk[opening[p].file]
    BY <2>1, <2>2, <2>3
  <2>5. out_file_name # NoFile => disk'[out_file_name] = disk[out_file_name]
    BY <2>1, <2>2 DEF TypeOK
  <2>6. UNCHANGED <<exists, member_vars, owed, opening>>
    BY <1>4 DEF OpenEmpty
  <2>7. TextEnds'
    BY <2>2, <2>4, <2>5, <2>6 DEF TextEnds
  <2>8. CASE d = TRUE
    BY <1>4, <2>7, <2>8
  <2>9. CASE d = FALSE
    <3>1. disk[f] = << >>
      BY <1>4, <2>9 DEF OpenEmpty
    <3>2. \A g \in Files : disk'[g] = disk[g]
      BY <2>2, <3>1
    <3> QED BY <1>1, <2>7, <3>2, AllKept, SameKept
  <2> QED BY <2>8, <2>9, MMapAssumption
<1>5. CASE OpenFull(o, f)
  <2> DEFINE n == Len(disk[f])
  <2>1. StartOpen(o, f) /\ Prepared(o, f, Chunk, n, 0, FALSE)
    BY <1>5 DEF OpenFull
  <2>2. disk'[f] = Resize(disk[f], n + Chunk) /\ \A g \in Files \ {f} : disk'[g] = disk[g]
    BY <1>5 DEF OpenFull, TypeOK
  <2>3. n \in Nat /\ Chunk \in Nat /\ n + Chunk \in Nat /\ n <= n + Chunk /\ n + 0 = n /\ 0 \in Nat
        /\ FALSE \in BOOLEAN
    BY <1>0, <1>1
  <2>4. TextBefore(disk[f], n)
    BY <1>1 DEF TextBefore
  <2>5. exists \subseteq exists' /\ f \in exists' /\ UNCHANGED <<member_vars, owed>>
    BY <1>5 DEF OpenFull
  <2> HIDE DEF n
  <2>6. Keeps(disk[f], disk'[f]) /\ TextBefore(disk'[f], n + 0)
    BY <1>1, <2>2, <2>3, <2>4, ResizeKeeps
  <2> QED BY <2>1, <2>2, <2>3, <2>5, <2>6, PreparedText
<1>6. CASE OpenPadded(o, f)
  <2> DEFINE n == Len(disk[f])
             size == Least(n, Chunk)
  <2>1. n \in Nat /\ size \in Nat /\ n - size \in Nat /\ FALSE \in BOOLEAN
    <3> HIDE DEF n
    <3>1. n \in Nat
      BY <1>1 DEF n
    <3> QED BY <1>0, <3>1 DEF Least
  <2>2. PICK w \in 0 .. size : TextEndsAt(disk[f], n - size, size, w)
                               /\ Prepared(o, f, size, n - size, w, FALSE)
    BY <1>6 DEF OpenPadded
  <2>3. StartOpen(o, f) /\ UNCHANGED <<disk, exists, member_vars, owed>> /\ f \in exists
    BY <1>6 DEF OpenPadded
  <2>4. w \in Nat
    BY <2>1
  <2>5. TextBefore(disk[f], n - size + w)
    <3> SUFFICES ASSUME NEW i \in 1 .. n, i > n - size + w PROVE disk[f][i] = 0
      BY DEF TextBefore
    <3> HIDE DEF n, size
    <3>1. i - (n - size) \in w + 1 .. size /\ n - size + (i - (n - size)) = i
      BY <2>1, <2>4
    <3> QED BY <2>2, <3>1 DEF TextEndsAt
  <2>6. /\ \A g \in Files \ {f} : disk'[g] = disk[g]
        /\ exists \subseteq exists' /\ f \in exists' /\ UNCHANGED <<member_vars, owed>>
        /\ Keeps(disk[f], disk'[f]) /\ TextBefore(disk'[f], n - size + w)
    BY <1>1, <2>3, <2>5, SameKept
  <2> HIDE DEF n, size
  <2> QED BY <2>1, <2>2, <2>3, <2>4, <2>6, PreparedText
<1>7. CASE OpenTrimmed(o, f)
  <2> DEFINE n == GranularRoundUp(Len(disk[f]), Chunk)
  <2>1. n \in Nat /\ Len(disk[f]) <= n /\ Chunk <= n /\ FALSE \in BOOLEAN /\ Chunk \in Nat
    BY <1>0, <1>1, RoundUpBounds
  <2>2. PICK w \in 0 .. Chunk : TextEndsAt(disk'[f], n - Chunk, Chunk, w)
                                /\ Prepared(o, f, Chunk, n - Chunk, w, FALSE)
    BY <1>7 DEF OpenTrimmed
  <2>3. StartOpen(o, f) /\ UNCHANGED <<exists, member_vars, owed>> /\ f \in exists
    BY <1>7 DEF OpenTrimmed
  <2>4. disk'[f] = Resize(disk[f], n) /\ \A g \in Files \ {f} : disk'[g] = disk[g]
    BY <1>7 DEF OpenTrimmed, TypeOK
  <2> HIDE DEF n
  <2>5. n - Chunk \in Nat /\ w \in Nat
    BY <2>1
  <2>6. TextBefore(disk[f], Len(disk[f]))
    BY <1>1 DEF TextBefore
  <2>7. Keeps(disk[f], disk'[f])
    BY <1>1, <2>1, <2>4, <2>6, ResizeKeeps
  <2>8. Len(disk'[f]) = n
    BY <1>1, <2>1, <2>4, ResizeType
  <2>9. TextBefore(disk'[f], n - Chunk + w)
    <3> SUFFICES ASSUME NEW i \in 1 .. n, i > n - Chunk + w PROVE disk'[f][i] = 0
      BY <2>8 DEF TextBefore
    <3>1. i - (n - Chunk) \in w + 1 .. Chunk /\ n - Chunk + (i - (n - Chunk)) = i
      BY <2>1, <2>5
    <3> QED BY <2>2, <3>1 DEF TextEndsAt
  <2>10. exists \subseteq exists' /\ f \in exists' /\ UNCHANGED <<member_vars, owed>>
    BY <2>3
  <2> QED BY <2>1, <2>2, <2>3, <2>4, <2>5, <2>7, <2>9, <2>10, PreparedText
<1> QED BY <1>2, <1>3, <1>4, <1>5, <1>6, <1>7 DEF Open

\* A step that changes the bytes of the mapped file only.
LEMMA MappedFileText ==
  ASSUME TypeOK, Windows, TextEnds, out_file_name # NoFile,
         \A g \in Files \ {out_file_name} : disk'[g] = disk[g],
         UNCHANGED <<exists, out_file_name, opening>>,
         Keeps(disk[out_file_name], disk'[out_file_name]),
         TextBefore(disk'[out_file_name], mapping_offset' + write_offset')
  PROVE  TextEnds' /\ TextKept
<1>1. \A p \in Openers : opening[p].file # NoFile => opening[p].file \in Files \ {out_file_name}
  BY DEF TypeOK, Openings, Windows, Apart
<1>2. out_file_name \in exists
  BY DEF Windows, InUseExists
<1>3. TextEnds'
  BY <1>1, <1>2 DEF TextEnds
<1>4. \A g \in Files : disk[g] \in Seq(Nat)
  BY DEF TypeOK
<1>5. TextKept
  BY <1>4, AllKept, SameKept
<1> QED BY <1>3, <1>5

LEMMA EmitText ==
  ASSUME TypeOK, WindowInv, Windows, TextEnds, NEW needed \in Lengths, Emit(needed)
  PROVE  TextEnds' /\ TextKept
<1> USE DEF file_vars, member_vars, count_vars
<1> DEFINE file_size == NewFileSize(needed)
           at == mapping_offset + write_offset
<1>1. /\ out_file_name # NoFile /\ out_file_name \in Files /\ disk[out_file_name] \in Seq(Nat)
      /\ at \in Nat /\ mapping_offset \in Nat /\ write_offset \in Nat
      /\ needed \in Nat
  BY MMapAssumption DEF Emit, EmitHere, EmitInNewWindow, EmitThrows, StartEmission, TypeOK
<1>2. UNCHANGED <<exists, out_file_name, opening>>
  BY DEF Emit, EmitHere, EmitInNewWindow, EmitThrows, StartEmission
<1>3. \A g \in Files \ {out_file_name} : disk'[g] = disk[g]
  BY <1>1 DEF Emit, EmitHere, EmitInNewWindow, EmitThrows, TypeOK
<1>4. /\ NewOffset \in Nat /\ NewSize(needed) \in Nat /\ file_size \in Nat
      /\ at - NewOffset + needed <= NewSize(needed)
  <2>1. /\ NewOffset \in Nat /\ NewSize(needed) \in Nat /\ NewFileSize(needed) \in Nat
        /\ mapping_offset + write_offset - NewOffset + needed <= NewSize(needed)
    BY NewWindow
  <2> QED BY <1>1, <2>1
<1>5. file_size = NewOffset + NewSize(needed)
  BY DEF NewFileSize
<1>6. TextBefore(disk[out_file_name], at)
  BY <1>1 DEF TextEnds
<1>7. mapping_offset' + write_offset' = at
  <2>1. CASE EmitInNewWindow(needed)
    BY <1>1, <1>4, <2>1 DEF EmitInNewWindow
  <2>2. CASE EmitHere(needed) \/ EmitThrows(needed)
    BY <2>2 DEF EmitHere, EmitThrows
  <2> QED BY <2>1, <2>2 DEF Emit
<1>8. at <= file_size
  <2> HIDE DEF file_size, at
  <2> QED BY <1>1, <1>4, <1>5
<1>9. CASE UNCHANGED disk
  BY <1>1, <1>2, <1>3, <1>6, <1>7, <1>9, SameKept, MappedFileText
<1>10. CASE disk' = [disk EXCEPT ![out_file_name] = Resize(@, file_size)]
  <2>1. disk'[out_file_name] = Resize(disk[out_file_name], file_size)
    BY <1>1, <1>10 DEF TypeOK
  <2> HIDE DEF file_size, at
  <2>2. /\ Keeps(disk[out_file_name], disk'[out_file_name])
        /\ TextBefore(disk'[out_file_name], at)
    BY <1>1, <1>4, <1>6, <1>8, <2>1, ResizeKeeps
  <2> QED BY <1>1, <1>2, <1>3, <1>7, <2>2, MappedFileText
<1> QED BY <1>9, <1>10 DEF Emit, EmitHere, EmitInNewWindow, EmitThrows

LEMMA CopyText ==
  ASSUME TypeOK, WindowInv, Windows, TextEnds, NEW k \in 1 .. owed, CopyPiece(k)
  PROVE  TextEnds' /\ TextKept
<1> USE DEF file_vars, member_vars, count_vars
<1> DEFINE at == mapping_offset + write_offset
           s == disk[out_file_name]
           t == disk'[out_file_name]
<1>1. /\ out_file_name # NoFile /\ out_file_name \in Files /\ s \in Seq(Nat) /\ Len(s) \in Nat
      /\ k \in Nat /\ owed \in Nat /\ k <= owed /\ owed > 0
      /\ write_offset \in Nat /\ mapping_size \in Nat /\ mapping_offset \in Nat /\ at \in Nat
  BY DEF CopyPiece, TypeOK, WindowInv
<1>2. Len(t) = Len(s) /\ \A i \in 1 .. Len(s) : t[i] = IF i \in at + 1 .. at + k THEN emissions ELSE s[i]
  BY <1>1, CopyType DEF CopyPiece
<1>3. \A g \in Files \ {out_file_name} : disk'[g] = disk[g]
  BY DEF CopyPiece, Copy, TypeOK
<1>4. UNCHANGED <<exists, out_file_name, opening, mapping_offset>>
  BY DEF CopyPiece
<1>5. write_offset + owed <= mapping_size
  BY <1>1 DEF Windows, WritesStayInside, InMapping
<1>6. write_offset' = write_offset + k
  BY <1>1, <1>5 DEF CopyPiece, Fits
<1>7. mapping_offset' + write_offset' = at + k
  BY <1>1, <1>4, <1>6
<1>8. TextBefore(s, at)
  BY <1>1 DEF TextEnds
<1> HIDE DEF at, s, t
<1>9. TextBefore(t, at + k)
  BY <1>1, <1>2, <1>8 DEF TextBefore
<1>10. ASSUME NEW i \in 1 .. Len(s), s[i] # 0
       PROVE  i <= Len(t) /\ \A j \in 1 .. i : t[j] = s[j]
  <2>1. i <= at
    BY <1>1, <1>8, <1>10 DEF TextBefore
  <2> QED BY <1>1, <1>2, <2>1
<1>11. Keeps(s, t)
  BY <1>10 DEF Keeps
<1> QED BY <1>1, <1>3, <1>4, <1>7, <1>9, <1>11, MappedFileText DEF s, t

LEMMA FinishText ==
  ASSUME TypeOK, WindowInv, Windows, TextEnds, NEW o \in Openers, OpenFails(o) \/ OpenSwap(o)
  PROVE  TextEnds' /\ TextKept
<1> USE DEF file_vars, member_vars, count_vars
<1> DEFINE f == opening[o].file
<1>1. /\ f \in Files /\ f # NoFile /\ f # out_file_name
      /\ \A p \in Openers \ {o} : opening[p].file # f
      /\ \A p \in Openers : opening[p].file \in Files \union {NoFile}
      /\ \A g \in Files : disk[g] \in Seq(Nat)
  BY DEF OpenFails, OpenSwap, Windows, Apart, TypeOK, Openings
<1>2. opening'[o].file = NoFile /\ \A p \in Openers \ {o} : opening'[p] = opening[p]
  BY DEF OpenFails, OpenSwap, Idle, TypeOK
<1>3. CASE OpenFails(o)
  <2>1. UNCHANGED member_vars
    BY <1>3 DEF OpenFails
  <2>2. CASE opening[o].created
    <3>1. disk'[f] = << >> /\ (\A g \in Files \ {f} : disk'[g] = disk[g]) /\ exists' = exists \ {f}
      BY <1>1, <1>3, <2>2 DEF OpenFails, TypeOK
    <3>2. TextBefore(disk[f], 0)
      BY <1>1, <2>2 DEF TextEnds
    <3>3. Keeps(disk[f], disk'[f])
      BY <1>1, <3>2 DEF TextBefore, Keeps
    <3>4. TextKept
      BY <1>1, <3>1, <3>3, AllKept, SameKept
    <3>5. \A p \in Openers : opening'[p].file # NoFile =>
            p # o /\ opening'[p] = opening[p] /\ opening[p].file \in Files \ {f}
      BY <1>1, <1>2
    <3>6. out_file_name' = out_file_name /\ out_file_name \in Files \union {NoFile}
      BY <2>1 DEF TypeOK
    <3> HIDE DEF f
    <3>7. TextEnds'
      BY <1>1, <2>1, <3>1, <3>5, <3>6 DEF TextEnds
    <3> QED BY <3>4, <3>7
  <2>3. CASE ~opening[o].created
    <3>1. UNCHANGED <<disk, exists>>
      BY <1>3, <2>3 DEF OpenFails
    <3>2. TextKept
      BY <1>1, <3>1, AllKept, SameKept
    <3>3. TextEnds'
      BY <1>2, <2>1, <3>1 DEF TextEnds
    <3> QED BY <3>2, <3>3
  <2> QED BY <2>2, <2>3
<1>4. CASE OpenSwap(o)
  <2>1. /\ out_file_name' = f /\ mapping_offset' = opening[o].offset
        /\ write_offset' = opening[o].write /\ UNCHANGED <<disk, exists>>
    BY <1>4 DEF OpenSwap
  <2>2. TextKept
    BY <1>1, <2>1, AllKept, SameKept
  <2>3. TextEnds'
    BY <1>1, <1>2, <2>1 DEF TextEnds
  <2> QED BY <2>2, <2>3
<1> QED BY <1>3, <1>4

LEMMA EndText ==
  ASSUME TypeOK, Windows, TextEnds, Destroy \/ Crash
  PROVE  TextEnds' /\ TextKept
<1> USE DEF file_vars, member_vars, count_vars
<1>1. out_file_name' = NoFile /\ UNCHANGED exists /\ \A o \in Openers : opening'[o].file = NoFile
  BY DEF Destroy, Crash, NothingMapped, Idle
<1>2. \A g \in Files : disk[g] \in Seq(Nat)
  BY DEF TypeOK
<1>3. CASE UNCHANGED disk
  <2>1. TextKept
    BY <1>2, <1>3, AllKept, SameKept
  <2>2. TextEnds'
    BY <1>1, <1>3 DEF TextEnds
  <2> QED BY <2>1, <2>2
<1>4. CASE Destroy /\ disk' = [disk EXCEPT ![out_file_name] = Resize(@, EndOfText)]
  <2>1. /\ out_file_name \in Files /\ out_file_name # NoFile /\ EndOfText \in Nat
        /\ EndOfText <= EndOfText
    BY <1>4 DEF Destroy, TypeOK, EndOfText
  <2>2. /\ disk'[out_file_name] = Resize(disk[out_file_name], EndOfText)
        /\ \A g \in Files \ {out_file_name} : disk'[g] = disk[g]
    BY <1>4, <2>1 DEF TypeOK
  <2>3. TextBefore(disk[out_file_name], EndOfText)
    BY <2>1 DEF TextEnds, EndOfText
  <2>4. Keeps(disk[out_file_name], disk'[out_file_name])
    BY <1>2, <2>1, <2>2, <2>3, ResizeKeeps
  <2>5. TextKept
    BY <1>2, <2>2, <2>4, AllKept, SameKept
  <2>6. out_file_name \in exists
    BY <2>1 DEF Windows, InUseExists
  <2>7. TextEnds'
    BY <1>1, <2>2, <2>6 DEF TextEnds
  <2> QED BY <2>5, <2>7
<1> QED BY <1>3, <1>4 DEF Destroy, Crash

LEMMA TextStep ==
  ASSUME ~MayReopen, TypeOK, WindowInv, Windows, TextEnds, [Next]_vars
  PROVE  /\ TextEnds'
         /\ [TextKept \/ \E o \in Openers, f \in Files : OpenEmpty(o, f, TRUE)]_vars
<1>1. ASSUME UNCHANGED vars PROVE TextEnds'
  BY <1>1 DEF vars, file_vars, member_vars, TextEnds
<1> QED BY <1>1, OpenText, EmitText, CopyText, FinishText, EndText DEF Next

-----------------------------------------------------------------------------
(* The text is in one piece.                                               *)

\* A line fits, with the page it may begin in, into one chunk.
LinesShort == \A needed \in Lengths : GranularRoundUp(needed, Page) + Page <= Chunk

InPages(n) == \E k \in Nat : n = k * Page

\* The first n of the bytes s are text, the others are NUL, and there are no more of
\* these than a chunk, and none but at the end of a page.
TextIs(s, n) ==
  /\ n <= Len(s)
  /\ \A i \in 1 .. n : s[i] # 0
  /\ TextBefore(s, n)
  /\ Len(s) - n <= Chunk
  /\ InPages(Len(s)) \/ n = Len(s)

Solid ==
  /\ \A f \in Files : \E n \in Nat : TextIs(disk[f], n)
  /\ out_file_name # NoFile => TextIs(disk[out_file_name], mapping_offset + write_offset)
  /\ \A o \in Openers : opening[o].file # NoFile =>
       TextIs(disk[opening[o].file], opening[o].offset + opening[o].write)
  /\ owed > 0 => emissions > 0

LEMMA PageNumber == Page \in Nat \ {0}
BY MMapAssumption

LEMMA PagesMod == ASSUME NEW n \in Nat PROVE InPages(n) <=> n % Page = 0
BY PageNumber, MultipleMod DEF InPages

LEMMA PagesAdd ==
  ASSUME NEW m, NEW n, InPages(m), InPages(n) PROVE InPages(m + n)
<1>1. PICK j \in Nat, k \in Nat : m = j * Page /\ n = k * Page
  BY DEF InPages
<1>2. (j + k) * Page = j * Page + k * Page /\ j + k \in Nat
  BY PageNumber
<1> QED BY <1>1, <1>2 DEF InPages

LEMMA PagesChunk ==
  /\ InPages(Chunk)
  /\ \A d \in Nat : InPages(GranularRoundUp(d, Chunk)) /\ InPages(GranularRoundDown(d, Page))
<1>1. DefaultAllocSize \in Nat /\ Page \in Nat \ {0} /\ Chunk \in Nat \ {0}
  BY ChunkBounds, MMapAssumption
<1>2. PICK m \in Nat : Chunk = m * Page
  BY <1>1, RoundMultiple DEF Chunk
<1>3. ASSUME NEW d \in Nat PROVE InPages(GranularRoundUp(d, Chunk)) /\ InPages(GranularRoundDown(d, Page))
  <2>1. PICK k \in Nat : GranularRoundUp(d, Chunk) = k * Chunk
    BY <1>1, RoundMultiple
  <2>2. k * (m * Page) = (k * m) * Page /\ k * m \in Nat
    BY <1>1
  <2>3. InPages(GranularRoundUp(d, Chunk))
    BY <1>2, <2>1, <2>2 DEF InPages
  <2>4. InPages(GranularRoundDown(d, Page))
    BY <1>1, RoundMultiple DEF InPages
  <2> QED BY <2>3, <2>4
<1> QED BY <1>2, <1>3 DEF InPages

\* A file that is resized to whole pages with at most a chunk after its text.
LEMMA ResizeText ==
  ASSUME NEW s \in Seq(Nat), NEW n \in Nat, TextIs(s, n), NEW m \in Nat, n <= m,
         m - n <= Chunk, InPages(m) \/ n = m
  PROVE  TextIs(Resize(s, m), n)
<1>1. Len(s) \in Nat /\ n <= Len(s)
  BY DEF TextIs
<1>2. Len(Resize(s, m)) = m /\ \A i \in 1 .. m : Resize(s, m)[i] = IF i <= Len(s) THEN s[i] ELSE 0
  BY ResizeType
<1>3. TextBefore(Resize(s, m), n)
  BY ResizeKeeps DEF TextIs
<1>4. \A i \in 1 .. n : Resize(s, m)[i] # 0
  BY <1>1, <1>2 DEF TextIs
<1> QED BY <1>2, <1>3, <1>4 DEF TextIs

\* The loop that backs over the NUL bytes of the last window finds the end of the text.
LEMMA FindsEnd ==
  ASSUME NEW s \in Seq(Nat), NEW n \in Nat, TextIs(s, n), NEW size \in Nat, NEW offset \in Nat,
         offset + size = Len(s), offset <= n, NEW w \in 0 .. size, TextEndsAt(s, offset, size, w)
  PROVE  n = offset + w
<1>1. Len(s) \in Nat /\ n <= Len(s) /\ w \in Nat /\ w <= size
  BY DEF TextIs
<1>2. offset + w <= n
  <2>1. CASE w = 0
    BY <2>1
  <2>2. CASE w > 0
    <3>1. s[offset + w] # 0 /\ offset + w \in 1 .. Len(s)
      BY <1>1, <2>2 DEF TextEndsAt
    <3> QED BY <1>1, <3>1 DEF TextIs, TextBefore
  <2> QED BY <1>1, <2>1, <2>2
<1>3. ~(n > offset + w)
  <2> SUFFICES ASSUME n > offset + w PROVE FALSE
    OBVIOUS
  <2>1. n - offset \in w + 1 .. size /\ offset + (n - offset) = n
    BY <1>1
  <2>2. s[n] = 0
    BY <2>1 DEF TextEndsAt
  <2>3. n \in 1 .. n
    BY <1>1
  <2> QED BY <2>2, <2>3 DEF TextIs
<1> QED BY <1>1, <1>2, <1>3

LEMMA SolidInit == Init => Solid
<1> SUFFICES ASSUME Init PROVE Solid
  OBVIOUS
<1>1. ASSUME NEW f \in Files PROVE \E n \in Nat : TextIs(disk[f], n)
  <2>1. disk[f] \in Seq(Nat \ {0})
    <3>1. disk[f] \in Found \/ disk[f] = << >>
      BY DEF Init
    <3>2. Found \subseteq Seq(Nat \ {0}) /\ << >> \in Seq(Nat \ {0})
      BY MMapAssumption
    <3> QED BY <3>1, <3>2
  <2>2. Len(disk[f]) \in Nat /\ \A i \in 1 .. Len(disk[f]) : disk[f][i] # 0
    BY <2>1
  <2>3. Chunk \in Nat
    BY ChunkBounds
  <2>4. TextIs(disk[f], Len(disk[f]))
    BY <2>2, <2>3 DEF TextIs, TextBefore
  <2> QED BY <2>2, <2>4
<1>2. \A o \in Openers : opening[o].file = NoFile
  BY DEF Init, Idle
<1> QED BY <1>1, <1>2 DEF Init, Solid

LEMMA PreparedSolid ==
  ASSUME TypeOK, Solid, ~MayReopen, NEW o \in Openers, NEW f \in Files,
         NEW size \in Nat, NEW offset \in Nat, NEW write \in Nat, NEW created \in BOOLEAN,
         StartOpen(o, f), Prepared(o, f, size, offset, write, created),
         TextIs(disk'[f], offset + write), \A g \in Files \ {f} : disk'[g] = disk[g],
         UNCHANGED <<member_vars, owed, emissions>>
  PROVE  Solid'
<1> USE DEF member_vars
<1>1. /\ f # out_file_name /\ f # NoFile
      /\ \A p \in Openers : opening[p].file # f
  BY MMapAssumption DEF StartOpen
<1>2. /\ opening'[o].file = f /\ opening'[o].offset = offset /\ opening'[o].write = write
      /\ \A p \in Openers \ {o} : opening'[p] = opening[p]
  BY DEF Prepared, TypeOK
<1>3. \A p \in Openers : opening[p].file \in Files \union {NoFile}
  BY DEF TypeOK, Openings
<1>4. out_file_name' # NoFile => TextIs(disk'[out_file_name'], mapping_offset' + write_offset')
  BY <1>1 DEF Solid, TypeOK
<1>5. ASSUME NEW p \in Openers, opening'[p].file # NoFile
      PROVE  TextIs(disk'[opening'[p].file], opening'[p].offset + opening'[p].write)
  <2>1. CASE p = o
    BY <1>2, <2>1
  <2>2. CASE p # o
    BY <1>1, <1>2, <1>3, <1>5, <2>2 DEF Solid
  <2> QED BY <2>1, <2>2
<1>6. \A g \in Files : \E n \in Nat : TextIs(disk'[g], n)
  <2>1. offset + write \in Nat
    OBVIOUS
  <2> QED BY <2>1 DEF Solid
<1> QED BY <1>4, <1>5, <1>6 DEF Solid

LEMMA OpenSolid ==
  ASSUME TypeOK, WindowInv, TextEnds, Solid, ~MayReopen, NEW o \in Openers, NEW f \in Files,
         Open(o, f)
  PROVE  Solid'
<1> USE DEF file_vars, member_vars, count_vars
<1>0. Chunk \in Nat \ {0} /\ Page \in Nat \ {0}
  BY ChunkBounds, MMapAssumption
<1>1. disk[f] \in Seq(Nat) /\ Len(disk[f]) \in Nat /\ \A g \in Files : disk[g] \in Seq(Nat)
  BY DEF TypeOK
<1>2. CASE OpenNew(o, f)
  <2>1. StartOpen(o, f) /\ Prepared(o, f, Chunk, 0, 0, TRUE) /\ UNCHANGED <<member_vars, owed, emissions>>
    BY <1>2 DEF OpenNew
  <2>2. disk'[f] = Resize(<< >>, Chunk) /\ \A g \in Files \ {f} : disk'[g] = disk[g]
    BY <1>2 DEF OpenNew, TypeOK
  <2>3. TextIs(<< >>, 0)
    BY <1>0 DEF TextIs, TextBefore
  <2>4. TextIs(Resize(<< >>, Chunk), 0)
    <3>1. << >> \in Seq(Nat) /\ 0 \in Nat /\ Chunk \in Nat /\ 0 <= Chunk /\ Chunk - 0 <= Chunk
      BY <1>0
    <3> QED BY <2>3, <3>1, ResizeText, PagesChunk
  <2>5. Chunk \in Nat /\ 0 \in Nat /\ TRUE \in BOOLEAN /\ 0 + 0 = 0
    BY <1>0
  <2> QED BY <2>1, <2>2, <2>4, <2>5, PreparedSolid
<1>3. CASE OpenNewFails(o, f)
  BY <1>3 DEF OpenNewFails, Solid
<1>4. ASSUME NEW d \in {FALSE, MayTruncate}, OpenEmpty(o, f, d) PROVE Solid'
  <2>1. f # out_file_name /\ \A p \in Openers : opening[p].file # f
    BY <1>4 DEF OpenEmpty, StartOpen
  <2>2. disk'[f] = << >> /\ \A g \in Files \ {f} : disk'[g] = disk[g]
    BY <1>4 DEF OpenEmpty, TypeOK
  <2>3. \A p \in Openers : opening[p].file \in Files \union {NoFile}
    BY DEF TypeOK, Openings
  <2>4. \A p \in Openers : opening[p].file # NoFile => disk'[opening[p].file] = disk[opening[p].file]
    BY <2>1, <2>2, <2>3
  <2>5. out_file_name # NoFile => disk'[out_file_name] = disk[out_file_name]
    BY <2>1, <2>2 DEF TypeOK
  <2>6. UNCHANGED <<member_vars, owed, opening, emissions>>
    BY <1>4 DEF OpenEmpty
  <2>7. TextIs(<< >>, 0)
    BY <1>0 DEF TextIs, TextBefore
  <2> QED BY <2>2, <2>4, <2>5, <2>6, <2>7 DEF Solid
<1>5. CASE OpenFull(o, f)
  <2> DEFINE n == Len(disk[f])
  <2>1. StartOpen(o, f) /\ Prepared(o, f, Chunk, n, 0, FALSE) /\ UNCHANGED <<member_vars, owed, emissions>>
    BY <1>5 DEF OpenFull
  <2>2. disk'[f] = Resize(disk[f], n + Chunk) /\ \A g \in Files \ {f} : disk'[g] = disk[g]
    BY <1>5 DEF OpenFull, TypeOK
  <2>3. n \in Nat /\ n > 0 /\ n % Page = 0 /\ disk[f][n] # 0
    BY <1>1, <1>5 DEF OpenFull
  <2>4. PICK m \in Nat : TextIs(disk[f], m)
    BY DEF Solid
  <2>5. m = n
    <3>1. m <= n
      BY <2>4 DEF TextIs
    <3>2. ~(m < n)
      <4>1. n \in 1 .. n
        BY <2>3
      <4> QED BY <2>3, <2>4, <4>1 DEF TextIs, TextBefore
    <3> QED BY <2>3, <3>1, <3>2
  <2>6. TextIs(disk[f], n)
    BY <2>4, <2>5
  <2>7. InPages(n + Chunk)
    BY <2>3, PagesMod, PagesChunk, PagesAdd
  <2>8. n \in Nat
    BY <1>1
  <2> HIDE DEF n
  <2>9. n + Chunk \in Nat /\ n <= n + Chunk /\ n + Chunk - n <= Chunk
    BY <1>0, <2>8
  <2>10. n + 0 = n
    BY <2>8
  <2>11. TextIs(disk'[f], n)
    <3>1. PICK q \in Nat : q = n + Chunk
      BY <2>9
    <3>a. n <= q /\ q - n <= Chunk
      BY <1>0, <2>8, <3>1
    <3>2. disk[f] \in Seq(Nat) /\ InPages(q)
      BY <1>1, <2>7, <3>1
    <3>3. TextIs(Resize(disk[f], q), n)
      BY <2>6, <2>8, <3>a, <3>2, ResizeText
    <3> QED BY <2>2, <3>1, <3>3
  <2>12. Chunk \in Nat /\ 0 \in Nat /\ FALSE \in BOOLEAN
    BY <1>0
  <2> QED BY <2>1, <2>2, <2>8, <2>10, <2>11, <2>12, PreparedSolid
<1>6. CASE OpenPadded(o, f)
  <2> DEFINE n == Len(disk[f])
             size == Least(n, Chunk)
  <2>1. n \in Nat /\ size \in Nat /\ n - size \in Nat /\ FALSE \in BOOLEAN
        /\ n - size + size = n /\ (size = Chunk \/ n - size = 0)
    <3> HIDE DEF n
    <3>1. n \in Nat
      BY <1>1 DEF n
    <3> QED BY <1>0, <3>1 DEF Least
  <2>2. PICK w \in 0 .. size : TextEndsAt(disk[f], n - size, size, w)
                               /\ Prepared(o, f, size, n - size, w, FALSE)
    BY <1>6 DEF OpenPadded
  <2>3. StartOpen(o, f) /\ UNCHANGED <<disk, member_vars, owed, emissions>>
    BY <1>6 DEF OpenPadded
  <2>4. PICK m \in Nat : TextIs(disk[f], m)
    BY DEF Solid
  <2>5. m <= n /\ n - m <= Chunk
    BY <2>4 DEF TextIs
  <2> DEFINE offset == n - size
  <2>6. offset <= m
    <3> HIDE DEF n, size
    <3> QED BY <1>0, <2>1, <2>4, <2>5
  <2>7. m = offset + w
    <3>1. offset \in Nat /\ offset + size = Len(disk[f]) /\ TextEndsAt(disk[f], offset, size, w)
      BY <2>1, <2>2
    <3> HIDE DEF n, size, offset
    <3> QED BY <1>1, <2>1, <2>4, <2>6, <3>1, FindsEnd
  <2>8. TextIs(disk'[f], offset + w)
    BY <2>3, <2>4, <2>7
  <2>9. Prepared(o, f, size, offset, w, FALSE)
    BY <2>2
  <2>10. offset \in Nat
    BY <2>1
  <2> HIDE DEF n, size, offset
  <2>11. w \in Nat
    BY <2>1
  <2>12. \A g \in Files \ {f} : disk'[g] = disk[g]
    BY <2>3
  <2> QED BY <2>1, <2>3, <2>8, <2>9, <2>10, <2>11, <2>12, PreparedSolid
<1>7. CASE OpenTrimmed(o, f)
  <2> DEFINE l == Len(disk[f])
             n == GranularRoundUp(l, Chunk)
             offset == n - Chunk
  <2>1. n \in Nat /\ l <= n /\ n <= l + Chunk /\ Chunk <= n /\ FALSE \in BOOLEAN /\ Chunk \in Nat
        /\ l \in Nat
    BY <1>0, <1>1, RoundUpBounds
  <2>2. PICK w \in 0 .. Chunk : TextEndsAt(disk'[f], offset, Chunk, w)
                                /\ Prepared(o, f, Chunk, offset, w, FALSE)
    BY <1>7 DEF OpenTrimmed
  <2>3. StartOpen(o, f) /\ UNCHANGED <<member_vars, owed, emissions>>
    BY <1>7 DEF OpenTrimmed
  <2>4. disk'[f] = Resize(disk[f], n) /\ \A g \in Files \ {f} : disk'[g] = disk[g]
    BY <1>7 DEF OpenTrimmed, TypeOK
  <2>5. PICK m \in Nat : TextIs(disk[f], m)
    BY DEF Solid
  <2>6. m = l
    <3>1. l % Page # 0
      BY <1>7 DEF OpenTrimmed
    <3>2. ~InPages(l)
      BY <2>1, <3>1, PagesMod
    <3> QED BY <2>5, <3>2 DEF TextIs
  <2>7. InPages(n)
    BY <2>1, PagesChunk
  <2>8. TextIs(disk[f], l)
    BY <2>5, <2>6
  <2>9. offset \in Nat /\ offset + Chunk = n /\ offset <= l /\ n - l <= Chunk
    <3> HIDE DEF l, n
    <3> QED BY <2>1
  <2> HIDE DEF l, n, offset
  <2>10. TextIs(disk'[f], l)
    BY <1>1, <2>1, <2>4, <2>7, <2>8, <2>9, ResizeText
  <2>11. disk'[f] \in Seq(Nat) /\ Len(disk'[f]) = n
    BY <1>1, <2>1, <2>4, ResizeType
  <2>12. l = offset + w
    <3>1. offset + Chunk = Len(disk'[f]) /\ offset <= l /\ offset \in Nat
      BY <2>9, <2>11
    <3>2. l \in Nat /\ Chunk \in Nat
      BY <2>1
    <3>3. TextEndsAt(disk'[f], offset, Chunk, w)
      BY <2>2
    <3>4. disk'[f] \in Seq(Nat)
      BY <2>11
    <3> QED BY <2>10, <3>1, <3>2, <3>3, <3>4, FindsEnd
  <2>13. TextIs(disk'[f], offset + w) /\ w \in Nat
    BY <2>1, <2>10, <2>12
  <2> QED BY <2>1, <2>2, <2>3, <2>4, <2>9, <2>13, PreparedSolid
<1> QED BY <1>2, <1>3, <1>4, <1>5, <1>6, <1>7 DEF Open

\* A step that changes the bytes of the mapped file only.
LEMMA MappedFileSolid ==
  ASSUME TypeOK, Windows, Solid, out_file_name # NoFile,
         \A g \in Files \ {out_file_name} : disk'[g] = disk[g],
         UNCHANGED <<out_file_name, opening>>,
         mapping_offset' + write_offset' \in Nat,
         TextIs(disk'[out_file_name], mapping_offset' + write_offset'),
         owed' > 0 => emissions' > 0
  PROVE  Solid'
<1>1. \A p \in Openers : opening[p].file # NoFile => opening[p].file \in Files \ {out_file_name}
  BY DEF TypeOK, Openings, Windows, Apart
<1> QED BY <1>1 DEF Solid

LEMMA EmitSolid ==
  ASSUME TypeOK, WindowInv, Windows, Solid, LinesShort, NEW needed \in Lengths, Emit(needed)
  PROVE  Solid'
<1> USE DEF file_vars, member_vars, count_vars
<1> DEFINE file_size == NewFileSize(needed)
           at == mapping_offset + write_offset
<1>1. /\ out_file_name # NoFile /\ out_file_name \in Files /\ disk[out_file_name] \in Seq(Nat)
      /\ at \in Nat /\ mapping_offset \in Nat /\ write_offset \in Nat
      /\ needed \in Nat /\ owed = 0 /\ emissions \in Nat
  BY MMapAssumption DEF Emit, EmitHere, EmitInNewWindow, EmitThrows, StartEmission, TypeOK
<1>2. UNCHANGED <<out_file_name, opening>> /\ emissions' = emissions + 1
  BY DEF Emit, EmitHere, EmitInNewWindow, EmitThrows, StartEmission
<1>a. owed' > 0 => emissions' > 0
  BY <1>1, <1>2
<1>3. \A g \in Files \ {out_file_name} : disk'[g] = disk[g]
  BY <1>1 DEF Emit, EmitHere, EmitInNewWindow, EmitThrows, TypeOK
<1>4. /\ NewOffset \in Nat /\ NewSize(needed) \in Nat /\ file_size \in Nat
      /\ NewOffset <= at /\ at - NewOffset + needed <= NewSize(needed)
  <2>1. /\ NewOffset \in Nat /\ NewSize(needed) \in Nat /\ NewFileSize(needed) \in Nat
        /\ NewOffset <= mapping_offset + write_offset
        /\ mapping_offset + write_offset - NewOffset + needed <= NewSize(needed)
    BY NewWindow
  <2> QED BY <1>1, <2>1
<1>5. NewSize(needed) = Chunk
  <2>1. GranularRoundUp(needed, Page) + Page <= Chunk
    BY DEF LinesShort
  <2>2. GranularRoundUp(needed, Page) \in Nat /\ Page \in Nat /\ Chunk \in Nat
    BY <1>1, PageNumber, RoundUpBounds, ChunkBounds
  <2> QED BY <2>1, <2>2 DEF NewSize, Greatest
<1>6. file_size = NewOffset + Chunk /\ InPages(file_size)
  <2>1. file_size = NewOffset + Chunk
    BY <1>5 DEF NewFileSize
  <2>2. InPages(NewOffset)
    BY <1>1, PagesChunk DEF NewOffset
  <2> QED BY <2>1, <2>2, PagesChunk, PagesAdd
<1>7. TextIs(disk[out_file_name], at)
  BY <1>1 DEF Solid
<1>8. mapping_offset' + write_offset' = at
  <2>1. CASE EmitInNewWindow(needed)
    BY <1>1, <1>4, <2>1 DEF EmitInNewWindow
  <2>2. CASE EmitHere(needed) \/ EmitThrows(needed)
    BY <2>2 DEF EmitHere, EmitThrows
  <2> QED BY <2>1, <2>2 DEF Emit
<1>9. at <= file_size /\ file_size - at <= Chunk
  <2> HIDE DEF file_size, at
  <2>1. Chunk \in Nat
    BY ChunkBounds
  <2> QED BY <1>1, <1>4, <1>5, <1>6, <2>1
<1>10. CASE UNCHANGED disk
  BY <1>1, <1>2, <1>a, <1>3, <1>7, <1>8, <1>10, MappedFileSolid
<1>11. CASE disk' = [disk EXCEPT ![out_file_name] = Resize(@, file_size)]
  <2>1. disk'[out_file_name] = Resize(disk[out_file_name], file_size)
    BY <1>1, <1>11 DEF TypeOK
  <2> HIDE DEF file_size, at
  <2>2. TextIs(disk'[out_file_name], at)
    BY <1>1, <1>4, <1>6, <1>7, <1>9, <2>1, ResizeText
  <2> QED BY <1>1, <1>2, <1>a, <1>3, <1>8, <2>2, MappedFileSolid
<1> QED BY <1>10, <1>11 DEF Emit, EmitHere, EmitInNewWindow, EmitThrows

LEMMA CopySolid ==
  ASSUME TypeOK, WindowInv, Windows, Solid, NEW k \in 1 .. owed, CopyPiece(k)
  PROVE  Solid'
<1> USE DEF file_vars, member_vars, count_vars
<1> DEFINE at == mapping_offset + write_offset
           s == disk[out_file_name]
           t == disk'[out_file_name]
<1>1. /\ out_file_name # NoFile /\ out_file_name \in Files /\ s \in Seq(Nat) /\ Len(s) \in Nat
      /\ k \in Nat /\ owed \in Nat /\ k <= owed /\ owed > 0
      /\ write_offset \in Nat /\ mapping_size \in Nat /\ mapping_offset \in Nat /\ at \in Nat
      /\ emissions \in Nat /\ emissions > 0
  BY DEF CopyPiece, TypeOK, WindowInv, Solid
<1>2. Len(t) = Len(s) /\ \A i \in 1 .. Len(s) : t[i] = IF i \in at + 1 .. at + k THEN emissions ELSE s[i]
  BY <1>1, CopyType DEF CopyPiece
<1>3. \A g \in Files \ {out_file_name} : disk'[g] = disk[g]
  BY DEF CopyPiece, Copy, TypeOK
<1>4. UNCHANGED <<out_file_name, opening, mapping_offset, emissions>>
  BY DEF CopyPiece
<1>5. /\ write_offset + owed <= mapping_size
      /\ mapping_size = region_size /\ mapping_offset + region_size <= Len(s)
  BY <1>1 DEF Windows, WritesStayInside, InMapping, MappingBacked, WindowInv
<1>6. write_offset' = write_offset + k
  BY <1>1, <1>5 DEF CopyPiece, Fits
<1>7. mapping_offset' + write_offset' = at + k /\ at + k <= Len(s)
  BY <1>1, <1>4, <1>5, <1>6
<1>8. TextIs(s, at)
  BY <1>1 DEF Solid
<1> HIDE DEF at, s, t
<1>9. TextBefore(t, at + k)
  BY <1>1, <1>2, <1>8 DEF TextIs, TextBefore
<1>10. ASSUME NEW i \in 1 .. at + k PROVE t[i] # 0
  <2>1. i \in 1 .. Len(s) /\ (i \in 1 .. at \/ i \in at + 1 .. at + k)
    BY <1>1, <1>7
  <2> QED BY <1>1, <1>2, <1>8, <2>1 DEF TextIs
<1>11. Len(t) - (at + k) <= Chunk
  <2>1. Len(s) - at <= Chunk /\ Chunk \in Nat
    BY <1>8, ChunkBounds DEF TextIs
  <2> QED BY <1>1, <1>2, <2>1
<1>12. InPages(Len(t)) \/ at + k = Len(t)
  <2>1. InPages(Len(s)) \/ at = Len(s)
    BY <1>8 DEF TextIs
  <2> QED BY <1>1, <1>2, <1>7, <2>1
<1>13. TextIs(t, at + k)
  BY <1>2, <1>7, <1>9, <1>10, <1>11, <1>12 DEF TextIs
<1>14. at + k \in Nat /\ emissions' > 0
  BY <1>1, <1>4
<1> QED BY <1>1, <1>3, <1>4, <1>7, <1>13, <1>14, MappedFileSolid DEF s, t

LEMMA FinishSolid ==
  ASSUME TypeOK, WindowInv, Windows, Solid, NEW o \in Openers, OpenFails(o) \/ OpenSwap(o)
  PROVE  Solid'
<1> USE DEF file_vars, member_vars, count_vars
<1> DEFINE f == opening[o].file
<1>1. /\ f \in Files /\ f # NoFile /\ f # out_file_name
      /\ \A p \in Openers \ {o} : opening[p].file # f
      /\ \A p \in Openers : opening[p].file \in Files \union {NoFile}
      /\ \A g \in Files : disk[g] \in Seq(Nat)
  BY DEF OpenFails, OpenSwap, Windows, Apart, TypeOK, Openings
<1>2. opening'[o].file = NoFile /\ \A p \in Openers \ {o} : opening'[p] = opening[p]
  BY DEF OpenFails, OpenSwap, Idle, TypeOK
<1>3. CASE OpenFails(o)
  <2>1. UNCHANGED <<member_vars, owed, emissions>>
    BY <1>3 DEF OpenFails
  <2>2. CASE opening[o].created
    <3>1. disk'[f] = << >> /\ (\A g \in Files \ {f} : disk'[g] = disk[g])
      BY <1>1, <1>3, <2>2 DEF OpenFails, TypeOK
    <3>2. TextIs(<< >>, 0)
      BY ChunkBounds DEF TextIs, TextBefore
    <3>3. \A p \in Openers : opening'[p].file # NoFile =>
            p # o /\ opening'[p] = opening[p] /\ opening[p].file \in Files \ {f}
      BY <1>1, <1>2
    <3>4. out_file_name' = out_file_name /\ out_file_name \in Files \union {NoFile}
      BY <2>1 DEF TypeOK
    <3> HIDE DEF f
    <3> QED BY <1>1, <2>1, <3>1, <3>2, <3>3, <3>4 DEF Solid
  <2>3. CASE ~opening[o].created
    <3>1. UNCHANGED disk
      BY <1>3, <2>3 DEF OpenFails
    <3> QED BY <1>2, <2>1, <3>1 DEF Solid
  <2> QED BY <2>2, <2>3
<1>4. CASE OpenSwap(o)
  <2>1. /\ out_file_name' = f /\ mapping_offset' = opening[o].offset
        /\ write_offset' = opening[o].write /\ UNCHANGED <<disk, owed, emissions>>
    BY <1>4 DEF OpenSwap
  <2> QED BY <1>1, <1>2, <2>1 DEF Solid
<1> QED BY <1>3, <1>4

LEMMA EndSolid ==
  ASSUME TypeOK, Windows, Solid, Destroy \/ Crash
  PROVE  Solid'
<1> USE DEF file_vars, member_vars, count_vars
<1>1. out_file_name' = NoFile /\ \A o \in Openers : opening'[o].file = NoFile
  BY DEF Destroy, Crash, NothingMapped, Idle
<1>a. owed' > 0 => emissions' > 0
  BY DEF Destroy, Crash, Solid
<1>2. \A g \in Files : disk[g] \in Seq(Nat)
  BY DEF TypeOK
<1>3. CASE UNCHANGED disk
  BY <1>1, <1>a, <1>3 DEF Solid
<1>4. CASE Destroy /\ disk' = [disk EXCEPT ![out_file_name] = Resize(@, EndOfText)]
  <2>1. out_file_name \in Files /\ out_file_name # NoFile /\ EndOfText \in Nat
    BY <1>4 DEF Destroy, TypeOK, EndOfText
  <2>2. /\ disk'[out_file_name] = Resize(disk[out_file_name], EndOfText)
        /\ \A g \in Files \ {out_file_name} : disk'[g] = disk[g]
    BY <1>4, <2>1 DEF TypeOK
  <2>3. TextIs(disk[out_file_name], EndOfText)
    BY <2>1 DEF Solid, EndOfText
  <2>4. TextIs(disk'[out_file_name], EndOfText)
    <3>1. EndOfText <= EndOfText /\ EndOfText - EndOfText <= Chunk
      BY <2>1, ChunkBounds
    <3> QED BY <1>2, <2>1, <2>2, <2>3, <3>1, ResizeText
  <2>5. \A g \in Files : \E n \in Nat : TextIs(disk'[g], n)
    BY <2>1, <2>2, <2>4 DEF Solid
  <2> QED BY <1>1, <1>a, <2>5 DEF Solid
<1> QED BY <1>3, <1>4 DEF Destroy, Crash

LEMMA SolidStep ==
  ASSUME ~MayReopen, LinesShort, TypeOK, WindowInv, Windows, TextEnds, Solid, [Next]_vars
  PROVE  Solid'
<1>1. ASSUME UNCHANGED vars PROVE Solid'
  BY <1>1 DEF vars, file_vars, member_vars, count_vars, Solid
<1> QED BY <1>1, OpenSolid, EmitSolid, CopySolid, FinishSolid, EndSolid DEF Next

-----------------------------------------------------------------------------
(* Theorems.                                                               *)

\* The members of the handler, and the locals of OpenFileImpl, keep their types; the size of
\* the window never exceeds the unsigned int it is kept in (LogHandlerFileMMap.cpp:493).
THEOREM TypeCorrect == Spec => [](TypeOK /\ WindowInv)
BY TypeInit, TypeStep, PTL DEF Spec

\* As long as OpenFile is not given a file that is in use, whatever the lines, the pages, the
\* failures and the crashes: the bytes of a line that EmitLineImpl has still to copy have room
\* in the window (LogHandlerFileMMap.cpp:479), and the window lies in its file, which no other
\* opener of a file cuts.
THEOREM StaysInside == ASSUME ~MayReopen PROVE Spec => []WritesStayInside
<1>1. Init => Windows
  BY WindowsInit
<1>2. TypeOK /\ WindowInv /\ Windows /\ [Next]_vars => Windows'
  BY WindowsStep
<1>3. Windows => WritesStayInside
  BY DEF Windows
<1> QED BY <1>1, <1>2, <1>3, TypeCorrect, PTL DEF Spec

\* As long as OpenFile is not given a file that is in use: no byte of text is ever overwritten
\* or cut off, by a line, a new window, the change of the file, the destructor
\* (LogHandlerFileMMap.cpp:192) or a crash, and new text comes after the old.
THEOREM OnlyAppends == ASSUME ~MayReopen PROVE Spec => AppendOnly
<1>1. Init => Windows /\ TextEnds
  BY WindowsInit, TextInit
<1>2. TypeOK /\ WindowInv /\ Windows /\ TextEnds /\ [Next]_vars
        => /\ Windows' /\ TextEnds'
           /\ [TextKept \/ \E o \in Openers, f \in Files : OpenEmpty(o, f, TRUE)]_vars
  BY WindowsStep, TextStep
<1> QED BY <1>1, <1>2, TypeCorrect, PTL DEF Spec, AppendOnly

\* As long as OpenFile is not given a file that is in use, and every line, with the page that
\* it may begin in, fits into one chunk (LogHandlerFileMMap.cpp:479: the window is not made
\* larger then): the text of every log file is in one piece, across new windows, calls that
\* fail, crashes and restarts, after which OpenFileImpl looks for the end of the text in the
\* last chunk only (LogHandlerFileMMap.cpp:305).  After a longer line it may miss it.
THEOREM NoGapsLeft == ASSUME ~MayReopen, LinesShort PROVE Spec => []NoGaps
<1>1. Init => Windows /\ TextEnds /\ Solid
  BY WindowsInit, TextInit, SolidInit
<1>2. TypeOK /\ WindowInv /\ Windows /\ TextEnds /\ Solid /\ [Next]_vars
        => Windows' /\ TextEnds' /\ Solid'
  BY WindowsStep, TextStep, SolidStep
<1>3. TypeOK /\ Solid => NoGaps
  <2> SUFFICES ASSUME TypeOK, Solid, NEW f \in Files, NEW i \in 1 .. Len(disk[f]),
                      NEW j \in 1 .. Len(disk[f]), i < j, disk[f][j] # 0
               PROVE  disk[f][i] # 0
    BY DEF NoGaps
  <2>1. PICK n \in Nat : TextIs(disk[f], n)
    BY DEF Solid
  <2>2. Len(disk[f]) \in Nat
    BY DEF TypeOK
  <2>3. ~(j > n)
    BY <2>1 DEF TextIs, TextBefore
  <2>4. i \in 1 .. n
    BY <2>2, <2>3
  <2> QED BY <2>1, <2>4 DEF TextIs
<1> QED BY <1>1, <1>2, <1>3, TypeCorrect, PTL DEF Spec

-----------------------------------------------------------------------------
(* The streams: what the invariant is made of.                             *)

\* How many pieces a line has, and how many of them go to a file and to the console.
Width(l)     == Len(LinePieces(l))
FileWidth(l) == IF written[l].file # "" THEN Width(l) ELSE 0
Total(l)     == FileWidth(l) + (IF written[l].on_console THEN Width(l) ELSE 0)

\* Of the first k pieces that are written: those that went to the stream of a file,
\* those that are in the file, and those that are on the console.
InStream(l, k) == IF k < FileWidth(l) THEN k ELSE FileWidth(l)
InFile(l, k) ==
  LET m == InStream(l, k)
  IN IF m = Width(l) \/ (l \in LongLines /\ m = Width(l) - 1) THEN m ELSE 0
OnScreen(l, k) == IF k < FileWidth(l) THEN 0 ELSE k - FileWidth(l)

Arrived(l, k) ==
  /\ \A name \in FileNames :
       HasPieces(logFiles[name], l, IF name = written[l].file THEN InFile(l, k) ELSE 0)
  /\ HasPieces(console, l, OnScreen(l, k))

\* The call of c has still to write the pieces of the line l behind the first k.
ToCome(todo, l, k) ==
  /\ Len(todo) = Total(l) - k
  /\ \A i \in 1 .. Len(todo) :
       todo[i] = IF k + i <= FileWidth(l)
                 THEN [place |-> "file", piece |-> LinePieces(l)[k + i]]
                 ELSE [place |-> "console", piece |-> LinePieces(l)[k + i - FileWidth(l)]]

\* What the stream of a file holds back.
HeldBack(stream, l, k) ==
  /\ written[l].file # "" => stream # NoStream /\ stream.name = written[l].file
  /\ stream # NoStream => stream.collected = SubSeq(LinePieces(l), InFile(l, k) + 1, InStream(l, k))

InHand(c, l, k) ==
  /\ Calling(c) = "emit" /\ calls[c].handler = written[l].handler
  /\ ToCome(calls[c].todo, l, k)
  /\ HeldBack(Handler(calls[c].handler).stream, l, k)
  /\ Arrived(l, k)

Streams == [name : FileNames, collected : Seq(Pieces)]
Calls == [op : {"idle"}]
         \cup [op : {"open"}, handler : Handlers, stream : {Stream(name) : name \in FileNames}]
         \cup [op : {"emit"}, handler : Handlers,
               todo : Seq([place : {"file", "console"}, piece : Pieces])]

HandlerStates ==
  [life : {"none", "alive", "destroyed"}, stream : Streams \cup {NoStream},
   lock : Callers \cup {Nobody}, flags : FlagSets \cup {{}},
   out_file_name : FileNames \cup {""}, opened : BOOLEAN]

LogFilesTypeOK ==
  /\ logHandlers \in [Handlers -> HandlerStates]
  /\ calls \in [Callers -> Calls]
  /\ logFiles \in [FileNames -> Seq(Pieces)]
  /\ console \in Seq(Pieces)
  /\ DOMAIN written \subseteq Lines
  /\ written \in [DOMAIN written -> [handler : Handlers, on_console : BOOLEAN, file : FileNames \cup {""}]]

\* A handler is locked by the call that writes to it, and nobody calls a destroyed one.
CallsHold ==
  /\ \A h \in Handlers, c \in Callers :
       Handler(h).lock = c <=> (Calling(c) = "emit" /\ calls[c].handler = h)
  /\ \A c \in Callers : Calling(c) # "idle" => Alive(calls[c].handler)

\* Nothing is held back between two calls; a file once opened stays until another is.
StreamsAtRest ==
  \A h \in Handlers :
    /\ Unlocked(h) /\ Handler(h).stream # NoStream => Handler(h).stream.collected = <<>>
    /\ Handler(h).stream # NoStream => Handler(h).out_file_name = Handler(h).stream.name
    /\ Handler(h).opened /\ Handler(h).life # "destroyed" => Handler(h).stream # NoStream

FaultNotOpened == fault # Nobody => fault \in Handlers /\ ~logHandlers[fault].opened

\* A line is in the hands of a call, or it has arrived.
LinesTracked ==
  /\ \A c \in Callers : Calling(c) = "emit" =>
       \E l \in DOMAIN written : \E k \in 0 .. Total(l) : InHand(c, l, k)
  /\ \A l \in DOMAIN written :
       \/ Arrived(l, Total(l))
       \/ \E c \in Callers : \E k \in 0 .. Total(l) : InHand(c, l, k)

OnlyWritten(pieces) == \A i \in 1 .. Len(pieces) : pieces[i].line \in DOMAIN written
NothingForeign == OnlyWritten(console) /\ \A name \in FileNames : OnlyWritten(logFiles[name])

\* In a file, a piece that is not the first of its line follows one of the same line, but
\* for the end of a long one.
Together(pieces) ==
  \A i \in 2 .. Len(pieces) :
    \/ pieces[i] = LinePieces(pieces[i].line)[1]
    \/ pieces[i].line \in LongLines /\ pieces[i].part = "end"
    \/ pieces[i - 1].line = pieces[i].line
FilesTogether == \A name \in FileNames : Together(logFiles[name])

\* On the console: whose the piece i is, and that none between i and j is of the same handler.
Owner(i) == written[console[i].line].handler
NoneBetween(i, j) == \A m \in i + 1 .. j - 1 : Owner(m) # Owner(i)
LastOne(i)  == \A m \in i + 1 .. Len(console) : Owner(m) # Owner(i)

EndToCome(l) ==
  \E c \in Callers : /\ Calling(c) = "emit" /\ calls[c].todo # <<>>
                     /\ calls[c].todo[Len(calls[c].todo)] =
                          [place |-> "console", piece |-> LinePieces(l)[Width(l)]]

ConsoleInOrder ==
  /\ \A i, j \in 1 .. Len(console) :
       i < j /\ Owner(i) = Owner(j) /\ NoneBetween(i, j) /\ console[i].line # console[j].line
         => console[i].part = "end"
  /\ \A i \in 1 .. Len(console) :
       LastOne(i) => console[i].part = "end" \/ EndToCome(console[i].line)

LogFilesInv == 
  /\ LogFilesTypeOK /\ CallsHold /\ StreamsAtRest /\ FaultNotOpened
  /\ LinesTracked /\ NothingForeign /\ FilesTogether /\ ConsoleInOrder

-----------------------------------------------------------------------------
(* The pieces of a line.                                                   *)

\* A line has two or three pieces, the last of them its end and the one before it its text.
LEMMA PieceFacts ==
  ASSUME NEW l \in Lines
  PROVE  /\ Width(l) \in {2, 3} /\ LinePieces(l) \in Seq(Pieces)
         /\ \A i \in 1 .. Width(l) :
              /\ LinePieces(l)[i] \in Pieces /\ LinePieces(l)[i].line = l
              /\ LinePieces(l)[i].part = "end" <=> i = Width(l)
              /\ LinePieces(l)[i].part = "text" <=> i = Width(l) - 1
<1>1. CASE l \in Literals
  <2>1. LinePieces(l) = [i \in 1 .. 2 |-> [line |-> l, part |-> <<"text", "end">>[i]]]
    BY <1>1 DEF LinePieces
  <2>2. \A i \in 1 .. 2 : i = 1 \/ i = 2
    OBVIOUS
  <2>3. \A i \in 1 .. 2 : LinePieces(l)[i] \in Pieces
    BY <2>1, <2>2 DEF Pieces
  <2>4. LinePieces(l) \in Seq(Pieces) /\ Len(LinePieces(l)) = 2
    BY <2>1, <2>3
  <2> QED BY <2>1, <2>2, <2>3, <2>4 DEF Width
<1>2. CASE l \notin Literals
  <2>1. LinePieces(l) = [i \in 1 .. 3 |-> [line |-> l, part |-> <<"leader", "text", "end">>[i]]]
    BY <1>2 DEF LinePieces
  <2>2. \A i \in 1 .. 3 : i = 1 \/ i = 2 \/ i = 3
    OBVIOUS
  <2>3. \A i \in 1 .. 3 : LinePieces(l)[i] \in Pieces
    BY <2>1, <2>2 DEF Pieces
  <2>4. LinePieces(l) \in Seq(Pieces) /\ Len(LinePieces(l)) = 3
    BY <2>1, <2>3
  <2> QED BY <2>1, <2>2, <2>3, <2>4 DEF Width
<1> QED BY <1>1, <1>2

\* None of the pieces is of the line.
LEMMA NoPieces ==
  ASSUME NEW s \in Seq(Pieces), NEW l
  PROVE  HasPieces(s, l, 0) <=> \A i \in 1 .. Len(s) : s[i].line # l
<1>1. ASSUME HasPieces(s, l, 0), NEW i \in 1 .. Len(s), s[i].line = l PROVE FALSE
  BY <1>1 DEF HasPieces
<1>2. ASSUME \A i \in 1 .. Len(s) : s[i].line # l PROVE HasPieces(s, l, 0)
  <2>1. PICK at : at = [k \in 1 .. 0 |-> 0]
    OBVIOUS
  <2>2. at \in [1 .. 0 -> DOMAIN s]
    BY <2>1
  <2>3. \A k \in 1 .. 0 : FALSE
    OBVIOUS
  <2>4. \A i \in DOMAIN s : s[i].line # l
    BY <1>2
  <2> QED BY <2>2, <2>3, <2>4 DEF HasPieces
<1> QED BY <1>1, <1>2

\* Two sequences of pieces, one after the other.
LEMMA Joined ==
  ASSUME NEW s \in Seq(Pieces), NEW t \in Seq(Pieces)
  PROVE  /\ s \o t \in Seq(Pieces) /\ Len(s \o t) = Len(s) + Len(t)
         /\ \A i \in 1 .. Len(s) : (s \o t)[i] = s[i]
         /\ \A i \in 1 .. Len(t) : (s \o t)[Len(s) + i] = t[i]
         /\ \A i \in 1 .. Len(s \o t) : i \in 1 .. Len(s) \/ \E j \in 1 .. Len(t) : i = Len(s) + j
<1>1. Len(s) \in Nat /\ Len(t) \in Nat /\ Len(s \o t) = Len(s) + Len(t)
  OBVIOUS
<1>2. ASSUME NEW i \in 1 .. Len(t) PROVE (s \o t)[Len(s) + i] = t[i]
  <2>1. Len(s) + i \in 1 .. Len(s) + Len(t) /\ Len(s) + i > Len(s) /\ (Len(s) + i) - Len(s) = i
    BY <1>1
  <2> QED BY <2>1, ConcatProperties
<1>3. ASSUME NEW i \in 1 .. Len(s \o t)
      PROVE  i \in 1 .. Len(s) \/ \E j \in 1 .. Len(t) : i = Len(s) + j
  <2>1. CASE i > Len(s)
    <3>1. i - Len(s) \in 1 .. Len(t) /\ i = Len(s) + (i - Len(s))
      BY <1>1, <2>1
    <3> QED BY <3>1
  <2> QED BY <1>1, <2>1
<1> QED BY <1>1, <1>2, <1>3, ConcatProperties

\* Pieces of other lines behind those of a line.
LEMMA PiecesOfOthers ==
  ASSUME NEW s \in Seq(Pieces), NEW t \in Seq(Pieces), NEW l, NEW n, HasPieces(s, l, n),
         \A i \in 1 .. Len(t) : t[i].line # l
  PROVE  HasPieces(s \o t, l, n)
<1>1. PICK at \in [1 .. n -> DOMAIN s] :
        /\ \A k \in 1 .. n : s[at[k]] = LinePieces(l)[k] /\ (k > 1 => at[k - 1] < at[k])
        /\ \A i \in DOMAIN s : s[i].line = l => \E k \in 1 .. n : at[k] = i
  BY DEF HasPieces
<1>2. PICK u : u = s \o t
  OBVIOUS
<1>3. /\ u \in Seq(Pieces) /\ Len(u) = Len(s) + Len(t)
      /\ \A i \in 1 .. Len(s) : u[i] = s[i]
      /\ \A i \in 1 .. Len(t) : u[Len(s) + i] = t[i]
      /\ \A i \in 1 .. Len(u) : i \in 1 .. Len(s) \/ \E j \in 1 .. Len(t) : i = Len(s) + j
  BY <1>2, Joined
<1>4. DOMAIN s = 1 .. Len(s) /\ DOMAIN u = 1 .. Len(u) /\ Len(s) \in Nat /\ Len(t) \in Nat
  BY <1>3
<1>5. at \in [1 .. n -> DOMAIN u]
  BY <1>3, <1>4
<1>6. \A k \in 1 .. n : u[at[k]] = LinePieces(l)[k] /\ (k > 1 => at[k - 1] < at[k])
  BY <1>1, <1>3, <1>4
<1>7. \A i \in DOMAIN u : u[i].line = l => \E k \in 1 .. n : at[k] = i
  <2> SUFFICES ASSUME NEW i \in 1 .. Len(u), u[i].line = l PROVE \E k \in 1 .. n : at[k] = i
    BY <1>4
  <2>1. i \in 1 .. Len(s)
    <3> SUFFICES ASSUME NEW j \in 1 .. Len(t), i = Len(s) + j PROVE FALSE
      BY <1>3
    <3> QED BY <1>3
  <2> QED BY <1>1, <1>3, <1>4, <2>1
<1>8. HasPieces(u, l, n)
  BY <1>5, <1>6, <1>7 DEF HasPieces
<1> QED BY <1>2, <1>8

\* The next pieces of a line behind those that are there.
LEMMA PiecesOfLine ==
  ASSUME NEW s \in Seq(Pieces), NEW l \in Lines, NEW n \in Nat, NEW m \in Nat, n <= m, m <= Width(l),
         HasPieces(s, l, n)
  PROVE  HasPieces(s \o SubSeq(LinePieces(l), n + 1, m), l, m)
<1>0. Width(l) \in Nat /\ LinePieces(l) \in Seq(Pieces) /\ Len(LinePieces(l)) = Width(l)
  BY PieceFacts DEF Width
<1>1. PICK at \in [1 .. n -> DOMAIN s] :
        /\ \A k \in 1 .. n : s[at[k]] = LinePieces(l)[k] /\ (k > 1 => at[k - 1] < at[k])
        /\ \A i \in DOMAIN s : s[i].line = l => \E k \in 1 .. n : at[k] = i
  BY DEF HasPieces
<1>2. PICK t : t = SubSeq(LinePieces(l), n + 1, m)
  OBVIOUS
<1>3. t \in Seq(Pieces) /\ Len(t) = m - n /\ \A i \in 1 .. m - n : t[i] = LinePieces(l)[n + i]
  BY <1>0, <1>2, SubSeqProperties
<1>4. PICK u : u = s \o t
  OBVIOUS
<1>5. /\ u \in Seq(Pieces) /\ Len(u) = Len(s) + (m - n)
      /\ \A i \in 1 .. Len(s) : u[i] = s[i]
      /\ \A i \in 1 .. m - n : u[Len(s) + i] = LinePieces(l)[n + i]
      /\ \A i \in 1 .. Len(u) : i \in 1 .. Len(s) \/ \E j \in 1 .. m - n : i = Len(s) + j
  <2>1. /\ u \in Seq(Pieces) /\ Len(u) = Len(s) + Len(t)
        /\ \A i \in 1 .. Len(s) : u[i] = s[i]
        /\ \A i \in 1 .. Len(t) : u[Len(s) + i] = t[i]
        /\ \A i \in 1 .. Len(u) : i \in 1 .. Len(s) \/ \E j \in 1 .. Len(t) : i = Len(s) + j
    BY <1>3, <1>4, Joined
  <2> QED BY <1>3, <2>1
<1>6. DOMAIN s = 1 .. Len(s) /\ DOMAIN u = 1 .. Len(u) /\ Len(s) \in Nat
  BY <1>5
<1>7. PICK new : new = [k \in 1 .. m |-> IF k <= n THEN at[k] ELSE Len(s) + (k - n)]
  OBVIOUS
<1>8. /\ new \in [1 .. m -> DOMAIN u]
      /\ \A k \in 1 .. n : new[k] = at[k] /\ new[k] \in 1 .. Len(s)
      /\ \A k \in n + 1 .. m : new[k] = Len(s) + (k - n)
  <2>1. ASSUME NEW k \in 1 .. n PROVE new[k] = at[k] /\ at[k] \in 1 .. Len(s)
    BY <1>6, <1>7
  <2>2. ASSUME NEW k \in n + 1 .. m PROVE new[k] = Len(s) + (k - n) /\ Len(s) + (k - n) \in 1 .. Len(u)
    BY <1>5, <1>6, <1>7
  <2>3. \A k \in 1 .. m : k \in 1 .. n \/ k \in n + 1 .. m
    OBVIOUS
  <2>4. ASSUME NEW k \in 1 .. m PROVE new[k] \in 1 .. Len(u)
    <3>1. CASE k \in 1 .. n
      <4>1. new[k] \in 1 .. Len(s)
        BY <2>1, <3>1
      <4> QED BY <1>5, <1>6, <4>1
    <3>2. CASE k \in n + 1 .. m
      BY <2>2, <3>2
    <3> QED BY <2>3, <3>1, <3>2
  <2> QED BY <1>6, <1>7, <2>1, <2>2, <2>4
<1>9. \A k \in 1 .. m : u[new[k]] = LinePieces(l)[k] /\ (k > 1 => new[k - 1] < new[k])
  <2> SUFFICES ASSUME NEW k \in 1 .. m
               PROVE  u[new[k]] = LinePieces(l)[k] /\ (k > 1 => new[k - 1] < new[k])
    OBVIOUS
  <2>1. CASE k <= n
    BY <1>1, <1>5, <1>8, <2>1
  <2>2. CASE k > n
    <3>1. u[Len(s) + (k - n)] = LinePieces(l)[n + (k - n)]
      <4>1. k - n \in 1 .. m - n
        BY <2>2
      <4> QED BY <1>5, <4>1
    <3>2. k > 1 => new[k - 1] < new[k]
      BY <1>6, <1>8, <2>2
    <3> QED BY <1>8, <2>2, <3>1, <3>2
  <2> QED BY <2>1, <2>2
<1>10. \A i \in DOMAIN u : u[i].line = l => \E k \in 1 .. m : new[k] = i
  <2> SUFFICES ASSUME NEW i \in 1 .. Len(u), u[i].line = l PROVE \E k \in 1 .. m : new[k] = i
    BY <1>6
  <2>1. CASE i <= Len(s)
    <3>1. i \in DOMAIN s /\ u[i] = s[i]
      BY <1>5, <1>6, <2>1
    <3>2. PICK k \in 1 .. n : at[k] = i
      BY <1>1, <3>1
    <3> QED BY <1>8, <3>2
  <2>2. CASE i > Len(s)
    <3>1. n + (i - Len(s)) \in n + 1 .. m
      BY <1>5, <1>6, <2>2
    <3>2. new[n + (i - Len(s))] = i
      BY <1>6, <1>8, <3>1
    <3> QED BY <3>1, <3>2
  <2> QED BY <1>6, <2>1, <2>2
<1>11. HasPieces(u, l, m)
  BY <1>8, <1>9, <1>10 DEF HasPieces
<1> QED BY <1>2, <1>4, <1>11

-----------------------------------------------------------------------------
(* Calls that write a line.                                                *)

ToDos == [place : {"file", "console"}, piece : Pieces]

\* What EmitLine has to do: a for the file, and b for the console.
LEMMA ToPieces ==
  ASSUME NEW l \in Lines, NEW place \in {"file", "console"}
  PROVE  /\ To(place, LinePieces(l)) \in Seq(ToDos) /\ Len(To(place, LinePieces(l))) = Width(l)
         /\ \A i \in 1 .. Width(l) :
              To(place, LinePieces(l))[i] = [place |-> place, piece |-> LinePieces(l)[i]]
<1>1. /\ Width(l) \in {2, 3} /\ Width(l) = Len(LinePieces(l)) /\ LinePieces(l) \in Seq(Pieces)
      /\ \A i \in 1 .. Width(l) : LinePieces(l)[i] \in Pieces
  BY PieceFacts DEF Width
<1>2. To(place, LinePieces(l)) = [i \in 1 .. Width(l) |-> [place |-> place, piece |-> LinePieces(l)[i]]]
  BY <1>1 DEF To
<1>3. \A i \in 1 .. Width(l) : [place |-> place, piece |-> LinePieces(l)[i]] \in ToDos
  BY <1>1 DEF ToDos
<1> QED BY <1>1, <1>2, <1>3

\* The numbers of a written line.
LEMMA WidthTypes ==
  ASSUME LogFilesTypeOK, NEW l \in DOMAIN written
  PROVE  /\ l \in Lines /\ Width(l) \in {2, 3} /\ FileWidth(l) \in {0, Width(l)}
         /\ Total(l) \in {FileWidth(l), FileWidth(l) + Width(l)} /\ Total(l) \in Nat
         /\ written[l].handler \in Handlers /\ written[l].on_console \in BOOLEAN
         /\ written[l].file \in FileNames \cup {""}
         /\ FileWidth(l) = 0 <=> written[l].file = ""
<1>1. l \in Lines /\ Width(l) \in {2, 3}
  BY PieceFacts DEF LogFilesTypeOK
<1>2. written[l] \in [handler : Handlers, on_console : BOOLEAN, file : FileNames \cup {""}]
  BY DEF LogFilesTypeOK
<1>3. PICK f : f = FileWidth(l)
  OBVIOUS
<1>4. PICK w : w = Width(l)
  OBVIOUS
<1>5. PICK n : n = Total(l)
  OBVIOUS
<1>6. w \in {2, 3}
  BY <1>1, <1>4
<1>7. \/ f = 0 /\ written[l].file = ""
      \/ f = w /\ written[l].file # ""
  BY <1>3, <1>4 DEF FileWidth
<1>8. f = 0 \/ f = w
  BY <1>7
<1>9. f \in {0, w} /\ f \in Nat /\ f + 0 = f
  BY <1>6, <1>8
<1>10. f = 0 <=> written[l].file = ""
  <2>1. w # 0
    BY <1>6
  <2> QED BY <1>7, <2>1
<1>11. n = f + w \/ n = f + 0
  BY <1>3, <1>4, <1>5 DEF Total
<1>12. n \in {f, f + w} /\ n \in Nat
  BY <1>6, <1>9, <1>11
<1> QED BY <1>1, <1>2, <1>3, <1>4, <1>5, <1>9, <1>10, <1>12

\* What is done next of a line that is in hand.
LEMMA NextPiece ==
  ASSUME LogFilesTypeOK, NEW c \in Callers, Calling(c) = "emit", NEW l \in DOMAIN written,
         NEW k \in 0 .. Total(l), InHand(c, l, k)
  PROVE  /\ calls[c].todo \in Seq(ToDos) /\ Len(calls[c].todo) = Total(l) - k
         /\ calls[c].todo = <<>> <=> k = Total(l)
         /\ \A i \in 1 .. Len(calls[c].todo) : calls[c].todo[i].piece.line = l
         /\ k < FileWidth(l) =>
              /\ calls[c].todo # <<>>
              /\ Head(calls[c].todo) = [place |-> "file", piece |-> LinePieces(l)[k + 1]]
         /\ k >= FileWidth(l) /\ k # Total(l) =>
              /\ k - FileWidth(l) + 1 \in 1 .. Width(l)
              /\ Head(calls[c].todo) =
                   [place |-> "console", piece |-> LinePieces(l)[k - FileWidth(l) + 1]]
         /\ written[l].on_console /\ k # Total(l) =>
              calls[c].todo[Len(calls[c].todo)] = [place |-> "console", piece |-> LinePieces(l)[Width(l)]]
<1>1. calls[c].todo \in Seq(ToDos)
  BY DEF LogFilesTypeOK, Calls, Calling, ToDos
<1>2. PICK todo : todo = calls[c].todo
  OBVIOUS
<1>3. /\ l \in Lines /\ Width(l) \in {2, 3} /\ FileWidth(l) \in {0, Width(l)}
      /\ Total(l) \in {FileWidth(l), FileWidth(l) + Width(l)} /\ Total(l) \in Nat
      /\ written[l].on_console => Total(l) = FileWidth(l) + Width(l)
  BY WidthTypes DEF Total
<1>4. /\ Len(todo) = Total(l) - k
      /\ \A i \in 1 .. Len(todo) :
           todo[i] = IF k + i <= FileWidth(l)
                     THEN [place |-> "file", piece |-> LinePieces(l)[k + i]]
                     ELSE [place |-> "console", piece |-> LinePieces(l)[k + i - FileWidth(l)]]
  BY <1>2 DEF InHand, ToCome
<1>5. \A i \in 1 .. Width(l) : LinePieces(l)[i].line = l
  BY <1>3, PieceFacts
<1>6. todo = <<>> <=> k = Total(l)
  BY <1>1, <1>2, <1>3, <1>4, EmptySeq
<1>7. ASSUME NEW i \in 1 .. Len(todo) PROVE todo[i].piece.line = l
  <2>1. CASE k + i <= FileWidth(l)
    <3>1. k + i \in 1 .. Width(l)
      BY <1>3, <2>1
    <3> QED BY <1>4, <1>5, <2>1, <3>1
  <2>2. CASE k + i > FileWidth(l)
    <3>1. k + i - FileWidth(l) \in 1 .. Width(l)
      BY <1>3, <1>4, <2>2
    <3>2. todo[i] = [place |-> "console", piece |-> LinePieces(l)[k + i - FileWidth(l)]]
      BY <1>3, <1>4, <2>2
    <3> QED BY <1>5, <3>1, <3>2
  <2> QED BY <1>3, <2>1, <2>2
<1>8. k # Total(l) => Head(todo) = todo[1] /\ 1 \in 1 .. Len(todo)
  BY <1>1, <1>2, <1>3, <1>4
<1>9. k < FileWidth(l) => /\ todo # <<>>
                          /\ Head(todo) = [place |-> "file", piece |-> LinePieces(l)[k + 1]]
  BY <1>3, <1>4, <1>6, <1>8
<1>10. ASSUME k >= FileWidth(l), k # Total(l)
       PROVE  /\ k - FileWidth(l) + 1 \in 1 .. Width(l)
              /\ Head(todo) = [place |-> "console", piece |-> LinePieces(l)[k - FileWidth(l) + 1]]
  <2>1. k - FileWidth(l) + 1 \in 1 .. Width(l) /\ k + 1 - FileWidth(l) = k - FileWidth(l) + 1
    BY <1>3, <1>10
  <2>2. ~(k + 1 <= FileWidth(l))
    BY <1>3, <1>10
  <2> QED BY <1>4, <1>8, <1>10, <2>1, <2>2
<1>11. ASSUME written[l].on_console, k # Total(l)
       PROVE  todo[Len(todo)] = [place |-> "console", piece |-> LinePieces(l)[Width(l)]]
  <2>1. /\ Len(todo) \in 1 .. Len(todo) /\ ~(k + Len(todo) <= FileWidth(l))
        /\ k + Len(todo) - FileWidth(l) = Width(l)
    BY <1>3, <1>4, <1>11
  <2> QED BY <1>4, <2>1
<1> QED BY <1>1, <1>2, <1>4, <1>6, <1>7, <1>9, <1>10, <1>11

\* How far a line has come, before and after a piece of it.
LEMMA Counts ==
  ASSUME LogFilesTypeOK, NEW l \in DOMAIN written, NEW k \in 0 .. Total(l)
  PROVE  /\ InStream(l, k) \in 0 .. Width(l) /\ InFile(l, k) \in 0 .. InStream(l, k)
         /\ OnScreen(l, k) \in 0 .. Width(l)
         /\ k < FileWidth(l) => /\ FileWidth(l) = Width(l) /\ k + 1 \in 1 .. Width(l)
                                /\ InStream(l, k) = k /\ InStream(l, k + 1) = k + 1
                                /\ OnScreen(l, k) = 0 /\ OnScreen(l, k + 1) = 0
         /\ k >= FileWidth(l) => /\ InStream(l, k) = FileWidth(l) /\ InStream(l, k + 1) = FileWidth(l)
                                 /\ InFile(l, k + 1) = InFile(l, k)
                                 /\ OnScreen(l, k) = k - FileWidth(l)
                                 /\ OnScreen(l, k + 1) = (k - FileWidth(l)) + 1
         /\ k < FileWidth(l) /\ (k + 1 = Width(l) \/ (l \in LongLines /\ k + 1 = Width(l) - 1)) =>
              InFile(l, k + 1) = k + 1
         /\ k < FileWidth(l) /\ ~(k + 1 = Width(l) \/ (l \in LongLines /\ k + 1 = Width(l) - 1)) =>
              InFile(l, k + 1) = InFile(l, k)
         /\ InFile(l, k) = 0 \/ (InFile(l, k) = Width(l) - 1 /\ l \in LongLines) \/ InFile(l, k) = Width(l)
<1>1. Width(l) \in {2, 3} /\ FileWidth(l) \in {0, Width(l)} /\ Total(l) \in Nat
  BY WidthTypes
<1>2. PICK w : w = Width(l)
  OBVIOUS
<1>3. PICK f : f = FileWidth(l)
  OBVIOUS
<1>4. PICK n : n = Total(l)
  OBVIOUS
<1> DEFINE long == l \in LongLines
<1> HIDE DEF long
<1>5. n \in {f, f + w} /\ k \in 0 .. n
  BY <1>2, <1>3, <1>4, WidthTypes
<1>a. w \in {2, 3} /\ f \in {0, w} /\ k \in Nat /\ k <= f + w
  <2>1. w \in {2, 3} /\ f \in {0, w}
    BY <1>1, <1>2, <1>3
  <2> QED BY <1>5, <2>1
<1>6. ASSUME NEW j \in Nat
      PROVE  /\ j < f => InStream(l, j) = j /\ OnScreen(l, j) = 0
             /\ j >= f => InStream(l, j) = f /\ OnScreen(l, j) = j - f
             /\ InStream(l, j) = w \/ (long /\ InStream(l, j) = w - 1) => InFile(l, j) = InStream(l, j)
             /\ ~(InStream(l, j) = w \/ (long /\ InStream(l, j) = w - 1)) => InFile(l, j) = 0
  <2>1. InStream(l, j) = (IF j < f THEN j ELSE f) /\ OnScreen(l, j) = (IF j < f THEN 0 ELSE j - f)
    BY <1>3 DEF InStream, OnScreen
  <2>2. j < f => ~(j >= f)
    BY <1>a
  <2>3. j >= f => ~(j < f)
    BY <1>a
  <2>4. InStream(l, j) = w \/ (long /\ InStream(l, j) = w - 1) => InFile(l, j) = InStream(l, j)
    BY <1>2 DEF InFile, long
  <2>5. ~(InStream(l, j) = w \/ (long /\ InStream(l, j) = w - 1)) => InFile(l, j) = 0
    BY <1>2 DEF InFile, long
  <2> QED BY <2>1, <2>2, <2>3, <2>4, <2>5
<1>7. OnScreen(l, k) \in 0 .. w
  <2>1. k < f \/ k >= f
    BY <1>a
  <2> QED BY <1>a, <1>6, <2>1
<1>8. PICK m : m = InStream(l, k)
  OBVIOUS
<1>9. PICK a : a = InFile(l, k)
  OBVIOUS
<1>10. m \in 0 .. w
  <2>1. k < f \/ k >= f
    BY <1>a
  <2> QED BY <1>a, <1>6, <1>8, <2>1
<1>11. \/ a = m /\ (m = w \/ (long /\ m = w - 1))
       \/ a = 0 /\ ~(m = w \/ (long /\ m = w - 1))
  BY <1>6, <1>8, <1>9
<1>12. a \in 0 .. m /\ (a = 0 \/ (a = w - 1 /\ long) \/ a = w)
  BY <1>a, <1>10, <1>11
<1>13. ASSUME k < f
       PROVE  /\ f = w /\ k + 1 \in 1 .. w /\ m = k /\ InStream(l, k + 1) = k + 1
              /\ OnScreen(l, k) = 0 /\ OnScreen(l, k + 1) = 0
              /\ k + 1 = w \/ (long /\ k + 1 = w - 1) => InFile(l, k + 1) = k + 1
              /\ ~(k + 1 = w \/ (long /\ k + 1 = w - 1)) => InFile(l, k + 1) = a
  <2>1. f = w /\ k + 1 \in 1 .. w /\ k + 1 \in Nat
    BY <1>a, <1>13
  <2>2. m = k /\ OnScreen(l, k) = 0
    BY <1>6, <1>8, <1>13
  <2>3. InStream(l, k + 1) = k + 1 /\ OnScreen(l, k + 1) = 0
    <3>1. CASE k + 1 < f
      BY <1>6, <2>1, <3>1
    <3>2. CASE k + 1 = f
      <4>1. k + 1 >= f /\ (k + 1) - f = 0
        BY <1>a, <3>2
      <4> QED BY <1>6, <2>1, <3>2, <4>1
    <3> QED BY <1>a, <2>1, <3>1, <3>2
  <2>4. k + 1 = w \/ (long /\ k + 1 = w - 1) => InFile(l, k + 1) = k + 1
    BY <1>6, <2>1, <2>3
  <2>5. ASSUME ~(k + 1 = w \/ (long /\ k + 1 = w - 1)) PROVE InFile(l, k + 1) = a
    <3>1. InFile(l, k + 1) = 0
      BY <1>6, <2>1, <2>3, <2>5
    <3>2. a = 0
      BY <1>a, <1>11, <1>13, <2>1, <2>2, <2>5
    <3> QED BY <3>1, <3>2
  <2> QED BY <2>1, <2>2, <2>3, <2>4, <2>5
<1>14. ASSUME k >= f
       PROVE  /\ m = f /\ InStream(l, k + 1) = f /\ InFile(l, k + 1) = a
              /\ OnScreen(l, k) = k - f /\ OnScreen(l, k + 1) = (k - f) + 1
  <2>1. k + 1 \in Nat /\ k + 1 >= f /\ (k + 1) - f = (k - f) + 1
    BY <1>a, <1>14
  <2>2. m = f /\ InStream(l, k + 1) = f /\ OnScreen(l, k) = k - f /\ OnScreen(l, k + 1) = (k - f) + 1
    BY <1>a, <1>6, <1>8, <1>14, <2>1
  <2>3. InFile(l, k + 1) = a
    <3>1. CASE f = w \/ (long /\ f = w - 1)
      BY <1>6, <1>11, <2>1, <2>2, <3>1
    <3>2. CASE ~(f = w \/ (long /\ f = w - 1))
      BY <1>6, <1>11, <2>1, <2>2, <3>2
    <3> QED BY <3>1, <3>2
  <2> QED BY <2>2, <2>3
<1> QED BY <1>2, <1>3, <1>7, <1>8, <1>9, <1>10, <1>12, <1>13, <1>14 DEF long

\* A line that nothing is left to do of.
LEMMA AllDone ==
  ASSUME LogFilesTypeOK, NEW l \in DOMAIN written
  PROVE  /\ InStream(l, Total(l)) = FileWidth(l) /\ InFile(l, Total(l)) = FileWidth(l)
         /\ OnScreen(l, Total(l)) = IF written[l].on_console THEN Width(l) ELSE 0
<1>1. /\ Width(l) \in {2, 3} /\ FileWidth(l) \in {0, Width(l)} /\ Total(l) \in Nat
      /\ Total(l) \in {FileWidth(l), FileWidth(l) + Width(l)}
  BY WidthTypes
<1>2. PICK w : w = Width(l)
  OBVIOUS
<1>3. PICK f : f = FileWidth(l)
  OBVIOUS
<1>4. PICK n : n = Total(l)
  OBVIOUS
<1>5. w \in {2, 3} /\ f \in {0, w} /\ n \in {f, f + w} /\ n >= f
  BY <1>1, <1>2, <1>3, <1>4
<1>6. InStream(l, n) = f /\ OnScreen(l, n) = n - f
  BY <1>3, <1>5 DEF InStream, OnScreen
<1>7. InFile(l, n) = f
  <2>1. CASE f = w
    BY <1>2, <1>6, <2>1 DEF InFile
  <2>2. CASE f = 0
    BY <1>6, <2>2 DEF InFile
  <2> QED BY <1>5, <2>1, <2>2
<1>8. written[l].on_console => n - f = w
  <2>1. written[l].on_console => n = f + w
    BY <1>2, <1>3, <1>4 DEF Total
  <2> QED BY <1>5, <2>1
<1>9. ~written[l].on_console => n - f = 0
  <2>1. ~written[l].on_console => n = f + 0
    BY <1>2, <1>3, <1>4 DEF Total
  <2> QED BY <1>5, <2>1
<1> QED BY <1>2, <1>3, <1>4, <1>6, <1>7, <1>8, <1>9

\* A line that nothing is written of yet.
LEMMA NothingDone ==
  ASSUME LogFilesTypeOK, NEW l \in DOMAIN written
  PROVE  InStream(l, 0) = 0 /\ InFile(l, 0) = 0 /\ OnScreen(l, 0) = 0
<1>1. Width(l) \in {2, 3} /\ FileWidth(l) \in {0, Width(l)}
  BY WidthTypes
<1>2. InStream(l, 0) = 0 /\ OnScreen(l, 0) = 0
  BY <1>1 DEF InStream, OnScreen
<1>3. InFile(l, 0) = 0
  BY <1>2 DEF InFile
<1> QED BY <1>2, <1>3

-----------------------------------------------------------------------------
(* Steps that leave what is in hand.                                       *)

\* The numbers of a line depend on where it goes, which is recorded once.
LEMMA WidthsKept ==
  ASSUME NEW l, written'[l] = written[l]
  PROVE  /\ FileWidth(l)' = FileWidth(l) /\ Total(l)' = Total(l)
         /\ \A k : /\ InStream(l, k)' = InStream(l, k) /\ InFile(l, k)' = InFile(l, k)
                   /\ OnScreen(l, k)' = OnScreen(l, k)
<1>1. FileWidth(l)' = FileWidth(l)
  BY DEF FileWidth
<1>2. Total(l)' = Total(l)
  BY <1>1 DEF Total
<1>3. \A k : InStream(l, k)' = InStream(l, k)
  BY <1>1 DEF InStream
<1>4. \A k : InFile(l, k)' = InFile(l, k)
  BY <1>3 DEF InFile
<1>5. \A k : OnScreen(l, k)' = OnScreen(l, k)
  BY <1>1 DEF OnScreen
<1> QED BY <1>1, <1>2, <1>3, <1>4, <1>5

\* What has arrived of a line stays, when other lines are written.
LEMMA ArrivedKept ==
  ASSUME NEW l, NEW k, written'[l] = written[l], Arrived(l, k),
         \A name \in FileNames, n \in {0, InFile(l, k)} :
           HasPieces(logFiles[name], l, n) => HasPieces(logFiles'[name], l, n),
         HasPieces(console, l, OnScreen(l, k)) => HasPieces(console', l, OnScreen(l, k))
  PROVE  Arrived(l, k)'
<1>1. InFile(l, k)' = InFile(l, k) /\ OnScreen(l, k)' = OnScreen(l, k)
  BY WidthsKept
<1>2. ASSUME NEW name \in FileNames
      PROVE  HasPieces(logFiles'[name], l, IF name = written'[l].file THEN InFile(l, k)' ELSE 0)
  <2>1. CASE name = written[l].file
    <3>1. HasPieces(logFiles[name], l, InFile(l, k))
      BY <2>1 DEF Arrived
    <3> QED BY <1>1, <2>1, <3>1
  <2>2. CASE name # written[l].file
    <3>1. HasPieces(logFiles[name], l, 0)
      BY <2>2 DEF Arrived
    <3>2. HasPieces(logFiles'[name], l, 0)
      BY <3>1
    <3> QED BY <2>2, <3>2
  <2> QED BY <2>1, <2>2
<1>3. HasPieces(console', l, OnScreen(l, k)')
  BY <1>1 DEF Arrived
<1> QED BY <1>2, <1>3 DEF Arrived

\* A call that is not concerned has its line in hand as before.
LEMMA InHandKept ==
  ASSUME NEW c, NEW l, NEW k, InHand(c, l, k), calls'[c] = calls[c], written'[l] = written[l],
         logHandlers'[calls[c].handler].stream = logHandlers[calls[c].handler].stream,
         Arrived(l, k)'
  PROVE  InHand(c, l, k)'
<1>1. /\ FileWidth(l)' = FileWidth(l) /\ Total(l)' = Total(l)
      /\ InStream(l, k)' = InStream(l, k) /\ InFile(l, k)' = InFile(l, k)
  BY WidthsKept
<1>2. Calling(c)' = "emit" /\ calls'[c].handler = written'[l].handler
  BY DEF InHand, Calling
<1>3. ToCome(calls[c].todo, l, k)'
  <2>1. ToCome(calls[c].todo, l, k)
    BY DEF InHand
  <2> QED BY <1>1, <2>1 DEF ToCome
<1>4. HeldBack(Handler(calls[c].handler).stream, l, k)'
  <2>1. HeldBack(Handler(calls[c].handler).stream, l, k)
    BY DEF InHand
  <2> QED BY <1>1, <2>1 DEF HeldBack, Handler
<1> QED BY <1>2, <1>3, <1>4 DEF InHand

\* The calls that write are the same and nothing is written.
Quiet ==
  /\ logFiles' = logFiles /\ console' = console /\ written' = written
  /\ \A c \in Callers : /\ calls[c].op = "emit" => calls'[c] = calls[c]
                        /\ calls'[c].op = "emit" => calls'[c] = calls[c]
  /\ \A h \in Handlers : ~Unlocked(h) => logHandlers'[h].stream = logHandlers[h].stream

\* The call that has a line in hand holds the lock of its handler.
LEMMA LockedInHand ==
  ASSUME LogFilesTypeOK, CallsHold, NEW c \in Callers, NEW l, NEW k, InHand(c, l, k)
  PROVE  /\ calls[c].op = "emit" /\ calls[c].handler \in Handlers /\ ~Unlocked(calls[c].handler)
         /\ calls[c].handler = written[l].handler /\ logHandlers[calls[c].handler].lock = c
<1>1. calls[c].op = "emit" /\ calls[c].handler = written[l].handler
  BY DEF InHand, Calling
<1>2. calls[c].handler \in Handlers
  BY <1>1 DEF LogFilesTypeOK, Calls
<1>3. logHandlers[calls[c].handler].lock = c
  BY <1>1, <1>2 DEF CallsHold, Calling, Handler
<1> QED BY <1>1, <1>2, <1>3, LogFilesAssumption DEF Unlocked

\* Such a step keeps every line where it is.
LEMMA QuietKeeps ==
  ASSUME LogFilesInv, Quiet
  PROVE  (LinesTracked /\ NothingForeign /\ FilesTogether /\ ConsoleInOrder)'
<1>0. LogFilesTypeOK /\ CallsHold /\ LinesTracked /\ NothingForeign /\ FilesTogether /\ ConsoleInOrder
  BY DEF LogFilesInv
<1>1. ASSUME NEW l \in DOMAIN written, NEW k, Arrived(l, k) PROVE Arrived(l, k)'
  BY <1>1, ArrivedKept DEF Quiet
<1>2. ASSUME NEW c \in Callers, NEW l \in DOMAIN written, NEW k, InHand(c, l, k) PROVE InHand(c, l, k)'
  <2>1. calls[c].op = "emit" /\ calls[c].handler \in Handlers /\ ~Unlocked(calls[c].handler)
    BY <1>0, <1>2, LockedInHand
  <2>2. /\ calls'[c] = calls[c] /\ written'[l] = written[l]
        /\ logHandlers'[calls[c].handler].stream = logHandlers[calls[c].handler].stream
    BY <2>1 DEF Quiet
  <2>3. Arrived(l, k)'
    BY <1>1, <1>2 DEF InHand
  <2> QED BY <1>2, <2>2, <2>3, InHandKept
<1>3. \A l \in DOMAIN written : Total(l)' = Total(l)
  BY WidthsKept DEF Quiet
<1>4. LinesTracked'
  <2>1. ASSUME NEW c \in Callers, calls'[c].op = "emit"
        PROVE  \E l \in DOMAIN written : \E k \in 0 .. Total(l) : InHand(c, l, k)'
    BY <1>0, <1>2, <2>1 DEF Quiet, LinesTracked, Calling
  <2>2. ASSUME NEW l \in DOMAIN written
        PROVE  \/ Arrived(l, Total(l))'
               \/ \E c \in Callers : \E k \in 0 .. Total(l) : InHand(c, l, k)'
    <3>1. CASE Arrived(l, Total(l))
      <4>1. PICK k : k = Total(l)
        OBVIOUS
      <4>2. Arrived(l, k)'
        BY <1>1, <3>1, <4>1
      <4> QED BY <1>3, <4>1, <4>2 DEF Arrived
    <3>2. CASE \E c \in Callers : \E k \in 0 .. Total(l) : InHand(c, l, k)
      BY <1>2, <3>2
    <3> QED BY <1>0, <3>1, <3>2 DEF LinesTracked
  <2>3. DOMAIN written' = DOMAIN written
    BY DEF Quiet
  <2> QED BY <1>3, <2>1, <2>2, <2>3 DEF LinesTracked, Calling
<1>5. NothingForeign' /\ FilesTogether'
  BY <1>0 DEF Quiet, NothingForeign, OnlyWritten, FilesTogether
<1>6. \A l : EndToCome(l) => EndToCome(l)'
  BY DEF EndToCome, Quiet, Calling
<1>7. /\ \A i : Owner(i)' = Owner(i)
      /\ \A i : LastOne(i)' <=> LastOne(i)
      /\ \A i, j : NoneBetween(i, j)' <=> NoneBetween(i, j)
  BY DEF Owner, NoneBetween, LastOne, Quiet
<1>8. ConsoleInOrder'
  BY <1>0, <1>6, <1>7 DEF ConsoleInOrder, Quiet
<1> QED BY <1>4, <1>5, <1>8

-----------------------------------------------------------------------------
(* The steps that write nothing.                                           *)

BasicInv == LogFilesTypeOK /\ CallsHold /\ StreamsAtRest /\ FaultNotOpened

\* The types, handler by handler and call by call.
LEMMA HandlerTypes ==
  ASSUME LogFilesTypeOK, NEW h \in Handlers
  PROVE  /\ logHandlers[h] \in HandlerStates
         /\ Handler(h).stream # NoStream =>
              /\ Handler(h).stream.name \in FileNames /\ Handler(h).stream.collected \in Seq(Pieces)
<1>1. logHandlers[h] \in HandlerStates
  BY DEF LogFilesTypeOK
<1> QED BY <1>1 DEF HandlerStates, Handler, Streams

LEMMA CallTypes ==
  ASSUME LogFilesTypeOK, NEW c \in Callers
  PROVE  /\ calls[c].op \in {"idle", "open", "emit"}
         /\ calls[c].op # "idle" => calls[c].handler \in Handlers
         /\ calls[c].op = "open" => \E name \in FileNames : calls[c].stream = Stream(name)
         /\ calls[c].op = "emit" => calls[c].todo \in Seq(ToDos)
<1>1. calls[c] \in Calls
  BY DEF LogFilesTypeOK
<1>2. CASE calls[c] \in [op : {"idle"}]
  BY <1>2
<1>3. CASE calls[c] \in [op : {"open"}, handler : Handlers, stream : {Stream(name) : name \in FileNames}]
  BY <1>3
<1>4. CASE calls[c] \in [op : {"emit"}, handler : Handlers, todo : Seq(ToDos)]
  BY <1>4
<1> QED BY <1>1, <1>2, <1>3, <1>4 DEF Calls, ToDos

\* The parts of the invariant, handler by handler and call by call.
LEMMA CallsHoldAll ==
  ASSUME \A h \in Handlers, c \in Callers :
           logHandlers[h].lock = c <=> (calls[c].op = "emit" /\ calls[c].handler = h),
         \A c \in Callers : calls[c].op # "idle" => logHandlers[calls[c].handler].life = "alive"
  PROVE  CallsHold
  BY DEF CallsHold, Calling, Alive, Handler

LEMMA CallsHoldEach ==
  ASSUME CallsHold, NEW c \in Callers
  PROVE  /\ \A h \in Handlers : logHandlers[h].lock = c <=> (calls[c].op = "emit" /\ calls[c].handler = h)
         /\ calls[c].op # "idle" => logHandlers[calls[c].handler].life = "alive"
  BY DEF CallsHold, Calling, Alive, Handler

AtRest(handler) ==
  /\ handler.lock = Nobody /\ handler.stream # NoStream => handler.stream.collected = <<>>
  /\ handler.stream # NoStream => handler.out_file_name = handler.stream.name
  /\ handler.opened /\ handler.life # "destroyed" => handler.stream # NoStream

LEMMA StreamsAtRestEach == StreamsAtRest <=> \A h \in Handlers : AtRest(logHandlers[h])
  BY DEF StreamsAtRest, AtRest, Unlocked, Handler

\* A stream that was opened now.
LEMMA StreamType ==
  ASSUME NEW name \in FileNames
  PROVE  /\ Stream(name) \in Streams /\ Stream(name) # NoStream
         /\ Stream(name).name = name /\ Stream(name).collected = <<>>
<1>1. Stream(name) \in Streams
  BY DEF Stream, Streams
<1>2. NoStream \notin Streams
  BY LogFilesAssumption DEF Streams
<1> QED BY <1>1, <1>2 DEF Stream

\* A stream that holds nothing back is flushed without effect.
LEMMA EmptyFlush ==
  ASSUME LogFilesTypeOK, NEW h \in Handlers, Handler(h).stream # NoStream,
         Handler(h).stream.collected = <<>>
  PROVE  /\ [logFiles EXCEPT ![Handler(h).stream.name] = @ \o Handler(h).stream.collected] = logFiles
         /\ [logHandlers EXCEPT ![h].stream.collected = <<>>] = logHandlers
<1>1. Handler(h).stream.name \in FileNames
  BY HandlerTypes
<1>2. logFiles[Handler(h).stream.name] \o <<>> = logFiles[Handler(h).stream.name]
  <2>1. logFiles[Handler(h).stream.name] \in Seq(Pieces)
    BY <1>1 DEF LogFilesTypeOK
  <2> QED BY <2>1, ConcatEmptySeq
<1>3. [logFiles EXCEPT ![Handler(h).stream.name] = @ \o Handler(h).stream.collected] = logFiles
  BY <1>1, <1>2 DEF LogFilesTypeOK
<1>4. PICK s : s = logHandlers[h].stream
  OBVIOUS
<1>5. s \in Streams /\ s.collected = <<>>
  BY <1>4, HandlerTypes DEF Handler, HandlerStates
<1>6. [s EXCEPT !.collected = <<>>] = s
  BY <1>5 DEF Streams
<1>7. [logHandlers[h] EXCEPT !.stream = s] = logHandlers[h]
  BY <1>4, HandlerTypes DEF HandlerStates
<1>8. [logHandlers EXCEPT ![h].stream.collected = <<>>] = logHandlers
  BY <1>4, <1>6, <1>7 DEF LogFilesTypeOK
<1> QED BY <1>3, <1>8

\* A handler is made that nobody calls yet.
LEMMA MakeHandlerQuiet ==
  ASSUME BasicInv, fault = Nobody, NEW h \in Handlers, MakeHandler(h)
  PROVE  BasicInv' /\ Quiet
<1>1. /\ logHandlers[h].life = "none"
      /\ UNCHANGED <<calls, logFiles, console, written, opens, fault>>
  BY DEF MakeHandler
<1>2. PICK flags \in FlagSets \cup {{}}, stream \in Streams \cup {NoStream} :
        /\ NewHandler(h, flags, stream)
        /\ stream # NoStream => stream.name \in FileNames /\ stream.collected = <<>>
  BY StreamType DEF MakeHandler
<1>3. PICK new : new = [life |-> "alive", stream |-> stream, lock |-> Nobody, flags |-> flags,
                        out_file_name |-> IF stream = NoStream THEN "" ELSE stream.name,
                        opened |-> stream # NoStream]
  OBVIOUS
<1>4. /\ new.life = "alive" /\ new.stream = stream /\ new.lock = Nobody
      /\ new \in HandlerStates
      /\ new.opened <=> stream # NoStream
      /\ stream # NoStream => new.out_file_name = stream.name
  BY <1>2, <1>3 DEF HandlerStates
<1>5. logHandlers' = [logHandlers EXCEPT ![h] = new]
  BY <1>2, <1>3 DEF NewHandler
<1>6. logHandlers'[h] = new /\ \A g \in Handlers \ {h} : logHandlers'[g] = logHandlers[g]
  BY <1>5 DEF BasicInv, LogFilesTypeOK
<1>0. LogFilesTypeOK /\ CallsHold
  BY DEF BasicInv
<1>7. \A c \in Callers : calls[c].op # "idle" => calls[c].handler # h
  BY <1>0, <1>1, CallsHoldEach
<1>8. \A c \in Callers : logHandlers[h].lock # c
  BY <1>0, <1>7, CallsHoldEach
<1>9. LogFilesTypeOK'
  BY <1>1, <1>4, <1>5 DEF BasicInv, LogFilesTypeOK
<1>10. CallsHold'
  <2>1. ASSUME NEW g \in Handlers, NEW c \in Callers
        PROVE  logHandlers'[g].lock = c <=> (calls'[c].op = "emit" /\ calls'[c].handler = g)
    <3>1. CASE g = h
      BY <1>1, <1>4, <1>6, <1>7, <3>1, LogFilesAssumption
    <3>2. CASE g # h
      BY <1>0, <1>1, <1>6, <3>2, CallsHoldEach
    <3> QED BY <3>1, <3>2
  <2>2. ASSUME NEW c \in Callers, calls'[c].op # "idle"
        PROVE  logHandlers'[calls'[c].handler].life = "alive"
    BY <1>0, <1>1, <1>6, <1>7, <2>2, CallTypes, CallsHoldEach
  <2> QED BY <2>1, <2>2 DEF CallsHold, Calling, Alive, Handler
<1>11. StreamsAtRest'
  <2>1. AtRest(new)
    BY <1>2, <1>4 DEF AtRest
  <2>2. \A g \in Handlers : AtRest(logHandlers'[g])
    BY <1>6, <2>1, StreamsAtRestEach DEF BasicInv
  <2> QED BY <2>2 DEF StreamsAtRest, AtRest, Unlocked, Handler
<1>12. FaultNotOpened'
  BY <1>1 DEF FaultNotOpened
<1>13. Unlocked(h)
  <2>1. logHandlers[h].lock \in Callers \cup {Nobody}
    BY HandlerTypes DEF BasicInv, HandlerStates
  <2> QED BY <1>8, <2>1 DEF Unlocked, Handler
<1>14. Quiet
  BY <1>1, <1>6, <1>13 DEF Quiet
<1> QED BY <1>9, <1>10, <1>11, <1>12, <1>14 DEF BasicInv

\* A file is opened for a handler, which keeps its own for now.
LEMMA OpenNewFileQuiet ==
  ASSUME BasicInv, fault = Nobody, NEW c \in Callers, NEW h \in Handlers, OpenNewFile(c, h)
  PROVE  BasicInv' /\ Quiet
<1>1. PICK name \in FileNames :
        /\ calls[c].op = "idle" /\ Alive(h)
        /\ calls' = [calls EXCEPT ![c] = [op |-> "open", handler |-> h, stream |-> Stream(name)]]
        /\ UNCHANGED <<logHandlers, logFiles, console, written, fault>>
  BY DEF OpenNewFile, NotCalling, Calling
<1>2. /\ calls'[c].op = "open" /\ calls'[c].handler = h
      /\ \A d \in Callers \ {c} : calls'[d] = calls[d]
  BY <1>1 DEF BasicInv, LogFilesTypeOK
<1>3. LogFilesTypeOK'
  <2>1. [op |-> "open", handler |-> h, stream |-> Stream(name)] \in Calls
    BY DEF Calls
  <2> QED BY <1>1, <2>1 DEF BasicInv, LogFilesTypeOK
<1>4. CallsHold'
  BY <1>1, <1>2 DEF BasicInv, CallsHold, Calling, Alive, Handler
<1>5. StreamsAtRest' /\ FaultNotOpened'
  BY <1>1 DEF BasicInv, StreamsAtRest, FaultNotOpened, Unlocked, Handler
<1>6. Quiet
  BY <1>1, <1>2 DEF Quiet
<1> QED BY <1>3, <1>4, <1>5, <1>6 DEF BasicInv

\* The handler is unlocked, so that its old stream holds nothing back when it is closed.
LEMMA SwapFileQuiet ==
  ASSUME BasicInv, fault = Nobody, NEW c \in Callers, SwapFile(c)
  PROVE  BasicInv' /\ Quiet
<1>1. PICK h : h = calls[c].handler
  OBVIOUS
<1>2. PICK stream : stream = calls[c].stream
  OBVIOUS
<1>3. /\ calls[c].op = "open" /\ Unlocked(h)
      /\ logHandlers' = [logHandlers EXCEPT ![h].stream = stream, ![h].out_file_name = stream.name,
                                            ![h].opened = TRUE]
      /\ calls' = [calls EXCEPT ![c] = [op |-> "idle"]]
      /\ UNCHANGED <<console, written, opens, fault>>
      /\ logFiles' = IF Handler(h).stream = NoStream THEN logFiles
                     ELSE [logFiles EXCEPT ![Handler(h).stream.name] = @ \o Handler(h).stream.collected]
  BY <1>1, <1>2 DEF SwapFile, Calling, Return
<1>4. h \in Handlers /\ \E name \in FileNames : stream = Stream(name)
  BY <1>1, <1>2, <1>3, CallTypes DEF BasicInv
<1>5. /\ stream \in Streams /\ stream # NoStream /\ stream.name \in FileNames
      /\ stream.collected = <<>>
  BY <1>4, StreamType
<1>6. /\ logHandlers'[h] = [logHandlers[h] EXCEPT !.stream = stream, !.out_file_name = stream.name,
                                                  !.opened = TRUE]
      /\ \A g \in Handlers \ {h} : logHandlers'[g] = logHandlers[g]
  BY <1>3, <1>4 DEF BasicInv, LogFilesTypeOK
<1>7. /\ logHandlers'[h].life = logHandlers[h].life /\ logHandlers'[h].lock = logHandlers[h].lock
      /\ logHandlers'[h].stream = stream /\ logHandlers'[h].out_file_name = stream.name
      /\ logHandlers'[h] \in HandlerStates
  BY <1>4, <1>5, <1>6, HandlerTypes DEF BasicInv, HandlerStates
<1>8. logFiles' = logFiles
  <2>1. CASE Handler(h).stream = NoStream
    BY <1>3, <2>1
  <2>2. CASE Handler(h).stream # NoStream
    <3>1. Handler(h).stream.collected = <<>>
      BY <1>3, <1>4, <2>2 DEF BasicInv, StreamsAtRest, Unlocked
    <3> QED BY <1>3, <1>4, <2>2, <3>1, EmptyFlush DEF BasicInv
  <2> QED BY <2>1, <2>2
<1>9. calls'[c].op = "idle" /\ \A d \in Callers \ {c} : calls'[d] = calls[d]
  BY <1>3 DEF BasicInv, LogFilesTypeOK
<1>10. LogFilesTypeOK'
  <2>1. [op |-> "idle"] \in Calls
    BY DEF Calls
  <2>2. calls' \in [Callers -> Calls]
    BY <1>3, <2>1 DEF BasicInv, LogFilesTypeOK
  <2>3. DOMAIN logHandlers' = Handlers /\ logHandlers' = [g \in Handlers |-> logHandlers'[g]]
    BY <1>3 DEF BasicInv, LogFilesTypeOK
  <2>4. \A g \in Handlers :
          logHandlers'[g] \in HandlerStates
    BY <1>6, <1>7, HandlerTypes DEF BasicInv
  <2> QED BY <1>3, <1>8, <2>2, <2>3, <2>4 DEF BasicInv, LogFilesTypeOK
<1>11. CallsHold'
  <2>1. ASSUME NEW g \in Handlers, NEW d \in Callers
        PROVE  logHandlers'[g].lock = d <=> (calls'[d].op = "emit" /\ calls'[d].handler = g)
    <3>1. logHandlers'[g].lock = logHandlers[g].lock
      BY <1>6, <1>7
    <3>2. logHandlers[g].lock = d <=> (calls[d].op = "emit" /\ calls[d].handler = g)
      BY CallsHoldEach DEF BasicInv
    <3>3. CASE d = c
      BY <1>3, <1>9, <3>1, <3>2, <3>3
    <3>4. CASE d # c
      BY <1>9, <3>1, <3>2, <3>4
    <3> QED BY <3>3, <3>4
  <2>2. ASSUME NEW d \in Callers, calls'[d].op # "idle"
        PROVE  logHandlers'[calls'[d].handler].life = "alive"
    <3>1. calls'[d] = calls[d]
      BY <1>9, <2>2
    <3>2. calls[d].handler \in Handlers /\ logHandlers[calls[d].handler].life = "alive"
      BY <2>2, <3>1, CallTypes, CallsHoldEach DEF BasicInv
    <3>3. PICK g : g = calls[d].handler
      OBVIOUS
    <3>4. logHandlers'[g].life = logHandlers[g].life
      <4>1. CASE g = h
        BY <1>7, <4>1
      <4>2. CASE g # h
        BY <1>6, <3>2, <3>3, <4>2
      <4> QED BY <4>1, <4>2
    <3> QED BY <3>1, <3>2, <3>3, <3>4
  <2> QED BY <2>1, <2>2 DEF CallsHold, Calling, Alive, Handler
<1>12. StreamsAtRest'
  <2>1. AtRest(logHandlers'[h])
    BY <1>5, <1>7 DEF AtRest
  <2>2. \A g \in Handlers : AtRest(logHandlers'[g])
    BY <1>6, <2>1, StreamsAtRestEach DEF BasicInv
  <2> QED BY <2>2 DEF StreamsAtRest, AtRest, Unlocked, Handler
<1>13. FaultNotOpened'
  BY <1>3 DEF FaultNotOpened
<1>14. Quiet
  BY <1>3, <1>6, <1>8, <1>9 DEF Quiet
<1> QED BY <1>10, <1>11, <1>12, <1>13, <1>14 DEF BasicInv

\* Nothing that this part of the invariant is about changes.
LEMMA SameBasic ==
  ASSUME BasicInv, UNCHANGED <<logHandlers, calls, logFiles, console, written>>
  PROVE  LogFilesTypeOK' /\ CallsHold' /\ StreamsAtRest'
<1>1. LogFilesTypeOK'
  BY DEF BasicInv, LogFilesTypeOK
<1>2. CallsHold'
  BY DEF BasicInv, CallsHold, Calling, Alive, Handler
<1>3. StreamsAtRest'
  BY DEF BasicInv, StreamsAtRest, Unlocked, Handler
<1> QED BY <1>1, <1>2, <1>3

\* A handler that is flushed when nothing is held back.
LEMMA FlushedQuiet ==
  ASSUME BasicInv, NEW h \in Handlers, Unlocked(h), Handler(h).stream # NoStream, Flushed(h),
         UNCHANGED <<calls, console, written, fault>>
  PROVE  BasicInv' /\ Quiet
<1>1. Handler(h).stream.collected = <<>>
  BY DEF BasicInv, StreamsAtRest
<1>2. logFiles' = logFiles /\ logHandlers' = logHandlers
  BY <1>1, EmptyFlush DEF Flushed, BasicInv
<1>3. LogFilesTypeOK' /\ CallsHold' /\ StreamsAtRest' /\ FaultNotOpened'
  BY <1>2, SameBasic DEF BasicInv, FaultNotOpened
<1>4. Quiet
  BY <1>2 DEF Quiet
<1> QED BY <1>3, <1>4 DEF BasicInv

\* A handler without a stream that is removed never had one.
LEMMA RemoveHandlerQuiet ==
  ASSUME BasicInv, fault = Nobody, NEW h \in Handlers, RemoveHandler(h)
  PROVE  BasicInv' /\ Quiet
<1>1. CASE Handler(h).stream = NoStream
  <2>1. fault' = h /\ UNCHANGED <<logHandlers, logFiles, calls, console, written>>
    BY <1>1 DEF RemoveHandler
  <2>2. ~logHandlers[h].opened
    BY <1>1 DEF RemoveHandler, Alive, BasicInv, StreamsAtRest, Handler
  <2>3. LogFilesTypeOK' /\ CallsHold' /\ StreamsAtRest'
    BY <2>1, SameBasic
  <2>4. FaultNotOpened'
    BY <2>1, <2>2 DEF FaultNotOpened
  <2>5. Quiet
    BY <2>1 DEF Quiet
  <2> QED BY <2>3, <2>4, <2>5 DEF BasicInv
<1>2. CASE Handler(h).stream # NoStream
  <2>1. Unlocked(h) /\ Flushed(h) /\ UNCHANGED <<calls, console, written, fault>>
    BY <1>2 DEF RemoveHandler
  <2> QED BY <1>2, <2>1, FlushedQuiet
<1> QED BY <1>1, <1>2

LEMMA FlushFileQuiet ==
  ASSUME BasicInv, NEW h \in Handlers, FlushFile(h)
  PROVE  BasicInv' /\ Quiet
<1>1. /\ Unlocked(h) /\ Handler(h).stream # NoStream /\ Flushed(h)
      /\ UNCHANGED <<calls, console, written, fault>>
  BY DEF FlushFile
<1> QED BY <1>1, FlushedQuiet

\* Flags are nothing that a line in hand depends on.
LEMMA SetFlagsQuiet ==
  ASSUME BasicInv, fault = Nobody, NEW h \in Handlers, SetFlags(h)
  PROVE  BasicInv' /\ Quiet
<1>1. PICK flags \in FlagSets :
        /\ logHandlers' = [logHandlers EXCEPT ![h].flags = flags]
        /\ UNCHANGED <<calls, logFiles, console, written, opens, fault>>
  BY DEF SetFlags
<1>2. /\ logHandlers'[h] = [logHandlers[h] EXCEPT !.flags = flags]
      /\ \A g \in Handlers \ {h} : logHandlers'[g] = logHandlers[g]
  BY <1>1 DEF BasicInv, LogFilesTypeOK
<1>3. /\ logHandlers'[h].life = logHandlers[h].life /\ logHandlers'[h].lock = logHandlers[h].lock
      /\ logHandlers'[h].stream = logHandlers[h].stream /\ logHandlers'[h].opened = logHandlers[h].opened
      /\ logHandlers'[h].out_file_name = logHandlers[h].out_file_name
      /\ logHandlers'[h] \in HandlerStates
  BY <1>2, HandlerTypes DEF BasicInv, HandlerStates
<1>4. \A g \in Handlers :
        /\ logHandlers'[g].life = logHandlers[g].life /\ logHandlers'[g].lock = logHandlers[g].lock
        /\ logHandlers'[g].stream = logHandlers[g].stream
        /\ logHandlers'[g].opened = logHandlers[g].opened
        /\ logHandlers'[g].out_file_name = logHandlers[g].out_file_name
        /\ logHandlers'[g] \in HandlerStates
  <2> SUFFICES ASSUME NEW g \in Handlers, g # h
               PROVE  /\ logHandlers'[g] = logHandlers[g]
                      /\ logHandlers'[g] \in HandlerStates
    BY <1>3
  <2> QED BY <1>2, HandlerTypes DEF BasicInv
<1>5. LogFilesTypeOK'
  <2>1. DOMAIN logHandlers' = Handlers /\ logHandlers' = [g \in Handlers |-> logHandlers'[g]]
    BY <1>1 DEF BasicInv, LogFilesTypeOK
  <2> QED BY <1>1, <1>4, <2>1 DEF BasicInv, LogFilesTypeOK
<1>6. CallsHold'
  <2>1. ASSUME NEW g \in Handlers, NEW c \in Callers
        PROVE  logHandlers'[g].lock = c <=> (calls'[c].op = "emit" /\ calls'[c].handler = g)
    <3>1. logHandlers[g].lock = c <=> (calls[c].op = "emit" /\ calls[c].handler = g)
      BY CallsHoldEach DEF BasicInv
    <3> QED BY <1>1, <1>4, <3>1
  <2>2. ASSUME NEW c \in Callers, calls'[c].op # "idle"
        PROVE  logHandlers'[calls'[c].handler].life = "alive"
    BY <1>1, <1>4, <2>2, CallTypes, CallsHoldEach DEF BasicInv
  <2> QED BY <2>1, <2>2 DEF CallsHold, Calling, Alive, Handler
<1>7. StreamsAtRest'
  <2>1. ASSUME NEW g \in Handlers PROVE AtRest(logHandlers'[g])
    <3>1. AtRest(logHandlers[g])
      BY StreamsAtRestEach DEF BasicInv
    <3> QED BY <1>4, <3>1 DEF AtRest
  <2> QED BY <2>1 DEF StreamsAtRest, AtRest, Unlocked, Handler
<1>8. FaultNotOpened'
  BY <1>1 DEF FaultNotOpened
<1>9. Quiet
  BY <1>1, <1>4 DEF Quiet
<1> QED BY <1>5, <1>6, <1>7, <1>8, <1>9 DEF BasicInv

\* Nobody calls the handler, so that it is unlocked and holds nothing back.
LEMMA DestroyHandlerQuiet ==
  ASSUME BasicInv, fault = Nobody, NEW h \in Handlers, DestroyHandler(h)
  PROVE  BasicInv' /\ Quiet
<1>0. LogFilesTypeOK /\ CallsHold /\ StreamsAtRest
  BY DEF BasicInv
<1>1. /\ logHandlers[h].life = "alive" /\ \A c \in Callers : calls[c].op # "idle" => calls[c].handler # h
      /\ logHandlers' = [logHandlers EXCEPT ![h].life = "destroyed", ![h].stream = NoStream]
      /\ UNCHANGED <<calls, console, written, opens>>
  BY DEF DestroyHandler, Alive, NotCalling, Calling
<1>2. Unlocked(h)
  <2>1. logHandlers[h].lock \in Callers \cup {Nobody}
    BY <1>0, HandlerTypes DEF HandlerStates
  <2>2. \A c \in Callers : logHandlers[h].lock # c
    BY <1>0, <1>1, CallsHoldEach
  <2> QED BY <2>1, <2>2 DEF Unlocked
<1>3. logFiles' = logFiles
  <2>1. CASE Handler(h).stream = NoStream
    BY <2>1 DEF DestroyHandler
  <2>2. CASE Handler(h).stream # NoStream
    <3>1. Handler(h).stream.collected = <<>>
      BY <1>0, <1>2, <2>2 DEF StreamsAtRest
    <3>2. logFiles' = [logFiles EXCEPT ![Handler(h).stream.name] = @ \o Handler(h).stream.collected]
      BY <2>2 DEF DestroyHandler
    <3> QED BY <1>0, <2>2, <3>1, <3>2, EmptyFlush
  <2> QED BY <2>1, <2>2
<1>4. /\ logHandlers'[h] = [logHandlers[h] EXCEPT !.life = "destroyed", !.stream = NoStream]
      /\ \A g \in Handlers \ {h} : logHandlers'[g] = logHandlers[g]
  BY <1>0, <1>1 DEF LogFilesTypeOK
<1>5. /\ logHandlers'[h].life = "destroyed" /\ logHandlers'[h].stream = NoStream
      /\ logHandlers'[h].lock = logHandlers[h].lock /\ logHandlers'[h].opened = logHandlers[h].opened
      /\ logHandlers'[h] \in HandlerStates
  BY <1>0, <1>4, HandlerTypes DEF HandlerStates
<1>6. LogFilesTypeOK'
  <2>1. DOMAIN logHandlers' = Handlers /\ logHandlers' = [g \in Handlers |-> logHandlers'[g]]
    BY <1>0, <1>1 DEF LogFilesTypeOK
  <2>2. \A g \in Handlers :
          logHandlers'[g] \in HandlerStates
    BY <1>0, <1>4, <1>5, HandlerTypes
  <2> QED BY <1>0, <1>1, <1>3, <2>1, <2>2 DEF LogFilesTypeOK
<1>7. CallsHold'
  <2>1. ASSUME NEW g \in Handlers, NEW c \in Callers
        PROVE  logHandlers'[g].lock = c <=> (calls'[c].op = "emit" /\ calls'[c].handler = g)
    <3>1. logHandlers'[g].lock = logHandlers[g].lock
      BY <1>4, <1>5
    <3> QED BY <1>0, <1>1, <3>1, CallsHoldEach
  <2>2. ASSUME NEW c \in Callers, calls'[c].op # "idle"
        PROVE  logHandlers'[calls'[c].handler].life = "alive"
    <3>1. calls' = calls /\ calls[c].handler \in Handlers \ {h}
      BY <1>0, <1>1, <2>2, CallTypes
    <3>2. logHandlers[calls[c].handler].life = "alive"
      BY <1>0, <2>2, <3>1, CallsHoldEach
    <3>3. logHandlers'[calls[c].handler] = logHandlers[calls[c].handler]
      BY <1>4, <3>1
    <3> QED BY <3>1, <3>2, <3>3
  <2> QED BY <2>1, <2>2 DEF CallsHold, Calling, Alive, Handler
<1>8. StreamsAtRest'
  <2>1. AtRest(logHandlers'[h])
    BY <1>5 DEF AtRest
  <2>2. \A g \in Handlers : AtRest(logHandlers'[g])
    BY <1>0, <1>4, <2>1, StreamsAtRestEach
  <2> QED BY <2>2 DEF StreamsAtRest, AtRest, Unlocked, Handler
<1>9. FaultNotOpened'
  <2>1. CASE Handler(h).stream # NoStream
    BY <2>1 DEF DestroyHandler, FaultNotOpened
  <2>2. CASE Handler(h).stream = NoStream
    <3>1. ~logHandlers[h].opened
      BY <1>0, <1>1, <2>2 DEF StreamsAtRest, Handler
    <3>2. fault' \in {h, Nobody}
      BY <2>2 DEF DestroyHandler
    <3> QED BY <1>5, <3>1, <3>2 DEF FaultNotOpened
  <2> QED BY <2>1, <2>2
<1>10. Quiet
  BY <1>1, <1>2, <1>3, <1>4 DEF Quiet
<1> QED BY <1>6, <1>7, <1>8, <1>9, <1>10 DEF BasicInv

-----------------------------------------------------------------------------
(* The end of a call.                                                      *)

\* The stream holds nothing back when nothing is left to do of the line.
LEMMA EmitDoneBasic ==
  ASSUME LogFilesInv, NEW c \in Callers, EmitDone(c)
  PROVE  BasicInv'
<1>0. LogFilesTypeOK /\ CallsHold /\ StreamsAtRest /\ LinesTracked /\ FaultNotOpened
  BY DEF LogFilesInv
<1>1. PICK h : h = calls[c].handler
  OBVIOUS
<1>2. /\ calls[c].op = "emit" /\ calls[c].todo = <<>>
      /\ logHandlers' = [logHandlers EXCEPT ![h].lock = Nobody]
      /\ calls' = [calls EXCEPT ![c] = [op |-> "idle"]]
      /\ UNCHANGED <<logFiles, console, written, opens, fault>>
  BY <1>1 DEF EmitDone, Calling, Return
<1>3. h \in Handlers /\ logHandlers[h].lock = c
  BY <1>0, <1>1, <1>2, CallTypes, CallsHoldEach
<1>4. /\ logHandlers'[h] = [logHandlers[h] EXCEPT !.lock = Nobody]
      /\ \A g \in Handlers \ {h} : logHandlers'[g] = logHandlers[g]
  BY <1>0, <1>2, <1>3 DEF LogFilesTypeOK
<1>5. /\ logHandlers'[h].life = logHandlers[h].life /\ logHandlers'[h].lock = Nobody
      /\ logHandlers'[h].stream = logHandlers[h].stream /\ logHandlers'[h].opened = logHandlers[h].opened
      /\ logHandlers'[h].out_file_name = logHandlers[h].out_file_name
      /\ logHandlers'[h] \in HandlerStates
  BY <1>0, <1>3, <1>4, HandlerTypes DEF HandlerStates
<1>6. calls'[c].op = "idle" /\ \A d \in Callers \ {c} : calls'[d] = calls[d]
  BY <1>0, <1>2 DEF LogFilesTypeOK
<1>7. LogFilesTypeOK'
  <2>1. [op |-> "idle"] \in Calls
    BY DEF Calls
  <2>2. calls' \in [Callers -> Calls]
    BY <1>0, <1>2, <2>1 DEF LogFilesTypeOK
  <2>3. DOMAIN logHandlers' = Handlers /\ logHandlers' = [g \in Handlers |-> logHandlers'[g]]
    BY <1>0, <1>2 DEF LogFilesTypeOK
  <2>4. \A g \in Handlers : logHandlers'[g] \in HandlerStates
    BY <1>0, <1>4, <1>5, HandlerTypes
  <2> QED BY <1>0, <1>2, <2>2, <2>3, <2>4 DEF LogFilesTypeOK
<1>8. CallsHold'
  <2>1. ASSUME NEW g \in Handlers, NEW d \in Callers
        PROVE  logHandlers'[g].lock = d <=> (calls'[d].op = "emit" /\ calls'[d].handler = g)
    <3>1. logHandlers[g].lock = d <=> (calls[d].op = "emit" /\ calls[d].handler = g)
      BY <1>0, CallsHoldEach
    <3>2. CASE d = c
      <4>1. logHandlers'[g].lock # c
        <5>1. CASE g = h
          BY <1>5, <5>1, LogFilesAssumption
        <5>2. CASE g # h
          BY <1>1, <1>4, <3>1, <3>2, <5>2
        <5> QED BY <5>1, <5>2
      <4> QED BY <1>6, <3>2, <4>1
    <3>3. CASE d # c
      <4>1. calls'[d] = calls[d]
        BY <1>6, <3>3
      <4>2. CASE g = h
        BY <1>3, <1>5, <3>1, <3>3, <4>1, <4>2, LogFilesAssumption
      <4>3. CASE g # h
        BY <1>4, <3>1, <4>1, <4>3
      <4> QED BY <4>2, <4>3
    <3> QED BY <3>2, <3>3
  <2>2. ASSUME NEW d \in Callers, calls'[d].op # "idle"
        PROVE  logHandlers'[calls'[d].handler].life = "alive"
    <3>1. calls'[d] = calls[d]
      BY <1>6, <2>2
    <3>2. PICK g : g = calls[d].handler
      OBVIOUS
    <3>3. g \in Handlers /\ logHandlers[g].life = "alive"
      BY <1>0, <2>2, <3>1, <3>2, CallTypes, CallsHoldEach
    <3>4. logHandlers'[g].life = logHandlers[g].life
      BY <1>4, <1>5, <3>3
    <3> QED BY <3>1, <3>2, <3>3, <3>4
  <2> QED BY <2>1, <2>2 DEF CallsHold, Calling, Alive, Handler
<1>9. StreamsAtRest'
  <2>1. logHandlers[h].stream # NoStream => logHandlers[h].stream.collected = <<>>
    <3> SUFFICES ASSUME logHandlers[h].stream # NoStream
                 PROVE  logHandlers[h].stream.collected = <<>>
      OBVIOUS
    <3>a. PICK l \in DOMAIN written : \E k \in 0 .. Total(l) : InHand(c, l, k)
      BY <1>0, <1>2 DEF LinesTracked, Calling
    <3>1. PICK k \in 0 .. Total(l) : InHand(c, l, k)
      BY <3>a
    <3>2. k = Total(l)
      BY <1>0, <1>2, <3>1, NextPiece DEF Calling
    <3>3. logHandlers[h].stream.collected = SubSeq(LinePieces(l), InFile(l, k) + 1, InStream(l, k))
      BY <1>1, <3>1 DEF InHand, HeldBack, Handler
    <3>4. InFile(l, k) = FileWidth(l) /\ InStream(l, k) = FileWidth(l)
      BY <1>0, <3>2, AllDone
    <3>5. LinePieces(l) \in Seq(Pieces) /\ Width(l) \in {2, 3} /\ FileWidth(l) \in {0, Width(l)}
      BY <1>0, WidthTypes, PieceFacts
    <3>6. PICK f : f = FileWidth(l)
      OBVIOUS
    <3>7. f \in Int /\ f + 1 \in Int /\ f + 1 > f
      BY <3>5, <3>6
    <3>8. SubSeq(LinePieces(l), f + 1, f) = <<>>
      BY <3>5, <3>7, SubSeqEmpty
    <3> QED BY <3>3, <3>4, <3>6, <3>8
  <2>2. AtRest(logHandlers'[h])
    BY <1>0, <1>3, <1>5, <2>1, StreamsAtRestEach DEF AtRest
  <2>3. \A g \in Handlers : AtRest(logHandlers'[g])
    BY <1>0, <1>4, <2>2, StreamsAtRestEach
  <2> QED BY <2>3 DEF StreamsAtRest, AtRest, Unlocked, Handler
<1>10. FaultNotOpened'
  <2>1. CASE fault = Nobody
    BY <1>2, <2>1 DEF FaultNotOpened
  <2>2. CASE fault # Nobody
    BY <1>0, <1>2, <1>4, <1>5, <2>2 DEF FaultNotOpened
  <2> QED BY <2>1, <2>2
<1> QED BY <1>7, <1>8, <1>9, <1>10 DEF BasicInv

\* The line has arrived when nothing is left to do of it.
LEMMA EmitDoneInv ==
  ASSUME LogFilesInv, NEW c \in Callers, EmitDone(c)
  PROVE  LogFilesInv'
<1>0. /\ LogFilesTypeOK /\ CallsHold /\ StreamsAtRest /\ LinesTracked /\ NothingForeign
      /\ FilesTogether /\ ConsoleInOrder
  BY DEF LogFilesInv
<1>1. PICK h : h = calls[c].handler
  OBVIOUS
<1>2. /\ calls[c].op = "emit" /\ calls[c].todo = <<>>
      /\ logHandlers' = [logHandlers EXCEPT ![h].lock = Nobody]
      /\ calls' = [calls EXCEPT ![c] = [op |-> "idle"]]
      /\ UNCHANGED <<logFiles, console, written>>
  BY <1>1 DEF EmitDone, Calling, Return
<1>3. \A g \in Handlers : logHandlers'[g].stream = logHandlers[g].stream
  <2>1. h \in Handlers
    BY <1>0, <1>1, <1>2, CallTypes
  <2>2. /\ logHandlers'[h] = [logHandlers[h] EXCEPT !.lock = Nobody]
        /\ \A g \in Handlers \ {h} : logHandlers'[g] = logHandlers[g]
    BY <1>0, <1>2, <2>1 DEF LogFilesTypeOK
  <2>3. logHandlers'[h].stream = logHandlers[h].stream
    BY <1>0, <2>1, <2>2, HandlerTypes DEF HandlerStates
  <2> QED BY <2>2, <2>3
<1>4. calls'[c].op = "idle" /\ \A d \in Callers \ {c} : calls'[d] = calls[d]
  BY <1>0, <1>2 DEF LogFilesTypeOK
<1>5. ASSUME NEW l \in DOMAIN written, NEW k, Arrived(l, k) PROVE Arrived(l, k)'
  BY <1>2, <1>5, ArrivedKept
<1>6. ASSUME NEW d \in Callers \ {c}, NEW l \in DOMAIN written, NEW k, InHand(d, l, k)
      PROVE  InHand(d, l, k)'
  <2>1. calls[d].handler \in Handlers
    BY <1>0, <1>6, LockedInHand
  <2>2. Arrived(l, k)'
    BY <1>5, <1>6 DEF InHand
  <2> QED BY <1>2, <1>3, <1>4, <1>6, <2>1, <2>2, InHandKept
<1>7. \A l \in DOMAIN written : Total(l)' = Total(l)
  BY <1>2, WidthsKept
<1>8. LinesTracked'
  <2>1. ASSUME NEW d \in Callers, calls'[d].op = "emit"
        PROVE  \E l \in DOMAIN written : \E k \in 0 .. Total(l) : InHand(d, l, k)'
    BY <1>0, <1>4, <1>6, <2>1 DEF LinesTracked, Calling
  <2>2. ASSUME NEW l \in DOMAIN written
        PROVE  \/ Arrived(l, Total(l))'
               \/ \E d \in Callers : \E k \in 0 .. Total(l) : InHand(d, l, k)'
    <3>1. ASSUME Arrived(l, Total(l)) PROVE Arrived(l, Total(l))'
      <4>1. PICK k : k = Total(l)
        OBVIOUS
      <4>2. Arrived(l, k)'
        BY <1>5, <3>1, <4>1
      <4> QED BY <1>7, <4>1, <4>2 DEF Arrived
    <3>2. ASSUME NEW d \in Callers, NEW k \in 0 .. Total(l), InHand(d, l, k)
          PROVE  Arrived(l, Total(l)) \/ InHand(d, l, k)'
      <4>1. CASE d = c
        <5>1. k = Total(l)
          BY <1>0, <1>2, <3>2, <4>1, NextPiece DEF Calling
        <5> QED BY <3>2, <5>1 DEF InHand
      <4>2. CASE d # c
        BY <1>6, <3>2, <4>2
      <4> QED BY <4>1, <4>2
    <3> QED BY <1>0, <3>1, <3>2 DEF LinesTracked
  <2> QED BY <1>2, <1>7, <2>1, <2>2 DEF LinesTracked, Calling
<1>9. NothingForeign' /\ FilesTogether'
  BY <1>0, <1>2 DEF NothingForeign, OnlyWritten, FilesTogether
<1>10. \A l : EndToCome(l) => EndToCome(l)'
  BY <1>2, <1>4 DEF EndToCome, Calling
<1>11. ConsoleInOrder'
  <2>1. /\ \A i : Owner(i)' = Owner(i)
        /\ \A i : LastOne(i)' <=> LastOne(i)
        /\ \A i, j : NoneBetween(i, j)' <=> NoneBetween(i, j)
    BY <1>2 DEF Owner, NoneBetween, LastOne
  <2> QED BY <1>0, <1>2, <1>10, <2>1 DEF ConsoleInOrder
<1> QED BY <1>8, <1>9, <1>11, EmitDoneBasic DEF LogFilesInv, BasicInv

-----------------------------------------------------------------------------
(* The start of a call.                                                    *)

\* What EmitLine has to do for one line, and what it does.
TodoOf(line, places) ==
  (IF "file" \in places THEN To("file", LinePieces(line)) ELSE <<>>)
  \o (IF "console" \in places THEN To("console", LinePieces(line)) ELSE <<>>)

\* It is the pieces for the file, and then those for the console.
LEMMA TodoOfFacts ==
  ASSUME NEW l \in Lines, NEW places, NEW F, NEW S,
         F = IF "file" \in places THEN Width(l) ELSE 0,
         S = IF "console" \in places THEN Width(l) ELSE 0
  PROVE  /\ TodoOf(l, places) \in Seq(ToDos) /\ Len(TodoOf(l, places)) = F + S
         /\ \A i \in 1 .. F + S :
              TodoOf(l, places)[i] = IF i <= F THEN [place |-> "file", piece |-> LinePieces(l)[i]]
                                     ELSE [place |-> "console", piece |-> LinePieces(l)[i - F]]
<1> DEFINE a == IF "file" \in places THEN To("file", LinePieces(l)) ELSE <<>>
           b == IF "console" \in places THEN To("console", LinePieces(l)) ELSE <<>>
<1>1. (a = To("file", LinePieces(l)) /\ F = Width(l)) \/ (a = <<>> /\ F = 0)
  OBVIOUS
<1>2. (b = To("console", LinePieces(l)) /\ S = Width(l)) \/ (b = <<>> /\ S = 0)
  OBVIOUS
<1>3. TodoOf(l, places) = a \o b
  BY DEF TodoOf
<1> HIDE DEF a, b
<1>4. F \in Nat /\ S \in Nat
  <2>1. Width(l) \in {2, 3}
    BY PieceFacts
  <2> QED BY <1>1, <1>2, <2>1
<1>5. /\ a \in Seq(ToDos) /\ Len(a) = F
      /\ \A i \in 1 .. F : a[i] = [place |-> "file", piece |-> LinePieces(l)[i]]
  <2>1. CASE a = To("file", LinePieces(l)) /\ F = Width(l)
    BY <2>1, ToPieces
  <2>2. CASE a = <<>> /\ F = 0
    BY <2>2
  <2> QED BY <1>1, <2>1, <2>2
<1>6. /\ b \in Seq(ToDos) /\ Len(b) = S
      /\ \A i \in 1 .. S : b[i] = [place |-> "console", piece |-> LinePieces(l)[i]]
  <2>1. CASE b = To("console", LinePieces(l)) /\ S = Width(l)
    BY <2>1, ToPieces
  <2>2. CASE b = <<>> /\ S = 0
    BY <2>2
  <2> QED BY <1>2, <2>1, <2>2
<1>7. a \o b \in Seq(ToDos) /\ Len(a \o b) = F + S
  BY <1>5, <1>6, ConcatProperties
<1>8. ASSUME NEW i \in 1 .. F + S
      PROVE  (a \o b)[i] = IF i <= F THEN [place |-> "file", piece |-> LinePieces(l)[i]]
                            ELSE [place |-> "console", piece |-> LinePieces(l)[i - F]]
  <2>1. (a \o b)[i] = IF i <= Len(a) THEN a[i] ELSE b[i - Len(a)]
    <3>1. a \in Seq(ToDos) /\ b \in Seq(ToDos) /\ i \in 1 .. Len(a) + Len(b)
      BY <1>5, <1>6
    <3> QED BY <3>1, ConcatProperties
  <2>2. CASE i <= F
    BY <1>4, <1>5, <2>1, <2>2
  <2>3. CASE i > F
    <3>1. i - F \in 1 .. S /\ ~(i <= F)
      BY <1>4, <2>3
    <3> QED BY <1>5, <1>6, <2>1, <3>1
  <2>4. i <= F \/ i > F
    BY <1>4
  <2> QED BY <2>2, <2>3, <2>4
<1> QED BY <1>3, <1>7, <1>8

Begins(c, h, line, places) ==
  /\ line \in Lines \ DOMAIN written /\ calls[c].op = "idle" /\ Alive(h) /\ Unlocked(h)
  /\ "file" \in places => Handler(h).stream # NoStream
  /\ logHandlers' = [logHandlers EXCEPT ![h].lock = c]
  /\ calls' = [calls EXCEPT ![c] = [op |-> "emit", handler |-> h,
                                        todo |-> TodoOf(line, places)]]
  /\ written' = [l \in DOMAIN written \cup {line} |->
       IF l # line THEN written[l]
       ELSE [handler |-> h, on_console |-> "console" \in places,
             file |-> IF "file" \in places THEN Handler(h).stream.name ELSE ""]]
  /\ UNCHANGED <<logFiles, console, opens, fault>>

IsTodo(todo, line, places) == todo = TodoOf(line, places)

\* What is recorded of it.
GoesTo(line, h, places) ==
  /\ line.handler = h /\ line.on_console = ("console" \in places)
  /\ "file" \in places => /\ Handler(h).stream # NoStream /\ line.file = Handler(h).stream.name
                          /\ line.file # ""
  /\ "file" \notin places => line.file = ""

\* Its type.
LEMMA LineRecord ==
  ASSUME NEW h \in Handlers, NEW on \in BOOLEAN, NEW name \in FileNames \cup {""}, NEW line,
         line = [handler |-> h, on_console |-> on, file |-> name]
  PROVE  line \in [handler : Handlers, on_console : BOOLEAN, file : FileNames \cup {""}]
  OBVIOUS

\* A call of EmitLine begins a line that goes to some places.
LEMMA EmitLineBegins ==
  ASSUME NEW c, NEW h, EmitLine(c, h)
  PROVE  \E line \in Lines, places \in SUBSET {"file", "console"} : Begins(c, h, line, places)
<1>1. PICK line \in Lines \ DOMAIN written, places \in LinePlaces :
        LET pieces    == LinePieces(line)
            to_file   == "file" \in places /\ Handler(h).stream # NoStream
            to_screen == "console" \in places /\ "NoConsoleOutput" \notin Handler(h).flags
        IN /\ NotCalling(c) /\ Alive(h) /\ Unlocked(h)
           /\ logHandlers' = [logHandlers EXCEPT ![h].lock = c]
           /\ calls' = [calls EXCEPT ![c] =
                [op |-> "emit", handler |-> h,
                 todo |-> (IF to_file THEN To("file", pieces) ELSE <<>>)
                          \o (IF to_screen THEN To("console", pieces) ELSE <<>>)]]
           /\ written' = [l \in DOMAIN written \cup {line} |->
                IF l # line THEN written[l]
                ELSE [handler |-> h, on_console |-> to_screen,
                      file |-> IF to_file THEN Handler(h).stream.name ELSE ""]]
           /\ UNCHANGED <<logFiles, console, opens, fault>>
  BY DEF EmitLine
<1> DEFINE to_file   == "file" \in places /\ Handler(h).stream # NoStream
           to_screen == "console" \in places /\ "NoConsoleOutput" \notin Handler(h).flags
           goes      == {p \in {"file", "console"} : IF p = "file" THEN to_file ELSE to_screen}
<1>2. goes \in SUBSET {"file", "console"} /\ line \in Lines
  OBVIOUS
<1>3. ("file" \in goes) = to_file /\ ("console" \in goes) = to_screen
  OBVIOUS
<1>4. Begins(c, h, line, goes)
  <2> HIDE DEF goes
  <2> QED BY <1>1, <1>3 DEF Begins, TodoOf, NotCalling, Calling
<1> HIDE DEF goes
<1> QED BY <1>2, <1>4

\* What the call is then about.
LEMMA BeginsFacts ==
  ASSUME BasicInv, NEW c \in Callers, NEW h \in Handlers, NEW l \in Lines, NEW places,
         Begins(c, h, l, places)
  PROVE  /\ BasicInv'
         /\ \A g \in Handlers : logHandlers'[g].stream = logHandlers[g].stream
         /\ \A d \in Callers \ {c} : calls'[d] = calls[d]
         /\ calls[c].op = "idle" /\ calls'[c].op = "emit"
         /\ calls'[c].handler = h /\ IsTodo(calls'[c].todo, l, places)
         /\ l \notin DOMAIN written /\ DOMAIN written' = DOMAIN written \cup {l}
         /\ \A m \in DOMAIN written : written'[m] = written[m]
         /\ GoesTo(written'[l], h, places)
         /\ logHandlers[h].stream # NoStream => logHandlers[h].stream.collected = <<>>
         /\ UNCHANGED <<logFiles, console>>
<1>0. LogFilesTypeOK /\ CallsHold /\ StreamsAtRest /\ FaultNotOpened
  BY DEF BasicInv
<1>1. /\ l \in Lines \ DOMAIN written /\ calls[c].op = "idle" /\ Alive(h) /\ Unlocked(h)
      /\ "file" \in places => Handler(h).stream # NoStream
      /\ logHandlers' = [logHandlers EXCEPT ![h].lock = c]
      /\ calls' = [calls EXCEPT ![c] = [op |-> "emit", handler |-> h, todo |-> TodoOf(l, places)]]
      /\ written' = [m \in DOMAIN written \cup {l} |->
           IF m # l THEN written[m]
           ELSE [handler |-> h, on_console |-> "console" \in places,
                 file |-> IF "file" \in places THEN Handler(h).stream.name ELSE ""]]
      /\ UNCHANGED <<logFiles, console, opens, fault>>
  BY DEF Begins
<1>2. /\ logHandlers'[h] = [logHandlers[h] EXCEPT !.lock = c]
      /\ \A g \in Handlers \ {h} : logHandlers'[g] = logHandlers[g]
  BY <1>0, <1>1 DEF LogFilesTypeOK
<1>3. /\ logHandlers'[h].life = logHandlers[h].life /\ logHandlers'[h].lock = c
      /\ logHandlers'[h].stream = logHandlers[h].stream /\ logHandlers'[h].opened = logHandlers[h].opened
      /\ logHandlers'[h].out_file_name = logHandlers[h].out_file_name
      /\ logHandlers'[h] \in HandlerStates
  BY <1>0, <1>2, HandlerTypes DEF HandlerStates
<1>4. /\ calls'[c] = [op |-> "emit", handler |-> h, todo |-> TodoOf(l, places)]
      /\ \A d \in Callers \ {c} : calls'[d] = calls[d]
  BY <1>0, <1>1 DEF LogFilesTypeOK
<1>5. /\ DOMAIN written' = DOMAIN written \cup {l}
      /\ \A m \in DOMAIN written : written'[m] = written[m]
      /\ written'[l] = [handler |-> h, on_console |-> "console" \in places,
                        file |-> IF "file" \in places THEN Handler(h).stream.name ELSE ""]
  BY <1>1
<1>a. calls[c].op = "idle" /\ logHandlers[h].life = "alive" /\ logHandlers[h].lock = Nobody
  BY <1>1 DEF Alive, Unlocked
<1>b. PICK name : name = IF "file" \in places THEN Handler(h).stream.name ELSE ""
  OBVIOUS
<1>c. written'[l] = [handler |-> h, on_console |-> "console" \in places, file |-> name]
  BY <1>5, <1>b
<1>d. written'[l].handler = h /\ written'[l].file = name
  BY <1>c
<1>e. written'[l].on_console = ("console" \in places)
  BY <1>c
<1>6. /\ "file" \in places => Handler(h).stream # NoStream /\ written'[l].file = Handler(h).stream.name
                    /\ written'[l].file # ""
      /\ "file" \notin places => written'[l].file = ""
      /\ written'[l].file \in FileNames \cup {""}
  <2>1. CASE "file" \in places
    <3>1. Handler(h).stream.name \in FileNames
      BY <1>0, <1>1, <2>1, HandlerTypes
    <3>2. Handler(h).stream # NoStream
      BY <1>1, <2>1
    <3>3. name = Handler(h).stream.name
      BY <1>b, <2>1
    <3> QED BY <1>d, <2>1, <3>1, <3>2, <3>3, LogFilesAssumption
  <2>2. CASE "file" \notin places
    <3>1. name = ""
      BY <1>b, <2>2
    <3> QED BY <1>d, <2>2, <3>1
  <2> QED BY <2>1, <2>2
<1>7. logHandlers[h].stream # NoStream => logHandlers[h].stream.collected = <<>>
  BY <1>0, <1>1 DEF StreamsAtRest, Handler
<1>8. LogFilesTypeOK'
  <2>1. TodoOf(l, places) \in Seq(ToDos)
    <3>1. PICK F : F = IF "file" \in places THEN Width(l) ELSE 0
      OBVIOUS
    <3>2. PICK S : S = IF "console" \in places THEN Width(l) ELSE 0
      OBVIOUS
    <3> QED BY <3>1, <3>2, TodoOfFacts
  <2>2. [op |-> "emit", handler |-> h, todo |-> TodoOf(l, places)] \in Calls
    BY <2>1 DEF Calls, ToDos
  <2>3. calls' \in [Callers -> Calls]
    BY <1>0, <1>1, <2>2 DEF LogFilesTypeOK
  <2>4. DOMAIN logHandlers' = Handlers /\ logHandlers' = [g \in Handlers |-> logHandlers'[g]]
    BY <1>0, <1>1 DEF LogFilesTypeOK
  <2>5. \A g \in Handlers : logHandlers'[g] \in HandlerStates
    BY <1>0, <1>2, <1>3, HandlerTypes
  <2>6. DOMAIN written' \subseteq Lines
    BY <1>0, <1>1, <1>5 DEF LogFilesTypeOK
  <2>7. \A m \in DOMAIN written' :
          written'[m] \in [handler : Handlers, on_console : BOOLEAN, file : FileNames \cup {""}]
    <3>1. written'[l] \in [handler : Handlers, on_console : BOOLEAN, file : FileNames \cup {""}]
      <4>1. name \in FileNames \cup {""}
        BY <1>6, <1>d
      <4>2. PICK on : on = ("console" \in places)
        OBVIOUS
      <4>3. on \in BOOLEAN
        BY <4>2
      <4>4. written'[l] = [handler |-> h, on_console |-> on, file |-> name]
        BY <1>c, <4>2
      <4> HIDE <4>2
      <4> QED BY <4>1, <4>3, <4>4, LineRecord
    <3>2. \A m \in DOMAIN written :
            written'[m] \in [handler : Handlers, on_console : BOOLEAN, file : FileNames \cup {""}]
      BY <1>0, <1>5 DEF LogFilesTypeOK
    <3> QED BY <1>5, <3>1, <3>2
  <2>8. written' = [m \in DOMAIN written' |-> written'[m]]
    BY <1>1, <1>5
  <2>9. written' \in [DOMAIN written' -> [handler : Handlers, on_console : BOOLEAN,
                                          file : FileNames \cup {""}]]
    BY <2>7, <2>8
  <2> QED BY <1>0, <1>1, <2>3, <2>4, <2>5, <2>6, <2>9 DEF LogFilesTypeOK
<1>9. CallsHold'
  <2>1. ASSUME NEW g \in Handlers, NEW d \in Callers
        PROVE  logHandlers'[g].lock = d <=> (calls'[d].op = "emit" /\ calls'[d].handler = g)
    <3>1. logHandlers[g].lock = d <=> (calls[d].op = "emit" /\ calls[d].handler = g)
      BY <1>0, CallsHoldEach
    <3>2. CASE g = h
      <4>1. logHandlers[g].lock = Nobody
        BY <1>a, <3>2
      <4>2. ~(calls[d].op = "emit" /\ calls[d].handler = g)
        BY <3>1, <4>1, LogFilesAssumption
      <4> QED BY <1>3, <1>4, <3>2, <4>2
    <3>3. CASE g # h
      <4>1. logHandlers'[g].lock = logHandlers[g].lock
        BY <1>2, <3>3
      <4>2. CASE d = c
        BY <1>4, <1>a, <3>1, <3>3, <4>1, <4>2
      <4>3. CASE d # c
        BY <1>4, <3>1, <4>1, <4>3
      <4> QED BY <4>2, <4>3
    <3> QED BY <3>2, <3>3
  <2>2. ASSUME NEW d \in Callers, calls'[d].op # "idle"
        PROVE  logHandlers'[calls'[d].handler].life = "alive"
    <3>1. PICK g : g = calls'[d].handler
      OBVIOUS
    <3>2. g \in Handlers /\ logHandlers[g].life = "alive"
      <4>1. CASE d = c
        BY <1>4, <1>a, <3>1, <4>1
      <4>2. CASE d # c
        BY <1>0, <1>4, <2>2, <3>1, <4>2, CallTypes, CallsHoldEach
      <4> QED BY <4>1, <4>2
    <3>3. logHandlers'[g].life = logHandlers[g].life
      BY <1>2, <1>3, <3>2
    <3> QED BY <3>1, <3>2, <3>3
  <2> QED BY <2>1, <2>2 DEF CallsHold, Calling, Alive, Handler
<1>10. StreamsAtRest'
  <2>1. AtRest(logHandlers'[h])
    BY <1>0, <1>3, <1>7, StreamsAtRestEach DEF AtRest
  <2>2. \A g \in Handlers : AtRest(logHandlers'[g])
    BY <1>0, <1>2, <2>1, StreamsAtRestEach
  <2> QED BY <2>2 DEF StreamsAtRest, AtRest, Unlocked, Handler
<1>11. FaultNotOpened'
  <2>1. CASE fault = Nobody
    BY <1>1, <2>1 DEF FaultNotOpened
  <2>2. CASE fault # Nobody
    BY <1>0, <1>1, <1>2, <1>3, <2>2 DEF FaultNotOpened
  <2> QED BY <2>1, <2>2
<1>12. \A g \in Handlers : logHandlers'[g].stream = logHandlers[g].stream
  BY <1>2, <1>3
<1>13. BasicInv'
  BY <1>8, <1>9, <1>10, <1>11 DEF BasicInv
<1>14. GoesTo(written'[l], h, places)
  BY <1>d, <1>e, <1>6 DEF GoesTo
<1>15. calls'[c].op = "emit" /\ calls'[c].handler = h /\ IsTodo(calls'[c].todo, l, places)
  BY <1>4 DEF IsTodo
<1> QED BY <1>1, <1>4, <1>5, <1>7, <1>12, <1>13, <1>14, <1>15

\* The line that is taken up is in hand, and nothing of it has arrived.
LEMMA BegunInHand ==
  ASSUME LogFilesInv, NEW c \in Callers, NEW h \in Handlers, NEW l \in Lines, NEW places,
         Begins(c, h, l, places)
  PROVE  InHand(c, l, 0)' /\ Total(l)' \in Nat
<1>0. BasicInv /\ LogFilesTypeOK /\ NothingForeign
  BY DEF LogFilesInv, BasicInv
<1>1. /\ \A g \in Handlers : logHandlers'[g].stream = logHandlers[g].stream
      /\ l \notin DOMAIN written
      /\ logHandlers[h].stream # NoStream => logHandlers[h].stream.collected = <<>>
      /\ UNCHANGED <<logFiles, console>>
  BY <1>0, BeginsFacts
<1>d. calls'[c].op = "emit" /\ calls'[c].handler = h /\ IsTodo(calls'[c].todo, l, places)
  BY <1>0, BeginsFacts
<1>a. GoesTo(written'[l], h, places)
  BY <1>0, BeginsFacts
<1>b. /\ written'[l].handler = h
      /\ written'[l].file # "" => /\ Handler(h).stream # NoStream
                                 /\ Handler(h).stream.name = written'[l].file
  <2>1. CASE "file" \in places
    BY <1>a, <2>1 DEF GoesTo
  <2>2. CASE "file" \notin places
    BY <1>a, <2>2 DEF GoesTo
  <2> QED BY <2>1, <2>2
<1>c. written'[l].on_console = ("console" \in places)
  BY <1>a DEF GoesTo
<1>2. Width(l) \in {2, 3} /\ LinePieces(l) \in Seq(Pieces)
  BY PieceFacts
<1>3. PICK F : F = FileWidth(l)'
  OBVIOUS
<1>4. PICK S : S = IF "console" \in places THEN Width(l) ELSE 0
  OBVIOUS
<1>5. PICK todo : todo = calls'[c].todo
  OBVIOUS
<1>6. todo = TodoOf(l, places)
  BY <1>d, <1>5 DEF IsTodo
<1>7. ("file" \in places => F = Width(l)) /\ ("file" \notin places => F = 0)
  <2>1. CASE "file" \in places
    <3>1. written'[l].file # ""
      BY <1>a, <2>1 DEF GoesTo
    <3> QED BY <1>3, <2>1, <3>1 DEF FileWidth
  <2>2. CASE "file" \notin places
    <3>1. written'[l].file = ""
      BY <1>a, <2>2 DEF GoesTo
    <3> QED BY <1>3, <2>2, <3>1 DEF FileWidth
  <2> QED BY <2>1, <2>2
<1>8. ("console" \in places => S = Width(l)) /\ ("console" \notin places => S = 0)
  BY <1>4
<1>9. /\ Len(todo) = F + S
      /\ \A i \in 1 .. F + S : todo[i] = IF i <= F THEN [place |-> "file", piece |-> LinePieces(l)[i]]
                                 ELSE [place |-> "console", piece |-> LinePieces(l)[i - F]]
  BY <1>6, <1>7, <1>8, TodoOfFacts
<1>11. F \in Nat /\ S \in Nat /\ F \in {0, Width(l)}
  <2>1. F = Width(l) \/ F = 0
    BY <1>7
  <2>2. S = Width(l) \/ S = 0
    BY <1>8
  <2> QED BY <1>2, <2>1, <2>2
<1>12. Total(l)' = F + S
  BY <1>3, <1>4, <1>c DEF Total
<1>13. ToCome(todo, l, 0)'
  <2>1. Len(todo) = (F + S) - 0
    BY <1>9, <1>11
  <2>2. \A i \in 1 .. Len(todo) :
          todo[i] = IF 0 + i <= F
                    THEN [place |-> "file", piece |-> LinePieces(l)[0 + i]]
                    ELSE [place |-> "console", piece |-> LinePieces(l)[0 + i - F]]
    <3> SUFFICES ASSUME NEW i \in 1 .. Len(todo)
                 PROVE  todo[i] = IF 0 + i <= F
                                  THEN [place |-> "file", piece |-> LinePieces(l)[0 + i]]
                                  ELSE [place |-> "console", piece |-> LinePieces(l)[0 + i - F]]
      OBVIOUS
    <3>1. i \in 1 .. F + S /\ 0 + i = i /\ 0 + i - F = i - F
      BY <1>11, <2>1
    <3> QED BY <1>9, <3>1
  <2> QED BY <1>3, <1>12, <2>1, <2>2 DEF ToCome
<1>14. InStream(l, 0)' = 0 /\ OnScreen(l, 0)' = 0
  <2>1. /\ InStream(l, 0)' = IF 0 < F THEN 0 ELSE F
        /\ OnScreen(l, 0)' = IF 0 < F THEN 0 ELSE 0 - F
    BY <1>3 DEF InStream, OnScreen
  <2>2. F = 0 \/ 0 < F
    BY <1>11
  <2> QED BY <2>1, <2>2
<1>15. InFile(l, 0)' = 0
  BY <1>14 DEF InFile
<1>16. HeldBack(Handler(h).stream, l, 0)'
  <2>1. SubSeq(LinePieces(l), 0 + 1, 0) = <<>>
    BY SubSeqEmpty
  <2> QED BY <1>1, <1>b, <1>14, <1>15, <2>1 DEF HeldBack, Handler
<1>17. Arrived(l, 0)'
  <2>1. ASSUME NEW name \in FileNames PROVE HasPieces(logFiles[name], l, 0)
    <3>1. logFiles[name] \in Seq(Pieces)
      BY <1>0 DEF LogFilesTypeOK
    <3>2. \A i \in 1 .. Len(logFiles[name]) : logFiles[name][i].line # l
      BY <1>0, <1>1 DEF NothingForeign, OnlyWritten
    <3> QED BY <3>1, <3>2, NoPieces
  <2>2. HasPieces(console, l, 0)
    <3>1. console \in Seq(Pieces)
      BY <1>0 DEF LogFilesTypeOK
    <3>2. \A i \in 1 .. Len(console) : console[i].line # l
      BY <1>0, <1>1 DEF NothingForeign, OnlyWritten
    <3> QED BY <3>1, <3>2, NoPieces
  <2> QED BY <1>1, <1>14, <1>15, <2>1, <2>2 DEF Arrived
<1>18. InHand(c, l, 0)'
  BY <1>5, <1>d, <1>b, <1>13, <1>16, <1>17 DEF InHand, Calling
<1> QED BY <1>11, <1>12, <1>18

\* A line that is begun is in hand, and nothing of it has arrived.
LEMMA EmitLineInv ==
  ASSUME LogFilesInv, NEW c \in Callers, NEW h \in Handlers, EmitLine(c, h)
  PROVE  LogFilesInv'
<1>0. /\ BasicInv /\ LogFilesTypeOK /\ CallsHold /\ LinesTracked /\ NothingForeign
      /\ FilesTogether /\ ConsoleInOrder
  BY DEF LogFilesInv, BasicInv
<1>1. PICK l \in Lines, places \in SUBSET {"file", "console"} :
        Begins(c, h, l, places)
  BY EmitLineBegins
<1>4. BasicInv' /\ InHand(c, l, 0)' /\ Total(l)' \in Nat
  BY <1>0, <1>1, BeginsFacts, BegunInHand
<1>5. /\ \A g \in Handlers : logHandlers'[g].stream = logHandlers[g].stream
      /\ \A d \in Callers \ {c} : calls'[d] = calls[d]
      /\ calls[c].op = "idle" /\ l \notin DOMAIN written /\ DOMAIN written' = DOMAIN written \cup {l}
      /\ \A m \in DOMAIN written : written'[m] = written[m]
      /\ UNCHANGED <<logFiles, console>>
  BY <1>0, <1>1, BeginsFacts
<1>6. ASSUME NEW m \in DOMAIN written, NEW k, Arrived(m, k) PROVE Arrived(m, k)'
  BY <1>5, <1>6, ArrivedKept
<1>7. ASSUME NEW d \in Callers, NEW m \in DOMAIN written, NEW k, InHand(d, m, k)
      PROVE  InHand(d, m, k)'
  <2>1. calls[d].op = "emit" /\ calls[d].handler \in Handlers
    BY <1>0, <1>7, LockedInHand
  <2>2. Arrived(m, k)'
    BY <1>6, <1>7 DEF InHand
  <2> QED BY <1>5, <1>7, <2>1, <2>2, InHandKept
<1>8. \A m \in DOMAIN written : Total(m)' = Total(m)
  BY <1>5, WidthsKept
<1>9. LinesTracked'
  <2>1. ASSUME NEW d \in Callers, calls'[d].op = "emit"
        PROVE  \E m \in DOMAIN written' : \E k \in 0 .. Total(m)' : InHand(d, m, k)'
    <3>1. CASE d = c
      <4>1. 0 \in 0 .. Total(l)' /\ l \in DOMAIN written'
        BY <1>4, <1>5
      <4> QED BY <1>4, <3>1, <4>1
    <3>2. CASE d # c
      <4>1. PICK m \in DOMAIN written : \E k \in 0 .. Total(m) : InHand(d, m, k)
        BY <1>0, <1>5, <2>1, <3>2 DEF LinesTracked, Calling
      <4> QED BY <1>5, <1>7, <1>8, <4>1
    <3> QED BY <3>1, <3>2
  <2>2. ASSUME NEW m \in DOMAIN written'
        PROVE  \/ Arrived(m, Total(m))'
               \/ \E d \in Callers : \E k \in 0 .. Total(m)' : InHand(d, m, k)'
    <3>1. CASE m = l
      <4>1. 0 \in 0 .. Total(l)'
        BY <1>4
      <4> QED BY <1>4, <3>1, <4>1
    <3>2. CASE m \in DOMAIN written
      <4>1. ASSUME Arrived(m, Total(m)) PROVE Arrived(m, Total(m))'
        <5>1. PICK k : k = Total(m)
          OBVIOUS
        <5>2. Arrived(m, k)'
          BY <1>6, <3>2, <4>1, <5>1
        <5> QED BY <1>8, <3>2, <5>1, <5>2 DEF Arrived
      <4>2. \/ Arrived(m, Total(m))
            \/ \E d \in Callers : \E k \in 0 .. Total(m) : InHand(d, m, k)
        BY <1>0, <3>2 DEF LinesTracked
      <4> QED BY <1>7, <1>8, <3>2, <4>1, <4>2
    <3> QED BY <1>5, <3>1, <3>2
  <2> QED BY <2>1, <2>2 DEF LinesTracked, Calling
<1>10. NothingForeign' /\ FilesTogether'
  BY <1>0, <1>5 DEF NothingForeign, OnlyWritten, FilesTogether
<1>11. \A m : EndToCome(m) => EndToCome(m)'
  BY <1>5 DEF EndToCome, Calling
<1>12. \A i \in 1 .. Len(console) : Owner(i)' = Owner(i)
  BY <1>0, <1>5 DEF Owner, NothingForeign, OnlyWritten
<1>13. ConsoleInOrder'
  <2>a. console' = console
    BY <1>5
  <2>b. Len(console) \in Nat
    <3>1. console \in Seq(Pieces)
      BY <1>0 DEF LogFilesTypeOK
    <3> QED BY <3>1
  <2>0. console' = console /\ Len(console) \in Nat /\ Len(console') = Len(console)
    BY <2>a, <2>b
  <2>1. ASSUME NEW i \in 1 .. Len(console), NEW j \in 1 .. Len(console)
        PROVE  NoneBetween(i, j)' <=> NoneBetween(i, j)
    <3>1. \A m \in i + 1 .. j - 1 : m \in 1 .. Len(console)
      BY <2>0
    <3> QED BY <1>12, <3>1 DEF NoneBetween
  <2>2. ASSUME NEW i \in 1 .. Len(console) PROVE LastOne(i)' <=> LastOne(i)
    <3>1. \A m \in i + 1 .. Len(console) : m \in 1 .. Len(console)
      BY <2>0
    <3> QED BY <1>12, <2>0, <3>1 DEF LastOne
  <2>3. ASSUME NEW i \in 1 .. Len(console), NEW j \in 1 .. Len(console), i < j, Owner(i)' = Owner(j)',
               NoneBetween(i, j)', console'[i].line # console'[j].line
        PROVE  console'[i].part = "end"
    BY <1>0, <1>12, <2>0, <2>1, <2>3 DEF ConsoleInOrder
  <2>4. ASSUME NEW i \in 1 .. Len(console), LastOne(i)'
        PROVE  (console[i].part = "end" \/ EndToCome(console[i].line))'
    <3>1. console[i].part = "end" \/ EndToCome(console[i].line)
      BY <1>0, <2>2, <2>4 DEF ConsoleInOrder
    <3>2. PICK m : m = console[i].line
      OBVIOUS
    <3>3. EndToCome(m) => EndToCome(m)'
      BY <1>11
    <3>4. EndToCome(console[i].line) <=> EndToCome(m)
      BY <3>2
    <3>5. EndToCome(console[i].line)' <=> EndToCome(m)'
      BY <2>0, <3>2
    <3> QED BY <2>0, <3>1, <3>3, <3>4, <3>5
  <2> QED BY <2>0, <2>3, <2>4 DEF ConsoleInOrder
<1> QED BY <1>4, <1>9, <1>10, <1>13 DEF LogFilesInv, BasicInv

-----------------------------------------------------------------------------
(* A piece of a line.                                                      *)

\* Two calls are about different lines and different handlers.
LEMMA OtherLines ==
  ASSUME LogFilesTypeOK, CallsHold, NEW c \in Callers, NEW l, NEW k, InHand(c, l, k),
         NEW d \in Callers \ {c}, NEW m, NEW j, InHand(d, m, j)
  PROVE  m # l /\ calls[d].handler # calls[c].handler /\ calls[d].handler \in Handlers
<1>1. /\ calls[c].handler = written[l].handler /\ logHandlers[calls[c].handler].lock = c
      /\ calls[d].handler = written[m].handler /\ logHandlers[calls[d].handler].lock = d
      /\ calls[d].handler \in Handlers
  BY LockedInHand
<1> QED BY <1>1

\* A piece that is written is one of a line in hand.
LEMMA PieceTaken ==
  ASSUME LogFilesInv, NEW c \in Callers, EmitPiece(c)
  PROVE  \E l \in DOMAIN written : \E k \in 0 .. Total(l) : InHand(c, l, k) /\ k # Total(l)
<1>0. LogFilesTypeOK /\ LinesTracked
  BY DEF LogFilesInv
<1>1. Calling(c) = "emit" /\ calls[c].todo # <<>>
  BY DEF EmitPiece
<1>2. PICK l \in DOMAIN written : \E k \in 0 .. Total(l) : InHand(c, l, k)
  BY <1>0, <1>1 DEF LinesTracked
<1>3. PICK k \in 0 .. Total(l) : InHand(c, l, k)
  BY <1>2
<1>4. k # Total(l)
  BY <1>0, <1>1, <1>3, NextPiece
<1> QED BY <1>3, <1>4

\* It is taken from what is left to do.
LEMMA PieceCalls ==
  ASSUME LogFilesTypeOK, NEW c \in Callers, calls[c].op = "emit", calls[c].todo # <<>>,
         calls' = [calls EXCEPT ![c].todo = Tail(@)]
  PROVE  /\ calls' \in [Callers -> Calls]
         /\ calls'[c].op = "emit" /\ calls'[c].handler = calls[c].handler
         /\ calls'[c].todo = Tail(calls[c].todo)
         /\ \A d \in Callers \ {c} : calls'[d] = calls[d]
<1>1. calls[c] \in [op : {"emit"}, handler : Handlers, todo : Seq(ToDos)]
  <2>1. calls[c] \in Calls
    BY DEF LogFilesTypeOK
  <2>2. calls[c] \notin [op : {"idle"}]
    OBVIOUS
  <2>3. calls[c] \notin [op : {"open"}, handler : Handlers,
                         stream : {Stream(name) : name \in FileNames}]
    OBVIOUS
  <2> QED BY <2>1, <2>2, <2>3 DEF Calls, ToDos
<1>2. PICK rest : rest = Tail(calls[c].todo)
  OBVIOUS
<1>3. rest \in Seq(ToDos)
  <2>1. calls[c].todo \in Seq(ToDos)
    BY <1>1
  <2> QED BY <1>2, <2>1
<1>4. PICK new : new = [calls[c] EXCEPT !.todo = rest]
  OBVIOUS
<1>5. /\ new \in [op : {"emit"}, handler : Handlers, todo : Seq(ToDos)]
      /\ new.op = "emit" /\ new.handler = calls[c].handler /\ new.todo = rest
  BY <1>1, <1>3, <1>4
<1>6. calls' = [calls EXCEPT ![c] = new]
  BY <1>2, <1>4
<1>7. new \in Calls
  BY <1>5 DEF Calls, ToDos
<1>8. calls' \in [Callers -> Calls] /\ calls'[c] = new /\ \A d \in Callers \ {c} : calls'[d] = calls[d]
  BY <1>6, <1>7 DEF LogFilesTypeOK
<1> QED BY <1>2, <1>5, <1>8

\* What is then left is the rest of the line.
LEMMA ToComeTail ==
  ASSUME LogFilesTypeOK, NEW todo \in Seq(ToDos), NEW l \in DOMAIN written, NEW k \in 0 .. Total(l),
         k # Total(l), ToCome(todo, l, k)
  PROVE  /\ ToCome(Tail(todo), l, k + 1) /\ k + 1 \in 0 .. Total(l)
         /\ k + 1 # Total(l) => Tail(todo)[Len(Tail(todo))] = todo[Len(todo)]
<1>1. Total(l) \in Nat /\ FileWidth(l) \in Nat
  <2>1. Width(l) \in {2, 3} /\ FileWidth(l) \in {0, Width(l)} /\ Total(l) \in Nat
    BY WidthTypes
  <2> QED BY <2>1
<1>2. PICK n : n = Total(l)
  OBVIOUS
<1>3. PICK f : f = FileWidth(l)
  OBVIOUS
<1>4. n \in Nat /\ f \in Nat /\ k \in 0 .. n /\ k # n
  BY <1>1, <1>2, <1>3
<1>5. /\ Len(todo) = n - k
      /\ \A i \in 1 .. Len(todo) :
           todo[i] = IF k + i <= f THEN [place |-> "file", piece |-> LinePieces(l)[k + i]]
                     ELSE [place |-> "console", piece |-> LinePieces(l)[k + i - f]]
  BY <1>2, <1>3 DEF ToCome
<1>6. PICK rest : rest = Tail(todo)
  OBVIOUS
<1>7. /\ Len(rest) = n - (k + 1)
      /\ \A i \in 1 .. Len(rest) : rest[i] = todo[i + 1] /\ i + 1 \in 1 .. Len(todo)
  <2>1. todo # <<>>
    BY <1>4, <1>5
  <2>2. Len(rest) = Len(todo) - 1 /\ \A i \in 1 .. Len(rest) : rest[i] = todo[i + 1]
    BY <1>6, <2>1, HeadTailProperties
  <2>3. Len(todo) \in Nat
    OBVIOUS
  <2> QED BY <1>4, <1>5, <2>2, <2>3
<1>8. ASSUME NEW i \in 1 .. Len(rest)
      PROVE  rest[i] = IF (k + 1) + i <= f
                       THEN [place |-> "file", piece |-> LinePieces(l)[(k + 1) + i]]
                       ELSE [place |-> "console", piece |-> LinePieces(l)[(k + 1) + i - f]]
  <2>1. k + (i + 1) = (k + 1) + i
    BY <1>4
  <2>2. todo[i + 1] = IF k + (i + 1) <= f
                      THEN [place |-> "file", piece |-> LinePieces(l)[k + (i + 1)]]
                      ELSE [place |-> "console", piece |-> LinePieces(l)[k + (i + 1) - f]]
    BY <1>5, <1>7
  <2>3. CASE k + (i + 1) <= f
    <3>1. rest[i] = [place |-> "file", piece |-> LinePieces(l)[k + (i + 1)]]
      BY <1>7, <2>2, <2>3
    <3>2. (k + 1) + i <= f
      BY <2>1, <2>3
    <3> QED BY <2>1, <3>1, <3>2
  <2>4. CASE ~(k + (i + 1) <= f)
    <3>1. rest[i] = [place |-> "console", piece |-> LinePieces(l)[k + (i + 1) - f]]
      BY <1>7, <2>2, <2>4
    <3>2. ~((k + 1) + i <= f)
      BY <2>1, <2>4
    <3>3. k + (i + 1) - f = (k + 1) + i - f
      BY <1>4
    <3> QED BY <3>1, <3>2, <3>3
  <2> QED BY <2>3, <2>4
<1>9. ToCome(rest, l, k + 1)
  BY <1>2, <1>3, <1>7, <1>8 DEF ToCome
<1>10. k + 1 \in 0 .. n
  BY <1>4
<1>11. ASSUME k + 1 # n PROVE rest[Len(rest)] = todo[Len(todo)]
  <2>1. Len(rest) \in 1 .. Len(rest) /\ Len(rest) + 1 = Len(todo)
    BY <1>4, <1>5, <1>7, <1>11
  <2> QED BY <1>7, <2>1
<1> QED BY <1>2, <1>6, <1>9, <1>10, <1>11

\* What is left of the tracking of lines when the line of c is in hand again.
LEMMA TrackedOn ==
  ASSUME LogFilesTypeOK, CallsHold, LinesTracked, NEW c \in Callers, NEW l \in DOMAIN written,
         NEW k \in 0 .. Total(l), k # Total(l), InHand(c, l, k), written' = written,
         \A d \in Callers \ {c} : calls'[d] = calls[d],
         \A g \in Handlers \ {calls[c].handler} : logHandlers'[g].stream = logHandlers[g].stream,
         \A m \in DOMAIN written \ {l} : \A j : Arrived(m, j) => Arrived(m, j)',
         InHand(c, l, k + 1)'
  PROVE  LinesTracked'
<1>1. \A m \in DOMAIN written : Total(m)' = Total(m)
  BY WidthsKept
<1>2. k + 1 \in 0 .. Total(l)
  <2>1. Total(l) \in Nat
    BY WidthTypes
  <2> QED BY <2>1
<1>3. ASSUME NEW d \in Callers \ {c}, NEW m \in DOMAIN written, NEW j, InHand(d, m, j)
      PROVE  InHand(d, m, j)'
  <2>1. m # l /\ calls[d].handler \in Handlers \ {calls[c].handler}
    BY <1>3, OtherLines
  <2>2. Arrived(m, j)'
    BY <1>3, <2>1 DEF InHand
  <2> QED BY <1>3, <2>1, <2>2, InHandKept
<1>4. ASSUME NEW d \in Callers, calls'[d].op = "emit"
      PROVE  \E m \in DOMAIN written : \E j \in 0 .. Total(m) : InHand(d, m, j)'
  <2>1. CASE d = c
    BY <1>2, <2>1
  <2>2. CASE d # c
    BY <1>3, <1>4, <2>2 DEF LinesTracked, Calling
  <2> QED BY <2>1, <2>2
<1>5. ASSUME NEW m \in DOMAIN written
      PROVE  \/ Arrived(m, Total(m))'
             \/ \E d \in Callers : \E j \in 0 .. Total(m) : InHand(d, m, j)'
  <2>1. CASE m = l
    BY <1>2, <2>1
  <2>2. CASE m # l
    <3>1. ASSUME Arrived(m, Total(m)) PROVE Arrived(m, Total(m))'
      <4>1. PICK j : j = Total(m)
        OBVIOUS
      <4>2. Arrived(m, j)'
        BY <2>2, <3>1, <4>1
      <4> QED BY <1>1, <4>1, <4>2 DEF Arrived
    <3>2. ASSUME NEW d \in Callers, NEW j \in 0 .. Total(m), InHand(d, m, j) PROVE InHand(d, m, j)'
      <4>1. CASE d = c
        <5>1. /\ calls[c].todo # <<>>
              /\ \A i \in 1 .. Len(calls[c].todo) : calls[c].todo[i].piece.line = l
              /\ calls[c].todo \in Seq(ToDos)
          BY NextPiece DEF InHand
        <5>2. \A i \in 1 .. Len(calls[c].todo) : calls[c].todo[i].piece.line = m
          BY <3>2, <4>1, NextPiece DEF InHand
        <5>3. 1 \in 1 .. Len(calls[c].todo)
          BY <5>1
        <5> QED BY <2>2, <5>1, <5>2, <5>3
      <4>2. CASE d # c
        BY <1>3, <3>2, <4>2
      <4> QED BY <4>1, <4>2
    <3> QED BY <3>1, <3>2 DEF LinesTracked
  <2> QED BY <2>1, <2>2
<1> QED BY <1>1, <1>4, <1>5 DEF LinesTracked, Calling

\* The piece that is next goes to the file, or to the console.
LEMMA PieceSteps ==
  ASSUME LogFilesTypeOK, NEW c \in Callers, NEW l \in DOMAIN written, NEW k \in 0 .. Total(l),
         k # Total(l), InHand(c, l, k), EmitPiece(c)
  PROVE  /\ calls' = [calls EXCEPT ![c].todo = Tail(@)] /\ calls[c].op = "emit"
         /\ calls[c].todo # <<>>
         /\ UNCHANGED <<written, opens, fault>>
         /\ k < FileWidth(l) => ToFile(calls[c].handler, LinePieces(l)[k + 1]) /\ console' = console
         /\ k >= FileWidth(l) =>
              /\ console' = Append(console, LinePieces(l)[k - FileWidth(l) + 1])
              /\ UNCHANGED <<logHandlers, logFiles>>
<1>1. PICK next : next = Head(calls[c].todo)
  OBVIOUS
<1>2. /\ calls' = [calls EXCEPT ![c].todo = Tail(@)] /\ Calling(c) = "emit" /\ calls[c].todo # <<>>
      /\ UNCHANGED <<written, opens, fault>>
      /\ next.place = "file" => ToFile(calls[c].handler, next.piece) /\ console' = console
      /\ next.place # "file" => /\ console' = Append(console, next.piece)
                                /\ UNCHANGED <<logHandlers, logFiles>>
  BY <1>1 DEF EmitPiece
<1>3. /\ k < FileWidth(l) => next = [place |-> "file", piece |-> LinePieces(l)[k + 1]]
      /\ k >= FileWidth(l) => next = [place |-> "console", piece |-> LinePieces(l)[k - FileWidth(l) + 1]]
  BY <1>1, <1>2, NextPiece
<1>4. ASSUME k < FileWidth(l)
      PROVE  ToFile(calls[c].handler, LinePieces(l)[k + 1]) /\ console' = console
  <2>1. next.place = "file" /\ next.piece = LinePieces(l)[k + 1]
    BY <1>3, <1>4
  <2> QED BY <1>2, <2>1
<1>5. ASSUME k >= FileWidth(l)
      PROVE  /\ console' = Append(console, LinePieces(l)[k - FileWidth(l) + 1])
             /\ UNCHANGED <<logHandlers, logFiles>>
  <2>1. next.place # "file" /\ next.piece = LinePieces(l)[k - FileWidth(l) + 1]
    BY <1>3, <1>5
  <2> QED BY <1>2, <2>1
<1> QED BY <1>2, <1>4, <1>5 DEF Calling

\* The last piece of a line that is to come is in the hands of the one call that has the line.
LEMMA EndInHand ==
  ASSUME LogFilesTypeOK, LinesTracked, NEW d \in Callers, Calling(d) = "emit", NEW m \in DOMAIN written,
         calls[d].todo # <<>>,
         calls[d].todo[Len(calls[d].todo)] = [place |-> "console", piece |-> LinePieces(m)[Width(m)]]
  PROVE  \E j \in 0 .. Total(m) : InHand(d, m, j)
<1>1. PICK n \in DOMAIN written : \E j \in 0 .. Total(n) : InHand(d, n, j)
  BY DEF LinesTracked
<1>2. PICK j \in 0 .. Total(n) : InHand(d, n, j)
  BY <1>1
<1>3. PICK todo : todo = calls[d].todo
  OBVIOUS
<1>4. /\ todo \in Seq(ToDos) /\ todo # <<>>
      /\ \A i \in 1 .. Len(todo) : todo[i].piece.line = n
  BY <1>2, <1>3, NextPiece
<1>5. Len(todo) \in 1 .. Len(todo)
  BY <1>4
<1>6. LinePieces(m)[Width(m)].line = m
  <2>1. m \in Lines /\ Width(m) \in {2, 3}
    BY WidthTypes
  <2>2. Width(m) \in 1 .. Width(m)
    BY <2>1
  <2> QED BY <2>1, <2>2, PieceFacts
<1>7. todo[Len(todo)].piece = LinePieces(m)[Width(m)]
  BY <1>3
<1>8. m = n
  BY <1>4, <1>5, <1>6, <1>7
<1> QED BY <1>2, <1>8

\* Two lines that are in the hands of one call are the same.
LEMMA OneLine ==
  ASSUME LogFilesTypeOK, NEW c \in Callers, NEW l \in DOMAIN written, NEW k \in 0 .. Total(l),
         k # Total(l), InHand(c, l, k), NEW m \in DOMAIN written, NEW j \in 0 .. Total(m), InHand(c, m, j)
  PROVE  m = l
<1>1. /\ calls[c].todo # <<>> /\ calls[c].todo \in Seq(ToDos)
      /\ \A i \in 1 .. Len(calls[c].todo) : calls[c].todo[i].piece.line = l
  BY NextPiece DEF InHand
<1>2. \A i \in 1 .. Len(calls[c].todo) : calls[c].todo[i].piece.line = m
  BY NextPiece DEF InHand
<1>3. 1 \in 1 .. Len(calls[c].todo)
  BY <1>1
<1> QED BY <1>1, <1>2, <1>3

\* The order on the console, when a piece of the line l is appended.
LEMMA ConsoleOn ==
  ASSUME LogFilesTypeOK, CallsHold, LinesTracked, NothingForeign, ConsoleInOrder,
         NEW c \in Callers, NEW l \in DOMAIN written, NEW k \in 0 .. Total(l),
         k # Total(l), InHand(c, l, k), written' = written,
         NEW piece \in Pieces, piece.line = l, console' = Append(console, piece),
         \A d \in Callers \ {c} : calls'[d] = calls[d],
         piece.part = "end" \/ EndToCome(l)'
  PROVE  ConsoleInOrder'
<1>1. PICK N : N = Len(console)
  OBVIOUS
<1>2. console \in Seq(Pieces) /\ N \in Nat
  <2>1. console \in Seq(Pieces)
    BY DEF LogFilesTypeOK
  <2> QED BY <1>1, <2>1
<1>3. Len(console') = N + 1 /\ console'[N + 1] = piece /\ \A i \in 1 .. N : console'[i] = console[i]
  BY <1>1, <1>2
<1>4. /\ \A i \in 1 .. N : Owner(i)' = Owner(i)
      /\ Owner(N + 1)' = written[l].handler
  BY <1>3 DEF Owner
<1>5. ASSUME NEW i \in 1 .. N, NEW j \in 1 .. N, NoneBetween(i, j)' PROVE NoneBetween(i, j)
  <2>1. \A m \in i + 1 .. j - 1 : m \in 1 .. N
    BY <1>2
  <2> QED BY <1>4, <1>5, <2>1 DEF NoneBetween
<1>6. ASSUME NEW i \in 1 .. N, NoneBetween(i, N + 1)' PROVE LastOne(i)
  <2>1. \A m \in i + 1 .. N : m \in 1 .. N /\ m \in i + 1 .. (N + 1) - 1
    BY <1>2
  <2> QED BY <1>1, <1>4, <1>6, <2>1 DEF NoneBetween, LastOne
<1>7. ASSUME NEW i \in 1 .. N, LastOne(i)' PROVE LastOne(i) /\ Owner(i) # written[l].handler
  <2>1. \A m \in i + 1 .. N : m \in 1 .. N /\ m \in i + 1 .. N + 1
    BY <1>2
  <2>2. N + 1 \in i + 1 .. N + 1
    BY <1>2
  <2> QED BY <1>1, <1>3, <1>4, <1>7, <2>1, <2>2 DEF LastOne
\* Who has the rest of another line.
<1>8. ASSUME NEW m \in DOMAIN written, EndToCome(m)
      PROVE  \/ m = l
             \/ EndToCome(m)' /\ written[m].handler # written[l].handler
  <2>1. PICK d \in Callers :
          /\ Calling(d) = "emit" /\ calls[d].todo # <<>>
          /\ calls[d].todo[Len(calls[d].todo)] = [place |-> "console", piece |-> LinePieces(m)[Width(m)]]
    BY <1>8 DEF EndToCome
  <2>2. PICK j \in 0 .. Total(m) : InHand(d, m, j)
    BY <2>1, EndInHand
  <2>3. CASE d = c
    BY <2>2, <2>3, OneLine
  <2>4. CASE d # c
    <3>1. calls[d].handler # calls[c].handler
      BY <2>2, <2>4, OtherLines
    <3>2. written[m].handler # written[l].handler
      BY <2>2, <3>1 DEF InHand
    <3>3. calls'[d] = calls[d]
      BY <2>4
    <3>4. EndToCome(m)'
      BY <2>1, <3>3 DEF EndToCome, Calling
    <3> QED BY <3>2, <3>4
  <2> QED BY <2>3, <2>4
<1>9. \A i \in 1 .. N : console[i].line \in DOMAIN written
  BY <1>1 DEF NothingForeign, OnlyWritten
<1>10. ASSUME NEW i \in 1 .. N + 1, NEW j \in 1 .. N + 1, i < j, Owner(i)' = Owner(j)', NoneBetween(i, j)',
              console'[i].line # console'[j].line
       PROVE  console'[i].part = "end"
  <2>1. i \in 1 .. N
    BY <1>2, <1>10
  <2>2. CASE j \in 1 .. N
    <3>1. NoneBetween(i, j) /\ Owner(i) = Owner(j) /\ console[i].line # console[j].line
      BY <1>3, <1>4, <1>5, <1>10, <2>1, <2>2
    <3>2. console[i].part = "end"
      BY <1>1, <1>10, <2>1, <2>2, <3>1 DEF ConsoleInOrder
    <3> QED BY <1>3, <2>1, <3>2
  <2>3. CASE j = N + 1
    <3>1. LastOne(i)
      BY <1>6, <1>10, <2>1, <2>3
    <3>2. console[i].part = "end" \/ EndToCome(console[i].line)
      BY <1>1, <2>1, <3>1 DEF ConsoleInOrder
    <3>3. Owner(i) = written[l].handler /\ console[i].line # l
      BY <1>3, <1>4, <1>10, <2>1, <2>3
    <3>4. ~EndToCome(console[i].line)
      BY <1>8, <1>9, <2>1, <3>3 DEF Owner
    <3> QED BY <1>3, <2>1, <3>2, <3>4
  <2>4. j \in 1 .. N \/ j = N + 1
    BY <1>2
  <2> QED BY <2>2, <2>3, <2>4
<1>11. ASSUME NEW i \in 1 .. N + 1, LastOne(i)'
       PROVE  (console[i].part = "end" \/ EndToCome(console[i].line))'
  <2>1. CASE i \in 1 .. N
    <3>1. LastOne(i) /\ Owner(i) # written[l].handler
      BY <1>7, <1>11, <2>1
    <3>2. console[i].part = "end" \/ EndToCome(console[i].line)
      BY <1>1, <2>1, <3>1 DEF ConsoleInOrder
    <3>3. PICK m : m = console[i].line
      OBVIOUS
    <3>4. m \in DOMAIN written /\ m # l
      BY <1>9, <2>1, <3>1, <3>3 DEF Owner
    <3>5. EndToCome(console[i].line) <=> EndToCome(m)
      BY <3>3
    <3>6. console'[i].line = m /\ console'[i].part = console[i].part
      BY <1>3, <2>1, <3>3
    <3>7. EndToCome(console[i].line)' <=> EndToCome(m)'
      BY <3>6
    <3>8. EndToCome(m) => EndToCome(m)'
      BY <1>8, <3>4
    <3> QED BY <3>2, <3>5, <3>6, <3>7, <3>8
  <2>2. CASE i = N + 1
    <3>1. console'[i].line = l /\ console'[i].part = piece.part
      BY <1>3, <2>2
    <3>2. EndToCome(console[i].line)' <=> EndToCome(l)'
      BY <3>1
    <3> QED BY <3>1, <3>2
  <2>3. i \in 1 .. N \/ i = N + 1
    BY <1>2
  <2> QED BY <2>1, <2>2, <2>3
<1> QED BY <1>3, <1>10, <1>11 DEF ConsoleInOrder

\* One piece more of a line.
LEMMA LastPieces ==
  ASSUME LogFilesTypeOK, NEW l \in DOMAIN written, NEW n \in Nat, NEW m \in Nat, n <= m, m < Width(l)
  PROVE  /\ SubSeq(LinePieces(l), m + 1, m + 1) = <<LinePieces(l)[m + 1]>>
         /\ Append(SubSeq(LinePieces(l), n + 1, m), LinePieces(l)[m + 1]) =
              SubSeq(LinePieces(l), n + 1, m + 1)
<1>1. PICK s : s = LinePieces(l)
  OBVIOUS
<1>2. s \in Seq(Pieces) /\ Len(s) = Width(l) /\ Width(l) \in Nat
  <2>1. l \in Lines
    BY DEF LogFilesTypeOK
  <2> QED BY <1>1, <2>1, PieceFacts DEF Width
<1>3. SubSeq(s, m + 1, m + 1) = <<s[m + 1]>>
  <2>1. PICK a : a = SubSeq(s, m + 1, m + 1)
    OBVIOUS
  <2>2. a \in Seq(Pieces) /\ Len(a) = 1 /\ a[1] = s[m + 1]
    <3>1. PICK k : k = m + 1
      OBVIOUS
    <3>2. k \in Int /\ k - k + 1 = 1 /\ k + 1 - 1 = k /\ k <= k /\ \A i \in k .. k : s[i] \in Pieces
      BY <1>2, <3>1
    <3>3. PICK e : e = SubSeq(s, k, k)
      OBVIOUS
    <3>4. e \in Seq(Pieces)
      BY <3>2, <3>3, SubSeqProperties
    <3>5. Len(e) = 1
      BY <3>2, <3>3, SubSeqProperties
    <3>6. e[1] = s[k]
      <4>1. 1 \in 1 .. k - k + 1
        BY <3>2
      <4>2. e[1] = s[k + 1 - 1]
        BY <3>2, <3>3, <4>1, SubSeqProperties
      <4> QED BY <3>2, <4>2
    <3> QED BY <2>1, <3>1, <3>3, <3>4, <3>5, <3>6
  <2>3. PICK b : b = <<s[m + 1]>>
    OBVIOUS
  <2>4. b \in Seq(Pieces) /\ Len(b) = 1 /\ b[1] = s[m + 1]
    BY <1>2, <2>3
  <2>5. \A i \in 1 .. 1 : a[i] = b[i]
    BY <2>2, <2>4
  <2>6. a = b
    BY <2>2, <2>4, <2>5, SeqEqual
  <2> QED BY <2>1, <2>3, <2>6
<1>4. Append(SubSeq(s, n + 1, m), s[m + 1]) = SubSeq(s, n + 1, m + 1)
  <2>1. PICK a : a = SubSeq(s, n + 1, m)
    OBVIOUS
  <2>2. a \in Seq(Pieces) /\ Len(a) = m - n /\ \A i \in 1 .. m - n : a[i] = s[n + i]
    BY <1>2, <2>1, SubSeqProperties
  <2>3. PICK b : b = SubSeq(s, n + 1, m + 1)
    OBVIOUS
  <2>4. b \in Seq(Pieces) /\ Len(b) = (m - n) + 1 /\ \A i \in 1 .. (m - n) + 1 : b[i] = s[n + i]
    <3>1. (m + 1) - n = (m - n) + 1
      OBVIOUS
    <3> QED BY <1>2, <2>3, <3>1, SubSeqProperties
  <2>5. s[m + 1] \in Pieces
    BY <1>2
  <2>6. PICK e : e = Append(a, s[m + 1])
    OBVIOUS
  <2>7. e \in Seq(Pieces) /\ Len(e) = (m - n) + 1 /\ e[(m - n) + 1] = s[m + 1]
        /\ \A i \in 1 .. m - n : e[i] = a[i]
    BY <2>2, <2>5, <2>6
  <2>8. \A i \in 1 .. (m - n) + 1 : e[i] = b[i]
    <3> SUFFICES ASSUME NEW i \in 1 .. (m - n) + 1 PROVE e[i] = b[i]
      OBVIOUS
    <3>1. CASE i \in 1 .. m - n
      BY <2>2, <2>4, <2>7, <3>1
    <3>2. CASE i = (m - n) + 1
      <4>1. n + i = m + 1
        BY <3>2
      <4> QED BY <2>4, <2>7, <3>2, <4>1
    <3> QED BY <3>1, <3>2
  <2>9. e = b
    BY <2>4, <2>7, <2>8, SeqEqual
  <2> QED BY <2>1, <2>3, <2>6, <2>9
<1> QED BY <1>1, <1>3, <1>4

\* A piece that goes to the console.
LEMMA ConsolePieceInv ==
  ASSUME LogFilesInv, NEW c \in Callers, NEW l \in DOMAIN written, NEW k \in 0 .. Total(l),
         k # Total(l), InHand(c, l, k), EmitPiece(c), k >= FileWidth(l)
  PROVE  LogFilesInv'
<1>0. /\ LogFilesTypeOK /\ CallsHold /\ StreamsAtRest /\ FaultNotOpened /\ LinesTracked /\ NothingForeign
      /\ FilesTogether /\ ConsoleInOrder
  BY DEF LogFilesInv
<1>1. PICK n : n = k - FileWidth(l)
  OBVIOUS
<1>2. PICK piece : piece = LinePieces(l)[n + 1]
  OBVIOUS
<1>3. /\ calls' = [calls EXCEPT ![c].todo = Tail(@)] /\ calls[c].op = "emit" /\ calls[c].todo # <<>>
      /\ UNCHANGED <<logHandlers, logFiles, written, opens, fault>>
      /\ console' = Append(console, piece)
  BY <1>0, <1>1, <1>2, PieceSteps
<1>4. /\ calls' \in [Callers -> Calls]
      /\ calls'[c].op = "emit" /\ calls'[c].handler = calls[c].handler
      /\ calls'[c].todo = Tail(calls[c].todo)
      /\ \A d \in Callers \ {c} : calls'[d] = calls[d]
  BY <1>0, <1>3, PieceCalls
<1>5. /\ n + 1 \in 1 .. Width(l) /\ n \in Nat /\ Width(l) \in Nat
      /\ OnScreen(l, k) = n /\ OnScreen(l, k + 1) = n + 1
      /\ InStream(l, k + 1) = InStream(l, k) /\ InFile(l, k + 1) = InFile(l, k)
  <2>1. k - FileWidth(l) + 1 \in 1 .. Width(l)
    BY <1>0, <1>3, NextPiece DEF Calling
  <2>2. Width(l) \in {2, 3} /\ FileWidth(l) \in {0, Width(l)} /\ Total(l) \in Nat
    BY <1>0, WidthTypes
  <2>3. n \in Nat
    BY <1>1, <2>2
  <2>4. /\ InStream(l, k) = FileWidth(l) /\ InStream(l, k + 1) = FileWidth(l)
        /\ InFile(l, k + 1) = InFile(l, k)
        /\ OnScreen(l, k) = n /\ OnScreen(l, k + 1) = n + 1
    BY <1>0, <1>1, Counts
  <2> QED BY <1>1, <2>1, <2>2, <2>3, <2>4
<1>6. l \in Lines /\ piece \in Pieces /\ piece.line = l /\ (piece.part = "end" <=> n + 1 = Width(l))
  <2>1. l \in Lines
    BY <1>0 DEF LogFilesTypeOK
  <2> QED BY <1>2, <1>5, <2>1, PieceFacts
<1>7. console \in Seq(Pieces) /\ console' = console \o <<piece>> /\ <<piece>> \in Seq(Pieces)
  <2>1. console \in Seq(Pieces)
    BY <1>0 DEF LogFilesTypeOK
  <2> QED BY <1>3, <1>6, <2>1
<1>8. LogFilesTypeOK'
  <2>1. console' \in Seq(Pieces)
    BY <1>3, <1>6, <1>7
  <2>2. calls' \in [Callers -> Calls]
    BY <1>4
  <2>3. UNCHANGED <<logHandlers, logFiles, written>>
    BY <1>3
  <2> QED BY <1>0, <2>1, <2>2, <2>3 DEF LogFilesTypeOK
<1>9. CallsHold'
  <2>1. ASSUME NEW h \in Handlers, NEW d \in Callers
        PROVE  logHandlers'[h].lock = d <=> (calls'[d].op = "emit" /\ calls'[d].handler = h)
    BY <1>0, <1>3, <1>4, CallsHoldEach
  <2>2. ASSUME NEW d \in Callers, calls'[d].op # "idle"
        PROVE  logHandlers'[calls'[d].handler].life = "alive"
    BY <1>0, <1>3, <1>4, <2>2, CallsHoldEach
  <2> QED BY <2>1, <2>2 DEF CallsHold, Calling, Alive, Handler
<1>10. StreamsAtRest' /\ FaultNotOpened'
  BY <1>0, <1>3 DEF StreamsAtRest, FaultNotOpened, Unlocked, Handler
\* The lines.
<1>11. ASSUME NEW m \in DOMAIN written \ {l}, NEW j, Arrived(m, j) PROVE Arrived(m, j)'
  <2>1. \A i \in 1 .. Len(<<piece>>) : <<piece>>[i].line # m
    BY <1>6
  <2>2. HasPieces(console, m, OnScreen(m, j)) => HasPieces(console', m, OnScreen(m, j))
    BY <1>7, <2>1, PiecesOfOthers
  <2> QED BY <1>3, <1>11, <2>2, ArrivedKept
<1>12. Arrived(l, k)
  BY DEF InHand
<1>13. HasPieces(console', l, n + 1)
  <2>1. HasPieces(console, l, n)
    BY <1>5, <1>12 DEF Arrived
  <2>2. <<piece>> = SubSeq(LinePieces(l), n + 1, n + 1)
    BY <1>0, <1>2, <1>5, LastPieces
  <2>3. n + 1 \in Nat /\ n <= n + 1 /\ n + 1 <= Width(l)
    BY <1>5
  <2> QED BY <1>5, <1>6, <1>7, <2>1, <2>2, <2>3, PiecesOfLine
<1>14. Arrived(l, k + 1)'
  <2>1. /\ InFile(l, k + 1)' = InFile(l, k) /\ OnScreen(l, k + 1)' = n + 1
        /\ InStream(l, k + 1)' = InStream(l, k)
    BY <1>3, <1>5, WidthsKept
  <2> QED BY <1>3, <1>12, <1>13, <2>1 DEF Arrived
<1>15. k + 1 \in 0 .. Total(l) /\ ToCome(Tail(calls[c].todo), l, k + 1)
       /\ (k + 1 # Total(l) => Tail(calls[c].todo)[Len(Tail(calls[c].todo))] =
                                 calls[c].todo[Len(calls[c].todo)])
  <2>1. ToCome(calls[c].todo, l, k) /\ calls[c].todo \in Seq(ToDos)
    BY <1>0, <1>3, NextPiece DEF InHand, Calling
  <2> QED BY <1>0, <2>1, ToComeTail
<1>16. InHand(c, l, k + 1)'
  <2>1. /\ FileWidth(l)' = FileWidth(l) /\ Total(l)' = Total(l)
        /\ InStream(l, k + 1)' = InStream(l, k) /\ InFile(l, k + 1)' = InFile(l, k)
    BY <1>3, <1>5, WidthsKept
  <2>2. ToCome(calls[c].todo, l, k + 1)'
    BY <1>3, <1>4, <1>15, <2>1 DEF ToCome
  <2>3. HeldBack(Handler(calls[c].handler).stream, l, k + 1)'
    <3>1. HeldBack(Handler(calls[c].handler).stream, l, k)
      BY DEF InHand
    <3> QED BY <1>3, <1>4, <2>1, <3>1 DEF HeldBack, Handler
  <2>4. calls[c].handler = written[l].handler
    BY DEF InHand
  <2> QED BY <1>3, <1>4, <1>14, <2>2, <2>3, <2>4 DEF InHand, Calling
<1>17. LinesTracked'
  BY <1>0, <1>3, <1>4, <1>11, <1>16, TrackedOn
<1>18. NothingForeign'
  <2>1. \A i \in 1 .. Len(console') : console'[i].line \in DOMAIN written
    <3>1. /\ Len(console') = Len(console) + 1 /\ console'[Len(console) + 1] = piece
          /\ \A i \in 1 .. Len(console) : console'[i] = console[i]
      BY <1>3, <1>7
    <3>2. \A i \in 1 .. Len(console) : console[i].line \in DOMAIN written
      BY <1>0 DEF NothingForeign, OnlyWritten
    <3>3. \A i \in 1 .. Len(console) + 1 : i \in 1 .. Len(console) \/ i = Len(console) + 1
      BY <1>7
    <3> QED BY <1>6, <3>1, <3>2, <3>3
  <2> QED BY <1>0, <1>3, <2>1 DEF NothingForeign, OnlyWritten
<1>19. FilesTogether'
  BY <1>0, <1>3 DEF FilesTogether
<1>20. piece.part = "end" \/ EndToCome(l)'
  <2> SUFFICES ASSUME piece.part # "end" PROVE EndToCome(l)'
    OBVIOUS
  <2>1. written[l].on_console
    <3>1. Total(l) # FileWidth(l) + 0
      <4>1. Width(l) \in {2, 3} /\ FileWidth(l) \in {0, Width(l)} /\ Total(l) \in Nat
        BY <1>0, WidthTypes
      <4> QED BY <4>1
    <3> QED BY <3>1 DEF Total
  <2>2. k + 1 # Total(l)
    <3>1. Total(l) = FileWidth(l) + Width(l)
      BY <2>1 DEF Total
    <3>2. n + 1 # Width(l)
      BY <1>6
    <3>3. Width(l) \in {2, 3} /\ FileWidth(l) \in {0, Width(l)}
      BY <1>0, WidthTypes
    <3> QED BY <1>1, <3>1, <3>2, <3>3
  <2>3. calls[c].todo[Len(calls[c].todo)] = [place |-> "console", piece |-> LinePieces(l)[Width(l)]]
    BY <1>0, <1>3, <2>1, NextPiece DEF Calling
  <2>4. calls'[c].todo # <<>>
    <3>1. Len(Tail(calls[c].todo)) = Total(l) - (k + 1)
      BY <1>15 DEF ToCome
    <3>2. Total(l) \in Nat
      BY <1>0, WidthTypes
    <3>3. Len(Tail(calls[c].todo)) # 0
      BY <1>15, <2>2, <3>1, <3>2
    <3>4. Tail(calls[c].todo) # <<>>
      <4>1. PICK rest : rest = Tail(calls[c].todo)
        OBVIOUS
      <4>2. Len(rest) # Len(<<>>)
        BY <3>3, <4>1
      <4>3. rest # <<>>
        BY <4>2
      <4> QED BY <4>1, <4>3
    <3> QED BY <1>4, <3>4
  <2>5. calls'[c].todo[Len(calls'[c].todo)] = [place |-> "console", piece |-> LinePieces(l)[Width(l)]]
    BY <1>4, <1>15, <2>2, <2>3
  <2> QED BY <1>4, <2>4, <2>5 DEF EndToCome, Calling
<1>21. ConsoleInOrder'
  BY <1>0, <1>3, <1>4, <1>6, <1>20, ConsoleOn
<1> QED BY <1>8, <1>9, <1>10, <1>17, <1>18, <1>19, <1>21 DEF LogFilesInv

\* What follows the pieces of a line in a file keeps them together.
LEMMA TogetherOn ==
  ASSUME NEW s \in Seq(Pieces), Together(s), NEW l \in Lines, NEW a \in Nat, NEW b \in Nat,
         a <= b, b <= Width(l),
         a = 0 \/ (a = Width(l) - 1 /\ l \in LongLines) \/ a = Width(l)
  PROVE  Together(s \o SubSeq(LinePieces(l), a + 1, b))
<1>1. PICK w : w = Width(l)
  OBVIOUS
<1>2. /\ w \in {2, 3} /\ LinePieces(l) \in Seq(Pieces) /\ Len(LinePieces(l)) = w
      /\ \A i \in 1 .. w : LinePieces(l)[i].line = l /\ (LinePieces(l)[i].part = "end" <=> i = w)
  BY <1>1, PieceFacts DEF Width
<1>3. PICK t : t = SubSeq(LinePieces(l), a + 1, b)
  OBVIOUS
<1>4. t \in Seq(Pieces) /\ Len(t) = b - a /\ \A i \in 1 .. b - a : t[i] = LinePieces(l)[a + i]
  <2>1. PICK p : p = LinePieces(l)
    OBVIOUS
  <2>2. p \in Seq(Pieces) /\ Len(p) = w /\ b <= w /\ w \in Nat
    BY <1>1, <1>2, <2>1
  <2>3. \A i \in a + 1 .. b : p[i] \in Pieces
    <3> SUFFICES ASSUME NEW i \in a + 1 .. b
                 PROVE  p[i] \in Pieces
      OBVIOUS
    <3>1. i \in 1 .. Len(p)
      BY <2>2
    <3> QED BY <2>2, <3>1, ElementOfSeq
  <2>4. /\ SubSeq(p, a + 1, b) \in Seq(Pieces)
        /\ Len(SubSeq(p, a + 1, b)) = IF a + 1 <= b THEN b - (a + 1) + 1 ELSE 0
        /\ \A i \in 1 .. b - (a + 1) + 1 : SubSeq(p, a + 1, b)[i] = p[(a + 1) + i - 1]
    <3>1. a + 1 \in Int /\ b \in Int
      OBVIOUS
    <3> QED BY <2>2, <2>3, <3>1, SubSeqProperties
  <2>5. Len(SubSeq(p, a + 1, b)) = b - a
    BY <2>4
  <2>6. \A i \in 1 .. b - a : SubSeq(p, a + 1, b)[i] = p[a + i]
    <3> SUFFICES ASSUME NEW i \in 1 .. b - a
                 PROVE  SubSeq(p, a + 1, b)[i] = p[a + i]
      OBVIOUS
    <3>1. i \in 1 .. b - (a + 1) + 1 /\ (a + 1) + i - 1 = a + i
      OBVIOUS
    <3> QED BY <2>4, <3>1
  <2> QED BY <1>3, <2>1, <2>4, <2>5, <2>6
<1>5. PICK u : u = s \o t
  OBVIOUS
<1>6. PICK n : n = Len(s)
  OBVIOUS
<1>7. /\ n \in Nat /\ u \in Seq(Pieces) /\ Len(u) = n + (b - a)
      /\ \A i \in 1 .. n : u[i] = s[i]
      /\ \A i \in 1 .. b - a : u[n + i] = LinePieces(l)[a + i]
      /\ \A i \in 1 .. Len(u) : i \in 1 .. n \/ \E j \in 1 .. b - a : i = n + j
  <2>1. /\ u \in Seq(Pieces) /\ Len(u) = Len(s) + Len(t)
        /\ \A i \in 1 .. Len(s) : u[i] = s[i]
        /\ \A i \in 1 .. Len(t) : u[Len(s) + i] = t[i]
        /\ \A i \in 1 .. Len(u) : i \in 1 .. Len(s) \/ \E j \in 1 .. Len(t) : i = Len(s) + j
    BY <1>4, <1>5, Joined
  <2>2. Len(s) \in Nat
    OBVIOUS
  <2> QED BY <1>4, <1>6, <2>1, <2>2
<1>8. ASSUME NEW i \in 2 .. Len(u)
      PROVE  \/ u[i] = LinePieces(u[i].line)[1]
             \/ u[i].line \in LongLines /\ u[i].part = "end"
             \/ u[i - 1].line = u[i].line
  <2>0. i \in 1 .. Len(u)
    BY <1>7
  <2>1. CASE i \in 1 .. n
    <3>1. i \in 2 .. Len(s) /\ i - 1 \in 1 .. n
      BY <1>6, <1>7, <2>1
    <3>2. u[i] = s[i] /\ u[i - 1] = s[i - 1]
      BY <1>7, <2>1, <3>1
    <3> QED BY <3>1, <3>2 DEF Together
  <2>2. ASSUME NEW j \in 1 .. b - a, i = n + j
        PROVE  \/ u[i] = LinePieces(u[i].line)[1]
               \/ u[i].line \in LongLines /\ u[i].part = "end"
               \/ u[i - 1].line = u[i].line
    <3>1. a + j \in 1 .. w /\ u[i] = LinePieces(l)[a + j]
      BY <1>1, <1>2, <1>7, <2>2
    <3>2. u[i].line = l
      BY <1>2, <3>1
    <3>3. CASE j = 1
      <4>1. CASE a = 0
        <5>1. a + j = 1
          BY <3>3, <4>1
        <5> QED BY <3>1, <3>2, <5>1
      <4>2. CASE a = w - 1 /\ l \in LongLines
        <5>1. a + j = w
          BY <1>2, <3>3, <4>2
        <5> QED BY <1>2, <3>1, <3>2, <4>2, <5>1
      <4>3. a # w
        BY <1>1, <1>2, <2>2
      <4> QED BY <1>1, <4>1, <4>2, <4>3
    <3>4. CASE j # 1
      <4>1. j - 1 \in 1 .. b - a /\ i - 1 = n + (j - 1) /\ a + (j - 1) \in 1 .. w
        BY <1>7, <2>2, <3>1, <3>4, <1>1, <1>2
      <4>2. u[i - 1] = LinePieces(l)[a + (j - 1)]
        BY <1>7, <4>1
      <4> QED BY <1>2, <3>2, <4>1, <4>2
    <3> QED BY <3>3, <3>4
  <2> QED BY <1>7, <2>0, <2>1, <2>2
<1>9. Together(u)
  BY <1>8 DEF Together
<1> QED BY <1>3, <1>5, <1>9

\* What ToFile does with the next piece of a line: the stream collects it, or all that was
\* collected goes to the file.
LEMMA ToFileFacts ==
  ASSUME LogFilesTypeOK, NEW h \in Handlers, NEW l \in DOMAIN written, NEW k \in 0 .. Total(l),
         k < FileWidth(l), HeldBack(Handler(h).stream, l, k), ToFile(h, LinePieces(l)[k + 1])
  PROVE  LET a    == InFile(l, k)
             b    == InFile(l, k + 1)
             name == written[l].file
         IN /\ a \in Nat /\ b \in Nat /\ a <= b /\ b <= k + 1 /\ k + 1 <= Width(l)
            /\ a = 0 \/ (a = Width(l) - 1 /\ l \in LongLines) \/ a = Width(l)
            /\ name \in FileNames
            /\ logFiles' \in [FileNames -> Seq(Pieces)]
            /\ logFiles'[name] = logFiles[name] \o SubSeq(LinePieces(l), a + 1, b)
            /\ \A other \in FileNames \ {name} : logFiles'[other] = logFiles[other]
            /\ logHandlers' \in [Handlers -> HandlerStates]
            /\ \A g \in Handlers : /\ logHandlers'[g].life = logHandlers[g].life
                                   /\ logHandlers'[g].lock = logHandlers[g].lock
                                   /\ logHandlers'[g].opened = logHandlers[g].opened
                                   /\ logHandlers'[g].out_file_name = logHandlers[g].out_file_name
            /\ \A g \in Handlers \ {h} : logHandlers'[g].stream = logHandlers[g].stream
            /\ logHandlers'[h].stream # NoStream /\ Handler(h).stream # NoStream
            /\ Handler(h).stream.name = name /\ logHandlers'[h].stream.name = name
            /\ logHandlers'[h].stream.collected = SubSeq(LinePieces(l), b + 1, k + 1)
<1>1. PICK w : w = Width(l)
  OBVIOUS
<1>2. PICK a : a = InFile(l, k)
  OBVIOUS
<1>3. PICK b : b = InFile(l, k + 1)
  OBVIOUS
<1>4. PICK name : name = written[l].file
  OBVIOUS
<1>5. PICK piece : piece = LinePieces(l)[k + 1]
  OBVIOUS
<1>6. PICK stream : stream = Handler(h).stream
  OBVIOUS
<1>7. w \in {2, 3} /\ k \in Nat /\ k + 1 <= w /\ k + 1 \in 1 .. Width(l) /\ FileWidth(l) # 0
  <2>1. Width(l) \in {2, 3} /\ FileWidth(l) \in {0, Width(l)} /\ Total(l) \in Nat
    BY WidthTypes
  <2>2. w \in {2, 3} /\ FileWidth(l) \in {0, w} /\ k \in Nat
    BY <1>1, <2>1
  <2>3. k + 1 <= w /\ FileWidth(l) # 0
    BY <2>2
  <2> QED BY <1>1, <2>2, <2>3
<1>8. name \in FileNames /\ name # "" /\ l \in Lines
  <2>1. /\ l \in Lines /\ written[l].file \in FileNames \cup {""}
        /\ (FileWidth(l) = 0 <=> written[l].file = "")
    BY WidthTypes
  <2> QED BY <1>4, <1>7, <2>1
<1>9. /\ a = 0 \/ (a = w - 1 /\ l \in LongLines) \/ a = w
      /\ a \in 0 .. k /\ InStream(l, k) = k
      /\ k + 1 = w \/ (l \in LongLines /\ k + 1 = w - 1) => b = k + 1
      /\ ~(k + 1 = w \/ (l \in LongLines /\ k + 1 = w - 1)) => b = a
  <2>1. /\ InFile(l, k) \in 0 .. InStream(l, k) /\ InStream(l, k) = k
        /\ k + 1 = Width(l) \/ (l \in LongLines /\ k + 1 = Width(l) - 1) => InFile(l, k + 1) = k + 1
        /\ ~(k + 1 = Width(l) \/ (l \in LongLines /\ k + 1 = Width(l) - 1)) =>
             InFile(l, k + 1) = InFile(l, k)
        /\ InFile(l, k) = 0 \/ (InFile(l, k) = Width(l) - 1 /\ l \in LongLines) \/ InFile(l, k) = Width(l)
    BY Counts
  <2> QED BY <1>1, <1>2, <1>3, <2>1
<1>10. a \in Nat /\ a <= k /\ b \in Nat /\ a <= b /\ b <= k + 1
  <2>1. b = a \/ b = k + 1
    BY <1>9
  <2>2. a \in 0 .. k /\ k \in Nat
    BY <1>7, <1>9
  <2> QED BY <2>1, <2>2
<1>11. /\ piece \in Pieces /\ piece.line = l
       /\ (piece.part = "end" <=> k + 1 = w) /\ (piece.part = "text" <=> k + 1 = w - 1)
  BY <1>1, <1>5, <1>7, <1>8, PieceFacts
<1>a. LinePieces(l) \in Seq(Pieces) /\ Len(LinePieces(l)) = w
  BY <1>1, <1>8, PieceFacts DEF Width
<1>12. /\ stream # NoStream /\ stream.name = name
       /\ stream.collected = SubSeq(LinePieces(l), a + 1, k)
  BY <1>2, <1>4, <1>6, <1>8, <1>9 DEF HeldBack
<1>13. Append(stream.collected, piece) = SubSeq(LinePieces(l), a + 1, k + 1)
  <2>1. k < Width(l)
    BY <1>1, <1>7
  <2>2. Append(SubSeq(LinePieces(l), a + 1, k), LinePieces(l)[k + 1]) = SubSeq(LinePieces(l), a + 1, k + 1)
    BY <1>7, <1>10, <2>1, LastPieces
  <2> QED BY <1>5, <1>12, <2>2
<1>14. PICK pieces : pieces = SubSeq(LinePieces(l), a + 1, k + 1)
  OBVIOUS
<1>15. PICK flush \in BOOLEAN :
         flush <=> (piece.part = "end" \/ (piece.part = "text" /\ piece.line \in LongLines))
  OBVIOUS
<1>16. PICK held : held = IF flush THEN <<>> ELSE pieces
  OBVIOUS
<1>17. /\ logHandlers' = [logHandlers EXCEPT ![h].stream.collected = held]
       /\ flush => logFiles' = [logFiles EXCEPT ![name] = @ \o pieces]
       /\ ~flush => logFiles' = logFiles
  BY <1>5, <1>6, <1>12, <1>13, <1>14, <1>15, <1>16 DEF ToFile
<1>18. pieces \in Seq(Pieces)
  <2>1. a + 1 <= k + 2 /\ k + 1 <= Len(LinePieces(l)) /\ a + 1 \in Int /\ k + 1 \in Int
    BY <1>7, <1>10, <1>a
  <2> QED BY <1>7, <1>10, <1>a, <1>14, <2>1, SubSeqProperties
<1>19. flush => b = k + 1
  BY <1>9, <1>11, <1>15
<1>20. ~flush => b = a
  BY <1>9, <1>11, <1>15
<1>21. held \in Seq(Pieces) /\ held = SubSeq(LinePieces(l), b + 1, k + 1)
  <2>1. CASE flush
    <3>1. PICK s : s = SubSeq(LinePieces(l), (k + 1) + 1, k + 1)
      OBVIOUS
    <3>2. s \in Seq(Pieces) /\ Len(s) = 0
      BY <1>7, <1>a, <3>1, SubSeqProperties
    <3>3. s = <<>>
      BY <3>2, EmptySeq
    <3> QED BY <1>16, <1>19, <2>1, <3>1, <3>3
  <2>2. CASE ~flush
    BY <1>14, <1>16, <1>18, <1>20, <2>2
  <2> QED BY <2>1, <2>2
<1>22. logFiles[name] \in Seq(Pieces) /\ DOMAIN logFiles = FileNames
  BY <1>8 DEF LogFilesTypeOK
<1>23. /\ logFiles' \in [FileNames -> Seq(Pieces)]
       /\ logFiles'[name] = logFiles[name] \o SubSeq(LinePieces(l), a + 1, b)
       /\ \A other \in FileNames \ {name} : logFiles'[other] = logFiles[other]
  <2>1. CASE flush
    <3>1. logFiles[name] \o pieces \in Seq(Pieces)
      BY <1>18, <1>22, Joined
    <3>2. logFiles' = [logFiles EXCEPT ![name] = logFiles[name] \o pieces]
      BY <1>17, <2>1
    <3>3. /\ logFiles' \in [FileNames -> Seq(Pieces)] /\ logFiles'[name] = logFiles[name] \o pieces
          /\ \A other \in FileNames \ {name} : logFiles'[other] = logFiles[other]
      BY <1>8, <3>1, <3>2 DEF LogFilesTypeOK
    <3> QED BY <1>14, <1>19, <2>1, <3>3
  <2>2. CASE ~flush
    <3>1. PICK s : s = SubSeq(LinePieces(l), a + 1, a)
      OBVIOUS
    <3>2. s \in Seq(Pieces) /\ Len(s) = 0
      <4>1. a <= Len(LinePieces(l)) /\ a - (a + 1) + 1 = 0
        BY <1>7, <1>10, <1>a
      <4> QED BY <1>10, <1>a, <3>1, <4>1, SubSeqProperties
    <3>3. s = <<>>
      BY <3>2, EmptySeq
    <3>4. logFiles[name] \o s = logFiles[name]
      BY <1>22, <3>3, ConcatEmptySeq
    <3>5. logFiles' = logFiles
      BY <1>17, <2>2
    <3>6. logFiles' \in [FileNames -> Seq(Pieces)]
      BY <3>5 DEF LogFilesTypeOK
    <3> QED BY <1>20, <2>2, <3>1, <3>4, <3>5, <3>6
  <2> QED BY <2>1, <2>2
<1>24. PICK new : new = [stream EXCEPT !.collected = held]
  OBVIOUS
<1>25. stream \in Streams /\ logHandlers[h] \in HandlerStates /\ logHandlers[h].stream = stream
  <2>1. logHandlers[h] \in HandlerStates
    BY HandlerTypes
  <2> QED BY <1>6, <1>12, <2>1 DEF HandlerStates, Handler
<1>26. new \in Streams /\ new # NoStream /\ new.name = name /\ new.collected = held
  <2>1. new \in Streams /\ new.name = name /\ new.collected = held
    BY <1>12, <1>21, <1>24, <1>25 DEF Streams
  <2>2. NoStream \notin Streams
    BY LogFilesAssumption DEF Streams
  <2> QED BY <2>1, <2>2
<1>27. PICK handler : handler = [logHandlers[h] EXCEPT !.stream = new]
  OBVIOUS
<1>28. /\ handler \in HandlerStates /\ handler.stream = new /\ handler.life = logHandlers[h].life
       /\ handler.lock = logHandlers[h].lock /\ handler.opened = logHandlers[h].opened
       /\ handler.out_file_name = logHandlers[h].out_file_name
  BY <1>25, <1>26, <1>27 DEF HandlerStates
<1>29. logHandlers' = [logHandlers EXCEPT ![h] = handler]
  BY <1>17, <1>24, <1>25, <1>27
<1>30. /\ logHandlers' \in [Handlers -> HandlerStates] /\ logHandlers'[h] = handler
       /\ \A g \in Handlers \ {h} : logHandlers'[g] = logHandlers[g]
  BY <1>28, <1>29 DEF LogFilesTypeOK
<1>31. \A g \in Handlers : /\ logHandlers'[g].life = logHandlers[g].life
                           /\ logHandlers'[g].lock = logHandlers[g].lock
                           /\ logHandlers'[g].opened = logHandlers[g].opened
                           /\ logHandlers'[g].out_file_name = logHandlers[g].out_file_name
  BY <1>28, <1>30
<1>32. Handler(h).stream # NoStream /\ Handler(h).stream.name = name
  BY <1>6, <1>12
<1>33. /\ logHandlers'[h].stream # NoStream /\ logHandlers'[h].stream.name = name
       /\ logHandlers'[h].stream.collected = SubSeq(LinePieces(l), b + 1, k + 1)
  BY <1>21, <1>26, <1>28, <1>30
<1>34. \A g \in Handlers \ {h} : logHandlers'[g].stream = logHandlers[g].stream
  BY <1>30
<1> QED BY <1>1, <1>2, <1>3, <1>4, <1>7, <1>8, <1>9, <1>10, <1>23, <1>30, <1>31, <1>32, <1>33, <1>34

\* A piece that goes to the stream of a file.
LEMMA FilePieceInv ==
  ASSUME LogFilesInv, NEW c \in Callers, NEW l \in DOMAIN written, NEW k \in 0 .. Total(l),
         k # Total(l), InHand(c, l, k), EmitPiece(c), k < FileWidth(l)
  PROVE  LogFilesInv'
<1>0. /\ LogFilesTypeOK /\ CallsHold /\ StreamsAtRest /\ FaultNotOpened /\ LinesTracked /\ NothingForeign
      /\ FilesTogether /\ ConsoleInOrder
  BY DEF LogFilesInv
<1>1. PICK h : h = calls[c].handler
  OBVIOUS
<1>2. /\ calls' = [calls EXCEPT ![c].todo = Tail(@)] /\ calls[c].op = "emit" /\ calls[c].todo # <<>>
      /\ UNCHANGED <<written, opens, fault>> /\ console' = console
      /\ ToFile(h, LinePieces(l)[k + 1])
  BY <1>0, <1>1, PieceSteps
<1>3. /\ calls' \in [Callers -> Calls]
      /\ calls'[c].op = "emit" /\ calls'[c].handler = calls[c].handler
      /\ calls'[c].todo = Tail(calls[c].todo)
      /\ \A d \in Callers \ {c} : calls'[d] = calls[d]
  BY <1>0, <1>2, PieceCalls
<1>4. h \in Handlers /\ logHandlers[h].lock = c /\ h = written[l].handler
  BY <1>0, <1>1, LockedInHand
<1>5. PICK a : a = InFile(l, k)
  OBVIOUS
<1>6. PICK b : b = InFile(l, k + 1)
  OBVIOUS
<1>7. PICK name : name = written[l].file
  OBVIOUS
<1>8. PICK new : new = SubSeq(LinePieces(l), a + 1, b)
  OBVIOUS
<1>9. /\ a \in Nat /\ b \in Nat /\ a <= b /\ b <= k + 1 /\ k + 1 <= Width(l)
      /\ a = 0 \/ (a = Width(l) - 1 /\ l \in LongLines) \/ a = Width(l)
      /\ name \in FileNames
      /\ logFiles' \in [FileNames -> Seq(Pieces)]
      /\ logFiles'[name] = logFiles[name] \o new
      /\ \A other \in FileNames \ {name} : logFiles'[other] = logFiles[other]
      /\ logHandlers' \in [Handlers -> HandlerStates]
      /\ \A g \in Handlers : /\ logHandlers'[g].life = logHandlers[g].life
                             /\ logHandlers'[g].lock = logHandlers[g].lock
                             /\ logHandlers'[g].opened = logHandlers[g].opened
                             /\ logHandlers'[g].out_file_name = logHandlers[g].out_file_name
      /\ \A g \in Handlers \ {h} : logHandlers'[g].stream = logHandlers[g].stream
      /\ logHandlers'[h].stream # NoStream /\ logHandlers[h].stream # NoStream
      /\ logHandlers[h].stream.name = name /\ logHandlers'[h].stream.name = name
      /\ logHandlers'[h].stream.collected = SubSeq(LinePieces(l), b + 1, k + 1)
  <2>1. HeldBack(Handler(h).stream, l, k)
    BY <1>1 DEF InHand
  <2> QED BY <1>0, <1>2, <1>4, <1>5, <1>6, <1>7, <1>8, <2>1, ToFileFacts DEF Handler
<1>10. l \in Lines /\ Width(l) \in {2, 3} /\ Total(l) \in Nat /\ k \in Nat
  <2>1. l \in Lines /\ Width(l) \in {2, 3} /\ Total(l) \in Nat
    BY <1>0, WidthTypes
  <2> QED BY <2>1
<1>11. /\ new \in Seq(Pieces) /\ Len(new) = b - a
       /\ \A i \in 1 .. Len(new) : new[i].line = l
  <2>1. /\ LinePieces(l) \in Seq(Pieces) /\ Len(LinePieces(l)) = Width(l)
        /\ \A i \in 1 .. Width(l) : LinePieces(l)[i].line = l
    BY <1>10, PieceFacts DEF Width
  <2>2. new \in Seq(Pieces) /\ Len(new) = b - a /\ \A i \in 1 .. b - a : new[i] = LinePieces(l)[a + i]
    BY <1>8, <1>9, <1>10, <2>1, SubSeqProperties
  <2>3. \A i \in 1 .. b - a : a + i \in 1 .. Width(l)
    BY <1>9, <1>10
  <2> QED BY <2>1, <2>2, <2>3
<1>12. \A g \in FileNames : logFiles[g] \in Seq(Pieces)
  BY <1>0 DEF LogFilesTypeOK
<1>13. LogFilesTypeOK'
  <2>1. UNCHANGED <<console, written>>
    BY <1>2
  <2> QED BY <1>0, <1>3, <1>9, <2>1 DEF LogFilesTypeOK
<1>14. CallsHold'
  <2>1. ASSUME NEW g \in Handlers, NEW d \in Callers
        PROVE  logHandlers'[g].lock = d <=> (calls'[d].op = "emit" /\ calls'[d].handler = g)
    <3>1. logHandlers[g].lock = d <=> (calls[d].op = "emit" /\ calls[d].handler = g)
      BY <1>0, CallsHoldEach
    <3> QED BY <1>2, <1>3, <1>9, <3>1
  <2>2. ASSUME NEW d \in Callers, calls'[d].op # "idle"
        PROVE  logHandlers'[calls'[d].handler].life = "alive"
    <3>1. calls[d].op # "idle" /\ calls'[d].handler = calls[d].handler
      BY <1>2, <1>3, <2>2
    <3>2. logHandlers[calls[d].handler].life = "alive" /\ calls[d].handler \in Handlers
      BY <1>0, <3>1, CallsHoldEach, CallTypes
    <3> QED BY <1>9, <3>1, <3>2
  <2> QED BY <2>1, <2>2 DEF CallsHold, Calling, Alive, Handler
<1>15. StreamsAtRest'
  <2>1. ASSUME NEW g \in Handlers PROVE AtRest(logHandlers'[g])
    <3>1. AtRest(logHandlers[g])
      BY <1>0, StreamsAtRestEach
    <3>2. CASE g # h
      <4>1. logHandlers'[g].stream = logHandlers[g].stream
        BY <1>9, <3>2
      <4> QED BY <1>9, <3>1, <4>1 DEF AtRest
    <3>3. CASE g = h
      <4>1. logHandlers'[h].lock # Nobody
        BY <1>4, <1>9, LogFilesAssumption
      <4>2. logHandlers'[h].out_file_name = logHandlers'[h].stream.name
        <5>1. logHandlers[h].out_file_name = logHandlers[h].stream.name
          BY <1>9, <3>1, <3>3 DEF AtRest
        <5> QED BY <1>4, <1>9, <5>1
      <4> QED BY <1>9, <3>3, <4>1, <4>2 DEF AtRest
    <3> QED BY <3>2, <3>3
  <2> QED BY <2>1 DEF StreamsAtRest, AtRest, Unlocked, Handler
<1>16. FaultNotOpened'
  BY <1>0, <1>2, <1>9 DEF FaultNotOpened
\* The lines.
<1>17. ASSUME NEW m \in DOMAIN written \ {l}, NEW j, Arrived(m, j) PROVE Arrived(m, j)'
  <2>1. ASSUME NEW n, NEW other \in FileNames, HasPieces(logFiles[other], m, n)
        PROVE  HasPieces(logFiles'[other], m, n)
    <3>1. CASE other = name
      <4>1. \A i \in 1 .. Len(new) : new[i].line # m
        BY <1>11
      <4>2. HasPieces(logFiles[name] \o new, m, n)
        BY <1>9, <1>11, <1>12, <2>1, <3>1, <4>1, PiecesOfOthers
      <4> QED BY <1>9, <3>1, <4>2
    <3>2. CASE other # name
      BY <1>9, <2>1, <3>2
    <3> QED BY <3>1, <3>2
  <2> QED BY <1>2, <1>17, <2>1, ArrivedKept
<1>18. Arrived(l, k)
  BY DEF InHand
<1>19. HasPieces(logFiles'[name], l, b)
  <2>1. HasPieces(logFiles[name], l, a)
    BY <1>5, <1>7, <1>9, <1>18 DEF Arrived
  <2>2. b <= Width(l)
    BY <1>9, <1>10
  <2>3. HasPieces(logFiles[name] \o new, l, b)
    BY <1>8, <1>9, <1>10, <1>12, <2>1, <2>2, PiecesOfLine
  <2> QED BY <1>9, <2>3
<1>20. OnScreen(l, k) = 0 /\ OnScreen(l, k + 1) = 0 /\ InStream(l, k + 1) = k + 1
  BY <1>0, Counts
<1>21. /\ InFile(l, k + 1)' = b /\ OnScreen(l, k + 1)' = 0 /\ InStream(l, k + 1)' = k + 1
       /\ FileWidth(l)' = FileWidth(l) /\ Total(l)' = Total(l)
  BY <1>2, <1>6, <1>20, WidthsKept
<1>22. Arrived(l, k + 1)'
  <2>1. HasPieces(console, l, 0)
    BY <1>18, <1>20 DEF Arrived
  <2>2. ASSUME NEW other \in FileNames
        PROVE  HasPieces(logFiles'[other], l, IF other = written'[l].file THEN InFile(l, k + 1)' ELSE 0)
    <3>1. CASE other = name
      BY <1>2, <1>7, <1>19, <1>21, <3>1
    <3>2. CASE other # name
      <4>1. HasPieces(logFiles[other], l, 0)
        BY <1>7, <1>18, <3>2 DEF Arrived
      <4> QED BY <1>2, <1>7, <1>9, <3>2, <4>1
    <3> QED BY <3>1, <3>2
  <2> QED BY <1>2, <1>21, <2>1, <2>2 DEF Arrived
<1>23. ToCome(Tail(calls[c].todo), l, k + 1) /\ k + 1 \in 0 .. Total(l)
       /\ (k + 1 # Total(l) => Tail(calls[c].todo)[Len(Tail(calls[c].todo))] =
                                 calls[c].todo[Len(calls[c].todo)])
  <2>1. ToCome(calls[c].todo, l, k) /\ calls[c].todo \in Seq(ToDos)
    BY <1>0, <1>2, NextPiece DEF InHand, Calling
  <2> QED BY <1>0, <2>1, ToComeTail
<1>24. InHand(c, l, k + 1)'
  <2>1. ToCome(calls[c].todo, l, k + 1)'
    BY <1>3, <1>21, <1>23 DEF ToCome
  <2>2. HeldBack(Handler(calls[c].handler).stream, l, k + 1)'
    <3>1. Handler(calls[c].handler).stream' = logHandlers'[h].stream
      BY <1>1, <1>3 DEF Handler
    <3>2. HeldBack(Handler(calls[c].handler).stream, l, k + 1)' <=>
            /\ written'[l].file # "" => /\ logHandlers'[h].stream # NoStream
                                        /\ logHandlers'[h].stream.name = written'[l].file
            /\ logHandlers'[h].stream # NoStream =>
                 logHandlers'[h].stream.collected =
                   SubSeq(LinePieces(l), InFile(l, k + 1)' + 1, InStream(l, k + 1)')
      BY <3>1 DEF HeldBack
    <3> QED BY <1>2, <1>7, <1>9, <1>21, <3>2
  <2> QED BY <1>1, <1>2, <1>3, <1>4, <1>22, <2>1, <2>2 DEF InHand, Calling
<1>25. LinesTracked'
  BY <1>0, <1>1, <1>2, <1>3, <1>9, <1>17, <1>24, TrackedOn
<1>26. NothingForeign'
  <2>1. ASSUME NEW other \in FileNames PROVE OnlyWritten(logFiles[other])'
    <3>1. OnlyWritten(logFiles[other])
      BY <1>0 DEF NothingForeign
    <3>2. CASE other # name
      BY <1>2, <1>9, <3>1, <3>2 DEF OnlyWritten
    <3>3. CASE other = name
      <4>1. PICK s : s = logFiles[name]
        OBVIOUS
      <4>2. s \in Seq(Pieces) /\ logFiles'[other] = s \o new
        BY <1>9, <1>12, <3>3, <4>1
      <4>3. PICK u : u = s \o new
        OBVIOUS
      <4>4. /\ \A i \in 1 .. Len(s) : u[i] = s[i]
            /\ \A i \in 1 .. Len(new) : u[Len(s) + i] = new[i]
            /\ \A i \in 1 .. Len(u) : i \in 1 .. Len(s) \/ \E j \in 1 .. Len(new) : i = Len(s) + j
        BY <1>11, <4>2, <4>3, Joined
      <4>5. \A i \in 1 .. Len(s) : s[i].line \in DOMAIN written
        BY <3>1, <3>3, <4>1 DEF OnlyWritten
      <4>6. \A i \in 1 .. Len(u) : u[i].line \in DOMAIN written
        BY <1>11, <4>4, <4>5
      <4> QED BY <1>2, <4>2, <4>3, <4>6 DEF OnlyWritten
    <3> QED BY <3>2, <3>3
  <2>2. OnlyWritten(console)'
    BY <1>0, <1>2 DEF NothingForeign, OnlyWritten
  <2> QED BY <2>1, <2>2 DEF NothingForeign
<1>27. FilesTogether'
  <2>1. ASSUME NEW other \in FileNames PROVE Together(logFiles'[other])
    <3>1. Together(logFiles[other])
      BY <1>0 DEF FilesTogether
    <3>2. CASE other # name
      BY <1>9, <3>1, <3>2
    <3>3. CASE other = name
      <4>1. b <= Width(l)
        BY <1>9, <1>10
      <4>2. Together(logFiles[name] \o new)
        BY <1>8, <1>9, <1>10, <1>12, <3>1, <3>3, <4>1, TogetherOn
      <4> QED BY <1>9, <3>3, <4>2
    <3> QED BY <3>2, <3>3
  <2> QED BY <2>1 DEF FilesTogether
<1>28. ASSUME NEW m \in DOMAIN written, EndToCome(m) PROVE EndToCome(m)'
  <2>1. PICK d \in Callers :
          /\ Calling(d) = "emit" /\ calls[d].todo # <<>>
          /\ calls[d].todo[Len(calls[d].todo)] = [place |-> "console", piece |-> LinePieces(m)[Width(m)]]
    BY <1>28 DEF EndToCome
  <2>2. CASE d # c
    <3>1. calls'[d] = calls[d]
      BY <1>3, <2>2
    <3> QED BY <2>1, <3>1 DEF EndToCome, Calling
  <2>3. CASE d = c
    <3>1. k + 1 # Total(l)
      <4>1. ToCome(calls[c].todo, l, k)
        BY DEF InHand
      <4>2. CASE k + 1 = Total(l)
        <5>1. Len(calls[c].todo) = 1
          BY <1>10, <4>1, <4>2 DEF ToCome
        <5>2. k + 1 <= FileWidth(l)
          <6>1. FileWidth(l) \in {0, Width(l)}
            BY <1>0, WidthTypes
          <6> QED BY <1>10, <6>1
        <5>3. calls[c].todo[1] = [place |-> "file", piece |-> LinePieces(l)[k + 1]]
          <6>1. 1 \in 1 .. Len(calls[c].todo)
            BY <5>1
          <6>2. calls[c].todo[1] = IF k + 1 <= FileWidth(l)
                                   THEN [place |-> "file", piece |-> LinePieces(l)[k + 1]]
                                   ELSE [place |-> "console",
                                         piece |-> LinePieces(l)[k + 1 - FileWidth(l)]]
            BY <4>1, <6>1 DEF ToCome
          <6> QED BY <5>2, <6>2
        <5>4. calls[c].todo[1].place = "file" /\ calls[c].todo[1].place = "console"
          BY <2>1, <2>3, <5>1, <5>3
        <5> QED BY <5>4
      <4> QED BY <4>2
    <3>2. Tail(calls[c].todo)[Len(Tail(calls[c].todo))] =
            [place |-> "console", piece |-> LinePieces(m)[Width(m)]]
      BY <1>23, <2>1, <2>3, <3>1
    <3>3. Tail(calls[c].todo) # <<>>
      <4>1. PICK rest : rest = Tail(calls[c].todo)
        OBVIOUS
      <4>2. Len(rest) = Total(l) - (k + 1)
        BY <1>23, <4>1 DEF ToCome
      <4>3. Len(rest) # Len(<<>>)
        BY <1>10, <3>1, <4>2
      <4>4. rest # <<>>
        BY <4>3
      <4> QED BY <4>1, <4>4
    <3> QED BY <1>3, <3>2, <3>3 DEF EndToCome, Calling
  <2> QED BY <2>2, <2>3
<1>29. ConsoleInOrder'
  <2>1. /\ \A i : Owner(i)' = Owner(i)
        /\ \A i : LastOne(i)' <=> LastOne(i)
        /\ \A i, j : NoneBetween(i, j)' <=> NoneBetween(i, j)
    BY <1>2 DEF Owner, NoneBetween, LastOne
  <2>2. \A i \in 1 .. Len(console) : console[i].line \in DOMAIN written
    BY <1>0 DEF NothingForeign, OnlyWritten
  <2>3. console' = console
    BY <1>2
  <2> QED BY <1>0, <1>28, <2>1, <2>2, <2>3 DEF ConsoleInOrder
<1> QED BY <1>13, <1>14, <1>15, <1>16, <1>25, <1>26, <1>27, <1>29 DEF LogFilesInv

-----------------------------------------------------------------------------
(* The invariant.                                                          *)

\* At first there is no line.
LEMMA LogFilesStart == LogFilesInit => LogFilesInv
<1> SUFFICES ASSUME LogFilesInit PROVE LogFilesInv
  OBVIOUS
<1>1. \A h \in Handlers : /\ logHandlers[h].lock = Nobody /\ logHandlers[h].stream = NoStream
                            /\ logHandlers[h].opened = FALSE
  BY DEF LogFilesInit
<1>2. \A c \in Callers : calls[c].op = "idle"
  BY DEF LogFilesInit
<1>3. PICK none : none = <<>>
  OBVIOUS
<1>4. /\ \A S : none \in Seq(S)
      /\ Len(none) = 0 /\ DOMAIN none = {}
  <2>1. \A S : none \in Seq(S)
    BY <1>3
  <2>2. Len(none) = 0
    BY <1>3
  <2>3. DOMAIN none = 1 .. 0
    BY <2>1, <2>2
  <2> QED BY <2>1, <2>2, <2>3
<1>5. /\ \A name \in FileNames : logFiles[name] = none
      /\ logFiles = [name \in FileNames |-> none]
      /\ console = none /\ written = none /\ fault = Nobody
  BY <1>3 DEF LogFilesInit
<1>6. LogFilesTypeOK
  <2>1. logHandlers \in [Handlers -> HandlerStates]
    <3>1. [life |-> "none", stream |-> NoStream, lock |-> Nobody,
           flags |-> {}, out_file_name |-> "", opened |-> FALSE] \in HandlerStates
      BY DEF HandlerStates
    <3> QED BY <3>1 DEF LogFilesInit
  <2>2. calls \in [Callers -> Calls]
    BY DEF LogFilesInit, Calls
  <2>3. logFiles \in [FileNames -> Seq(Pieces)] /\ console \in Seq(Pieces)
    BY <1>4, <1>5
  <2>4. DOMAIN written = {}
    BY <1>4, <1>5
  <2>5. written \in [DOMAIN written -> [handler : Handlers, on_console : BOOLEAN,
                                        file : FileNames \cup {""}]]
    <3>1. PICK S : S = [handler : Handlers, on_console : BOOLEAN, file : FileNames \cup {""}]
      OBVIOUS
    <3>2. none \in [1 .. 0 -> S]
      BY <1>4, LenProperties
    <3>3. 1 .. 0 = DOMAIN none
      BY <1>4
    <3> QED BY <1>5, <3>1, <3>2, <3>3
  <2> QED BY <2>1, <2>2, <2>3, <2>4, <2>5 DEF LogFilesTypeOK
<1>7. CallsHold
  BY <1>1, <1>2, LogFilesAssumption DEF CallsHold, Calling, Alive, Handler
<1>8. StreamsAtRest
  BY <1>1 DEF StreamsAtRest, Handler
<1>9. FaultNotOpened
  BY <1>5 DEF FaultNotOpened
<1>10. LinesTracked
  <2>1. DOMAIN written = {}
    BY <1>4, <1>5
  <2> QED BY <1>2, <2>1 DEF LinesTracked, Calling
<1>11. NothingForeign /\ FilesTogether /\ ConsoleInOrder
  <2>1. Len(console) = 0 /\ \A name \in FileNames : Len(logFiles[name]) = 0
    BY <1>4, <1>5
  <2>2. NothingForeign
    BY <2>1 DEF NothingForeign, OnlyWritten
  <2>3. FilesTogether
    BY <2>1 DEF FilesTogether, Together
  <2>4. ConsoleInOrder
    BY <2>1 DEF ConsoleInOrder
  <2> QED BY <2>2, <2>3, <2>4
<1> QED BY <1>6, <1>7, <1>8, <1>9, <1>10, <1>11 DEF LogFilesInv

\* Every step keeps the invariant.
LEMMA LogFilesStep == LogFilesInv /\ [LogFilesNext]_logFileVars => LogFilesInv'
<1> SUFFICES ASSUME LogFilesInv, [LogFilesNext]_logFileVars PROVE LogFilesInv'
  OBVIOUS
<1>1. BasicInv
  BY DEF LogFilesInv, BasicInv
<1>2. ASSUME BasicInv', Quiet PROVE LogFilesInv'
  BY <1>2, QuietKeeps DEF LogFilesInv, BasicInv
<1>3. CASE UNCHANGED logFileVars
  <2>1. UNCHANGED <<logHandlers, calls, logFiles, console, written, fault>>
    BY <1>3 DEF logFileVars
  <2>2. LogFilesTypeOK' /\ CallsHold' /\ StreamsAtRest'
    BY <1>1, <2>1, SameBasic
  <2>3. FaultNotOpened'
    BY <1>1, <2>1 DEF BasicInv, FaultNotOpened
  <2>4. Quiet
    BY <2>1 DEF Quiet
  <2> QED BY <1>2, <2>2, <2>3, <2>4 DEF BasicInv
<1>4. ASSUME fault = Nobody, NEW h \in Handlers, MakeHandler(h) PROVE LogFilesInv'
  BY <1>1, <1>2, <1>4, MakeHandlerQuiet
<1>5. ASSUME fault = Nobody, NEW h \in Handlers, RemoveHandler(h) PROVE LogFilesInv'
  BY <1>1, <1>2, <1>5, RemoveHandlerQuiet
<1>6. ASSUME fault = Nobody, NEW h \in Handlers, FlushFile(h) PROVE LogFilesInv'
  BY <1>1, <1>2, <1>6, FlushFileQuiet
<1>7. ASSUME fault = Nobody, NEW h \in Handlers, SetFlags(h) PROVE LogFilesInv'
  BY <1>1, <1>2, <1>7, SetFlagsQuiet
<1>8. ASSUME fault = Nobody, NEW h \in Handlers, DestroyHandler(h) PROVE LogFilesInv'
  BY <1>1, <1>2, <1>8, DestroyHandlerQuiet
<1>9. ASSUME fault = Nobody, NEW c \in Callers, EmitPiece(c) PROVE LogFilesInv'
  <2>1. PICK l \in DOMAIN written : \E k \in 0 .. Total(l) : InHand(c, l, k) /\ k # Total(l)
    BY <1>9, PieceTaken
  <2>2. PICK k \in 0 .. Total(l) : InHand(c, l, k) /\ k # Total(l)
    BY <2>1
  <2>3. k < FileWidth(l) \/ k >= FileWidth(l)
    <3>1. Width(l) \in {2, 3} /\ FileWidth(l) \in {0, Width(l)} /\ Total(l) \in Nat
      BY <1>1, WidthTypes DEF BasicInv
    <3> QED BY <3>1
  <2>4. CASE k < FileWidth(l)
    BY <1>9, <2>2, <2>4, FilePieceInv
  <2>5. CASE k >= FileWidth(l)
    BY <1>9, <2>2, <2>5, ConsolePieceInv
  <2> QED BY <2>3, <2>4, <2>5
<1>10. ASSUME fault = Nobody, NEW c \in Callers, EmitDone(c) PROVE LogFilesInv'
  BY <1>10, EmitDoneInv
<1>11. ASSUME fault = Nobody, NEW c \in Callers, SwapFile(c) PROVE LogFilesInv'
  BY <1>1, <1>2, <1>11, SwapFileQuiet
<1>12. ASSUME fault = Nobody, NEW c \in Callers, NEW h \in Handlers, EmitLine(c, h) PROVE LogFilesInv'
  BY <1>12, EmitLineInv
<1>13. ASSUME fault = Nobody, NEW c \in Callers, NEW h \in Handlers, OpenNewFile(c, h) PROVE LogFilesInv'
  BY <1>1, <1>2, <1>13, OpenNewFileQuiet
<1> QED BY <1>3, <1>4, <1>5, <1>6, <1>7, <1>8, <1>9, <1>10, <1>11, <1>12, <1>13 DEF LogFilesNext

\* A line that no call has to write has arrived whole; another has arrived in part.
LEMMA LinesArrived ==
  ASSUME LogFilesInv, NEW l \in DOMAIN written
  PROVE  \E k \in 0 .. Total(l) : Arrived(l, k) /\ (~Begun(l) => k = Total(l))
<1>0. LogFilesTypeOK /\ LinesTracked
  BY DEF LogFilesInv
<1>1. Total(l) \in Nat
  BY <1>0, WidthTypes
<1>2. CASE Arrived(l, Total(l))
  BY <1>1, <1>2
<1>3. ASSUME NEW c \in Callers, NEW k \in 0 .. Total(l), InHand(c, l, k)
      PROVE  \E j \in 0 .. Total(l) : Arrived(l, j) /\ (~Begun(l) => j = Total(l))
  <2>1. Calling(c) = "emit" /\ Arrived(l, k)
    BY <1>3 DEF InHand
  <2>2. /\ calls[c].todo \in Seq(ToDos) /\ (calls[c].todo = <<>> <=> k = Total(l))
        /\ \A i \in 1 .. Len(calls[c].todo) : calls[c].todo[i].piece.line = l
    BY <1>0, <1>3, <2>1, NextPiece
  <2>3. ASSUME k # Total(l) PROVE Begun(l)
    <3>1. 1 \in DOMAIN calls[c].todo /\ calls[c].todo[1].piece.line = l
      BY <2>2, <2>3
    <3> QED BY <2>1, <3>1 DEF Begun
  <2> QED BY <2>1, <2>3
<1> QED BY <1>0, <1>2, <1>3 DEF LinesTracked

\* What it says of the files.
LEMMA LinesInFilesHold == LogFilesInv => LinesInFiles
<1> SUFFICES ASSUME LogFilesInv, NEW line \in DOMAIN written, NEW name \in FileNames
             PROVE  LET pieces == logFiles[name]
                        whole  == LinePieces(line)
                    IN /\ name # written[line].file => HasPieces(pieces, line, 0)
                       /\ name = written[line].file =>
                            \E n \in 0 .. Len(whole) :
                              HasPieces(pieces, line, n) /\ (~Begun(line) => n = Len(whole))
                       /\ \A i \in 2 .. Len(pieces) :
                            pieces[i].line = line /\ pieces[i] # whole[1]
                            /\ (line \in LongLines => pieces[i].part # "end") =>
                              pieces[i - 1].line = line
  BY DEF LinesInFiles
<1>0. LogFilesTypeOK /\ FilesTogether
  BY DEF LogFilesInv
<1>1. PICK k \in 0 .. Total(line) : Arrived(line, k) /\ (~Begun(line) => k = Total(line))
  BY LinesArrived
<1>2. name # written[line].file => HasPieces(logFiles[name], line, 0)
  BY <1>1 DEF Arrived
<1>3. ASSUME name = written[line].file
      PROVE  \E n \in 0 .. Len(LinePieces(line)) :
               HasPieces(logFiles[name], line, n) /\ (~Begun(line) => n = Len(LinePieces(line)))
  <2>1. HasPieces(logFiles[name], line, InFile(line, k))
    BY <1>1, <1>3 DEF Arrived
  <2>2. /\ InStream(line, k) \in 0 .. Width(line) /\ InFile(line, k) \in 0 .. InStream(line, k)
        /\ Width(line) \in {2, 3}
    BY <1>0, Counts, WidthTypes
  <2>3. InFile(line, k) \in 0 .. Width(line)
    BY <2>2
  <2>4. ~Begun(line) => InFile(line, k) = Width(line)
    <3>1. written[line].file # ""
      BY <1>3, LogFilesAssumption
    <3>2. InFile(line, Total(line)) = Width(line)
      BY <1>0, <3>1, AllDone DEF FileWidth
    <3> QED BY <1>1, <3>2
  <2> QED BY <2>1, <2>3, <2>4 DEF Width
<1>4. ASSUME NEW i \in 2 .. Len(logFiles[name]), logFiles[name][i].line = line,
             logFiles[name][i] # LinePieces(line)[1],
             line \in LongLines => logFiles[name][i].part # "end"
      PROVE  logFiles[name][i - 1].line = line
  BY <1>0, <1>4 DEF FilesTogether, Together
<1> QED BY <1>2, <1>3, <1>4

\* What it says of the console.
LEMMA LinesOnConsoleHold == LogFilesInv => LinesOnConsole
<1> SUFFICES ASSUME LogFilesInv, NEW h \in Handlers
             PROVE  LET lines == {l \in DOMAIN written : written[l].handler = h}
                        mine  == {i \in DOMAIN console : console[i].line \in lines}
                    IN /\ \A i, j \in mine :
                            i < j /\ mine \cap i + 1 .. j - 1 = {} /\ console[i].line # console[j].line
                              => console[i].part = "end"
                       /\ \A l \in lines : ~Begun(l) =>
                            HasPieces(console, l,
                                      IF written[l].on_console THEN Len(LinePieces(l)) ELSE 0)
  BY DEF LinesOnConsole
<1>0. LogFilesTypeOK /\ NothingForeign /\ ConsoleInOrder
  BY DEF LogFilesInv
<1> DEFINE mine == {i \in DOMAIN console : written[console[i].line].handler = h
                                           /\ console[i].line \in DOMAIN written}
<1>1. ASSUME NEW i \in mine, NEW j \in mine, i < j, mine \cap i + 1 .. j - 1 = {},
             console[i].line # console[j].line
      PROVE  console[i].part = "end"
  <2>1. console \in Seq(Pieces)
    BY <1>0 DEF LogFilesTypeOK
  <2>2. DOMAIN console = 1 .. Len(console) /\ Len(console) \in Nat
    BY <2>1
  <2>3. i \in 1 .. Len(console) /\ j \in 1 .. Len(console) /\ Owner(i) = h /\ Owner(j) = h
    BY <2>2 DEF Owner
  <2>4. ASSUME NEW m \in i + 1 .. j - 1 PROVE Owner(m) # Owner(i)
    <3>1. m \in 1 .. Len(console)
      BY <2>2, <2>3
    <3>2. console[m].line \in DOMAIN written
      BY <1>0, <3>1 DEF NothingForeign, OnlyWritten
    <3>3. m \notin mine
      BY <1>1
    <3> QED BY <2>2, <2>3, <3>1, <3>2, <3>3 DEF Owner
  <2>5. NoneBetween(i, j)
    BY <2>4 DEF NoneBetween
  <2> QED BY <1>0, <1>1, <2>3, <2>5 DEF ConsoleInOrder
<1>2. ASSUME NEW l \in DOMAIN written, ~Begun(l)
      PROVE  HasPieces(console, l, IF written[l].on_console THEN Len(LinePieces(l)) ELSE 0)
  <2>1. Arrived(l, Total(l))
    BY <1>2, LinesArrived
  <2>2. OnScreen(l, Total(l)) = IF written[l].on_console THEN Width(l) ELSE 0
    BY <1>0, AllDone
  <2> QED BY <2>1, <2>2 DEF Arrived, Width
<1>3. mine = {i \in DOMAIN console :
                console[i].line \in {l \in DOMAIN written : written[l].handler = h}}
  OBVIOUS
<1> HIDE DEF mine
<1> QED BY <1>1, <1>2, <1>3

\* What it says of the handlers.
LEMMA HandlersKeepFilesHold == LogFilesInv => HandlersKeepFiles
BY DEF LogFilesInv, StreamsAtRest, FaultNotOpened, HandlersKeepFiles

\* Every line that a handler has taken up arrives once, whole and where it belongs, whatever
\* the other callers of the handlers do meanwhile (src/Logger/LogHandlerFile.cpp:146-309).
THEOREM LinesKept == LogFilesSpec => []LogFilesKept
<1>1. LogFilesInv => LogFilesKept
  BY LinesInFilesHold, LinesOnConsoleHold, HandlersKeepFilesHold DEF LogFilesKept
<1> QED BY <1>1, LogFilesStart, LogFilesStep, PTL DEF LogFilesSpec

-----------------------------------------------------------------------------
(* Levels.                                                                 *)

LevelBits == 0 .. 12

LEMMA MaskIsLevels == LogFlag_Mask = LevelBits
<1>1. LogLevel_Minimum .. LogLevel_Maximum = LevelBits
  BY DEF LogLevel_Minimum, LogLevel_Maximum, LevelBits
<1> QED BY <1>1 DEF LogFlag_Mask, LevelFlag

LEMMA LeastBit ==
  ASSUME NEW T, T \subseteq LevelBits, T # {}
  PROVE  Min(T) \in T /\ Min(T) \in LevelBits /\ \A bit \in T : Min(T) <= bit
<1>1. T \subseteq Nat
  BY DEF LevelBits
<1>2. \E n \in T : \A m \in T : n <= m
  BY <1>1, LeastNumber
<1> QED BY <1>2 DEF Min

LEMMA GreatestBit ==
  ASSUME NEW T, T \subseteq LevelBits, T # {}
  PROVE  Max(T) \in T /\ Max(T) \in LevelBits /\ \A bit \in T : bit <= Max(T)
<1> DEFINE U == {12 - bit : bit \in T}
<1>1. U \subseteq Nat /\ U # {}
  <2>1. \A bit \in T : 12 - bit \in Nat
    BY DEF LevelBits
  <2> QED BY <2>1
<1>2. PICK n \in U : \A m \in U : n <= m
  BY <1>1, LeastNumber
<1>3. PICK top \in T : n = 12 - top
  BY <1>2
<1>4. \A bit \in T : top >= bit
  <2>1. ASSUME NEW bit \in T PROVE top >= bit
    <3>1. 12 - bit \in U
      OBVIOUS
    <3>2. n <= 12 - bit
      BY <1>2, <3>1
    <3> QED BY <1>3, <3>2 DEF LevelBits
  <2> QED BY <2>1
<1>5. Max(T) \in T /\ \A bit \in T : Max(T) >= bit
  BY <1>4 DEF Max
<1> QED BY <1>5 DEF LevelBits

\* The least and the greatest bit are the ones that no other bit passes.
LEMMA LeastIs ==
  ASSUME NEW T, T \subseteq LevelBits, NEW n \in T, \A bit \in T : n <= bit
  PROVE  Min(T) = n
<1>1. Min(T) \in T /\ Min(T) \in LevelBits /\ \A bit \in T : Min(T) <= bit
  BY LeastBit
<1>2. Min(T) <= n /\ n <= Min(T)
  BY <1>1
<1> QED BY <1>1, <1>2 DEF LevelBits

LEMMA GreatestIs ==
  ASSUME NEW T, T \subseteq LevelBits, NEW n \in T, \A bit \in T : bit <= n
  PROVE  Max(T) = n
<1>1. Max(T) \in T /\ Max(T) \in LevelBits /\ \A bit \in T : bit <= Max(T)
  BY GreatestBit
<1>2. Max(T) <= n /\ n <= Max(T)
  BY <1>1
<1> QED BY <1>1, <1>2 DEF LevelBits

Shifted(T) == {bit - 1 : bit \in T \ {0}}

\* A shift to the right takes one from the least and the greatest bit.
LEMMA ShiftedBits ==
  ASSUME NEW T, T \subseteq LevelBits, T # {}, T # {0}
  PROVE  /\ Shifted(T) \subseteq LevelBits /\ Shifted(T) # {}
         /\ Max(Shifted(T)) = Max(T) - 1
         /\ 0 \notin T => Min(Shifted(T)) = Min(T) - 1
         /\ 0 \in T => Min(T) = 0
<1>1. Shifted(T) \subseteq LevelBits /\ Shifted(T) # {}
  <2>1. \A bit \in T \ {0} : bit - 1 \in LevelBits
    BY DEF LevelBits
  <2>2. T \ {0} # {}
    OBVIOUS
  <2> QED BY <2>1, <2>2 DEF Shifted
<1>2. Max(T) \in T /\ Max(T) \in LevelBits /\ \A bit \in T : bit <= Max(T)
  BY GreatestBit
<1>3. Min(T) \in T /\ Min(T) \in LevelBits /\ \A bit \in T : Min(T) <= bit
  BY LeastBit
<1>4. Max(Shifted(T)) = Max(T) - 1
  <2>1. Max(T) # 0
    <3>1. PICK bit \in T : bit # 0
      OBVIOUS
    <3>2. bit <= Max(T) /\ bit \in Nat
      BY <1>2 DEF LevelBits
    <3> QED BY <1>2, <3>1, <3>2 DEF LevelBits
  <2>2. Max(T) - 1 \in Shifted(T)
    BY <1>2, <2>1 DEF Shifted
  <2>3. \A bit \in Shifted(T) : bit <= Max(T) - 1
    BY <1>2 DEF Shifted, LevelBits
  <2> QED BY <1>1, <2>2, <2>3, GreatestIs
<1>5. ASSUME 0 \notin T PROVE Min(Shifted(T)) = Min(T) - 1
  <2>1. Min(T) - 1 \in Shifted(T)
    BY <1>3, <1>5 DEF Shifted
  <2>2. \A bit \in Shifted(T) : Min(T) - 1 <= bit
    BY <1>3 DEF Shifted, LevelBits
  <2> QED BY <1>1, <2>1, <2>2, LeastIs
<1>6. 0 \in T => Min(T) = 0
  BY <1>3 DEF LevelBits
<1> QED BY <1>1, <1>4, <1>5, <1>6

\* What the loop gives from any of its states, and the state after one turn.
LoopGives(l) ==
  <<IF l.low_done THEN l.first ELSE l.first + Min(l.tmp_flags), l.second + Max(l.tmp_flags)>>

LowDone(l)  == l.low_done \/ 0 \in l.tmp_flags
NextLow(l)  == IF LowDone(l) THEN l.first ELSE l.first + 1
NextTurn(l) == LoopState(Shifted(l.tmp_flags), LowDone(l), NextLow(l), l.second + 1)
Turn(l, f)  == IF l.tmp_flags = {0} THEN <<NextLow(l), l.second>> ELSE f[NextTurn(l)]

LEMMA LoopStateTyped ==
  ASSUME NEW l \in LoopStates
  PROVE  /\ l.tmp_flags \subseteq LevelBits /\ l.tmp_flags # {} /\ l.low_done \in BOOLEAN
         /\ l.first \in Nat /\ l.second \in Nat
<1>1. l \in [tmp_flags : (SUBSET LevelBits) \ {{}}, low_done : BOOLEAN, first : Nat, second : Nat]
  BY MaskIsLevels DEF LoopStates
<1>2. l.tmp_flags \in (SUBSET LevelBits) \ {{}}
  BY <1>1
<1>3. l.low_done \in BOOLEAN /\ l.first \in Nat /\ l.second \in Nat
  BY <1>1
<1> QED BY <1>2, <1>3

LEMMA NextTurnTyped ==
  ASSUME NEW l \in LoopStates, l.tmp_flags # {0}
  PROVE  NextTurn(l) \in LoopStates
<1>1. Shifted(l.tmp_flags) \subseteq LevelBits /\ Shifted(l.tmp_flags) # {}
  BY LoopStateTyped, ShiftedBits
<1>2. LowDone(l) \in BOOLEAN
  BY DEF LowDone
<1>3. NextLow(l) \in Nat /\ l.second + 1 \in Nat
  BY LoopStateTyped DEF NextLow
<1> DEFINE bits   == Shifted(l.tmp_flags)
           done   == LowDone(l)
           first  == NextLow(l)
           second == l.second + 1
<1>4. bits \in (SUBSET LevelBits) \ {{}} /\ first \in Nat /\ second \in Nat /\ done \in BOOLEAN
  BY <1>1, <1>2, <1>3
<1>5. NextTurn(l) = [tmp_flags |-> bits, low_done |-> done, first |-> first, second |-> second]
  BY DEF NextTurn, LoopState
<1> HIDE DEF bits, done, first, second
<1>6. NextTurn(l) \in [tmp_flags : (SUBSET LevelBits) \ {{}}, low_done : BOOLEAN, first : Nat, second : Nat]
  BY <1>4, <1>5
<1> QED BY <1>6, MaskIsLevels DEF LoopStates

\* The last turn gives what the loop gives, and no other turn changes it.
LEMMA LastTurn ==
  ASSUME NEW l \in LoopStates, l.tmp_flags = {0}
  PROVE  LoopGives(l) = <<NextLow(l), l.second>>
<1>1. LevelBits # {} /\ {0} \subseteq LevelBits /\ {0} # {}
  BY DEF LevelBits
<1>2. Min({0}) = 0 /\ Max({0}) = 0
  BY <1>1, LeastBit, GreatestBit
<1>3. l.first \in Nat /\ l.second \in Nat
  BY LoopStateTyped
<1>4. l.second + Max(l.tmp_flags) = l.second
  BY <1>2, <1>3
<1>5. l.first + Min(l.tmp_flags) = l.first
  BY <1>2, <1>3
<1>6. NextLow(l) = l.first
  BY DEF NextLow, LowDone
<1> QED BY <1>4, <1>5, <1>6 DEF LoopGives

LEMMA TurnKeepsResult ==
  ASSUME NEW l \in LoopStates, l.tmp_flags # {0}
  PROVE  LoopGives(NextTurn(l)) = LoopGives(l)
<1> DEFINE T == l.tmp_flags
<1>1. T \subseteq LevelBits /\ T # {} /\ l.first \in Nat /\ l.second \in Nat
  BY LoopStateTyped
<1>2. /\ Shifted(T) \subseteq LevelBits /\ Shifted(T) # {}
      /\ Max(Shifted(T)) = Max(T) - 1
      /\ 0 \notin T => Min(Shifted(T)) = Min(T) - 1
      /\ 0 \in T => Min(T) = 0
  BY <1>1, ShiftedBits
<1>3. Max(T) \in LevelBits /\ Min(T) \in LevelBits
  BY <1>1, LeastBit, GreatestBit
<1>4. (l.second + 1) + Max(Shifted(T)) = l.second + Max(T)
  BY <1>1, <1>2, <1>3 DEF LevelBits
<1>5. LoopGives(NextTurn(l)) =
        <<IF LowDone(l) THEN NextLow(l) ELSE NextLow(l) + Min(Shifted(T)),
          (l.second + 1) + Max(Shifted(T))>>
  BY DEF LoopGives, NextTurn, LoopState
<1>6. (IF LowDone(l) THEN NextLow(l) ELSE NextLow(l) + Min(Shifted(T)))
        = (IF l.low_done THEN l.first ELSE l.first + Min(T))
  <2>1. CASE l.low_done
    BY <2>1 DEF LowDone, NextLow
  <2>2. CASE ~l.low_done /\ 0 \in T
    <3>1. LowDone(l) /\ NextLow(l) = l.first
      BY <2>2 DEF LowDone, NextLow
    <3>2. l.first + Min(T) = l.first
      BY <1>1, <1>2, <2>2
    <3> QED BY <2>2, <3>1, <3>2
  <2>3. CASE ~l.low_done /\ 0 \notin T
    <3>1. ~LowDone(l) /\ NextLow(l) = l.first + 1
      BY <2>3 DEF LowDone, NextLow
    <3>2. (l.first + 1) + Min(Shifted(T)) = l.first + Min(T)
      BY <1>1, <1>2, <1>3, <2>3 DEF LevelBits
    <3> QED BY <2>3, <3>1, <3>2
  <2> QED BY <2>1, <2>2, <2>3
<1> QED BY <1>4, <1>5, <1>6 DEF LoopGives

\* There is such a loop: the function that gives the result at once is one.
LEMMA LoopExists == \E f : f = [l \in LoopStates |-> Turn(l, f)]
<1> DEFINE g == [l \in LoopStates |-> LoopGives(l)]
<1>1. ASSUME NEW l \in LoopStates PROVE LoopGives(l) = Turn(l, g)
  <2>1. CASE l.tmp_flags = {0}
    BY <2>1, LastTurn DEF Turn
  <2>2. CASE l.tmp_flags # {0}
    <3>1. NextTurn(l) \in LoopStates
      BY <2>2, NextTurnTyped
    <3>2. g[NextTurn(l)] = LoopGives(l)
      BY <2>2, <3>1, TurnKeepsResult
    <3> QED BY <2>2, <3>2 DEF Turn
  <2> QED BY <2>1, <2>2
<1>2. g = [l \in LoopStates |-> Turn(l, g)]
  BY <1>1
<1> QED BY <1>2

LEMMA LoopResult ==
  ASSUME NEW f, f = [l \in LoopStates |-> Turn(l, f)], NEW l \in LoopStates
  PROVE  f[l] = LoopGives(l)
<1> DEFINE S == {k \in Nat : \A m \in LoopStates : m.tmp_flags \subseteq 0 .. k => f[m] = LoopGives(m)}
           turns == [m \in LoopStates |-> Turn(m, f)]
<1>1. ASSUME NEW m \in LoopStates PROVE f[m] = Turn(m, f)
  <2>1. turns[m] = Turn(m, f)
    OBVIOUS
  <2>2. f = turns
    OBVIOUS
  <2> HIDE DEF turns
  <2> QED BY <2>1, <2>2
<1>2. ASSUME NEW m \in LoopStates, m.tmp_flags = {0} PROVE f[m] = LoopGives(m)
  BY <1>1, <1>2, LastTurn DEF Turn
<1>3. 0 \in S
  <2>1. ASSUME NEW m \in LoopStates, m.tmp_flags \subseteq 0 .. 0 PROVE m.tmp_flags = {0}
    BY <2>1, LoopStateTyped
  <2> QED BY <1>2, <2>1
<1>4. ASSUME NEW k \in S PROVE k + 1 \in S
  <2>1. ASSUME NEW m \in LoopStates, m.tmp_flags \subseteq 0 .. k + 1, m.tmp_flags # {0}
        PROVE  f[m] = LoopGives(m)
    <3>1. NextTurn(m) \in LoopStates
      BY <2>1, NextTurnTyped
    <3>2. NextTurn(m).tmp_flags = Shifted(m.tmp_flags)
      BY DEF NextTurn, LoopState
    <3>3. Shifted(m.tmp_flags) \subseteq 0 .. k
      BY <2>1 DEF Shifted
    <3>4. f[NextTurn(m)] = LoopGives(NextTurn(m))
      BY <3>1, <3>2, <3>3
    <3>5. f[m] = f[NextTurn(m)]
      BY <1>1, <2>1 DEF Turn
    <3> QED BY <2>1, <3>4, <3>5, TurnKeepsResult
  <2>2. k + 1 \in Nat
    OBVIOUS
  <2> QED BY <1>2, <2>1, <2>2
<1>5. Nat \subseteq S
  <2> HIDE DEF S
  <2> QED BY <1>3, <1>4, NumberInduction
<1>6. 12 \in S
  BY <1>5
<1>7. l.tmp_flags \subseteq 0 .. 12
  BY LoopStateTyped DEF LevelBits
<1> QED BY <1>6, <1>7

\* The lowest and the highest of the bits that are levels.
LEMMA FlagsFound ==
  ASSUME NEW flags
  PROVE  LogLevelFlagsToLevels(flags) =
           LET levels == flags \cap LevelBits
           IN IF levels = {} THEN <<>> ELSE <<Min(levels), Max(levels)>>
<1> DEFINE masked == flags \cap LogFlag_Mask
           loop   == CHOOSE f : f = [l \in LoopStates |-> Turn(l, f)]
           start  == LoopState(masked, FALSE, LogLevel_Minimum, LogLevel_Minimum)
<1>1. LogLevelFlagsToLevels(flags) = IF masked = {} THEN <<>> ELSE loop[start]
  BY DEF LogLevelFlagsToLevels, Turn, NextTurn, NextLow, LowDone, Shifted
<1>2. masked = flags \cap LevelBits
  BY MaskIsLevels
<1>3. loop = [l \in LoopStates |-> Turn(l, loop)]
  BY LoopExists
<1>4. ASSUME masked # {} PROVE loop[start] = <<Min(masked), Max(masked)>>
  <2>1. start = [tmp_flags |-> masked, low_done |-> FALSE, first |-> 0, second |-> 0]
    BY DEF LoopState, LogLevel_Minimum
  <2>2. masked \in (SUBSET LevelBits) \ {{}}
    BY <1>2, <1>4
  <2> HIDE DEF masked, loop, start
  <2>3. start \in [tmp_flags : (SUBSET LevelBits) \ {{}}, low_done : BOOLEAN, first : Nat, second : Nat]
    BY <2>1, <2>2
  <2>4. start \in LoopStates
    BY <2>3, MaskIsLevels DEF LoopStates
  <2>5. loop[start] = LoopGives(start)
    BY <1>3, <2>4, LoopResult
  <2>6. LoopGives(start) = <<0 + Min(masked), 0 + Max(masked)>>
    BY <2>1 DEF LoopGives
  <2>7. Min(masked) \in LevelBits /\ Max(masked) \in LevelBits
    BY <2>2, LeastBit, GreatestBit
  <2>8. 0 + Min(masked) = Min(masked) /\ 0 + Max(masked) = Max(masked)
    BY <2>7 DEF LevelBits
  <2> QED BY <2>5, <2>6, <2>8
<1> HIDE DEF loop, start
<1> QED BY <1>1, <1>2, <1>4

\* A level has a name exactly where it is one.
LEMMA NamedLevels ==
  ASSUME NEW level \in Int
  PROVE  ConvertLogLevelToText(level) = BadLevelText <=> level \notin LevelBits
<1>1. Len(LogTextList) = 13
  BY DEF LogTextList
<1>2. CASE level \notin LevelBits
  <2>1. level < 0 \/ level >= 13
    BY <1>2 DEF LevelBits
  <2> QED BY <1>1, <1>2, <2>1 DEF ConvertLogLevelToText
<1>3. CASE level \in LevelBits
  <2>1. ~(level < 0 \/ level >= 13) /\ level + 1 \in 1 .. 13
    BY <1>3 DEF LevelBits
  <2>2. ConvertLogLevelToText(level) = LogTextList[level + 1]
    BY <1>1, <2>1 DEF ConvertLogLevelToText
  <2>3. \A place \in 1 .. 13 : LogTextList[place] # BadLevelText
    BY DEF LogTextList, BadLevelText
  <2> QED BY <1>3, <2>1, <2>2, <2>3
<1> QED BY <1>2, <1>3

\* Each call about levels has the result that it should.
LEMMA LevelCallStep ==
  ASSUME CallLevels
  PROVE  LevelsFound'
<1>1. LogLevel_Minimum .. LogLevel_Maximum = LevelBits
  BY DEF LogLevel_Minimum, LogLevel_Maximum, LevelBits
<1>2. CASE \E level \in LineLevels :
             levelCall' = [call |-> "CheckLogLevel", levels |-> {level}, result |-> CheckLogLevel(level)]
  <2>1. PICK level \in LineLevels :
          levelCall' = [call |-> "CheckLogLevel", levels |-> {level}, result |-> CheckLogLevel(level)]
    BY <1>2
  <2>2. /\ levelCall'.call = "CheckLogLevel" /\ levelCall'.levels = {level}
        /\ levelCall'.result = CheckLogLevel(level)
    BY <2>1
  <2>3. level \in Int
    BY LogLinesAssumption
  <2>4. Min({level}) = level
    BY <2>3 DEF Min
  <2>5. CheckLogLevel(level) = <<>> <=> level \notin LevelBits
    BY <1>1 DEF CheckLogLevel
  <2> QED BY <2>2, <2>3, <2>4, <2>5, NamedLevels DEF LevelsFound
<1>3. CASE \E levels \in SUBSET {level \in LineLevels : level >= 0} :
             levelCall' = [call |-> "LogLevelFlagsToLevels", levels |-> levels,
                           result |-> LogLevelFlagsToLevels(UNION {LevelFlag(l) : l \in levels})]
  <2>1. PICK levels \in SUBSET {level \in LineLevels : level >= 0} :
             levelCall' = [call |-> "LogLevelFlagsToLevels", levels |-> levels,
                           result |-> LogLevelFlagsToLevels(UNION {LevelFlag(l) : l \in levels})]
    BY <1>3
  <2>2. UNION {LevelFlag(l) : l \in levels} = levels
    BY DEF LevelFlag
  <2>3. /\ levelCall'.call = "LogLevelFlagsToLevels" /\ levelCall'.levels = levels
        /\ levelCall'.result = LogLevelFlagsToLevels(levels)
    BY <2>1, <2>2
  <2> QED BY <1>1, <2>3, FlagsFound DEF LevelsFound
<1> QED BY <1>2, <1>3 DEF CallLevels

-----------------------------------------------------------------------------
(* The leader.                                                             *)

\* What a character of a leader can be.
Columns == {"time", "level", "digit", "more", "blank", "colon", "nul", "unset"}

LEMMA FunctionIsText ==
  ASSUME NEW S, NEW n \in Nat, NEW f \in [1 .. n -> S]
  PROVE  f \in Seq(S) /\ Len(f) = n /\ DOMAIN f = 1 .. n
<1>1. f \in Seq(S)
  BY SeqDef
<1>2. PICK m \in Nat : Len(f) = m /\ DOMAIN f = 1 .. m
  BY <1>1, LenProperties
<1>3. 1 .. m = 1 .. n
  BY <1>2
<1>4. m = n
  <2>1. n \in 1 .. n => n \in 1 .. m
    BY <1>3
  <2>2. m \in 1 .. m => m \in 1 .. n
    BY <1>3
  <2> QED BY <2>1, <2>2
<1> QED BY <1>1, <1>2, <1>4

\* The places of two texts of m and n characters in both together.
AreTogether(u, s, t, m, n) ==
  /\ u \in Seq(Columns) /\ Len(u) = m + n
  /\ \A i \in 1 .. m : u[i] = s[i]
  /\ \A i \in 1 .. n : u[m + i] = t[i]

LEMMA TogetherPlaces ==
  ASSUME NEW s \in Seq(Columns), NEW t \in Seq(Columns), NEW m \in Nat, NEW n \in Nat,
         Len(s) = m, Len(t) = n
  PROVE  AreTogether(s \o t, s, t, m, n)
<1>1. /\ s \o t \in Seq(Columns) /\ Len(s \o t) = Len(s) + Len(t)
      /\ \A i \in 1 .. Len(s) + Len(t) : (s \o t)[i] = IF i <= Len(s) THEN s[i] ELSE t[i - Len(s)]
  BY ConcatProperties
<1>2. ASSUME NEW i \in 1 .. m PROVE (s \o t)[i] = s[i]
  <2>1. i \in 1 .. Len(s) + Len(t) /\ i <= Len(s)
    OBVIOUS
  <2> QED BY <1>1, <2>1
<1>3. ASSUME NEW i \in 1 .. n PROVE (s \o t)[m + i] = t[i]
  <2>1. m + i \in 1 .. Len(s) + Len(t) /\ ~(m + i <= Len(s)) /\ (m + i) - Len(s) = i
    OBVIOUS
  <2> QED BY <1>1, <2>1
<1>4. Len(s \o t) = m + n
  BY <1>1
<1> QED BY <1>1, <1>2, <1>3, <1>4 DEF AreTogether

LEMMA FillPlaces ==
  ASSUME NEW what \in Columns, NEW count \in Nat
  PROVE  /\ Fill(what, count) \in Seq(Columns) /\ Len(Fill(what, count)) = count
         /\ \A i \in 1 .. count : Fill(what, count)[i] = what
<1>1. Fill(what, count) = [i \in 1 .. count |-> what]
  BY DEF Fill
<1>2. Fill(what, count) \in [1 .. count -> Columns]
  BY <1>1
<1> QED BY <1>1, <1>2, FunctionIsText

\* The digits of an id are at the end of its column, and there is one at least.
LEMMA TidPlaces ==
  ASSUME NEW tid \in Nat
  PROVE  \E digits \in 1 .. TidWidth :
           /\ TidText(tid) \in Seq(Columns) /\ Len(TidText(tid)) = TidWidth
           /\ \A i \in 1 .. TidWidth - digits : TidText(tid)[i] = "blank"
           /\ \A i \in 1 .. digits : TidText(tid)[TidWidth - digits + i] = "digit"
<1>1. TidModulus \in Nat \ {0} /\ TidWidth \in Nat
  BY LogLinesAssumption
<1>2. tid % TidModulus \in 0 .. TidModulus - 1
  BY <1>1
<1>3. PICK digits \in 1 .. TidWidth : digits = TidDigits(tid % TidModulus)
  BY <1>2, LogLinesAssumption
<1>4. PICK blanks \in Nat : blanks = TidWidth - digits
  BY <1>1
<1>5. ~(digits > TidWidth) /\ digits \in Nat /\ blanks + digits = TidWidth
  BY <1>1, <1>4
<1> DEFINE before == Fill("blank", blanks)
           number == Fill("digit", digits)
<1>6. TidText(tid) = before \o number
  BY <1>3, <1>4, <1>5 DEF TidText
<1>7. "blank" \in Columns /\ "digit" \in Columns
  BY DEF Columns
<1>8. /\ before \in Seq(Columns) /\ Len(before) = blanks
      /\ \A i \in 1 .. blanks : before[i] = "blank"
  BY <1>7, FillPlaces
<1>9. /\ number \in Seq(Columns) /\ Len(number) = digits
      /\ \A i \in 1 .. digits : number[i] = "digit"
  BY <1>5, <1>7, FillPlaces
<1> HIDE DEF before, number
<1>10. /\ before \o number \in Seq(Columns) /\ Len(before \o number) = blanks + digits
       /\ \A i \in 1 .. blanks : (before \o number)[i] = before[i]
       /\ \A i \in 1 .. digits : (before \o number)[blanks + i] = number[i]
  <2>1. AreTogether(before \o number, before, number, blanks, digits)
    BY <1>5, <1>8, <1>9, TogetherPlaces
  <2> QED BY <2>1 DEF AreTogether
<1> QED BY <1>4, <1>5, <1>6, <1>8, <1>9, <1>10

LeaderEnd == Length_TimeSpec + TidWidth + 14

LEMMA LeaderLength ==
  /\ Length_TimeSpec \in Nat /\ TidWidth \in Nat /\ LeaderEnd \in Nat
  /\ LogLineLeaderLength + 1 = LeaderEnd
  /\ LogLevelTextMaxLength = 9
BY LogLinesAssumption DEF LogLineLeaderLength, LogLevelTextMaxLength, LeaderEnd

\* Every character of a leader behind the time is where UpdateTime leaves it.
WellFormed(leader) ==
  /\ leader[LeaderEnd] = "nul"
  /\ \A i \in Length_TimeSpec + 2 .. LeaderEnd : leader[i] # "unset"
  /\ leader[Length_TimeSpec + TidWidth + 12] = "colon"
  /\ \E digits \in 1 .. TidWidth :
       /\ \A i \in 1 .. TidWidth - digits : leader[Length_TimeSpec + 11 + i] = "blank"
       /\ \A i \in 1 .. digits : leader[Length_TimeSpec + 11 + (TidWidth - digits) + i] = "digit"

LEMMA FormattedPlaces ==
  ASSUME NEW tid \in Nat
  PROVE  /\ FormattedLeader(tid) \in [1 .. LeaderEnd -> Columns]
         /\ WellFormed(FormattedLeader(tid))
<1> DEFINE time  == Fill("unset", Length_TimeSpec + 1)
           level == Fill("level", 9)
           blank == <<"blank">>
           id    == TidText(tid)
           end   == <<"colon", "blank", "nul">>
           one   == time \o level
           two   == one \o blank
           three == two \o id
           whole == three \o end
<1>1. Length_TimeSpec \in Nat /\ TidWidth \in Nat /\ LogLevelTextMaxLength = 9
  BY LeaderLength
<1>2. FormattedLeader(tid) = whole
  BY <1>1 DEF FormattedLeader
<1>3. /\ "unset" \in Columns /\ "level" \in Columns /\ "blank" \in Columns
      /\ "colon" \in Columns /\ "nul" \in Columns
  BY DEF Columns
<1>4. PICK m \in Nat, n \in Nat : m = Length_TimeSpec + 1 /\ n = 9
  BY <1>1
<1>5. /\ time \in Seq(Columns) /\ Len(time) = m
      /\ \A i \in 1 .. m : time[i] = "unset"
  BY <1>3, <1>4, FillPlaces
<1>6. /\ level \in Seq(Columns) /\ Len(level) = n
      /\ \A i \in 1 .. n : level[i] = "level"
  <2>1. level = Fill("level", n)
    BY <1>4
  <2> HIDE DEF level
  <2> QED BY <1>3, <2>1, FillPlaces
<1>7. blank \in Seq(Columns) /\ Len(blank) = 1 /\ blank[1] = "blank"
  BY <1>3
<1>8. PICK digits \in 1 .. TidWidth :
         /\ id \in Seq(Columns) /\ Len(id) = TidWidth
         /\ \A i \in 1 .. TidWidth - digits : id[i] = "blank"
         /\ \A i \in 1 .. digits : id[TidWidth - digits + i] = "digit"
  BY TidPlaces
<1>9. end \in Seq(Columns) /\ Len(end) = 3 /\ end[1] = "colon" /\ end[2] = "blank" /\ end[3] = "nul"
  BY <1>3
<1> HIDE DEF time, level, blank, id, end
<1>10. /\ one \in Seq(Columns) /\ Len(one) = m + n
       /\ \A i \in 1 .. m : one[i] = time[i]
       /\ \A i \in 1 .. n : one[m + i] = level[i]
  <2>1. AreTogether(one, time, level, m, n)
    BY <1>5, <1>6, TogetherPlaces
  <2> HIDE DEF one
  <2> QED BY <2>1 DEF AreTogether
<1> HIDE DEF one
<1>11. PICK p \in Nat, e \in Nat : p = m + n /\ e = 1
  OBVIOUS
<1>12. /\ two \in Seq(Columns) /\ Len(two) = p + e
       /\ \A i \in 1 .. p : two[i] = one[i]
       /\ \A i \in 1 .. e : two[p + i] = blank[i]
  <2>1. Len(one) = p /\ Len(blank) = e
    BY <1>7, <1>10, <1>11
  <2>2. one \in Seq(Columns) /\ blank \in Seq(Columns)
    BY <1>7, <1>10, <1>11
  <2>3. AreTogether(two, one, blank, p, e)
    BY <2>1, <2>2, TogetherPlaces
  <2> HIDE DEF two
  <2> QED BY <2>3 DEF AreTogether
<1> HIDE DEF two
<1>13. PICK q \in Nat, w \in Nat : q = p + e /\ w = TidWidth
  BY <1>1
<1>14. /\ three \in Seq(Columns) /\ Len(three) = q + w
       /\ \A i \in 1 .. q : three[i] = two[i]
       /\ \A i \in 1 .. w : three[q + i] = id[i]
  <2>1. Len(two) = q /\ Len(id) = w
    BY <1>8, <1>12, <1>13
  <2>2. two \in Seq(Columns) /\ id \in Seq(Columns)
    BY <1>8, <1>12, <1>13
  <2>3. AreTogether(three, two, id, q, w)
    BY <2>1, <2>2, TogetherPlaces
  <2> HIDE DEF three
  <2> QED BY <2>3 DEF AreTogether
<1> HIDE DEF three
<1>15. PICK r \in Nat, v \in Nat : r = q + w /\ v = 3
  OBVIOUS
<1>16. /\ whole \in Seq(Columns) /\ Len(whole) = r + v
       /\ \A i \in 1 .. r : whole[i] = three[i]
       /\ \A i \in 1 .. v : whole[r + i] = end[i]
  <2>1. Len(three) = r /\ Len(end) = v
    BY <1>9, <1>14, <1>15
  <2>2. three \in Seq(Columns) /\ end \in Seq(Columns)
    BY <1>9, <1>14, <1>15
  <2>3. AreTogether(whole, three, end, r, v)
    BY <2>1, <2>2, TogetherPlaces
  <2> HIDE DEF whole
  <2> QED BY <2>3 DEF AreTogether
<1> HIDE DEF whole
<1>17. /\ p = Length_TimeSpec + 10 /\ q = Length_TimeSpec + 11 /\ r = Length_TimeSpec + 11 + TidWidth
       /\ r + v = LeaderEnd /\ r + 3 = LeaderEnd /\ r + 1 = Length_TimeSpec + TidWidth + 12
  BY <1>1, <1>4, <1>11, <1>13, <1>15 DEF LeaderEnd
<1>18. whole \in [1 .. LeaderEnd -> Columns]
  BY <1>16, <1>17, LenProperties
<1>19. whole[r + 1] = "colon" /\ whole[r + 2] = "blank" /\ whole[r + 3] = "nul"
  <2>1. 1 \in 1 .. v /\ 2 \in 1 .. v /\ 3 \in 1 .. v
    BY <1>15
  <2> QED BY <1>9, <1>16, <2>1
<1>20. \A i \in 1 .. w : whole[q + i] = id[i]
  <2>1. ASSUME NEW i \in 1 .. w PROVE whole[q + i] = id[i]
    <3>1. q + i \in 1 .. r
      BY <1>15
    <3> QED BY <1>14, <1>16, <3>1
  <2> QED BY <2>1
<1>21. \A i \in 1 .. TidWidth - digits : whole[q + i] = "blank"
  <2>1. \A i \in 1 .. TidWidth - digits : i \in 1 .. w
    BY <1>1, <1>13
  <2> QED BY <1>8, <1>20, <2>1
<1>22. \A i \in 1 .. digits : whole[q + (TidWidth - digits) + i] = "digit"
  <2>1. ASSUME NEW i \in 1 .. digits
        PROVE  whole[q + (TidWidth - digits) + i] = "digit"
    <3>1. PICK place \in 1 .. w : place = TidWidth - digits + i
      BY <1>1, <1>13
    <3>2. q + (TidWidth - digits) + i = q + place
      BY <1>1, <3>1
    <3>3. whole[q + place] = id[place]
      BY <1>20
    <3>4. id[place] = "digit"
      BY <1>8, <3>1
    <3> QED BY <3>2, <3>3, <3>4
  <2> QED BY <2>1
<1>23. ASSUME NEW i \in m + 1 .. p PROVE whole[i] = "level"
  <2>1. PICK place \in 1 .. n : i = m + place
    <3>1. i - m \in 1 .. n /\ i = m + (i - m)
      BY <1>11
    <3> QED BY <3>1
  <2>2. i \in 1 .. r /\ i \in 1 .. q /\ i \in 1 .. p
    BY <1>11, <1>13, <1>15
  <2>3. whole[i] = one[i]
    BY <1>12, <1>14, <1>16, <2>2
  <2>4. one[m + place] = "level"
    BY <1>6, <1>10
  <2> QED BY <2>1, <2>3, <2>4
<1>24. whole[q] = "blank"
  <2>1. q = p + 1 /\ 1 \in 1 .. e /\ q \in 1 .. q /\ q \in 1 .. r
    BY <1>11, <1>13, <1>15
  <2>2. whole[q] = two[q]
    BY <1>14, <1>16, <2>1
  <2>3. two[p + 1] = blank[1]
    BY <1>12, <2>1
  <2> QED BY <1>7, <2>1, <2>2, <2>3
<1>25. ASSUME NEW i \in q + 1 .. r PROVE whole[i] \in {"blank", "digit"}
  <2>1. PICK place \in 1 .. w : i = q + place
    <3>1. i - q \in 1 .. w /\ i = q + (i - q)
      BY <1>15
    <3> QED BY <3>1
  <2>2. CASE place <= TidWidth - digits
    <3>1. place \in 1 .. TidWidth - digits
      BY <1>1, <2>2
    <3> QED BY <1>21, <2>1, <3>1
  <2>3. CASE ~(place <= TidWidth - digits)
    <3>1. PICK k \in 1 .. digits : place = TidWidth - digits + k
      <4>1. place - (TidWidth - digits) \in 1 .. digits
        BY <1>1, <1>13, <2>3
      <4>2. place = TidWidth - digits + (place - (TidWidth - digits))
        BY <1>1
      <4> QED BY <4>1, <4>2
    <3>2. q + (TidWidth - digits) + k = i
      BY <1>1, <2>1, <3>1
    <3> QED BY <1>22, <3>2
  <2> QED BY <2>2, <2>3
<1>26. ASSUME NEW i \in Length_TimeSpec + 2 .. LeaderEnd PROVE whole[i] # "unset"
  <2>1. CASE i <= p
    <3>1. i \in m + 1 .. p
      BY <1>1, <1>4, <2>1
    <3> QED BY <1>23, <3>1
  <2>2. CASE i = q
    BY <1>24, <2>2
  <2>3. CASE i > q /\ i <= r
    <3>1. i \in q + 1 .. r
      BY <1>1, <2>3
    <3> QED BY <1>25, <3>1
  <2>4. CASE i > r
    <3>1. i = r + 1 \/ i = r + 2 \/ i = r + 3
      BY <1>1, <1>17, <2>4
    <3> QED BY <1>19, <3>1
  <2>5. i <= p \/ i = q \/ (i > q /\ i <= r) \/ i > r
    BY <1>1, <1>17
  <2> QED BY <2>1, <2>2, <2>3, <2>4, <2>5
<1>27. WellFormed(whole)
  <2>1. whole[LeaderEnd] = "nul" /\ whole[Length_TimeSpec + TidWidth + 12] = "colon"
    BY <1>17, <1>19
  <2>2. q = Length_TimeSpec + 11
    BY <1>17
  <2> QED BY <1>21, <1>22, <1>26, <2>1, <2>2 DEF WellFormed
<1> QED BY <1>2, <1>18, <1>27

-----------------------------------------------------------------------------
(* The lines of a text.                                                    *)

Characters == UNION {ToSet(text) : text \in LogTexts} \cup {NewLine}

LEMMA TextsTyped ==
  ASSUME NEW text \in LogTexts \cup {<<>>}
  PROVE  text \in Seq(Characters)
<1>1. CASE text \in LogTexts
  <2>1. text \in Seq(ToSet(text))
    BY <1>1, LogLinesAssumption
  <2>2. ToSet(text) \subseteq Characters
    BY <1>1 DEF Characters
  <2> QED BY <2>1, <2>2, SeqMonotonic
<1>2. CASE text = <<>>
  BY <1>2
<1> QED BY <1>1, <1>2

\* One value of the recursive function of JoinLines, and functions that have it for
\* the first k lines.
JoinTurn(lines, n, f) ==
  IF n = 0 THEN <<>>
  ELSE IF n = 1 THEN lines[1] ELSE f[n - 1] \o <<NewLine>> \o lines[n]

IsJoin(lines, k, f) == f = [n \in 0 .. k |-> JoinTurn(lines, n, f)]
HasJoin(lines, k)   == \E f : IsJoin(lines, k, f)

LEMMA JoinValues ==
  ASSUME NEW lines, NEW k \in Nat, NEW f, IsJoin(lines, k, f)
  PROVE  \A n \in 0 .. k : f[n] = JoinTurn(lines, n, f)
<1> DEFINE turns == [n \in 0 .. k |-> JoinTurn(lines, n, f)]
<1>1. f = turns
  BY DEF IsJoin
<1>2. \A n \in 0 .. k : turns[n] = JoinTurn(lines, n, f)
  OBVIOUS
<1> HIDE DEF turns
<1> QED BY <1>1, <1>2

LEMMA TurnLooksBack ==
  ASSUME NEW lines, NEW n \in Nat, NEW f, NEW g, n > 1 => f[n - 1] = g[n - 1]
  PROVE  JoinTurn(lines, n, f) = JoinTurn(lines, n, g)
BY DEF JoinTurn

LEMMA JoinLonger ==
  ASSUME NEW lines, NEW k \in Nat, HasJoin(lines, k)
  PROVE  HasJoin(lines, k + 1)
<1>1. PICK f : IsJoin(lines, k, f)
  BY DEF HasJoin
<1>2. \A n \in 0 .. k : f[n] = JoinTurn(lines, n, f)
  BY <1>1, JoinValues
<1> DEFINE g == [n \in 0 .. k + 1 |-> IF n = k + 1 THEN JoinTurn(lines, n, f) ELSE f[n]]
<1>3. ASSUME NEW n \in 0 .. k + 1 PROVE g[n] = JoinTurn(lines, n, g)
  <2>1. n > 1 => g[n - 1] = f[n - 1]
    OBVIOUS
  <2>2. g[n] = IF n = k + 1 THEN JoinTurn(lines, n, f) ELSE f[n]
    OBVIOUS
  <2> HIDE DEF g
  <2>3. JoinTurn(lines, n, g) = JoinTurn(lines, n, f)
    BY <2>1, TurnLooksBack
  <2>4. CASE n = k + 1
    BY <2>2, <2>3, <2>4
  <2>5. CASE n # k + 1
    <3>1. n \in 0 .. k
      BY <2>5
    <3> QED BY <1>2, <2>2, <2>3, <2>5, <3>1
  <2> QED BY <2>4, <2>5
<1>4. g = [n \in 0 .. k + 1 |-> g[n]]
  OBVIOUS
<1> HIDE DEF g
<1>5. g = [n \in 0 .. k + 1 |-> JoinTurn(lines, n, g)]
  BY <1>3, <1>4
<1> QED BY <1>5 DEF HasJoin, IsJoin

LEMMA JoinExists == ASSUME NEW lines, NEW k \in Nat PROVE HasJoin(lines, k)
<1> DEFINE S == {n \in Nat : HasJoin(lines, n)}
<1>1. 0 \in S
  <2> DEFINE f == [n \in 0 .. 0 |-> <<>>]
  <2>1. f = [n \in 0 .. 0 |-> JoinTurn(lines, n, f)]
    <3>1. \A n \in 0 .. 0 : JoinTurn(lines, n, f) = <<>>
      BY DEF JoinTurn
    <3> QED BY <3>1
  <2> HIDE DEF f
  <2> QED BY <2>1 DEF HasJoin, IsJoin
<1>2. ASSUME NEW n \in S PROVE n + 1 \in S
  BY JoinLonger
<1>3. Nat \subseteq S
  <2> HIDE DEF S
  <2> QED BY <1>1, <1>2, NumberInduction
<1> QED BY <1>3

\* What joins more lines joins the first of them as well.
SameLines(lines, more, k) == \A i \in 1 .. k : lines[i] = more[i]
AgreeTo(f, g, k)          == \A i \in 0 .. k : f[i] = g[i]

LEMMA JoinsAgree ==
  ASSUME NEW lines, NEW more, NEW k \in Nat, NEW m \in Nat, k <= m,
         SameLines(lines, more, k),
         NEW f, IsJoin(lines, k, f), NEW g, IsJoin(more, m, g)
  PROVE  AgreeTo(f, g, k)
<1>1. \A n \in 0 .. k : f[n] = JoinTurn(lines, n, f)
  BY JoinValues
<1>2. \A n \in 0 .. m : g[n] = JoinTurn(more, n, g)
  BY JoinValues
<1> DEFINE S == {n \in Nat : n <= k => f[n] = g[n]}
<1>3. 0 \in S
  <2>1. f[0] = JoinTurn(lines, 0, f) /\ g[0] = JoinTurn(more, 0, g)
    BY <1>1, <1>2
  <2>2. f[0] = g[0]
    BY <2>1 DEF JoinTurn
  <2> QED BY <2>2
<1>4. ASSUME NEW n \in S PROVE n + 1 \in S
  <2>1. CASE n + 1 <= k
    <3>1. f[n] = g[n] /\ n \in Nat
      BY <2>1
    <3>2. lines[n + 1] = more[n + 1]
      BY <2>1 DEF SameLines
    <3>3. f[n + 1] = JoinTurn(lines, n + 1, f) /\ g[n + 1] = JoinTurn(more, n + 1, g)
      BY <1>1, <1>2, <2>1
    <3>4. (n + 1) - 1 = n
      BY <3>1
    <3>5. JoinTurn(lines, n + 1, f) = JoinTurn(more, n + 1, g)
      <4>1. CASE n + 1 = 1
        BY <3>2, <4>1 DEF JoinTurn
      <4>2. CASE n + 1 # 1
        <5>1. n + 1 # 0
          BY <3>1
        <5>2. JoinTurn(lines, n + 1, f) = f[n] \o <<NewLine>> \o lines[n + 1]
          BY <3>4, <4>2, <5>1 DEF JoinTurn
        <5>3. JoinTurn(more, n + 1, g) = g[n] \o <<NewLine>> \o more[n + 1]
          BY <3>4, <4>2, <5>1 DEF JoinTurn
        <5> QED BY <3>1, <3>2, <5>2, <5>3
      <4> QED BY <4>1, <4>2
    <3>6. f[n + 1] = g[n + 1]
      BY <3>3, <3>5
    <3> QED BY <3>6
  <2>2. CASE ~(n + 1 <= k)
    BY <2>2
  <2> QED BY <2>1, <2>2
<1>5. Nat \subseteq S
  <2> HIDE DEF S
  <2> QED BY <1>3, <1>4, NumberInduction
<1>6. ASSUME NEW n \in 0 .. k PROVE f[n] = g[n]
  <2>1. n \in S
    BY <1>5
  <2> QED BY <2>1
<1> QED BY <1>6 DEF AgreeTo

LEMMA JoinIsJoin ==
  ASSUME NEW lines, Len(lines) \in Nat
  PROVE  \E f : IsJoin(lines, Len(lines), f) /\ JoinLines(lines) = f[Len(lines)]
<1>1. \E f : IsJoin(lines, Len(lines), f)
  BY JoinExists DEF HasJoin
<1>2. JoinLines(lines) = (CHOOSE f : IsJoin(lines, Len(lines), f))[Len(lines)]
  BY DEF JoinLines, IsJoin, JoinTurn
<1> QED BY <1>1, <1>2

\* A line alone is itself, and one more line comes behind the end of the others.
LEMMA JoinOne ==
  ASSUME NEW line
  PROVE  JoinLines(<<line>>) = line
<1> DEFINE lines == <<line>>
<1>1. Len(lines) = 1 /\ lines[1] = line
  OBVIOUS
<1> HIDE DEF lines
<1>2. Len(lines) \in Nat /\ 1 \in 0 .. Len(lines)
  BY <1>1
<1>3. PICK f : IsJoin(lines, Len(lines), f) /\ JoinLines(lines) = f[Len(lines)]
  BY <1>2, JoinIsJoin
<1>4. f[1] = JoinTurn(lines, 1, f)
  BY <1>2, <1>3, JoinValues
<1>5. JoinLines(lines) = line
  BY <1>1, <1>3, <1>4 DEF JoinTurn
<1> QED BY <1>5 DEF lines

LEMMA JoinMore ==
  ASSUME NEW lines \in Seq(Seq(Characters)), lines # <<>>, NEW line \in Seq(Characters)
  PROVE  JoinLines(Append(lines, line)) = JoinLines(lines) \o <<NewLine>> \o line
<1> DEFINE more == Append(lines, line)
           n    == Len(lines)
<1>1. n \in Nat \ {0}
  BY EmptySeq
<1>2. Len(more) = n + 1 /\ more[n + 1] = line /\ \A i \in 1 .. n : more[i] = lines[i]
  OBVIOUS
<1> HIDE DEF more, n
<1>3. n \in Nat /\ n + 1 \in Nat /\ n <= n + 1 /\ n \in 0 .. n /\ n + 1 \in 0 .. n + 1
  BY <1>1
<1>4. Len(lines) \in Nat /\ Len(lines) = n
  BY <1>3 DEF n
<1>5. PICK f : IsJoin(lines, n, f) /\ JoinLines(lines) = f[n]
  BY <1>4, JoinIsJoin
<1>6. Len(more) \in Nat
  BY <1>2, <1>3
<1>7. PICK g : IsJoin(more, n + 1, g) /\ JoinLines(more) = g[n + 1]
  BY <1>2, <1>6, JoinIsJoin
<1>8. f[n] = g[n]
  <2>1. PICK m \in Nat : m = n + 1
    BY <1>3
  <2>2. n \in Nat /\ n <= m /\ SameLines(lines, more, n)
    BY <1>2, <1>3, <2>1 DEF SameLines
  <2>3. IsJoin(lines, n, f) /\ IsJoin(more, m, g)
    BY <1>5, <1>7, <2>1
  <2>4. AgreeTo(f, g, n)
    BY <2>2, <2>3, JoinsAgree
  <2> QED BY <1>3, <2>4 DEF AgreeTo
<1>9. g[n + 1] = JoinTurn(more, n + 1, g)
  BY <1>3, <1>7, JoinValues
<1>10. n + 1 # 0 /\ n + 1 # 1 /\ (n + 1) - 1 = n
  BY <1>1
<1>11. JoinTurn(more, n + 1, g) = g[n] \o <<NewLine>> \o more[n + 1]
  BY <1>10 DEF JoinTurn
<1> QED BY <1>2, <1>5, <1>7, <1>8, <1>9, <1>11 DEF more

-----------------------------------------------------------------------------
(* The invariant of a LogEmitControl.                                      *)

LineControls ==
  [log_flags : SUBSET {"LogLocalTime", "LogZeroTime"}, log_level : LineLevels,
   screen : SUBSET LineLevels, persistent : SUBSET LineLevels, line_buffer : Seq(Characters),
   line_leader : [1 .. LeaderEnd -> Columns], this_line_offset : Nat, updated : BOOLEAN,
   given : Seq(Seq(Characters)), at_end : BOOLEAN]

\* A leader is one that was laid out, with its time as soon as that was asked for,
\* or one of a literal, which does not end where a leader does.
LeaderKept(c) ==
  c.line_leader[LeaderEnd] = "nul" =>
    /\ WellFormed(c.line_leader)
    /\ c.updated => \A i \in 1 .. Length_TimeSpec : c.line_leader[i] # "unset"
    /\ c.updated /\ "LogZeroTime" \notin c.log_flags => c.line_leader[Length_TimeSpec + 1] # "unset"

\* Up to the newline at the offset, or up to its end, the text is in the lines given.
ReadTo(c) ==
  \/ c.given = <<>> /\ c.this_line_offset = 0 /\ ~c.at_end
  \/ /\ c.given # <<>>
     /\ c.this_line_offset = Len(c.line_buffer) + 1
     /\ JoinLines(c.given) = c.line_buffer
  \/ /\ c.given # <<>> /\ ~c.at_end
     /\ c.this_line_offset \in 1 .. Len(c.line_buffer)
     /\ c.line_buffer[c.this_line_offset] = NewLine
     /\ JoinLines(c.given) = SubSeq(c.line_buffer, 1, c.this_line_offset - 1)

NoEnds(lines) == \A i \in DOMAIN lines : NewLine \notin ToSet(lines[i])

LinesInv ==
  /\ emitControl \in LineControls
  /\ LeaderKept(emitControl)
  /\ ReadTo(emitControl)
  /\ NoEnds(emitControl.given)
  /\ LevelsFound

LEMMA ControlTyped ==
  ASSUME NEW c \in LineControls
  PROVE  /\ c.line_buffer \in Seq(Characters) /\ c.given \in Seq(Seq(Characters))
         /\ c.line_leader \in [1 .. LeaderEnd -> Columns]
         /\ c.this_line_offset \in Nat /\ c.updated \in BOOLEAN /\ c.at_end \in BOOLEAN
<1>1. c.line_buffer \in Seq(Characters)
  BY DEF LineControls
<1>2. c.given \in Seq(Seq(Characters))
  BY DEF LineControls
<1>3. c.line_leader \in [1 .. LeaderEnd -> Columns]
  BY DEF LineControls
<1>4. c.this_line_offset \in Nat /\ c.updated \in BOOLEAN /\ c.at_end \in BOOLEAN
  BY DEF LineControls
<1> QED BY <1>1, <1>2, <1>3, <1>4

\* What is written and what is left when a leader gets its time.
Timed(c) == UpdateTime(c).line_leader

LEMMA TimedPlaces ==
  ASSUME NEW c \in LineControls
  PROVE  /\ Timed(c) \in [1 .. LeaderEnd -> Columns]
         /\ UpdateTime(c) = [c EXCEPT !.line_leader = Timed(c)]
         /\ \A i \in 1 .. Length_TimeSpec : Timed(c)[i] = "time"
         /\ "LogZeroTime" \notin c.log_flags => Timed(c)[Length_TimeSpec + 1] = "blank"
         /\ \A i \in Length_TimeSpec + 2 .. LeaderEnd : Timed(c)[i] = c.line_leader[i]
<1> DEFINE shown == Length_TimeSpec + (IF "LogZeroTime" \in c.log_flags THEN 0 ELSE 1)
           leader  == [i \in 1 .. LeaderEnd |->
                         IF i <= Length_TimeSpec THEN "time"
                         ELSE IF i <= shown THEN "blank" ELSE c.line_leader[i]]
<1>1. c.line_leader \in [1 .. LeaderEnd -> Columns]
  BY ControlTyped
<1>2. DOMAIN c.line_leader = 1 .. LeaderEnd
  BY <1>1
<1>3. UpdateTime(c) = [c EXCEPT !.line_leader = leader]
  BY <1>2 DEF UpdateTime
<1>4. DOMAIN c = {"log_flags", "log_level", "screen", "persistent", "line_buffer", "line_leader",
                  "this_line_offset", "updated", "given", "at_end"}
  BY DEF LineControls
<1>5. Timed(c) = leader
  <2> HIDE DEF leader
  <2> QED BY <1>3, <1>4 DEF Timed
<1>6. Length_TimeSpec \in Nat /\ TidWidth \in Nat /\ LeaderEnd = Length_TimeSpec + TidWidth + 14
  BY LeaderLength DEF LeaderEnd
<1>7. shown \in Int /\ Length_TimeSpec <= shown /\ shown <= Length_TimeSpec + 1
  BY <1>6
<1>8. "LogZeroTime" \notin c.log_flags => shown = Length_TimeSpec + 1
  OBVIOUS
<1>9. "time" \in Columns /\ "blank" \in Columns
  BY DEF Columns
<1> HIDE DEF shown
<1>10. leader \in [1 .. LeaderEnd -> Columns]
  <2>1. \A i \in 1 .. LeaderEnd : c.line_leader[i] \in Columns
    BY <1>1
  <2> QED BY <1>9, <2>1
<1>11. ASSUME NEW i \in 1 .. Length_TimeSpec PROVE leader[i] = "time"
  <2>1. i \in 1 .. LeaderEnd /\ i <= Length_TimeSpec
    BY <1>6
  <2> QED BY <2>1
<1>12. ASSUME "LogZeroTime" \notin c.log_flags PROVE leader[Length_TimeSpec + 1] = "blank"
  <2>1. PICK place \in 1 .. LeaderEnd : place = Length_TimeSpec + 1
    BY <1>6
  <2>2. ~(place <= Length_TimeSpec) /\ place <= shown
    BY <1>6, <1>8, <1>12, <2>1
  <2> QED BY <2>1, <2>2
<1>13. ASSUME NEW i \in Length_TimeSpec + 2 .. LeaderEnd PROVE leader[i] = c.line_leader[i]
  <2>1. i \in 1 .. LeaderEnd /\ ~(i <= Length_TimeSpec) /\ ~(i <= shown)
    BY <1>6, <1>7
  <2> QED BY <2>1
<1> HIDE DEF leader
<1> QED BY <1>3, <1>5, <1>10, <1>11, <1>12, <1>13

LEMMA LeaderGetsTime ==
  ASSUME NEW c \in LineControls, LeaderKept(c)
  PROVE  LET new == [UpdateTime(c) EXCEPT !.updated = TRUE]
         IN /\ new \in LineControls /\ LeaderKept(new)
            /\ new.given = c.given /\ new.at_end = c.at_end
            /\ new.this_line_offset = c.this_line_offset /\ new.line_buffer = c.line_buffer
<1> DEFINE leader == Timed(c)
           new    == [UpdateTime(c) EXCEPT !.updated = TRUE]
           plain  == [c EXCEPT !.line_leader = leader, !.updated = TRUE]
<1>1. /\ leader \in [1 .. LeaderEnd -> Columns]
      /\ UpdateTime(c) = [c EXCEPT !.line_leader = leader]
      /\ \A i \in 1 .. Length_TimeSpec : leader[i] = "time"
      /\ "LogZeroTime" \notin c.log_flags => leader[Length_TimeSpec + 1] = "blank"
      /\ \A i \in Length_TimeSpec + 2 .. LeaderEnd : leader[i] = c.line_leader[i]
  BY TimedPlaces
<1> HIDE DEF leader
<1>2. new = plain
  BY <1>1
<1>3. plain \in LineControls
  BY <1>1 DEF LineControls
<1>4. DOMAIN c = {"log_flags", "log_level", "screen", "persistent", "line_buffer", "line_leader",
                  "this_line_offset", "updated", "given", "at_end"}
  BY DEF LineControls
<1>5. /\ plain.line_leader = leader /\ plain.log_flags = c.log_flags
      /\ plain.given = c.given /\ plain.at_end = c.at_end
      /\ plain.this_line_offset = c.this_line_offset /\ plain.line_buffer = c.line_buffer
  BY <1>4
<1>6. Length_TimeSpec \in Nat /\ TidWidth \in Nat /\ LeaderEnd = Length_TimeSpec + TidWidth + 14
  BY LeaderLength DEF LeaderEnd
<1> HIDE DEF plain
<1>7. LeaderKept(plain)
  <2> SUFFICES ASSUME plain.line_leader[LeaderEnd] = "nul"
               PROVE  /\ WellFormed(leader)
                      /\ \A i \in 1 .. Length_TimeSpec : leader[i] # "unset"
                      /\ "LogZeroTime" \notin c.log_flags => leader[Length_TimeSpec + 1] # "unset"
    BY <1>5 DEF LeaderKept
  <2>1. LeaderEnd \in Length_TimeSpec + 2 .. LeaderEnd
    BY <1>6
  <2>2. c.line_leader[LeaderEnd] = "nul"
    BY <1>1, <1>5, <2>1
  <2>3. WellFormed(c.line_leader)
    BY <2>2 DEF LeaderKept
  <2>4. WellFormed(leader)
    <3>1. leader[LeaderEnd] = "nul"
      BY <1>1, <2>1, <2>2
    <3>2. \A i \in Length_TimeSpec + 2 .. LeaderEnd : leader[i] # "unset"
      BY <1>1, <2>3 DEF WellFormed
    <3>3. leader[Length_TimeSpec + TidWidth + 12] = "colon"
      <4>1. Length_TimeSpec + TidWidth + 12 \in Length_TimeSpec + 2 .. LeaderEnd
        BY <1>6
      <4> QED BY <1>1, <2>3, <4>1 DEF WellFormed
    <3>4. PICK digits \in 1 .. TidWidth :
            /\ \A i \in 1 .. TidWidth - digits : c.line_leader[Length_TimeSpec + 11 + i] = "blank"
            /\ \A i \in 1 .. digits :
                 c.line_leader[Length_TimeSpec + 11 + (TidWidth - digits) + i] = "digit"
      BY <2>3 DEF WellFormed
    <3>5. ASSUME NEW i \in 1 .. TidWidth - digits
          PROVE  leader[Length_TimeSpec + 11 + i] = "blank"
      <4>1. Length_TimeSpec + 11 + i \in Length_TimeSpec + 2 .. LeaderEnd
        BY <1>6
      <4> QED BY <1>1, <3>4, <4>1
    <3>6. ASSUME NEW i \in 1 .. digits
          PROVE  leader[Length_TimeSpec + 11 + (TidWidth - digits) + i] = "digit"
      <4>1. Length_TimeSpec + 11 + (TidWidth - digits) + i \in Length_TimeSpec + 2 .. LeaderEnd
        BY <1>6
      <4> QED BY <1>1, <3>4, <4>1
    <3> QED BY <3>1, <3>2, <3>3, <3>5, <3>6 DEF WellFormed
  <2> QED BY <1>1, <2>4
<1> QED BY <1>2, <1>3, <1>5, <1>7

\* The next line is what stands up to the next end of a line, and the offset is that end.
LEMMA NextLineOf ==
  ASSUME NEW text \in Seq(Characters), NEW from \in 0 .. Len(text)
  PROVE  /\ NextEnd(text, from) \in from + 1 .. Len(text) + 1
         /\ NextEnd(text, from) <= Len(text) => text[NextEnd(text, from)] = NewLine
         /\ \A i \in from + 1 .. NextEnd(text, from) - 1 : text[i] # NewLine
         /\ SubSeq(text, from + 1, NextEnd(text, from) - 1) \in Seq(Characters)
         /\ NewLine \notin ToSet(SubSeq(text, from + 1, NextEnd(text, from) - 1))
<1> DEFINE ends == {i \in from + 1 .. Len(text) : text[i] = NewLine}
           end  == NextEnd(text, from)
<1>1. Len(text) \in Nat /\ from \in Nat
  OBVIOUS
<1>2. ASSUME ends = {}
      PROVE  /\ end \in from + 1 .. Len(text) + 1
             /\ end <= Len(text) => text[end] = NewLine
             /\ \A i \in from + 1 .. end - 1 : text[i] # NewLine
  <2>1. end = Len(text) + 1
    BY <1>2 DEF NextEnd
  <2>2. \A i \in from + 1 .. Len(text) : text[i] # NewLine
    BY <1>2
  <2> HIDE DEF ends, end
  <2> QED BY <1>1, <2>1, <2>2
<1>3. ASSUME ends # {}
      PROVE  /\ end \in from + 1 .. Len(text) + 1
             /\ end <= Len(text) => text[end] = NewLine
             /\ \A i \in from + 1 .. end - 1 : text[i] # NewLine
  <2>1. ends \subseteq Nat
    BY <1>1
  <2>2. \E n \in ends : \A m \in ends : n <= m
    BY <1>3, <2>1, LeastNumber
  <2>3. Min(ends) \in ends /\ \A m \in ends : Min(ends) <= m
    BY <2>2 DEF Min
  <2>4. end = Min(ends)
    BY <1>3 DEF NextEnd
  <2>5. end \in from + 1 .. Len(text) /\ text[end] = NewLine
    BY <2>3, <2>4
  <2>6. ASSUME NEW i \in from + 1 .. end - 1 PROVE text[i] # NewLine
    <3>1. i \in from + 1 .. Len(text) /\ ~(end <= i)
      BY <1>1, <2>5
    <3> QED BY <2>3, <2>4, <3>1
  <2> HIDE DEF ends, end
  <2> QED BY <1>1, <2>5, <2>6
<1>4. /\ end \in from + 1 .. Len(text) + 1
      /\ end <= Len(text) => text[end] = NewLine
      /\ \A i \in from + 1 .. end - 1 : text[i] # NewLine
  BY <1>2, <1>3
<1> HIDE DEF ends, end
<1> DEFINE line == SubSeq(text, from + 1, end - 1)
<1>5. from + 1 \in Int /\ end - 1 \in Int /\ end - 1 <= Len(text)
  BY <1>1, <1>4
<1>6. \A i \in from + 1 .. end - 1 : text[i] \in Characters
  BY <1>1, <1>5, ElementOfSeq
<1>7. /\ line \in Seq(Characters)
      /\ Len(line) = IF from + 1 <= end - 1 THEN (end - 1) - (from + 1) + 1 ELSE 0
      /\ \A i \in 1 .. (end - 1) - (from + 1) + 1 : line[i] = text[(from + 1) + i - 1]
  BY <1>5, <1>6, SubSeqProperties
<1> HIDE DEF line
<1>8. ASSUME NEW i \in DOMAIN line PROVE line[i] # NewLine
  <2>1. i \in 1 .. Len(line)
    BY <1>7
  <2>2. i \in 1 .. (end - 1) - (from + 1) + 1 /\ (from + 1) + i - 1 \in from + 1 .. end - 1
    BY <1>1, <1>5, <1>7, <2>1
  <2> QED BY <1>4, <1>7, <2>2
<1>9. NewLine \notin ToSet(line)
  BY <1>8 DEF ToSet
<1> QED BY <1>4, <1>7, <1>9 DEF line, end

\* What reading changes of a LogEmitControl.
ReadControl(c, offset, given, at_end) ==
  [c EXCEPT !.this_line_offset = offset, !.given = given, !.at_end = at_end]

IsRead(new, c, offset, given, at_end) ==
  /\ new \in LineControls
  /\ new.this_line_offset = offset /\ new.given = given /\ new.at_end = at_end
  /\ new.line_buffer = c.line_buffer /\ new.line_leader = c.line_leader
  /\ new.updated = c.updated /\ new.log_flags = c.log_flags

LEMMA ReadTyped ==
  ASSUME NEW c \in LineControls, NEW offset \in Nat, NEW given \in Seq(Seq(Characters)),
         NEW at_end \in BOOLEAN
  PROVE  IsRead(ReadControl(c, offset, given, at_end), c, offset, given, at_end)
<1> DEFINE new == ReadControl(c, offset, given, at_end)
<1>1. DOMAIN c = {"log_flags", "log_level", "screen", "persistent", "line_buffer", "line_leader",
                  "this_line_offset", "updated", "given", "at_end"}
  BY DEF LineControls
<1>2. new \in LineControls
  BY DEF ReadControl, LineControls
<1>3. /\ new.this_line_offset = offset /\ new.given = given /\ new.at_end = at_end
      /\ new.line_buffer = c.line_buffer /\ new.line_leader = c.line_leader
      /\ new.updated = c.updated /\ new.log_flags = c.log_flags
  BY <1>1 DEF ReadControl
<1> HIDE DEF new
<1>4. IsRead(new, c, offset, given, at_end)
  BY <1>2, <1>3 DEF IsRead
<1> QED BY <1>4 DEF new

\* One more line: it begins behind what was read, and ends at an end of a line or of
\* the text.
LEMMA LineGiven ==
  ASSUME NEW c \in LineControls, ReadTo(c), NoEnds(c.given),
         NEW text, text = c.line_buffer, NEW from, from = c.this_line_offset, from <= Len(text)
  PROVE  LET line  == SubSeq(text, from + 1, NextEnd(text, from) - 1)
             given == c.given \o <<line>>
             new   == ReadControl(c, NextEnd(text, from), given, FALSE)
         IN new \in LineControls /\ ReadTo(new) /\ NoEnds(given) /\ NextEnd(text, from) \in Nat
<1> DEFINE end   == NextEnd(text, from)
           line  == SubSeq(text, from + 1, end - 1)
           given == c.given \o <<line>>
           new   == ReadControl(c, end, given, FALSE)
<1>1. /\ text \in Seq(Characters) /\ c.given \in Seq(Seq(Characters))
      /\ from \in Nat /\ Len(text) \in Nat /\ from \in 0 .. Len(text)
  BY ControlTyped
<1>2. /\ end \in from + 1 .. Len(text) + 1
      /\ end <= Len(text) => text[end] = NewLine
      /\ line \in Seq(Characters) /\ NewLine \notin ToSet(line)
  BY <1>1, NextLineOf
<1> HIDE DEF end, line
<1>3. <<line>> \in Seq(Seq(Characters)) /\ Len(<<line>>) = 1 /\ <<line>>[1] = line
  BY <1>2
<1>4. given \in Seq(Seq(Characters)) /\ given = Append(c.given, line) /\ given # <<>>
  BY <1>1, <1>2, AppendIsConcat, AppendProperties
<1>5. end \in Nat /\ end \in 1 .. Len(text) + 1
  BY <1>1, <1>2
<1>6. NoEnds(given)
  <2>1. /\ Len(given) = Len(c.given) + 1
        /\ \A i \in 1 .. Len(c.given) : given[i] = c.given[i]
        /\ given[Len(c.given) + 1] = line
    BY <1>1, <1>2, <1>4, AppendProperties
  <2>2. Len(c.given) \in Nat /\ DOMAIN c.given = 1 .. Len(c.given) /\ DOMAIN given = 1 .. Len(c.given) + 1
    BY <1>1, <1>4, <2>1, LenProperties
  <2> HIDE DEF given
  <2>3. ASSUME NEW i \in DOMAIN given PROVE NewLine \notin ToSet(given[i])
    <3>1. i \in 1 .. Len(c.given) \/ i = Len(c.given) + 1
      BY <2>2
    <3> QED BY <1>2, <2>1, <2>2, <3>1 DEF NoEnds
  <2> QED BY <2>3 DEF NoEnds
<1>7. JoinLines(given) = SubSeq(text, 1, end - 1)
  <2>1. CASE c.given = <<>>
    <3>1. from = 0
      BY <2>1 DEF ReadTo
    <3>2. given = <<line>>
      BY <1>3, <2>1, ConcatEmptySeq
    <3>3. JoinLines(given) = line
      BY <3>2, JoinOne
    <3>4. from + 1 = 1
      BY <3>1
    <3> QED BY <3>3, <3>4 DEF line
  <2>2. CASE c.given # <<>>
    <3>1. /\ from \in 1 .. Len(text) /\ text[from] = NewLine
          /\ JoinLines(c.given) = SubSeq(text, 1, from - 1)
      BY <1>1, <2>2 DEF ReadTo
    <3>2. JoinLines(given) = SubSeq(text, 1, from - 1) \o <<NewLine>> \o line
      BY <1>1, <1>2, <1>4, <2>2, <3>1, JoinMore
    <3>3. SubSeq(text, 1, from) = SubSeq(text, 1, from - 1) \o <<NewLine>>
      <4>1. PICK m \in 1 .. Len(text) : m = 1
        BY <3>1
      <4>2. from \in m .. Len(text)
        BY <3>1, <4>1
      <4>3. SubSeq(text, m, from) = SubSeq(text, m, from - 1) \o <<text[from]>>
        BY <1>1, <4>2, SubSeqRecursiveSecond
      <4> QED BY <3>1, <4>1, <4>3
    <3>4. SubSeq(text, 1, from) \o line = SubSeq(text, 1, end - 1)
      <4>1. PICK m \in 1 .. Len(text) + 1 : m = 1
        BY <1>1
      <4>2. from \in m - 1 .. Len(text) /\ end - 1 \in from .. Len(text)
        BY <1>1, <1>2, <4>1
      <4>3. SubSeq(text, m, from) \o SubSeq(text, from + 1, end - 1) = SubSeq(text, m, end - 1)
        BY <1>1, <4>2, ConcatAdjacentSubSeq
      <4> QED BY <4>1, <4>3 DEF line
    <3> QED BY <3>2, <3>3, <3>4
  <2> QED BY <2>1, <2>2
<1> HIDE DEF given
<1>8. /\ new \in LineControls /\ new.this_line_offset = end /\ new.given = given
      /\ new.at_end = FALSE /\ new.line_buffer = text
  <2>1. IsRead(new, c, end, given, FALSE)
    BY <1>4, <1>5, ReadTyped
  <2> HIDE DEF new
  <2> QED BY <2>1 DEF IsRead
<1> HIDE DEF new
<1>9. ReadTo(new)
  <2>1. CASE end = Len(text) + 1
    <3>1. end - 1 = Len(text)
      BY <1>1, <2>1
    <3>2. JoinLines(given) = text
      BY <1>1, <1>7, <3>1, SubSeqFull
    <3> QED BY <1>4, <1>8, <2>1, <3>2 DEF ReadTo
  <2>2. CASE end # Len(text) + 1
    <3>0. end \in 1 .. Len(text) /\ end <= Len(text)
      <4>1. Len(text) \in Nat
        BY <1>1
      <4> QED BY <1>5, <2>2, <4>1
    <3>1. end \in 1 .. Len(text) /\ text[end] = NewLine
      BY <1>2, <3>0
    <3> QED BY <1>4, <1>7, <1>8, <3>1 DEF ReadTo
  <2> QED BY <2>1, <2>2
<1> QED BY <1>5, <1>6, <1>8, <1>9 DEF new, given, line, end

\* What a read line keeps and leaves alone.
ReadOn(new, c) ==
  /\ new \in LineControls /\ ReadTo(new) /\ NoEnds(new.given)
  /\ new.line_leader = c.line_leader /\ new.updated = c.updated /\ new.log_flags = c.log_flags

LEMMA ReadStep ==
  ASSUME NEW c \in LineControls, ReadTo(c), NoEnds(c.given), ~c.at_end
  PROVE  LET next == GetNextLine(c)
             new  == ReadControl(c, next.offset, c.given \o next.line, next.line = <<>>)
         IN ReadOn(new, c)
<1> DEFINE text == c.line_buffer
           from == c.this_line_offset
           end  == NextEnd(text, from)
           next == GetNextLine(c)
           new  == ReadControl(c, next.offset, c.given \o next.line, next.line = <<>>)
<1>1. /\ text \in Seq(Characters) /\ c.given \in Seq(Seq(Characters))
      /\ from \in Nat /\ Len(text) \in Nat
  BY ControlTyped
<1>2. ASSUME NEW offset \in Nat, NEW line \in Seq(Seq(Characters)), NEW at_end \in BOOLEAN,
             next.offset = offset, next.line = line, at_end = (line = <<>>),
             LET read == ReadControl(c, offset, c.given \o line, at_end)
             IN ReadTo(read) /\ NoEnds(c.given \o line)
      PROVE  ReadOn(new, c)
  <2>1. c.given \o line \in Seq(Seq(Characters))
    BY <1>1, ConcatProperties
  <2>2. new = ReadControl(c, offset, c.given \o line, at_end)
    BY <1>2
  <2>3. IsRead(ReadControl(c, offset, c.given \o line, at_end), c, offset, c.given \o line, at_end)
    BY <2>1, ReadTyped
  <2>4. ReadTo(new) /\ NoEnds(c.given \o line)
    BY <1>2, <2>2
  <2> HIDE DEF new, next
  <2> QED BY <2>2, <2>3, <2>4 DEF IsRead, ReadOn
<1>3. ASSUME from > Len(text) PROVE ReadOn(new, c)
  <2>1. next.line = <<>> /\ next.offset = from
    BY <1>3 DEF GetNextLine
  <2>2. /\ c.given # <<>> /\ from = Len(text) + 1 /\ JoinLines(c.given) = text
    BY <1>1, <1>3 DEF ReadTo
  <2>3. c.given \o <<>> = c.given
    BY <1>1, ConcatEmptySeq
  <2> DEFINE read == ReadControl(c, from, c.given \o <<>>, TRUE)
  <2>4. /\ read.this_line_offset = from /\ read.given = c.given /\ read.line_buffer = text
    <3>1. IsRead(read, c, from, c.given, TRUE)
      BY <1>1, <2>3, ReadTyped
    <3> HIDE DEF read
    <3> QED BY <3>1 DEF IsRead
  <2> HIDE DEF read
  <2>5. ReadTo(read) /\ NoEnds(c.given \o <<>>)
    BY <2>2, <2>3, <2>4 DEF ReadTo
  <2>6. <<>> \in Seq(Seq(Characters)) /\ TRUE = (<<>> = <<>>)
    OBVIOUS
  <2> QED BY <1>1, <1>2, <2>1, <2>5, <2>6 DEF read
<1>4. ASSUME from = 0 /\ text = <<>> PROVE ReadOn(new, c)
  <2>1. Len(text) = 0
    BY <1>4
  <2>2. next.line = << <<>> >> /\ next.offset = 1
    BY <1>4, <2>1 DEF GetNextLine
  <2>3. c.given = <<>>
    BY <1>1, <1>4, <2>1 DEF ReadTo
  <2> DEFINE one == << <<>> >>
  <2>4. one \in Seq(Seq(Characters)) /\ one # <<>> /\ DOMAIN one = {1} /\ one[1] = <<>>
    OBVIOUS
  <2>5. c.given \o one = one
    BY <2>3, <2>4, ConcatEmptySeq
  <2> DEFINE read == ReadControl(c, 1, c.given \o one, FALSE)
  <2>6. /\ read.this_line_offset = 1 /\ read.given = one /\ read.line_buffer = text
    <3>1. PICK k \in Nat : k = 1
      OBVIOUS
    <3>2. read = ReadControl(c, k, one, FALSE)
      BY <2>5, <3>1
    <3> HIDE DEF read, one
    <3>3. IsRead(ReadControl(c, k, one, FALSE), c, k, one, FALSE)
      BY <2>4, ReadTyped
    <3>4. IsRead(read, c, k, one, FALSE)
      BY <3>2, <3>3
    <3> QED BY <3>1, <3>4 DEF IsRead
  <2>7. JoinLines(one) = <<>>
    BY JoinOne
  <2>8. NoEnds(one)
    <3>1. ToSet(<<>>) = {}
      BY DEF ToSet
    <3> QED BY <2>4, <3>1 DEF NoEnds
  <2> HIDE DEF read, one
  <2>9. ReadTo(read) /\ NoEnds(c.given \o one)
    BY <1>4, <2>1, <2>4, <2>5, <2>6, <2>7, <2>8 DEF ReadTo
  <2>10. FALSE = (one = <<>>)
    BY <2>4
  <2>11. next.line = one /\ next.offset = 1
    BY <2>2 DEF one
  <2> QED BY <1>2, <2>4, <2>9, <2>10, <2>11 DEF read
<1>5. ASSUME ~(from > Len(text)) /\ ~(from = 0 /\ text = <<>>) PROVE ReadOn(new, c)
  <2> DEFINE line == SubSeq(text, from + 1, end - 1)
             one  == <<line>>
  <2>1. from \in 0 .. Len(text) /\ from <= Len(text)
    BY <1>1, <1>5
  <2>2. end \in from + 1 .. Len(text) + 1 /\ line \in Seq(Characters)
    BY <1>1, <2>1, NextLineOf
  <2>3. next.line = one /\ next.offset = IF end > Len(text) THEN Len(text) + 1 ELSE end
    BY <1>5 DEF GetNextLine
  <2>4. next.offset = end /\ end \in Nat
    BY <1>1, <2>2, <2>3
  <2>5. one \in Seq(Seq(Characters)) /\ one # <<>>
    BY <2>2
  <2>6. ReadTo(ReadControl(c, end, c.given \o one, FALSE)) /\ NoEnds(c.given \o one)
    BY <2>1, LineGiven
  <2>7. FALSE = (one = <<>>)
    BY <2>5
  <2>8. next.line = one
    BY <2>3
  <2> HIDE DEF one, line, end, next, new
  <2> QED BY <1>2, <2>4, <2>5, <2>6, <2>7, <2>8
<1>6. ReadOn(new, c)
  <2> HIDE DEF new, next, end, from, text
  <2> QED BY <1>3, <1>4, <1>5
<1> QED BY <1>6

LEMMA UseStep ==
  ASSUME LinesInv, UseEmitControl
  PROVE  LinesInv'
<1> DEFINE c    == emitControl
           next == GetNextLine(c)
           read == ReadControl(c, next.offset, c.given \o next.line, next.line = <<>>)
           time == [UpdateTime(c) EXCEPT !.updated = TRUE]
<1>1. c \in LineControls /\ LeaderKept(c) /\ ReadTo(c) /\ NoEnds(c.given) /\ LevelsFound
  BY DEF LinesInv
<1>2. LevelsFound'
  BY <1>1 DEF UseEmitControl, LevelsFound
<1>3. ASSUME c' = time PROVE LinesInv'
  <2>1. /\ time \in LineControls /\ LeaderKept(time)
        /\ time.given = c.given /\ time.at_end = c.at_end
        /\ time.this_line_offset = c.this_line_offset /\ time.line_buffer = c.line_buffer
    BY <1>1, LeaderGetsTime
  <2> HIDE DEF time
  <2>2. ReadTo(time) /\ NoEnds(time.given)
    BY <1>1, <2>1 DEF ReadTo
  <2> QED BY <1>2, <1>3, <2>1, <2>2 DEF LinesInv
<1>4. ASSUME ~c.at_end, c' = read PROVE LinesInv'
  <2>1. ReadOn(read, c)
    BY <1>1, <1>4, ReadStep
  <2> HIDE DEF read
  <2>2. LeaderKept(read)
    BY <1>1, <2>1 DEF LeaderKept, ReadOn
  <2> QED BY <1>2, <1>4, <2>1, <2>2 DEF LinesInv, ReadOn
<1>5. ASSUME c' = ReadControl(c, 0, <<>>, FALSE) PROVE LinesInv'
  <2>1. PICK again : again = ReadControl(c, 0, <<>>, FALSE)
    OBVIOUS
  <2>2. <<>> \in Seq(Seq(Characters)) /\ 0 \in Nat /\ FALSE \in BOOLEAN
    OBVIOUS
  <2>3. IsRead(again, c, 0, <<>>, FALSE)
    BY <1>1, <2>1, <2>2, ReadTyped
  <2>4. LeaderKept(again)
    BY <1>1, <2>3 DEF LeaderKept, IsRead
  <2>5. ReadTo(again) /\ NoEnds(again.given)
    BY <2>3 DEF ReadTo, NoEnds, IsRead
  <2>6. again \in LineControls
    BY <2>3 DEF IsRead
  <2> QED BY <1>2, <1>5, <2>1, <2>4, <2>5, <2>6 DEF LinesInv
<1>6. \/ c' = time
      \/ ~c.at_end /\ c' = read
      \/ c' = ReadControl(c, 0, <<>>, FALSE)
  <2>1. \/ c' = time
        \/ ~c.at_end /\ c' = [c EXCEPT !.this_line_offset = next.offset,
                                !.given = @ \o next.line, !.at_end = next.line = <<>>]
        \/ c' = ResetLines(c)
    BY DEF UseEmitControl
  <2>2. read = [c EXCEPT !.this_line_offset = next.offset,
                  !.given = c.given \o next.line, !.at_end = next.line = <<>>]
    BY DEF ReadControl
  <2>3. ResetLines(c) = ReadControl(c, 0, <<>>, FALSE)
    BY DEF ResetLines, ReadControl
  <2> QED BY <2>1, <2>2, <2>3
<1> QED BY <1>3, <1>4, <1>5, <1>6

LEMMA LinesStart == LineInit => LinesInv
<1> SUFFICES ASSUME LineInit PROVE LinesInv
  OBVIOUS
<1>1. LevelsFound
  BY DEF LineInit, LevelsFound
<1>2. ASSUME NEW flags \in SUBSET {"LogLocalTime", "LogZeroTime"}, NEW level \in LineLevels,
             NEW text \in LogTexts \cup {<<>>}, NEW leader \in [1 .. LeaderEnd -> Columns],
             leader[LeaderEnd] = "nul" => WellFormed(leader),
             emitControl = LogEmitControl(flags, level, text, leader)
      PROVE  LinesInv
  <2>1. text \in Seq(Characters) /\ <<>> \in Seq(Seq(Characters))
    BY TextsTyped
  <2> DEFINE c == LogEmitControl(flags, level, text, leader)
  <2>2. c \in LineControls
    BY <2>1 DEF LogEmitControl, LineControls
  <2>3. /\ c.line_leader = leader /\ c.updated = FALSE /\ c.given = <<>>
        /\ c.this_line_offset = 0 /\ c.at_end = FALSE
    BY DEF LogEmitControl
  <2> HIDE DEF c
  <2>4. LeaderKept(c) /\ ReadTo(c) /\ NoEnds(c.given)
    BY <1>2, <2>3 DEF LeaderKept, ReadTo, NoEnds
  <2> QED BY <1>1, <1>2, <2>2, <2>4 DEF LinesInv, c
<1>3. PICK flags \in SUBSET {"LogLocalTime", "LogZeroTime"}, level \in LineLevels,
           tid \in ThreadIds, text \in LogTexts :
        \/ emitControl = LogEmitControl(flags, level, text, FormattedLeader(tid))
        \/ emitControl = LogEmitControl(flags, level, <<>>, LiteralLeader)
  BY DEF LineInit
<1>4. CASE emitControl = LogEmitControl(flags, level, text, FormattedLeader(tid))
  <2>1. tid \in Nat
    BY LogLinesAssumption
  <2>2. FormattedLeader(tid) \in [1 .. LeaderEnd -> Columns] /\ WellFormed(FormattedLeader(tid))
    BY <2>1, FormattedPlaces
  <2> QED BY <1>2, <1>4, <2>2
<1>5. CASE emitControl = LogEmitControl(flags, level, <<>>, LiteralLeader)
  <2> DEFINE nul  == <<"nul">>
             rest == Fill("unset", LogLineLeaderLength)
  <2>1. /\ Length_TimeSpec \in Nat /\ TidWidth \in Nat /\ LeaderEnd = Length_TimeSpec + TidWidth + 14
        /\ LogLineLeaderLength + 1 = LeaderEnd
    BY LeaderLength DEF LeaderEnd
  <2>2. PICK one \in Nat, more \in Nat \ {0} :
          one = 1 /\ more = LogLineLeaderLength /\ one + more = LeaderEnd
    BY <2>1 DEF LogLineLeaderLength, LogLevelTextMaxLength
  <2>3. "nul" \in Columns /\ "unset" \in Columns
    BY DEF Columns
  <2>4. nul \in Seq(Columns) /\ Len(nul) = one
    BY <2>2, <2>3
  <2>5. rest \in Seq(Columns) /\ Len(rest) = more /\ \A i \in 1 .. more : rest[i] = "unset"
    BY <2>2, <2>3, FillPlaces
  <2>6. LiteralLeader = nul \o rest
    BY DEF LiteralLeader
  <2> HIDE DEF nul, rest
  <2>7. AreTogether(nul \o rest, nul, rest, one, more)
    BY <2>2, <2>4, <2>5, TogetherPlaces
  <2>8. AreTogether(LiteralLeader, nul, rest, one, more)
    BY <2>6, <2>7
  <2>9. /\ LiteralLeader \in Seq(Columns) /\ Len(LiteralLeader) = LeaderEnd
        /\ \A i \in 1 .. more : LiteralLeader[one + i] = rest[i]
    BY <2>2, <2>8 DEF AreTogether
  <2>10. LiteralLeader \in [1 .. LeaderEnd -> Columns]
    BY <2>9, LenProperties
  <2>11. LiteralLeader[LeaderEnd] = "unset"
    BY <2>2, <2>5, <2>9
  <2> QED BY <1>2, <1>5, <2>10, <2>11
<1> QED BY <1>3, <1>4, <1>5

LEMMA LevelsStep ==
  ASSUME LinesInv, CallLevels
  PROVE  LinesInv'
<1>1. LevelsFound'
  BY LevelCallStep
<1>2. emitControl' = emitControl
  BY DEF CallLevels
<1> QED BY <1>1, <1>2 DEF LinesInv

LEMMA InvLaysOut ==
  ASSUME LinesInv
  PROVE  LinesLaidOut
<1> DEFINE c == emitControl
<1>1. c \in LineControls /\ LeaderKept(c) /\ ReadTo(c) /\ NoEnds(c.given) /\ LevelsFound
  BY DEF LinesInv
<1>2. LinesWhole
  <2>1. c.at_end => c.given # <<>> /\ JoinLines(c.given) = c.line_buffer
    BY <1>1 DEF ReadTo
  <2> QED BY <1>1, <2>1 DEF LinesWhole, NoEnds
<1>3. LeaderInPlace
  <2> DEFINE leader == c.line_leader
             tid    == Length_TimeSpec + LogLevelTextMaxLength + 2
  <2>1. /\ Length_TimeSpec \in Nat /\ TidWidth \in Nat /\ LeaderEnd = Length_TimeSpec + TidWidth + 14
        /\ LogLineLeaderLength + 1 = LeaderEnd /\ LogLevelTextMaxLength = 9
    BY LeaderLength DEF LeaderEnd
  <2>2. leader \in [1 .. LeaderEnd -> Columns] /\ LeaderEnd \in Nat
    BY <1>1, <2>1, ControlTyped
  <2>3. Len(leader) = LogLineLeaderLength + 1
    BY <2>1, <2>2, FunctionIsText
  <2>4. tid = Length_TimeSpec + 11 /\ LogLineLeaderLength = LeaderEnd - 1
    <3>1. LogLineLeaderLength = Length_TimeSpec + TidWidth + 13
      BY <2>1 DEF LogLineLeaderLength
    <3>2. tid = Length_TimeSpec + 11
      BY <2>1
    <3>3. LeaderEnd - 1 = Length_TimeSpec + TidWidth + 13
      BY <2>1
    <3> QED BY <3>1, <3>2, <3>3
  <2> HIDE DEF leader, tid, c
  <2>5. ASSUME leader[LogLineLeaderLength + 1] = "nul"
        PROVE  /\ \A i \in 1 .. LogLineLeaderLength :
                    leader[i] = "unset" =>
                      ~c.updated \/ (i = Length_TimeSpec + 1 /\ "LogZeroTime" \in c.log_flags)
               /\ leader[tid + TidWidth] = "digit"
               /\ leader[tid + TidWidth + 1] = "colon"
               /\ \A i, j \in tid + 1 .. tid + TidWidth :
                    leader[i] = "digit" /\ i < j => leader[j] = "digit"
    <3>1. /\ WellFormed(leader)
          /\ c.updated => \A i \in 1 .. Length_TimeSpec : leader[i] # "unset"
          /\ c.updated /\ "LogZeroTime" \notin c.log_flags => leader[Length_TimeSpec + 1] # "unset"
      BY <1>1, <2>1, <2>5 DEF LeaderKept, leader
    <3>2. \A i \in Length_TimeSpec + 2 .. LeaderEnd : leader[i] # "unset"
      BY <3>1 DEF WellFormed
    <3>3. ASSUME NEW i \in 1 .. LogLineLeaderLength, leader[i] = "unset", c.updated
          PROVE  i = Length_TimeSpec + 1 /\ "LogZeroTime" \in c.log_flags
      <4>1. i \notin Length_TimeSpec + 2 .. LeaderEnd
        BY <3>2, <3>3
      <4>2. i \notin 1 .. Length_TimeSpec
        BY <3>1, <3>3
      <4>3. i = Length_TimeSpec + 1
        <5>1. PICK start \in Nat, end \in Nat :
                start = Length_TimeSpec /\ end = LeaderEnd /\ i \in 1 .. end - 1
          BY <2>1, <2>2, <2>4
        <5>2. i \notin start + 2 .. end /\ i \notin 1 .. start
          BY <4>1, <4>2, <5>1
        <5> QED BY <5>1, <5>2
      <4> QED BY <3>1, <3>3, <4>3
    <3>4. PICK digits \in 1 .. TidWidth :
            /\ \A i \in 1 .. TidWidth - digits : leader[Length_TimeSpec + 11 + i] = "blank"
            /\ \A i \in 1 .. digits : leader[Length_TimeSpec + 11 + (TidWidth - digits) + i] = "digit"
      BY <3>1 DEF WellFormed
    <3>5. ASSUME NEW j \in tid + 1 .. tid + TidWidth, tid + (TidWidth - digits) < j
          PROVE  leader[j] = "digit"
      <4>1. PICK i \in 1 .. digits : j = Length_TimeSpec + 11 + (TidWidth - digits) + i
        <5>1. j - (tid + (TidWidth - digits)) \in 1 .. digits
          BY <2>1, <2>4, <3>5
        <5>2. j = Length_TimeSpec + 11 + (TidWidth - digits) + (j - (tid + (TidWidth - digits)))
          BY <2>1, <2>4
        <5> QED BY <5>1, <5>2
      <4> QED BY <3>4, <4>1
    <3>6. ASSUME NEW i \in tid + 1 .. tid + TidWidth, leader[i] = "digit"
          PROVE  tid + (TidWidth - digits) < i
      <4> SUFFICES ASSUME ~(tid + (TidWidth - digits) < i) PROVE FALSE
        OBVIOUS
      <4>1. PICK k \in 1 .. TidWidth - digits : i = Length_TimeSpec + 11 + k
        <5>1. i - tid \in 1 .. TidWidth - digits /\ i = Length_TimeSpec + 11 + (i - tid)
          BY <2>1, <2>4
        <5> QED BY <5>1
      <4>2. leader[i] = "blank"
        BY <3>4, <4>1
      <4> QED BY <3>6, <4>2
    <3>7. leader[tid + TidWidth] = "digit"
      <4>1. tid + TidWidth \in tid + 1 .. tid + TidWidth /\ tid + (TidWidth - digits) < tid + TidWidth
        BY <2>1, <2>4
      <4> QED BY <3>5, <4>1
    <3>8. leader[tid + TidWidth + 1] = "colon"
      <4>1. tid + TidWidth + 1 = Length_TimeSpec + TidWidth + 12
        BY <2>1, <2>4
      <4> QED BY <3>1, <4>1 DEF WellFormed
    <3>9. ASSUME NEW i \in tid + 1 .. tid + TidWidth, NEW j \in tid + 1 .. tid + TidWidth,
                 leader[i] = "digit", i < j
          PROVE  leader[j] = "digit"
      <4>1. tid + (TidWidth - digits) < i
        BY <3>6, <3>9
      <4>2. tid + (TidWidth - digits) < j
        BY <2>1, <2>4, <3>9, <4>1
      <4> QED BY <3>5, <4>2
    <3> QED BY <3>3, <3>7, <3>8, <3>9
  <2> QED BY <2>3, <2>5 DEF LeaderInPlace, leader, tid, c
<1> QED BY <1>1, <1>2, <1>3 DEF LinesLaidOut

\* For every text, leader and level: the lines that handlers are given are the text
\* again, as often as they begin again (GetNextLine, LogEmitControl.cpp:113), a leader that
\* has got its time has its columns in their places (:154), and the functions of
\* LogLevel.cpp find the levels of every set of flags (:143).
THEOREM LinesAreLaidOut == LineSpec => []LinesLaidOut
<1>1. LineInit => LinesInv
  BY LinesStart
<1>2. LinesInv /\ [LineNext]_lineVars => LinesInv'
  <2> SUFFICES ASSUME LinesInv, [LineNext]_lineVars PROVE LinesInv'
    OBVIOUS
  <2>1. CASE CallLevels
    BY <2>1, LevelsStep
  <2>2. CASE UseEmitControl
    BY <2>2, UseStep
  <2>3. CASE UNCHANGED lineVars
    <3>1. emitControl' = emitControl /\ levelCall' = levelCall
      BY <2>3 DEF lineVars
    <3>2. LevelsFound'
      BY <3>1 DEF LinesInv, LevelsFound
    <3> QED BY <3>1, <3>2 DEF LinesInv
  <2> QED BY <2>1, <2>2, <2>3 DEF LineNext
<1>3. LinesInv => LinesLaidOut
  BY InvLaysOut
<1> QED BY <1>1, <1>2, <1>3, PTL DEF LineSpec

=============================================================================
