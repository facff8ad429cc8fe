--------------------------- MODULE MFStoreSection ---------------------------
(***************************************************************************)
(* The section list of a file store: which part of the file each array of  *)
(* elements has.  Sections are appended, an application changes their      *)
(* element counts, the list is fixed up, and it is checked before use.     *)
(*                                                                         *)
(* Abstractions.                                                           *)
(*  - Offsets and lengths are uint64_t: arithmetic is modulo Limit.        *)
(*  - Flags and the reserved field are not interpreted by the code; of a   *)
(*    description only its length is kept.                                 *)
(*  - Indexes of sections start at 1 in the list and at 0 in the sections. *)
(***************************************************************************)
EXTENDS GranularRound, Sequences

CONSTANTS
  MaxElementValue,   \* MFStoreSection::MaxElementValue
  MFStoreAllocGran,
  Limit,             \* 2^64
  Elements,          \* pairs of element size and count that an application uses
  Grans,             \* storage granularities it passes
  Descriptions,      \* the lengths of descriptions it gives
  MaxDescriptionLength,
  SectionSize,       \* sizeof(MFStoreSection)
  MaxSections        \* bound: sections of a list

\* The largest granule in use leaves the arithmetic of one section without overflow.
ASSUME SectionAssumption ==
  /\ MaxElementValue \in Nat \ {0}
  /\ MFStoreAllocGran \in Nat \ {0}
  /\ Limit \in Nat \ {0} /\ Limit % 2 = 0
  /\ Elements \subseteq Nat \X Nat
  /\ Grans \subseteq Nat
  /\ \A g \in Grans :
       2 * (MaxElementValue * MaxElementValue + g + MFStoreAllocGran) <= Limit
  /\ Descriptions \subseteq Nat /\ MaxDescriptionLength \in Nat
  /\ SectionSize \in Nat
  /\ MaxSections \in Nat

VARIABLE section_list

\* fallocate() refuses a greater length: an off_t is signed.
MaxFileSize == Limit \div 2

\* The storage granularity that a given one is made to.
FixUpStorageGran(store_gran) ==
  IF store_gran < MFStoreAllocGran THEN MFStoreAllocGran
  ELSE GranularRoundUp(store_gran, MFStoreAllocGran)

\* A section as an application builds it, for AppendSection to complete.
NewSection(element, description) ==
  [index |-> 0, size |-> element[1], count |-> element[2],
   offset |-> 0, actual |-> 0, padded |-> 0, description |-> description]

\* The constructor throws for a longer one, and also for one that would just fit.
SetDescriptionAllows(description) == description < MaxDescriptionLength

CalcNextOffset(section) == (section.offset + section.padded) % Limit
CalcLengthUsed(section) == (section.size * section.count) % Limit
CalcLengthGran(section, gran) ==
  GranularRoundUp(section.actual, FixUpStorageGran(gran)) % Limit

CheckElementInfo(section) ==
  section.size \in 1 .. MaxElementValue /\ section.count \in 1 .. MaxElementValue

-----------------------------------------------------------------------------
(* Operations.                                                             *)

\* The offset comes from the list and the actual length from the elements, but the
\* padded length comes from the actual length that the argument had.
AppendSection(src, gran) ==
  LET n == Len(section_list)
      new == [src EXCEPT !.index  = n,
                         !.offset = IF n = 0 THEN 0 ELSE CalcNextOffset(section_list[n]),
                         !.actual = CalcLengthUsed(src),
                         !.padded = CalcLengthGran(src, gran)]
  IN  /\ n < MaxSections
      /\ CheckElementInfo(src)
      /\ section_list' = Append(section_list, new)

\* Mistake: the padded length is made before the actual one is.
WithLengths_Swapped(section, gran) ==
  [section EXCEPT !.padded = CalcLengthGran(section, gran), !.actual = CalcLengthUsed(section)]

\* A section with the lengths that its elements need.
WithLengths(section, gran) ==
  LET used == [section EXCEPT !.actual = CalcLengthUsed(section)]
  IN  [used EXCEPT !.padded = CalcLengthGran(used, gran)]

\* The loop of FixupSectionList over the first n sections: each of them takes its
\* offset from the one before it, which has been fixed already.
FixedUp(list, gran, n) ==
  LET fixed[i \in 1 .. n] ==
        [WithLengths(list[i], gran) EXCEPT
           !.index  = i - 1,
           !.offset = IF i = 1 THEN 0 ELSE CalcNextOffset(fixed[i - 1])]
  IN  [i \in DOMAIN list |-> IF i <= n THEN fixed[i] ELSE list[i]]

AllElementsValid == \A i \in DOMAIN section_list : CheckElementInfo(section_list[i])

FixupSectionList(gran) ==
  /\ section_list # << >> /\ AllElementsValid
  /\ section_list' = FixedUp(section_list, gran, Len(section_list))

\* The exception leaves the loop at the first bad section, with those before it fixed.
FixupThrows(gran) ==
  \E n \in 1 .. Len(section_list) :
    /\ ~CheckElementInfo(section_list[n])
    /\ \A i \in 1 .. n - 1 : CheckElementInfo(section_list[i])
    /\ section_list' = FixedUp(section_list, gran, n - 1)

\* An application gives a section of the list other elements: the fields are public.
SetElements(i, element) ==
  section_list' = [section_list EXCEPT ![i].size = element[1], ![i].count = element[2]]

-----------------------------------------------------------------------------
(* Checks.                                                                 *)

\* Mistake: only the start of a section is compared with the size of the file.
CheckExtent_Start(file_size, offset, length) == offset < file_size

\* CheckExtent, with the sum of 64 bits.
CheckExtent(file_size, offset, length) ==
  /\ offset < file_size
  /\ length = 0 \/ (offset + length) % Limit <= file_size

\* What CheckSectionList accepts; without a file size when that is 0.
CheckSectionList(list, gran, file_size) ==
  /\ list # << >>
  /\ \A i \in DOMAIN list :
       /\ CheckElementInfo(list[i])
       /\ list[i].index = i - 1
       /\ list[i].offset = IF i = 1 THEN 0 ELSE CalcNextOffset(list[i - 1])
       /\ list[i].actual = CalcLengthUsed(list[i])
       /\ list[i].padded = CalcLengthGran(list[i], gran)
       /\ list[i].description > 0
       /\ file_size # 0 => CheckExtent(file_size, list[i].offset, list[i].padded)

\* CheckSectionList for a list that is to be stored in one of its own sections,
\* with an index from 0.
CheckSectionListAt(section_list_index, list, gran) ==
  /\ CheckSectionList(list, gran, 0)
  /\ section_list_index < Len(list)
  /\ list[section_list_index + 1].size = SectionSize
  /\ list[section_list_index + 1].count = Len(list)

\* The total that ToStreamTabular shows.
TotalPaddedLength(list) ==
  LET total[i \in 0 .. Len(list)] ==
        IF i = 0 THEN 0 ELSE (total[i - 1] + list[i].padded) % Limit
  IN  total[Len(list)]

\* CheckFileSize, for the size of a store that is created.
CheckFileSize(file_size, gran) ==
  /\ gran # 0 /\ gran % MFStoreAllocGran = 0
  /\ file_size # 0 /\ file_size % gran = 0

-----------------------------------------------------------------------------
SectionInit == section_list = << >>

SectionNext ==
  \/ \E element \in Elements, g \in Grans, d \in Descriptions :
       SetDescriptionAllows(d) /\ AppendSection(NewSection(element, d), g)
  \* A copy of a section that is in a list already.
  \/ \E i \in DOMAIN section_list, g \in Grans : AppendSection(section_list[i], g)
  \/ \E g \in Grans : FixupSectionList(g) \/ FixupThrows(g)
  \/ \E i \in DOMAIN section_list, element \in Elements : SetElements(i, element)

SectionSpec == SectionInit /\ [][SectionNext]_section_list

-----------------------------------------------------------------------------
(* Properties.                                                             *)

\* The list is a sequence of sections whose fields have 64 bits.
SectionTypeOK ==
  /\ section_list \in Seq([index : 0 .. MaxSections - 1, size : Nat, count : Nat,
                           offset : 0 .. Limit - 1, actual : 0 .. Limit - 1,
                           padded : 0 .. Limit - 1,
                           description : 0 .. MaxDescriptionLength - 1])
  /\ Len(section_list) <= MaxSections

\* Sections that lie one behind the other in a file, each long enough for its elements;
\* the numbers here are not cut to 64 bits.
Layout(list, file_size) ==
  \A i \in DOMAIN list :
    /\ list[i].size * list[i].count <= list[i].padded
    /\ list[i].offset + list[i].padded <= file_size
    /\ \A j \in 1 .. i - 1 : list[j].offset + list[j].padded <= list[i].offset

\* The end of the last section, as the programs that create a store calculate its size.
EndOfSections(list) == list[Len(list)].offset + list[Len(list)].padded

\* A list that CheckSectionList accepts for a file is a layout of that file: no two
\* sections share a byte and none passes the end, although every sum that the check
\* makes can wrap around; whatever has been done to the list before.  The total of its
\* table is then where it ends, and a section that is accepted for the list itself
\* has room for it.
AcceptedIsLayout ==
  \A g \in Grans :
    /\ \A file_size \in 1 .. MaxFileSize :
         CheckSectionList(section_list, g, file_size) =>
           /\ Layout(section_list, file_size)
           /\ TotalPaddedLength(section_list) = EndOfSections(section_list)
    /\ \A i \in 0 .. MaxSections :
         CheckSectionListAt(i, section_list, g) =>
           SectionSize * Len(section_list) <= section_list[i + 1].padded

\* FixupSectionList repairs every list whose elements are valid and described: CheckSectionList
\* accepts the result with the same granularity, also for a file that ends where the
\* last section ends, and CreateMFStore accepts that size.
FixupIsAccepted ==
  [][\A g \in Grans :
       FixupSectionList(g) /\ (\A i \in DOMAIN section_list : section_list[i].description > 0) =>
         LET end == EndOfSections(section_list')
         IN  /\ CheckSectionList(section_list', g, 0)
             /\ end <= MaxFileSize /\ Layout(section_list', end)
                  => /\ CheckSectionList(section_list', g, end)
                     /\ CheckFileSize(end, FixUpStorageGran(g))]_section_list
=============================================================================
