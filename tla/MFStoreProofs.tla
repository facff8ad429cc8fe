---------------------------- MODULE MFStoreProofs ----------------------------
(***************************************************************************)
(* Proofs about the section lists and the controls of file stores, for     *)
(* every number of sections, elements and controls, every granule and      *)
(* every width of the integers.                                            *)
(*                                                                         *)
(* Lists: each section that was checked begins where the one before it     *)
(* ends (Adjacent), and its lengths fit its elements (LengthsFit); that    *)
(* sections apart from each other do not meet is an induction over the     *)
(* list, and what the loop of FixupSectionList leaves is one over its      *)
(* steps (NumberInduction).                                                *)
(*                                                                         *)
(* Controls: that a writer's lock is kept is inductive together with which *)
(* mappings are open, that copies of a control are in one process, and     *)
(* that each control's size was that of the file once (ControlsInv).       *)
(***************************************************************************)
EXTENDS MFStoreControls, NumberProofs

\* The granule leaves room for the arithmetic of one section.
GranFits(gran) ==
  /\ gran \in Nat
  /\ 2 * (MaxElementValue * MaxElementValue + FixUpStorageGran(gran)) <= Limit

MultipleOf(n, g) == \E k \in Nat : n = k * g

-----------------------------------------------------------------------------
(* Granules and sizes.                                                     *)

\* A storage granularity is made to a number of the basic ones.
LEMMA StoreGran ==
  ASSUME NEW gran \in Nat
  PROVE  /\ FixUpStorageGran(gran) \in Nat \ {0}
         /\ gran <= FixUpStorageGran(gran)
         /\ FixUpStorageGran(gran) <= gran + MFStoreAllocGran
         /\ FixUpStorageGran(gran) % MFStoreAllocGran = 0
<1>1. MFStoreAllocGran \in Nat \ {0}
  BY SectionAssumption
<1>2. CASE gran < MFStoreAllocGran
  <2>1. FixUpStorageGran(gran) = MFStoreAllocGran
    BY <1>2 DEF FixUpStorageGran
  <2>2. MFStoreAllocGran = 1 * MFStoreAllocGran
    BY <1>1
  <2>3. MFStoreAllocGran % MFStoreAllocGran = 0
    BY <1>1, <2>2, MultipleMod
  <2> QED BY <1>1, <1>2, <2>1, <2>3
<1>3. CASE ~(gran < MFStoreAllocGran)
  <2>1. FixUpStorageGran(gran) = GranularRoundUp(gran, MFStoreAllocGran)
    BY <1>3 DEF FixUpStorageGran
  <2>2. /\ GranularRoundUp(gran, MFStoreAllocGran) \in Nat
        /\ gran <= GranularRoundUp(gran, MFStoreAllocGran)
        /\ GranularRoundUp(gran, MFStoreAllocGran) <= gran + MFStoreAllocGran
        /\ MFStoreAllocGran <= GranularRoundUp(gran, MFStoreAllocGran)
    BY <1>1, RoundUpBounds
  <2>3. GranularRoundUp(gran, MFStoreAllocGran) % MFStoreAllocGran = 0
    BY <1>1, <2>2, RoundMultiple, MultipleMod
  <2> QED BY <1>1, <2>1, <2>2, <2>3
<1> QED BY <1>2, <1>3

\* One that is in order is left alone.
LEMMA StoreGranSame ==
  ASSUME NEW gran \in Nat \ {0}, gran % MFStoreAllocGran = 0
  PROVE  FixUpStorageGran(gran) = gran
<1>1. MFStoreAllocGran \in Nat \ {0}
  BY SectionAssumption
<1>2. ~(gran < MFStoreAllocGran)
  BY <1>1, SmallMod
<1>3. GranularRoundUp(gran, MFStoreAllocGran) = gran
  <2>1. GranularRoundDown(gran, MFStoreAllocGran) = gran
    BY <1>1, RoundDownBounds
  <2> QED BY <2>1 DEF GranularRoundUp
<1> QED BY <1>2, <1>3 DEF FixUpStorageGran

\* SectionAssumption and ControlsAssumption say this of the granules in use, and it is still
\* so for what they are made to.
LEMMA GransFit ==
  ASSUME NEW gran \in Nat,
         2 * (MaxElementValue * MaxElementValue + gran + MFStoreAllocGran) <= Limit
  PROVE  GranFits(gran) /\ GranFits(FixUpStorageGran(gran))
<1> DEFINE m == MaxElementValue * MaxElementValue
           g == FixUpStorageGran(gran)
<1>1. g \in Nat \ {0} /\ g <= gran + MFStoreAllocGran /\ g % MFStoreAllocGran = 0
  BY StoreGran
<1>2. FixUpStorageGran(g) = g
  BY <1>1, StoreGranSame
<1>3. 2 * (m + g) <= Limit
  <2>1. MFStoreAllocGran \in Nat /\ Limit \in Nat /\ m \in Nat
    BY SectionAssumption
  <2>2. 2 * (m + gran + MFStoreAllocGran) <= Limit
    OBVIOUS
  <2> HIDE DEF m, g
  <2> QED BY <1>1, <2>1, <2>2
<1> QED BY <1>1, <1>2, <1>3 DEF GranFits

LEMMA HalfLimit == MaxFileSize \in Nat /\ 2 * MaxFileSize = Limit
<1>1. Limit \in Nat /\ Limit % 2 = 0
  BY SectionAssumption
<1> QED BY <1>1 DEF MaxFileSize

\* The lengths of one section are not cut to their 64 bits.
LEMMA ElementLengths ==
  ASSUME NEW gran, GranFits(gran), NEW section, CheckElementInfo(section),
         section.actual = CalcLengthUsed(section),
         section.padded = CalcLengthGran(section, gran)
  PROVE  /\ section.actual = section.size * section.count
         /\ section.actual \in Nat \ {0}
         /\ section.padded \in Nat
         /\ section.actual <= section.padded
         /\ 2 * section.padded <= Limit
         /\ MultipleOf(section.padded, FixUpStorageGran(gran))
<1> DEFINE m == MaxElementValue * MaxElementValue
           g == FixUpStorageGran(gran)
           used == section.size * section.count
           up == GranularRoundUp(used, g)
<1>1. MaxElementValue \in Nat \ {0} /\ Limit \in Nat \ {0} /\ m \in Nat
  BY SectionAssumption
<1>2. g \in Nat \ {0} /\ 2 * (m + g) <= Limit
  BY StoreGran DEF GranFits
<1>3. used \in Nat \ {0} /\ used <= m
  <2>1. /\ section.size \in Nat /\ section.count \in Nat
        /\ 1 <= section.size /\ section.size <= MaxElementValue
        /\ 1 <= section.count /\ section.count <= MaxElementValue
    BY <1>1 DEF CheckElementInfo
  <2>2. used \in Nat /\ used <= m
    BY <1>1, <2>1, ProductBounds
  <2>3. 1 * 1 <= used
    BY <2>1, ProductBounds
  <2> QED BY <2>2, <2>3
<1> HIDE DEF m, g, used
<1>4. section.actual = used
  <2>1. used < Limit
    BY <1>1, <1>2, <1>3
  <2> QED BY <1>1, <1>3, <2>1, SmallMod DEF CalcLengthUsed, used
<1>5. up \in Nat /\ used <= up /\ up <= used + g
  BY <1>2, <1>3, RoundUpBounds
<1>6. MultipleOf(up, g)
  BY <1>2, <1>3, RoundMultiple DEF MultipleOf
<1> HIDE DEF up
<1>7. 2 * up <= Limit /\ up < Limit
  BY <1>1, <1>2, <1>3, <1>5
<1>8. section.padded = up
  <2>1. section.padded = up % Limit
    BY <1>4 DEF CalcLengthGran, g, up
  <2> QED BY <1>1, <1>5, <1>7, <2>1, SmallMod
<1> QED BY <1>3, <1>4, <1>5, <1>6, <1>7, <1>8 DEF g, used

-----------------------------------------------------------------------------
(* Lists.                                                                  *)

\* The sections of SectionTypeOK.
Sections ==
  [index : 0 .. MaxSections - 1, size : Nat, count : Nat, offset : 0 .. Limit - 1,
   actual : 0 .. Limit - 1, padded : 0 .. Limit - 1, description : 0 .. MaxDescriptionLength - 1]

\* Each section starts where the one before it ends, and no number is cut.
Adjacent(list) ==
  \A i \in DOMAIN list :
    list[i].offset = IF i = 1 THEN 0 ELSE list[i - 1].offset + list[i - 1].padded

\* The lengths of the sections are those that their elements need.
LengthsFit(list, gran) ==
  \A i \in DOMAIN list :
    /\ list[i].actual = list[i].size * list[i].count
    /\ 0 < list[i].actual /\ list[i].actual <= list[i].padded
    /\ 2 * list[i].padded <= Limit
    /\ MultipleOf(list[i].padded, FixUpStorageGran(gran))

LEMMA SectionTypes ==
  ASSUME NEW list \in Seq(Sections)
  PROVE  /\ Len(list) \in Nat /\ DOMAIN list = 1 .. Len(list)
         /\ \A i \in DOMAIN list :
              /\ list[i] \in Sections
              /\ list[i].size \in Nat /\ list[i].count \in Nat /\ list[i].index \in Nat
              /\ list[i].offset \in Nat /\ list[i].actual \in Nat /\ list[i].padded \in Nat
              /\ list[i].description \in Nat
<1>1. Len(list) \in Nat /\ DOMAIN list = 1 .. Len(list) /\ \A i \in DOMAIN list : list[i] \in Sections
  OBVIOUS
<1>2. \A m \in Nat : 0 .. m - 1 \subseteq Nat
  OBVIOUS
<1>3. /\ 0 .. Limit - 1 \subseteq Nat /\ 0 .. MaxSections - 1 \subseteq Nat
      /\ 0 .. MaxDescriptionLength - 1 \subseteq Nat
  BY <1>2, SectionAssumption
<1>4. Sections \subseteq [index : Nat, size : Nat, count : Nat, offset : Nat, actual : Nat,
                         padded : Nat, description : Nat]
  BY <1>3 DEF Sections
<1> QED BY <1>1, <1>4

LEMMA SumsOrdered ==
  ASSUME NEW a \in Nat, NEW b \in Nat, NEW c \in Nat, NEW d \in Nat, a + b <= c
  PROVE  a + b <= c + d
OBVIOUS

LEMMA NotCut ==
  ASSUME NEW a \in Nat, NEW b \in Nat, a + b < Limit PROVE (a + b) % Limit = a + b
BY SectionAssumption, SmallMod

\* Adjacent sections lie one behind the other.
LEMMA AdjacentOrdered ==
  ASSUME NEW list \in Seq(Sections), Adjacent(list)
  PROVE  \A i \in DOMAIN list : \A j \in 1 .. i - 1 :
           list[j].offset + list[j].padded <= list[i].offset
<1> DEFINE S == {i \in Nat : i \in DOMAIN list => \A j \in 1 .. i - 1 :
                   list[j].offset + list[j].padded <= list[i].offset}
<1>1. Len(list) \in Nat /\ DOMAIN list = 1 .. Len(list)
  BY SectionTypes
<1>2. 0 \in S
  BY <1>1
<1>3. ASSUME NEW i \in S \cap Nat PROVE i + 1 \in S
  <2> SUFFICES ASSUME i + 1 \in DOMAIN list, NEW j \in 1 .. i
               PROVE  list[j].offset + list[j].padded <= list[i + 1].offset
    OBVIOUS
  <2>1. i \in DOMAIN list /\ j \in DOMAIN list
    BY <1>1
  <2>2. list[i + 1].offset = list[i].offset + list[i].padded
    <3>1. i + 1 # 1 /\ (i + 1) - 1 = i
      BY <1>1, <2>1
    <3> QED BY <3>1 DEF Adjacent
  <2>3. /\ list[i].offset \in Nat /\ list[i].padded \in Nat
        /\ list[j].offset \in Nat /\ list[j].padded \in Nat
    BY <2>1, SectionTypes
  <2>4. CASE j = i
    BY <2>2, <2>3, <2>4
  <2>5. CASE j # i
    <3>1. j \in 1 .. i - 1
      BY <2>5
    <3>2. list[j].offset + list[j].padded <= list[i].offset
      BY <2>1, <3>1
    <3> QED BY <2>2, <2>3, <3>2, SumsOrdered
  <2> QED BY <2>4, <2>5
<1> HIDE DEF S
<1>4. Nat \subseteq S
  BY <1>2, <1>3, NumberInduction
<1> QED BY <1>1, <1>4 DEF S

LEMMA AdjacentLayout ==
  ASSUME NEW list \in Seq(Sections), Adjacent(list), NEW gran, LengthsFit(list, gran),
         NEW file_size \in Nat,
         \A i \in DOMAIN list : list[i].offset + list[i].padded <= file_size
  PROVE  Layout(list, file_size)
BY AdjacentOrdered DEF LengthsFit, Layout

LEMMA ListLengthsFit ==
  ASSUME NEW list, NEW gran, GranFits(gran),
         \A i \in DOMAIN list :
           /\ CheckElementInfo(list[i])
           /\ list[i].actual = CalcLengthUsed(list[i])
           /\ list[i].padded = CalcLengthGran(list[i], gran)
  PROVE  LengthsFit(list, gran)
<1> SUFFICES ASSUME NEW i \in DOMAIN list
             PROVE  /\ list[i].actual = list[i].size * list[i].count
                    /\ 0 < list[i].actual /\ list[i].actual <= list[i].padded
                    /\ 2 * list[i].padded <= Limit
                    /\ MultipleOf(list[i].padded, FixUpStorageGran(gran))
  BY DEF LengthsFit
<1> DEFINE s == list[i]
<1>1. /\ CheckElementInfo(s) /\ s.actual = CalcLengthUsed(s)
      /\ s.padded = CalcLengthGran(s, gran)
  OBVIOUS
<1> HIDE DEF s
<1>2. /\ s.actual = s.size * s.count /\ s.actual \in Nat \ {0} /\ s.actual <= s.padded
      /\ 2 * s.padded <= Limit /\ MultipleOf(s.padded, FixUpStorageGran(gran))
  BY <1>1, ElementLengths
<1> QED BY <1>2 DEF s

\* What CheckSectionList accepts for a file is adjacent and lies in the file: no section
\* is longer than half of the range of the integers, and nor is the file.
LEMMA AcceptedAdjacent ==
  ASSUME NEW list \in Seq(Sections), NEW gran, GranFits(gran),
         NEW file_size \in 1 .. MaxFileSize, CheckSectionList(list, gran, file_size)
  PROVE  /\ LengthsFit(list, gran)
         /\ Adjacent(list)
         /\ \A i \in DOMAIN list : list[i].offset + list[i].padded <= file_size
<1>1. LengthsFit(list, gran)
  BY ListLengthsFit DEF CheckSectionList
<1>2. Limit \in Nat \ {0} /\ file_size \in Nat /\ file_size # 0 /\ 2 * file_size <= Limit
  BY SectionAssumption, HalfLimit
<1>3. ASSUME NEW i \in DOMAIN list
      PROVE  /\ list[i].offset + list[i].padded \in Nat
             /\ list[i].offset + list[i].padded < Limit
             /\ list[i].offset + list[i].padded <= file_size
  <2>1. CheckExtent(file_size, list[i].offset, list[i].padded)
    BY <1>2 DEF CheckSectionList
  <2>2. list[i].offset \in Nat /\ list[i].padded \in Nat
    BY SectionTypes
  <2>3. 2 * list[i].padded <= Limit /\ list[i].padded # 0
    BY <1>1, SectionTypes DEF LengthsFit
  <2>4. list[i].offset < file_size /\ (list[i].offset + list[i].padded) % Limit <= file_size
    BY <2>1, <2>3 DEF CheckExtent
  <2>5. list[i].offset + list[i].padded < Limit
    BY <1>2, <2>2, <2>3, <2>4
  <2>6. (list[i].offset + list[i].padded) % Limit = list[i].offset + list[i].padded
    BY <1>2, <2>2, <2>5, SmallMod
  <2> QED BY <2>2, <2>4, <2>5, <2>6
<1>4. ASSUME NEW i \in DOMAIN list
      PROVE  list[i].offset = IF i = 1 THEN 0 ELSE list[i - 1].offset + list[i - 1].padded
  <2>1. list[i].offset = IF i = 1 THEN 0 ELSE CalcNextOffset(list[i - 1])
    BY DEF CheckSectionList
  <2>2. CASE i # 1
    <3>1. i - 1 \in DOMAIN list
      BY <2>2, SectionTypes
    <3>2. /\ list[i - 1].offset + list[i - 1].padded \in Nat
          /\ list[i - 1].offset + list[i - 1].padded < Limit
      BY <1>3, <3>1
    <3> QED BY <1>2, <2>1, <2>2, <3>2, SmallMod DEF CalcNextOffset
  <2> QED BY <2>1, <2>2
<1> QED BY <1>1, <1>3, <1>4 DEF Adjacent

\* The loop that adds up the padded lengths: its sums are the ends of the sections.
LEMMA AdjacentTotal ==
  ASSUME NEW list \in Seq(Sections), list # << >>, Adjacent(list),
         \A i \in DOMAIN list : list[i].offset + list[i].padded < Limit
  PROVE  TotalPaddedLength(list) = EndOfSections(list)
<1> DEFINE n == Len(list)
           Loop(f) == [i \in 0 .. n |-> IF i = 0 THEN 0 ELSE (f[i - 1] + list[i].padded) % Limit]
           end == [i \in 0 .. n |-> IF i = 0 THEN 0 ELSE list[i].offset + list[i].padded]
           total == CHOOSE f : f = Loop(f)
<1>1. n \in Nat \ {0} /\ DOMAIN list = 1 .. n
  BY SectionTypes
<1>2. Limit \in Nat \ {0}
  BY SectionAssumption
<1>3. ASSUME NEW i \in 1 .. n
      PROVE  (end[i - 1] + list[i].padded) % Limit = end[i]
  <2>1. end[i - 1] = list[i].offset
    <3>1. list[i].offset = IF i = 1 THEN 0 ELSE list[i - 1].offset + list[i - 1].padded
      BY <1>1 DEF Adjacent
    <3>2. i - 1 \in 0 .. n /\ (i - 1 = 0 <=> i = 1)
      BY <1>1
    <3> QED BY <3>1, <3>2
  <2>2. list[i].offset \in Nat /\ list[i].padded \in Nat
    BY <1>1, SectionTypes
  <2>3. list[i].offset + list[i].padded < Limit
    BY <1>1
  <2>4. end[i] = list[i].offset + list[i].padded
    BY <1>1
  <2>5. (list[i].offset + list[i].padded) % Limit = list[i].offset + list[i].padded
    BY <2>2, <2>3, NotCut
  <2> HIDE DEF end
  <2> QED BY <2>1, <2>4, <2>5
<1>4. end = Loop(end)
  <2> HIDE DEF n
  <2>1. \A i \in 0 .. n : end[i] = Loop(end)[i]
    BY <1>1, <1>3
  <2> QED BY <2>1
<1> HIDE DEF end
<1>5. total = Loop(total)
  BY <1>4
<1>6. TotalPaddedLength(list) = total[n]
  BY DEF TotalPaddedLength
<1> HIDE DEF total
<1> DEFINE S == {i \in Nat : i <= n => total[i] = end[i]}
<1>7. 0 \in S
  <2>1. total[0] = 0 /\ end[0] = 0
    BY <1>1, <1>5 DEF end
  <2> QED BY <2>1
<1>8. ASSUME NEW i \in S \cap Nat PROVE i + 1 \in S
  <2> SUFFICES ASSUME i + 1 <= n PROVE total[i + 1] = end[i + 1]
    OBVIOUS
  <2>1. i + 1 \in 1 .. n /\ i <= n /\ (i + 1) - 1 = i /\ i + 1 \in 0 .. n /\ i + 1 # 0
    BY <1>1
  <2>2. total[i] = end[i]
    BY <2>1
  <2>3. total[i + 1] = (total[i] + list[i + 1].padded) % Limit
    BY <1>5, <2>1
  <2> HIDE DEF n
  <2> QED BY <1>3, <2>1, <2>2, <2>3
<1> HIDE DEF S
<1>9. Nat \subseteq S
  BY <1>7, <1>8, NumberInduction
<1>10. total[n] = end[n]
  BY <1>1, <1>9 DEF S
<1>11. end[n] = list[n].offset + list[n].padded
  BY <1>1 DEF end
<1> QED BY <1>6, <1>10, <1>11 DEF EndOfSections

-----------------------------------------------------------------------------
(* Types.                                                                  *)

LEMMA RangeZero == 0 \in 0 .. Limit - 1
BY SectionAssumption

LEMMA LengthTypes ==
  ASSUME NEW section \in Sections, NEW gran \in Nat
  PROVE  /\ CalcLengthUsed(section) \in 0 .. Limit - 1
         /\ CalcLengthGran(section, gran) \in 0 .. Limit - 1
         /\ CalcNextOffset(section) \in 0 .. Limit - 1
<1>1. Limit \in Nat \ {0}
  BY SectionAssumption
<1>2. /\ section.size \in Nat /\ section.count \in Nat /\ section.actual \in Nat
      /\ section.offset \in Nat /\ section.padded \in Nat
  BY <1>1 DEF Sections
<1>3. section.size * section.count \in Int
  BY <1>2
<1>4. GranularRoundUp(section.actual, FixUpStorageGran(gran)) \in Int
  <2> DEFINE actual == section.actual
             g == FixUpStorageGran(gran)
  <2>1. actual \in Nat /\ g \in Nat \ {0}
    BY <1>2, StoreGran
  <2> HIDE DEF actual, g
  <2>2. GranularRoundUp(actual, g) \in Nat
    BY <2>1, RoundUpBounds
  <2> QED BY <2>2 DEF actual, g
<1>5. section.offset + section.padded \in Int
  BY <1>2
<1> QED BY <1>1, <1>3, <1>4, <1>5, ModRange DEF CalcLengthUsed, CalcLengthGran, CalcNextOffset

LEMMA WithLengthsType ==
  ASSUME NEW section \in Sections, NEW gran \in Nat
  PROVE  /\ WithLengths(section, gran) \in Sections
         /\ WithLengths(section, gran).actual = CalcLengthUsed(section)
         /\ WithLengths(section, gran).padded = CalcLengthGran(WithLengths(section, gran), gran)
         /\ WithLengths(section, gran).size = section.size
         /\ WithLengths(section, gran).count = section.count
         /\ WithLengths(section, gran).description = section.description
<1> DEFINE used == [section EXCEPT !.actual = CalcLengthUsed(section)]
<1>1. used \in Sections /\ used.actual = CalcLengthUsed(section) /\ used.size = section.size
      /\ used.count = section.count /\ used.description = section.description
  BY LengthTypes DEF Sections
<1> HIDE DEF used
<1>2. CalcLengthGran(used, gran) \in 0 .. Limit - 1
  BY <1>1, LengthTypes
<1> DEFINE full == [used EXCEPT !.padded = CalcLengthGran(used, gran)]
<1>3. full \in Sections /\ full.actual = used.actual /\ full.padded = CalcLengthGran(used, gran)
      /\ full.size = used.size /\ full.count = used.count /\ full.description = used.description
  BY <1>1, <1>2 DEF Sections
<1>4. WithLengths(section, gran) = full
  BY DEF WithLengths, used
<1> HIDE DEF full
<1>5. CalcLengthGran(full, gran) = CalcLengthGran(used, gran)
  BY <1>3 DEF CalcLengthGran
<1> QED BY <1>1, <1>3, <1>4, <1>5

\* The list r is the list whose first n sections are fixed up, each after the one before it.
IsFixed(list, gran, n, r) ==
  /\ DOMAIN r = DOMAIN list
  /\ \A i \in 1 .. n :
       r[i] = [WithLengths(list[i], gran) EXCEPT
                 !.index  = i - 1,
                 !.offset = IF i = 1 THEN 0 ELSE CalcNextOffset(r[i - 1])]
  /\ \A i \in n + 1 .. Len(list) : r[i] = list[i]
  /\ r = [i \in 1 .. Len(list) |-> r[i]]

\* The loop of FixupSectionList.
LEMMA FixedUpList ==
  ASSUME NEW list \in Seq(Sections), NEW gran \in Nat, NEW n \in 0 .. Len(list)
  PROVE  IsFixed(list, gran, n, FixedUp(list, gran, n))
<1> DEFINE One(i, offset) == [WithLengths(list[i], gran) EXCEPT !.index = i - 1, !.offset = offset]
           Loop(m, f) == [i \in 1 .. m |-> One(i, IF i = 1 THEN 0 ELSE CalcNextOffset(f[i - 1]))]
           S == {m \in Nat : \E f : f = Loop(m, f)}
<1>1. 0 \in S
  <2>1. Loop(0, << >>) = << >>
    OBVIOUS
  <2> QED BY <2>1
<1>2. ASSUME NEW m \in S \cap Nat PROVE m + 1 \in S
  <2>1. PICK f : f = Loop(m, f)
    OBVIOUS
  <2> HIDE DEF One
  <2> DEFINE h == [i \in 1 .. m + 1 |-> IF i <= m THEN f[i]
                     ELSE One(i, IF i = 1 THEN 0 ELSE CalcNextOffset(f[i - 1]))]
  <2>2. ASSUME NEW i \in 1 .. m + 1
        PROVE  h[i] = One(i, IF i = 1 THEN 0 ELSE CalcNextOffset(h[i - 1]))
    <3>1. i # 1 => h[i - 1] = f[i - 1]
      <4> SUFFICES ASSUME i # 1 PROVE h[i - 1] = f[i - 1]
        OBVIOUS
      <4>1. i - 1 \in 1 .. m + 1 /\ i - 1 <= m
        OBVIOUS
      <4> QED BY <4>1
    <3>2. CASE i <= m
      <4>1. i \in 1 .. m /\ h[i] = f[i]
        BY <3>2
      <4>2. f[i] = One(i, IF i = 1 THEN 0 ELSE CalcNextOffset(f[i - 1]))
        BY <2>1, <4>1
      <4> QED BY <3>1, <4>1, <4>2
    <3>3. CASE ~(i <= m)
      BY <3>1, <3>3
    <3> QED BY <3>2, <3>3
  <2>3. h = Loop(m + 1, h)
    <3>1. h = [i \in 1 .. m + 1 |-> h[i]]
      OBVIOUS
    <3> HIDE DEF h
    <3> QED BY <2>2, <3>1
  <2>4. \E g : g = Loop(m + 1, g)
    BY <2>3
  <2>5. m + 1 \in Nat
    OBVIOUS
  <2> HIDE DEF h, Loop
  <2> QED BY <2>4, <2>5
<1>3. n \in S
  <2> HIDE DEF S
  <2>1. Nat \subseteq S
    BY <1>1, <1>2, NumberInduction
  <2> QED BY <2>1
<1> DEFINE fixed == CHOOSE f : f = Loop(n, f)
<1>4. fixed = Loop(n, fixed)
  BY <1>3
<1>5. FixedUp(list, gran, n) = [i \in DOMAIN list |-> IF i <= n THEN fixed[i] ELSE list[i]]
  BY DEF FixedUp
<1> HIDE DEF fixed, S
<1> DEFINE r == FixedUp(list, gran, n)
<1>6. DOMAIN list = 1 .. Len(list) /\ Len(list) \in Nat
  BY SectionTypes
<1>7. DOMAIN r = DOMAIN list /\ (\A i \in 1 .. n : r[i] = fixed[i])
      /\ (\A i \in n + 1 .. Len(list) : r[i] = list[i])
      /\ r = [i \in 1 .. Len(list) |-> r[i]]
  BY <1>5, <1>6
<1> HIDE DEF r
<1>8. ASSUME NEW i \in 1 .. n
      PROVE  r[i] = One(i, IF i = 1 THEN 0 ELSE CalcNextOffset(r[i - 1]))
  <2> HIDE DEF One
  <2>1. fixed[i] = One(i, IF i = 1 THEN 0 ELSE CalcNextOffset(fixed[i - 1]))
    BY <1>4
  <2>2. i # 1 => i - 1 \in 1 .. n
    OBVIOUS
  <2> QED BY <1>7, <2>1, <2>2
<1> QED BY <1>7, <1>8 DEF r, IsFixed

LEMMA FixedUpType ==
  ASSUME NEW list \in Seq(Sections), NEW gran \in Nat, NEW n \in 0 .. Len(list),
         Len(list) <= MaxSections
  PROVE  FixedUp(list, gran, n) \in Seq(Sections) /\ Len(FixedUp(list, gran, n)) = Len(list)
<1>r. PICK r : r = FixedUp(list, gran, n) /\ IsFixed(list, gran, n, r)
  BY FixedUpList
<1> DEFINE S == {i \in Nat : i \in DOMAIN list => r[i] \in Sections}
<1>1. /\ DOMAIN list = 1 .. Len(list) /\ Len(list) \in Nat
      /\ \A i \in DOMAIN list : list[i] \in Sections
  BY SectionTypes
<1>2. /\ DOMAIN r = DOMAIN list
      /\ \A i \in 1 .. n :
           r[i] = [WithLengths(list[i], gran) EXCEPT
                     !.index  = i - 1,
                     !.offset = IF i = 1 THEN 0 ELSE CalcNextOffset(r[i - 1])]
      /\ \A i \in n + 1 .. Len(list) : r[i] = list[i]
      /\ r = [i \in 1 .. Len(list) |-> r[i]]
  BY <1>r DEF IsFixed
<1>3. 0 \in S
  BY <1>1
<1>4. ASSUME NEW m \in S \cap Nat PROVE m + 1 \in S
  <2> SUFFICES ASSUME m + 1 \in DOMAIN list PROVE r[m + 1] \in Sections
    OBVIOUS
  <2>1. CASE m + 1 <= n
    <3> DEFINE i == m + 1
    <3>1. i \in 1 .. n /\ i \in DOMAIN list /\ i - 1 = m /\ (i # 1 => m \in DOMAIN list)
      BY <1>1, <2>1
    <3>2. i - 1 \in 0 .. MaxSections - 1
      <4>1. MaxSections \in Nat
        BY SectionAssumption
      <4> QED BY <1>1, <3>1, <4>1
    <3>3. i # 1 => r[i - 1] \in Sections
      BY <3>1
    <3> DEFINE offset == IF i = 1 THEN 0 ELSE CalcNextOffset(r[i - 1])
    <3>4. offset \in 0 .. Limit - 1
      BY <3>3, RangeZero, LengthTypes
    <3>5. WithLengths(list[i], gran) \in Sections
      BY <1>1, <3>1, WithLengthsType
    <3>6. r[i] = [WithLengths(list[i], gran) EXCEPT !.index = i - 1, !.offset = offset]
      BY <1>2, <3>1
    <3> HIDE DEF i, offset
    <3>7. r[i] \in Sections
      BY <3>2, <3>4, <3>5, <3>6 DEF Sections
    <3> QED BY <3>7 DEF i
  <2>2. CASE ~(m + 1 <= n)
    <3>1. m + 1 \in n + 1 .. Len(list)
      BY <1>1, <2>2
    <3> QED BY <1>1, <1>2, <3>1
  <2> QED BY <2>1, <2>2
<1> HIDE DEF S
<1>5. Nat \subseteq S
  BY <1>3, <1>4, NumberInduction
<1>6. \A i \in 1 .. Len(list) : r[i] \in Sections
  BY <1>1, <1>5 DEF S
<1>8. r \in [1 .. Len(list) -> Sections]
  BY <1>2, <1>6
<1>9. r \in Seq(Sections) /\ Len(r) = Len(list)
  BY <1>1, <1>8
<1> QED BY <1>r, <1>9

LEMMA AppendType ==
  ASSUME SectionTypeOK, NEW src \in Sections, NEW gran \in Nat, AppendSection(src, gran)
  PROVE  SectionTypeOK'
<1> DEFINE n == Len(section_list)
           offset == IF n = 0 THEN 0 ELSE CalcNextOffset(section_list[n])
           new == [src EXCEPT !.index = n, !.offset = offset, !.actual = CalcLengthUsed(src),
                              !.padded = CalcLengthGran(src, gran)]
<1>1. section_list \in Seq(Sections) /\ n \in Nat /\ n < MaxSections /\ MaxSections \in Nat
  BY SectionAssumption DEF SectionTypeOK, Sections, AppendSection
<1>2. section_list' = Append(section_list, new)
  BY DEF AppendSection
<1>3. offset \in 0 .. Limit - 1
  <2>1. n # 0 => section_list[n] \in Sections
    BY <1>1
  <2> QED BY <2>1, RangeZero, LengthTypes
<1>4. n \in 0 .. MaxSections - 1
  BY <1>1
<1> HIDE DEF n, offset
<1>5. new \in Sections
  BY <1>3, <1>4, LengthTypes DEF Sections
<1> HIDE DEF new
<1>6. section_list' \in Seq(Sections) /\ Len(section_list') = Len(section_list) + 1
  BY <1>1, <1>2, <1>5
<1> QED BY <1>1, <1>6 DEF SectionTypeOK, Sections, n

LEMMA SectionsTypeStep == SectionTypeOK /\ [SectionNext]_section_list => SectionTypeOK'
<1> SUFFICES ASSUME SectionTypeOK, [SectionNext]_section_list PROVE SectionTypeOK'
  OBVIOUS
<1>1. /\ section_list \in Seq(Sections) /\ Len(section_list) <= MaxSections
      /\ Len(section_list) \in Nat /\ DOMAIN section_list = 1 .. Len(section_list)
      /\ \A i \in DOMAIN section_list : section_list[i] \in Sections
  <2>1. section_list \in Seq(Sections) /\ Len(section_list) <= MaxSections
    BY DEF SectionTypeOK, Sections
  <2> QED BY <2>1, SectionTypes
<1>2. Grans \subseteq Nat /\ Elements \subseteq Nat \X Nat /\ MaxSections \in Nat
  BY SectionAssumption
<1>3. CASE UNCHANGED section_list
  BY <1>3 DEF SectionTypeOK
<1>4. ASSUME NEW element \in Elements, NEW g \in Grans, NEW d \in Descriptions,
             SetDescriptionAllows(d), AppendSection(NewSection(element, d), g)
      PROVE  SectionTypeOK'
  <2>1. 0 \in 0 .. MaxSections - 1
    <3>1. Len(section_list) < MaxSections
      BY <1>4 DEF AppendSection
    <3> QED BY <1>1, <1>2, <3>1
  <2>2. d \in 0 .. MaxDescriptionLength - 1
    BY <1>4, SectionAssumption DEF SetDescriptionAllows
  <2>3. element[1] \in Nat /\ element[2] \in Nat
    BY <1>2
  <2>4. NewSection(element, d) \in Sections
    BY <2>1, <2>2, <2>3, RangeZero DEF NewSection, Sections
  <2> QED BY <1>2, <1>4, <2>4, AppendType
<1>5. ASSUME NEW i \in DOMAIN section_list, NEW g \in Grans, AppendSection(section_list[i], g)
      PROVE  SectionTypeOK'
  BY <1>1, <1>2, <1>5, AppendType
<1>6. ASSUME NEW g \in Grans, FixupSectionList(g) \/ FixupThrows(g) PROVE SectionTypeOK'
  <2>1. PICK n \in 0 .. Len(section_list) : section_list' = FixedUp(section_list, g, n)
    <3>1. CASE FixupSectionList(g)
      BY <1>1, <3>1 DEF FixupSectionList
    <3>2. CASE FixupThrows(g)
      <4>1. PICK n \in 1 .. Len(section_list) : section_list' = FixedUp(section_list, g, n - 1)
        BY <3>2 DEF FixupThrows
      <4>2. n - 1 \in 0 .. Len(section_list)
        BY <1>1
      <4> QED BY <4>1, <4>2
    <3> QED BY <1>6, <3>1, <3>2
  <2>2. section_list' \in Seq(Sections) /\ Len(section_list') = Len(section_list)
    BY <1>1, <1>2, <2>1, FixedUpType
  <2> QED BY <1>1, <2>2 DEF SectionTypeOK, Sections
<1>7. ASSUME NEW i \in DOMAIN section_list, NEW element \in Elements, SetElements(i, element)
      PROVE  SectionTypeOK'
  <2>1. element[1] \in Nat /\ element[2] \in Nat
    BY <1>2
  <2> DEFINE new == [section_list[i] EXCEPT !.size = element[1], !.count = element[2]]
  <2>2. new \in Sections
    BY <1>1, <2>1 DEF Sections
  <2>3. section_list' = [section_list EXCEPT ![i] = new]
    BY <1>7 DEF SetElements
  <2> HIDE DEF new
  <2>4. section_list' \in Seq(Sections) /\ Len(section_list') = Len(section_list)
    BY <1>1, <2>2, <2>3
  <2> QED BY <1>1, <2>4 DEF SectionTypeOK, Sections
<1> QED BY <1>3, <1>4, <1>5, <1>6, <1>7 DEF SectionNext

-----------------------------------------------------------------------------
(* What is accepted, and what is fixed up.                                 *)

LEMMA AcceptedLayouts == SectionTypeOK => AcceptedIsLayout
<1> SUFFICES ASSUME SectionTypeOK, NEW g \in Grans
             PROVE  /\ \A file_size \in 1 .. MaxFileSize :
                         CheckSectionList(section_list, g, file_size) =>
                           /\ Layout(section_list, file_size)
                           /\ TotalPaddedLength(section_list) = EndOfSections(section_list)
                    /\ \A i \in 0 .. MaxSections :
                         CheckSectionListAt(i, section_list, g) =>
                           SectionSize * Len(section_list) <= section_list[i + 1].padded
  BY DEF AcceptedIsLayout
<1>1. section_list \in Seq(Sections)
  BY DEF SectionTypeOK, Sections
<1>2. GranFits(g)
  BY SectionAssumption, GransFit
<1>3. ASSUME NEW file_size \in 1 .. MaxFileSize, CheckSectionList(section_list, g, file_size)
      PROVE  /\ Layout(section_list, file_size)
             /\ TotalPaddedLength(section_list) = EndOfSections(section_list)
  <2>1. /\ LengthsFit(section_list, g) /\ Adjacent(section_list)
        /\ \A i \in DOMAIN section_list :
             section_list[i].offset + section_list[i].padded <= file_size
    BY <1>1, <1>2, <1>3, AcceptedAdjacent
  <2>2. file_size \in Nat /\ file_size < Limit /\ Limit \in Nat
    BY HalfLimit, SectionAssumption
  <2>3. Layout(section_list, file_size)
    BY <1>1, <2>1, <2>2, AdjacentLayout
  <2>4. ASSUME NEW i \in DOMAIN section_list
        PROVE  section_list[i].offset + section_list[i].padded < Limit
    <3>1. section_list[i].offset \in Nat /\ section_list[i].padded \in Nat
      BY <1>1, SectionTypes
    <3> QED BY <2>1, <2>2, <3>1
  <2>5. section_list # << >>
    BY <1>3 DEF CheckSectionList
  <2>6. TotalPaddedLength(section_list) = EndOfSections(section_list)
    BY <1>1, <2>1, <2>4, <2>5, AdjacentTotal
  <2> QED BY <2>3, <2>6
<1>4. ASSUME NEW i \in 0 .. MaxSections, CheckSectionListAt(i, section_list, g)
      PROVE  SectionSize * Len(section_list) <= section_list[i + 1].padded
  <2>1. LengthsFit(section_list, g)
    BY <1>2, <1>4, ListLengthsFit DEF CheckSectionListAt, CheckSectionList
  <2>2. /\ i < Len(section_list) /\ section_list[i + 1].size = SectionSize
        /\ section_list[i + 1].count = Len(section_list)
    BY <1>4 DEF CheckSectionListAt
  <2>3. i + 1 \in DOMAIN section_list
    BY <1>1, <2>2, SectionTypes
  <2> QED BY <2>1, <2>2, <2>3 DEF LengthsFit
<1> QED BY <1>3, <1>4

LEMMA MultipleSum ==
  ASSUME NEW g \in Nat, NEW m, NEW n, MultipleOf(m, g), MultipleOf(n, g)
  PROVE  MultipleOf(m + n, g)
<1>1. PICK j \in Nat, k \in Nat : m = j * g /\ n = k * g
  BY DEF MultipleOf
<1>2. (j + k) * g = j * g + k * g /\ j + k \in Nat
  OBVIOUS
<1> QED BY <1>1, <1>2 DEF MultipleOf

\* Adjacent sections of whole granules end at a granule.
LEMMA AdjacentMultiples ==
  ASSUME NEW list \in Seq(Sections), Adjacent(list), NEW gran \in Nat, LengthsFit(list, gran)
  PROVE  \A i \in DOMAIN list :
           MultipleOf(list[i].offset + list[i].padded, FixUpStorageGran(gran))
<1> DEFINE g == FixUpStorageGran(gran)
           S == {i \in Nat : i \in DOMAIN list => MultipleOf(list[i].offset + list[i].padded, g)}
<1>1. g \in Nat \ {0} /\ DOMAIN list = 1 .. Len(list) /\ Len(list) \in Nat
  BY StoreGran, SectionTypes
<1>2. 0 \in S
  BY <1>1
<1>3. ASSUME NEW m \in S \cap Nat PROVE m + 1 \in S
  <2> SUFFICES ASSUME m + 1 \in DOMAIN list
               PROVE  MultipleOf(list[m + 1].offset + list[m + 1].padded, g)
    OBVIOUS
  <2>1. MultipleOf(list[m + 1].padded, g)
    BY DEF LengthsFit
  <2>2. MultipleOf(list[m + 1].offset, g)
    <3>1. CASE m = 0
      <4>1. m + 1 = 1 /\ 0 = 0 * g
        BY <1>1, <3>1
      <4>2. list[m + 1].offset = 0
        BY <4>1 DEF Adjacent
      <4> QED BY <4>1, <4>2 DEF MultipleOf
    <3>2. CASE m # 0
      <4>1. m \in DOMAIN list /\ m + 1 # 1 /\ (m + 1) - 1 = m
        BY <1>1, <3>2
      <4>2. list[m + 1].offset = list[m].offset + list[m].padded
        BY <4>1 DEF Adjacent
      <4> QED BY <4>1, <4>2
    <3> QED BY <3>1, <3>2
  <2> HIDE DEF g
  <2> QED BY <1>1, <2>1, <2>2, MultipleSum
<1> HIDE DEF S
<1>4. Nat \subseteq S
  BY <1>2, <1>3, NumberInduction
<1> QED BY <1>1, <1>4 DEF S

\* Every list that FixupSectionList has gone through to its end is accepted.
LEMMA FixedAccepted ==
  ASSUME SectionTypeOK, NEW g \in Grans, FixupSectionList(g),
         \A i \in DOMAIN section_list : section_list[i].description > 0
  PROVE  /\ section_list' \in Seq(Sections) /\ section_list' # << >>
         /\ CheckSectionList(section_list', g, 0)
<1>1. /\ section_list \in Seq(Sections) /\ Len(section_list) <= MaxSections
      /\ section_list # << >>
  BY DEF SectionTypeOK, Sections, FixupSectionList
<1>2. /\ Len(section_list) \in Nat /\ DOMAIN section_list = 1 .. Len(section_list)
      /\ \A i \in DOMAIN section_list : section_list[i] \in Sections
  BY <1>1, SectionTypes
<1>3. g \in Nat
  BY SectionAssumption
<1>4. section_list' = FixedUp(section_list, g, Len(section_list))
  BY DEF FixupSectionList
<1>5. section_list' \in Seq(Sections) /\ Len(section_list') = Len(section_list)
  BY <1>1, <1>2, <1>3, <1>4, FixedUpType
<1>6. IsFixed(section_list, g, Len(section_list), section_list')
  BY <1>1, <1>2, <1>3, <1>4, FixedUpList
<1>7. ASSUME NEW i \in DOMAIN section_list'
      PROVE  /\ CheckElementInfo(section_list'[i])
             /\ section_list'[i].index = i - 1
             /\ section_list'[i].offset = IF i = 1 THEN 0 ELSE CalcNextOffset(section_list'[i - 1])
             /\ section_list'[i].actual = CalcLengthUsed(section_list'[i])
             /\ section_list'[i].padded = CalcLengthGran(section_list'[i], g)
             /\ section_list'[i].description > 0
  <2>1. i \in DOMAIN section_list /\ i \in 1 .. Len(section_list)
    BY <1>2, <1>6 DEF IsFixed
  <2>2. PICK old : old = section_list[i]
    OBVIOUS
  <2>3. PICK new : new = section_list'[i]
    OBVIOUS
  <2>4. PICK full : full = WithLengths(old, g)
    OBVIOUS
  <2>5. PICK offset : offset = IF i = 1 THEN 0 ELSE CalcNextOffset(section_list'[i - 1])
    OBVIOUS
  <2>6. new = [full EXCEPT !.index = i - 1, !.offset = offset]
    BY <1>6, <2>1, <2>2, <2>3, <2>4, <2>5 DEF IsFixed
  <2>7. old \in Sections /\ CheckElementInfo(old) /\ old.description > 0
    BY <1>2, <2>1, <2>2 DEF FixupSectionList, AllElementsValid
  <2>8. /\ full \in Sections /\ full.actual = CalcLengthUsed(old)
        /\ full.padded = CalcLengthGran(full, g)
        /\ full.size = old.size /\ full.count = old.count /\ full.description = old.description
    BY <1>3, <2>4, <2>7, WithLengthsType
  <2>9. /\ new.index = i - 1 /\ new.offset = offset /\ new.actual = full.actual
        /\ new.padded = full.padded /\ new.size = old.size /\ new.count = old.count
        /\ new.description = old.description
    BY <2>6, <2>8 DEF Sections
  <2>10. CheckElementInfo(new) /\ new.description > 0
    BY <2>7, <2>9 DEF CheckElementInfo
  <2>11. new.actual = CalcLengthUsed(new) /\ new.padded = CalcLengthGran(new, g)
    BY <2>8, <2>9 DEF CalcLengthUsed, CalcLengthGran
  <2> QED BY <2>3, <2>5, <2>9, <2>10, <2>11
<1>8. section_list' # << >>
  BY <1>1, <1>2, <1>5
<1> QED BY <1>5, <1>7, <1>8 DEF CheckSectionList

\* And so it is with the size that the programs calculate, if the file can be that long.
LEMMA FixedFits ==
  ASSUME NEW list \in Seq(Sections), list # << >>, NEW gran \in Nat, GranFits(gran),
         CheckSectionList(list, gran, 0), NEW end, end = EndOfSections(list),
         end <= MaxFileSize, Layout(list, end)
  PROVE  CheckSectionList(list, gran, end) /\ CheckFileSize(end, FixUpStorageGran(gran))
<1> DEFINE g == FixUpStorageGran(gran)
<1>1. /\ Len(list) \in Nat \ {0} /\ DOMAIN list = 1 .. Len(list)
      /\ \A i \in DOMAIN list : list[i].offset \in Nat /\ list[i].padded \in Nat
  BY SectionTypes
<1>2. LengthsFit(list, gran)
  BY ListLengthsFit DEF CheckSectionList
<1>3. /\ end \in Nat /\ end = list[Len(list)].offset + list[Len(list)].padded
      /\ Len(list) \in DOMAIN list
  BY <1>1 DEF EndOfSections
<1>4. end < Limit /\ Limit \in Nat \ {0}
  BY <1>3, HalfLimit, SectionAssumption
<1>5. ASSUME NEW i \in DOMAIN list
      PROVE  /\ list[i].padded > 0
             /\ list[i].offset + list[i].padded <= end
             /\ list[i].offset + list[i].padded < Limit
             /\ (list[i].offset + list[i].padded) % Limit = list[i].offset + list[i].padded
  <2>1. list[i].offset \in Nat /\ list[i].padded \in Nat /\ list[i].actual \in Nat
    BY SectionTypes
  <2>2. 0 < list[i].actual /\ list[i].actual <= list[i].padded
    BY <1>2 DEF LengthsFit
  <2>3. list[i].offset + list[i].padded <= end
    BY DEF Layout
  <2>4. list[i].offset + list[i].padded < Limit
    BY <1>3, <1>4, <2>1, <2>3
  <2>5. list[i].padded > 0
    BY <2>1, <2>2
  <2> QED BY <2>1, <2>3, <2>4, <2>5, NotCut
<1>6. ASSUME NEW i \in DOMAIN list PROVE CheckExtent(end, list[i].offset, list[i].padded)
  <2>1. list[i].offset < end
    BY <1>1, <1>3, <1>5
  <2> QED BY <1>5, <2>1 DEF CheckExtent
<1>7. CheckSectionList(list, gran, end)
  BY <1>6 DEF CheckSectionList
<1>8. Adjacent(list)
  <2> SUFFICES ASSUME NEW i \in DOMAIN list
               PROVE  list[i].offset = IF i = 1 THEN 0 ELSE list[i - 1].offset + list[i - 1].padded
    BY DEF Adjacent
  <2>1. list[i].offset = IF i = 1 THEN 0 ELSE CalcNextOffset(list[i - 1])
    BY DEF CheckSectionList
  <2>2. i # 1 => i - 1 \in DOMAIN list
    BY <1>1
  <2> QED BY <1>5, <2>1, <2>2 DEF CalcNextOffset
<1>9. MultipleOf(end, g)
  BY <1>3, <1>8, <1>2, AdjacentMultiples
<1>10. g \in Nat \ {0} /\ g % MFStoreAllocGran = 0
  BY StoreGran
<1>11. end % g = 0 /\ end # 0
  <2>1. end # 0
    BY <1>1, <1>3, <1>5
  <2> HIDE DEF g
  <2> QED BY <1>3, <1>9, <1>10, <2>1, MultipleMod DEF MultipleOf
<1> QED BY <1>7, <1>10, <1>11 DEF CheckFileSize

LEMMA FixupStep ==
  ASSUME SectionTypeOK, NEW g \in Grans, FixupSectionList(g),
         \A i \in DOMAIN section_list : section_list[i].description > 0
  PROVE  LET end == EndOfSections(section_list')
         IN  /\ CheckSectionList(section_list', g, 0)
             /\ end <= MaxFileSize /\ Layout(section_list', end)
                  => /\ CheckSectionList(section_list', g, end)
                     /\ CheckFileSize(end, FixUpStorageGran(g))
<1>1. /\ section_list' \in Seq(Sections) /\ section_list' # << >>
      /\ CheckSectionList(section_list', g, 0)
  BY FixedAccepted
<1>2. g \in Nat /\ GranFits(g)
  BY SectionAssumption, GransFit
<1>3. PICK list : list = section_list'
  OBVIOUS
<1>4. PICK end : end = EndOfSections(list)
  OBVIOUS
<1>5. end <= MaxFileSize /\ Layout(list, end) =>
        CheckSectionList(list, g, end) /\ CheckFileSize(end, FixUpStorageGran(g))
  BY <1>1, <1>2, <1>3, <1>4, FixedFits
<1> QED BY <1>1, <1>3, <1>4, <1>5

\* The fields of the sections have 64 bits and the list does not grow beyond its bound
\* (src/MFStore/MFStoreSection.cpp:185), whatever is appended, changed and fixed up.
THEOREM SectionsTyped == SectionSpec => []SectionTypeOK
<1>1. SectionInit => SectionTypeOK
  <2>1. << >> \in Seq(Sections) /\ Len(<< >>) = 0
    OBVIOUS
  <2>2. MaxSections \in Nat
    BY SectionAssumption
  <2> QED BY <2>1, <2>2 DEF SectionInit, SectionTypeOK, Sections
<1> QED BY <1>1, SectionsTypeStep, PTL DEF SectionSpec

\* A list that CheckSectionList (src/MFStore/MFStoreSection.cpp:228) accepts for a file of at
\* most half of the 64-bit range is a layout of it, for every number of sections and every
\* size of elements: no two sections share a byte, none passes the end of the file, the
\* total that is shown is where the last one ends, and the section for the list has room for
\* it; although all that the check compares are sums modulo 2^64.
THEOREM AcceptedListsAreLayouts == SectionSpec => []AcceptedIsLayout
BY SectionsTyped, AcceptedLayouts, PTL

\* FixupSectionList (src/MFStore/MFStoreSection.cpp:207) repairs every list with valid and
\* described elements, of any length: CheckSectionList accepts the result, with the size of
\* the file that ends where the last section ends too, and that size passes CheckFileSize.
THEOREM FixupRepairs == SectionSpec => FixupIsAccepted
<1>1. SectionTypeOK /\ [SectionNext]_section_list =>
        [\A g \in Grans :
           FixupSectionList(g) /\ (\A i \in DOMAIN section_list : section_list[i].description > 0) =>
             LET end == EndOfSections(section_list')
             IN  /\ CheckSectionList(section_list', g, 0)
                 /\ end <= MaxFileSize /\ Layout(section_list', end)
                      => /\ CheckSectionList(section_list', g, end)
                         /\ CheckFileSize(end, FixUpStorageGran(g))]_section_list
  BY FixupStep
<1> QED BY <1>1, SectionsTyped, PTL DEF SectionSpec, FixupIsAccepted

-----------------------------------------------------------------------------
(* Controls.                                                               *)

Members ==
  [mapping : Mappings \cup {NoMapping}, file_size : Nat, mmap_size : Nat, alloc_gran : Nat]

ControlsTypeOK ==
  /\ store_length \in Int /\ -1 <= store_length /\ store_length <= MaxFileSize
  /\ controls \in [Controls -> Members]
  /\ mode \in [Mappings -> {"closed", "read_only", "read_write"}]
  /\ lock_owner \in Processes \cup {NoProcess}
  /\ writers \subseteq Mappings

\* A mapping that a control or the lock is about is open.
MappingsOpen ==
  /\ \A c \in Controls : IsActive(c) => mode[controls[c].mapping] # "closed"
  /\ \A m \in writers : mode[m] # "closed"

\* Processes share no mapping, and one that never had two at once has one.
OneProcess ==
  \A c, d \in Controls : IsActive(c) /\ IsActive(d) =>
    /\ controls[c].mapping = controls[d].mapping => ProcessOf[c] = ProcessOf[d]
    /\ ProcessOf[c] = ProcessOf[d] /\ ProcessOf[c] \notin opened_twice
         => controls[c].mapping = controls[d].mapping

\* What a control knows of the file.
SizesOK(members, length) ==
  /\ members.file_size <= length
  /\ CheckInitialFileAndMmapSizes(members.file_size, members.mmap_size, members.alloc_gran)
  /\ GranFits(members.alloc_gran)

SizesKnown == \A c \in Controls : IsActive(c) => SizesOK(controls[c], store_length)

ControlsInv == ControlsTypeOK /\ MappingsOpen /\ OneProcess /\ SizesKnown /\ LockKept

LEMMA ProcessTypes ==
  /\ \A c \in Controls : ProcessOf[c] \in Processes
  /\ NoProcess \notin Processes /\ NoMapping \notin Mappings
BY ControlsAssumption

LEMMA MemberTypes ==
  ASSUME ControlsTypeOK, NEW c \in Controls
  PROVE  /\ controls[c] \in Members /\ controls[c].mapping \in Mappings \cup {NoMapping}
         /\ controls[c].file_size \in Nat
BY DEF ControlsTypeOK, Members

\* Members are passed on within a process, and the mappings that nobody has any more, all of
\* one process, are closed: if that process never had two, it has none left, and so nothing
\* that it could have the lock for.
LEMMA PassedOn ==
  ASSUME ControlsInv, NEW p \in Processes, NEW closed \in SUBSET Mappings,
         controls' \in [Controls -> Members],
         \A c \in Controls : controls'[c].mapping # NoMapping =>
           /\ controls'[c].mapping \notin closed
           /\ \E d \in Controls : controls[d] = controls'[c] /\ ProcessOf[d] = ProcessOf[c],
         \A m \in closed : \E d \in Controls : controls[d].mapping = m /\ ProcessOf[d] = p,
         mode' = [m \in Mappings |-> IF m \in closed THEN "closed" ELSE mode[m]],
         writers' = writers \ closed,
         lock_owner' = IF closed # {} /\ lock_owner = p THEN NoProcess ELSE lock_owner,
         UNCHANGED <<store_length, opened_twice>>
  PROVE  ControlsInv'
<1>1. ASSUME NEW c \in Controls, controls'[c].mapping # NoMapping
      PROVE  /\ controls'[c].mapping \in Mappings \ closed
             /\ mode'[controls'[c].mapping] = mode[controls'[c].mapping]
             /\ \E d \in Controls : /\ controls[d] = controls'[c] /\ ProcessOf[d] = ProcessOf[c]
                                    /\ IsActive(d)
  <2>1. controls'[c].mapping \in Mappings
    BY <1>1 DEF Members
  <2> QED BY <1>1, <2>1 DEF IsActive
<1>2. ControlsTypeOK'
  BY DEF ControlsInv, ControlsTypeOK
<1>3. MappingsOpen'
  <2>1. ASSUME NEW m \in writers' PROVE mode'[m] # "closed"
    BY DEF ControlsInv, MappingsOpen, ControlsTypeOK
  <2>2. ASSUME NEW c \in Controls, controls'[c].mapping # NoMapping
        PROVE  mode'[controls'[c].mapping] # "closed"
    BY <1>1, <2>2 DEF ControlsInv, MappingsOpen
  <2> QED BY <2>1, <2>2 DEF MappingsOpen, IsActive
<1>4. OneProcess'
  <2> SUFFICES ASSUME NEW c \in Controls, NEW d \in Controls,
                      controls'[c].mapping # NoMapping, controls'[d].mapping # NoMapping
               PROVE  /\ controls'[c].mapping = controls'[d].mapping => ProcessOf[c] = ProcessOf[d]
                      /\ ProcessOf[c] = ProcessOf[d] /\ ProcessOf[c] \notin opened_twice
                           => controls'[c].mapping = controls'[d].mapping
    BY DEF OneProcess, IsActive
  <2>1. PICK a \in Controls : controls[a] = controls'[c] /\ ProcessOf[a] = ProcessOf[c] /\ IsActive(a)
    BY <1>1
  <2>2. PICK b \in Controls : controls[b] = controls'[d] /\ ProcessOf[b] = ProcessOf[d] /\ IsActive(b)
    BY <1>1
  <2> QED BY <2>1, <2>2 DEF ControlsInv, OneProcess
<1>5. SizesKnown'
  <2> SUFFICES ASSUME NEW c \in Controls, controls'[c].mapping # NoMapping
               PROVE  SizesOK(controls'[c], store_length)
    BY DEF SizesKnown, SizesOK, IsActive
  <2> QED BY <1>1 DEF ControlsInv, SizesKnown
<1>6. LockKept'
  <2> SUFFICES ASSUME NEW c \in Controls, controls'[c].mapping # NoMapping,
                      controls'[c].mapping \in writers', ProcessOf[c] \notin opened_twice
               PROVE  lock_owner' = ProcessOf[c]
    BY DEF LockKept, IsActive
  <2>1. PICK d \in Controls : controls[d] = controls'[c] /\ ProcessOf[d] = ProcessOf[c] /\ IsActive(d)
    BY <1>1
  <2>2. lock_owner = ProcessOf[c]
    BY <2>1 DEF ControlsInv, LockKept
  <2>3. ASSUME NEW m \in closed, lock_owner = p PROVE FALSE
    <3>1. PICK e \in Controls : controls[e].mapping = m /\ ProcessOf[e] = p
      OBVIOUS
    <3>2. IsActive(e)
      BY <3>1, ProcessTypes DEF IsActive
    <3>3. controls[d].mapping = m
      BY <2>1, <2>2, <2>3, <3>1, <3>2 DEF ControlsInv, OneProcess
    <3> QED BY <1>1, <2>1, <3>3
  <2> QED BY <2>2, <2>3
<1> QED BY <1>2, <1>3, <1>4, <1>5, <1>6 DEF ControlsInv

\* The constructor of a control for a mapping that nobody has any more.
LEMMA MapFileInv ==
  ASSUME ControlsInv, NEW c \in Controls, NEW file_size \in Nat, NEW mmap_size \in Nat,
         NEW gran \in Nat, NEW as \in {"read_only", "read_write"},
         CheckInitialFileAndMmapSizes(file_size, mmap_size, gran), GranFits(gran),
         store_length' \in Int, store_length <= store_length', file_size <= store_length',
         store_length' <= MaxFileSize,
         MapFile(c, file_size, mmap_size, gran, as)
  PROVE  ControlsInv'
<1> DEFINE closed == Released(c)
<1>a. PICK m \in Mappings :
        /\ mode[m] = "closed" \/ m \in closed
        /\ Replace(c, [mapping |-> m, file_size |-> file_size, mmap_size |-> mmap_size,
                       alloc_gran |-> gran], {m}, as)
  BY DEF MapFile
<1>b. PICK members : members = [mapping |-> m, file_size |-> file_size, mmap_size |-> mmap_size,
                                alloc_gran |-> gran]
  OBVIOUS
<1>1. /\ m \in Mappings
      /\ mode[m] = "closed" \/ m \in closed
      /\ members = [mapping |-> m, file_size |-> file_size, mmap_size |-> mmap_size,
                    alloc_gran |-> gran]
      /\ Replace(c, members, {m}, as)
  BY <1>a, <1>b
<1>2. /\ controls' = [controls EXCEPT ![c] = members]
      /\ mode' = [n \in Mappings |-> IF n \in {m} THEN as ELSE IF n \in closed THEN "closed" ELSE mode[n]]
      /\ writers' = writers \ closed
      /\ lock_owner' = IF closed # {} /\ lock_owner = ProcessOf[c] THEN NoProcess ELSE lock_owner
  BY <1>1 DEF Replace
<1>3. opened_twice' = IF \E d \in Controls : ProcessOf[d] = ProcessOf[c] /\ IsActive(d)
                      THEN opened_twice \cup {ProcessOf[c]} ELSE opened_twice
  BY DEF MapFile
<1>4. /\ members \in Members /\ members.mapping = m /\ m # NoMapping
      /\ SizesOK(members, store_length')
  <2>1. members \in Members
    BY <1>1 DEF Members
  <2> QED BY <1>1, <2>1, ProcessTypes DEF SizesOK
<1>5. controls'[c] = members /\ \A d \in Controls \ {c} : controls'[d] = controls[d]
  BY <1>2 DEF ControlsInv, ControlsTypeOK
<1>6. ASSUME NEW d \in Controls \ {c}
      PROVE  controls[d].mapping # m /\ (IsActive(d) => controls[d].mapping \notin closed)
  <2>1. controls[d].mapping \notin closed \/ ~IsActive(d)
    BY DEF Released, IsActive
  <2>2. controls[d].mapping = m => IsActive(d)
    BY <1>4 DEF IsActive
  <2> QED BY <1>1, <2>1, <2>2 DEF ControlsInv, MappingsOpen
<1>7. ControlsTypeOK'
  <2>1. controls' \in [Controls -> Members]
    BY <1>2, <1>4 DEF ControlsInv, ControlsTypeOK
  <2>2. mode' \in [Mappings -> {"closed", "read_only", "read_write"}]
    BY <1>2 DEF ControlsInv, ControlsTypeOK
  <2>3. -1 <= store_length'
    BY DEF ControlsInv, ControlsTypeOK
  <2>4. lock_owner' \in Processes \cup {NoProcess} /\ writers' \subseteq Mappings
    BY <1>2 DEF ControlsInv, ControlsTypeOK
  <2> QED BY <2>1, <2>2, <2>3, <2>4 DEF ControlsTypeOK
<1>8. MappingsOpen'
  <2>1. ASSUME NEW n \in writers' PROVE mode'[n] # "closed"
    <3>1. n \in Mappings /\ n \notin closed /\ mode[n] # "closed"
      BY <1>2 DEF ControlsInv, ControlsTypeOK, MappingsOpen
    <3> QED BY <1>1, <1>2, <3>1
  <2>2. ASSUME NEW d \in Controls, controls'[d].mapping # NoMapping
        PROVE  mode'[controls'[d].mapping] # "closed"
    <3>1. CASE d = c
      BY <1>2, <1>4, <1>5, <3>1
    <3>2. CASE d # c
      <4>1. /\ controls'[d].mapping = controls[d].mapping /\ IsActive(d)
            /\ controls[d].mapping \in Mappings
        BY <1>5, <2>2, <3>2, MemberTypes DEF IsActive, ControlsInv
      <4>2. mode[controls[d].mapping] # "closed"
        BY <4>1 DEF ControlsInv, MappingsOpen
      <4> QED BY <1>2, <1>6, <3>2, <4>1, <4>2
    <3> QED BY <3>1, <3>2
  <2> QED BY <2>1, <2>2 DEF MappingsOpen, IsActive
<1>9. OneProcess'
  <2> SUFFICES ASSUME NEW a \in Controls, NEW b \in Controls,
                      controls'[a].mapping # NoMapping, controls'[b].mapping # NoMapping
               PROVE  /\ controls'[a].mapping = controls'[b].mapping => ProcessOf[a] = ProcessOf[b]
                      /\ ProcessOf[a] = ProcessOf[b] /\ ProcessOf[a] \notin opened_twice'
                           => controls'[a].mapping = controls'[b].mapping
    BY DEF OneProcess, IsActive
  <2>1. CASE a = b
    BY <2>1
  <2>2. CASE a # c /\ b # c
    BY <1>3, <1>5, <2>2 DEF ControlsInv, OneProcess, IsActive
  <2>3. CASE a = c /\ b # c
    BY <1>3, <1>4, <1>5, <1>6, <2>3 DEF IsActive
  <2>4. CASE a # c /\ b = c
    BY <1>3, <1>4, <1>5, <1>6, <2>4 DEF IsActive
  <2> QED BY <2>1, <2>2, <2>3, <2>4
<1>10. SizesKnown'
  <2> SUFFICES ASSUME NEW d \in Controls, controls'[d].mapping # NoMapping
               PROVE  SizesOK(controls'[d], store_length')
    BY DEF SizesKnown, SizesOK, IsActive
  <2>1. CASE d = c
    BY <1>4, <1>5, <2>1
  <2>2. CASE d # c
    <3>1. controls'[d] = controls[d] /\ SizesOK(controls[d], store_length)
      BY <1>5, <2>2 DEF ControlsInv, SizesKnown, IsActive
    <3>2. controls[d].file_size \in Nat /\ store_length \in Int
      BY MemberTypes DEF ControlsInv, ControlsTypeOK
    <3>3. controls[d].file_size <= store_length'
      BY <3>1, <3>2 DEF SizesOK
    <3> QED BY <3>1, <3>3 DEF SizesOK
  <2> QED BY <2>1, <2>2
<1>11. LockKept'
  <2> SUFFICES ASSUME NEW d \in Controls, controls'[d].mapping # NoMapping,
                      controls'[d].mapping \in writers', ProcessOf[d] \notin opened_twice'
               PROVE  lock_owner' = ProcessOf[d]
    BY DEF LockKept, IsActive
  <2>1. m \notin writers'
    BY <1>1, <1>2 DEF ControlsInv, MappingsOpen
  <2>2. d # c /\ controls'[d] = controls[d] /\ IsActive(d)
    BY <1>4, <1>5, <2>1 DEF IsActive
  <2>3. ProcessOf[d] # ProcessOf[c] /\ ProcessOf[d] \notin opened_twice
    BY <1>3, <2>2
  <2>4. lock_owner = ProcessOf[d]
    BY <1>2, <2>2, <2>3 DEF ControlsInv, LockKept
  <2> QED BY <1>2, <2>3, <2>4
<1> QED BY <1>7, <1>8, <1>9, <1>10, <1>11 DEF ControlsInv

-----------------------------------------------------------------------------
(* Sizes that are adjusted.                                                *)

LEMMA GranOfAsked ==
  ASSUME NEW gran \in AskedGrans
  PROVE  /\ gran \in Nat /\ GranFits(gran) /\ GranFits(FixUpStorageGran(gran))
         /\ FixUpStorageGran(gran) \in Nat \ {0} /\ gran <= FixUpStorageGran(gran)
         /\ FixUpStorageGran(gran) % MFStoreAllocGran = 0
         /\ FixUpStorageGran(gran) < Limit
<1>1. /\ gran \in Nat
      /\ 2 * (MaxElementValue * MaxElementValue + gran + MFStoreAllocGran) <= Limit
  BY ControlsAssumption
<1>2. GranFits(gran) /\ GranFits(FixUpStorageGran(gran))
  BY <1>1, GransFit
<1>3. /\ FixUpStorageGran(gran) \in Nat \ {0} /\ gran <= FixUpStorageGran(gran)
      /\ FixUpStorageGran(gran) % MFStoreAllocGran = 0
  BY <1>1, StoreGran
<1>4. FixUpStorageGran(gran) < Limit
  <2>1. PICK m \in Nat : m = MaxElementValue * MaxElementValue
    BY SectionAssumption
  <2>2. PICK g \in Nat \ {0} : g = FixUpStorageGran(gran)
    BY <1>3
  <2>3. 2 * (m + g) <= Limit /\ Limit \in Nat
    BY <1>2, <2>1, <2>2, SectionAssumption DEF GranFits
  <2>4. g < Limit
    BY <2>3
  <2> QED BY <2>2, <2>4
<1> QED BY <1>1, <1>2, <1>3, <1>4

\* A value that is rounded up and cut to 64 bits.
LEMMA CutValue ==
  ASSUME NEW value \in Nat, value < Limit, NEW g \in Nat \ {0}, g < Limit,
         NEW cut, cut = GranularRoundUp(value, g) % Limit
  PROVE  /\ cut \in Nat
         /\ cut # 0 /\ cut % g = 0 => value <= cut
         /\ value + g < Limit => cut = GranularRoundUp(value, g) /\ cut # 0 /\ cut % g = 0
<1>0. Limit \in Nat \ {0}
  BY SectionAssumption
<1>1. PICK up \in Nat : up = GranularRoundUp(value, g) /\ value <= up /\ up <= value + g /\ g <= up
  BY RoundUpBounds
<1>2. up % g = 0
  BY <1>1, RoundMultiple, MultipleMod
<1>3. CASE up < Limit
  BY <1>0, <1>1, <1>2, <1>3, SmallMod
<1>4. CASE ~(up < Limit)
  <2>1. PICK rest \in Nat : up = rest + Limit
    <3>1. up - Limit \in Nat /\ up = (up - Limit) + Limit
      BY <1>0, <1>4
    <3> QED BY <3>1
  <2>2. rest < g /\ rest < Limit /\ ~(value + g < Limit)
    BY <1>0, <1>1, <2>1
  <2>3. up % Limit = rest
    BY <1>0, <2>1, <2>2
  <2>4. rest % g = rest
    BY <2>2, SmallMod
  <2> QED BY <1>1, <2>2, <2>3, <2>4
<1> QED BY <1>3, <1>4

\* Rounding up keeps the order.
LEMMA RoundUpOrder ==
  ASSUME NEW v \in Nat, NEW w \in Nat, v <= w, NEW g \in Nat \ {0}
  PROVE  GranularRoundUp(v, g) <= GranularRoundUp(w, g)
<1>a. PICK a \in Nat : a = GranularRoundUp(v, g) /\ v <= a /\ a <= v + g
  BY RoundUpBounds
<1>b. PICK b \in Nat : b = GranularRoundUp(w, g) /\ w <= b /\ g <= b
  BY RoundUpBounds
<1>1. PICK j \in Nat : a = j * g
  BY <1>a, RoundMultiple
<1>2. PICK k \in Nat : b = k * g
  BY <1>b, RoundMultiple
<1>3. CASE v = 0
  <2>1. a <= g
    BY <1>a, <1>3
  <2> QED BY <1>a, <1>b, <2>1
<1>4. CASE v # 0
  <2>1. a < v + g
    <3> SUFFICES ASSUME a = v + g PROVE FALSE
      BY <1>a
    <3>1. PICK down \in Nat : down = GranularRoundDown(v, g) /\ down <= v /\ (down = v \/ v % g # 0)
      BY RoundDownBounds
    <3>2. a = down + IF v % g # 0 THEN g ELSE 0
      BY <1>a, <1>4, <3>1 DEF GranularRoundUp
    <3>3. v % g # 0 /\ down = v
      BY <3>1, <3>2
    <3>4. PICK i \in Nat : GranularRoundDown(v, g) = i * g
      BY RoundMultiple
    <3>5. v = i * g
      BY <3>1, <3>3, <3>4
    <3> QED BY <3>3, <3>5, MultipleMod
  <2>2. ~(k < j)
    <3> SUFFICES ASSUME k < j PROVE FALSE
      OBVIOUS
    <3>1. PICK i \in Nat : j = k + 1 + i
      <4>1. j - k - 1 \in Nat /\ j = k + 1 + (j - k - 1)
        OBVIOUS
      <4> QED BY <4>1
    <3>2. j * g = k * g + g + i * g /\ i * g \in Nat
      BY <3>1
    <3>3. b + g <= a
      BY <1>1, <1>2, <3>2
    <3> QED BY <1>a, <1>b, <2>1, <3>3
  <2>4. j * g <= k * g
    BY <2>2, ProductBounds
  <2> QED BY <1>a, <1>b, <1>1, <1>2, <2>4
<1> QED BY <1>3, <1>4

\* The three sizes that CreateMFStoreAdjusted makes of those that it is given.
LEMMA AdjustedSizes ==
  ASSUME NEW file_size \in AskedSizes, NEW mmap_size \in AskedSizes, NEW gran \in AskedGrans,
         NEW g, g = FixUpStorageGran(gran),
         NEW fs, fs = FixUpValueGran(file_size, gran), NEW ms, ms = FixUpValueGran(mmap_size, gran)
  PROVE  /\ fs \in Nat /\ ms \in Nat /\ g \in Nat /\ GranFits(g)
         /\ CheckInitialFileAndMmapSizes(fs, ms, g) =>
              /\ file_size <= fs /\ mmap_size <= ms /\ gran <= g
              /\ fs % g = 0 /\ ms % g = 0 /\ g % g = 0
         /\ ~CheckInitialFileAndMmapSizes(fs, ms, g) =>
              mmap_size < file_size \/ file_size + g >= Limit \/ mmap_size + g >= Limit
<1>0. Limit \in Nat \ {0}
  BY SectionAssumption
<1>1. /\ file_size \in Nat /\ mmap_size \in Nat
      /\ file_size < Limit /\ mmap_size < Limit
  BY <1>0, ControlsAssumption
<1>2. /\ gran \in Nat /\ g \in Nat \ {0} /\ gran <= g /\ GranFits(g) /\ g < Limit
      /\ g % MFStoreAllocGran = 0
  BY GranOfAsked
<1>3. /\ fs = GranularRoundUp(file_size, g) % Limit
      /\ ms = GranularRoundUp(mmap_size, g) % Limit
  BY DEF FixUpValueGran
<1>4. /\ fs \in Nat
      /\ fs # 0 /\ fs % g = 0 => file_size <= fs
      /\ file_size + g < Limit => fs = GranularRoundUp(file_size, g) /\ fs # 0 /\ fs % g = 0
  BY <1>1, <1>2, <1>3, CutValue
<1>5. /\ ms \in Nat
      /\ ms # 0 /\ ms % g = 0 => mmap_size <= ms
      /\ mmap_size + g < Limit => ms = GranularRoundUp(mmap_size, g) /\ ms # 0 /\ ms % g = 0
  BY <1>1, <1>2, <1>3, CutValue
<1>6. g % g = 0
  <2>1. g = 1 * g
    BY <1>2
  <2> QED BY <1>2, <2>1, MultipleMod
<1>7. ASSUME file_size <= mmap_size, file_size + g < Limit, mmap_size + g < Limit
      PROVE  CheckInitialFileAndMmapSizes(fs, ms, g)
  <2>1. fs <= ms
    BY <1>1, <1>2, <1>4, <1>5, <1>7, RoundUpOrder
  <2> QED BY <1>2, <1>4, <1>5, <1>7, <2>1 DEF CheckInitialFileAndMmapSizes, CheckFileSize
<1>8. CheckInitialFileAndMmapSizes(fs, ms, g) =>
        /\ file_size <= fs /\ mmap_size <= ms /\ gran <= g
        /\ fs % g = 0 /\ ms % g = 0 /\ g % g = 0
  BY <1>2, <1>4, <1>5, <1>6 DEF CheckInitialFileAndMmapSizes, CheckFileSize
<1>9. ~CheckInitialFileAndMmapSizes(fs, ms, g) =>
        mmap_size < file_size \/ file_size + g >= Limit \/ mmap_size + g >= Limit
  BY <1>0, <1>1, <1>2, <1>7
<1> QED BY <1>2, <1>4, <1>5, <1>8, <1>9

-----------------------------------------------------------------------------
(* The steps of the controls.                                              *)

LEMMA ControlsInitInv == ControlsInit => ControlsInv /\ AdjustedAsReturned
<1> SUFFICES ASSUME ControlsInit PROVE ControlsInv /\ AdjustedAsReturned
  OBVIOUS
<1>1. Inactive \in Members /\ Inactive.mapping = NoMapping
  BY DEF Inactive, Members
<1>2. controls = [c \in Controls |-> Inactive] /\ \A c \in Controls : ~IsActive(c)
  BY <1>1 DEF ControlsInit, IsActive
<1>3. ControlsTypeOK
  <2>1. MaxFileSize \in Nat
    BY HalfLimit
  <2> QED BY <1>1, <1>2, <2>1 DEF ControlsInit, ControlsTypeOK
<1>4. AdjustedAsReturned
  BY DEF ControlsInit, NotAdjusted, AdjustedAsReturned
<1> QED BY <1>2, <1>3, <1>4 DEF ControlsInit, ControlsInv, MappingsOpen, OneProcess, SizesKnown, LockKept

\* The calls that make a control.
LEMMA CreateInv ==
  ASSUME ControlsInv, NEW c \in Controls, NEW file_size \in Nat, NEW mmap_size \in Nat,
         NEW gran \in Nat, GranFits(gran),
         \/ CreateMFStore(c, file_size, mmap_size, gran)
         \/ CreateMFStoreFails(file_size, mmap_size, gran)
         \/ CreateMFStoreRefused(file_size, mmap_size, gran)
  PROVE  ControlsInv'
<1>1. CASE CreateMFStore(c, file_size, mmap_size, gran)
  <2>1. /\ CheckInitialFileAndMmapSizes(file_size, mmap_size, gran)
        /\ store_length' = file_size /\ store_length = -1 /\ file_size <= MaxFileSize
        /\ MapFile(c, file_size, mmap_size, gran, "read_write")
    BY <1>1 DEF CreateMFStore
  <2>2. store_length' \in Int /\ store_length <= store_length' /\ file_size <= store_length'
    BY <2>1
  <2> QED BY <2>1, <2>2, MapFileInv
<1>2. CASE CreateMFStoreFails(file_size, mmap_size, gran)
  <2>1. /\ store_length = -1 /\ store_length' = 0
        /\ UNCHANGED <<controls, mode, lock_owner, writers, opened_twice>>
    BY <1>2 DEF CreateMFStoreFails
  <2>2. \A d \in Controls : ~IsActive(d)
    <3> SUFFICES ASSUME NEW d \in Controls, IsActive(d) PROVE FALSE
      OBVIOUS
    <3>1. controls[d].file_size \in Nat /\ controls[d].file_size <= -1
      BY <2>1, MemberTypes DEF ControlsInv, SizesKnown, SizesOK
    <3> QED BY <3>1
  <2>3. MaxFileSize \in Nat
    BY HalfLimit
  <2> QED BY <2>1, <2>2, <2>3 DEF ControlsInv, ControlsTypeOK, MappingsOpen, OneProcess, SizesKnown,
                                   LockKept, IsActive
<1>3. CASE CreateMFStoreRefused(file_size, mmap_size, gran)
  BY <1>3 DEF CreateMFStoreRefused, ControlsInv, ControlsTypeOK, MappingsOpen, OneProcess,
              SizesKnown, LockKept, IsActive
<1> QED BY <1>1, <1>2, <1>3

LEMMA MakeInv ==
  ASSUME ControlsInv, NEW c \in Controls,
         \/ \E writer \in BOOLEAN : MFStoreControl(c, writer)
         \/ CreateMFStoreAdjusted(c) \/ CreateMFStoreAsAsked(c)
  PROVE  ControlsInv' /\ AdjustedAsReturned'
<1>1. AskedSizes \subseteq Nat
  <2>1. Limit \in Nat
    BY SectionAssumption
  <2> QED BY <2>1, ControlsAssumption
<1>2. ASSUME NEW writer \in BOOLEAN, MFStoreControl(c, writer)
      PROVE  ControlsInv' /\ AdjustedAsReturned'
  <2>1. PICK mmap_size \in AskedSizes \cup {store_length}, gran \in AskedGrans,
             as \in {"read_only", "read_write"} :
          /\ store_length >= 0
          /\ CheckInitialFileAndMmapSizes(store_length, mmap_size, gran)
          /\ MapFile(c, store_length, mmap_size, gran, as)
          /\ adjusted' = NotAdjusted /\ UNCHANGED store_length
    BY <1>2 DEF MFStoreControl
  <2>2. /\ store_length \in Nat /\ mmap_size \in Nat /\ store_length <= MaxFileSize
        /\ store_length' \in Int /\ store_length <= store_length'
    BY <1>1, <2>1 DEF ControlsInv, ControlsTypeOK
  <2>3. gran \in Nat /\ GranFits(gran)
    BY GranOfAsked
  <2>4. ControlsInv'
    BY <2>1, <2>2, <2>3, MapFileInv
  <2> QED BY <2>1, <2>4 DEF NotAdjusted, AdjustedAsReturned
<1>3. CASE CreateMFStoreAdjusted(c)
  <2> DEFINE Calls(asked, f, m, n) ==
               \/ /\ CreateMFStore(c, f, m, n)
                  /\ adjusted' = [asked |-> asked, args |-> <<f, m, n>>, outcome |-> "created"]
               \/ /\ CreateMFStoreFails(f, m, n)
                  /\ adjusted' = [asked |-> asked, args |-> asked, outcome |-> "failed"]
               \/ /\ CreateMFStoreRefused(f, m, n)
                  /\ adjusted' = [asked |-> asked, args |-> asked, outcome |-> "refused"]
  <2>a. PICK file_size \in AskedSizes, mmap_size \in AskedSizes, gran \in AskedGrans :
          Calls(<<file_size, mmap_size, gran>>, FixUpValueGran(file_size, gran),
                FixUpValueGran(mmap_size, gran), FixUpStorageGran(gran))
    BY <1>3 DEF CreateMFStoreAdjusted
  <2>b. PICK fs : fs = FixUpValueGran(file_size, gran)
    OBVIOUS
  <2>c. PICK ms : ms = FixUpValueGran(mmap_size, gran)
    OBVIOUS
  <2>d. PICK g : g = FixUpStorageGran(gran)
    OBVIOUS
  <2>1. /\ file_size \in AskedSizes /\ mmap_size \in AskedSizes /\ gran \in AskedGrans
        /\ fs = FixUpValueGran(file_size, gran) /\ ms = FixUpValueGran(mmap_size, gran)
        /\ g = FixUpStorageGran(gran)
        /\ Calls(<<file_size, mmap_size, gran>>, fs, ms, g)
    BY <2>a, <2>b, <2>c, <2>d
  <2>2. /\ fs \in Nat /\ ms \in Nat /\ g \in Nat /\ GranFits(g)
        /\ CheckInitialFileAndMmapSizes(fs, ms, g) =>
             /\ file_size <= fs /\ mmap_size <= ms /\ gran <= g
             /\ fs % g = 0 /\ ms % g = 0 /\ g % g = 0
        /\ ~CheckInitialFileAndMmapSizes(fs, ms, g) =>
             mmap_size < file_size \/ file_size + g >= Limit \/ mmap_size + g >= Limit
    BY <2>1, AdjustedSizes
  <2>3. ControlsInv'
    BY <2>1, <2>2, CreateInv
  <2>4. file_size \in Nat /\ mmap_size \in Nat /\ gran \in Nat
    BY <1>1, GranOfAsked
  <2>5. ASSUME CheckInitialFileAndMmapSizes(fs, ms, g), adjusted'.outcome = "created"
        PROVE  AdjustedAsReturned'
    <3>1. adjusted'.args = <<fs, ms, g>> /\ adjusted'.asked = <<file_size, mmap_size, gran>>
      BY <2>1, <2>5
    <3>2. \A i \in 1 .. 3 :
            adjusted'.args[i] >= adjusted'.asked[i] /\ adjusted'.args[i] % adjusted'.args[3] = 0
      <4>1. file_size <= fs /\ mmap_size <= ms /\ gran <= g /\ fs % g = 0 /\ ms % g = 0 /\ g % g = 0
        BY <2>2, <2>5
      <4>2. \A i \in 1 .. 3 : i = 1 \/ i = 2 \/ i = 3
        OBVIOUS
      <4> QED BY <2>2, <2>4, <3>1, <4>1, <4>2
    <3> QED BY <2>5, <3>2 DEF AdjustedAsReturned
  <2>6. ASSUME adjusted'.outcome = "failed", adjusted'.args = adjusted'.asked
        PROVE  AdjustedAsReturned'
    BY <2>6 DEF AdjustedAsReturned
  <2>7. ASSUME ~CheckInitialFileAndMmapSizes(fs, ms, g), adjusted'.outcome = "refused",
               adjusted'.args = adjusted'.asked,
               adjusted'.asked = <<file_size, mmap_size, gran>>
        PROVE  AdjustedAsReturned'
    <3>1. mmap_size < file_size \/ file_size + g >= Limit \/ mmap_size + g >= Limit
      BY <2>2, <2>7
    <3>2. adjusted'.asked[1] = file_size /\ adjusted'.asked[2] = mmap_size /\ adjusted'.asked[3] = gran
      BY <2>7
    <3> QED BY <2>1, <2>7, <3>1, <3>2 DEF AdjustedAsReturned
  <2>8. AdjustedAsReturned'
    BY <2>1, <2>5, <2>6, <2>7 DEF CreateMFStore, CreateMFStoreRefused
  <2> QED BY <2>3, <2>8
<1>4. CASE CreateMFStoreAsAsked(c)
  <2>1. PICK file_size \in AskedSizes, mmap_size \in AskedSizes, gran \in AskedGrans :
          \/ CreateMFStore(c, file_size, mmap_size, gran)
          \/ CreateMFStoreFails(file_size, mmap_size, gran)
    BY <1>4 DEF CreateMFStoreAsAsked
  <2>2. ControlsInv'
    BY <1>1, <2>1, GranOfAsked, CreateInv
  <2> QED BY <1>4, <2>2 DEF CreateMFStoreAsAsked, NotAdjusted, AdjustedAsReturned
<1> QED BY <1>2, <1>3, <1>4

\* The lock, and a file that grows.
LEMMA UseInv ==
  ASSUME ControlsInv, NEW c \in Controls, GetWriterAdvisoryLockOf(c) \/ EnsureFileBackingStore(c)
  PROVE  ControlsInv'
<1>1. CASE GetWriterAdvisoryLockOf(c)
  <2>1. /\ IsActive(c) /\ lock_owner \in {NoProcess, ProcessOf[c]} /\ lock_owner' = ProcessOf[c]
        /\ writers' = writers \cup {controls[c].mapping}
        /\ UNCHANGED <<store_length, controls, mode, opened_twice>>
    BY <1>1 DEF GetWriterAdvisoryLockOf
  <2>2. controls[c].mapping \in Mappings /\ mode[controls[c].mapping] # "closed"
    BY <2>1, MemberTypes DEF IsActive, ControlsInv, MappingsOpen
  <2>3. ControlsTypeOK' /\ MappingsOpen'
    BY <2>1, <2>2, ProcessTypes DEF ControlsInv, ControlsTypeOK, MappingsOpen, IsActive
  <2>4. LockKept'
    <3> SUFFICES ASSUME NEW d \in Controls, IsActive(d), controls[d].mapping \in writers',
                        ProcessOf[d] \notin opened_twice
                 PROVE  ProcessOf[d] = ProcessOf[c]
      BY <2>1 DEF LockKept, IsActive
    <3>1. CASE controls[d].mapping = controls[c].mapping
      BY <2>1, <3>1 DEF ControlsInv, OneProcess
    <3>2. CASE controls[d].mapping # controls[c].mapping
      <4>1. lock_owner = ProcessOf[d]
        BY <2>1, <3>2 DEF ControlsInv, LockKept
      <4> QED BY <2>1, <4>1, ProcessTypes
    <3> QED BY <3>1, <3>2
  <2> QED BY <2>1, <2>3, <2>4 DEF ControlsInv, OneProcess, SizesKnown, IsActive
<1>2. CASE EnsureFileBackingStore(c)
  <2>1. PICK length \in GrownLengths :
          /\ length > store_length /\ length <= MaxFileSize /\ store_length' = length
          /\ UNCHANGED <<controls, mode, lock_owner, writers, opened_twice>>
    BY <1>2 DEF EnsureFileBackingStore
  <2>2. length \in Nat /\ store_length \in Int
    BY ControlsAssumption DEF ControlsInv, ControlsTypeOK
  <2>3. SizesKnown'
    <3> SUFFICES ASSUME NEW d \in Controls, IsActive(d) PROVE SizesOK(controls[d], length)
      BY <2>1 DEF SizesKnown, SizesOK, IsActive
    <3>1. SizesOK(controls[d], store_length) /\ controls[d].file_size \in Nat
      BY MemberTypes DEF ControlsInv, SizesKnown
    <3>2. controls[d].file_size <= length
      BY <2>1, <2>2, <3>1 DEF SizesOK
    <3> QED BY <3>1, <3>2 DEF SizesOK
  <2>4. ControlsTypeOK'
    BY <2>1, <2>2 DEF ControlsInv, ControlsTypeOK
  <2> QED BY <2>1, <2>3, <2>4 DEF ControlsInv, MappingsOpen, OneProcess, LockKept, IsActive
<1> QED BY <1>1, <1>2

LEMMA ReleasedOf ==
  ASSUME ControlsInv, NEW c \in Controls
  PROVE  Released(c) \subseteq Mappings \cap {controls[c].mapping}
BY MemberTypes DEF Released, ControlsInv

\* Copies, moves and ends of controls.
LEMMA PassInv ==
  ASSUME ControlsInv, NEW c \in Controls,
         \/ \E d \in Controls : CopyControl(c, d) \/ MoveControl(c, d)
         \/ DestroyControl(c)
  PROVE  ControlsInv'
<1>0. /\ controls \in [Controls -> Members]
      /\ \A d \in Controls : ProcessOf[d] \in Processes
  BY ProcessTypes DEF ControlsInv, ControlsTypeOK
<1>1. ASSUME NEW d \in Controls, CopyControl(c, d) PROVE ControlsInv'
  <2> DEFINE closed == Released(d) \ {controls[c].mapping}
             p == ProcessOf[d]
  <2>1. /\ c # d /\ ProcessOf[c] = p
        /\ controls' = [controls EXCEPT ![d] = controls[c]]
        /\ mode' = [m \in Mappings |-> IF m \in closed THEN "closed" ELSE mode[m]]
        /\ writers' = writers \ closed
        /\ lock_owner' = IF closed # {} /\ lock_owner = p THEN NoProcess ELSE lock_owner
        /\ UNCHANGED <<store_length, opened_twice>>
    BY <1>1 DEF CopyControl, Replace
  <2>2. closed \in SUBSET Mappings /\ \A m \in closed : controls[d].mapping = m
    BY ReleasedOf
  <2>3. ASSUME NEW a \in Controls, controls'[a].mapping # NoMapping
        PROVE  /\ controls'[a].mapping \notin closed
               /\ \E b \in Controls : controls[b] = controls'[a] /\ ProcessOf[b] = ProcessOf[a]
    <3>1. CASE a = d
      BY <1>0, <2>1, <3>1
    <3>2. CASE a # d
      BY <1>0, <2>1, <3>2 DEF Released
    <3> QED BY <3>1, <3>2
  <2>4. controls' \in [Controls -> Members] /\ p \in Processes
    BY <1>0, <2>1
  <2>5. \A m \in closed : \E b \in Controls : controls[b].mapping = m /\ ProcessOf[b] = p
    BY <2>2
  <2> HIDE DEF closed, p
  <2> QED BY <2>1, <2>2, <2>3, <2>4, <2>5, PassedOn
<1>2. ASSUME NEW d \in Controls, MoveControl(c, d) PROVE ControlsInv'
  <2> DEFINE closed == Released(d) \ {controls[c].mapping}
             p == ProcessOf[d]
  <2>1. /\ c # d /\ ProcessOf[c] = p
        /\ controls' = [controls EXCEPT ![d] = controls[c], ![c] = Inactive]
        /\ mode' = [m \in Mappings |-> IF m \in closed THEN "closed" ELSE mode[m]]
        /\ writers' = writers \ closed
        /\ lock_owner' = IF closed # {} /\ lock_owner = p THEN NoProcess ELSE lock_owner
        /\ UNCHANGED <<store_length, opened_twice>>
    BY <1>2 DEF MoveControl
  <2>2. closed \in SUBSET Mappings /\ \A m \in closed : controls[d].mapping = m
    BY ReleasedOf
  <2>a. Inactive \in Members /\ Inactive.mapping = NoMapping
    BY DEF Inactive, Members
  <2>3. ASSUME NEW a \in Controls, controls'[a].mapping # NoMapping
        PROVE  /\ controls'[a].mapping \notin closed
               /\ \E b \in Controls : controls[b] = controls'[a] /\ ProcessOf[b] = ProcessOf[a]
    <3>1. CASE a = d
      BY <1>0, <2>1, <3>1
    <3>2. CASE a # d
      BY <1>0, <2>1, <2>3, <2>a, <3>2 DEF Released
    <3> QED BY <3>1, <3>2
  <2>4. controls' \in [Controls -> Members] /\ p \in Processes
    BY <1>0, <2>1, <2>a
  <2>5. \A m \in closed : \E b \in Controls : controls[b].mapping = m /\ ProcessOf[b] = p
    BY <2>2
  <2> HIDE DEF closed, p
  <2> QED BY <2>1, <2>2, <2>3, <2>4, <2>5, PassedOn
<1>3. CASE DestroyControl(c)
  <2> DEFINE closed == Released(c) \ {NoMapping}
             p == ProcessOf[c]
  <2>a. Inactive \in Members /\ Inactive.mapping = NoMapping
    BY DEF Inactive, Members
  <2>1. /\ controls' = [controls EXCEPT ![c] = Inactive]
        /\ mode' = [m \in Mappings |-> IF m \in closed THEN "closed" ELSE mode[m]]
        /\ writers' = writers \ closed
        /\ lock_owner' = IF closed # {} /\ lock_owner = p THEN NoProcess ELSE lock_owner
        /\ UNCHANGED <<store_length, opened_twice>>
    BY <1>3, <2>a DEF DestroyControl, Replace
  <2>2. closed \in SUBSET Mappings /\ \A m \in closed : controls[c].mapping = m
    BY ReleasedOf
  <2>3. ASSUME NEW a \in Controls, controls'[a].mapping # NoMapping
        PROVE  /\ controls'[a].mapping \notin closed
               /\ \E b \in Controls : controls[b] = controls'[a] /\ ProcessOf[b] = ProcessOf[a]
    <3>1. a # c
      BY <1>0, <2>1, <2>3, <2>a
    <3> QED BY <1>0, <2>1, <3>1 DEF Released
  <2>4. controls' \in [Controls -> Members] /\ p \in Processes
    BY <1>0, <2>1, <2>a
  <2>5. \A m \in closed : \E b \in Controls : controls[b].mapping = m /\ ProcessOf[b] = p
    BY <2>2
  <2> HIDE DEF closed, p
  <2> QED BY <2>1, <2>2, <2>3, <2>4, <2>5, PassedOn
<1> QED BY <1>1, <1>2, <1>3

LEMMA EndProcessInv == ASSUME ControlsInv, NEW p \in Processes, EndProcess(p) PROVE ControlsInv'
<1> DEFINE gone == {controls[c].mapping : c \in {d \in Controls : ProcessOf[d] = p}}
<1>1. /\ controls' = [c \in Controls |-> IF ProcessOf[c] = p THEN Inactive ELSE controls[c]]
      /\ mode' = [m \in Mappings |-> IF m \in gone THEN "closed" ELSE mode[m]]
      /\ writers' = writers \ gone
      /\ lock_owner' = IF lock_owner = p THEN NoProcess ELSE lock_owner
      /\ opened_twice' = opened_twice \ {p}
      /\ UNCHANGED store_length
  BY DEF EndProcess
<1>2. Inactive \in Members /\ Inactive.mapping = NoMapping
  BY DEF Inactive, Members
<1>3. ASSUME NEW c \in Controls, controls'[c].mapping # NoMapping
      PROVE  /\ ProcessOf[c] # p /\ controls'[c] = controls[c] /\ IsActive(c)
             /\ controls[c].mapping \in Mappings \ gone
  <2>1. ProcessOf[c] # p /\ controls'[c] = controls[c] /\ IsActive(c)
    BY <1>1, <1>2, <1>3 DEF IsActive
  <2>2. controls[c].mapping \in Mappings
    BY <2>1, MemberTypes DEF IsActive, ControlsInv
  <2>3. controls[c].mapping \notin gone
    <3> SUFFICES ASSUME NEW d \in Controls, ProcessOf[d] = p, controls[d].mapping = controls[c].mapping
                 PROVE  FALSE
      OBVIOUS
    <3>1. IsActive(d)
      BY <2>1 DEF IsActive
    <3> QED BY <2>1, <3>1 DEF ControlsInv, OneProcess
  <2> QED BY <2>1, <2>2, <2>3
<1> HIDE DEF gone
<1>4. ControlsTypeOK'
  BY <1>1, <1>2 DEF ControlsInv, ControlsTypeOK
<1>5. MappingsOpen'
  <2>1. ASSUME NEW m \in writers' PROVE mode'[m] # "closed"
    BY <1>1 DEF ControlsInv, MappingsOpen, ControlsTypeOK
  <2>2. ASSUME NEW c \in Controls, controls'[c].mapping # NoMapping
        PROVE  mode'[controls'[c].mapping] # "closed"
    BY <1>1, <1>3, <2>2 DEF ControlsInv, MappingsOpen
  <2> QED BY <2>1, <2>2 DEF MappingsOpen, IsActive
<1>6. OneProcess'
  <2> SUFFICES ASSUME NEW c \in Controls, NEW d \in Controls,
                      controls'[c].mapping # NoMapping, controls'[d].mapping # NoMapping
               PROVE  /\ controls'[c].mapping = controls'[d].mapping => ProcessOf[c] = ProcessOf[d]
                      /\ ProcessOf[c] = ProcessOf[d] /\ ProcessOf[c] \notin opened_twice'
                           => controls'[c].mapping = controls'[d].mapping
    BY DEF OneProcess, IsActive
  <2> QED BY <1>1, <1>3 DEF ControlsInv, OneProcess
<1>7. SizesKnown'
  <2> SUFFICES ASSUME NEW c \in Controls, controls'[c].mapping # NoMapping
               PROVE  SizesOK(controls'[c], store_length)
    BY <1>1 DEF SizesKnown, SizesOK, IsActive
  <2> QED BY <1>3 DEF ControlsInv, SizesKnown
<1>8. LockKept'
  <2> SUFFICES ASSUME NEW c \in Controls, controls'[c].mapping # NoMapping,
                      controls'[c].mapping \in writers', ProcessOf[c] \notin opened_twice'
               PROVE  lock_owner' = ProcessOf[c]
    BY DEF LockKept, IsActive
  <2> QED BY <1>1, <1>3 DEF ControlsInv, LockKept
<1> QED BY <1>4, <1>5, <1>6, <1>7, <1>8 DEF ControlsInv

LEMMA ControlsStep ==
  ControlsInv /\ AdjustedAsReturned /\ [ControlsNext]_<<section_list, controlVars>>
    => ControlsInv' /\ AdjustedAsReturned'
<1> SUFFICES ASSUME ControlsInv, AdjustedAsReturned, [ControlsNext]_<<section_list, controlVars>>
             PROVE  ControlsInv' /\ AdjustedAsReturned'
  OBVIOUS
<1>1. CASE UNCHANGED <<section_list, controlVars>>
  BY <1>1 DEF controlVars, ControlsInv, ControlsTypeOK, MappingsOpen, OneProcess, SizesKnown,
              LockKept, IsActive, AdjustedAsReturned
<1>2. ASSUME adjusted' = NotAdjusted PROVE AdjustedAsReturned'
  BY <1>2 DEF NotAdjusted, AdjustedAsReturned
<1>3. ASSUME NEW c \in Controls, GetWriterAdvisoryLockOf(c) \/ EnsureFileBackingStore(c)
      PROVE  ControlsInv' /\ AdjustedAsReturned'
  BY <1>2, <1>3, UseInv DEF GetWriterAdvisoryLockOf, EnsureFileBackingStore
<1>4. ASSUME NEW c \in Controls,
             \/ \E d \in Controls : CopyControl(c, d) \/ MoveControl(c, d)
             \/ DestroyControl(c)
      PROVE  ControlsInv' /\ AdjustedAsReturned'
  BY <1>2, <1>4, PassInv DEF CopyControl, MoveControl, DestroyControl
<1>5. ASSUME NEW p \in Processes, EndProcess(p) PROVE ControlsInv' /\ AdjustedAsReturned'
  BY <1>2, <1>5, EndProcessInv DEF EndProcess
<1> QED BY <1>1, <1>3, <1>4, <1>5, MakeInv DEF ControlsNext

\* What a control accepts is a layout of the file as it is now.
LEMMA KeptSizes == SectionTypeOK /\ ControlsInv => SizesKept
<1> SUFFICES ASSUME SectionTypeOK, ControlsInv, NEW c \in Controls, IsActive(c)
             PROVE  /\ mode[controls[c].mapping] # "closed"
                    /\ controls[c].file_size <= store_length
                    /\ CheckInitialFileAndMmapSizes(controls[c].file_size, controls[c].mmap_size,
                                                    controls[c].alloc_gran)
                    /\ ControlAccepts(c) => Layout(section_list, store_length)
  BY DEF SizesKept
<1>1. SizesOK(controls[c], store_length) /\ mode[controls[c].mapping] # "closed"
  BY DEF ControlsInv, SizesKnown, MappingsOpen
<1>2. PICK size \in Nat : size = controls[c].file_size
  BY MemberTypes DEF ControlsInv
<1>3. PICK gran : gran = controls[c].alloc_gran
  OBVIOUS
<1>4. size <= store_length /\ size # 0 /\ GranFits(gran)
  BY <1>1, <1>2, <1>3 DEF SizesOK, CheckInitialFileAndMmapSizes, CheckFileSize
<1>5. store_length \in Nat /\ store_length <= MaxFileSize /\ MaxFileSize \in Nat
  BY <1>2, <1>4, HalfLimit DEF ControlsInv, ControlsTypeOK
<1>6. ASSUME ControlAccepts(c) PROVE Layout(section_list, store_length)
  <2>1. CheckSectionList(section_list, gran, size)
    BY <1>2, <1>3, <1>6 DEF ControlAccepts
  <2>2. section_list \in Seq(Sections)
    BY DEF SectionTypeOK, Sections
  <2>3. size \in 1 .. MaxFileSize
    BY <1>4, <1>5
  <2>4. /\ LengthsFit(section_list, gran) /\ Adjacent(section_list)
        /\ \A i \in DOMAIN section_list : section_list[i].offset + section_list[i].padded <= size
    BY <1>4, <2>1, <2>2, <2>3, AcceptedAdjacent
  <2>5. ASSUME NEW i \in DOMAIN section_list
        PROVE  section_list[i].offset + section_list[i].padded <= store_length
    <3>1. section_list[i].offset \in Nat /\ section_list[i].padded \in Nat
      BY <2>2, SectionTypes
    <3> QED BY <1>4, <1>5, <2>4, <3>1
  <2> QED BY <1>5, <2>2, <2>4, <2>5, AdjacentLayout
<1> QED BY <1>1, <1>6 DEF SizesOK

\* For every number of controls, processes and mappings and every list of sections: a control
\* that has obtained the lock of src/MFStore/GetWriterAdvisoryLock.cpp:52 has it while a copy
\* of it is left, unless its process has mapped the file more than once; the sizes that it
\* keeps (src/MFStore/MFStoreControl.cpp:80) are no more than the file has, and sections that
\* it accepts lie in the file as it is now; and CreateMFStoreAdjusted
\* (src/MFStore/CreateMFStore.cpp:133) changes its arguments only when it returns, to sizes
\* that are large enough although they are rounded up in 64 bits.
THEOREM ControlsKeepPromises == ControlsSpec => []ControlsKept
<1>1. ControlsInit => ControlsInv /\ AdjustedAsReturned
  BY ControlsInitInv
<1>2. ControlsInv /\ AdjustedAsReturned /\ [ControlsNext]_<<section_list, controlVars>>
        => ControlsInv' /\ AdjustedAsReturned'
  BY ControlsStep
<1>3. SectionTypeOK /\ [ControlsNext]_<<section_list, controlVars>> => SectionTypeOK'
  BY DEF ControlsNext, SectionTypeOK
<1>4. SectionTypeOK /\ ControlsInv /\ AdjustedAsReturned => ControlsKept
  BY KeptSizes DEF ControlsInv, ControlsKept
<1> QED BY <1>1, <1>2, <1>3, <1>4, PTL DEF ControlsSpec
=============================================================================
