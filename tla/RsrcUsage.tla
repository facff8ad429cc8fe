------------------------------ MODULE RsrcUsage ------------------------------
(***************************************************************************)
(* RsrcUsage of src/Utility, as it is built for POSIX: objects that take   *)
(* the usage counters of the process or of its children, the differences   *)
(* of two of them, and the listings that are made of an object.  The title *)
(* of a member is taken as the member's name.                              *)
(***************************************************************************)
EXTENDS Integers, Sequences, SequencesExt

CONSTANTS
  UsageObjects,    \* the objects of class RsrcUsage
  Counted,         \* the members whose counters move in this instance
  CounterMax,      \* bound of a counter
  UsageMax,        \* RsrcUsageTimeMax and RsrcUsageValueMax: the mark of an absent member
  QuestionMarks, NoText,
  NoInterval

VARIABLES
  counters,        \* the counters of the system, by selector and member
  usage,           \* the members of every object
  interval         \* for the properties: what an object stands for, a pair of counters

usageVars == <<counters, usage, interval>>

-----------------------------------------------------------------------------
(* The members, in the order of the structure and as the lists have them.  *)

TimeMembers ==
  <<"user_cpu_time", "system_cpu_time", "trap_cpu_time", "text_pagef_time",
    "data_pagef_time", "kernel_pagef_time", "user_lock_time", "other_sleep_time",
    "wait_cpu_time", "stopped_time">>

ValueMembers ==
  <<"minor_pagef", "major_pagef", "process_swaps", "input_blocks", "output_blocks",
    "messages_sent", "messages_received", "messages_other", "signals_received",
    "vol_context_switch", "invol_context_switch", "system_calls", "chars_read_written",
    "chars_read", "chars_written", "chars_other", "working_set_size",
    "working_set_size_peak", "pagefile_usage", "pagefile_usage_peak">>

UsageMembers == ToSet(TimeMembers \o ValueMembers)

\* The members that rusage_datum takes from getrusage(), by ru_ name, and so
\* those that RsrcUsageSpec leaves marked as supported.
FromSystem ==
  [user_cpu_time |-> "utime", system_cpu_time |-> "stime", minor_pagef |-> "minflt",
   major_pagef |-> "majflt", process_swaps |-> "nswap", input_blocks |-> "inblock",
   output_blocks |-> "oublock", messages_sent |-> "msgsnd", messages_received |-> "msgrcv",
   signals_received |-> "nsignals", vol_context_switch |-> "nvcsw",
   invol_context_switch |-> "nivcsw"]

ASSUME UsageAssumption == Counted \subseteq DOMAIN FromSystem /\ CounterMax \in Nat

RsrcUsageSpecUnsupported ==
  {"trap_cpu_time", "text_pagef_time", "data_pagef_time", "kernel_pagef_time",
   "user_lock_time", "other_sleep_time", "wait_cpu_time", "stopped_time",
   "messages_other", "system_calls", "chars_read_written", "chars_read",
   "chars_written", "chars_other", "working_set_size", "working_set_size_peak",
   "pagefile_usage", "pagefile_usage_peak"}

\* The elements are written in the order of the structure, and are kept in a set that is
\* ordered by their offsets and in which the supported ones are marked.
RsrcUsageMemberList == TimeMembers \o ValueMembers

Offset(member) ==
  CHOOSE i \in DOMAIN RsrcUsageMemberList : (TimeMembers \o ValueMembers)[i] = member

RsrcUsageElementLess(member, other) == Offset(member) < Offset(other)

MemberList == SortSeq(RsrcUsageMemberList, RsrcUsageElementLess)

IsSupported(member) == member \notin RsrcUsageSpecUnsupported

NameListTimes ==
  <<"user_cpu_time", "system_cpu_time", "trap_cpu_time", "text_pagef_time",
    "data_pagef_time", "kernel_pagef_time", "user_lock_time", "other_sleep_time",
    "wait_cpu_time", "stopped_time">>

NameListValues ==
  <<"minor_pagef", "major_pagef", "process_swaps", "input_blocks", "output_blocks",
    "messages_sent", "messages_received", "messages_other", "signals_received",
    "vol_context_switch", "invol_context_switch", "system_calls", "chars_read_written",
    "chars_read", "chars_written", "chars_other", "working_set_size",
    "working_set_size_peak", "pagefile_usage", "pagefile_usage_peak">>

GetListTimes(u) ==
  <<u.user_cpu_time, u.system_cpu_time, u.trap_cpu_time, u.text_pagef_time,
    u.data_pagef_time, u.kernel_pagef_time, u.user_lock_time, u.other_sleep_time,
    u.wait_cpu_time, u.stopped_time>>

GetListValues(u) ==
  <<u.minor_pagef, u.major_pagef, u.process_swaps, u.input_blocks, u.output_blocks,
    u.messages_sent, u.messages_received, u.messages_other, u.signals_received,
    u.vol_context_switch, u.invol_context_switch, u.system_calls, u.chars_read_written,
    u.chars_read, u.chars_written, u.chars_other, u.working_set_size,
    u.working_set_size_peak, u.pagefile_usage, u.pagefile_usage_peak>>

-----------------------------------------------------------------------------
(* Listings, as sequences of a title and a text.                           *)

EmptyFormats == {"None", "Zero", "Null", "Skip"}

EmptyText(format) == IF format = "Null" THEN QuestionMarks ELSE 0

RsrcUsageToStringList(u, format) ==
  LET Listed(member) == IsSupported(member) \/ format # "Skip"
      titles         == SelectSeq(MemberList, Listed)
  IN [i \in DOMAIN titles |->
        <<titles[i], IF IsSupported(titles[i]) THEN u[titles[i]] ELSE EmptyText(format)>>]

\* The members of the class, and the static one that returns a list, list the same.
ToStringList(u, format)       == RsrcUsageToStringList(u, format)
StaticToStringList(u, format) == ToStringList(u, format)

\* The static one that is given a list gets it by value: its caller's list stays.
StaticToStringListInto(out_list, u, format) == out_list

\* The lines of the list in one text, with line feeds between them.
LineFeed == <<>>

ToStringLines(u, format) ==
  LET list == ToStringList(u, format)
  IN [i \in 1 .. 2 * Len(list) - 1 |-> IF i % 2 = 1 THEN list[(i + 1) \div 2] ELSE LineFeed]

\* The name list and the data list are read side by side.
NoDatumText(format) ==
  CASE format = "Zero" -> 0
    [] format = "Null" -> QuestionMarks
    [] OTHER           -> NoText

ListSideBySide(names, data, format) ==
  LET lines == [i \in DOMAIN names |->
                  <<names[i], IF data[i] = UsageMax THEN NoDatumText(format) ELSE data[i]>>]
      Kept(line) == ~(format = "Skip" /\ \E i \in DOMAIN names :
                        names[i] = line[1] /\ data[i] = UsageMax)
  IN SelectSeq(lines, Kept)

ToStringListTimes(u, format)  == ListSideBySide(NameListTimes, GetListTimes(u), format)
ToStringListValues(u, format) == ListSideBySide(NameListValues, GetListValues(u), format)

RsrcUsageToString(u) == GetListTimes(u) \o GetListValues(u)

-----------------------------------------------------------------------------
(* Taking and subtracting.                                                 *)

Selectors == {"RUSAGE_SELF", "RUSAGE_CHILDREN"}
NoUsage   == [member \in UsageMembers |-> 0]

\* getrusage(), of any other selector, fails with EINVAL.
SystemUsage(selector) ==
  [name \in {FromSystem[member] : member \in DOMAIN FromSystem} |->
     LET member == CHOOSE m \in DOMAIN FromSystem : FromSystem[m] = name
     IN IF member \in Counted THEN counters[selector][member] ELSE 0]

UsageOf(selector) ==
  LET rusage == SystemUsage(selector)
  IN [member \in UsageMembers |->
        IF member \in DOMAIN FromSystem THEN rusage[FromSystem[member]] ELSE 0]

\* GetDifferenceAbs of two times, or the larger value less the smaller one.
Difference_Bug(start, end) == end - start

Difference(start, end) == IF start <= end THEN end - start ELSE start - end

\* The last three members are made of the first of the four.
DeltaSource(member) ==
  IF member \in {"working_set_size_peak", "pagefile_usage", "pagefile_usage_peak"}
  THEN "working_set_size" ELSE member

DeltaOf(start, end) ==
  [member \in UsageMembers |->
     Difference(start[DeltaSource(member)], end[DeltaSource(member)])]

IntervalBetween(from, to) ==
  IF NoInterval \in {from, to} \/ from[1] # to[1] THEN NoInterval
  ELSE IF \E m \in Counted : from[2][m] # 0 \/ to[2][m] # 0 THEN NoInterval
  ELSE <<from[1], from[3], to[3]>>

Become(object, members, means) ==
  /\ usage'    = [usage EXCEPT ![object] = members]
  /\ interval' = [interval EXCEPT ![object] = means]
  /\ UNCHANGED counters

NoCounts == [member \in Counted |-> 0]

GetRsrcUsage(object) ==
  \E selector \in Selectors :
    Become(object, UsageOf(selector), <<selector, NoCounts, counters[selector]>>)

\* The default constructor, and an assignment of what it makes.
RsrcUsageReset(object) == Become(object, NoUsage, NoInterval)

\* The copy constructor, the assignment and swap.
RsrcUsageAssign(object, other) == Become(object, usage[other], interval[other])

RsrcUsageSwap(object, other) ==
  /\ usage'    = [usage EXCEPT ![object] = usage[other], ![other] = usage[object]]
  /\ interval' = [interval EXCEPT ![object] = interval[other], ![other] = interval[object]]
  /\ UNCHANGED counters

\* The static call, for which any of the three objects may be one.
GetRsrcUsageDelta(start, end, delta) ==
  Become(delta, DeltaOf(usage[start], usage[end]),
         IntervalBetween(interval[start], interval[end]))

\* The call without an end: the usage of the process up to now.
GetRsrcUsageDeltaNow(start, delta) ==
  Become(delta, DeltaOf(usage[start], UsageOf("RUSAGE_SELF")),
         IntervalBetween(interval[start],
                         <<"RUSAGE_SELF", NoCounts, counters["RUSAGE_SELF"]>>))

SystemCounts ==
  \E selector \in Selectors, member \in Counted :
    /\ counters[selector][member] < CounterMax
    /\ counters' = [counters EXCEPT ![selector][member] = @ + 1]
    /\ UNCHANGED <<usage, interval>>

UsageInit ==
  /\ counters = [selector \in Selectors |-> NoCounts]
  /\ usage    = [object \in UsageObjects |-> NoUsage]
  /\ interval = [object \in UsageObjects |-> NoInterval]

UsageNext ==
  \/ SystemCounts
  \/ \E object \in UsageObjects : GetRsrcUsage(object) \/ RsrcUsageReset(object)
  \/ \E object, other \in UsageObjects :
       \/ RsrcUsageAssign(object, other)
       \/ RsrcUsageSwap(object, other)
       \/ GetRsrcUsageDeltaNow(object, other)
  \/ \E start, end, delta \in UsageObjects : GetRsrcUsageDelta(start, end, delta)

UsageSpec == UsageInit /\ [][UsageNext]_usageVars

-----------------------------------------------------------------------------
(* Properties.                                                             *)

\* What a member has grown by in the interval that an object stands for.
Growth(object, member) ==
  LET from == interval[object][2]
      to   == interval[object][3]
  IN IF member \notin Counted THEN 0
     ELSE IF from[member] < to[member] THEN to[member] - from[member]
     ELSE from[member] - to[member]

\* Whichever objects were taken, copied, swapped and subtracted, in whichever order
\* they were given and whether or not they are the same ones (RsrcUsage.cpp:1069), a
\* member of an object that stands for an interval is what its counter has grown by.
\* For a difference that is put into its own start this is what the code does, and
\* not what RsrcUsage.cpp:1032 says (SameStructureZero).
UsageMeasured ==
  \A object \in UsageObjects, member \in UsageMembers :
    interval[object] # NoInterval => usage[object][member] = Growth(object, member)

\* From the system's counter to the printed line: whichever objects were
\* taken, copied, swapped and subtracted, in whichever order they were given
\* and whether or not they are the same ones, ToString and both listings print
\* for every member what its counter has grown by, and the absent members are
\* printed as the format says by one listing (RsrcUsage.cpp:246) and as
\* zeros by the other, because GetRsrcUsage() never sets the values by which
\* that one knows them (RsrcUsage.cpp:941); that it sets them is what
\* RsrcUsage.cpp:762 says (AbsentMarked).  The static call that is given a list
\* (RsrcUsage.cpp:552) returns none.
UsageReported ==
  /\ UsageMeasured
  /\ \A object \in UsageObjects, format \in EmptyFormats :
       interval[object] # NoInterval =>
         LET u    == usage[object]
             list == StaticToStringList(u, format)
             both == ToStringListTimes(u, format) \o ToStringListValues(u, format)
             Printed(member) ==
               IF member \in DOMAIN FromSystem THEN Growth(object, member) ELSE EmptyText(format)
         IN /\ {list[i][1] : i \in DOMAIN list}
                 = IF format = "Skip" THEN DOMAIN FromSystem ELSE UsageMembers
            /\ \A i \in DOMAIN list : list[i][2] = Printed(list[i][1])
            /\ StaticToStringListInto(<<>>, u, format) = <<>>
            /\ SelectSeq(ToStringLines(u, format), LAMBDA line : line # LineFeed) = list
            /\ RsrcUsageToString(u) = [i \in DOMAIN MemberList |-> Growth(object, MemberList[i])]
            /\ Len(both) = Len(MemberList)
            /\ \A i \in DOMAIN both : both[i] = <<MemberList[i], Growth(object, MemberList[i])>>

\* "Members which are unavailable" are set by GetRsrcUsage() to the values that mark
\* them (RsrcUsage.cpp:762).
AbsentMarked ==
  \A object \in UsageObjects :
    GetRsrcUsage(object) =>
      \A member \in UsageMembers \ DOMAIN FromSystem : usage'[object][member] = UsageMax

\* If the start and the delta are the same structure, "each member of delta_rusage
\* will be zero" (RsrcUsage.cpp:1032).
SameStructureZero ==
  \A start, end \in UsageObjects : GetRsrcUsageDelta(start, end, start) => usage'[start] = NoUsage
=============================================================================
