----------------------------- MODULE Environment -----------------------------
(***************************************************************************)
(* The environment lists of src/Utility: strings "name=value", the         *)
(* conversions between lists of strings and lists or sets of elements, and *)
(* the merge of two lists.  A name is taken as its place in the order of   *)
(* names, and a value as its place in the order of values, 0 for the empty *)
(* one.                                                                    *)
(***************************************************************************)
EXTENDS Integers, Sequences, FiniteSets, SequencesExt

CONSTANTS
  SmartNames, PathNames, \* the names on the two lists of exclusions
  BadStrings,            \* strings without a "=" or without a name
  Malformed,             \* stands for an exception, and for environ being NULL
  NotMerged,
  EnvLists               \* the lists that the process and the program start with

Lists == {"base", "added", "result"}

\* The strings that occur.
EnvStrings == UNION {ToSet(list) : list \in EnvLists}

ASSUME EnvironmentAssumption ==
  /\ EnvLists \subseteq Seq(EnvStrings)
  /\ EnvStrings \ BadStrings \subseteq [name : Nat, value : Nat]
  /\ Malformed \notin Seq(EnvStrings)
  /\ \A strings \in SUBSET EnvStrings : strings # Malformed
  /\ NotMerged \notin [smart : BOOLEAN, path : BOOLEAN, into : Lists, threw : BOOLEAN,
                       base : Seq(EnvStrings), added : Seq(EnvStrings)]

VARIABLES
  environ,       \* the environment of the process, a list of strings
  envList,       \* the lists of the program: base, added, result
  merged         \* for the properties: what the merge was given

envVars == <<environ, envList, merged>>

EnvElement(name, value) == [name |-> name, value |-> value]

\* The default comparison of the structure: by name, then by value.
ElementLess(a, b) == a.name < b.name \/ (a.name = b.name /\ a.value < b.value)

\* GetEnvStringSeparatorIndex throws for a string that has no "=" or no name.
GetEnvStringSeparatorIndexThrows(string) == string \in BadStrings

-----------------------------------------------------------------------------
(* Checks and conversions.  Malformed stands for the exception.            *)

\* The index of the first string that CheckEnvironment throws for, or none.
CheckEnvironment(list) ==
  LET bad == {i \in DOMAIN list : GetEnvStringSeparatorIndexThrows(list[i])}
  IN IF bad = {} THEN {} ELSE {CHOOSE i \in bad : \A j \in bad : i <= j}

EnvpListToEnvElementList(list) ==
  IF CheckEnvironment(list) # {} THEN Malformed ELSE list

EnvElementListToEnvpList(elements) == elements

EnvpListToEnvElementSet(list) ==
  IF CheckEnvironment(list) # {} THEN Malformed ELSE ToSet(list)

\* A set is written in its order: in each place the one with as many not behind it.
EnvElementSetToEnvpList(elements) ==
  [i \in 1 .. Cardinality(elements) |->
     CHOOSE e \in elements : Cardinality({x \in elements : ~ElementLess(e, x)}) = i]

-----------------------------------------------------------------------------
(* Merging.                                                                *)

\* The elements are found by name and value, and the excluded ones are looked
\* up with an empty value: an excluded name that has a value is not found.
SmartExcluded == {EnvElement(name, 0) : name \in SmartNames}
PathExcluded  == {EnvElement(name, 0) : name \in PathNames}

MergePlain(base, added) ==
  LET baseSet  == EnvpListToEnvElementSet(base)
      addedSet == EnvpListToEnvElementSet(added)
  IN IF Malformed \in {baseSet, addedSet} THEN Malformed
     ELSE EnvElementSetToEnvpList(baseSet \cup addedSet)

\* The exclusions made of the union, so that the base loses elements, too.
MergeSmart_Bug(base, added) ==
  LET union == EnvpListToEnvElementSet(base \o added)
  IN IF union = Malformed THEN Malformed
     ELSE EnvElementSetToEnvpList(union \ (PathExcluded \cup SmartExcluded))

\* The added list without the excluded elements goes through a list of its own.
MergeSmart(base, added) ==
  LET addedSet == EnvpListToEnvElementSet(added)
  IN IF addedSet = Malformed THEN Malformed
     ELSE MergePlain(base, EnvElementSetToEnvpList(addedSet \ (PathExcluded \cup SmartExcluded)))

\* The merge with merge_path_flag is not implemented and throws.
MergedList(base, added, smart, path) ==
  IF path THEN Malformed
  ELSE IF smart THEN MergeSmart(base, added) ELSE MergePlain(base, added)

\* The result may be put into a list of its own, the base or the added list.
MergeEnvironment ==
  \E smart, path \in BOOLEAN, into \in Lists :
    LET list  == MergedList(envList["base"], envList["added"], smart, path)
        threw == list = Malformed
    IN /\ merged = NotMerged
       /\ merged'  = [smart |-> smart, path |-> path, into |-> into, threw |-> threw,
                      base |-> envList["base"], added |-> envList["added"]]
       /\ envList' = IF threw THEN envList ELSE [envList EXCEPT ![into] = list]
       /\ UNCHANGED environ

\* It throws if the process has no environment (environ is NULL).
GetEnvironment ==
  /\ merged = NotMerged
  /\ envList' = IF environ = Malformed THEN envList ELSE [envList EXCEPT !["base"] = environ]
  /\ UNCHANGED <<environ, merged>>

EnvironmentInit ==
  /\ environ \in EnvLists \cup {Malformed}
  /\ \E added \in EnvLists :
       envList = [list \in Lists |-> IF list = "added" THEN added ELSE <<>>]
  /\ merged = NotMerged

EnvironmentNext == GetEnvironment \/ MergeEnvironment

EnvironmentSpec == EnvironmentInit /\ [][EnvironmentNext]_envVars

-----------------------------------------------------------------------------
(* Properties.                                                             *)

Ascending(list) == \A i \in 2 .. Len(list) : ElementLess(list[i - 1], list[i])

ExcludedNames == SmartNames \cup PathNames

\* What a smart merge may leave out of the added list: the excluded names.
Excludable(added) == {e \in added \ BadStrings : merged.smart /\ e.name \in ExcludedNames}

\* What it has to leave out, where the look-up finds it.
LeftOut(added) == {e \in Excludable(added) : e.value = 0}

\* A merge that throws, also in the middle of the added list, changes no list
\* (GetEnvironment.cpp:433).  One that returns has put everything of both
\* lists but the excluded names of the added one, once and in order, into the
\* list it was given, also when that is the base or the added list: nothing of
\* the base is ever lost, no name is lost that is not excluded, nothing is there
\* that neither list had, and an excluded name without a value is left out.  Of
\* an excluded name with a value the property says nothing: the comment at
\* GetEnvironment.cpp:347 and the code differ (ExcludedNotMerged).  Two values of
\* one name are kept side by side, because elements are compared with their
\* values (EnvElement.hpp:61).
EnvironmentMerged ==
  merged # NotMerged =>
    LET base   == ToSet(merged.base)
        added  == ToSet(merged.added)
        lists  == base \cup added
        result == envList[merged.into]
    IN IF merged.threw
       THEN /\ merged.path \/ lists \cap BadStrings # {}
            /\ envList = [list \in Lists |-> IF list = "base" THEN merged.base
                                             ELSE IF list = "added" THEN merged.added ELSE <<>>]
       ELSE /\ Ascending(result)
            /\ base \cup (added \ Excludable(added)) \subseteq ToSet(result)
            /\ ToSet(result) \subseteq base \cup (added \ LeftOut(added))
            /\ EnvElementListToEnvpList(EnvpListToEnvElementList(result)) = result
            /\ EnvElementSetToEnvpList(EnvpListToEnvElementSet(result)) = result

\* The names of EnvMergeExcludeSmartList "won't be merged if 'merge_smart_flag' is
\* 'true'" (GetEnvironment.cpp:347), whatever their values: no element of such a
\* name comes from the added list into the result.
ExcludedNotMerged ==
  merged # NotMerged /\ merged.smart /\ ~merged.threw =>
    \A e \in ToSet(envList[merged.into]) \ ToSet(merged.base) : e.name \notin SmartNames
=============================================================================
