--------------------------- MODULE MCMappedFiles ---------------------------
(***************************************************************************)
(* The files that are mapped, checked together: a behaviour is one of a    *)
(* log file, of the life of a store file, of a store's list of sections,   *)
(* or of controls with a list that stays as it is; the others stay as they *)
(* were.                                                                   *)
(* A store file has three processes, of which one can crash, one can       *)
(* repair what it left, and one can come between them, and sizes of a few  *)
(* granules, so that it grows several times.                               *)
(* Sections have granules of 2 bytes and elements of up to 3 x 3 bytes,    *)
(* with 32 in place of 2^64: three sections can pass the limit, and one    *)
(* section alone cannot, as in the code.                                   *)
(***************************************************************************)
EXTENDS MCLogHandlerFileMMap, MFStoreFile, MFStoreControls

VARIABLE part

\* Less than a granule of 4, the largest section, and one with no elements.
ElementPairs == {<<1, 3>>, <<3, 3>>, <<2, 0>>}

MCProcessOf == [c1 |-> "p1", c2 |-> "p1", c3 |-> "p2"]

\* A list that the file has room for, and one for which it has to grow.
FixedLists ==
  {FixedUp([i \in 1 .. n |-> NewSection(<<1, 2>>, 1)], 2, n) : n \in 2 .. 3}

\* Log files differ only in name, and mappings are alike.
MappedSymmetry == FileSymmetry \union Permutations(Mappings)

MappedInit ==
  /\ part \in {"log", "store", "sections", "controls"}
  /\ Init
  /\ part # "log" => exists = {}
  /\ StoreFileInit
  /\ ControlsInit
  /\ IF part = "controls" THEN section_list \in FixedLists ELSE SectionInit

MappedNext ==
  \/ part = "log" /\ Next /\ UNCHANGED <<storeVars, section_list, controlVars, part>>
  \/ part = "store" /\ StoreFileNext /\ UNCHANGED <<vars, section_list, controlVars, part>>
  \/ part = "sections" /\ SectionNext /\ UNCHANGED <<vars, storeVars, controlVars, part>>
  \/ part = "controls" /\ ControlsNext /\ UNCHANGED <<vars, storeVars, part>>

MappedSpec == MappedInit /\ [][MappedNext]_<<vars, storeVars, section_list, controlVars, part>>
=============================================================================
