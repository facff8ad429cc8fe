------------------------ MODULE MCLogHandlerFileMMap ------------------------
(***************************************************************************)
(* Instances of LogHandlerFileMMap for TLC: pages of 2 bytes and chunks of *)
(* 6, so that a line can fit into the rest of a window, need a new one of  *)
(* a chunk, or need one longer than a chunk.                               *)
(***************************************************************************)
EXTENDS LogHandlerFileMMap, TLC

\* A file from an earlier run: empty, less than a page, pages, a chunk and more.
FoundContents == {<< >>, <<9>>, <<9, 9>>, <<9, 9, 9, 9, 9, 9, 9>>}

\* The files differ only in name.
FileSymmetry == Permutations(Files)
=============================================================================
