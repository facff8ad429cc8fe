--------------------------- MODULE StoreProcesses ---------------------------
(***************************************************************************)
(* The processes that share a file store, and the mark of none of them.    *)
(***************************************************************************)
CONSTANTS
  Processes,
  NoProcess
=============================================================================
