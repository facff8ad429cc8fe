---------------------------- MODULE MCMFStoreFile ----------------------------
(***************************************************************************)
(* Instances of MFStoreFile for TLC: processes that are alike, and sizes   *)
(* of a few granules, so that a store grows several times.                 *)
(***************************************************************************)
EXTENDS MFStoreFile, TLC

ProcessSymmetry == Permutations(Processes)
=============================================================================
