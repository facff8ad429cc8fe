---------------------------- MODULE GrowingStore ----------------------------
(***************************************************************************)
(* What a memory-mapped file store promises to a process that reads it     *)
(* without a lock: the size it publishes only grows, and never past the    *)
(* bytes that the file has.  A reader that uses an old size is safe too.   *)
(***************************************************************************)
EXTENDS Naturals

VARIABLES
  stored,     \* bytes the file has
  published   \* bytes that readers are told of

Init == stored = 0 /\ published = 0

\* The file becomes longer.
Store == stored' \in Nat /\ stored' > stored /\ UNCHANGED published

\* Readers are told of more of it.
Publish == published' \in Nat /\ published' > published /\ published' <= stored
           /\ UNCHANGED stored

Next == Store \/ Publish

Spec == Init /\ [][Next]_<<stored, published>>
=============================================================================
