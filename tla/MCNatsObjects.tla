--------------------------- MODULE MCNatsObjects ---------------------------
(***************************************************************************)
(* Instances of NatsObjects for TLC: handles for every kind of object, and *)
(* the statuses that the wrapper tells apart.                              *)
(***************************************************************************)
EXTENDS NatsObjects, TLC

AllStatuses  == {"OK", "TIMEOUT", "NOT_FOUND", "NOT_YET_CONNECTED"}
JustOK == {"OK"}

\* Messages are alike, and so are the handles of messages.
Alike == Permutations(Messages) \union Permutations(MessageHandles)
=============================================================================
